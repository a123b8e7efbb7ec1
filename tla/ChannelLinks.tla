---------------------------- MODULE ChannelLinks ----------------------------
(***************************************************************************)
(* Links between chats and agents.  A tenant mints a pairing code; the     *)
(* chat that sends it is bound to the code's agent; the tenant may revoke  *)
(* the link.  Binding and revoking load the row, then write what differs   *)
(* from what they loaded: two that load it together do not see each other. *)
(***************************************************************************)
EXTENDS Naturals, FiniteSets

CONSTANTS
    Links,      \* the rows, one for each code minted
    TenantOf,   \* the tenant of each
    Chats,      \* chats of one platform
    Asks        \* messages of chats, and revocations, that may overlap

ASSUME LinksAssumption == DOMAIN TenantOf = Links /\ IsFiniteSet(Asks)

NoChat == "no chat"

VARIABLES
    link,       \* agentcloud_channel_links
    ask,        \* the messages and revocations under way
    confirmed,  \* the chats that were told "Linked", with the link
    revoked,    \* the links whose tenant was told "revoked"
    collided    \* history: links that two requests had loaded for writing at once

linkVars == <<link, ask, confirmed, revoked, collided>>

LinksInit ==
    /\ link = [l \in Links |-> [status |-> "none", chat |-> NoChat, expired |-> FALSE]]
    /\ ask = [k \in Asks |-> [pc |-> "new", chat |-> NoChat, link |-> "none",
                              seen |-> "none", clears |-> {}]]
    /\ confirmed = {} /\ revoked = {} /\ collided = {}

Loaders(l) == {k \in Asks : ask[k].link = l /\ ask[k].pc \in {"loaded", "cleared", "revoking"}}
Collide(l) == collided' = IF Cardinality(Loaders(l)') > 1 THEN collided \cup {l} ELSE collided
Routed(c)  == {l \in Links : link[l].status = "linked" /\ link[l].chat = c}
Valid(l)   == link[l].status = "pending" /\ ~link[l].expired
Fail(k)    == ask' = [ask EXCEPT ![k].pc = "over"]

-----------------------------------------------------------------------------
\* create_pairing
CreatePairing(l) ==
    /\ link[l].status = "none"
    /\ link' = [link EXCEPT ![l].status = "pending"]
    /\ UNCHANGED <<ask, confirmed, revoked, collided>>

Expire(l) ==
    /\ Valid(l)
    /\ link' = [link EXCEPT ![l].expired = TRUE]
    /\ UNCHANGED <<ask, confirmed, revoked, collided>>

\* handle_inbound: a code sent by a chat that has a link goes to its agent, as a
\* message; only an unlinked chat gets to redeem it.
Receive(k, c, l) ==
    /\ ask[k].pc = "new" /\ Routed(c) = {}
    /\ ask' = [ask EXCEPT ![k].pc = "resolved", ![k].chat = c, ![k].link = l]
    /\ UNCHANGED <<link, confirmed, revoked, collided>>

\* _find_pending_by_code, across the tenants
Find(k) ==
    /\ ask[k].pc = "resolved"
    /\ ask' = [ask EXCEPT ![k].pc = IF Valid(ask[k].link) THEN "found" ELSE "over"]
    /\ UNCHANGED <<link, confirmed, revoked, collided>>

\* Faulty variant: the row found is not looked at again.
LoadAnyway(k) ==
    /\ ask[k].pc = "found"
    /\ ask' = [ask EXCEPT ![k].pc = "loaded", ![k].seen = "pending"]
    /\ Collide(ask[k].link)
    /\ UNCHANGED <<link, confirmed, revoked>>

\* bind_link loads the row if it is still pending; the expiry is not looked at again.
Load(k) ==
    /\ ask[k].pc = "found"
    /\ IF link[ask[k].link].status = "pending"
         THEN /\ ask' = [ask EXCEPT ![k].pc = "loaded", ![k].seen = "pending"]
              /\ Collide(ask[k].link)
         ELSE Fail(k) /\ UNCHANGED collided
    /\ UNCHANGED <<link, confirmed, revoked>>

\* Rows another transaction has written and not committed make this one wait.
Locked(l) == \E k \in Asks : l \in ask[k].clears

\* The other links of the chat in this tenant are revoked ...
Clear(k) ==
    LET l  == ask[k].link
        ls == {x \in Routed(ask[k].chat) \ {l} : TenantOf[x] = TenantOf[l]}
    IN  /\ ask[k].pc = "loaded" /\ ~ \E x \in ls : Locked(x)
        /\ ask' = [ask EXCEPT ![k].pc = "cleared", ![k].clears = ls]
        /\ UNCHANGED <<link, confirmed, revoked, collided>>

\* ... and the row is linked, whatever it has become, unless the index finds another
\* link of the chat.
Bind(k) ==
    LET l == ask[k].link
        c == ask[k].chat
    IN  /\ ask[k].pc = "cleared" /\ ~Locked(l)
        /\ ask' = [ask EXCEPT ![k].pc = "over", ![k].clears = {}]
        /\ IF Routed(c) \subseteq ask[k].clears \cup {l}
             THEN /\ link' = [x \in Links |->
                        IF x = l THEN [link[x] EXCEPT !.status = "linked", !.chat = c]
                        ELSE IF x \in ask[k].clears THEN [link[x] EXCEPT !.status = "revoked"]
                        ELSE link[x]]
                  /\ confirmed' = confirmed \cup {<<l, c>>}
             ELSE UNCHANGED <<link, confirmed>>
        /\ UNCHANGED <<revoked, collided>>

\* revoke_link loads the row ...
LoadToRevoke(k, l) ==
    /\ ask[k].pc = "new" /\ link[l].status # "none"
    /\ ask' = [ask EXCEPT ![k].pc = "revoking", ![k].link = l, ![k].seen = link[l].status]
    /\ Collide(l)
    /\ UNCHANGED <<link, confirmed, revoked>>

\* ... and writes the status, if it loaded another one.
Revoke(k) ==
    LET l == ask[k].link
    IN  /\ ask[k].pc = "revoking" /\ ~Locked(l)
        /\ Fail(k)
        /\ link' = IF ask[k].seen = "revoked" THEN link
                   ELSE [link EXCEPT ![l].status = "revoked"]
        /\ revoked' = revoked \cup {l}
        /\ UNCHANGED <<confirmed, collided>>

LinksNext ==
    \/ \E l \in Links : CreatePairing(l) \/ Expire(l)
    \/ \E k \in Asks : \/ \E c \in Chats, l \in Links : Receive(k, c, l)
                       \/ Find(k) \/ Load(k) \/ Clear(k) \/ Bind(k) \/ Revoke(k)
                       \/ \E l \in Links : LoadToRevoke(k, l)

LinksSpec == LinksInit /\ [][LinksNext]_linkVars

-----------------------------------------------------------------------------
LinksTypeOK ==
    /\ link \in [Links -> [status : {"none", "pending", "linked", "revoked"},
                           chat : Chats \cup {NoChat}, expired : BOOLEAN]]
    /\ ask \in [Asks -> [pc : {"new", "resolved", "found", "loaded", "cleared", "revoking", "over"},
                         chat : Chats \cup {NoChat}, link : Links \cup {"none"},
                         seen : {"none", "pending", "linked", "revoked"},
                         clears : SUBSET Links]]
    /\ confirmed \subseteq Links \X Chats
    /\ revoked \subseteq Links /\ collided \subseteq Links

\* What users were told holds unless two requests had loaded the row together: one
\* chat at most was told it is linked, a link that was revoked routes nothing, and a
\* chat that was told so is the one that is routed until a revocation or a new pairing.
AnswersHold ==
    \A l \in Links \ collided :
        /\ Cardinality({c \in Chats : <<l, c>> \in confirmed}) <= 1
        /\ l \in revoked => link[l].status = "revoked"
        /\ \A c \in Chats : <<l, c>> \in confirmed =>
              \/ link[l].status = "linked" /\ link[l].chat = c
              \/ link[l].status = "revoked"
=============================================================================

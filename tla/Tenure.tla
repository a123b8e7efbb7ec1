------------------------------- MODULE Tenure -------------------------------
(***************************************************************************)
(* What a claim table promises of one upload to whoever relies on it: it   *)
(* is worked on by one holder at a time, each tenure reaches the outside   *)
(* world at most once, and the upload is closed by its holder, for good,   *)
(* when something has been delivered.  Rows, leases, retries and crashes   *)
(* are not seen from here: a tenure may end at any time.                   *)
(***************************************************************************)
EXTENDS Naturals

CONSTANT Workers

VARIABLES
    holders,    \* who works on the upload
    unspent,    \* the tenure has not reached the outside world yet
    items,      \* what was delivered
    closed

vars == <<holders, unspent, items, closed>>

Init == holders = {} /\ unspent = FALSE /\ items = 0 /\ closed = FALSE

\* Nobody takes what is held, or what is closed.
Take(w) ==
    /\ holders = {} /\ ~closed
    /\ holders' = {w} /\ unspent' = TRUE
    /\ UNCHANGED <<items, closed>>

\* The one attempt of a tenure, which delivers or does not.
Spend ==
    /\ unspent /\ unspent' = FALSE
    /\ items' \in {items, items + 1}
    /\ UNCHANGED <<holders, closed>>

Leave ==
    /\ holders # {} /\ holders' = {} /\ unspent' = FALSE
    /\ UNCHANGED <<items, closed>>

Close ==
    /\ holders # {} /\ holders' = {}
    /\ ~unspent /\ items > 0
    /\ closed' = TRUE
    /\ UNCHANGED <<unspent, items>>

Next == (\E w \in Workers : Take(w)) \/ Spend \/ Leave \/ Close

Spec == Init /\ [][Next]_vars
=============================================================================

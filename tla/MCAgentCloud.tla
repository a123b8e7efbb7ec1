---------------------------- MODULE MCAgentCloud ----------------------------
(***************************************************************************)
(* The turns and the channel links of the agent cloud, and the chats of    *)
(* the Telegram bot: a behavior is of one of the three.  Three chats with  *)
(* one agent take their turns beside a job of another; two tenants pair    *)
(* two chats over three codes; one chat talks with the bot.                *)
(***************************************************************************)
EXTENDS Turns, ChannelLinks, BotTalk, TLC

CONSTANTS t1, t2, t3, t4, ag1, ag2, l1, l2, l3, c1, c2, k1, k2, k3

MCTurns    == {t1, t2, t3, t4}
MCAgentOf  == [t \in MCTurns |-> IF t = t4 THEN ag2 ELSE ag1]
MCTenantOf == [l \in {l1, l2, l3} |-> IF l = l3 THEN "B" ELSE "A"]
Symmetry   == Permutations({t1, t2, t3})

VARIABLE part

CloudInit == part \in {"turns", "links", "talk"} /\ TurnsInit /\ LinksInit /\ TalkInit

TurnsPart == part = "turns" /\ TurnsNext /\ UNCHANGED <<part, linkVars, talkVars>>
LinksPart == part = "links" /\ LinksNext /\ UNCHANGED <<part, turnVars, talkVars>>
TalkPart  == part = "talk" /\ TalkNext /\ UNCHANGED <<part, turnVars, linkVars>>

CloudSpec == CloudInit /\ [][TurnsPart \/ LinksPart \/ TalkPart]_<<part, turnVars, linkVars, talkVars>>
=============================================================================

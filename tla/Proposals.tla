----------------------------- MODULE Proposals -----------------------------
(***************************************************************************)
(* The agent cloud's side of an approval.  A write tool does not write: it *)
(* posts an item to the queue of the Quill API and keeps a proposals row   *)
(* (create_proposal).  When the item is resolved the row is closed and the *)
(* agent's session is woken, by the notification the API sends once and    *)
(* may lose, or by the reconcile sweep that polls the oldest open rows.    *)
(* The two systems share no transaction: every post, answer, insert and    *)
(* notification is a step of its own.  What the queue does with an item is *)
(* the subject of module Approvals; here an item is open until it ends.    *)
(***************************************************************************)
EXTENDS Naturals, Sequences, FiniteSets

CONSTANTS
    Calls,      \* calls of a write tool
    KeyOf,      \* the idempotency key of each: tenant, agent, tool, arguments
    Limit,      \* APPROVALS_RECONCILE_MAX_PER_TICK
    MaxFaults   \* bound on crashes, lost answers and failed polls together

ASSUME ProposalsAssumption == Limit \in Nat \ {0} /\ MaxFaults \in Nat

VARIABLES
    call,       \* how far each call of create_proposal is
    queue,      \* the status of the item each call posted
    proposal,   \* the status of the proposals row each call inserted
    created,    \* the calls whose row was inserted, oldest first
    aged,       \* how many of these are older than the reconcile cutoff
    sweep,      \* the rows the running sweep has still to poll
    notices,    \* calls whose item's resolution the API is announcing
    wakes,      \* wake messages written to each call's session
    faults

vars == <<call, queue, proposal, created, aged, sweep, notices, wakes, faults>>

Ends == {"executed", "rejected", "execution_failed", "cancelled"}

\* QUILL_STATUS_MAP
Mapped == [executed |-> "executed", rejected |-> "declined",
           execution_failed |-> "failed", cancelled |-> "expired"]

Init ==
    /\ call = [c \in Calls |-> "idle"]
    /\ queue = [c \in Calls |-> "none"]
    /\ proposal = [c \in Calls |-> "none"]
    /\ created = <<>> /\ aged = 0
    /\ sweep = <<>>
    /\ notices = {}
    /\ wakes = [c \in Calls |-> 0]
    /\ faults = 0

At(c, step)   == call[c] = step
GoTo(c, step) == call' = [call EXCEPT ![c] = step]
Fault         == faults < MaxFaults /\ faults' = faults + 1

PendingTwin(c) == \E d \in Calls : KeyOf[d] = KeyOf[c] /\ proposal[d] = "pending"

-----------------------------------------------------------------------------
\* create_proposal: a pending row with the same key answers the call.
Lookup(c) ==
    /\ At(c, "idle")
    /\ GoTo(c, IF PendingTwin(c) THEN "over" ELSE "looked")
    /\ UNCHANGED <<queue, proposal, created, aged, sweep, notices, wakes, faults>>

\* The item is filed, or executed at once on lane 1; the API announces the result
\* of that execution before it answers the post.  A failed execution is answered
\* by an error, which ends the call.
Post(c) ==
    /\ At(c, "looked")
    /\ \/ /\ queue' = [queue EXCEPT ![c] = "open"]
          /\ GoTo(c, "posted")
          /\ UNCHANGED notices
       \/ /\ \E status \in {"executed", "execution_failed"} :
                /\ queue' = [queue EXCEPT ![c] = status]
                /\ GoTo(c, IF status = "executed" THEN "posted" ELSE "over")
          /\ notices' \in {notices, notices \cup {c}}
    /\ UNCHANGED <<proposal, created, aged, sweep, wakes, faults>>

\* The post fails on its way, and nothing was filed.
PostFails(c) ==
    /\ At(c, "looked")
    /\ Fault
    /\ GoTo(c, "over")
    /\ UNCHANGED <<queue, proposal, created, aged, sweep, notices, wakes>>

\* The answer of the post is lost, or the process dies before it inserts the row.
AnswerLost(c) ==
    /\ At(c, "posted")
    /\ Fault
    /\ GoTo(c, "over")
    /\ UNCHANGED <<queue, proposal, created, aged, sweep, notices, wakes>>

\* Faulty variant: one pending row per tenant, whatever its key.
InsertOneAtATime(c) ==
    /\ At(c, "posted")
    /\ \/ /\ \A d \in Calls : proposal[d] # "pending"
          /\ proposal' = [proposal EXCEPT ![c] = "pending"]
          /\ created' = Append(created, c)
       \/ /\ \E d \in Calls : proposal[d] = "pending"
          /\ UNCHANGED <<proposal, created>>
    /\ GoTo(c, "over")
    /\ UNCHANGED <<queue, aged, sweep, notices, wakes, faults>>

\* The row is inserted as pending; the partial unique index on pending keys
\* refuses it when a call that overlapped this one came first.
Insert(c) ==
    /\ At(c, "posted")
    /\ \/ /\ ~PendingTwin(c)
          /\ proposal' = [proposal EXCEPT ![c] = "pending"]
          /\ created' = Append(created, c)
       \/ /\ PendingTwin(c)
          /\ UNCHANGED <<proposal, created>>
    /\ GoTo(c, "over")
    /\ UNCHANGED <<queue, aged, sweep, notices, wakes, faults>>

-----------------------------------------------------------------------------
\* The item is decided and executed, rejected or cancelled; the announcement is
\* sent once, if it is configured, and may be lost.
Resolve(c) ==
    /\ queue[c] = "open"
    /\ \E status \in Ends : queue' = [queue EXCEPT ![c] = status]
    /\ notices' \in {notices, notices \cup {c}}
    /\ UNCHANGED <<call, proposal, created, aged, sweep, wakes, faults>>

\* Faulty variant: the update does not look at the row's status.
FinalizeAlways(c) ==
    IF proposal[c] # "none"
    THEN /\ proposal' = [proposal EXCEPT ![c] = Mapped[queue[c]]]
         /\ wakes' = [wakes EXCEPT ![c] = @ + 1]
    ELSE UNCHANGED <<proposal, wakes>>

\* finalize_proposal: the update asks for a pending row, and the wake message is
\* written in the same transaction.
Finalize(c) ==
    IF proposal[c] = "pending"
    THEN /\ proposal' = [proposal EXCEPT ![c] = Mapped[queue[c]]]
         /\ wakes' = [wakes EXCEPT ![c] = @ + 1]
    ELSE UNCHANGED <<proposal, wakes>>

\* The notify handler; an announcement that finds no row is dropped.
Notify(c) ==
    /\ c \in notices
    /\ notices' = notices \ {c}
    /\ Finalize(c)
    /\ UNCHANGED <<call, queue, created, aged, sweep, faults>>

\* The clock moves a row past the cutoff.
Age ==
    /\ aged < Len(created)
    /\ aged' = aged + 1
    /\ UNCHANGED <<call, queue, proposal, created, sweep, notices, wakes, faults>>

\* The scheduler tick lists the oldest pending rows.
SweepStarts ==
    LET open == SelectSeq(SubSeq(created, 1, aged), LAMBDA c : proposal[c] = "pending")
    IN  /\ sweep = <<>> /\ open # <<>>
        /\ sweep' = SubSeq(open, 1, IF Len(open) < Limit THEN Len(open) ELSE Limit)
        /\ UNCHANGED <<call, queue, proposal, created, aged, notices, wakes, faults>>

\* Faulty variant: an item that failed is taken for one that is still open.
SweepPollsSuccess ==
    /\ sweep # <<>>
    /\ sweep' = Tail(sweep)
    /\ IF queue[Head(sweep)] \in {"executed", "rejected", "cancelled"}
       THEN Finalize(Head(sweep))
       ELSE UNCHANGED <<proposal, wakes>>
    /\ UNCHANGED <<call, queue, created, aged, notices, faults>>

\* One row of the sweep: its item is polled, and the row closed if that has ended.
SweepPolls ==
    /\ sweep # <<>>
    /\ sweep' = Tail(sweep)
    /\ IF queue[Head(sweep)] \in Ends
       THEN Finalize(Head(sweep))
       ELSE UNCHANGED <<proposal, wakes>>
    /\ UNCHANGED <<call, queue, created, aged, notices, faults>>

\* The poll fails, or the process dies and takes the rest of the sweep with it.
SweepFails ==
    /\ sweep # <<>>
    /\ Fault
    /\ sweep' \in {Tail(sweep), <<>>}
    /\ UNCHANGED <<call, queue, proposal, created, aged, notices, wakes>>

Next ==
    \/ \E c \in Calls :
          \/ Lookup(c) \/ Post(c) \/ PostFails(c) \/ AnswerLost(c) \/ Insert(c)
          \/ Resolve(c) \/ Notify(c)
    \/ Age \/ SweepStarts \/ SweepPolls \/ SweepFails

\* The clock runs and the scheduler ticks for ever; a call that has posted goes on.
\* Nobody has to decide an item, no announcement has to arrive.
Fairness ==
    /\ WF_vars(Age) /\ WF_vars(SweepStarts) /\ WF_vars(SweepPolls)
    /\ \A c \in Calls : WF_vars(Insert(c))

Spec == Init /\ [][Next]_vars
FairSpec == Spec /\ Fairness

-----------------------------------------------------------------------------
TypeOK ==
    /\ call \in [Calls -> {"idle", "looked", "posted", "over"}]
    /\ queue \in [Calls -> Ends \cup {"none", "open"}]
    /\ proposal \in [Calls -> {"none", "pending", "executed", "declined", "failed", "expired"}]
    /\ created \in Seq(Calls)
    /\ aged \in 0 .. Len(created)
    /\ sweep \in Seq(Calls)
    /\ notices \subseteq Calls
    /\ wakes \in [Calls -> Nat]
    /\ faults \in 0 .. MaxFaults

\* The agent is told the truth once: a closed row says how its item ended and has
\* woken its session exactly once, an open one has not, whichever of announcement
\* and sweep came first and however often.
ToldOnceAndRight ==
    \A c \in Calls :
        /\ proposal[c] \notin {"none", "pending"} =>
              queue[c] \in Ends /\ proposal[c] = Mapped[queue[c]] /\ wakes[c] = 1
        /\ proposal[c] \in {"none", "pending"} => wakes[c] = 0

\* One pending proposal per key, also when identical calls overlap.
OnePendingPerKey ==
    \A c, d \in Calls :
        proposal[c] = "pending" /\ proposal[d] = "pending" /\ KeyOf[c] = KeyOf[d] => c = d

\* An item no row stands for, whose resolution will reach nobody, comes from a fault,
\* from a lane-1 execution that failed, or from an identical call that overlapped the
\* one whose row was kept.
OrphansAreExplained ==
    \A c \in Calls : At(c, "over") /\ queue[c] # "none" /\ proposal[c] = "none" =>
        \/ faults > 0
        \/ queue[c] = "execution_failed"
        \/ \E d \in Calls \ {c} : KeyOf[d] = KeyOf[c] /\ proposal[d] # "none"

\* The sweep closes the loop: a row whose item has ended is closed although every
\* announcement may be lost, as long as the open rows fit into one sweep.
ResolvedIsReported ==
    \A c \in Calls : proposal[c] = "pending" /\ queue[c] \in Ends ~> proposal[c] # "pending"
=============================================================================

-------------------------- MODULE Proposals_proofs --------------------------
(***************************************************************************)
(* Proofs about module Proposals, for any calls, keys, size of a sweep and *)
(* number of faults.                                                       *)
(***************************************************************************)
EXTENDS Proposals, TLAPS

USE ProposalsAssumption

-----------------------------------------------------------------------------
(* What a call has done and what its row says are two accounts of the same item, kept
   by systems that share no transaction.  The invariant relates them: how far a call is
   bounds what there is of its item and of its row, and what is announced has ended.
   That the sweep polls rows there are is not needed: an update of none is none. *)

Typed ==
    /\ call \in [Calls -> {"idle", "looked", "posted", "over"}]
    /\ queue \in [Calls -> Ends \cup {"none", "open"}]
    /\ proposal \in [Calls -> {"none", "pending", "executed", "declined", "failed", "expired"}]
    /\ wakes \in [Calls -> Nat]
    /\ faults \in Nat

CallsInOrder ==
    \A c \in Calls :
        /\ call[c] \in {"idle", "looked"} => queue[c] = "none"
        /\ call[c] # "over" => proposal[c] = "none"

AnnouncedHaveEnded == \A c \in notices : queue[c] \in Ends

ProposalsInv ==
    /\ Typed /\ notices \subseteq Calls
    /\ CallsInOrder /\ AnnouncedHaveEnded
    /\ ToldOnceAndRight /\ OrphansAreExplained

\* The map of ends names four ends of a row.
LEMMA EndsAreMapped ==
    \A end \in Ends : Mapped[end] \in {"executed", "declined", "failed", "expired"}
BY DEF Ends, Mapped

\* No tool is called at the start.
LEMMA ProposalsStart == Init => ProposalsInv
BY DEF Init, ProposalsInv, Typed, CallsInOrder, AnnouncedHaveEnded, ToldOnceAndRight,
       OrphansAreExplained, At, Ends

\* An orphan stays explained by what explained it, as long as no row goes away, no
\* failure is undone and no fault forgotten, and no call ends.
LEMMA OrphansStay ==
    ASSUME ProposalsInv, faults' >= faults, faults' \in Nat,
           \A c \in Calls : /\ proposal'[c] = "none" <=> proposal[c] = "none"
                            /\ queue[c] = "execution_failed" => queue'[c] = queue[c]
                            /\ queue[c] = "none" <=> queue'[c] = "none"
                            /\ call'[c] = "over" <=> call[c] = "over"
    PROVE  OrphansAreExplained'
BY DEF ProposalsInv, Typed, OrphansAreExplained, At

\* finalize_proposal closes a row with the end of its item and wakes its session, or
\* does nothing.
LEMMA FinalizeTells ==
    ASSUME ProposalsInv, queue' = queue, NEW c, Finalize(c), c \in Calls => queue[c] \in Ends
    PROVE  /\ proposal' \in [Calls -> {"none", "pending", "executed", "declined", "failed", "expired"}]
           /\ wakes' \in [Calls -> Nat]
           /\ ToldOnceAndRight'
           /\ \A d \in Calls : proposal'[d] = "none" <=> proposal[d] = "none"
<1> USE DEF ProposalsInv, Typed
<1>1. CASE proposal[c] # "pending"
  BY <1>1 DEF Finalize, ToldOnceAndRight
<1>2. CASE proposal[c] = "pending"
  <2>1. /\ proposal' = [proposal EXCEPT ![c] = Mapped[queue[c]]]
        /\ wakes' = [wakes EXCEPT ![c] = @ + 1]
    BY <1>2 DEF Finalize
  <2>2. CASE c \notin Calls
    BY <2>1, <2>2 DEF ToldOnceAndRight
  <2>3. CASE c \in Calls
    <3>1. PICK end \in Ends : end = queue[c]
      BY <2>3
    <3>2. Mapped[end] \in {"executed", "declined", "failed", "expired"}
      BY EndsAreMapped
    <3>3. wakes[c] = 0
      BY <1>2, <2>3 DEF ToldOnceAndRight
    <3>4. /\ proposal'[c] = Mapped[end] /\ wakes'[c] = 1
          /\ \A d \in Calls \ {c} : proposal'[d] = proposal[d] /\ wakes'[d] = wakes[d]
      BY <2>1, <2>3, <3>1, <3>3
    <3>5. /\ proposal' \in [Calls -> {"none", "pending", "executed", "declined", "failed", "expired"}]
          /\ wakes' \in [Calls -> Nat]
      BY <2>1, <2>3, <3>1, <3>2
    <3>6. ToldOnceAndRight'
      BY <3>1, <3>2, <3>4 DEF ToldOnceAndRight
    <3>7. \A d \in Calls : proposal'[d] = "none" <=> proposal[d] = "none"
      BY <1>2, <2>3, <3>2, <3>4
    <3> QED
      BY <3>5, <3>6, <3>7
  <2> QED
    BY <2>2, <2>3
<1> QED
  BY <1>1, <1>2

-----------------------------------------------------------------------------
(* The invariant is inductive. *)

\* No step of a call, of the queue, of an announcement or of the sweep breaks the invariant.
LEMMA ProposalsStep ==
    ASSUME ProposalsInv, [Next]_vars
    PROVE  ProposalsInv'
<1>1. /\ Typed /\ notices \subseteq Calls
      /\ CallsInOrder /\ AnnouncedHaveEnded /\ ToldOnceAndRight /\ OrphansAreExplained
  BY DEF ProposalsInv
<1>2. Fault => faults' \in Nat /\ faults' > 0 /\ faults' >= faults
  BY <1>1 DEF Fault, Typed
<1>3. ASSUME NEW c \in Calls, NEW step \in {"idle", "looked", "posted", "over"}, GoTo(c, step)
      PROVE  /\ call' \in [Calls -> {"idle", "looked", "posted", "over"}] /\ call'[c] = step
             /\ \A d \in Calls \ {c} : call'[d] = call[d]
  BY <1>1, <1>3 DEF GoTo, Typed
<1>4. ASSUME NEW c \in Calls, Lookup(c)
      PROVE  ProposalsInv'
  <2>1. PICK step \in {"looked", "over"} : GoTo(c, step)
    BY <1>4 DEF Lookup
  <2>2. call[c] = "idle" /\ UNCHANGED <<queue, proposal, notices, wakes, faults>>
    BY <1>4 DEF Lookup, At
  <2>3. /\ call' \in [Calls -> {"idle", "looked", "posted", "over"}] /\ call'[c] = step
        /\ \A d \in Calls \ {c} : call'[d] = call[d]
    BY <1>3, <2>1
  <2>4. queue[c] = "none" /\ proposal[c] = "none"
    BY <1>1, <2>2 DEF CallsInOrder
  <2>5. OrphansAreExplained'
    BY <1>1, <2>2, <2>3, <2>4 DEF OrphansAreExplained, At
  <2>6. CallsInOrder'
    BY <1>1, <2>2, <2>3, <2>4 DEF CallsInOrder
  <2> QED
    BY <1>1, <2>2, <2>3, <2>5, <2>6 DEF ProposalsInv, Typed, AnnouncedHaveEnded, ToldOnceAndRight
<1>5. ASSUME NEW c \in Calls, Post(c)
      PROVE  ProposalsInv'
  <2>1. call[c] = "looked" /\ UNCHANGED <<proposal, wakes, faults>>
    BY <1>5 DEF Post, At
  <2>2. queue[c] = "none" /\ proposal[c] = "none"
    BY <1>1, <2>1 DEF CallsInOrder
  <2>3. PICK status \in {"open", "executed", "execution_failed"} :
            /\ queue' = [queue EXCEPT ![c] = status]
            /\ GoTo(c, IF status = "execution_failed" THEN "over" ELSE "posted")
            /\ notices' = notices \/ (notices' = notices \cup {c} /\ status # "open")
    BY <1>5 DEF Post
  <2>4. PICK step \in {"posted", "over"} :
            step = IF status = "execution_failed" THEN "over" ELSE "posted"
    OBVIOUS
  <2>5. /\ call' \in [Calls -> {"idle", "looked", "posted", "over"}] /\ call'[c] = step
        /\ \A d \in Calls \ {c} : call'[d] = call[d]
    BY <1>3, <2>3, <2>4
  <2>6. /\ queue' \in [Calls -> Ends \cup {"none", "open"}] /\ queue'[c] = status
        /\ \A d \in Calls \ {c} : queue'[d] = queue[d]
    BY <1>1, <2>3 DEF Typed, Ends
  <2>7. CallsInOrder'
    BY <1>1, <2>1, <2>2, <2>4, <2>5, <2>6 DEF CallsInOrder
  <2>8. notices' \subseteq Calls /\ AnnouncedHaveEnded'
    <3>1. c \notin notices
      BY <1>1, <2>2 DEF AnnouncedHaveEnded, Ends
    <3>2. status # "open" => status \in Ends
      BY DEF Ends
    <3> QED
      BY <1>1, <2>3, <2>6, <3>1, <3>2 DEF AnnouncedHaveEnded
  <2>9. ToldOnceAndRight'
    BY <1>1, <2>1, <2>2, <2>6 DEF ToldOnceAndRight
  <2>10. OrphansAreExplained'
    BY <1>1, <2>1, <2>4, <2>5, <2>6 DEF OrphansAreExplained, At
  <2> QED
    BY <1>1, <2>1, <2>5, <2>6, <2>7, <2>8, <2>9, <2>10 DEF ProposalsInv, Typed
<1>6. ASSUME NEW c \in Calls, PostFails(c) \/ AnswerLost(c)
      PROVE  ProposalsInv'
  <2>1. GoTo(c, "over") /\ Fault /\ UNCHANGED <<queue, proposal, notices, wakes>>
    BY <1>6 DEF PostFails, AnswerLost
  <2>2. /\ call' \in [Calls -> {"idle", "looked", "posted", "over"}] /\ call'[c] = "over"
        /\ \A d \in Calls \ {c} : call'[d] = call[d]
    BY <1>3, <2>1
  <2>3. OrphansAreExplained'
    BY <1>2, <2>1 DEF OrphansAreExplained
  <2>4. CallsInOrder'
    BY <1>1, <2>1, <2>2 DEF CallsInOrder
  <2> QED
    BY <1>1, <1>2, <2>1, <2>2, <2>3, <2>4 DEF ProposalsInv, Typed, AnnouncedHaveEnded, ToldOnceAndRight
<1>7. ASSUME NEW c \in Calls, Insert(c)
      PROVE  ProposalsInv'
  <2>1. /\ call[c] = "posted" /\ GoTo(c, "over") /\ UNCHANGED <<queue, notices, wakes, faults>>
        /\ \/ proposal' = [proposal EXCEPT ![c] = "pending"]
           \/ PendingTwin(c) /\ proposal' = proposal
    BY <1>7 DEF Insert, At
  <2>2. /\ call' \in [Calls -> {"idle", "looked", "posted", "over"}] /\ call'[c] = "over"
        /\ \A d \in Calls \ {c} : call'[d] = call[d]
    BY <1>3, <2>1
  <2>3. proposal[c] = "none" /\ wakes[c] = 0
    BY <1>1, <2>1 DEF CallsInOrder, ToldOnceAndRight
  <2>4. /\ proposal' \in [Calls -> {"none", "pending", "executed", "declined", "failed", "expired"}]
        /\ proposal'[c] \in {"none", "pending"}
        /\ \A d \in Calls \ {c} : proposal'[d] = proposal[d]
    BY <1>1, <2>1, <2>3 DEF Typed
  <2>5. CallsInOrder'
    BY <1>1, <2>1, <2>2, <2>4 DEF CallsInOrder
  <2>6. ToldOnceAndRight'
    BY <1>1, <2>1, <2>3, <2>4 DEF ToldOnceAndRight
  <2>7. OrphansAreExplained'
    <3>1. ASSUME proposal'[c] = "none"
          PROVE  \E d \in Calls \ {c} : KeyOf[d] = KeyOf[c] /\ proposal'[d] # "none"
      <4>1. PICK d \in Calls : KeyOf[d] = KeyOf[c] /\ proposal[d] = "pending"
        BY <1>1, <2>1, <3>1 DEF PendingTwin, Typed
      <4> QED
        BY <2>3, <2>4, <4>1
    <3>2. \A d \in Calls \ {c} :
              proposal'[d] = proposal[d] /\ call'[d] = call[d] /\ queue'[d] = queue[d]
      BY <2>1, <2>2, <2>4
    <3>3. ASSUME NEW e \in Calls \ {c}, call'[e] = "over", queue'[e] # "none", proposal'[e] = "none"
          PROVE  \/ faults' > 0 \/ queue'[e] = "execution_failed"
                 \/ \E d \in Calls \ {e} : KeyOf[d] = KeyOf[e] /\ proposal'[d] # "none"
      <4>1. \/ faults > 0 \/ queue[e] = "execution_failed"
            \/ \E d \in Calls \ {e} : KeyOf[d] = KeyOf[e] /\ proposal[d] # "none"
        BY <1>1, <3>2, <3>3 DEF OrphansAreExplained, At
      <4> QED
        BY <2>1, <2>3, <2>4, <4>1
    <3> QED
      BY <3>1, <3>3 DEF OrphansAreExplained, At
  <2> QED
    BY <1>1, <2>1, <2>2, <2>4, <2>5, <2>6, <2>7 DEF ProposalsInv, Typed, AnnouncedHaveEnded
<1>8. ASSUME NEW c \in Calls, Resolve(c)
      PROVE  ProposalsInv'
  <2>1. /\ queue[c] = "open" /\ UNCHANGED <<call, proposal, wakes, faults>>
        /\ notices' \in {notices, notices \cup {c}}
    BY <1>8 DEF Resolve
  <2>2. PICK status \in Ends : queue' = [queue EXCEPT ![c] = status]
    BY <1>8 DEF Resolve
  <2>3. /\ queue' \in [Calls -> Ends \cup {"none", "open"}] /\ queue'[c] = status
        /\ \A d \in Calls \ {c} : queue'[d] = queue[d]
    BY <1>1, <2>2 DEF Typed
  <2>4. CallsInOrder'
    BY <1>1, <2>1, <2>3 DEF CallsInOrder
  <2>5. notices' \subseteq Calls /\ AnnouncedHaveEnded'
    BY <1>1, <2>1, <2>3 DEF AnnouncedHaveEnded
  <2>6. ToldOnceAndRight'
    BY <1>1, <2>1, <2>3 DEF ToldOnceAndRight, Ends
  <2>7. OrphansAreExplained'
    BY <1>1, <2>1, <2>3 DEF OrphansAreExplained, At, Ends
  <2> QED
    BY <1>1, <2>1, <2>3, <2>4, <2>5, <2>6, <2>7 DEF ProposalsInv, Typed
<1>9. ASSUME NEW c, Finalize(c), c \in Calls => queue[c] \in Ends,
             UNCHANGED <<call, queue, faults>>, notices' \subseteq notices
      PROVE  ProposalsInv'
  <2>1. /\ proposal' \in [Calls -> {"none", "pending", "executed", "declined", "failed", "expired"}]
        /\ wakes' \in [Calls -> Nat] /\ ToldOnceAndRight'
        /\ \A d \in Calls : proposal'[d] = "none" <=> proposal[d] = "none"
    BY <1>9, FinalizeTells
  <2>2. CallsInOrder'
    BY <1>1, <1>9, <2>1 DEF CallsInOrder
  <2>3. OrphansAreExplained'
    <3>1. faults' >= faults /\ faults' \in Nat
      BY <1>1, <1>9 DEF Typed
    <3> QED
      BY <1>9, <2>1, <3>1, OrphansStay
  <2> QED
    BY <1>1, <1>9, <2>1, <2>2, <2>3 DEF ProposalsInv, Typed, AnnouncedHaveEnded
<1>10. ASSUME NEW c \in Calls, Notify(c)
       PROVE  ProposalsInv'
  BY <1>1, <1>9, <1>10 DEF Notify, AnnouncedHaveEnded
<1>11. ASSUME UNCHANGED <<call, queue, proposal, notices, wakes>>, faults' = faults \/ Fault
       PROVE  ProposalsInv'
  <2>1. faults' \in Nat /\ faults' >= faults
    BY <1>1, <1>2, <1>11 DEF Typed
  <2>2. OrphansAreExplained'
    BY <1>11, <2>1, OrphansStay
  <2> QED
    BY <1>1, <1>11, <2>1, <2>2 DEF ProposalsInv, Typed, CallsInOrder, AnnouncedHaveEnded, ToldOnceAndRight
<1>12. CASE SweepPolls
  <2>1. UNCHANGED <<call, queue, notices, faults>>
    BY <1>12 DEF SweepPolls
  <2>2. CASE queue[Head(sweep)] \in Ends
    <3>1. Finalize(Head(sweep))
      BY <1>12, <2>2 DEF SweepPolls
    <3> QED
      BY <1>9, <2>1, <2>2, <3>1
  <2>3. CASE queue[Head(sweep)] \notin Ends
    <3>1. UNCHANGED <<proposal, wakes>>
      BY <1>12, <2>3 DEF SweepPolls
    <3> QED
      BY <1>11, <2>1, <3>1
  <2> QED
    BY <2>2, <2>3
<1>13. CASE Age \/ SweepStarts \/ SweepFails \/ UNCHANGED vars
  <2>1. CASE Age
    BY <1>11, <2>1 DEF Age
  <2>2. CASE SweepStarts
    BY <1>11, <2>2 DEF SweepStarts
  <2>3. CASE SweepFails
    BY <1>11, <2>3 DEF SweepFails
  <2>4. CASE UNCHANGED vars
    BY <1>11, <2>4 DEF vars
  <2> QED
    BY <1>13, <2>1, <2>2, <2>3, <2>4
<1> QED
  BY <1>4, <1>5, <1>6, <1>7, <1>8, <1>10, <1>12, <1>13 DEF Next

\* Rows, items and announcements agree in every state.
LEMMA ProposalsInvariant == Spec => []ProposalsInv
BY ProposalsStart, ProposalsStep, PTL DEF Spec

\* The agent is told the truth once: whatever comes first of an announcement and the
\* sweep, and however often, finalize_proposal closes a row with the end of its item and
\* wakes the session once.
THEOREM ToldOnceAndRightProved == Spec => []ToldOnceAndRight
<1>1. ProposalsInv => ToldOnceAndRight
  BY DEF ProposalsInv
<1> QED
  BY <1>1, ProposalsInvariant, PTL

\* An item no row stands for comes from a fault, from a failed execution on lane 1, or
\* from an identical call of create_proposal that overlapped the one whose row was kept.
THEOREM OrphansAreExplainedProved == Spec => []OrphansAreExplained
<1>1. ProposalsInv => OrphansAreExplained
  BY DEF ProposalsInv
<1> QED
  BY <1>1, ProposalsInvariant, PTL
=============================================================================

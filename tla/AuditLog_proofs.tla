--------------------------- MODULE AuditLog_proofs ---------------------------
(***************************************************************************)
(* Proofs about what overlapping requests write to the audit log (module   *)
(* ApprovalSessions), and about its mirror and the verification of both    *)
(* (module AuditTrail), for any requests, users, processes and bounds.     *)
(***************************************************************************)
EXTENDS ApprovalSessions, AuditTrail, TLAPS, FiniteSetTheorems, SequenceTheorems,
        WellFoundedInduction

-----------------------------------------------------------------------------
(* Type correctness, and the moves of a session. *)

\* The lane an escalation moves to, and the list it asks for, are of their types.
LEMMA EscalationTypes ==
    ASSUME NEW lane \in Lanes, NEW requested \in Lanes \cup {0}
    PROVE  /\ EscalationTarget(lane, requested) \in Lanes
           /\ RequiredFor(EscalationTarget(lane, requested), {}) \in SUBSET Roles
<1>1. EscalationTarget(lane, requested) \in Lanes
  BY DEF EscalationTarget, AtMost, Lanes, LaneAuto, LaneSingle, LaneDual
<1>2. \A l \in Lanes : RequiredFor(l, {}) \in SUBSET Roles
  BY DEF RequiredFor, Roles, Lanes, LaneAuto, LaneSingle, LaneDual
<1> QED
  BY <1>1, <1>2

\* What a session writes to a row makes another row, of the same kind.
LEMMA WrittenType ==
    ASSUME TypeOK, NEW s \in Sessions, NEW r \in ItemRow, NEW requested \in Lanes \cup {0}
    PROVE  Written(s, r, requested) \in ItemRow /\ Written(s, r, requested).kind = r.kind
<1> DEFINE seen == session[s].seen
           lane == EscalationTarget(seen.lane, requested)
           list == RequiredFor(lane, {})
<1>1. session[s].seen \in ItemRow
  BY DEF TypeOK, Session
<1>2. lane \in Lanes /\ list \in SUBSET Roles
  BY <1>1, EscalationTypes DEF ItemRow
<1> HIDE DEF lane, list
<1> DEFINE held == IF seen.status = "pending" THEN "suspended" ELSE r.status
<1>3. /\ [r EXCEPT !.status = "rejected"] \in ItemRow
      /\ [r EXCEPT !.status = "cancelled"] \in ItemRow
      /\ [r EXCEPT !.status = "approved"] \in ItemRow
      /\ [r EXCEPT !.hold = TRUE, !.status = IF seen.status = "pending" THEN "suspended" ELSE @]
            \in ItemRow
      /\ [r EXCEPT !.lane = IF lane = seen.lane THEN @ ELSE lane,
                   !.required = IF list = seen.required THEN @ ELSE list] \in ItemRow
  BY <1>2 DEF ItemRow
<1>4. /\ [r EXCEPT !.status = "rejected"].kind = r.kind
      /\ [r EXCEPT !.status = "cancelled"].kind = r.kind
      /\ [r EXCEPT !.status = "approved"].kind = r.kind
      /\ [r EXCEPT !.hold = TRUE, !.status = IF seen.status = "pending" THEN "suspended" ELSE @].kind
            = r.kind
      /\ [r EXCEPT !.lane = IF lane = seen.lane THEN @ ELSE lane,
                   !.required = IF list = seen.required THEN @ ELSE list].kind = r.kind
  BY DEF ItemRow
<1> QED
  BY <1>3, <1>4 DEF Written, lane, list

\* The committed entries are ids of the chain, and those of a session that flushed one
\* are as it flushed them.
Flushing(s) == At(s, "flushed")

EntryOf(s) == chain[session[s].entry]

\* The request is in its second transaction.
Executing(s) == session[s].event \in Runs

SessionOK(s) ==
    /\ At(s, "idle") => session[s].op = "none" /\ session[s].event = "none"
    /\ ~At(s, "idle") => /\ session[s].op \in Ops
                         /\ IsDecision(s) => session[s].user \in Users
                         /\ session[s].seen.kind = row.kind
                         /\ session[s].event \in Runs \cup {session[s].op}
    /\ At(s, "approved") \/ Executing(s) => session[s].op = "approve"
    /\ Executing(s) => /\ At(s, "checked") \/ At(s, "read") \/ At(s, "flushed")
                       /\ \/ session[s].seen.status = "approved"
                          \/ session[s].seen.status = "executed" /\ session[s].event = "executed"
    /\ At(s, "read") => session[s].prev \in Committed
    /\ Flushing(s) => /\ session[s].entry \in DOMAIN chain
                      /\ ~EntryOf(s).committed
                      /\ EntryOf(s).event = session[s].event

Apart ==
    \A s, t \in Sessions :
        Flushing(s) /\ Flushing(t) /\ session[s].entry = session[t].entry => s = t

ChainOK ==
    /\ 1 \in Committed
    /\ \A n \in DOMAIN chain : n # 1 => chain[n].prev \in Committed /\ chain[n].prev < n

SessionsInv ==
    /\ TypeOK
    /\ \A s \in Sessions : SessionOK(s)
    /\ Apart
    /\ ChainOK

\* A set of numbers up to n that is not empty has a last one.
LEMMA LastOfSome ==
    ASSUME NEW n \in Nat, NEW I \in SUBSET (1 .. n), I # {}
    PROVE  \E i \in I : \A j \in I : j <= i
<1> DEFINE from(i) == {k \in I : k >= i}
           Froms   == {from(i) : i \in I}
<1>1. IsFiniteSet(1 .. n)
  BY FS_Interval
<1>2. IsWellFoundedOn(StrictSubsetOrdering(1 .. n), SUBSET (1 .. n))
  BY <1>1, FS_StrictSubsetOrderingWellFounded, FS_FiniteSubsetsOfFinite
<1>3. Froms \subseteq SUBSET (1 .. n) /\ Froms # {}
  OBVIOUS
<1>4. PICK x \in Froms : \A y \in Froms : ~ (<<y, x>> \in StrictSubsetOrdering(1 .. n))
  <2> HIDE DEF Froms
  <2> QED
    BY <1>2, <1>3, WFMin
<1>5. PICK i \in I : x = from(i)
  BY <1>4
<1>6. ASSUME NEW j \in I, ~ (j <= i)
      PROVE  FALSE
  <2>1. j > i /\ j \in Nat /\ i \in Nat
    <3>1. j \in 1 .. n /\ i \in 1 .. n
      OBVIOUS
    <3> QED
      BY <1>6, <3>1
  <2>2. from(j) \subseteq from(i) /\ i \in from(i) /\ i \notin from(j)
    <3>1. \A k \in I : k \in 1 .. n
      OBVIOUS
    <3>2. ASSUME NEW k \in I, k >= j
          PROVE  k >= i
      <4>1. k \in 1 .. n
        BY <3>1
      <4> QED
        BY <4>1, <3>2, <2>1
    <3>3. i >= i /\ ~ (i >= j)
      BY <2>1
    <3> QED
      BY <3>2, <3>3
  <2>3. from(j) \in SUBSET (1 .. n) /\ from(i) \in SUBSET (1 .. n) /\ from(j) # from(i)
    BY <2>2
  <2>4. <<from(j), from(i)>> \in StrictSubsetOrdering(1 .. n)
    <3> HIDE DEF from
    <3> QED
      BY <2>2, <2>3 DEF StrictSubsetOrdering
  <2> QED
    BY <1>4, <1>5, <2>4
<1> QED
  BY <1>6

\* _latest_hash finds a committed entry, and no committed one has a higher id.
LEMMA LatestIs ==
    ASSUME TypeOK, ChainOK
    PROVE  /\ Latest \in Committed
           /\ \A m \in Committed : m <= Latest
<1>1. Len(chain) \in Nat /\ Committed \in SUBSET (1 .. Len(chain)) /\ Committed # {}
  BY DEF TypeOK, Committed, ChainOK
<1>2. \E n \in Committed : \A m \in Committed : m <= n
  BY <1>1, LastOfSome
<1> HIDE DEF Committed
<1> QED
  BY <1>2 DEF Latest

\* A session that flushes an entry appends it, uncommitted, behind a committed one.
LEMMA Appends ==
    ASSUME SessionsInv, NEW s \in Sessions, Flush(s)
    PROVE  /\ DOMAIN chain' = DOMAIN chain \cup {Len(chain) + 1}
           /\ Len(chain) + 1 \notin DOMAIN chain
           /\ \A n \in DOMAIN chain : n < Len(chain) + 1 /\ chain'[n] = chain[n]
           /\ chain'[Len(chain) + 1] = [event |-> session[s].event, prev |-> session[s].prev,
                                        committed |-> FALSE]
           /\ Committed' = Committed
           /\ session[s].prev \in Committed /\ session[s].prev < Len(chain) + 1
           /\ session[s].event # "none"
           /\ chain' \in Seq(Link)
           /\ UNCHANGED <<row, records, effects>>
           /\ session' \in [Sessions -> Session]
           /\ \A t \in Sessions \ {s} : session'[t] = session[t]
           /\ session[s].pc = "read"
           /\ session'[s] = [session[s] EXCEPT !.pc = "flushed", !.entry = Len(chain) + 1]
<1> DEFINE new == [event |-> session[s].event, prev |-> session[s].prev, committed |-> FALSE]
<1>1. /\ chain \in Seq(Link) /\ Len(chain) \in Nat /\ session \in [Sessions -> Session]
      /\ session[s].pc = "read"
  BY DEF SessionsInv, TypeOK, Flush, At
<1>2. /\ session[s].prev \in Committed
      /\ session[s].event \in Ops \cup Runs /\ session[s].event # "none"
  BY <1>1 DEF SessionsInv, SessionOK, At, Ops, Decisions, Runs
<1>3. session[s].prev \in Nat /\ session[s].prev < Len(chain) + 1
  BY <1>1, <1>2 DEF Committed
<1>4. new \in Link
  BY <1>2, <1>3 DEF Link
<1>5. chain' = Append(chain, new)
  BY DEF Flush
<1> HIDE DEF new
<1>6. /\ DOMAIN chain' = DOMAIN chain \cup {Len(chain) + 1}
      /\ Len(chain) + 1 \notin DOMAIN chain
      /\ \A n \in DOMAIN chain : n < Len(chain) + 1 /\ chain'[n] = chain[n]
      /\ chain'[Len(chain) + 1] = new
      /\ chain' \in Seq(Link)
  BY <1>1, <1>4, <1>5
<1>7. ~new.committed
  BY DEF new
<1>8. Committed' = Committed
  BY <1>6, <1>7 DEF Committed
<1>9. PICK mine : mine = [session[s] EXCEPT !.pc = "flushed", !.entry = Len(chain) + 1]
  OBVIOUS
<1>10. mine \in Session
  <2>1. Len(chain) + 1 \in Nat /\ session[s] \in Session
    BY <1>1
  <2> QED
    BY <1>9, <2>1 DEF Session, Steps
<1>11. session' = [session EXCEPT ![s] = mine] /\ UNCHANGED <<row, records, effects>>
  BY <1>1, <1>9 DEF Flush
<1>12. /\ session' \in [Sessions -> Session] /\ session'[s] = mine
       /\ \A t \in Sessions \ {s} : session'[t] = session[t]
  BY <1>1, <1>10, <1>11
<1> QED
  BY <1>1, <1>2, <1>3, <1>6, <1>8, <1>9, <1>11, <1>12 DEF new

\* A session that commits makes its own entry a committed one, and ends or executes.
LEMMA Commits ==
    ASSUME SessionsInv, NEW s \in Sessions, Flushing(s),
           chain' = [chain EXCEPT ![session[s].entry].committed = TRUE]
    PROVE  /\ session[s].entry \in DOMAIN chain /\ session[s].entry \notin Committed
           /\ DOMAIN chain' = DOMAIN chain
           /\ \A n \in DOMAIN chain : chain'[n].event = chain[n].event /\ chain'[n].prev = chain[n].prev
           /\ \A n \in DOMAIN chain \ {session[s].entry} : chain'[n] = chain[n]
           /\ Committed' = Committed \cup {session[s].entry}
           /\ chain' \in Seq(Link)
<1>1. PICK e : e = session[s].entry
  OBVIOUS
<1>2. chain \in Seq(Link) /\ e \in DOMAIN chain /\ ~chain[e].committed
  BY <1>1 DEF SessionsInv, TypeOK, SessionOK, EntryOf
<1>3. Len(chain) \in Nat /\ DOMAIN chain = 1 .. Len(chain) /\ \A n \in DOMAIN chain : chain[n] \in Link
  BY <1>2
<1>4. chain' = [chain EXCEPT ![e] = [chain[e] EXCEPT !.committed = TRUE]]
  BY <1>1
<1>5. [chain[e] EXCEPT !.committed = TRUE] \in Link
  BY <1>2, <1>3 DEF Link
<1>6. /\ DOMAIN chain' = DOMAIN chain
      /\ \A n \in DOMAIN chain \ {e} : chain'[n] = chain[n]
      /\ chain'[e] = [chain[e] EXCEPT !.committed = TRUE]
  BY <1>2, <1>4
<1>7. chain' \in Seq(Link)
  <2>1. PICK new \in Link : new = [chain[e] EXCEPT !.committed = TRUE]
    BY <1>5
  <2>2. chain' = [chain EXCEPT ![e] = new]
    BY <1>4, <2>1
  <2>3. [chain EXCEPT ![e] = new] \in Seq(Link)
    <3> HIDE DEF Link
    <3> QED
      BY <1>2, <1>3, ExceptSeq
  <2> QED
    BY <2>2, <2>3
<1>8. /\ chain'[e].event = chain[e].event /\ chain'[e].prev = chain[e].prev
      /\ chain'[e].committed
  BY <1>2, <1>3, <1>6 DEF Link
<1>9. Committed' = Committed \cup {e}
  BY <1>2, <1>6, <1>8 DEF Committed
<1> QED
  BY <1>1, <1>2, <1>6, <1>7, <1>8, <1>9 DEF Committed

\* The end of a first transaction, or of a second one.
LEMMA CommitsFlush ==
    ASSUME NEW s \in Sessions, Commit(s) \/ ExecuteCommit(s)
    PROVE  Flushing(s) /\ chain' = [chain EXCEPT ![session[s].entry].committed = TRUE]
BY DEF Commit, ExecuteCommit, Seal, Flushing

-----------------------------------------------------------------------------
(* What each kind of step does to the sessions. *)

BreachOnChain == \E n \in Committed : chain[n].event = "sla_breach"

\* A load, a check or an abort leaves the store alone; only a load makes a session the
\* SLA watcher's, when no other is, and a check stops it when the breach is tagged.
LEMMA QuietMoves ==
    ASSUME SessionsInv, NEW s \in Sessions,
           \/ \E op \in Ops, u \in Users \cup {None} : Load(s, op, u)
           \/ Check(s)
           \/ Abort(s)
    PROVE  /\ UNCHANGED store
           /\ session' \in [Sessions -> Session]
           /\ \A t \in Sessions \ {s} : session'[t] = session[t]
           /\ session'[s].pc \in {"idle", "loaded", "checked"}
           /\ session'[s].event = session'[s].op
           /\ session'[s].pc = "idle" => session'[s].op = "none"
           /\ session'[s].pc # "idle" =>
                 /\ session'[s].op \in Ops
                 /\ session'[s].op \in Decisions => session'[s].user \in Users
                 /\ session'[s].seen.kind = row.kind
           /\ session'[s].op = "sla_breach" =>
                 \/ /\ session[s].op = "sla_breach"
                    /\ ~BreachOnChain
                 \/ /\ \A t \in Sessions : session[t].op # "sla_breach"
                    /\ session'[s].pc = "loaded"
<1>0. session \in [Sessions -> Session] /\ row \in ItemRow /\ records \in SUBSET RecordRow
  BY DEF SessionsInv, TypeOK
<1>i. Idle \in Session /\ Idle.pc = "idle" /\ Idle.op = "none" /\ Idle.event = "none"
  BY SessionsAssumption DEF Idle, Session, Steps
<1> HIDE DEF Idle
<1>1. CASE End(s) /\ UNCHANGED store
  <2>1. session' = [session EXCEPT ![s] = Idle]
    BY <1>1 DEF End
  <2> QED
    BY <1>0, <1>i, <1>1, <2>1
<1>2. CASE \E op \in Ops, u \in Users \cup {None} : Load(s, op, u)
  <2>1. PICK op \in Ops, u \in Users \cup {None} : Load(s, op, u)
    BY <1>2
  <2>2. PICK new : new = [Idle EXCEPT !.pc = "loaded", !.op = op, !.event = op, !.user = u, !.seen = row]
    OBVIOUS
  <2>3. /\ new \in Session /\ new.pc = "loaded" /\ new.op = op /\ new.event = op /\ new.user = u
        /\ new.seen = row
    BY <1>0, <1>i, <2>2 DEF Session, Steps
  <2>4. session' = [session EXCEPT ![s] = new] /\ UNCHANGED store
    BY <2>1, <2>2 DEF Load
  <2>5. op \in Decisions => u \in Users
    BY <2>1 DEF Load
  <2>6. op = "sla_breach" => \A t \in Sessions : session[t].op # "sla_breach"
    BY <2>1 DEF Load
  <2> QED
    BY <1>0, <2>3, <2>4, <2>5, <2>6
<1>3. CASE Check(s) /\ ~AlreadyDone(s)
  <2>1. PICK new : new = [session[s] EXCEPT !.pc = "checked", !.recs = records]
    OBVIOUS
  <2>2. /\ new \in Session /\ new.pc = "checked" /\ new.op = session[s].op
        /\ new.user = session[s].user /\ new.event = session[s].event /\ new.seen = session[s].seen
    BY <1>0, <2>1 DEF Session, Steps
  <2>3. session' = [session EXCEPT ![s] = new] /\ UNCHANGED store /\ At(s, "loaded")
    BY <1>0, <1>3, <2>1 DEF Check
  <2>4. /\ session[s].op \in Ops /\ (session[s].op \in Decisions => session[s].user \in Users)
        /\ session[s].event = session[s].op /\ session[s].seen.kind = row.kind
    BY <2>3 DEF SessionsInv, SessionOK, At, IsDecision, Executing
  <2>5. session[s].op = "sla_breach" => ~BreachOnChain
    BY <1>3 DEF AlreadyDone, BreachOnChain
  <2> QED
    BY <1>0, <2>2, <2>3, <2>4, <2>5
<1>4. CASE (Check(s) /\ AlreadyDone(s)) \/ Abort(s)
  BY <1>1, <1>4 DEF Check, Abort
<1> QED
  BY <1>2, <1>3, <1>4

\* A session reads the parent of its next entry.
LEMMA LatestMoves ==
    ASSUME SessionsInv, NEW s \in Sessions, ReadLatest(s)
    PROVE  /\ UNCHANGED store
           /\ session' \in [Sessions -> Session]
           /\ \A t \in Sessions \ {s} : session'[t] = session[t]
           /\ session[s].pc = "checked"
           /\ session'[s] = [session[s] EXCEPT !.pc = "read", !.prev = Latest]
           /\ Latest \in Committed
<1>1. /\ session \in [Sessions -> Session] /\ chain \in Seq(Link)
      /\ session[s].pc = "checked"
  BY DEF SessionsInv, TypeOK, ReadLatest, At
<1>2. Latest \in Committed /\ Latest \in Nat
  BY <1>1, LatestIs DEF SessionsInv, Committed
<1>3. PICK mine : mine = [session[s] EXCEPT !.pc = "read", !.prev = Latest]
  OBVIOUS
<1>4. mine \in Session
  BY <1>1, <1>2, <1>3 DEF Session, Steps
<1>5. session' = [session EXCEPT ![s] = mine] /\ UNCHANGED store
  BY <1>1, <1>3 DEF ReadLatest
<1> QED
  BY <1>1, <1>2, <1>3, <1>4, <1>5

\* An execution turns to its end with the copy that says APPROVED.
LEMMA ExecuteMoves ==
    ASSUME SessionsInv, NEW s \in Sessions, Execute(s)
    PROVE  /\ UNCHANGED store
           /\ session' \in [Sessions -> Session]
           /\ \A t \in Sessions \ {s} : session'[t] = session[t]
           /\ session[s].pc = "approved" /\ session[s].seen.status = "approved"
           /\ \E outcome \in Runs :
                 session'[s] = [session[s] EXCEPT !.pc = "checked", !.event = outcome]
<1>1. /\ session \in [Sessions -> Session]
      /\ session[s].pc = "approved" /\ session[s].seen.status = "approved"
  BY DEF SessionsInv, TypeOK, Execute, At
<1>2. PICK outcome \in Runs :
         session' = [session EXCEPT ![s].pc = "checked", ![s].event = outcome] /\ UNCHANGED store
  BY DEF Execute, Runs
<1>3. PICK mine : mine = [session[s] EXCEPT !.pc = "checked", !.event = outcome]
  OBVIOUS
<1>4. mine \in Session
  BY ZenonT(40), <1>1, <1>2, <1>3 DEF Session, Steps
<1>5. session' = [session EXCEPT ![s] = mine]
  BY <1>1, <1>2, <1>3
<1> QED
  BY <1>1, <1>2, <1>3, <1>4, <1>5

\* A hook commits the work and the status of its execution.
LEMMA HookMoves ==
    ASSUME SessionsInv, NEW s \in Sessions, CommitByHook(s)
    PROVE  /\ row' \in ItemRow /\ row'.kind = row.kind
           /\ UNCHANGED <<records, chain>> /\ effects' = effects + 1
           /\ session' \in [Sessions -> Session]
           /\ \A t \in Sessions \ {s} : session'[t] = session[t]
           /\ session[s].pc = "checked" /\ session[s].event = "executed"
           /\ session[s].seen.status = "approved" /\ HasHook(row.kind)
           /\ session'[s] = [session[s] EXCEPT !.seen = [session[s].seen EXCEPT !.status = "executed"]]
           /\ session'[s].seen.kind = row.kind /\ session'[s].seen.status = "executed"
<1>1. /\ session \in [Sessions -> Session] /\ row \in ItemRow
      /\ session[s].pc = "checked" /\ session[s].event = "executed"
      /\ session[s].seen.status = "approved" /\ HasHook(session[s].seen.kind)
  BY DEF SessionsInv, TypeOK, CommitByHook, At
<1>2. session[s].seen.kind = row.kind /\ session[s].seen \in ItemRow
  BY <1>1 DEF SessionsInv, SessionOK, At, Session
<1>3. PICK copy : copy = [session[s].seen EXCEPT !.status = "executed"]
  OBVIOUS
<1>4. copy \in ItemRow /\ copy.kind = row.kind /\ copy.status = "executed"
  BY <1>2, <1>3 DEF ItemRow, Runs
<1>5. PICK mine : mine = [session[s] EXCEPT !.seen = copy]
  OBVIOUS
<1>6. mine \in Session /\ mine.seen = copy
  BY <1>1, <1>4, <1>5 DEF Session
<1>7. session' = [session EXCEPT ![s] = mine]
  <2>1. session' = [session EXCEPT ![s].seen.status = "executed"]
    BY DEF CommitByHook
  <2> QED
    BY <1>1, <1>3, <1>5, <2>1
<1>8. row' \in ItemRow /\ row'.kind = row.kind
  BY <1>1 DEF CommitByHook, ItemRow, Runs
<1>9. UNCHANGED <<records, chain>> /\ effects' = effects + 1
  BY DEF CommitByHook
<1> QED
  BY <1>1, <1>2, <1>3, <1>4, <1>5, <1>6, <1>7, <1>8, <1>9

\* A commit ends its session, or lets it execute what it has approved.
LEMMA CommitMoves ==
    ASSUME SessionsInv, NEW s \in Sessions, Commit(s)
    PROVE  /\ row' \in ItemRow /\ row'.kind = row.kind
           /\ records' \in SUBSET RecordRow /\ effects' = effects
           /\ session' \in [Sessions -> Session]
           /\ \A t \in Sessions \ {s} : session'[t] = session[t]
           /\ session[s].event = session[s].op /\ session[s].event \in Ops
           /\ \/ session'[s].pc = "idle" /\ session'[s].op = "none" /\ session'[s].event = "none"
              \/ /\ session'[s].pc = "approved" /\ session'[s].op = "approve"
                 /\ session'[s].event = "approve" /\ session'[s].user = session[s].user
                 /\ session'[s].seen.kind = row.kind
                 /\ session[s].op = "approve"
           /\ session[s].op \in Decisions =>
                 records' = records \cup {[user |-> session[s].user, decision |-> session[s].op,
                                           entry |-> session[s].entry]}
           /\ session[s].op \notin Decisions => records' = records
<1>0. session \in [Sessions -> Session] /\ row \in ItemRow /\ records \in SUBSET RecordRow
  BY DEF SessionsInv, TypeOK
<1>1. /\ At(s, "flushed") /\ (session[s].op \in Decisions => session[s].user \in Users)
      /\ session[s].event = session[s].op /\ session[s].event \in Ops
      /\ session[s].seen.kind = row.kind
  BY DEF Commit, At, SessionsInv, SessionOK, IsDecision, Ops, Runs, Decisions
<1>2. row' \in ItemRow /\ row'.kind = row.kind
  <2>1. PICK requested \in Lanes \cup {0} : row' = Written(s, row, requested)
    BY DEF Commit
  <2> QED
    BY <1>0, <2>1, WrittenType DEF SessionsInv
<1>3. /\ session[s].op \in Decisions => records' = records \cup {NewRecord(s)}
      /\ session[s].op \notin Decisions => records' = records
  BY DEF Commit, IsDecision
<1>4. session[s].op \in Decisions => NewRecord(s) \in RecordRow
  BY <1>0, <1>1 DEF NewRecord, RecordRow, Session
<1>5. CASE Completes(s)
  <2>1. PICK copy : copy = Written(s, session[s].seen, 0)
    OBVIOUS
  <2>2. session[s].seen \in ItemRow
    BY <1>0 DEF Session
  <2>3. copy \in ItemRow /\ copy.kind = row.kind
    BY <1>1, <2>1, <2>2, WrittenType DEF SessionsInv
  <2>4. PICK new : new = [session[s] EXCEPT !.pc = "approved", !.seen = copy]
    OBVIOUS
  <2>5. /\ new \in Session /\ new.pc = "approved" /\ new.op = session[s].op
        /\ new.event = session[s].event /\ new.user = session[s].user /\ new.seen.kind = row.kind
    BY <1>0, <2>3, <2>4 DEF Session, Steps
  <2>6. session' = [session EXCEPT ![s] = new] /\ session[s].op = "approve"
    BY <1>0, <1>5, <2>1, <2>4 DEF Commit, Completes
  <2>7. effects' = effects
    BY DEF Commit
  <2> QED
    BY <1>0, <1>1, <1>2, <1>3, <1>4, <2>5, <2>6, <2>7 DEF NewRecord
<1>6. CASE ~Completes(s)
  <2>1. Idle \in Session /\ Idle.pc = "idle" /\ Idle.op = "none" /\ Idle.event = "none"
    BY SessionsAssumption DEF Idle, Session, Steps
  <2>2. session' = [session EXCEPT ![s] = Idle]
    BY <1>6 DEF Commit, End
  <2>3. effects' = effects
    BY DEF Commit
  <2> HIDE DEF Idle
  <2> QED
    BY <1>0, <1>1, <1>2, <1>3, <1>4, <2>1, <2>2, <2>3 DEF NewRecord
<1> QED
  BY <1>5, <1>6

\* The end of an execution counts the work no hook has counted, and ends its session.
LEMMA SealMoves ==
    ASSUME SessionsInv, NEW s \in Sessions, ExecuteCommit(s)
    PROVE  /\ row' \in ItemRow /\ row'.kind = row.kind /\ records' = records
           /\ effects' = IF session[s].seen.status = "approved" /\ session[s].event = "executed"
                         THEN effects + 1 ELSE effects
           /\ session' \in [Sessions -> Session]
           /\ \A t \in Sessions \ {s} : session'[t] = session[t]
           /\ session[s].pc = "flushed" /\ session[s].event \in Runs
           /\ session'[s].pc = "idle" /\ session'[s].op = "none" /\ session'[s].event = "none"
<1>0. session \in [Sessions -> Session] /\ row \in ItemRow
  BY DEF SessionsInv, TypeOK
<1>1. Idle \in Session /\ Idle.pc = "idle" /\ Idle.op = "none" /\ Idle.event = "none"
  BY SessionsAssumption DEF Idle, Session, Steps
<1>2. session' = [session EXCEPT ![s] = Idle] /\ Seal(s)
  BY DEF ExecuteCommit, End
<1>3. /\ records' = records
      /\ effects' = IF session[s].seen.status = "approved" /\ session[s].event = "executed"
                    THEN effects + 1 ELSE effects
      /\ session[s].pc = "flushed" /\ session[s].event \in Runs
  BY <1>2 DEF Seal, At
<1>4. row' \in ItemRow /\ row'.kind = row.kind
  <2>1. row' = row \/ row' = [row EXCEPT !.status = session[s].event]
    BY <1>2 DEF Seal
  <2>2. session[s].event \in Runs
    BY <1>3
  <2> QED
    BY <1>0, <2>1, <2>2 DEF ItemRow
<1> HIDE DEF Idle
<1> QED
  BY <1>0, <1>1, <1>2, <1>3, <1>4

-----------------------------------------------------------------------------
(* Types, the entries of the sessions, and the links of the chain. *)

\* The sessions and the chain start as the invariant says.
LEMMA SessionsStart == Init => SessionsInv
<1> SUFFICES ASSUME Init
             PROVE  SessionsInv
  OBVIOUS
<1>1. Idle \in Session /\ Idle.pc = "idle" /\ Idle.op = "none" /\ Idle.event = "none"
  BY SessionsAssumption DEF Idle, Session, Steps
<1>2. \A s \in Sessions : session[s] = Idle
  BY DEF Init
<1>3. /\ chain \in Seq(Link) /\ DOMAIN chain = {1} /\ chain[1].committed
  BY DEF Init, Link
<1>4. TypeOK
  <2>1. row \in ItemRow /\ records \in SUBSET RecordRow /\ effects \in Nat
    BY SessionsAssumption DEF Init
  <2>2. session \in [Sessions -> Session]
    <3> HIDE DEF Idle
    <3> QED
      BY <1>1 DEF Init
  <2> QED
    BY <1>3, <2>1, <2>2 DEF TypeOK
<1> HIDE DEF Idle
<1>5. (\A s \in Sessions : SessionOK(s)) /\ Apart
  BY <1>1, <1>2 DEF SessionOK, Apart, Flushing, Executing, At, Runs
<1>6. ChainOK
  BY <1>3 DEF ChainOK, Committed
<1> QED
  BY <1>4, <1>5, <1>6 DEF SessionsInv

\* A session another one leaves alone stays as it is while the chain keeps its entry
\* and its parent.
LEMMA OthersStayOK ==
    ASSUME SessionsInv, NEW t \in Sessions, session'[t] = session[t], row'.kind = row.kind,
           Committed \subseteq Committed',
           Flushing(t) => /\ session[t].entry \in DOMAIN chain'
                          /\ chain'[session[t].entry] = chain[session[t].entry]
    PROVE  SessionOK(t)'
BY DEF SessionsInv, SessionOK, EntryOf, Flushing, Executing, At, IsDecision

\* A load, a check or an abort keeps the invariant, ...
LEMMA QuietKeeps ==
    ASSUME SessionsInv, NEW s \in Sessions,
           \/ \E op \in Ops, u \in Users \cup {None} : Load(s, op, u)
           \/ Check(s)
           \/ Abort(s)
    PROVE  SessionsInv'
<1>1. /\ UNCHANGED <<row, records, chain, effects>>
      /\ session' \in [Sessions -> Session]
      /\ \A t \in Sessions \ {s} : session'[t] = session[t]
      /\ session'[s].pc \in {"idle", "loaded", "checked"}
      /\ session'[s].event = session'[s].op
      /\ session'[s].pc = "idle" => session'[s].op = "none"
      /\ session'[s].pc # "idle" =>
            /\ session'[s].op \in Ops
            /\ session'[s].op \in Decisions => session'[s].user \in Users
            /\ session'[s].seen.kind = row.kind
  BY QuietMoves DEF store
<1>2. TypeOK'
  BY <1>1 DEF SessionsInv, TypeOK
<1>3. SessionOK(s)'
  <2>1. session'[s].event \notin Runs
    BY <1>1 DEF Ops, Decisions, Runs
  <2> QED
    BY <1>1, <2>1 DEF SessionOK, Flushing, Executing, At, IsDecision
<1>4. \A t \in Sessions \ {s} : SessionOK(t)'
  <2>1. Committed' = Committed
    BY <1>1 DEF Committed
  <2>2. \A t \in Sessions : Flushing(t) => session[t].entry \in DOMAIN chain
    BY DEF SessionsInv, SessionOK
  <2> QED
    BY <1>1, <2>1, <2>2, OthersStayOK
<1>5. Apart'
  BY <1>1 DEF SessionsInv, Apart, Flushing, At
<1>6. ChainOK'
  BY <1>1 DEF SessionsInv, ChainOK, Committed
<1> QED
  BY <1>2, <1>3, <1>4, <1>5, <1>6 DEF SessionsInv

\* ... and so do the steps of a session between its checks and its flush: reading the
\* parent, executing, and the commit of a hook.
LEMMA MiddleKeeps ==
    ASSUME SessionsInv, NEW s \in Sessions, ReadLatest(s) \/ Execute(s) \/ CommitByHook(s)
    PROVE  SessionsInv'
<1>0. session[s] \in Session /\ effects \in Nat
  BY DEF SessionsInv, TypeOK
<1>1. /\ UNCHANGED <<records, chain>> /\ effects' \in Nat
      /\ row' \in ItemRow /\ row'.kind = row.kind
      /\ session' \in [Sessions -> Session]
      /\ \A t \in Sessions \ {s} : session'[t] = session[t]
      /\ session'[s].pc \in {"checked", "read"}
  <2>1. CASE ReadLatest(s)
    <3>1. session'[s].pc = "read"
      BY <1>0, <2>1, LatestMoves DEF Session
    <3> QED
      BY <1>0, <2>1, <3>1, LatestMoves DEF store, SessionsInv, TypeOK
  <2>2. CASE Execute(s)
    <3>1. session'[s].pc = "checked"
      BY <1>0, <2>2, ExecuteMoves DEF Session
    <3>2. /\ UNCHANGED store /\ session' \in [Sessions -> Session]
          /\ \A t \in Sessions \ {s} : session'[t] = session[t]
      BY <2>2, ExecuteMoves
    <3> QED
      BY <1>0, <3>1, <3>2 DEF store, SessionsInv, TypeOK
  <2>3. CASE CommitByHook(s)
    <3>1. session'[s].pc = "checked"
      BY <1>0, <2>3, HookMoves DEF Session
    <3>2. /\ UNCHANGED <<records, chain>> /\ effects' = effects + 1
          /\ row' \in ItemRow /\ row'.kind = row.kind
          /\ session' \in [Sessions -> Session]
          /\ \A t \in Sessions \ {s} : session'[t] = session[t]
      BY <2>3, HookMoves
    <3>3. effects' \in Nat
      BY <1>0, <3>2
    <3> QED
      BY <3>1, <3>2, <3>3
  <2> QED
    BY <2>1, <2>2, <2>3
<1>2. TypeOK'
  BY <1>1 DEF SessionsInv, TypeOK
<1>3. SessionOK(s)'
  <2>1. CASE ReadLatest(s)
    <3>1. /\ session[s].pc = "checked" /\ Latest \in Committed
          /\ session'[s] = [session[s] EXCEPT !.pc = "read", !.prev = Latest]
          /\ UNCHANGED <<row, chain>>
      BY <2>1, LatestMoves DEF store
    <3>2. /\ session'[s].pc = "read" /\ session'[s].prev = Latest
          /\ session'[s].op = session[s].op /\ session'[s].user = session[s].user
          /\ session'[s].event = session[s].event /\ session'[s].seen = session[s].seen
      BY <1>0, <3>1 DEF Session
    <3>3. Committed' = Committed
      BY <3>1 DEF Committed
    <3> QED
      BY <3>1, <3>2, <3>3 DEF SessionsInv, SessionOK, Flushing, Executing, At, IsDecision
  <2>2. CASE Execute(s)
    <3>1. PICK outcome \in Runs :
             /\ session[s].pc = "approved" /\ session[s].seen.status = "approved"
             /\ session'[s] = [session[s] EXCEPT !.pc = "checked", !.event = outcome]
             /\ row' = row
      BY <2>2, ExecuteMoves DEF store
    <3>2. /\ session'[s].pc = "checked" /\ session'[s].event = outcome
          /\ session'[s].op = session[s].op /\ session'[s].user = session[s].user
          /\ session'[s].seen = session[s].seen
      BY <1>0, <3>1 DEF Session
    <3> QED
      BY <3>1, <3>2 DEF SessionsInv, SessionOK, Flushing, Executing, At, IsDecision
  <2>3. CASE CommitByHook(s)
    <3>1. /\ session[s].pc = "checked" /\ session[s].event = "executed"
          /\ session'[s] = [session[s] EXCEPT !.seen = [session[s].seen EXCEPT !.status = "executed"]]
          /\ session'[s].seen.kind = row.kind /\ session'[s].seen.status = "executed"
          /\ row'.kind = row.kind
      BY <2>3, HookMoves
    <3>2. /\ session'[s].pc = "checked" /\ session'[s].event = "executed"
          /\ session'[s].op = session[s].op /\ session'[s].user = session[s].user
      BY <1>0, <3>1 DEF Session
    <3>3. /\ session[s].op \in Ops /\ (session[s].op \in Decisions => session[s].user \in Users)
          /\ session[s].op = "approve"
      BY <3>1 DEF SessionsInv, SessionOK, Executing, At, IsDecision, Runs
    <3> QED
      BY <3>1, <3>2, <3>3 DEF SessionOK, Flushing, Executing, At, IsDecision, Runs
  <2> QED
    BY <2>1, <2>2, <2>3
<1>4. \A t \in Sessions \ {s} : SessionOK(t)'
  <2>1. Committed' = Committed
    BY <1>1 DEF Committed
  <2>2. \A t \in Sessions : Flushing(t) => session[t].entry \in DOMAIN chain
    BY DEF SessionsInv, SessionOK
  <2> QED
    BY <1>1, <2>1, <2>2, OthersStayOK
<1>5. Apart'
  BY <1>1 DEF SessionsInv, Apart, Flushing, At
<1>6. ChainOK'
  BY <1>1 DEF SessionsInv, ChainOK, Committed
<1> QED
  BY <1>2, <1>3, <1>4, <1>5, <1>6 DEF SessionsInv

\* A flush adds an entry that is the session's own, behind a committed one.
LEMMA FlushKeeps ==
    ASSUME SessionsInv, NEW s \in Sessions, Flush(s)
    PROVE  SessionsInv'
<1>1. PICK e : e = Len(chain) + 1
  OBVIOUS
<1>2. /\ DOMAIN chain' = DOMAIN chain \cup {e}
      /\ e \notin DOMAIN chain
      /\ \A n \in DOMAIN chain : n < e /\ chain'[n] = chain[n]
      /\ chain'[e] = [event |-> session[s].event, prev |-> session[s].prev, committed |-> FALSE]
      /\ Committed' = Committed
      /\ session[s].prev \in Committed /\ session[s].prev < e
      /\ chain' \in Seq(Link)
      /\ UNCHANGED <<row, records, effects>>
      /\ session' \in [Sessions -> Session]
      /\ \A t \in Sessions \ {s} : session'[t] = session[t]
      /\ session[s].pc = "read"
      /\ session'[s] = [session[s] EXCEPT !.pc = "flushed", !.entry = e]
  BY <1>1, Appends
<1>3. /\ session'[s].pc = "flushed" /\ session'[s].entry = e
      /\ session'[s].op = session[s].op /\ session'[s].user = session[s].user
      /\ session'[s].event = session[s].event /\ session'[s].seen = session[s].seen
  <2>1. session[s] \in Session
    BY DEF SessionsInv, TypeOK
  <2> QED
    BY <1>2, <2>1 DEF Session
<1>4. TypeOK'
  BY <1>2 DEF SessionsInv, TypeOK
<1>5. SessionOK(s)'
  <2>1. chain'[e].event = session[s].event /\ ~chain'[e].committed /\ e \in DOMAIN chain'
    BY <1>2
  <2> QED
    BY <1>2, <1>3, <2>1 DEF SessionsInv, SessionOK, EntryOf, Flushing, Executing, At, IsDecision
<1>6. \A t \in Sessions : Flushing(t) => session[t].entry \in DOMAIN chain
  BY DEF SessionsInv, SessionOK
<1>7. \A t \in Sessions \ {s} : SessionOK(t)'
  BY <1>2, <1>6, OthersStayOK
<1>8. Apart'
  <2>1. \A t \in Sessions \ {s} : Flushing(t)' => Flushing(t) /\ session'[t].entry # e
    <3>1. \A t \in Sessions \ {s} : session'[t] = session[t]
      BY <1>2
    <3>2. e \notin DOMAIN chain
      BY <1>2
    <3> QED
      BY <1>6, <3>1, <3>2 DEF Flushing, At
  <2>2. \A t \in Sessions \ {s} : session'[t] = session[t]
    BY <1>2
  <2>3. Apart
    BY DEF SessionsInv
  <2> QED
    BY <1>3, <2>1, <2>2, <2>3 DEF Apart
<1>9. ChainOK'
  <2>1. chain'[e].prev = session[s].prev
    BY <1>2
  <2> QED
    BY <1>2, <2>1 DEF SessionsInv, ChainOK
<1> QED
  BY <1>4, <1>5, <1>7, <1>8, <1>9 DEF SessionsInv

\* A commit makes the session's entry, and no other, a committed one.
LEMMA CommitKeeps ==
    ASSUME SessionsInv, NEW s \in Sessions, Commit(s) \/ ExecuteCommit(s)
    PROVE  SessionsInv'
<1>1. PICK e : e = session[s].entry
  OBVIOUS
<1>2. /\ Flushing(s) /\ e \in DOMAIN chain /\ e \notin Committed
      /\ DOMAIN chain' = DOMAIN chain
      /\ \A n \in DOMAIN chain : chain'[n].event = chain[n].event /\ chain'[n].prev = chain[n].prev
      /\ \A n \in DOMAIN chain \ {e} : chain'[n] = chain[n]
      /\ Committed' = Committed \cup {e}
      /\ chain' \in Seq(Link)
  BY <1>1, Commits, CommitsFlush
<1>3. /\ row' \in ItemRow /\ row'.kind = row.kind
      /\ records' \in SUBSET RecordRow /\ effects' \in Nat
      /\ session' \in [Sessions -> Session]
      /\ \A t \in Sessions \ {s} : session'[t] = session[t]
      /\ \/ session'[s].pc = "idle" /\ session'[s].op = "none" /\ session'[s].event = "none"
         \/ /\ session'[s].pc = "approved" /\ session'[s].op = "approve"
            /\ session'[s].event = "approve" /\ session'[s].user = session[s].user
            /\ session'[s].seen.kind = row.kind
            /\ session[s].op = "approve"
  BY CommitMoves, SealMoves DEF SessionsInv, TypeOK
<1>4. TypeOK'
  BY <1>2, <1>3 DEF TypeOK
<1>5. SessionOK(s)'
  <2>1. session[s].op = "approve" => session[s].user \in Users
    BY <1>2 DEF SessionsInv, SessionOK, Flushing, At, IsDecision, Decisions
  <2> QED
    BY <1>3, <2>1 DEF SessionOK, Flushing, Executing, At, IsDecision, Decisions, Ops, Runs
<1>6. \A t \in Sessions \ {s} : SessionOK(t)'
  <2>1. \A t \in Sessions \ {s} : Flushing(t) => session[t].entry # e /\ session[t].entry \in DOMAIN chain
    BY <1>1, <1>2 DEF SessionsInv, Apart, SessionOK
  <2> QED
    BY <1>2, <1>3, <2>1, OthersStayOK
<1>7. Apart'
  BY <1>3 DEF SessionsInv, Apart, Flushing, At
<1>8. ChainOK'
  BY <1>2 DEF SessionsInv, ChainOK
<1> QED
  BY <1>4, <1>5, <1>6, <1>7, <1>8 DEF SessionsInv

\* No step leaves a session with an entry that is not its own, or the chain with a
\* parent that is not a committed, older entry.
LEMMA SessionsStep == SessionsInv /\ [Next]_vars => SessionsInv'
<1> SUFFICES ASSUME SessionsInv, [Next]_vars
             PROVE  SessionsInv'
  OBVIOUS
<1>1. CASE UNCHANGED vars
  BY <1>1 DEF vars, SessionsInv, TypeOK, SessionOK, EntryOf, Flushing, Executing, At, IsDecision,
              Apart, ChainOK, Committed
<1> QED
  BY <1>1, QuietKeeps, MiddleKeeps, FlushKeeps, CommitKeeps DEF Next

\* So the sessions and the chain are always as the invariant says.
LEMMA SessionsInvariant == Spec => []SessionsInv
BY SessionsStart, SessionsStep, PTL DEF Spec

\* The store and the sessions keep their types.
THEOREM TypeCorrect == Spec => []TypeOK
<1>1. SessionsInv => TypeOK
  BY DEF SessionsInv
<1> QED
  BY <1>1, SessionsInvariant, PTL

\* Even where overlapping writers fork the chain, every committed entry hangs off an
\* older committed one: _latest_hash never returns an entry that is rolled back later.
THEOREM ParentsAreCommittedProved == Spec => []ParentsAreCommitted
<1>1. SessionsInv => ParentsAreCommitted
  BY DEF SessionsInv, ChainOK, ParentsAreCommitted, Committed
<1> QED
  BY <1>1, SessionsInvariant, PTL

-----------------------------------------------------------------------------
(* The records and the chain. *)

\* A step that commits an entry adds the pair of that entry to both, or to neither.
LEMMA RecordsStep == SessionsInv /\ RecordsMatchChain /\ [Next]_vars => RecordsMatchChain'
<1> SUFFICES ASSUME SessionsInv, RecordsMatchChain, [Next]_vars
             PROVE  RecordsMatchChain'
  OBVIOUS
<1>0. Committed \subseteq DOMAIN chain
  BY DEF Committed
<1>1. CASE UNCHANGED <<records, chain>>
  BY <1>1 DEF RecordsMatchChain, Committed
<1>2. ASSUME NEW s \in Sessions,
             \/ \E op \in Ops, u \in Users \cup {None} : Load(s, op, u)
             \/ Check(s) \/ Abort(s) \/ ReadLatest(s) \/ Execute(s) \/ CommitByHook(s)
      PROVE  RecordsMatchChain'
  BY <1>1, <1>2, QuietMoves, LatestMoves, ExecuteMoves, HookMoves DEF store
<1>3. ASSUME NEW s \in Sessions, Flush(s)
      PROVE  RecordsMatchChain'
  <2>1. /\ Committed' = Committed
        /\ \A n \in Committed : chain'[n] = chain[n]
        /\ records' = records
    BY <1>0, <1>3, Appends
  <2> QED
    BY <2>1 DEF RecordsMatchChain
<1>4. ASSUME NEW s \in Sessions, Commit(s) \/ ExecuteCommit(s)
      PROVE  RecordsMatchChain'
  <2>1. PICK e : e = session[s].entry
    OBVIOUS
  <2>2. /\ e \in DOMAIN chain /\ e \notin Committed
        /\ \A n \in DOMAIN chain : chain'[n].event = chain[n].event
        /\ Committed' = Committed \cup {e}
    BY <1>4, <2>1, Commits, CommitsFlush
  <2>3. chain[e].event = session[s].event
    BY <1>4, <2>1, CommitsFlush DEF SessionsInv, SessionOK, EntryOf
  <2>4. CASE Commit(s) /\ session[s].op \in Decisions
    <3>1. chain[e].event = session[s].op
      BY <2>3, <2>4, CommitMoves
    <3>2. PICK new : new = [user |-> session[s].user, decision |-> session[s].op, entry |-> e]
      OBVIOUS
    <3>3. {<<r.entry, r.decision>> : r \in records'}
            = {<<r.entry, r.decision>> : r \in records} \cup {<<e, session[s].op>>}
      <4>1. records' = records \cup {new}
        BY <2>1, <2>4, <3>2, CommitMoves
      <4>2. new.entry = e /\ new.decision = session[s].op
        BY <3>2
      <4> QED
        BY <4>1, <4>2
    <3>4. {<<n, chain'[n].event>> : n \in {m \in Committed' : chain'[m].event \in Decisions}}
            = {<<n, chain[n].event>> : n \in {m \in Committed : chain[m].event \in Decisions}}
                \cup {<<e, session[s].op>>}
      BY <1>0, <2>2, <2>4, <3>1
    <3> QED
      BY <3>3, <3>4 DEF RecordsMatchChain
  <2>5. CASE ExecuteCommit(s) \/ (Commit(s) /\ session[s].op \notin Decisions)
    <3>1. chain[e].event \notin Decisions
      <4>1. CASE ExecuteCommit(s)
        BY <2>3, <4>1, SealMoves DEF Decisions, Runs
      <4>2. CASE Commit(s) /\ session[s].op \notin Decisions
        BY <2>3, <4>2, CommitMoves
      <4> QED
        BY <2>5, <4>1, <4>2
    <3>2. records' = records
      BY <2>5, CommitMoves, SealMoves
    <3>3. {<<n, chain'[n].event>> : n \in {m \in Committed' : chain'[m].event \in Decisions}}
            = {<<n, chain[n].event>> : n \in {m \in Committed : chain[m].event \in Decisions}}
      BY <1>0, <2>2, <3>1
    <3> QED
      BY <3>2, <3>3 DEF RecordsMatchChain
  <2> QED
    BY <1>4, <2>4, <2>5
<1>5. CASE UNCHANGED vars
  BY <1>1, <1>5 DEF vars
<1> QED
  BY <1>2, <1>3, <1>4, <1>5 DEF Next

\* The table of decisions and the audit chain tell the same story: whatever overlaps or
\* dies, a decision is recorded exactly when its event is committed.
THEOREM RecordsMatchChainProved == Spec => []RecordsMatchChain
<1>1. Init => RecordsMatchChain
  <2> SUFFICES ASSUME Init
               PROVE  RecordsMatchChain
    OBVIOUS
  <2>1. records = {} /\ DOMAIN chain = {1} /\ chain[1].event = "created"
    BY DEF Init
  <2> QED
    BY <2>1 DEF RecordsMatchChain, Committed, Decisions
<1> QED
  BY <1>1, RecordsStep, SessionsInvariant, PTL DEF Spec

-----------------------------------------------------------------------------
(* The SLA watcher. *)

\* At most one session is the watcher's, and once it has looked for a breach on the
\* chain there is none until it commits its own.
BreachInv ==
    /\ \A s, t \in Sessions :
          session[s].op = "sla_breach" /\ session[t].op = "sla_breach" => s = t
    /\ \A s \in Sessions :
          session[s].op = "sla_breach" /\ ~At(s, "loaded") => ~BreachOnChain
    /\ BreachTaggedOnce

\* Only a load makes a watcher, only its check and its commit change what it knows.
LEMMA BreachStep == SessionsInv /\ BreachInv /\ [Next]_vars => BreachInv'
<1> SUFFICES ASSUME SessionsInv, BreachInv, [Next]_vars
             PROVE  BreachInv'
  OBVIOUS
<1>0. Committed \subseteq DOMAIN chain /\ session \in [Sessions -> Session]
  BY DEF Committed, SessionsInv, TypeOK
<1>1. CASE UNCHANGED vars
  BY <1>1 DEF vars, BreachInv, BreachOnChain, BreachTaggedOnce, Committed, At
<1>2. ASSUME NEW s \in Sessions,
             \/ \E op \in Ops, u \in Users \cup {None} : Load(s, op, u)
             \/ Check(s)
             \/ Abort(s)
      PROVE  BreachInv'
  <2>1. /\ chain' = chain
        /\ \A t \in Sessions \ {s} : session'[t] = session[t]
        /\ session'[s].op = "sla_breach" =>
              \/ session[s].op = "sla_breach" /\ ~BreachOnChain
              \/ /\ \A t \in Sessions : session[t].op # "sla_breach"
                 /\ session'[s].pc = "loaded"
    BY <1>2, QuietMoves DEF store
  <2> QED
    BY <2>1 DEF BreachInv, BreachOnChain, BreachTaggedOnce, Committed, At
<1>3. ASSUME NEW s \in Sessions, ReadLatest(s) \/ Flush(s) \/ Execute(s) \/ CommitByHook(s)
      PROVE  BreachInv'
  <2>1. /\ Committed' = Committed
        /\ \A n \in Committed : chain'[n] = chain[n]
        /\ \A t \in Sessions \ {s} : session'[t] = session[t]
        /\ session[s].pc # "loaded"
        /\ session'[s].op = session[s].op
    <3>0. session[s] \in Session
      BY <1>0
    <3>1. CASE ReadLatest(s)
      <4>1. /\ chain' = chain /\ session[s].pc = "checked"
            /\ \A t \in Sessions \ {s} : session'[t] = session[t]
            /\ session'[s] = [session[s] EXCEPT !.pc = "read", !.prev = Latest]
        BY <3>1, LatestMoves DEF store
      <4>2. session'[s].op = session[s].op
        BY <3>0, <4>1 DEF Session
      <4> QED
        BY <4>1, <4>2 DEF Committed
    <3>2. CASE Flush(s)
      BY ZenonT(40), <1>0, <3>0, <3>2, Appends DEF Session
    <3>3. CASE Execute(s)
      <4>1. PICK outcome \in Runs :
               /\ chain' = chain /\ session[s].pc = "approved"
               /\ \A t \in Sessions \ {s} : session'[t] = session[t]
               /\ session'[s] = [session[s] EXCEPT !.pc = "checked", !.event = outcome]
        BY <3>3, ExecuteMoves DEF store
      <4>2. session'[s].op = session[s].op
        BY <3>0, <4>1 DEF Session
      <4> QED
        BY <4>1, <4>2 DEF Committed
    <3>4. CASE CommitByHook(s)
      BY <3>0, <3>4, HookMoves DEF Committed, Session
    <3> QED
      BY <1>3, <3>1, <3>2, <3>3, <3>4
  <2>2. (BreachOnChain' <=> BreachOnChain) /\ (BreachTaggedOnce' <=> BreachTaggedOnce)
    BY <2>1 DEF BreachOnChain, BreachTaggedOnce
  <2> QED
    BY <2>1, <2>2 DEF BreachInv, At
<1>4. ASSUME NEW s \in Sessions, Commit(s) \/ ExecuteCommit(s)
      PROVE  BreachInv'
  <2>1. PICK e : e = session[s].entry
    OBVIOUS
  <2>2. /\ Flushing(s) /\ e \in DOMAIN chain /\ e \notin Committed
        /\ \A n \in DOMAIN chain : chain'[n].event = chain[n].event
        /\ Committed' = Committed \cup {e}
    BY <1>4, <2>1, Commits, CommitsFlush
  <2>3. /\ \A t \in Sessions \ {s} : session'[t] = session[t]
        /\ session'[s].op # "sla_breach"
    BY <1>4, CommitMoves, SealMoves
  <2>4. chain[e].event = "sla_breach" => session[s].op = "sla_breach" /\ ~At(s, "loaded")
    BY <2>1, <2>2 DEF SessionsInv, SessionOK, Flushing, EntryOf, At, Runs
  <2>5. CASE chain[e].event = "sla_breach"
    <3>1. ~BreachOnChain /\ \A t \in Sessions \ {s} : session'[t].op # "sla_breach"
      BY <2>3, <2>4, <2>5 DEF BreachInv
    <3> QED
      BY <1>0, <2>2, <2>3, <3>1 DEF BreachInv, BreachOnChain, BreachTaggedOnce
  <2>6. CASE chain[e].event # "sla_breach"
    <3>1. BreachOnChain' => BreachOnChain
      BY <1>0, <2>2, <2>6 DEF BreachOnChain
    <3>2. BreachTaggedOnce'
      BY <1>0, <2>2, <2>6 DEF BreachInv, BreachTaggedOnce
    <3> QED
      BY <2>3, <3>1, <3>2 DEF BreachInv, At
  <2> QED
    BY <2>5, <2>6
<1> QED
  BY <1>1, <1>2, <1>3, <1>4 DEF Next

\* The SLA watcher tags a breach once, however its request overlaps with the decisions
\* on the item and however often it dies: the check for an earlier breach event reads
\* committed entries only, and no other request commits one.
THEOREM BreachTaggedOnceProved == Spec => []BreachTaggedOnce
<1>1. Init => BreachInv
  <2> SUFFICES ASSUME Init
               PROVE  BreachInv
    OBVIOUS
  <2>1. \A s \in Sessions : session[s].op = "none"
    BY DEF Init, Idle
  <2>2. DOMAIN chain = {1}
    BY DEF Init
  <2> QED
    BY <2>1, <2>2 DEF BreachInv, BreachTaggedOnce, Committed
<1>2. BreachInv => BreachTaggedOnce
  BY DEF BreachInv
<1> QED
  BY <1>1, <1>2, BreachStep, SessionsInvariant, PTL DEF Spec

-----------------------------------------------------------------------------
(* The runs of the executor. *)

\* An attempt is backed by an approval, and so is every session that is on its way to
\* one: the approvals g of the attempts and h of those sessions are all different, and
\* older.  The approvals S have paid for work a hook has committed ahead of its entry,
\* which may never come.
Executors == {s \in Sessions : At(s, "approved") \/ Executing(s)}

Hooked(s) == Executing(s) /\ session[s].seen.status = "executed"

Backed(g, h, S) ==
    /\ \A n \in AttemptsOnChain : g[n] < n
    /\ \A m, n \in AttemptsOnChain : g[m] = g[n] => m = n
    /\ \A s, t \in Executors : h[s] = h[t] => s = t
    /\ \A n \in AttemptsOnChain, s \in Executors : g[n] # h[s]
    /\ \A s \in Executors : At(s, "flushed") => h[s] < session[s].entry
    /\ \A n \in AttemptsOnChain : g[n] \notin S
    /\ \A s \in Executors : h[s] \in S <=> Hooked(s)
    /\ effects = Cardinality(RunsOnChain) + Cardinality(S)
    /\ S # {} => HasHook(row.kind)

RunsInv == \E g \in [AttemptsOnChain -> ApprovalsGiven], h \in [Executors -> ApprovalsGiven],
              S \in SUBSET ApprovalsGiven : Backed(g, h, S)

\* An approval in the table has its event committed on the chain.
LEMMA ApprovalsAreCommitted == RecordsMatchChain => ApprovalsGiven \subseteq Committed
<1> SUFFICES ASSUME RecordsMatchChain, NEW r \in ApproveRecords(records)
             PROVE  r.entry \in Committed
  BY DEF ApprovalsGiven
<1>1. r \in records
  BY DEF ApproveRecords
<1>2. <<r.entry, r.decision>> \in {<<n, chain[n].event>> : n \in {m \in Committed : chain[m].event \in Decisions}}
  <2>1. <<r.entry, r.decision>> \in {<<x.entry, x.decision>> : x \in records}
    BY <1>1
  <2> QED
    BY <2>1 DEF RecordsMatchChain
<1>3. PICK n \in Committed : <<r.entry, r.decision>> = <<n, chain[n].event>>
  BY <1>2
<1> QED
  BY <1>3

\* The sets that are counted are finite.
LEMMA CountedSets ==
    ASSUME SessionsInv, RecordsMatchChain
    PROVE  /\ IsFiniteSet(ApprovalsGiven) /\ IsFiniteSet(RunsOnChain)
           /\ \A S \in SUBSET ApprovalsGiven : IsFiniteSet(S) /\ Cardinality(S) \in Nat
           /\ Cardinality(RunsOnChain) \in Nat
<1>1. Len(chain) \in Nat /\ Committed \subseteq 1 .. Len(chain)
  BY DEF SessionsInv, TypeOK, Committed
<1>2. IsFiniteSet(1 .. Len(chain))
  BY <1>1, FS_Interval
<1>3. ApprovalsGiven \subseteq 1 .. Len(chain) /\ RunsOnChain \subseteq 1 .. Len(chain)
  BY <1>1, ApprovalsAreCommitted DEF RunsOnChain
<1>4. IsFiniteSet(ApprovalsGiven) /\ IsFiniteSet(RunsOnChain)
  BY <1>2, <1>3, FS_Subset
<1> QED
  BY <1>4, FS_Subset, FS_CardinalityType

\* A request that loads, checks or dies takes its approval with it, if it had one.
LEMMA QuietRuns ==
    ASSUME SessionsInv, RunsInv, NEW s \in Sessions,
           \/ \E op \in Ops, u \in Users \cup {None} : Load(s, op, u)
           \/ Check(s)
           \/ Abort(s)
    PROVE  RunsInv'
<1>1. PICK g \in [AttemptsOnChain -> ApprovalsGiven], h \in [Executors -> ApprovalsGiven],
           S \in SUBSET ApprovalsGiven : Backed(g, h, S)
  BY DEF RunsInv
<1>2. /\ UNCHANGED <<row, records, chain, effects>>
      /\ \A t \in Sessions \ {s} : session'[t] = session[t]
      /\ session'[s].pc \in {"idle", "loaded", "checked"}
      /\ session'[s].event \in Ops \cup {"none"}
  BY QuietMoves DEF store
<1>3. /\ AttemptsOnChain' = AttemptsOnChain /\ RunsOnChain' = RunsOnChain
      /\ ApprovalsGiven' = ApprovalsGiven
  BY <1>2 DEF AttemptsOnChain, RunsOnChain, ApprovalsGiven, Committed
<1>4. Executors' \subseteq Executors \ {s}
  BY <1>2 DEF Executors, Executing, At, Ops, Decisions, Runs
<1>5. PICK k : k = [t \in Executors' |-> h[t]]
  OBVIOUS
<1>6. k \in [Executors' -> ApprovalsGiven']
  BY <1>3, <1>4, <1>5
<1>7. Backed(g, k, S)'
  <2>1. \A t \in Executors' : k[t] = h[t] /\ t \in Executors /\ session'[t] = session[t]
    BY <1>2, <1>4, <1>5 DEF Executors
  <2> QED
    BY <1>1, <1>2, <1>3, <2>1 DEF Backed, Hooked, Executing, At
<1> QED
  BY <1>3, <1>6, <1>7 DEF RunsInv

\* The steps between keep the approvals of the sessions; the entry that is flushed is
\* younger than every approval.
LEMMA MiddleRuns ==
    ASSUME SessionsInv, RecordsMatchChain, RunsInv, NEW s \in Sessions,
           ReadLatest(s) \/ Flush(s) \/ Execute(s)
    PROVE  RunsInv'
<1>1. PICK g \in [AttemptsOnChain -> ApprovalsGiven], h \in [Executors -> ApprovalsGiven],
           S \in SUBSET ApprovalsGiven : Backed(g, h, S)
  BY DEF RunsInv
<1>2. /\ Committed' = Committed /\ \A n \in Committed : chain'[n] = chain[n]
      /\ UNCHANGED <<row, records, effects>>
      /\ \A t \in Sessions \ {s} : session'[t] = session[t]
      /\ s \in Executors' <=> s \in Executors
      /\ Hooked(s)' <=> Hooked(s)
      /\ session'[s].pc = "flushed" => Flush(s)
  <2>0. session[s] \in Session
    BY DEF SessionsInv, TypeOK
  <2>1. CASE ReadLatest(s)
    <3>1. /\ session[s].pc = "checked" /\ session'[s].pc = "read"
          /\ session'[s].event = session[s].event /\ session'[s].seen = session[s].seen
      BY ZenonT(40), <2>0, <2>1, LatestMoves DEF Session
    <3> QED
      BY <2>1, <3>1, LatestMoves DEF store, Committed, Executors, Hooked, Executing, At
  <2>2. CASE Flush(s)
    <3>1. /\ session[s].pc = "read" /\ session'[s].pc = "flushed"
          /\ session'[s].event = session[s].event /\ session'[s].seen = session[s].seen
      BY ZenonT(40), <2>0, <2>2, Appends DEF Session
    <3>2. Committed \subseteq DOMAIN chain
      BY DEF Committed
    <3> QED
      BY <2>2, <3>1, <3>2, Appends DEF Executors, Hooked, Executing, At
  <2>3. CASE Execute(s)
    <3>1. PICK outcome \in Runs : session'[s] = [session[s] EXCEPT !.pc = "checked", !.event = outcome]
      BY <2>3, ExecuteMoves
    <3>2. /\ session[s].pc = "approved" /\ session[s].seen.status = "approved"
          /\ session'[s].pc = "checked" /\ session'[s].event \in Runs
          /\ session'[s].seen = session[s].seen
      BY <2>0, <2>3, <3>1, ExecuteMoves DEF Session
    <3> QED
      BY <2>3, <3>2, ExecuteMoves DEF store, Committed, Executors, Hooked, Executing, At
  <2> QED
    BY <2>1, <2>2, <2>3
<1>3. /\ AttemptsOnChain' = AttemptsOnChain /\ RunsOnChain' = RunsOnChain
      /\ ApprovalsGiven' = ApprovalsGiven
  BY <1>2 DEF AttemptsOnChain, RunsOnChain, ApprovalsGiven
<1>4. Executors' = Executors /\ \A t \in Executors : Hooked(t)' <=> Hooked(t)
  BY <1>2 DEF Executors, Hooked, Executing, At
<1>5. \A t \in Executors : At(t, "flushed")' => h[t] < session'[t].entry
  <2>1. ASSUME NEW t \in Executors, t # s, At(t, "flushed")'
        PROVE  h[t] < session'[t].entry
    BY <1>1, <1>2, <2>1 DEF Backed, At, Executors
  <2>2. ASSUME s \in Executors, At(s, "flushed")'
        PROVE  h[s] < session'[s].entry
    <3>1. Flush(s) /\ h[s] \in Committed
      BY <1>2, <2>2, ApprovalsAreCommitted DEF At
    <3>2. session'[s].entry = Len(chain) + 1
      BY <3>1, Appends DEF SessionsInv, TypeOK, Session
    <3>3. h[s] < Len(chain) + 1
      BY <3>1, Appends DEF Committed
    <3> QED
      BY <3>2, <3>3
  <2> QED
    BY <2>1, <2>2
<1>6. Backed(g, h, S)'
  BY <1>1, <1>2, <1>3, <1>4, <1>5 DEF Backed
<1> QED
  BY <1>3, <1>4, <1>6 DEF RunsInv

\* Work a hook commits is paid for by the approval of its session.
LEMMA HookRuns ==
    ASSUME SessionsInv, RecordsMatchChain, RunsInv, NEW s \in Sessions, CommitByHook(s)
    PROVE  RunsInv'
<1>1. PICK g \in [AttemptsOnChain -> ApprovalsGiven], h \in [Executors -> ApprovalsGiven],
           S \in SUBSET ApprovalsGiven : Backed(g, h, S)
  BY DEF RunsInv
<1>2. /\ UNCHANGED <<records, chain>> /\ effects' = effects + 1 /\ row'.kind = row.kind
      /\ HasHook(row.kind)
      /\ \A t \in Sessions \ {s} : session'[t] = session[t]
      /\ session[s].pc = "checked" /\ session[s].event = "executed"
      /\ session[s].seen.status = "approved"
      /\ session'[s].seen.status = "executed"
      /\ session'[s] = [session[s] EXCEPT !.seen = [session[s].seen EXCEPT !.status = "executed"]]
  BY HookMoves
<1>3. session'[s].pc = "checked" /\ session'[s].event = "executed"
  BY <1>2 DEF SessionsInv, TypeOK, Session
<1>4. /\ AttemptsOnChain' = AttemptsOnChain /\ RunsOnChain' = RunsOnChain
      /\ ApprovalsGiven' = ApprovalsGiven
  BY <1>2 DEF AttemptsOnChain, RunsOnChain, ApprovalsGiven, Committed
<1>5. /\ Executors' = Executors /\ s \in Executors /\ Hooked(s)' /\ ~Hooked(s)
      /\ \A t \in Executors \ {s} : Hooked(t)' <=> Hooked(t)
  BY <1>2, <1>3 DEF Executors, Hooked, Executing, At, Runs
<1>6. PICK U : U = S \cup {h[s]}
  OBVIOUS
<1>7. h[s] \notin S /\ U \in SUBSET ApprovalsGiven
  BY <1>1, <1>5, <1>6 DEF Backed
<1>8. Cardinality(U) = Cardinality(S) + 1
  BY <1>6, <1>7, CountedSets, FS_AddElement
<1>9. effects' = Cardinality(RunsOnChain) + Cardinality(U)
  BY <1>1, <1>2, <1>8, CountedSets DEF Backed
<1>10. \A t \in Executors : h[t] \in U <=> Hooked(t)'
  BY <1>1, <1>5, <1>6 DEF Backed
<1>11. \A n \in AttemptsOnChain : g[n] \notin U
  BY <1>1, <1>5, <1>6 DEF Backed
<1>12. \A t \in Executors : At(t, "flushed")' => h[t] < session'[t].entry
  BY <1>1, <1>2, <1>3 DEF Backed, At, Executors
<1>13. Backed(g, h, U)'
  BY <1>1, <1>2, <1>4, <1>5, <1>9, <1>10, <1>11, <1>12 DEF Backed
<1> QED
  BY <1>4, <1>5, <1>7, <1>13 DEF RunsInv

\* A commit that completes the signatures backs its session by its own new approval.
LEMMA CommitRuns ==
    ASSUME SessionsInv, RecordsMatchChain, RunsInv, NEW s \in Sessions, Commit(s)
    PROVE  RunsInv'
<1>1. PICK g \in [AttemptsOnChain -> ApprovalsGiven], h \in [Executors -> ApprovalsGiven],
           S \in SUBSET ApprovalsGiven : Backed(g, h, S)
  BY DEF RunsInv
<1>2. PICK e : e = session[s].entry
  OBVIOUS
<1>3. /\ Flushing(s) /\ e \in DOMAIN chain /\ e \notin Committed
      /\ \A n \in DOMAIN chain : chain'[n].event = chain[n].event
      /\ Committed' = Committed \cup {e}
  BY <1>2, Commits, CommitsFlush
<1>4. session[s].event = session[s].op /\ session[s].event \notin Runs
  BY CommitMoves DEF Ops, Decisions, Runs
<1>5. chain[e].event \notin Runs
  BY <1>2, <1>3, <1>4 DEF SessionsInv, SessionOK, EntryOf
<1>6. AttemptsOnChain' = AttemptsOnChain /\ RunsOnChain' = RunsOnChain
  BY <1>3, <1>5 DEF AttemptsOnChain, RunsOnChain, Committed, Runs
<1>7. PICK new : new = [user |-> session[s].user, decision |-> session[s].op, entry |-> e]
  OBVIOUS
<1>8. /\ \A t \in Sessions \ {s} : session'[t] = session[t]
      /\ \/ session'[s].pc = "idle" /\ session'[s].event = "none"
         \/ /\ session'[s].pc = "approved" /\ session'[s].event = "approve"
            /\ session[s].op = "approve"
      /\ session[s].op \in Decisions => records' = records \cup {new}
      /\ session[s].op \notin Decisions => records' = records
      /\ effects' = effects /\ row'.kind = row.kind
  BY <1>2, <1>7, CommitMoves
<1>9. ApprovalsGiven \subseteq ApprovalsGiven'
  BY <1>8 DEF ApprovalsGiven, ApproveRecords
<1>10. s \notin Executors
  BY <1>3, <1>4 DEF Executors, Executing, Flushing, At
<1>11. CASE session'[s].pc = "idle" /\ session'[s].event = "none"
  <2>1. Executors' = Executors /\ \A t \in Executors : session'[t] = session[t]
    BY <1>8, <1>10, <1>11 DEF Executors, Executing, At, Runs
  <2>2. Backed(g, h, S)'
    BY <1>1, <1>6, <1>8, <2>1 DEF Backed, Hooked, Executing, At
  <2> QED
    BY <1>6, <1>9, <2>1, <2>2 DEF RunsInv
<1>12. CASE session'[s].pc = "approved" /\ session'[s].event = "approve" /\ session[s].op = "approve"
  <2>1. Executors' = Executors \cup {s} /\ \A t \in Executors : t # s /\ session'[t] = session[t]
    BY <1>8, <1>10, <1>12 DEF Executors, Executing, At
  <2>2. e \in ApprovalsGiven'
    <3>1. new \in ApproveRecords(records')
      BY <1>7, <1>8, <1>12 DEF ApproveRecords, Decisions
    <3>2. new.entry = e
      BY <1>7
    <3> QED
      BY <3>1, <3>2 DEF ApprovalsGiven
  <2>3. e \notin ApprovalsGiven /\ e \notin S
    BY <1>3, ApprovalsAreCommitted
  <2>4. PICK k : k = [t \in Executors' |-> IF t = s THEN e ELSE h[t]]
    OBVIOUS
  <2>5. k \in [Executors' -> ApprovalsGiven']
    BY <1>9, <2>1, <2>2, <2>4
  <2>6. k[s] = e /\ \A t \in Executors : k[t] = h[t] /\ k[t] # e
    BY <2>1, <2>3, <2>4
  <2>7. ~At(s, "flushed")' /\ ~Hooked(s)'
    BY <1>12 DEF At, Hooked, Executing, Runs
  <2>8. \A n \in AttemptsOnChain : g[n] # e
    BY <2>3
  <2>9. \A t \in Executors : /\ At(t, "flushed")' <=> At(t, "flushed")
                             /\ Hooked(t)' <=> Hooked(t)
                             /\ session'[t] = session[t]
    BY <2>1 DEF At, Hooked, Executing
  <2>10. Backed(g, k, S)'
    BY <1>1, <1>6, <1>8, <2>1, <2>3, <2>6, <2>7, <2>8, <2>9 DEF Backed
  <2> QED
    BY <1>6, <1>9, <2>5, <2>10 DEF RunsInv
<1> QED
  BY <1>8, <1>11, <1>12

\* An execution that commits its entry takes over the approval of its session: for a
\* run of its own, for the entry of what a hook has committed, or for a failure.
LEMMA SealRuns ==
    ASSUME SessionsInv, RecordsMatchChain, RunsInv, NEW s \in Sessions, ExecuteCommit(s)
    PROVE  RunsInv'
<1>1. PICK g \in [AttemptsOnChain -> ApprovalsGiven], h \in [Executors -> ApprovalsGiven],
           S \in SUBSET ApprovalsGiven : Backed(g, h, S)
  BY DEF RunsInv
<1>2. PICK e : e = session[s].entry
  OBVIOUS
<1>3. /\ Flushing(s) /\ e \in DOMAIN chain /\ e \notin Committed
      /\ \A n \in DOMAIN chain : chain'[n].event = chain[n].event
      /\ Committed' = Committed \cup {e}
  BY <1>2, Commits, CommitsFlush
<1>4. /\ \A t \in Sessions \ {s} : session'[t] = session[t]
      /\ session'[s].pc = "idle" /\ session'[s].event = "none"
      /\ records' = records /\ row'.kind = row.kind
      /\ session[s].pc = "flushed" /\ session[s].event \in Runs
      /\ effects' = IF session[s].seen.status = "approved" /\ session[s].event = "executed"
                    THEN effects + 1 ELSE effects
  BY SealMoves
<1>5. /\ s \in Executors /\ chain[e].event = session[s].event
      /\ \/ session[s].seen.status = "approved"
         \/ session[s].seen.status = "executed" /\ session[s].event = "executed"
  BY <1>2, <1>3, <1>4 DEF Executors, Executing, SessionsInv, SessionOK, EntryOf
<1>6. /\ AttemptsOnChain' = AttemptsOnChain \cup {e} /\ e \notin AttemptsOnChain
      /\ RunsOnChain' = IF session[s].event = "executed" THEN RunsOnChain \cup {e} ELSE RunsOnChain
      /\ e \notin RunsOnChain
  BY <1>3, <1>4, <1>5 DEF AttemptsOnChain, RunsOnChain, Committed
<1>7. ApprovalsGiven' = ApprovalsGiven
  BY <1>4 DEF ApprovalsGiven
<1>8. Executors' = Executors \ {s} /\ \A t \in Executors' : session'[t] = session[t]
  BY <1>4 DEF Executors, Executing, At, Runs
<1>9. PICK f : f = [n \in AttemptsOnChain' |-> IF n = e THEN h[s] ELSE g[n]]
  OBVIOUS
<1>10. PICK k : k = [t \in Executors' |-> h[t]]
  OBVIOUS
<1>11. PICK U : U = S \ {h[s]}
  OBVIOUS
<1>12. /\ f \in [AttemptsOnChain' -> ApprovalsGiven'] /\ k \in [Executors' -> ApprovalsGiven']
       /\ U \in SUBSET ApprovalsGiven'
  BY <1>5, <1>6, <1>7, <1>8, <1>9, <1>10, <1>11
<1>13. /\ f[e] = h[s] /\ \A n \in AttemptsOnChain : f[n] = g[n] /\ n # e
       /\ \A t \in Executors' : k[t] = h[t] /\ t \in Executors /\ t # s
  BY <1>6, <1>8, <1>9, <1>10
<1>14. h[s] < e
  BY <1>1, <1>2, <1>4, <1>5 DEF Backed, At
<1>15. effects' = Cardinality(RunsOnChain') + Cardinality(U)
  <2>1. Cardinality(RunsOnChain \cup {e}) = Cardinality(RunsOnChain) + 1
    BY <1>6, CountedSets, FS_AddElement
  <2>2. Cardinality(U) = IF h[s] \in S THEN Cardinality(S) - 1 ELSE Cardinality(S)
    BY <1>11, CountedSets, FS_RemoveElement
  <2>3. Cardinality(S) \in Nat /\ Cardinality(RunsOnChain) \in Nat
    BY CountedSets
  <2>4. effects = Cardinality(RunsOnChain) + Cardinality(S)
    BY <1>1 DEF Backed
  <2>5. h[s] \in S <=> session[s].seen.status = "executed"
    BY <1>1, <1>4, <1>5 DEF Backed, Hooked, Executing
  <2>6. CASE session[s].seen.status = "executed" /\ session[s].event = "executed"
    <3>1. effects' = effects /\ RunsOnChain' = RunsOnChain \cup {e} /\ h[s] \in S
      BY <1>4, <1>6, <2>5, <2>6
    <3> QED
      BY <2>1, <2>2, <2>3, <2>4, <3>1
  <2>7. CASE session[s].seen.status = "approved" /\ session[s].event = "executed"
    <3>1. effects' = effects + 1 /\ RunsOnChain' = RunsOnChain \cup {e} /\ h[s] \notin S
      BY <1>4, <1>6, <2>5, <2>7
    <3> QED
      BY <2>1, <2>2, <2>3, <2>4, <3>1
  <2>8. CASE session[s].seen.status = "approved" /\ session[s].event # "executed"
    <3>1. effects' = effects /\ RunsOnChain' = RunsOnChain /\ h[s] \notin S
      BY <1>4, <1>6, <2>5, <2>8
    <3> QED
      BY <2>2, <2>4, <3>1
  <2> QED
    BY <1>5, <2>6, <2>7, <2>8
<1>16. /\ \A n \in AttemptsOnChain' : f[n] < n /\ f[n] \notin U
       /\ \A m, n \in AttemptsOnChain' : f[m] = f[n] => m = n
       /\ \A n \in AttemptsOnChain', t \in Executors' : f[n] # k[t]
  BY <1>1, <1>5, <1>6, <1>11, <1>13, <1>14 DEF Backed
<1>17. /\ \A t, u \in Executors' : k[t] = k[u] => t = u
       /\ \A t \in Executors' : At(t, "flushed")' => k[t] < session'[t].entry
       /\ \A t \in Executors' : k[t] \in U <=> Hooked(t)'
  <2>1. \A t \in Executors' : /\ At(t, "flushed")' <=> At(t, "flushed")
                              /\ Hooked(t)' <=> Hooked(t)
    BY <1>8 DEF At, Hooked, Executing
  <2>2. \A t \in Executors' : h[t] # h[s]
    BY <1>1, <1>5, <1>13 DEF Backed
  <2> QED
    BY <1>1, <1>8, <1>11, <1>13, <2>1, <2>2 DEF Backed
<1>18. U # {} => HasHook(row'.kind)
  BY <1>1, <1>4, <1>11 DEF Backed
<1>19. Backed(f, k, U)'
  BY <1>15, <1>16, <1>17, <1>18 DEF Backed
<1> QED
  BY <1>12, <1>19 DEF RunsInv

\* Every step keeps the runs backed and counted.
LEMMA RunsStep == SessionsInv /\ RecordsMatchChain /\ RunsInv /\ [Next]_vars => RunsInv'
<1> SUFFICES ASSUME SessionsInv, RecordsMatchChain, RunsInv, [Next]_vars
             PROVE  RunsInv'
  OBVIOUS
<1>1. CASE UNCHANGED vars
  <2>1. /\ AttemptsOnChain' = AttemptsOnChain /\ RunsOnChain' = RunsOnChain
        /\ ApprovalsGiven' = ApprovalsGiven /\ Executors' = Executors
    BY <1>1 DEF vars, AttemptsOnChain, RunsOnChain, Committed, ApprovalsGiven, Executors, Executing, At
  <2> QED
    BY <1>1, <2>1 DEF vars, RunsInv, Backed, Hooked, Executing, At
<1> QED
  BY <1>1, QuietRuns, MiddleRuns, HookRuns, CommitRuns, SealRuns DEF Next

\* As many approvals as runs, and those a hook has spent on top, are in the table.
LEMMA RunsAreCovered ==
    ASSUME SessionsInv, RecordsMatchChain, RunsInv
    PROVE  EveryRunIsBacked
<1>1. PICK g \in [AttemptsOnChain -> ApprovalsGiven], h \in [Executors -> ApprovalsGiven],
           S \in SUBSET ApprovalsGiven : Backed(g, h, S)
  BY DEF RunsInv
<1>2. PICK R : R = ApprovalsGiven \ S
  OBVIOUS
<1>3. PICK f : f = [n \in RunsOnChain |-> g[n]]
  OBVIOUS
<1>4. RunsOnChain \subseteq AttemptsOnChain
  BY DEF RunsOnChain, AttemptsOnChain, Runs
<1>5. f \in Injection(RunsOnChain, R)
  BY <1>1, <1>2, <1>3, <1>4 DEF Backed, Injection, IsInjective
<1>6. IsFiniteSet(R) /\ IsFiniteSet(S) /\ Cardinality(R) \in Nat /\ Cardinality(S) \in Nat
  BY <1>2, CountedSets
<1>7. Cardinality(RunsOnChain) <= Cardinality(R)
  BY <1>5, <1>6, FS_Injection
<1>8. Cardinality(ApprovalsGiven) = Cardinality(R) + Cardinality(S)
  <2>1. R \cup S = ApprovalsGiven /\ R \cap S = {}
    BY <1>2
  <2>2. Cardinality(R \cap S) = 0
    BY <2>1, FS_EmptySet
  <2>3. Cardinality(R \cup S) = Cardinality(R) + Cardinality(S) - Cardinality(R \cap S)
    BY <1>6, FS_Union
  <2>4. Cardinality(R \cup S) = Cardinality(R) + Cardinality(S)
    BY <1>6, <2>2, <2>3
  <2> QED
    BY <2>1, <2>4
<1>9. effects = Cardinality(RunsOnChain) + Cardinality(S) /\ Cardinality(RunsOnChain) \in Nat
  BY <1>1, CountedSets DEF Backed
<1>10. Cardinality(RunsOnChain) <= effects /\ effects <= Cardinality(ApprovalsGiven)
  BY <1>6, <1>7, <1>8, <1>9
<1>11. ~HasHook(row.kind) => effects = Cardinality(RunsOnChain)
  <2>1. ASSUME ~HasHook(row.kind)
        PROVE  Cardinality(S) = 0
    BY <1>1, <2>1, FS_EmptySet DEF Backed
  <2> QED
    BY <1>9, <2>1
<1> QED
  BY <1>1, <1>10, <1>11 DEF Backed, EveryRunIsBacked

\* However requests overlap, fail and die, each execution on the audit chain is paid for
\* by an earlier approval of its own, and so is the work a hook has committed without its
\* entry.  This is what is left of "no double execution" when nothing is locked: two runs
\* need two approvals.
THEOREM EveryRunIsBackedProved == Spec => []EveryRunIsBacked
<1>1. Init => RunsInv
  <2> SUFFICES ASSUME Init
               PROVE  RunsInv
    OBVIOUS
  <2>1. AttemptsOnChain = {} /\ RunsOnChain = {} /\ effects = 0
    BY DEF Init, AttemptsOnChain, RunsOnChain, Committed, Runs
  <2>2. Executors = {}
    BY DEF Init, Executors, Executing, At, Idle, Runs
  <2>3. PICK g : g = [n \in {} |-> 0]
    OBVIOUS
  <2>4. Cardinality({}) = 0
    BY FS_EmptySet
  <2>5. /\ g \in [AttemptsOnChain -> ApprovalsGiven] /\ g \in [Executors -> ApprovalsGiven]
        /\ Backed(g, g, {})
    BY <2>1, <2>2, <2>3, <2>4 DEF Backed
  <2> QED
    BY <2>5 DEF RunsInv
<1> QED
  BY <1>1, RunsStep, RunsAreCovered, RecordsMatchChainProved, SessionsInvariant, PTL DEF Spec

-----------------------------------------------------------------------------
(* The log and its mirror: types, and what the processes hold in memory. *)

\* A queue holds one entry more after an append, ...
LEMMA RangeAppend ==
    ASSUME NEW S, NEW q \in Seq(S), NEW e \in S
    PROVE  Append(q, e) \in Seq(S) /\ Range(Append(q, e)) = Range(q) \cup {e}
<1>1. /\ DOMAIN Append(q, e) = DOMAIN q \cup {Len(q) + 1}
      /\ \A i \in DOMAIN q : Append(q, e)[i] = q[i]
      /\ Append(q, e)[Len(q) + 1] = e
      /\ Append(q, e) \in Seq(S)
  OBVIOUS
<1> QED
  BY <1>1 DEF Range

\* ... and one less after its head is taken.
LEMMA RangeTail ==
    ASSUME NEW S, NEW q \in Seq(S), q # <<>>
    PROVE  /\ Head(q) \in S /\ Tail(q) \in Seq(S)
           /\ Range(q) = Range(Tail(q)) \cup {Head(q)}
<1>1. /\ Head(q) \in S /\ Tail(q) \in Seq(S) /\ Len(q) \in Nat \ {0} /\ Len(Tail(q)) = Len(q) - 1
      /\ Head(q) = q[1] /\ \A i \in 1 .. Len(q) - 1 : Tail(q)[i] = q[i + 1]
  OBVIOUS
<1>2. \A i \in 2 .. Len(q) : i - 1 \in 1 .. Len(q) - 1 /\ (i - 1) + 1 = i
  BY <1>1
<1>3. DOMAIN Tail(q) = 1 .. Len(q) - 1 /\ DOMAIN q = 1 .. Len(q)
  BY <1>1
<1>4. Range(q) \subseteq Range(Tail(q)) \cup {Head(q)}
  <2> SUFFICES ASSUME NEW i \in 1 .. Len(q)
               PROVE  q[i] \in Range(Tail(q)) \cup {Head(q)}
    BY <1>3 DEF Range
  <2>1. CASE i = 1
    BY <1>1, <2>1
  <2>2. CASE i # 1
    <3>1. i \in 2 .. Len(q)
      BY <1>1, <2>2
    <3>2. q[i] = Tail(q)[i - 1] /\ i - 1 \in DOMAIN Tail(q)
      BY <1>1, <1>2, <1>3, <3>1
    <3> QED
      BY <3>2 DEF Range
  <2> QED
    BY <2>1, <2>2
<1>5. Range(Tail(q)) \cup {Head(q)} \subseteq Range(q)
  <2>1. 1 \in DOMAIN q /\ \A i \in 1 .. Len(q) - 1 : i + 1 \in DOMAIN q
    BY <1>1, <1>3
  <2> QED
    BY <1>1, <1>3, <2>1 DEF Range
<1> QED
  BY <1>1, <1>4, <1>5

\* Entries are numbered without a gap, and a process holds only entries that are used.
TrailBase ==
    /\ TrailTypeOK
    /\ \E n \in 0 .. MaxEvents : Used = 1 .. n
    /\ Pending \subseteq Used

\* A step of one process changes what is pending by what it takes up and puts down.
LEMMA PendingMoves ==
    ASSUME NEW r \in Replicas, \A p \in Replicas \ {r} : InMemory(p)' = InMemory(p),
           NEW down, InMemory(r) \subseteq InMemory(r)' \cup down,
           NEW up, InMemory(r)' \subseteq InMemory(r) \cup up
    PROVE  Pending \subseteq Pending' \cup down /\ Pending' \subseteq Pending \cup up
BY DEF Pending

\* So the number of entries is the highest id.
LEMMA UsedCounted ==
    ASSUME TrailBase
    PROVE  \E n \in 0 .. MaxEvents : Used = 1 .. n /\ Cardinality(Used) = n
<1>1. PICK n \in 0 .. MaxEvents : Used = 1 .. n
  BY DEF TrailBase
<1>2. n \in Nat /\ 1 \in Int /\ n \in Int
  BY TrailAssumption
<1>3. Cardinality(1 .. n) = n
  BY <1>2, FS_Interval
<1> QED
  BY <1>1, <1>3

\* The hash that a request reads is of its type.
LEMMA ReadMoves ==
    ASSUME TrailBase, NEW q \in Requests, ReadParent(q)
    PROVE  \E prev \in Hash :
              /\ reading' = [reading EXCEPT ![q] = [on |-> TRUE, prev |-> prev]]
              /\ reading' \in [Requests -> [on : BOOLEAN, prev : Hash]]
              /\ LatestSeen(q) = {} => prev = NoHash
              /\ LatestSeen(q) # {} => prev = HashOf(Highest(LatestSeen(q)))
<1>1. TrailTypeOK /\ MaxEvents \in Nat
  BY TrailAssumption DEF TrailBase
<1>2. PICK prev : prev = IF LatestSeen(q) = {} THEN NoHash ELSE HashOf(Highest(LatestSeen(q)))
  OBVIOUS
<1>3. prev \in Hash
  <2>1. CASE LatestSeen(q) = {}
    <3>1. NoHash \in Hash
      BY DEF NoHash, Hash
    <3> QED
      BY <1>2, <2>1, <3>1
  <2>2. CASE LatestSeen(q) # {}
    <3>1. LatestSeen(q) \subseteq Entry
      BY DEF LatestSeen, In, OpenOf
    <3>2. \E i \in LatestSeen(q) : \A x \in LatestSeen(q) : x <= i
      BY <1>1, <2>2, <3>1, LastOfSome DEF Entry
    <3>3. Highest(LatestSeen(q)) \in LatestSeen(q)
      BY <3>2 DEF Highest
    <3> QED
      BY <1>1, <1>2, <2>2, <3>1, <3>3 DEF HashOf, Hash, TrailTypeOK, Row
  <2> QED
    BY <2>1, <2>2
<1>4. PICK read : read = [on |-> TRUE, prev |-> prev]
  OBVIOUS
<1>5. read \in [on : BOOLEAN, prev : Hash]
  BY <1>3, <1>4
<1>6. reading' = [reading EXCEPT ![q] = read]
  BY <1>2, <1>4 DEF ReadParent
<1>7. reading' \in [Requests -> [on : BOOLEAN, prev : Hash]]
  BY <1>1, <1>5, <1>6 DEF TrailTypeOK
<1> QED
  BY <1>2, <1>3, <1>4, <1>6, <1>7

\* An event is recorded under the next id, with the hash its request has read, and waits
\* in the process that serves its request.
LEMMA RecordMoves ==
    ASSUME TrailBase, NEW q \in Requests, FlushRow(q)
    PROVE  \E e \in Entry, new \in Row :
              /\ Used = 1 .. e - 1 /\ Used' = 1 .. e /\ e \notin Used
              /\ Pending' \subseteq Pending \cup {e} /\ Pending \subseteq Pending' /\ e \in Pending'
              /\ table' = [table EXCEPT ![e] = new]
              /\ new.state = "open" /\ new.by = q /\ new.hash /\ new.body
              /\ new.prev = reading[q].prev
              /\ queue' \in [Replicas -> Seq(Entry)]
<1>1. TrailTypeOK /\ Home[q] \in Replicas /\ MaxEvents \in Nat
  BY TrailAssumption DEF TrailBase
<1>2. PICK n \in 0 .. MaxEvents : Used = 1 .. n
  BY DEF TrailBase
<1>3. Cardinality(Used) = n
  BY <1>1, <1>2, FS_Interval
<1>4. PICK e : e = n + 1
  OBVIOUS
<1>5. e = Cardinality(Used) + 1 /\ e \in Entry
  BY <1>3, <1>4 DEF FlushRow
<1>7. reading[q].prev \in Hash
  BY <1>1 DEF TrailTypeOK
<1>8. PICK new : new = [NoRow EXCEPT !.state = "open", !.by = q, !.prev = reading[q].prev]
  OBVIOUS
<1>9. new \in Row /\ new.state = "open" /\ new.by = q /\ new.hash /\ new.body
      /\ new.prev = reading[q].prev
  BY <1>7, <1>8 DEF NoRow, Row
<1>10. /\ table' = [table EXCEPT ![e] = new]
       /\ queue' = [queue EXCEPT ![Home[q]] = Append(@, e)]
       /\ upload' = upload
  BY <1>5, <1>8 DEF FlushRow
<1>11. Used = 1 .. e - 1 /\ Used' = 1 .. e /\ e \notin Used
  <2>1. Used' = Used \cup {e}
    BY <1>1, <1>5, <1>9, <1>10 DEF Used, In, TrailTypeOK
  <2> QED
    BY <1>1, <1>2, <1>4, <2>1
<1>12. queue' \in [Replicas -> Seq(Entry)] /\ Range(queue'[Home[q]]) = Range(queue[Home[q]]) \cup {e}
       /\ \A p \in Replicas \ {Home[q]} : queue'[p] = queue[p]
  <2>1. queue[Home[q]] \in Seq(Entry)
    BY <1>1 DEF TrailTypeOK
  <2>2. Append(queue[Home[q]], e) \in Seq(Entry)
        /\ Range(Append(queue[Home[q]], e)) = Range(queue[Home[q]]) \cup {e}
    BY <1>5, <2>1, RangeAppend
  <2> QED
    BY <1>1, <1>10, <2>2 DEF TrailTypeOK
<1>13. /\ InMemory(Home[q])' = InMemory(Home[q]) \cup {e}
       /\ \A p \in Replicas \ {Home[q]} : InMemory(p)' = InMemory(p)
  BY <1>10, <1>12 DEF InMemory
<1>14. Pending' \subseteq Pending \cup {e} /\ Pending \subseteq Pending' /\ e \in Pending'
  <2>1. e \in Pending'
    BY <1>1, <1>13 DEF Pending
  <2>2. Pending \subseteq Pending' \cup {} /\ Pending' \subseteq Pending \cup {e}
    BY <1>1, <1>13, PendingMoves
  <2> QED
    BY <2>1, <2>2
<1> QED
  BY <1>5, <1>9, <1>10, <1>11, <1>12, <1>14

\* What a process holds is of its type.
LEMMA MemoryTypes ==
    ASSUME TrailBase, NEW r \in Replicas
    PROVE  /\ queue[r] \in Seq(Entry)
           /\ upload[r] \in [id : {0} \cup Entry, attempts : 0 .. MaxRetries]
           /\ InMemory(r) \subseteq Pending /\ InMemory(r) \subseteq Entry /\ 0 \notin Entry
           /\ MaxRetries \in Nat \ {0}
<1>1. /\ queue[r] \in Seq(Entry)
      /\ upload[r] \in [id : {0} \cup Entry, attempts : 0 .. MaxRetries]
      /\ MaxRetries \in Nat \ {0}
  BY TrailAssumption DEF TrailBase, TrailTypeOK
<1>2. Range(queue[r]) \subseteq Entry
  BY <1>1 DEF Range
<1>3. InMemory(r) \subseteq Entry /\ InMemory(r) \subseteq Pending
  BY <1>1, <1>2 DEF InMemory, Pending
<1>4. 0 \notin Entry
  BY TrailAssumption DEF Entry
<1> QED
  BY <1>1, <1>3, <1>4

\* A worker that puts down its entry, or goes on with it.
LEMMA UploadMoves ==
    ASSUME TrailBase, NEW r \in Replicas, NEW new \in [id : {0} \cup Entry, attempts : 0 .. MaxRetries],
           upload' = [upload EXCEPT ![r] = new], queue' = queue, new.id \in {0, upload[r].id}
    PROVE  /\ queue' \in [Replicas -> Seq(Entry)]
           /\ upload' \in [Replicas -> [id : {0} \cup Entry, attempts : 0 .. MaxRetries]]
           /\ Pending' \subseteq Pending
           /\ Pending \subseteq Pending' \cup {upload[r].id}
           /\ new.id = upload[r].id => Pending' = Pending
<1>1. /\ queue' \in [Replicas -> Seq(Entry)]
      /\ upload' \in [Replicas -> [id : {0} \cup Entry, attempts : 0 .. MaxRetries]]
      /\ upload'[r] = new
      /\ \A p \in Replicas \ {r} : InMemory(p)' = InMemory(p)
  BY DEF InMemory, TrailBase, TrailTypeOK
<1>2. /\ InMemory(r) \subseteq InMemory(r)' \cup {upload[r].id}
      /\ InMemory(r)' \subseteq InMemory(r) \cup {}
      /\ new.id = upload[r].id => InMemory(r) \subseteq InMemory(r)' \cup {}
  BY <1>1 DEF InMemory
<1>3. Pending' \subseteq Pending \cup {} /\ Pending \subseteq Pending' \cup {upload[r].id}
  <2>1. PICK down : down = {upload[r].id}
    OBVIOUS
  <2>2. Pending' \subseteq Pending \cup {} /\ Pending \subseteq Pending' \cup down
    BY <1>1, <1>2, <2>1, PendingMoves
  <2> QED
    BY <2>1, <2>2
<1>4. ASSUME new.id = upload[r].id
      PROVE  Pending \subseteq Pending' \cup {}
  BY <1>1, <1>2, <1>4, PendingMoves
<1> QED
  BY <1>1, <1>3, <1>4

\* A worker takes the head of its queue.
LEMMA TakeMoves ==
    ASSUME TrailBase, NEW r \in Replicas, Take(r)
    PROVE  /\ queue' \in [Replicas -> Seq(Entry)]
           /\ upload' \in [Replicas -> [id : {0} \cup Entry, attempts : 0 .. MaxRetries]]
           /\ Pending' = Pending
<1>1. /\ queue[r] \in Seq(Entry) /\ MaxRetries \in Nat \ {0} /\ 0 \notin Entry
      /\ upload[r] \in [id : {0} \cup Entry, attempts : 0 .. MaxRetries]
  BY MemoryTypes
<1>2. PICK new : new = [id |-> Head(queue[r]), attempts |-> 1]
  OBVIOUS
<1>3. Head(queue[r]) \in Entry /\ Tail(queue[r]) \in Seq(Entry)
      /\ Range(queue[r]) = Range(Tail(queue[r])) \cup {Head(queue[r])}
  BY <1>1, RangeTail DEF Take
<1>4. new \in [id : {0} \cup Entry, attempts : 0 .. MaxRetries] /\ new.id = Head(queue[r])
  BY <1>1, <1>2, <1>3
<1>5. /\ upload' = [upload EXCEPT ![r] = new] /\ queue' = [queue EXCEPT ![r] = Tail(queue[r])]
      /\ upload[r].id = 0
  BY <1>2 DEF Take
<1>6. /\ upload' \in [Replicas -> [id : {0} \cup Entry, attempts : 0 .. MaxRetries]]
      /\ queue' \in [Replicas -> Seq(Entry)]
      /\ queue'[r] = Tail(queue[r]) /\ upload'[r] = new
      /\ \A p \in Replicas \ {r} : queue'[p] = queue[p] /\ upload'[p] = upload[p]
  BY <1>3, <1>4, <1>5 DEF TrailBase, TrailTypeOK
<1>7. InMemory(r)' = InMemory(r)
  BY <1>1, <1>3, <1>4, <1>5, <1>6 DEF InMemory
<1>8. \A p \in Replicas \ {r} : InMemory(p)' = InMemory(p)
  BY <1>6 DEF InMemory
<1>9. Pending \subseteq Pending' \cup {} /\ Pending' \subseteq Pending \cup {}
  BY <1>7, <1>8, PendingMoves
<1> QED
  BY <1>6, <1>9

\* A step of one process moves what is reported from its list to what is forgotten.
LEMMA ReportMoves ==
    ASSUME NEW r \in Replicas, \A p \in Replicas \ {r} : failed'[p] = failed[p],
           dropped \subseteq dropped', Range(failed[r]) \subseteq Range(failed'[r]) \cup dropped'
    PROVE  Reported \cup dropped \subseteq Reported' \cup dropped'
BY DEF Reported

\* A worker that tries again holds what it held.
LEMMA RetryMoves ==
    ASSUME TrailBase, NEW r \in Replicas, UploadFails(r)
    PROVE  /\ queue' \in [Replicas -> Seq(Entry)]
           /\ upload' \in [Replicas -> [id : {0} \cup Entry, attempts : 0 .. MaxRetries]]
           /\ Pending' = Pending
<1>1. PICK new : new = [upload[r] EXCEPT !.attempts = @ + 1]
  OBVIOUS
<1>2. upload[r] \in [id : {0} \cup Entry, attempts : 0 .. MaxRetries] /\ MaxRetries \in Nat
  BY MemoryTypes
<1>3. upload[r].attempts < MaxRetries /\ upload' = [upload EXCEPT ![r] = new] /\ queue' = queue
  BY <1>1 DEF UploadFails
<1>4. new \in [id : {0} \cup Entry, attempts : 0 .. MaxRetries] /\ new.id = upload[r].id
  BY <1>1, <1>2, <1>3
<1> QED
  BY <1>3, <1>4, UploadMoves

\* An entry that is given up is reported, and the oldest report may be forgotten for it.
LEMMA GiveUpMoves ==
    ASSUME TrailBase, NEW r \in Replicas, GiveUp(r)
    PROVE  /\ queue' \in [Replicas -> Seq(Entry)] /\ failed' \in [Replicas -> Seq(Entry)]
           /\ upload' \in [Replicas -> [id : {0} \cup Entry, attempts : 0 .. MaxRetries]]
           /\ dropped' \in SUBSET Entry /\ Pending' \subseteq Pending
           /\ Pending \subseteq Pending' \cup Reported' \cup dropped'
           /\ Reported \cup dropped \subseteq Reported' \cup dropped'
           /\ Reported' \cup dropped' # {}
<1>1. PICK none, e : none = [id |-> 0, attempts |-> 0] /\ e = upload[r].id
  OBVIOUS
<1>2. upload[r] \in [id : {0} \cup Entry, attempts : 0 .. MaxRetries] /\ MaxRetries \in Nat
      /\ failed \in [Replicas -> Seq(Entry)] /\ dropped \in SUBSET Entry
  BY MemoryTypes DEF TrailBase, TrailTypeOK
<1>3. e \in Entry /\ upload' = [upload EXCEPT ![r] = none] /\ queue' = queue
  BY <1>1, <1>2 DEF GiveUp
<1>4. none \in [id : {0} \cup Entry, attempts : 0 .. MaxRetries] /\ none.id = 0
  BY <1>1, <1>2
<1>5. /\ queue' \in [Replicas -> Seq(Entry)]
      /\ upload' \in [Replicas -> [id : {0} \cup Entry, attempts : 0 .. MaxRetries]]
      /\ Pending' \subseteq Pending
      /\ Pending \subseteq Pending' \cup {e}
  BY <1>1, <1>3, <1>4, UploadMoves
<1>6. PICK report : report = Append(failed[r], e)
  OBVIOUS
<1>7. report \in Seq(Entry) /\ Range(report) = Range(failed[r]) \cup {e} /\ report # <<>>
  BY <1>2, <1>3, <1>6, RangeAppend
<1>8. /\ Head(report) \in Entry /\ Tail(report) \in Seq(Entry)
      /\ Range(report) = Range(Tail(report)) \cup {Head(report)}
  BY <1>7, RangeTail
<1>9. \/ failed' = [failed EXCEPT ![r] = Tail(report)] /\ dropped' = dropped \cup {Head(report)}
      \/ failed' = [failed EXCEPT ![r] = report] /\ dropped' = dropped
  BY <1>1, <1>6 DEF GiveUp
<1>10. /\ failed' \in [Replicas -> Seq(Entry)] /\ dropped' \in SUBSET Entry
       /\ \A p \in Replicas \ {r} : failed'[p] = failed[p]
       /\ dropped \subseteq dropped' /\ Range(report) \subseteq Range(failed'[r]) \cup dropped'
  BY <1>2, <1>7, <1>8, <1>9
<1>11. Reported \cup dropped \subseteq Reported' \cup dropped'
  BY <1>7, <1>10, ReportMoves
<1>12. e \in Reported' \cup dropped'
  BY <1>7, <1>10 DEF Reported
<1> QED
  BY <1>5, <1>10, <1>11, <1>12

\* A process that ends holds nothing any more.
LEMMA CrashMoves ==
    ASSUME TrailBase, NEW r \in Replicas, Crash(r)
    PROVE  /\ queue' \in [Replicas -> Seq(Entry)] /\ failed' \in [Replicas -> Seq(Entry)]
           /\ upload' \in [Replicas -> [id : {0} \cup Entry, attempts : 0 .. MaxRetries]]
           /\ dropped' \in SUBSET Entry
           /\ Pending' \subseteq Pending /\ Pending \subseteq Pending' \cup InMemory(r)
           /\ InMemory(r) \subseteq dropped'
           /\ Reported \cup dropped \subseteq Reported' \cup dropped'
<1>1. PICK none : none = [id |-> 0, attempts |-> 0]
  OBVIOUS
<1>2. none \in [id : {0} \cup Entry, attempts : 0 .. MaxRetries]
  BY <1>1, MemoryTypes
<1>3. /\ upload' = [upload EXCEPT ![r] = none] /\ queue' = [queue EXCEPT ![r] = <<>>]
      /\ failed' = [failed EXCEPT ![r] = <<>>]
      /\ dropped' = dropped \cup InMemory(r) \cup Range(failed[r])
  BY <1>1 DEF Crash
<1>4. /\ upload' \in [Replicas -> [id : {0} \cup Entry, attempts : 0 .. MaxRetries]]
      /\ queue' \in [Replicas -> Seq(Entry)] /\ failed' \in [Replicas -> Seq(Entry)]
      /\ queue'[r] = <<>> /\ upload'[r] = none
      /\ \A p \in Replicas \ {r} :
            queue'[p] = queue[p] /\ upload'[p] = upload[p] /\ failed'[p] = failed[p]
  BY <1>2, <1>3 DEF TrailBase, TrailTypeOK
<1>5. InMemory(r)' = {}
  BY <1>1, <1>4 DEF InMemory, Range
<1>6. \A p \in Replicas \ {r} : InMemory(p)' = InMemory(p)
  BY <1>4 DEF InMemory
<1>7. Pending \subseteq Pending' \cup InMemory(r) /\ Pending' \subseteq Pending \cup {}
  BY <1>5, <1>6, PendingMoves
<1>8. InMemory(r) \subseteq Entry /\ Range(failed[r]) \subseteq Entry /\ dropped \subseteq Entry
  BY MemoryTypes DEF TrailBase, TrailTypeOK, Range
<1>9. Reported \cup dropped \subseteq Reported' \cup dropped'
  BY <1>3, <1>4, ReportMoves
<1> QED
  BY <1>3, <1>4, <1>7, <1>8, <1>9

\* A request or a process that ends turns events that are open into another kind.
LEMMA EndedMoves ==
    ASSUME TrailBase, NEW qs, NEW state \in {"kept", "undone"}, table' = Ended(qs, state)
    PROVE  /\ table' \in [Entry -> Row]
           /\ Used' = Used
           /\ \A e \in Entry :
                 /\ table'[e].prev = table[e].prev
                 /\ table'[e].hash = table[e].hash /\ table'[e].body = table[e].body
                 /\ \/ table'[e] = table[e] /\ ~(table[e].state = "open" /\ table[e].by \in qs)
                    \/ table[e].state = "open" /\ table'[e].state = state
<1>1. table \in [Entry -> Row]
  BY DEF TrailBase, TrailTypeOK
<1>2. \A e \in Entry : [table[e] EXCEPT !.state = state, !.by = "none"] \in Row
  BY <1>1 DEF Row
<1>3. table' \in [Entry -> Row]
  BY <1>1, <1>2 DEF Ended
<1>4. \A e \in Entry :
         /\ table'[e].prev = table[e].prev
         /\ table'[e].hash = table[e].hash /\ table'[e].body = table[e].body
         /\ \/ table'[e] = table[e] /\ ~(table[e].state = "open" /\ table[e].by \in qs)
            \/ table[e].state = "open" /\ table'[e].state = state
  BY <1>1 DEF Ended, Row
<1>5. Used' = Used
  BY <1>4 DEF Used, In
<1> QED
  BY <1>3, <1>4, <1>5

\* A drift keeps the types and the ids, and is counted.
LEMMA DriftMoves ==
    ASSUME TrailBase, NEW e \in Entry, RowDrifts(e) \/ ObjectDrifts(e)
    PROVE  /\ table' \in [Entry -> Row] /\ docs' \in SUBSET Object
           /\ Used' = Used
           /\ In("undone")' = In("undone")
           /\ drifts' = drifts + 1 /\ drifts' \in 0 .. MaxDrifts
           /\ UNCHANGED <<reading, queue, upload, failed, dropped, frozen, check, overlapped, faults>>
<1>1. table \in [Entry -> Row] /\ docs \in SUBSET Object /\ drifts \in Nat /\ MaxDrifts \in Nat
  BY TrailAssumption DEF TrailBase, TrailTypeOK
<1>2. PICK new, newDocs :
         /\ Drift(e, new, newDocs)
         /\ table[e].state = "kept"
         /\ new \in {table[e], [table[e] EXCEPT !.body = FALSE],
                     [table[e] EXCEPT !.body = FALSE, !.hash = FALSE],
                     [table[e] EXCEPT !.state = "lost"]}
         /\ newDocs \in SUBSET Object
  <2>1. CASE RowDrifts(e)
    BY <1>1, <2>1 DEF RowDrifts
  <2>2. CASE ObjectDrifts(e)
    <3>1. PICK d \in docs : \/ Drift(e, table[e], docs \ {d})
                            \/ Drift(e, table[e], (docs \ {d}) \cup {[d EXCEPT !.body = FALSE]})
      BY <2>2 DEF ObjectDrifts
    <3>2. [d EXCEPT !.body = FALSE] \in Object
      BY <1>1 DEF Object
    <3>3. docs \ {d} \in SUBSET Object /\ (docs \ {d}) \cup {[d EXCEPT !.body = FALSE]} \in SUBSET Object
      BY <1>1, <3>2
    <3>4. table[e].state = "kept"
      BY <2>2 DEF ObjectDrifts
    <3> QED
      BY <3>1, <3>3, <3>4
  <2> QED
    BY <2>1, <2>2
<1>3. new \in Row /\ new.state \in {"kept", "lost"}
  BY <1>1, <1>2 DEF Row
<1>4. table' = [table EXCEPT ![e] = new] /\ docs' = newDocs /\ drifts' = drifts + 1 /\ drifts < MaxDrifts
      /\ UNCHANGED <<reading, queue, upload, failed, dropped, frozen, check, overlapped, faults>>
  BY <1>2 DEF Drift, watch
<1>5. table' \in [Entry -> Row] /\ Used' = Used /\ In("undone")' = In("undone")
  BY <1>1, <1>2, <1>3, <1>4 DEF Used, In
<1> QED
  BY <1>1, <1>2, <1>4, <1>5

\* A verification writes nothing but the objects it drains, its own progress and the
\* freeze flag.
Checking ==
    DrainList \/ DrainPut \/ ReadRows \/ ReadDocs \/ Conclude \/ Abandon \/ ClearFreeze

\* A verification, its drain or its freeze moves nothing but its own reads, the mirror and the flag.
LEMMA CheckMoves ==
    ASSUME TrailBase, Checking
    PROVE  /\ UNCHANGED <<table, reading, queue, upload, failed, dropped, overlapped, drifts, faults>>
           /\ docs' \in SUBSET Object /\ docs \subseteq docs'
           /\ check' \in Checks /\ frozen' \in BOOLEAN
<1>1. /\ table \in [Entry -> Row] /\ docs \in SUBSET Object /\ check \in Checks
      /\ frozen \in BOOLEAN
  BY DEF TrailBase, TrailTypeOK
<1>2. UNCHANGED <<table, reading, queue, upload, failed, dropped, overlapped, drifts, faults>>
  BY DEF Checking, DrainList, DrainPut, ReadRows, ReadDocs, Conclude, Abandon, ClearFreeze, log,
         mirror, bad
<1>3. Snapshot \in SUBSET Copy
  BY <1>1 DEF Snapshot, Copy, Row, In
<1>4. Split \in SUBSET Sides
  BY DEF Split, Sides, In
<1>5. Cardinality(Used) \in Nat
  <2>1. PICK n \in 0 .. MaxEvents : Used = 1 .. n /\ Cardinality(Used) = n
    BY UsedCounted
  <2>2. n \in Nat
    BY TrailAssumption
  <2> QED
    BY <2>1, <2>2
<1>6. NoCheck \in Checks
  BY DEF NoCheck, Checks
<1> HIDE DEF NoCheck
<1>7. CASE DrainList
  <2>1. PICK missing : missing = {e \in In("kept") : ~ \E d \in docs : d.id = e /\ d.hash = table[e].hash}
    OBVIOUS
  <2>2. missing \in SUBSET Entry
    BY <2>1 DEF In
  <2>3. check' = [check EXCEPT !.pc = "draining", !.todo = missing, !.rows = Snapshot]
    BY <1>7, <2>1 DEF DrainList
  <2>4. docs' = docs /\ frozen' = frozen
    BY <1>7 DEF DrainList, mirror
  <2>5. check' \in Checks
    BY <1>1, <1>3, <2>2, <2>3 DEF Checks
  <2> QED
    BY <1>1, <1>2, <2>4, <2>5
<1>8. CASE DrainPut
  <2>1. PICK x \in check.rows :
          /\ docs' = docs \cup {[id |-> x.e, hash |-> x.hash, body |-> x.body]}
          /\ check' = [check EXCEPT !.todo = @ \ {x.e}]
    BY <1>8 DEF DrainPut
  <2>2. [id |-> x.e, hash |-> x.hash, body |-> x.body] \in Object
    BY <1>1 DEF Copy, Object, Checks
  <2>3. frozen' = frozen
    BY <1>8 DEF DrainPut
  <2>4. check' \in Checks
    BY <1>1, <2>1 DEF Checks
  <2> QED
    BY <1>1, <1>2, <2>1, <2>2, <2>3, <2>4
<1>9. CASE ReadRows
  <2>1. check' = [NoCheck EXCEPT !.pc = "rows", !.quiet = Settled, !.upTo = Cardinality(Used),
                                 !.split = Split, !.rows = Snapshot]
    BY <1>9 DEF ReadRows
  <2>2. Settled \in BOOLEAN
    BY DEF Settled
  <2>3. docs' = docs /\ frozen' = frozen
    BY <1>9 DEF ReadRows, mirror
  <2>4. check' \in Checks
    BY <1>3, <1>4, <1>5, <1>6, <2>1, <2>2 DEF Checks
  <2> QED
    BY <1>1, <1>2, <2>3, <2>4
<1>10. CASE ReadDocs
  <2>1. PICK chosen \in SUBSET docs :
          check' = [check EXCEPT !.pc = "docs", !.docs = chosen,
                                 !.missed = \E d \in docs : \A c \in chosen : c.id # d.id,
                                 !.split = {x \in @ \cap Split : Shows(x, chosen)},
                                 !.quiet = @ /\ check.upTo = Cardinality(Used)]
    BY <1>10 DEF ReadDocs
  <2>2. docs' = docs /\ frozen' = frozen
    BY <1>10 DEF ReadDocs, mirror
  <2>3. chosen \in SUBSET Object
    BY <1>1
  <2>4. PICK missed, shown, quiet :
          /\ missed = (\E d \in docs : \A c \in chosen : c.id # d.id)
          /\ shown = {x \in check.split \cap Split : Shows(x, chosen)}
          /\ quiet = (check.quiet /\ check.upTo = Cardinality(Used))
    OBVIOUS
  <2>5. missed \in BOOLEAN /\ shown \in SUBSET Sides /\ quiet \in BOOLEAN
    BY <1>4, <2>4
  <2>6. check' = [check EXCEPT !.pc = "docs", !.docs = chosen, !.missed = missed, !.split = shown,
                               !.quiet = quiet]
    BY <2>1, <2>4
  <2>7. check' \in Checks
    BY <1>1, <2>3, <2>5, <2>6 DEF Checks
  <2> QED
    BY <1>1, <1>2, <2>2, <2>7
<1>11. CASE Conclude
  <2>1. docs' = docs /\ check' = NoCheck /\ frozen' \in BOOLEAN
    BY <1>1, <1>11 DEF Conclude, mirror
  <2> QED
    BY <1>1, <1>2, <1>6, <2>1
<1>12. CASE Abandon \/ ClearFreeze
  BY <1>1, <1>2, <1>6, <1>12 DEF Abandon, ClearFreeze, mirror
<1> QED
  BY <1>7, <1>8, <1>9, <1>10, <1>11, <1>12 DEF Checking

\* An event never gets out of sight: this holds from the flush on, not only after the
\* commit.
NothingForgotten ==
    \A e \in Used : Mirrored(e) \/ e \in Pending \cup Reported \cup dropped \/ drifts > 0

TrailInv == TrailBase /\ NothingForgotten

\* Nothing is recorded at the start, so nothing is forgotten.
LEMMA TrailStarts == TrailInit => TrailInv
<1> SUFFICES ASSUME TrailInit
             PROVE  TrailInv
  OBVIOUS
<1>0. MaxEvents \in Nat /\ MaxRetries \in Nat \ {0} /\ MaxFaults \in Nat /\ MaxDrifts \in Nat
  BY TrailAssumption
<1>1. NoRow \in Row /\ NoRow.state = "unused"
  BY DEF NoRow, NoHash, Row, Hash
<1>2. NoCheck \in Checks
  BY DEF NoCheck, Checks
<1>d. NotReading \in [on : BOOLEAN, prev : Hash]
  BY DEF NotReading, NoHash, Hash
<1> HIDE DEF NoRow, NoCheck, NotReading
<1>3. table \in [Entry -> Row] /\ \A e \in Entry : table[e].state = "unused"
  BY <1>1 DEF TrailInit
<1>4. \A r \in Replicas : queue[r] = <<>> /\ upload[r] = [id |-> 0, attempts |-> 0]
  BY DEF TrailInit
<1>5. queue \in [Replicas -> Seq(Entry)] /\ failed \in [Replicas -> Seq(Entry)]
      /\ upload \in [Replicas -> [id : {0} \cup Entry, attempts : 0 .. MaxRetries]]
  BY <1>0 DEF TrailInit
<1>6. reading \in [Requests -> [on : BOOLEAN, prev : Hash]]
  BY <1>d DEF TrailInit
<1>7. TrailTypeOK
  <2>1. /\ docs = {} /\ dropped = {} /\ frozen = FALSE /\ overlapped = FALSE
        /\ check = NoCheck /\ faults = 0 /\ drifts = 0
    BY DEF TrailInit
  <2>2. faults \in 0 .. MaxFaults /\ drifts \in 0 .. MaxDrifts
    BY <1>0, <2>1
  <2> QED
    BY <1>2, <1>3, <1>5, <1>6, <2>1, <2>2 DEF TrailTypeOK
<1>8. Used = {}
  BY <1>3 DEF Used, In
<1>9. Pending = {}
  <2>1. \A r \in Replicas : InMemory(r) = {}
    BY <1>4 DEF InMemory, Range
  <2> QED
    BY <2>1 DEF Pending
<1>10. Used = 1 .. 0 /\ 0 \in 0 .. MaxEvents
  BY <1>0, <1>8
<1> QED
  BY <1>7, <1>8, <1>9, <1>10 DEF TrailInv, TrailBase, NothingForgotten

\* No step forgets an entry: it is in memory, uploaded, known as failed or dropped with its process.
LEMMA TrailStep == TrailInv /\ [TrailNext]_trailVars => TrailInv'
<1> SUFFICES ASSUME TrailInv, [TrailNext]_trailVars
             PROVE  TrailInv'
  OBVIOUS
<1>0. /\ TrailBase /\ NothingForgotten /\ TrailTypeOK
      /\ MaxFaults \in Nat /\ MaxDrifts \in Nat
  BY TrailAssumption DEF TrailInv, TrailBase
<1>a. ASSUME UNCHANGED <<docs, failed, frozen, check, dropped, drifts, faults>>,
             overlapped' \in BOOLEAN, table' \in [Entry -> Row], Used' = Used,
             reading' \in [Requests -> [on : BOOLEAN, prev : Hash]],
             queue' = queue, upload' = upload
      PROVE  TrailInv'
  <2>1. Pending' = Pending
    BY <1>a DEF Pending, InMemory
  <2>3. Reported' = Reported
    BY <1>a DEF Reported
  <2>2. TrailTypeOK'
    BY <1>0, <1>a DEF TrailTypeOK
  <2> QED
    BY <1>0, <1>a, <2>1, <2>2, <2>3 DEF TrailInv, TrailBase, NothingForgotten, Mirrored
<1>b. ASSUME UNCHANGED <<table, reading, overlapped, frozen, check, drifts, faults>>,
             queue' \in [Replicas -> Seq(Entry)],
             upload' \in [Replicas -> [id : {0} \cup Entry, attempts : 0 .. MaxRetries]],
             docs' \in SUBSET Object, docs \subseteq docs', failed' \in [Replicas -> Seq(Entry)],
             dropped' \in SUBSET Entry, Pending' \subseteq Pending,
             Reported \cup dropped \subseteq Reported' \cup dropped',
             \A e \in Pending : e \in Pending' \cup Reported' \cup dropped' \/ Mirrored(e)'
      PROVE  TrailInv'
  <2>1. TrailTypeOK'
    BY <1>0, <1>b DEF TrailTypeOK
  <2>2. Used' = Used
    BY <1>b DEF Used, In
  <2>3. \A e : Mirrored(e) => Mirrored(e)'
    BY <1>b DEF Mirrored
  <2> QED
    BY <1>0, <1>b, <2>1, <2>2, <2>3 DEF TrailInv, TrailBase, NothingForgotten
<1>1. CASE UNCHANGED trailVars
  BY <1>0, <1>1, <1>a DEF trailVars, TrailTypeOK, Used, In
<1>r. ASSUME NEW q \in Requests, ReadParent(q)
      PROVE  TrailInv'
  <2>1. reading' \in [Requests -> [on : BOOLEAN, prev : Hash]]
    BY <1>0, <1>r, ReadMoves
  <2>2. UNCHANGED <<table, docs, queue, upload, failed, dropped, frozen, check, faults, drifts>>
        /\ overlapped' \in BOOLEAN
    BY <1>0, <1>r DEF ReadParent, mirror, watch, bad, TrailTypeOK
  <2>3. table' \in [Entry -> Row] /\ Used' = Used
    BY <1>0, <2>2 DEF TrailTypeOK, Used, In
  <2> QED
    BY <1>a, <2>1, <2>2, <2>3
<1>2. ASSUME NEW q \in Requests, FlushRow(q)
      PROVE  TrailInv'
  <2>1. PICK e \in Entry, new \in Row :
              /\ Used = 1 .. e - 1 /\ Used' = 1 .. e /\ e \notin Used
              /\ Pending' \subseteq Pending \cup {e} /\ Pending \subseteq Pending' /\ e \in Pending'
              /\ table' = [table EXCEPT ![e] = new]
              /\ queue' \in [Replicas -> Seq(Entry)]
    BY <1>0, <1>2, RecordMoves
  <2>2. UNCHANGED <<docs, upload, failed, dropped, frozen, check, overlapped, faults, drifts>>
    BY <1>2 DEF FlushRow, watch, bad
  <2>a. reading' \in [Requests -> [on : BOOLEAN, prev : Hash]]
    <3>1. NotReading \in [on : BOOLEAN, prev : Hash]
      BY DEF NotReading, NoHash, Hash
    <3> QED
      BY <1>0, <1>2, <3>1 DEF FlushRow, TrailTypeOK
  <2>3. TrailTypeOK'
    BY <1>0, <2>1, <2>2, <2>a DEF TrailTypeOK
  <2>4. e \in 0 .. MaxEvents /\ e - 1 \in Nat
    BY <2>1, TrailAssumption DEF Entry
  <2>5. Used' = Used \cup {e}
    BY <2>1, <2>4
  <2>6. Pending' \subseteq Used'
    BY <1>0, <2>1, <2>5 DEF TrailBase
  <2>7. NothingForgotten'
    BY <1>0, <2>1, <2>2, <2>5 DEF NothingForgotten, Mirrored, Reported
  <2> QED
    BY <2>1, <2>3, <2>4, <2>6, <2>7 DEF TrailInv, TrailBase
<1>3. ASSUME NEW q \in Requests, CommitRequest(q) \/ RollbackRequest(q)
      PROVE  TrailInv'
  <2>1. PICK state \in {"kept", "undone"} : table' = Ended({q}, state)
    BY <1>3 DEF CommitRequest, RollbackRequest
  <2>2. table' \in [Entry -> Row] /\ Used' = Used
    BY <1>0, <2>1, EndedMoves
  <2>3. UNCHANGED <<docs, queue, upload, failed, dropped, frozen, check, drifts, faults, overlapped>>
    BY <1>3 DEF CommitRequest, RollbackRequest, mirror, watch, bad
  <2>4. reading' \in [Requests -> [on : BOOLEAN, prev : Hash]]
    <3>1. NotReading \in [on : BOOLEAN, prev : Hash]
      BY DEF NotReading, NoHash, Hash
    <3> QED
      BY <1>0, <1>3, <3>1 DEF CommitRequest, RollbackRequest, TrailTypeOK
  <2> QED
    BY <1>0, <1>a, <2>2, <2>3, <2>4 DEF TrailTypeOK
<1>4. ASSUME NEW r \in Replicas, Take(r)
      PROVE  TrailInv'
  <2>1. UNCHANGED <<table, reading, overlapped, docs, failed, dropped, frozen, check, drifts, faults>>
    BY <1>4 DEF Take, log, watch, bad
  <2>2. Reported' = Reported
    BY <2>1 DEF Reported
  <2> QED
    BY <1>0, <1>4, <1>b, <2>1, <2>2, TakeMoves DEF TrailTypeOK
<1>5. ASSUME NEW r \in Replicas, Upload(r)
      PROVE  TrailInv'
  <2>1. PICK none, d : none = [id |-> 0, attempts |-> 0] /\ d = [id |-> upload[r].id, hash |-> TRUE, body |-> TRUE]
    OBVIOUS
  <2>2. /\ upload[r].id # 0 /\ upload' = [upload EXCEPT ![r] = none] /\ queue' = queue
        /\ docs' = docs \cup {d}
        /\ UNCHANGED <<table, reading, overlapped, failed, dropped, frozen, check, drifts, faults>>
    BY <1>5, <2>1 DEF Upload, log, watch, bad
  <2>3. upload[r] \in [id : {0} \cup Entry, attempts : 0 .. MaxRetries] /\ MaxRetries \in Nat
    BY <1>0, MemoryTypes
  <2>4. none \in [id : {0} \cup Entry, attempts : 0 .. MaxRetries] /\ none.id = 0
    BY <2>1, <2>3
  <2>5. d \in Object /\ d.id = upload[r].id
    BY <2>1, <2>2, <2>3 DEF Object
  <2>6. PICK e : e = upload[r].id
    OBVIOUS
  <2>7. /\ queue' \in [Replicas -> Seq(Entry)]
        /\ upload' \in [Replicas -> [id : {0} \cup Entry, attempts : 0 .. MaxRetries]]
        /\ Pending' \subseteq Pending
        /\ Pending \subseteq Pending' \cup {e}
    BY <1>0, <2>2, <2>4, <2>6, UploadMoves
  <2>8. Mirrored(e)'
    BY <2>2, <2>5, <2>6 DEF Mirrored
  <2>9. /\ docs' \in SUBSET Object /\ failed' \in [Replicas -> Seq(Entry)]
        /\ dropped' \in SUBSET Entry /\ Reported' = Reported
    BY <1>0, <2>2, <2>5 DEF TrailTypeOK, Reported
  <2> QED
    BY <1>b, <2>2, <2>7, <2>8, <2>9
<1>6. ASSUME NEW r \in Replicas, UploadFails(r)
      PROVE  TrailInv'
  <2>1. UNCHANGED <<table, reading, overlapped, docs, failed, dropped, frozen, check, drifts, faults>>
    BY <1>6 DEF UploadFails, log, watch, bad
  <2>2. Reported' = Reported
    BY <2>1 DEF Reported
  <2> QED
    BY <1>0, <1>6, <1>b, <2>1, <2>2, RetryMoves DEF TrailTypeOK
<1>g. ASSUME NEW r \in Replicas, GiveUp(r)
      PROVE  TrailInv'
  <2>1. UNCHANGED <<table, reading, overlapped, docs, frozen, check, drifts, faults>>
    BY <1>g DEF GiveUp, log, watch, bad
  <2> QED
    BY <1>0, <1>g, <1>b, <2>1, GiveUpMoves DEF TrailTypeOK
<1>7. ASSUME NEW r \in Replicas, Crash(r)
      PROVE  TrailInv'
  <2>1. /\ UNCHANGED <<overlapped, docs, frozen, check, drifts>>
        /\ faults' = faults + 1 /\ faults < MaxFaults
        /\ table' = Ended({q \in Requests : Home[q] = r}, "undone")
    BY <1>7 DEF Crash, watch
  <2>2. table' \in [Entry -> Row] /\ Used' = Used
    BY <1>0, <2>1, EndedMoves
  <2>3. /\ queue' \in [Replicas -> Seq(Entry)] /\ failed' \in [Replicas -> Seq(Entry)]
        /\ upload' \in [Replicas -> [id : {0} \cup Entry, attempts : 0 .. MaxRetries]]
        /\ dropped' \in SUBSET Entry
        /\ Pending' \subseteq Pending /\ Pending \subseteq Pending' \cup InMemory(r)
        /\ InMemory(r) \subseteq dropped'
        /\ Reported \cup dropped \subseteq Reported' \cup dropped'
    BY <1>0, <1>7, CrashMoves
  <2>4. reading' \in [Requests -> [on : BOOLEAN, prev : Hash]]
    <3>1. NotReading \in [on : BOOLEAN, prev : Hash]
      BY DEF NotReading, NoHash, Hash
    <3> QED
      BY <1>0, <1>7, <3>1 DEF Crash, TrailTypeOK
  <2>5. TrailTypeOK'
    BY <1>0, <2>1, <2>2, <2>3, <2>4 DEF TrailTypeOK
  <2>6. NothingForgotten'
    BY <1>0, <2>1, <2>2, <2>3 DEF NothingForgotten, Mirrored
  <2> QED
    BY <1>0, <2>2, <2>3, <2>5, <2>6 DEF TrailInv, TrailBase
<1>8. ASSUME NEW e \in Entry, RowDrifts(e) \/ ObjectDrifts(e)
      PROVE  TrailInv'
  <2>1. /\ table' \in [Entry -> Row] /\ docs' \in SUBSET Object
        /\ Used' = Used
        /\ drifts' = drifts + 1 /\ drifts' \in 0 .. MaxDrifts
        /\ UNCHANGED <<reading, queue, upload, failed, dropped, frozen, check, overlapped, faults>>
    BY <1>0, <1>8, DriftMoves
  <2>2. TrailTypeOK' /\ drifts' > 0
    BY <1>0, <2>1 DEF TrailTypeOK
  <2>3. Pending' = Pending
    BY <2>1 DEF Pending, InMemory
  <2> QED
    BY <1>0, <2>1, <2>2, <2>3 DEF TrailInv, TrailBase, NothingForgotten
<1>9. CASE Checking
  <2>1. /\ UNCHANGED <<table, reading, queue, upload, failed, dropped, overlapped, drifts, faults>>
        /\ docs' \in SUBSET Object /\ docs \subseteq docs'
        /\ check' \in Checks /\ frozen' \in BOOLEAN
    BY <1>0, <1>9, CheckMoves
  <2>2. TrailTypeOK'
    BY <1>0, <2>1 DEF TrailTypeOK
  <2>3. Used' = Used /\ Pending' = Pending /\ Reported' = Reported
    BY <2>1 DEF Used, In, Pending, InMemory, Reported
  <2>4. NothingForgotten'
    BY <1>0, <2>1, <2>3 DEF NothingForgotten, Mirrored
  <2> QED
    BY <1>0, <2>2, <2>3, <2>4 DEF TrailInv, TrailBase
<1> QED
  BY <1>1, <1>r, <1>2, <1>3, <1>4, <1>5, <1>6, <1>g, <1>7, <1>8, <1>9 DEF TrailNext, Work, Checking

\* The types hold in every state, and every recorded entry is accounted for.
LEMMA TrailInvariant == TrailSpec => []TrailInv
BY TrailStarts, TrailStep, PTL DEF TrailSpec

\* The log, the mirror, the queues and the verification keep their types.
THEOREM TrailTypeCorrect == TrailSpec => []TrailTypeOK
<1>1. TrailInv => TrailTypeOK
  BY DEF TrailInv, TrailBase
<1> QED
  BY <1>1, TrailInvariant, PTL

\* A committed event is in the mirror, waits for it, was given up and is reported, or went
\* with the memory of its process: retries and restarts lose none in another way.
THEOREM EveryLossIsKnownProved == TrailSpec => []EveryLossIsKnown
<1>1. TrailInv => EveryLossIsKnown
  BY DEF TrailInv, NothingForgotten, EveryLossIsKnown, Used, In
<1> QED
  BY <1>1, TrailInvariant, PTL

-----------------------------------------------------------------------------
(* What a verification cannot pass over. *)

\* What the rows that were read, and the objects that were read, show of a disagreement.
RowsShow(x) ==
    /\ x.side = "mirror" => \E c \in check.rows : c.e = x.id /\ c.hash /\ c.body
    /\ x.side = "log" => \A c \in check.rows : c.e = x.id => ~(c.hash /\ c.body)

DocsShow(x) ==
    /\ x.side = "mirror" => Original(x.id) \notin check.docs
    /\ x.side = "log" => /\ Original(x.id) \in check.docs \/ \E c \in check.rows : c.e = x.id
                         /\ \A d \in check.docs : d.id = x.id => d = Original(x.id)

\* A disagreement that a verification is bound to find shows in what it has read so far.
FoundInv ==
    /\ check.pc \in {"rows", "docs"} => \A x \in check.split : RowsShow(x)
    /\ check.pc = "docs" => \A x \in check.split : DocsShow(x)

\* What it means to be split, one side at a time.
LEMMA SplitIs ==
    ASSUME NEW x \in Split
    PROVE  /\ x.side \in {"mirror", "log"} /\ x.id \in Entry
           /\ x.side = "mirror" =>
                 /\ table[x.id].state = "kept" /\ table[x.id].hash /\ table[x.id].body
                 /\ Original(x.id) \notin docs
           /\ x.side = "log" =>
                 /\ ~(table[x.id].state = "kept" /\ table[x.id].hash /\ table[x.id].body)
                 /\ {d \in docs : d.id = x.id} = {Original(x.id)}
BY DEF Split, Original, In

\* A disagreement that shows on both sides makes the comparison fail.
LEMMA ShownIsFound ==
    ASSUME TrailBase, NEW x \in check.split, RowsShow(x), DocsShow(x),
           SameInMirror(check.rows, check.docs)
    PROVE  FALSE
<1>1. x.side \in {"mirror", "log"} /\ check.rows \in SUBSET Copy
  BY DEF TrailBase, TrailTypeOK, Sides, Checks
<1>2. CASE x.side = "mirror"
  <2>1. PICK c \in check.rows : c.e = x.id /\ c.hash /\ c.body
    BY <1>2 DEF RowsShow
  <2>2. [id |-> c.e, hash |-> c.hash, body |-> c.body] \in check.docs
    BY DEF SameInMirror
  <2>3. c.hash = TRUE /\ c.body = TRUE
    BY <1>1, <2>1 DEF Copy
  <2> QED
    BY <1>2, <2>1, <2>2, <2>3 DEF DocsShow, Original
<1>3. CASE x.side = "log"
  <2>3. PICK c \in check.rows : c.e = x.id
    <3>1. CASE Original(x.id) \in check.docs
      <4>1. x.id \in {d.id : d \in check.docs}
        BY <3>1 DEF Original
      <4> QED
        BY <4>1 DEF SameInMirror
    <3> QED
      BY <1>3, <3>1 DEF DocsShow
  <2>4. PICK d : d = [id |-> c.e, hash |-> c.hash, body |-> c.body]
    OBVIOUS
  <2>5. d \in check.docs /\ d.id = x.id
    BY <2>3, <2>4 DEF SameInMirror
  <2>6. d = Original(x.id)
    BY <1>3, <2>5 DEF DocsShow
  <2>7. c.hash /\ c.body
    BY <2>4, <2>6 DEF Original
  <2> QED
    BY <1>3, <2>3, <2>7 DEF RowsShow
<1> QED
  BY <1>1, <1>2, <1>3

\* A verification goes on showing what it has read of a disagreement, and ends with it.
LEMMA FoundStep == TrailInv /\ FoundInv /\ [TrailNext]_trailVars => FoundInv'
<1> SUFFICES ASSUME TrailInv, FoundInv, [TrailNext]_trailVars
             PROVE  FoundInv'
  OBVIOUS
<1>0. TrailBase /\ check \in Checks /\ check.pc \in {"idle", "draining", "rows", "docs"}
  BY DEF TrailInv, TrailBase, TrailTypeOK, Checks
<1>1. CASE check' = check
  BY <1>1 DEF FoundInv, RowsShow, DocsShow
<1>2. ASSUME check'.pc \notin {"rows", "docs"}
      PROVE  FoundInv'
  BY <1>2 DEF FoundInv
<1>3. CASE ReadRows
  <2>1. check'.pc = "rows" /\ check'.rows = Snapshot /\ check'.split = Split
    BY <1>3 DEF ReadRows, NoCheck
  <2>2. ASSUME NEW x \in Split
        PROVE  RowsShow(x)'
    <3>1. CASE x.side = "mirror"
      <4>1. PICK c : c = [e |-> x.id, prev |-> table[x.id].prev, hash |-> table[x.id].hash,
                          body |-> table[x.id].body]
        OBVIOUS
      <4>2. c \in Snapshot
        BY <3>1, <4>1, SplitIs DEF Snapshot, In
      <4>3. c.e = x.id /\ c.hash /\ c.body
        BY <3>1, <4>1, SplitIs
      <4> QED
        BY <2>1, <3>1, <4>2, <4>3 DEF RowsShow
    <3>2. CASE x.side = "log"
      <4>1. ASSUME NEW c \in Snapshot, c.e = x.id
            PROVE  ~(c.hash /\ c.body)
        <5>1. c.hash = table[x.id].hash /\ c.body = table[x.id].body /\ table[x.id].state = "kept"
          BY <4>1 DEF Snapshot, In
        <5> QED
          BY <3>2, <5>1, SplitIs
      <4> QED
        BY <2>1, <3>2, <4>1 DEF RowsShow
    <3> QED
      BY <3>1, <3>2, SplitIs
  <2> QED
    BY <2>1, <2>2 DEF FoundInv
<1>4. CASE ReadDocs
  <2>1. PICK chosen \in SUBSET docs :
          check' = [check EXCEPT !.pc = "docs", !.docs = chosen,
                                 !.missed = \E d \in docs : \A c \in chosen : c.id # d.id,
                                 !.split = {x \in @ \cap Split : Shows(x, chosen)},
                                 !.quiet = @ /\ check.upTo = Cardinality(Used)]
    BY <1>4 DEF ReadDocs
  <2>2. /\ check.pc = "rows"
        /\ check'.pc = "docs" /\ check'.docs = chosen
        /\ check'.split = {x \in check.split \cap Split : Shows(x, chosen)}
        /\ check'.rows = check.rows
    BY <1>0, <1>4, <2>1 DEF ReadDocs, Checks
  <2>3. ASSUME NEW x \in check.split, x \in Split, Shows(x, chosen)
        PROVE  RowsShow(x)' /\ DocsShow(x)'
    <3>1. RowsShow(x)'
      BY <2>2, <2>3 DEF FoundInv, RowsShow
    <3>2. CASE x.side = "mirror"
      BY <2>2, <2>3, <3>1, <3>2, SplitIs DEF DocsShow
    <3>3. CASE x.side = "log"
      <4>1. \A d \in docs : d.id = x.id => d = Original(x.id)
        BY <2>3, <3>3, SplitIs
      <4>2. Original(x.id) \in chosen \/ \E c \in check.rows : c.e = x.id
        BY <2>3, <3>3 DEF Shows
      <4> QED
        BY <2>2, <3>1, <3>3, <4>1, <4>2 DEF DocsShow
    <3> QED
      BY <2>3, <3>1, <3>2, <3>3, SplitIs
  <2> QED
    BY <2>2, <2>3 DEF FoundInv
<1>5. CASE Conclude \/ DrainList \/ DrainPut \/ Abandon
  <2>1. CASE Conclude \/ Abandon
    BY <1>2, <2>1 DEF Conclude, Abandon, NoCheck
  <2>2. CASE DrainList \/ DrainPut
    <3>1. DrainList => check'.pc = "draining"
      BY <1>0 DEF DrainList, Checks
    <3>2. DrainPut => check'.pc = check.pc /\ check.pc = "draining"
      BY <1>0 DEF DrainPut, Checks
    <3> QED
      BY <1>2, <2>2, <3>1, <3>2
  <2> QED
    BY <1>5, <2>1, <2>2
<1>8. CASE ClearFreeze
  BY <1>1, <1>8 DEF ClearFreeze
<1>9. ASSUME NEW e \in Entry, RowDrifts(e) \/ ObjectDrifts(e)
      PROVE  FoundInv'
  BY <1>0, <1>1, <1>9, DriftMoves
<1>10. CASE \/ UNCHANGED trailVars
            \/ \E q \in Requests : ReadParent(q) \/ FlushRow(q) \/ CommitRequest(q) \/ RollbackRequest(q)
            \/ \E r \in Replicas : Work(r) \/ Crash(r)
  BY <1>1, <1>10 DEF trailVars, ReadParent, FlushRow, CommitRequest, RollbackRequest, Work, Take,
                     Upload, UploadFails, GiveUp, Crash, watch
<1> QED
  BY <1>3, <1>4, <1>5, <1>8, <1>9, <1>10 DEF TrailNext

\* No verification passes over an event on which log and mirror disagree from before it
\* reads the one until it has read the other, whatever is written meanwhile.
THEOREM DisagreementIsFoundProved == TrailSpec => []DisagreementIsFound
<1>1. TrailInit => FoundInv
  BY DEF TrailInit, FoundInv, NoCheck
<1>2. TrailInv /\ FoundInv => DisagreementIsFound
  <2> SUFFICES ASSUME TrailInv, FoundInv, check.pc = "docs", Passes, NEW x \in check.split
               PROVE  FALSE
    BY DEF DisagreementIsFound
  <2>1. TrailBase /\ RowsShow(x) /\ DocsShow(x) /\ SameInMirror(check.rows, check.docs)
    BY DEF TrailInv, FoundInv, Passes
  <2> QED
    BY <2>1, ShownIsFound
<1> QED
  BY <1>1, <1>2, FoundStep, TrailInvariant, PTL DEF TrailSpec

-----------------------------------------------------------------------------
(* Why an alarm has a cause. *)

\* No request overlapped with another or was undone, no upload was given up, no process
\* forgot an entry, and nothing drifted.  Once lost, this never comes back.
Clean == ~overlapped /\ In("undone") = {} /\ Reported \cup dropped = {} /\ drifts = 0

\* The hash of the entry before, and the row of an entry that nothing happened to.
Parent(e) == IF e = 1 THEN NoHash ELSE [id |-> e - 1, hash |-> TRUE]
CopyOf(e) == [e |-> e, prev |-> Parent(e), hash |-> TRUE, body |-> TRUE]

LogClean ==
    \A e \in Used :
        /\ table[e].state \in {"open", "kept"}
        /\ table[e].hash = TRUE /\ table[e].body = TRUE
        /\ table[e].prev = Parent(e)

MirrorClean ==
    /\ docs \subseteq {Original(e) : e \in Used}
    /\ \A e \in Used : e \in Pending \/ Original(e) \in docs

CheckClean ==
    /\ \A c \in check.rows : c.e \in Used /\ c.hash = TRUE /\ c.body = TRUE
    /\ check.quiet /\ check.pc \in {"rows", "docs"} =>
          /\ check.rows = {CopyOf(e) : e \in 1 .. check.upTo}
          /\ \A e \in 1 .. check.upTo : Original(e) \in docs
    /\ check.quiet /\ ~check.missed /\ check.pc = "docs" =>
          check.docs = {Original(e) : e \in 1 .. check.upTo}

\* Only one request records at a time, and what it has read is the hash before the next.
ReadingClean ==
    \A q \in Requests : reading[q].on =>
        /\ \A p \in Requests : reading[p].on => p = q
        /\ In("open") = OpenOf(q)
        /\ \E n \in 0 .. MaxEvents : Used = 1 .. n /\ reading[q].prev = Parent(n + 1)

QuietInv == Clean => LogClean /\ MirrorClean /\ CheckClean /\ ReadingClean

\* A step that leaves things clean found them clean.
LEMMA CleanBefore ==
    ASSUME TrailBase, [TrailNext]_trailVars, Clean'
    PROVE  Clean
<1>0. /\ table \in [Entry -> Row] /\ overlapped \in BOOLEAN /\ drifts \in Nat
  BY DEF TrailBase, TrailTypeOK
<1>1. ASSUME overlapped => overlapped', In("undone") \subseteq In("undone")',
             Reported \cup dropped \subseteq Reported' \cup dropped',
             drifts' = drifts \/ drifts' = drifts + 1
      PROVE  Clean
  BY <1>0, <1>1 DEF Clean
<1>a. ASSUME overlapped => overlapped', In("undone") \subseteq In("undone")',
             UNCHANGED <<failed, dropped>>, drifts' = drifts \/ drifts' = drifts + 1
      PROVE  Clean
  BY <1>1, <1>a DEF Reported
<1>2. CASE UNCHANGED trailVars
  BY <1>a, <1>2 DEF trailVars, In
<1>r. ASSUME NEW q \in Requests, ReadParent(q)
      PROVE  Clean
  <2>1. UNCHANGED <<table, failed, dropped, drifts>> /\ (overlapped => overlapped')
    BY <1>r DEF ReadParent, mirror, bad
  <2> QED
    BY <1>a, <2>1 DEF In
<1>3. ASSUME NEW q \in Requests, FlushRow(q)
      PROVE  Clean
  <2>1. PICK e \in Entry, new \in Row : e \notin Used /\ table' = [table EXCEPT ![e] = new]
    BY <1>3, RecordMoves
  <2>2. In("undone") \subseteq In("undone")'
    BY <1>0, <2>1 DEF In, Used
  <2>3. UNCHANGED <<failed, dropped, drifts, overlapped>>
    BY <1>3 DEF FlushRow, bad
  <2> QED
    BY <1>a, <2>2, <2>3
<1>4. ASSUME NEW q \in Requests, CommitRequest(q) \/ RollbackRequest(q)
      PROVE  Clean
  <2>1. PICK state \in {"kept", "undone"} : table' = Ended({q}, state)
    BY <1>4 DEF CommitRequest, RollbackRequest
  <2>2. In("undone") \subseteq In("undone")'
    BY <2>1, EndedMoves DEF In
  <2>3. UNCHANGED <<failed, dropped, drifts, overlapped>>
    BY <1>4 DEF CommitRequest, RollbackRequest, mirror, bad
  <2> QED
    BY <1>a, <2>2, <2>3
<1>5. ASSUME NEW r \in Replicas, Crash(r)
      PROVE  Clean
  <2>1. In("undone") \subseteq In("undone")'
    BY <1>5, EndedMoves DEF In, Crash
  <2>2. UNCHANGED <<drifts, overlapped>>
    BY <1>5 DEF Crash
  <2>3. Reported \cup dropped \subseteq Reported' \cup dropped'
    BY <1>5, CrashMoves
  <2> QED
    BY <1>1, <2>1, <2>2, <2>3
<1>6. ASSUME NEW r \in Replicas, Take(r) \/ Upload(r) \/ UploadFails(r)
      PROVE  Clean
  <2>1. UNCHANGED <<table, overlapped, dropped, drifts, failed>>
    BY <1>6 DEF Take, Upload, UploadFails, log, bad
  <2> QED
    BY <1>a, <2>1 DEF In
<1>g. ASSUME NEW r \in Replicas, GiveUp(r)
      PROVE  Clean
  <2>1. UNCHANGED <<table, overlapped, drifts>>
    BY <1>g DEF GiveUp, log, bad
  <2>2. Reported \cup dropped \subseteq Reported' \cup dropped'
    BY <1>g, GiveUpMoves
  <2> QED
    BY <1>1, <2>1, <2>2 DEF In
<1>7. ASSUME NEW e \in Entry, RowDrifts(e) \/ ObjectDrifts(e)
      PROVE  Clean
  BY <1>a, <1>7, DriftMoves
<1>8. CASE Checking
  BY <1>a, <1>8, CheckMoves DEF In
<1> QED
  BY <1>2, <1>r, <1>3, <1>4, <1>5, <1>6, <1>g, <1>7, <1>8 DEF TrailNext, Work, Checking

\* The rows of an unbroken log are linked.
LEMMA CopiesAreLinked ==
    ASSUME NEW n \in Nat
    PROVE  Linked({CopyOf(e) : e \in 1 .. n})
<1> DEFINE rows == {CopyOf(e) : e \in 1 .. n}
<1> SUFFICES ASSUME NEW e \in 1 .. n,
                    NEW before, before = {y \in rows : y.e < CopyOf(e).e}
             PROVE  CopyOf(e).prev = IF before = {} THEN NoHash
                     ELSE LET last == CHOOSE y \in before : \A z \in before : z.e <= y.e
                          IN  [id |-> last.e, hash |-> last.hash]
  BY ZenonT(40) DEF Linked
<1>1. CopyOf(e).e = e /\ CopyOf(e).prev = Parent(e) /\ \A k \in 1 .. n : CopyOf(k).e = k /\ CopyOf(k).hash = TRUE
  BY DEF CopyOf
<1>2. before = {CopyOf(k) : k \in {j \in 1 .. n : j < e}}
  BY <1>1
<1>3. CASE e = 1
  <2>1. before = {}
    BY <1>2, <1>3
  <2> QED
    BY <1>1, <1>3, <2>1 DEF Parent
<1>4. CASE e # 1
  <2>1. e - 1 \in 1 .. n /\ e - 1 < e
    BY <1>4
  <2>2. CopyOf(e - 1) \in before /\ CopyOf(e - 1).e = e - 1 /\ CopyOf(e - 1).hash = TRUE
    BY <1>1, <1>2, <2>1
  <2>3. \A z \in before : z.e \in 1 .. n /\ z.e < e /\ z = CopyOf(z.e)
    BY <1>1, <1>2
  <2>4. \A z \in before : z.e <= CopyOf(e - 1).e
    BY <2>2, <2>3
  <2>5. PICK last : last = CHOOSE y \in before : \A z \in before : z.e <= y.e
    OBVIOUS
  <2>6. last \in before /\ \A z \in before : z.e <= last.e
    <3> HIDE <1>2
    <3> QED
      BY <2>2, <2>4, <2>5
  <2>7. last.e = e - 1
    BY <2>2, <2>3, <2>6
  <2>8. last = CopyOf(e - 1)
    BY <2>3, <2>6, <2>7
  <2>9. [id |-> last.e, hash |-> last.hash] = CopyOf(e).prev
    BY <1>1, <1>4, <2>2, <2>7, <2>8 DEF Parent
  <2>10. before # {}
    BY <2>2
  <2> HIDE DEF CopyOf
  <2> QED
    BY <2>5, <2>9, <2>10, Zenon
<1> QED
  BY <1>3, <1>4

\* While things are clean, a request reads the hash of the event before the next: its
\* session sees every event there is.
LEMMA ReadClean ==
    ASSUME TrailBase, LogClean, NEW q \in Requests, ReadParent(q), ~overlapped'
    PROVE  ReadingClean'
<1>0. table \in [Entry -> Row]
  BY DEF TrailBase, TrailTypeOK
<1>1. PICK prev \in Hash :
        /\ reading' = [reading EXCEPT ![q] = [on |-> TRUE, prev |-> prev]]
        /\ LatestSeen(q) = {} => prev = NoHash
        /\ LatestSeen(q) # {} => prev = HashOf(Highest(LatestSeen(q)))
  BY ReadMoves
<1>2. PICK n \in 0 .. MaxEvents : Used = 1 .. n
  BY DEF TrailBase
<1>3. n \in Nat
  BY TrailAssumption
<1>4. In("open") = OpenOf(q) /\ table' = table /\ \A p \in Requests : ~reading[p].on
  BY DEF ReadParent
<1>5. LatestSeen(q) = 1 .. n
  BY <1>2, <1>4 DEF LatestSeen, LogClean, Used, In
<1>6. prev = Parent(n + 1)
  <2>1. CASE n = 0
    <3>1. LatestSeen(q) = {} /\ n + 1 = 1
      BY <1>5, <2>1
    <3> QED
      BY <1>1, <3>1 DEF Parent
  <2>2. CASE n # 0
    <3>1. n \in 1 .. n /\ \A x \in 1 .. n : x <= n
      BY <1>3, <2>2
    <3>2. Highest(1 .. n) \in 1 .. n /\ \A x \in 1 .. n : x <= Highest(1 .. n)
      BY <3>1 DEF Highest
    <3>3. Highest(1 .. n) = n
      BY <1>3, <3>1, <3>2
    <3>4. prev = HashOf(n) /\ n \in Used
      BY <1>1, <1>2, <1>5, <3>1, <3>3
    <3>5. n + 1 # 1 /\ (n + 1) - 1 = n
      BY <1>3, <2>2
    <3> QED
      BY <3>4, <3>5 DEF HashOf, Parent, LogClean
  <2> QED
    BY <2>1, <2>2
<1>7. In("open")' = In("open") /\ OpenOf(q)' = OpenOf(q) /\ Used' = Used
  BY <1>4 DEF In, OpenOf, Used
<1>8. /\ \A p \in Requests : reading'[p].on => p = q
      /\ reading'[q].prev = prev
  BY <1>1, <1>4 DEF TrailBase, TrailTypeOK
<1> QED
  BY <1>2, <1>4, <1>6, <1>7, <1>8 DEF ReadingClean

\* While things are clean, an event links to the one before it.
LEMMA RecordClean ==
    ASSUME TrailBase, LogClean, ReadingClean, NEW q \in Requests, FlushRow(q)
    PROVE  /\ LogClean' /\ ReadingClean' /\ Used \subseteq Used'
           /\ \A e \in Used' : e \in Used \/ e \in Pending'
           /\ Pending \subseteq Pending'
<1>0. table \in [Entry -> Row] /\ reading \in [Requests -> [on : BOOLEAN, prev : Hash]]
  BY DEF TrailBase, TrailTypeOK
<1>1. PICK e \in Entry, new \in Row :
              /\ Used = 1 .. e - 1 /\ Used' = 1 .. e /\ e \notin Used
              /\ Pending' \subseteq Pending \cup {e} /\ Pending \subseteq Pending' /\ e \in Pending'
              /\ table' = [table EXCEPT ![e] = new]
              /\ new.state = "open" /\ new.by = q /\ new.hash /\ new.body
              /\ new.prev = reading[q].prev
  BY RecordMoves
<1>2. e \in Nat /\ e >= 1 /\ Used' = Used \cup {e}
  BY <1>1, TrailAssumption DEF Entry
<1>3. reading[q].on /\ reading' = [reading EXCEPT ![q] = NotReading]
  BY DEF FlushRow
<1>5. new.prev = Parent(e)
  <2>1. PICK n \in 0 .. MaxEvents : Used = 1 .. n /\ reading[q].prev = Parent(n + 1)
    BY <1>3 DEF ReadingClean
  <2>2. n \in Nat /\ e - 1 \in Nat
    BY <1>2, TrailAssumption
  <2>3. n = e - 1
    <3>1. Cardinality(1 .. n) = n /\ Cardinality(1 .. (e - 1)) = e - 1
      <4>1. \A m \in Nat : 1 \in Int /\ m \in Int /\ (IF 1 > m THEN 0 ELSE m - 1 + 1) = m
        OBVIOUS
      <4> QED
        BY <2>2, <4>1, FS_Interval
    <3> QED
      BY <1>1, <2>1, <3>1
  <2> QED
    BY <1>1, <1>2, <2>1, <2>2, <2>3
<1>6. new.hash = TRUE /\ new.body = TRUE
  BY <1>1 DEF Row
<1>7. table'[e] = new /\ \A x \in Used : table'[x] = table[x] /\ x # e
  BY <1>0, <1>1 DEF Used
<1>8. LogClean'
  BY <1>1, <1>2, <1>5, <1>6, <1>7 DEF LogClean
<1>9. ReadingClean'
  BY <1>0, <1>3 DEF ReadingClean, NotReading
<1> QED
  BY <1>1, <1>2, <1>8, <1>9

\* While things are clean, nobody else writes between a request's read and its event.
LEMMA ReadingStep ==
    ASSUME TrailBase, Clean, Clean', LogClean, ReadingClean, [TrailNext]_trailVars
    PROVE  ReadingClean'
<1>0. table \in [Entry -> Row] /\ reading \in [Requests -> [on : BOOLEAN, prev : Hash]]
  BY DEF TrailBase, TrailTypeOK
<1>1. CASE UNCHANGED <<table, reading>>
  BY <1>1 DEF ReadingClean, In, OpenOf, Used
<1>2. ASSUME NEW q \in Requests, ReadParent(q)
      PROVE  ReadingClean'
  BY <1>2, ReadClean DEF Clean
<1>3. ASSUME NEW q \in Requests, FlushRow(q)
      PROVE  ReadingClean'
  BY <1>3, RecordClean
<1>4. ASSUME NEW q \in Requests, CommitRequest(q) \/ RollbackRequest(q)
      PROVE  ReadingClean'
  <2>1. \A p \in Requests : reading'[p].on => reading[p].on /\ p # q
    BY <1>0, <1>4 DEF CommitRequest, RollbackRequest, NotReading
  <2>2. ASSUME NEW p \in Requests, reading[p].on, p # q
        PROVE  FALSE
    <3>1. ~reading[q].on /\ In("open") = OpenOf(p)
      BY <2>2 DEF ReadingClean
    <3>2. OpenOf(q) = {}
      BY <2>2, <3>1 DEF OpenOf
    <3> QED
      BY <1>4, <3>1, <3>2 DEF CommitRequest, RollbackRequest
  <2> QED
    BY <2>1, <2>2 DEF ReadingClean
<1>5. ASSUME NEW r \in Replicas, Crash(r)
      PROVE  ReadingClean'
  <2>1. table' = Ended({q \in Requests : Home[q] = r}, "undone")
        /\ \A p \in Requests : reading'[p].on => reading[p].on /\ reading'[p] = reading[p]
    BY <1>5 DEF Crash, NotReading
  <2>2. \A e \in Entry : table'[e] = table[e] \/ table'[e].state = "undone"
    BY <2>1, EndedMoves
  <2>3. \A e \in Entry : table'[e] = table[e]
    BY <2>2 DEF Clean, In
  <2>4. In("open")' = In("open") /\ Used' = Used /\ \A p \in Requests : OpenOf(p)' = OpenOf(p)
    BY <2>3 DEF In, OpenOf, Used
  <2> QED
    BY <2>1, <2>4 DEF ReadingClean
<1>6. ASSUME NEW r \in Replicas, Work(r)
      PROVE  ReadingClean'
  BY <1>1, <1>6 DEF Work, Take, Upload, UploadFails, GiveUp, log
<1>7. ASSUME NEW e \in Entry, RowDrifts(e) \/ ObjectDrifts(e)
      PROVE  FALSE
  <2>1. drifts' = drifts + 1 /\ drifts \in Nat
    BY <1>7, DriftMoves DEF TrailBase, TrailTypeOK
  <2> QED
    BY <2>1 DEF Clean
<1>8. CASE Checking
  BY <1>1, <1>8, CheckMoves
<1> QED
  BY <1>1, <1>2, <1>3, <1>4, <1>5, <1>6, <1>7, <1>8 DEF TrailNext, Checking, trailVars

\* While things are clean, only an upload or a drain changes the mirror, and it adds the
\* entry it was given.
LEMMA QuietStep == TrailInv /\ QuietInv /\ [TrailNext]_trailVars => QuietInv'
<1> SUFFICES ASSUME TrailInv, QuietInv, [TrailNext]_trailVars, Clean'
             PROVE  (LogClean /\ MirrorClean /\ CheckClean)'
  BY CleanBefore, ReadingStep DEF QuietInv, TrailInv
<1>0. /\ TrailBase /\ Clean /\ LogClean /\ MirrorClean /\ CheckClean /\ ReadingClean
      /\ table \in [Entry -> Row] /\ drifts \in Nat
      /\ check \in [pc : {"idle", "draining", "rows", "docs"}, rows : SUBSET Copy,
                    docs : SUBSET Object, todo : SUBSET Entry, quiet : BOOLEAN,
                    missed : BOOLEAN, upTo : Nat, split : SUBSET Sides]
      /\ Pending \subseteq Used
  BY CleanBefore DEF TrailInv, TrailBase, TrailTypeOK, QuietInv, Checks
<1>a. ASSUME LogClean', Used \subseteq Used', docs' = docs, check' = check,
             Pending \subseteq Pending', \A e \in Used' : e \in Used \/ e \in Pending'
      PROVE  (LogClean /\ MirrorClean /\ CheckClean)'
  <2>1. MirrorClean'
    BY <1>0, <1>a DEF MirrorClean
  <2>2. CheckClean'
    BY <1>0, <1>a DEF CheckClean
  <2> QED
    BY <1>a, <2>1, <2>2
<1>1. CASE UNCHANGED trailVars
  <2>1. Used' = Used /\ Pending' = Pending
    BY <1>1 DEF trailVars, Used, In, Pending, InMemory
  <2>2. LogClean' /\ docs' = docs /\ check' = check
    BY <1>0, <1>1, <2>1 DEF LogClean, trailVars
  <2> QED
    BY <1>a, <2>1, <2>2
<1>r. ASSUME NEW q \in Requests, ReadParent(q)
      PROVE  (LogClean /\ MirrorClean /\ CheckClean)'
  <2>1. UNCHANGED <<table, docs, queue, upload, check>>
    BY <1>r DEF ReadParent, mirror, watch
  <2>2. LogClean' /\ Used' = Used /\ Pending' = Pending
    BY <1>0, <2>1 DEF LogClean, Used, In, Pending, InMemory
  <2> QED
    BY <1>a, <2>1, <2>2
<1>2. ASSUME NEW q \in Requests, FlushRow(q)
      PROVE  (LogClean /\ MirrorClean /\ CheckClean)'
  <2>1. UNCHANGED <<docs, check>>
    BY <1>2 DEF FlushRow, watch
  <2>2. /\ LogClean' /\ Used \subseteq Used' /\ Pending \subseteq Pending'
        /\ \A e \in Used' : e \in Used \/ e \in Pending'
    BY <1>0, <1>2, RecordClean
  <2> QED
    BY <1>a, <2>1, <2>2
<1>3. ASSUME NEW q \in Requests, CommitRequest(q) \/ RollbackRequest(q)
      PROVE  (LogClean /\ MirrorClean /\ CheckClean)'
  <2>1. PICK state \in {"kept", "undone"} : table' = Ended({q}, state)
    BY <1>3 DEF CommitRequest, RollbackRequest
  <2>2. /\ Used' = Used
        /\ \A e \in Entry :
              /\ table'[e].prev = table[e].prev
              /\ table'[e].hash = table[e].hash /\ table'[e].body = table[e].body
              /\ table'[e] = table[e] \/ table'[e].state = state
    BY <1>0, <2>1, EndedMoves
  <2>3. \A e \in Entry : table'[e].state # "undone"
    BY DEF Clean, In
  <2>4. LogClean'
    BY <1>0, <2>2, <2>3 DEF LogClean, Used
  <2>5. UNCHANGED <<docs, check, queue, upload>>
    BY <1>3 DEF CommitRequest, RollbackRequest, mirror, watch
  <2>6. Pending' = Pending
    BY <2>5 DEF Pending, InMemory
  <2> QED
    BY <1>a, <2>2, <2>4, <2>5, <2>6
<1>4. ASSUME NEW r \in Replicas, Crash(r)
      PROVE  (LogClean /\ MirrorClean /\ CheckClean)'
  <2>1. /\ table' = Ended({q \in Requests : Home[q] = r}, "undone")
        /\ dropped' = dropped \cup InMemory(r) \cup Range(failed[r]) /\ UNCHANGED <<docs, check>>
    BY <1>4 DEF Crash, watch
  <2>2. /\ Used' = Used
        /\ \A e \in Entry : table'[e] = table[e] \/ table'[e].state = "undone"
    BY <1>0, <2>1, EndedMoves
  <2>3. \A e \in Entry : table'[e].state # "undone"
    BY DEF Clean, In
  <2>4. LogClean'
    BY <1>0, <2>2, <2>3 DEF LogClean, Used
  <2>5. InMemory(r) = {}
    BY <2>1 DEF Clean
  <2>6. Pending \subseteq Pending'
    BY <1>0, <1>4, <2>5, CrashMoves
  <2> QED
    BY <1>a, <2>1, <2>2, <2>4, <2>6
<1>5. ASSUME NEW r \in Replicas, Take(r) \/ UploadFails(r)
      PROVE  (LogClean /\ MirrorClean /\ CheckClean)'
  <2>1. UNCHANGED <<table, docs, check>>
    BY <1>5 DEF Take, UploadFails, log, watch
  <2>2. LogClean' /\ Used' = Used
    BY <1>0, <2>1 DEF LogClean, Used, In
  <2>3. Pending' = Pending
    BY <1>0, <1>5, TakeMoves, RetryMoves
  <2> QED
    BY <1>a, <2>1, <2>2, <2>3
<1>g. ASSUME NEW r \in Replicas, GiveUp(r)
      PROVE  FALSE
  BY <1>0, <1>g, GiveUpMoves DEF Clean
<1>b. ASSUME NEW e \in Used, docs' = docs \cup {Original(e)}, Pending \subseteq Pending' \cup {e},
             table' = table, check'.rows = check.rows, check'.quiet = check.quiet,
             check'.missed = check.missed, check'.pc = check.pc, check'.docs = check.docs, check'.upTo = check.upTo
      PROVE  (LogClean /\ MirrorClean /\ CheckClean)'
  <2>1. Used' = Used
    BY <1>b DEF Used, In
  <2>2. LogClean'
    BY <1>0, <1>b, <2>1 DEF LogClean
  <2>3. MirrorClean'
    BY <1>0, <1>b, <2>1 DEF MirrorClean
  <2>4. CheckClean'
    BY <1>0, <1>b, <2>1 DEF CheckClean
  <2> QED
    BY <2>2, <2>3, <2>4
<1>6. ASSUME NEW r \in Replicas, Upload(r)
      PROVE  (LogClean /\ MirrorClean /\ CheckClean)'
  <2>1. PICK none, e : none = [id |-> 0, attempts |-> 0] /\ e = upload[r].id
    OBVIOUS
  <2>2. /\ e # 0 /\ upload' = [upload EXCEPT ![r] = none] /\ queue' = queue
        /\ docs' = docs \cup {Original(e)}
        /\ UNCHANGED <<table, check>>
    BY <1>6, <2>1 DEF Upload, log, watch, Original
  <2>3. /\ upload[r] \in [id : {0} \cup Entry, attempts : 0 .. MaxRetries] /\ MaxRetries \in Nat
        /\ InMemory(r) \subseteq Pending
    BY <1>0, MemoryTypes
  <2>4. none \in [id : {0} \cup Entry, attempts : 0 .. MaxRetries] /\ none.id = 0
    BY <2>1, <2>3
  <2>5. e \in Used
    BY <1>0, <2>1, <2>2, <2>3 DEF InMemory
  <2>6. Pending \subseteq Pending' \cup {e}
    BY <1>0, <2>1, <2>2, <2>4, UploadMoves
  <2> QED
    BY <1>b, <2>2, <2>5, <2>6
<1>7. ASSUME NEW e \in Entry, RowDrifts(e) \/ ObjectDrifts(e)
      PROVE  FALSE
  BY <1>0, <1>7, DriftMoves DEF Clean
<1>c. ASSUME Checking
      PROVE  /\ Used' = Used /\ Pending' = Pending /\ LogClean'
             /\ docs' = docs => MirrorClean'
  <2>1. UNCHANGED <<table, queue, upload>>
    BY <1>0, <1>c, CheckMoves
  <2>2. Used' = Used /\ Pending' = Pending
    BY <2>1 DEF Used, In, Pending, InMemory
  <2> QED
    BY <1>0, <2>1, <2>2 DEF LogClean, MirrorClean
<1>d. \A c \in Snapshot : c.e \in Used /\ c.hash = TRUE /\ c.body = TRUE
  <2>1. \A e \in In("kept") : e \in Used
    BY DEF Used, In
  <2> QED
    BY <1>0, <2>1 DEF Snapshot, LogClean
<1>8. CASE DrainList
  <2>1. docs' = docs
    BY <1>8 DEF DrainList, mirror
  <2>2. check'.rows = Snapshot /\ check'.pc = "draining"
    BY <1>0, <1>8 DEF DrainList
  <2>3. CheckClean'
    BY <1>8, <1>c, <1>d, <2>2 DEF CheckClean, Checking
  <2> QED
    BY <1>0, <1>8, <1>c, <2>1, <2>3 DEF Checking
<1>9. CASE DrainPut
  <2>1. PICK x \in check.rows :
          /\ docs' = docs \cup {[id |-> x.e, hash |-> x.hash, body |-> x.body]}
          /\ check' = [check EXCEPT !.todo = @ \ {x.e}]
    BY <1>9 DEF DrainPut
  <2>2. x.e \in Used /\ docs' = docs \cup {Original(x.e)}
    BY <1>0, <2>1 DEF CheckClean, Original
  <2>3. /\ check'.rows = check.rows /\ check'.quiet = check.quiet
        /\ check'.missed = check.missed /\ check'.pc = check.pc /\ check'.docs = check.docs /\ check'.upTo = check.upTo
    BY <1>0, <2>1
  <2>4. table' = table
    BY <1>9 DEF DrainPut, log
  <2>5. Pending \subseteq Pending' \cup {x.e}
    BY <1>9, <1>c DEF Checking
  <2> QED
    BY <1>b, <2>2, <2>3, <2>4, <2>5
<1>10. CASE ReadRows
  <2>1. PICK n \in 0 .. MaxEvents : Used = 1 .. n /\ Cardinality(Used) = n
    BY <1>0, UsedCounted
  <2>2. docs' = docs
    BY <1>10 DEF ReadRows, mirror
  <2>3. check'.rows = Snapshot /\ check'.pc = "rows" /\ check'.quiet = Settled /\ check'.upTo = n
    BY <1>10, <2>1 DEF ReadRows, NoCheck
  <2>4. ASSUME Settled
        PROVE  /\ Snapshot = {CopyOf(e) : e \in 1 .. n}
               /\ \A e \in 1 .. n : Original(e) \in docs
    <3>1. In("kept") = 1 .. n
      BY <1>0, <2>1, <2>4 DEF Settled, LogClean, Used, In
    <3>2. \A e \in 1 .. n : [e |-> e, prev |-> table[e].prev, hash |-> table[e].hash, body |-> table[e].body]
                               = CopyOf(e)
      BY <1>0, <2>1 DEF LogClean, CopyOf
    <3>3. Snapshot = {CopyOf(e) : e \in 1 .. n}
      BY <3>1, <3>2 DEF Snapshot
    <3> QED
      BY <1>0, <2>1, <2>4, <3>3 DEF Settled, MirrorClean
  <2>5. CheckClean'
    BY <1>10, <1>c, <1>d, <2>2, <2>3, <2>4 DEF CheckClean, Checking
  <2> QED
    BY <1>0, <1>10, <1>c, <2>2, <2>5 DEF Checking
<1>11. CASE ReadDocs
  <2>1. PICK n \in 0 .. MaxEvents : Used = 1 .. n /\ Cardinality(Used) = n
    BY <1>0, UsedCounted
  <2>2. PICK chosen \in SUBSET docs :
          check' = [check EXCEPT !.pc = "docs", !.docs = chosen,
                                 !.missed = \E d \in docs : \A c \in chosen : c.id # d.id,
                                 !.split = {x \in @ \cap Split : Shows(x, chosen)},
                                 !.quiet = @ /\ check.upTo = Cardinality(Used)]
    BY <1>11 DEF ReadDocs
  <2>3. /\ docs' = docs /\ check.pc = "rows"
        /\ check'.rows = check.rows /\ check'.docs = chosen /\ check'.upTo = check.upTo
        /\ check'.quiet => check.quiet /\ check.upTo = n
        /\ ~check'.missed => \A d \in docs : \E c \in chosen : c.id = d.id
    BY <1>0, <1>11, <2>1, <2>2 DEF ReadDocs, mirror
  <2>4. ASSUME check'.quiet, ~check'.missed
        PROVE  chosen = {Original(e) : e \in 1 .. check.upTo}
    <3>1. docs = {Original(e) : e \in 1 .. n} /\ check.upTo = n
      BY <1>0, <2>1, <2>3, <2>4 DEF MirrorClean, CheckClean
    <3>2. \A e : Original(e).id = e
      BY DEF Original
    <3>3. ASSUME NEW e \in 1 .. n
          PROVE  Original(e) \in chosen
      <4>1. PICK d \in docs : d = Original(e)
        BY <3>1
      <4>2. \E c \in chosen : c.id = d.id
        BY <2>3, <2>4
      <4> QED
        BY <3>1, <3>2, <4>1, <4>2
    <3> QED
      BY <3>1, <3>3
  <2>5. CheckClean'
    BY <1>0, <1>11, <1>c, <2>3, <2>4 DEF CheckClean, Checking
  <2> QED
    BY <1>0, <1>11, <1>c, <2>3, <2>5 DEF Checking
<1>12. CASE Conclude \/ Abandon
  <2>1. check' = NoCheck /\ docs' = docs
    BY <1>12 DEF Conclude, Abandon, mirror
  <2>2. CheckClean'
    BY <2>1 DEF CheckClean, NoCheck
  <2> QED
    BY <1>0, <1>12, <1>c, <2>1, <2>2 DEF Checking
<1>14. CASE ClearFreeze
  <2>1. UNCHANGED <<check, docs>>
    BY <1>14 DEF ClearFreeze, mirror
  <2>2. Used \subseteq Used' /\ Pending \subseteq Pending' /\ LogClean' /\ \A e \in Used' : e \in Used
    BY <1>14, <1>c DEF Checking
  <2> QED
    BY <1>a, <2>1, <2>2
<1> QED
  BY <1>1, <1>r, <1>2, <1>3, <1>4, <1>5, <1>g, <1>6, <1>7, <1>8, <1>9, <1>10, <1>11, <1>12, <1>14
     DEF TrailNext, Work

\* What was read of a clean log and a clean mirror is the same, and linked.
LEMMA CleanPasses ==
    ASSUME TrailBase, CheckClean, check.pc = "docs", check.quiet, ~check.missed
    PROVE  Passes
<1>1. PICK n \in Nat : n = check.upTo
  BY DEF TrailBase, TrailTypeOK, Checks
<1>2. check.rows = {CopyOf(e) : e \in 1 .. n} /\ check.docs = {Original(e) : e \in 1 .. n}
  BY <1>1 DEF CheckClean
<1>3. Linked(check.rows)
  BY <1>2, CopiesAreLinked
<1>4. \A e \in 1 .. n : CopyOf(e).e = e /\ CopyOf(e).hash = TRUE /\ CopyOf(e).body = TRUE
  BY DEF CopyOf
<1>5. \A x \in check.rows : Recomputes(x)
  <2>1. \A e \in 1 .. n : Recomputes(CopyOf(e))
    BY <1>4 DEF Recomputes
  <2> QED
    BY <1>2, <2>1
<1>6. \A e \in 1 .. n : [id |-> CopyOf(e).e, hash |-> CopyOf(e).hash, body |-> CopyOf(e).body] = Original(e)
                        /\ Original(e).id = e
  BY <1>4 DEF Original
<1>7. \A x \in check.rows : [id |-> x.e, hash |-> x.hash, body |-> x.body] \in check.docs
  <2> SUFFICES ASSUME NEW e \in 1 .. n
               PROVE  [id |-> CopyOf(e).e, hash |-> CopyOf(e).hash, body |-> CopyOf(e).body] \in check.docs
    BY <1>2
  <2> QED
    BY <1>2, <1>6
<1>8. {d.id : d \in check.docs} \subseteq {x.e : x \in check.rows}
  BY <1>2, <1>4, <1>6
<1> QED
  BY <1>3, <1>5, <1>7, <1>8 DEF Passes, SameInMirror

\* A verification that ran while nothing was open or waiting and read every object, in a
\* system where requests did not overlap and nothing failed or drifted, passes: every
\* alarm has a cause.
THEOREM QuietVerificationPassesProved == TrailSpec => []QuietVerificationPasses
<1>1. TrailInit => QuietInv
  <2> SUFFICES ASSUME TrailInit
               PROVE  QuietInv
    OBVIOUS
  <2>1. Used = {}
    BY DEF TrailInit, NoRow, Used, In
  <2>2. docs = {} /\ check = NoCheck /\ \A q \in Requests : ~reading[q].on
    BY DEF TrailInit, NotReading
  <2>3. check.rows = {} /\ check.pc = "idle"
    BY <2>2 DEF NoCheck
  <2> QED
    BY <2>1, <2>2, <2>3 DEF QuietInv, LogClean, MirrorClean, CheckClean, ReadingClean
<1>2. TrailInv /\ QuietInv => QuietVerificationPasses
  BY CleanPasses DEF TrailInv, QuietInv, Clean, QuietVerificationPasses
<1> QED
  BY <1>1, <1>2, QuietStep, TrailInvariant, PTL DEF TrailSpec
=============================================================================

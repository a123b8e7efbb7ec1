-------------------------- MODULE ApprovalSessions --------------------------
(***************************************************************************)
(* One approval item under concurrent requests.  Every request has its own *)
(* database session at READ COMMITTED: it loads the item row once, reads   *)
(* the records, reads the last audit entry it can see, inserts (flushes)   *)
(* its own behind it, and writes the columns it changed when it commits.   *)
(* No request asks for a lock and no row carries a version, so requests    *)
(* may overlap at every point; only an UPDATE that is flushed early keeps  *)
(* other writers of the row waiting.  A session keeps its copy of the row  *)
(* after a commit (expire_on_commit=False), also while it executes.        *)
(* Items that publish a document have an audit entry more per execution,   *)
(* which is not modelled: no initial row is of their kinds.                *)
(***************************************************************************)
EXTENDS ApprovalRules, Sequences, FiniteSets

CONSTANTS
    Sessions,       \* request handlers that may run at the same time
    InitialRows,    \* the rows create_approval may have left behind
    MaxEntries,     \* bound on the audit chain: no request starts beyond it
    None            \* the user of a request nobody signs

\* The ends of an execution, and the events that tell of them.
Runs == {"executed", "execution_failed"}

ItemRow == [status : {"pending", "approved", "rejected", "cancelled", "suspended"} \cup Runs,
            kind : Kinds \ {"artifact", "lifecycle"}, lane : Lanes, required : SUBSET Roles, hold : BOOLEAN]

ASSUME SessionsAssumption ==
    /\ MaxEntries \in Nat /\ None \notin Users
    /\ InitialRows # {} /\ InitialRows \subseteq ItemRow

VARIABLES
    row,        \* the approval_items row
    records,    \* committed approval_records rows; entry tells equal ones apart
    chain,      \* audit_log_entries by id: event, prev (id of the parent), committed
    effects,    \* executions of the item whose work is committed
    session     \* each request's progress and what it holds in memory

store == <<row, records, chain, effects>>
vars  == <<row, records, chain, effects, session>>

Ops == Decisions \cup {"cancel", "litigation_hold", "sla_breach"}

Steps == {"idle", "loaded", "checked", "read", "flushed", "approved"}

\* seen: the session's copy of the row; recs: the records it read; event: what its
\* transaction will record; prev: the parent it has read for it; entry: the audit
\* entry it has flushed
Idle == [pc |-> "idle", op |-> "none", user |-> None,
         seen |-> CHOOSE r \in InitialRows : TRUE, recs |-> {},
         event |-> "none", prev |-> 0, entry |-> 0]

Init ==
    /\ row \in InitialRows
    /\ records = {}
    /\ chain = <<[event |-> "created", prev |-> 0, committed |-> TRUE]>>
    /\ effects = 0
    /\ session = [s \in Sessions |-> Idle]

At(s, step)  == session[s].pc = step
IsDecision(s) == session[s].op \in Decisions
End(s)       == session' = [session EXCEPT ![s] = Idle]

-----------------------------------------------------------------------------
\* session.get and the guards on the item itself.  A request that fails one of
\* them changes nothing.  A hold is accepted whatever the status; the one SLA
\* watcher lists pending items.
Admitted(op, u) ==
    CASE op = "litigation_hold" -> TRUE
      [] op \in {"cancel", "sla_breach"} -> row.status = "pending"
      [] OTHER -> row.status = "pending" /\ ~row.hold /\ MayDecide(u, row)

Load(s, op, u) ==
    /\ At(s, "idle")
    /\ Len(chain) < MaxEntries
    /\ op \in Decisions <=> u # None
    /\ Admitted(op, u)
    /\ op = "sla_breach" => \A t \in Sessions : session[t].op # op
    /\ session' = [session EXCEPT ![s] =
                      [Idle EXCEPT !.pc = "loaded", !.op = op, !.event = op, !.user = u, !.seen = row]]
    /\ UNCHANGED store

Committed == {n \in DOMAIN chain : chain[n].committed}

\* Faulty variant: the watcher does not look for an earlier breach event.
AlreadyDoneUnchecked(s) ==
    IsDecision(s) /\ HasSigned(session[s].user, records)

\* "approver has already signed", or a breach event already on the chain.
AlreadyDone(s) ==
    \/ IsDecision(s) /\ HasSigned(session[s].user, records)
    \/ /\ session[s].op = "sla_breach"
       /\ \E n \in Committed : chain[n].event = "sla_breach"

Check(s) ==
    /\ At(s, "loaded")
    /\ \/ AlreadyDone(s) /\ End(s)
       \/ /\ ~AlreadyDone(s)
          /\ session' = [session EXCEPT ![s].pc = "checked", ![s].recs = records]
    /\ UNCHANGED store

\* These set the status before record_event reads, and its SELECT flushes the
\* UPDATE: the row stays locked until the transaction ends.
HoldsRow(s) ==
    /\ At(s, "read") \/ At(s, "flushed")
    /\ session[s].event \in {"cancel", "litigation_hold"} \cup Runs

RowFree(s) == \A t \in Sessions \ {s} : ~HoldsRow(t)

\* _latest_hash: the entry with the highest id that is committed
Latest == CHOOSE n \in Committed : \A m \in Committed : m <= n

\* record_event reads the parent of its entry, ...
ReadLatest(s) ==
    /\ At(s, "checked")
    /\ session[s].event \in {"cancel", "litigation_hold"} \cup Runs => RowFree(s)
    /\ session' = [session EXCEPT ![s].pc = "read", ![s].prev = Latest]
    /\ UNCHANGED store

\* ... and flushes it: the id is taken, other sessions do not see it.
Flush(s) ==
    /\ At(s, "read")
    /\ chain' = Append(chain, [event |-> session[s].event, prev |-> session[s].prev,
                               committed |-> FALSE])
    /\ session' = [session EXCEPT ![s].pc = "flushed", ![s].entry = Len(chain) + 1]
    /\ UNCHANGED <<row, records, effects>>

-----------------------------------------------------------------------------
NewRecord(s) == [user |-> session[s].user, decision |-> session[s].op,
                 entry |-> session[s].entry]

\* The signatures are counted on the session's copies.
Completes(s) ==
    /\ session[s].op = "approve"
    /\ Covered(session[s].seen.required, session[s].recs \cup {NewRecord(s)})

\* The columns this session changed, applied to row r; a column set to the value
\* it was loaded with is not written.
Written(s, r, requested) ==
    LET seen == session[s].seen
        lane == EscalationTarget(seen.lane, requested)
        list == RequiredFor(lane, {})
    IN  CASE session[s].op = "reject" -> [r EXCEPT !.status = "rejected"]
          [] session[s].op = "cancel" -> [r EXCEPT !.status = "cancelled"]
          [] session[s].op = "litigation_hold" ->
                [r EXCEPT !.hold = TRUE,
                          !.status = IF seen.status = "pending" THEN "suspended" ELSE @]
          [] session[s].op = "escalate" ->
                [r EXCEPT !.lane = IF lane = seen.lane THEN @ ELSE lane,
                          !.required = IF list = seen.required THEN @ ELSE list]
          [] Completes(s) -> [r EXCEPT !.status = "approved"]
          [] OTHER -> r

\* The commit of the first transaction; an approval that completes the
\* signatures goes on to execute_approval.
Commit(s) ==
    /\ At(s, "flushed") /\ session[s].event \in Ops
    /\ RowFree(s)
    /\ chain' = [chain EXCEPT ![session[s].entry].committed = TRUE]
    /\ records' = IF IsDecision(s) THEN records \cup {NewRecord(s)} ELSE records
    /\ \E requested \in (IF session[s].op = "escalate" THEN Lanes \cup {0} ELSE {0}) :
          row' = Written(s, row, requested)
    /\ IF Completes(s)
       THEN session' = [session EXCEPT ![s].pc = "approved", ![s].seen = Written(s, @, 0)]
       ELSE End(s)
    /\ UNCHANGED effects

\* execute_approval works on the session's own copy of the row, which says
\* APPROVED whatever other sessions have committed since.  The executor runs; what
\* it raises is recorded instead.
Execute(s) ==
    /\ At(s, "approved")
    /\ session[s].seen.status = "approved"
    /\ \E outcome \in {"executed"} \cup
              (IF MayFail(session[s].seen.kind) THEN {"execution_failed"} ELSE {}) :
          session' = [session EXCEPT ![s].pc = "checked", ![s].event = outcome]
    /\ UNCHANGED store

\* The hook of a deliverable commits the session that already carries EXECUTED:
\* the work and the status are in the database before the audit entry is.
CommitByHook(s) ==
    /\ At(s, "checked") /\ session[s].event = "executed"
    /\ HasHook(session[s].seen.kind) /\ session[s].seen.status = "approved"
    /\ RowFree(s)
    /\ row' = [row EXCEPT !.status = "executed"]
    /\ effects' = effects + 1
    /\ session' = [session EXCEPT ![s].seen.status = "executed"]
    /\ UNCHANGED <<records, chain>>

\* The commit of the second transaction; what a hook has committed is not written
\* again.
Seal(s) ==
    LET event == session[s].event
        fresh == session[s].seen.status = "approved"
    IN  /\ At(s, "flushed") /\ event \in Runs
        /\ RowFree(s)
        /\ chain' = [chain EXCEPT ![session[s].entry].committed = TRUE]
        /\ row' = IF fresh THEN [row EXCEPT !.status = event] ELSE row
        /\ effects' = IF fresh /\ event = "executed" THEN effects + 1 ELSE effects
        /\ UNCHANGED records

\* Faulty variant: the request retries the execution it has just committed.
ExecuteCommitRetried(s) ==
    /\ Seal(s)
    /\ session' = [session EXCEPT ![s].pc = "approved"]

ExecuteCommit(s) == Seal(s) /\ End(s)

\* The request dies (connection lost, process killed); what it flushed is rolled
\* back, the id of its entry stays unused.
Abort(s) ==
    /\ ~At(s, "idle")
    /\ End(s)
    /\ UNCHANGED store

Next ==
    \E s \in Sessions :
        \/ \E op \in Ops, u \in Users \cup {None} : Load(s, op, u)
        \/ Check(s) \/ ReadLatest(s) \/ Flush(s) \/ Commit(s)
        \/ Execute(s) \/ CommitByHook(s) \/ ExecuteCommit(s) \/ Abort(s)

Spec == Init /\ [][Next]_vars

-----------------------------------------------------------------------------
RecordRow == [user : Users, decision : Decisions, entry : Nat]

Link == [event : Ops \cup Runs \cup {"created"}, prev : Nat, committed : BOOLEAN]

Session == [pc : Steps, op : Ops \cup {"none"}, user : Users \cup {None}, seen : ItemRow,
            recs : SUBSET RecordRow, event : Ops \cup Runs \cup {"none"}, prev : Nat, entry : Nat]

TypeOK ==
    /\ row \in ItemRow
    /\ records \in SUBSET RecordRow
    /\ chain \in Seq(Link)
    /\ effects \in Nat
    /\ session \in [Sessions -> Session]

ApprovalsGiven == {r.entry : r \in ApproveRecords(records)}
RunsOnChain == {n \in Committed : chain[n].event = "executed"}
AttemptsOnChain == {n \in Committed : chain[n].event \in Runs}

\* Each execution on the chain, also one that failed, is paid for by an earlier
\* approval of its own, and so is work whose request died before it was recorded:
\* only a hook can leave such work behind, nothing else runs without its entry.
EveryRunIsBacked ==
    /\ \E f \in [AttemptsOnChain -> ApprovalsGiven] :
          /\ \A n \in AttemptsOnChain : f[n] < n
          /\ \A m, n \in AttemptsOnChain : f[m] = f[n] => m = n
    /\ Cardinality(RunsOnChain) <= effects /\ effects <= Cardinality(ApprovalsGiven)
    /\ ~HasHook(row.kind) => effects = Cardinality(RunsOnChain)

\* The records and the audit chain tell the same story: a decision is in the
\* table exactly when its event is committed.
RecordsMatchChain ==
    {<<r.entry, r.decision>> : r \in records}
        = {<<n, chain[n].event>> : n \in {m \in Committed : chain[m].event \in Decisions}}

\* Even where overlapping writers fork the chain, every committed entry hangs off
\* an older committed one: no parent was ever rolled back.
ParentsAreCommitted ==
    \A n \in Committed : n # 1 => chain[n].prev \in Committed /\ chain[n].prev < n

\* The SLA watcher tags a breach once, also while the item is being decided.
BreachTaggedOnce ==
    \A m, n \in Committed :
        chain[m].event = "sla_breach" /\ chain[n].event = "sla_breach" => m = n

-----------------------------------------------------------------------------
\* Claims of the documentation that overlapping requests break.

\* "No double execution": an approved write runs once.
NoDoubleExecution == effects <= 1
=============================================================================

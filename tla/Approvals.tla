----------------------------- MODULE Approvals -----------------------------
(***************************************************************************)
(* The approval queue of the Quill API, one database transaction per       *)
(* action.  A request whose work is a single transaction (create, reject,  *)
(* escalate, cancel, litigation hold, an SLA scan of one item) is a single *)
(* action.  A decision that completes the signatures is two transactions   *)
(* of the same request: decide_approval commits APPROVED, then             *)
(* execute_approval runs the executor and commits its outcome; the process *)
(* may die, a hold may arrive or the audit chain may freeze between them.  *)
(* What happens when the transactions of two requests overlap is the       *)
(* subject of module ApprovalSessions.                                     *)
(***************************************************************************)
EXTENDS ApprovalRules

CONSTANT Items      \* approval items that may be created

VARIABLES
    item,       \* the approval_items rows
    records,    \* the approval_records rows of each item
    audit,      \* the event types in the audit chain of each item
    executing,  \* items whose deciding request is past its APPROVED commit
    overdue,    \* items whose sla_due_at has passed
    frozen      \* the audit freeze flag

vars == <<item, records, audit, executing, overdue, frozen>>

Statuses == {"none", "pending", "approved", "rejected", "cancelled",
             "executed", "execution_failed", "suspended"}

Events == {"created", "created_auto", "approve", "reject", "escalate", "executed",
           "execution_failed", "cancelled", "litigation_hold", "sla_breach"}

Row == [status : Statuses, kind : Kinds, lane : Lanes,
        required : SUBSET Roles, hold : BOOLEAN]

Record == [user : Users, decision : Decisions]

NoRow == [status |-> "none", kind |-> "stub", lane |-> LaneSingle,
          required |-> {}, hold |-> FALSE]

Init ==
    /\ item = [i \in Items |-> NoRow]
    /\ records = [i \in Items |-> {}]
    /\ audit = [i \in Items |-> {}]
    /\ executing = {}
    /\ overdue = {}
    /\ frozen = FALSE

\* record_event: a frozen chain refuses the event and so the whole transaction
Log(i, events) ==
    /\ ~frozen
    /\ audit' = [audit EXCEPT ![i] = @ \cup events]

-----------------------------------------------------------------------------
\* What the caller of create_approval posts, with the lane our own policy gives it.
Submissions == [kind : Kinds, proposed : Lanes, policyLane : Lanes, override : SUBSET Roles]

\* create_approval; a lane-1 item is executed by the same request, in the same
\* transaction unless a hook commits; a failure of the executor is committed too.
Create(i, s) ==
    LET lane == CreationLane(s.kind, s.proposed, s.policyLane)
        required == RequiredFor(lane, CreationOverride(s.kind, s.override))
        row(status) == [status |-> status, kind |-> s.kind, lane |-> lane,
                        required |-> required, hold |-> FALSE]
    IN  /\ item[i].status = "none"
        /\ \/ /\ lane # LaneAuto
              /\ item' = [item EXCEPT ![i] = row("pending")]
              /\ Log(i, {"created"})
              /\ UNCHANGED executing
           \/ /\ lane = LaneAuto
              /\ \E outcome \in {"executed"} \cup
                        (IF MayFail(s.kind) THEN {"execution_failed"} ELSE {}) :
                    /\ item' = [item EXCEPT ![i] = row(outcome)]
                    /\ Log(i, {"created_auto", outcome})
              /\ UNCHANGED executing
           \/ /\ lane = LaneAuto
              /\ HasHook(s.kind)
              /\ item' = [item EXCEPT ![i] = row("executed")]
              /\ Log(i, {"created_auto"})
              /\ executing' = executing \cup {i}
        /\ UNCHANGED <<records, overdue, frozen>>

\* The guards all three decisions share.
DecisionAllowed(u, i) ==
    /\ item[i].status = "pending"
    /\ ~item[i].hold
    /\ MayDecide(u, item[i])
    /\ ~HasSigned(u, records[i])

AddRecord(u, i, decision) ==
    records' = [records EXCEPT ![i] = @ \cup {[user |-> u, decision |-> decision]}]

\* Faulty variant: the signatures are counted without the one just given.
ApproveCountedEarly(u, i) ==
    /\ DecisionAllowed(u, i)
    /\ AddRecord(u, i, "approve")
    /\ Log(i, {"approve"})
    /\ \/ /\ Covered(item[i].required, records[i])
          /\ item' = [item EXCEPT ![i].status = "approved"]
          /\ executing' = executing \cup {i}
       \/ /\ ~Covered(item[i].required, records[i])
          /\ UNCHANGED <<item, executing>>
    /\ UNCHANGED <<overdue, frozen>>

\* Faulty variant: whoever took any decision on the item counts as a signer.
ApproveByAnyRecord(u, i) ==
    /\ DecisionAllowed(u, i)
    /\ AddRecord(u, i, "approve")
    /\ Log(i, {"approve"})
    /\ \/ /\ item[i].required \subseteq {RoleOf[r.user] : r \in records'[i]}
          /\ item' = [item EXCEPT ![i].status = "approved"]
          /\ executing' = executing \cup {i}
       \/ /\ ~(item[i].required \subseteq {RoleOf[r.user] : r \in records'[i]})
          /\ UNCHANGED <<item, executing>>
    /\ UNCHANGED <<overdue, frozen>>

\* Faulty variant: the request ends once APPROVED is committed.
ApproveOnly(u, i) ==
    /\ DecisionAllowed(u, i)
    /\ AddRecord(u, i, "approve")
    /\ Log(i, {"approve"})
    /\ item' = IF Covered(item[i].required, records'[i])
                 THEN [item EXCEPT ![i].status = "approved"] ELSE item
    /\ UNCHANGED <<executing, overdue, frozen>>

Approve(u, i) ==
    /\ DecisionAllowed(u, i)
    /\ AddRecord(u, i, "approve")
    /\ Log(i, {"approve"})
    /\ \/ /\ Covered(item[i].required, records'[i])
          /\ item' = [item EXCEPT ![i].status = "approved"]
          /\ executing' = executing \cup {i}
       \/ /\ ~Covered(item[i].required, records'[i])
          /\ UNCHANGED <<item, executing>>
    /\ UNCHANGED <<overdue, frozen>>

Reject(u, i) ==
    /\ DecisionAllowed(u, i)
    /\ AddRecord(u, i, "reject")
    /\ Log(i, {"reject"})
    /\ item' = [item EXCEPT ![i].status = "rejected"]
    /\ UNCHANGED <<executing, overdue, frozen>>

\* Faulty variant: an item that reaches the automatic lane is approved at once.
EscalateToAuto(u, i, requested) ==
    LET lane == EscalationTarget(item[i].lane, requested)
    IN  /\ DecisionAllowed(u, i)
        /\ AddRecord(u, i, "escalate")
        /\ Log(i, {"escalate"})
        /\ item' = [item EXCEPT ![i].lane = lane, ![i].required = RequiredFor(lane, {}),
                                ![i].status = IF lane = LaneAuto THEN "approved" ELSE @]
        /\ overdue' = overdue \ {i}
        /\ UNCHANGED <<executing, frozen>>

\* The item stays pending on its new lane; earlier signatures are kept, the SLA
\* starts again.
Escalate(u, i, requested) ==
    LET lane == EscalationTarget(item[i].lane, requested)
    IN  /\ DecisionAllowed(u, i)
        /\ AddRecord(u, i, "escalate")
        /\ Log(i, {"escalate"})
        /\ item' = [item EXCEPT ![i].lane = lane, ![i].required = RequiredFor(lane, {})]
        /\ overdue' = overdue \ {i}
        /\ UNCHANGED <<executing, frozen>>

-----------------------------------------------------------------------------
\* execute_approval, second transaction of the deciding request.
Execute(i) ==
    /\ i \in executing
    /\ item[i].status = "approved"
    /\ \E outcome \in {"executed"} \cup
              (IF MayFail(item[i].kind) THEN {"execution_failed"} ELSE {}) :
          /\ item' = [item EXCEPT ![i].status = outcome]
          /\ Log(i, {outcome})
    /\ executing' = executing \ {i}
    /\ UNCHANGED <<records, overdue, frozen>>

\* The estimate, contract and deliverable hooks commit the session that already
\* carries EXECUTED, so the new status reaches the database before its audit row.
\* The first two log an event of their own ahead of it.
CommitByHook(i) ==
    /\ i \in executing
    /\ HasHook(item[i].kind)
    /\ item[i].kind = "lifecycle" => ~frozen
    /\ item[i].status = "approved"
    /\ item' = [item EXCEPT ![i].status = "executed"]
    /\ UNCHANGED <<records, audit, executing, overdue, frozen>>

SealExecution(i) ==
    /\ i \in executing
    /\ item[i].status = "executed"
    /\ Log(i, {"executed"})
    /\ executing' = executing \ {i}
    /\ UNCHANGED <<item, records, overdue, frozen>>

\* A frozen chain makes record_event raise: the transaction is rolled back and
\* the request ends with what it had committed before.
ExecuteRefused(i) ==
    /\ i \in executing
    /\ frozen
    /\ executing' = executing \ {i}
    /\ UNCHANGED <<item, records, audit, overdue, frozen>>

\* The API process dies between the two commits of the request.
Crash(i) ==
    /\ i \in executing
    /\ executing' = executing \ {i}
    /\ UNCHANGED <<item, records, audit, overdue, frozen>>

-----------------------------------------------------------------------------
\* Faulty variant: the cancellation is not recorded.
CancelSilently(i) ==
    /\ item[i].status = "pending"
    /\ item' = [item EXCEPT ![i].status = "cancelled"]
    /\ UNCHANGED <<records, audit, executing, overdue, frozen>>

Cancel(i) ==
    /\ item[i].status = "pending"
    /\ item' = [item EXCEPT ![i].status = "cancelled"]
    /\ Log(i, {"cancelled"})
    /\ UNCHANGED <<records, executing, overdue, frozen>>

\* Faulty variant: every held item becomes suspended, whatever its status.
LitigationHoldAlwaysSuspends(i) ==
    /\ item[i].status # "none"
    /\ item' = [item EXCEPT ![i].hold = TRUE, ![i].status = "suspended"]
    /\ Log(i, {"litigation_hold"})
    /\ UNCHANGED <<records, executing, overdue, frozen>>

\* suspend_for_litigation_hold accepts any existing item, suspends a pending one
LitigationHold(i) ==
    /\ item[i].status # "none"
    /\ item' = [item EXCEPT ![i].hold = TRUE,
                            ![i].status = IF @ = "pending" THEN "suspended" ELSE @]
    /\ Log(i, {"litigation_hold"})
    /\ UNCHANGED <<records, executing, overdue, frozen>>

\* The clock passes sla_due_at.
SlaPasses(i) ==
    /\ item[i].status = "pending"
    /\ overdue' = overdue \cup {i}
    /\ UNCHANGED <<item, records, audit, executing, frozen>>

\* Faulty variant: pending items of lane 1 are taken for executed ones.
SlaScanSkipsAuto(i) ==
    /\ item[i].status = "pending"
    /\ item[i].lane # LaneAuto
    /\ i \in overdue
    /\ "sla_breach" \notin audit[i]
    /\ Log(i, {"sla_breach"})
    /\ UNCHANGED <<item, records, executing, overdue, frozen>>

\* sla._scan_once, one item of it
SlaScan(i) ==
    /\ item[i].status = "pending"
    /\ i \in overdue
    /\ "sla_breach" \notin audit[i]
    /\ Log(i, {"sla_breach"})
    /\ UNCHANGED <<item, records, executing, overdue, frozen>>

\* The verification job writes the freeze flag, the operator clears it.
Freeze ==
    /\ frozen' = ~frozen
    /\ UNCHANGED <<item, records, audit, executing, overdue>>

Decide(u, i) ==
    \/ Approve(u, i)
    \/ Reject(u, i)
    \/ \E requested \in Lanes \cup {0} : Escalate(u, i, requested)

Next ==
    \/ \E i \in Items :
          \/ \E s \in Submissions : Create(i, s)
          \/ \E u \in Users : Decide(u, i)
          \/ Execute(i) \/ CommitByHook(i) \/ SealExecution(i)
          \/ ExecuteRefused(i) \/ Crash(i)
          \/ Cancel(i) \/ LitigationHold(i) \/ SlaPasses(i) \/ SlaScan(i)
    \/ Freeze

\* The request that approved keeps running, the SLA watcher loops for ever.
Fairness ==
    \A i \in Items :
        /\ WF_vars(Execute(i) \/ SealExecution(i) \/ ExecuteRefused(i))
        /\ WF_vars(SlaScan(i))

Spec == Init /\ [][Next]_vars
FairSpec == Spec /\ Fairness
-----------------------------------------------------------------------------
TypeOK ==
    /\ item \in [Items -> Row]
    /\ records \in [Items -> SUBSET Record]
    /\ audit \in [Items -> SUBSET Events]
    /\ executing \subseteq Items
    /\ overdue \subseteq Items
    /\ frozen \in BOOLEAN

Cleared == {"approved", "executed", "execution_failed"}
BornAuto(i) == "created_auto" \in audit[i]

\* A write goes out only after every role the item asks for has signed it, unless
\* it was filed on lane 1: what decide_approval and execute_approval are for.
QuorumBeforeExecution ==
    \A i \in Items : item[i].status \in Cleared =>
        BornAuto(i) \/ Covered(item[i].required, records[i])

\* An item that was not filed on lane 1 never goes out without a person's
\* approval, even after an escalation moved it to lane 1, which asks nobody.
HumanInTheLoop ==
    \A i \in Items : item[i].status \in Cleared =>
        BornAuto(i) \/ ApproveRecords(records[i]) # {}

\* A non-owner never decides a workflow assignment, whatever list of approvers
\* an escalation gave the item, and no assignment executes by itself.
OwnerOnlyHolds ==
    \A i \in Items : item[i].kind = "assignment" =>
        /\ \A r \in records[i] : RoleOf[r.user] = "owner"
        /\ ~BornAuto(i)

\* What was decided, executed, cancelled or suspended is never reopened, not by
\* a hold, a late signature, an escalation or an SLA scan.
ClosedStaysClosed ==
    [][\A i \in Items :
          item[i].status \in {"rejected", "cancelled", "suspended",
                              "executed", "execution_failed"}
             => item'[i].status = item[i].status]_vars

\* Nobody signs an item that is under litigation hold.
HoldStopsDecisions ==
    [][\A i \in Items : item[i].hold => records'[i] = records[i]]_vars

\* The audit chain tells how each item ended.  Items whose execution runs a hook
\* are the exception: it commits EXECUTED ahead of the audit row.
Ends == {"executed", "execution_failed", "cancelled"}
StatusIsAudited ==
    \A i \in Items :
        /\ \A e \in Ends : e \in audit[i] => item[i].status = e
        /\ item[i].status \in Ends /\ ~HasHook(item[i].kind)
              => item[i].status \in audit[i]
        /\ item[i].status = "rejected" <=> "reject" \in audit[i]

\* The queue keeps the promise of the human gate.  Lane 1 asks nobody: a list of
\* approvers that such an item carries is stored and never looked at.
PhaseOf(status) ==
    CASE status = "none" -> "absent"
      [] status = "pending" -> "waiting"
      [] status = "approved" -> "cleared"
      [] status \in {"executed", "execution_failed"} -> "done"
      [] OTHER -> "closed"

Gate == INSTANCE HumanGate WITH
    phase  <- [i \in Items |-> PhaseOf(item[i].status)],
    need   <- [i \in Items |-> IF item[i].status = "none" \/ BornAuto(i)
                                 THEN {} ELSE item[i].required],
    signed <- [i \in Items |-> SignedRoles(records[i])]

KeepsTheGate == Gate!Spec

\* The approval that completes the signatures starts the execution in the same
\* request, and the request ends with the item executed or marked failed, unless
\* its process dies or the audit chain is frozen.
ApprovedIsExecuted ==
    /\ [][\A i \in Items :
            item[i].status # "approved" /\ item'[i].status = "approved" => i \in executing']_vars
    /\ \A i \in Items : LET running == item[i].status = "approved" /\ i \in executing
                         IN  running ~> (item[i].status \in {"executed", "execution_failed"}
                                            \/ frozen \/ i \notin executing)

\* A pending item past its deadline is announced by the SLA watcher, unless it is
\* decided first, gets a new deadline by an escalation, or the chain freezes.
BreachIsAnnounced ==
    LET late(i) == item[i].status = "pending" /\ i \in overdue
    IN  \A i \in Items : late(i) ~> ("sla_breach" \in audit[i] \/ ~late(i) \/ frozen)

-----------------------------------------------------------------------------
=============================================================================

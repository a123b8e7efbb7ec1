------------------------------- MODULE Uploads -------------------------------
(***************************************************************************)
(* An uploaded contract or estimate on its way through two agents.  A      *)
(* task of the API reads the files; a daemon runs the first agent          *)
(* (contract-extractor, design-classifier) and posts an approval item; a   *)
(* person's approval stamps the upload; a second daemon (contract-         *)
(* reviewer, estimator-scheduler) works from what was approved, and its    *)
(* item is approved in turn.  The row of the upload, the claims of the two *)
(* daemons, the operators' marker files and the items are separate stores, *)
(* written by separate processes.                                          *)
(*                                                                         *)
(* A daemon stands here for all its replicas: DispatchStore shows that one *)
(* of them at a time holds the claim.                                      *)
(***************************************************************************)
EXTENDS Naturals, Sequences

CONSTANTS
    MaxItems,    \* bound on the approval items; MaxFaults + 2 of them can be posted
    MaxFaults    \* bound on restarts, crashes, lost answers and failed hooks together

ASSUME UploadsAssumption == MaxItems \in Nat /\ MaxFaults \in Nat

VARIABLES
    kind,     \* "contract" or "estimate"
    upload,   \* its row: status, what was read of its files, and the number of the
              \* approved item for each stage, 0 when there is none
    task,     \* the background task that reads the files
    job,      \* for each stage, its row of claims and where its daemon is
    marker,   \* the operator's priority marker for each stage
    items,    \* the approval items; basis: the stamp their agent was given
    failures

uploadVars == <<kind, upload, task, job, marker, items, failures>>

Stages == {1, 2}
Idle   == [row |-> "none", pc |-> "idle", basis |-> 0]

UploadsInit ==
    /\ kind \in {"contract", "estimate"}
    /\ upload = [status |-> IF kind = "contract" THEN "uploaded" ELSE "queued",
                 text |-> "pending", stamp |-> [s \in Stages |-> 0]]
    /\ task = "scheduled"
    /\ job = [s \in Stages |-> Idle]
    /\ marker = [s \in Stages |-> FALSE]
    /\ items = <<>>
    /\ failures = 0

Mishap == failures < MaxFaults /\ failures' = failures + 1

-----------------------------------------------------------------------------
\* _run_extraction_async: two transactions, neither of which looks at the status.
TaskStarts ==
    /\ task = "scheduled" /\ task' = "reading"
    /\ upload' = [upload EXCEPT !.status = "extracting"]
    /\ UNCHANGED <<kind, job, marker, items, failures>>

TaskEnds ==
    /\ task = "reading" /\ task' = "over"
    /\ \/ upload' = [upload EXCEPT !.text = "ok",
                                   !.status = IF kind = "contract" THEN "extracted"
                                                                   ELSE "queued"]
       \/ upload' = [upload EXCEPT !.text = "failed", !.status = "failed"]
    /\ UNCHANGED <<kind, job, marker, items, failures>>

\* The API is restarted: its tasks are gone.
ApiRestarts ==
    /\ task \in {"scheduled", "reading"} /\ task' = "lost"
    /\ Mishap
    /\ UNCHANGED <<kind, upload, job, marker, items>>

Cancel ==
    /\ kind = "contract" /\ upload.status # "failed"
    /\ upload' = [upload EXCEPT !.status = "failed"]
    /\ UNCHANGED <<kind, task, job, marker, items, failures>>

StartUpload ==
    /\ kind = "estimate" /\ upload.stamp[1] # 0
    /\ upload' = [upload EXCEPT !.status = "estimating"]
    /\ UNCHANGED <<kind, task, job, marker, items, failures>>

\* What the four dispatch routes ask of the upload before they write a marker.
MayRequest(s) ==
    IF kind = "contract"
    THEN \/ s = 1 /\ upload.stamp[1] = 0 /\ upload.status \in {"uploaded", "extracted", "failed"}
         \/ s = 2 /\ upload.stamp[1] # 0 /\ upload.status \in {"extracted", "reviewed", "failed"}
    ELSE \/ s = 1 /\ upload.stamp[1] = 0 /\ upload.status = "queued"
         \/ s = 2 /\ upload.stamp[2] = 0 /\ upload.stamp[1] # 0 /\ upload.status = "estimating"

Request(s) ==
    /\ MayRequest(s)
    /\ marker' = [marker EXCEPT ![s] = TRUE]
    /\ UNCHANGED <<kind, upload, task, job, items, failures>>

-----------------------------------------------------------------------------
\* The status the daemon of a stage polls for.  Both daemons of contracts poll for
\* the same one.
Polled(s) ==
    IF kind = "contract" THEN "extracted" ELSE IF s = 1 THEN "queued" ELSE "estimating"

\* Faulty variant: the reviewer does not look for the fields.
ReadyByStatus(s) == upload.status = Polled(s)

\* The guards on the row once it is fetched.
Ready(s) ==
    /\ upload.status = Polled(s)
    /\ kind = "contract" /\ s = 2 => upload.stamp[1] # 0

At(s, pc) == job[s].pc = pc

\* Faulty variant: a row that is done can be claimed again.
FreeUnlessClaimed(s) == At(s, "idle")

\* try_claim: a row that is neither done nor claimed; or a lease that ran out, which
\* it does when its replica died.
Free(s) == At(s, "idle") /\ job[s].row # "done"

Claim(s) ==
    /\ upload.status = Polled(s) \/ marker[s]
    /\ Free(s)
    /\ job' = [job EXCEPT ![s] = [Idle EXCEPT !.row = "claimed", !.pc = "claimed"]]
    /\ UNCHANGED <<kind, upload, task, marker, items, failures>>

\* There is nothing to claim: the marker of a row that is done is removed.
DropMarker(s) ==
    /\ At(s, "idle") /\ job[s].row = "done" /\ marker[s]
    /\ marker' = [marker EXCEPT ![s] = FALSE]
    /\ UNCHANGED <<kind, upload, task, job, items, failures>>

Done(s) ==
    /\ job' = [job EXCEPT ![s] = [Idle EXCEPT !.row = "done"]]
    /\ marker' = [marker EXCEPT ![s] = FALSE]
    /\ UNCHANGED <<kind, upload, task, items, failures>>

AlreadyStamped(s) == At(s, "claimed") /\ upload.stamp[s] # 0 /\ Done(s)

\* Faulty variant: a row that is not ready is recorded as done.
NotReadyIsDone(s) ==
    At(s, "claimed") /\ upload.stamp[s] = 0 /\ ~Ready(s) /\ Done(s)

NotReady(s) ==
    /\ At(s, "claimed") /\ upload.stamp[s] = 0 /\ ~Ready(s)
    /\ job' = [job EXCEPT ![s] = Idle]
    /\ UNCHANGED <<kind, upload, task, marker, items, failures>>

FetchFailed(s) ==
    /\ At(s, "claimed") /\ Mishap
    /\ job' = [job EXCEPT ![s] = Idle]
    /\ UNCHANGED <<kind, upload, task, marker, items>>

\* dispatch_one starts from the row as it was fetched; without a file that was read
\* it raises.
Take(s) ==
    /\ At(s, "claimed") /\ upload.stamp[s] = 0 /\ Ready(s)
    /\ job' = [job EXCEPT ![s].pc = IF upload.text = "ok" THEN "ready" ELSE "failed",
                          ![s].basis = upload.stamp[1]]
    /\ UNCHANGED <<kind, upload, task, marker, items, failures>>

Posted(s) ==
    /\ Len(items) < MaxItems
    /\ items' = Append(items, [stage |-> s, basis |-> job[s].basis, state |-> "open"])

Post(s) ==
    /\ At(s, "ready") /\ Posted(s)
    /\ job' = [job EXCEPT ![s].pc = "posted"]
    /\ UNCHANGED <<kind, upload, task, marker, failures>>

\* The agent or the post fails, before the item exists or after it; or the record does.
RunFails(s) ==
    /\ \/ At(s, "ready") /\ (Posted(s) \/ UNCHANGED items)
       \/ At(s, "posted") /\ UNCHANGED items
    /\ Mishap
    /\ job' = [job EXCEPT ![s].pc = "failed"]
    /\ UNCHANGED <<kind, upload, task, marker>>

RecordDone(s) == At(s, "posted") /\ Done(s)

\* The backoff of the error runs out on its own.
RecordFailed(s) ==
    /\ At(s, "failed")
    /\ job' = [job EXCEPT ![s] = [Idle EXCEPT !.row = "error"]]
    /\ UNCHANGED <<kind, upload, task, marker, items, failures>>

DaemonDies(s) ==
    /\ ~At(s, "idle") /\ Mishap
    /\ job' = [job EXCEPT ![s] = [Idle EXCEPT !.row = "claimed"]]
    /\ UNCHANGED <<kind, upload, task, marker, items>>

-----------------------------------------------------------------------------
Decide(i, state) ==
    /\ i \in DOMAIN items /\ items[i].state = "open"
    /\ items' = [items EXCEPT ![i].state = state]

\* The hook of execute_approval for the item's artifact stamps the row, whatever its
\* status is.
Approve(i) ==
    /\ Decide(i, "executed")
    /\ LET s == items[i].stage
       IN  upload' = [upload EXCEPT !.stamp[s] = i,
                         !.status = IF kind = "contract"
                                    THEN IF s = 1 THEN "extracted"  ELSE "reviewed"
                                    ELSE IF s = 1 THEN "classifying" ELSE "done"]
    /\ UNCHANGED <<kind, task, job, marker, failures>>

\* An exception of the hook is logged, and the item is executed.
ApproveWithoutHook(i) ==
    /\ Decide(i, "executed") /\ Mishap
    /\ UNCHANGED <<kind, upload, task, job, marker>>

Reject(i) ==
    /\ Decide(i, "rejected")
    /\ UNCHANGED <<kind, upload, task, job, marker, failures>>

-----------------------------------------------------------------------------
Task == TaskStarts \/ TaskEnds

Tick(s) ==
    \/ Claim(s) \/ DropMarker(s)
    \/ AlreadyStamped(s) \/ NotReady(s) \/ Take(s)
    \/ Post(s) \/ RecordDone(s) \/ RecordFailed(s)

UploadsNext ==
    \/ Task \/ ApiRestarts \/ Cancel \/ StartUpload
    \/ \E s \in Stages : Request(s) \/ Tick(s) \/ FetchFailed(s) \/ RunFails(s) \/ DaemonDies(s)
    \/ \E i \in DOMAIN items : Approve(i) \/ ApproveWithoutHook(i) \/ Reject(i)

UploadsSpec == UploadsInit /\ [][UploadsNext]_uploadVars

\* Daemons poll for ever, and what is claimed is worked off.  Nobody has to decide.
UploadsFairSpec ==
    UploadsSpec /\ WF_uploadVars(Task) /\ \A s \in Stages : WF_uploadVars(Tick(s))

-----------------------------------------------------------------------------
UploadsTypeOK ==
    /\ kind \in {"contract", "estimate"}
    /\ upload \in [status : {"uploaded", "queued", "extracting", "extracted", "failed",
                             "classifying", "estimating", "reviewed", "done"},
                   text : {"pending", "ok", "failed"}, stamp : [Stages -> 0 .. MaxItems]]
    /\ task \in {"scheduled", "reading", "over", "lost"}
    /\ job \in [Stages -> [row : {"none", "claimed", "error", "done"},
                           pc : {"idle", "claimed", "ready", "posted", "failed"},
                           basis : 0 .. MaxItems]]
    /\ marker \in [Stages -> BOOLEAN]
    /\ Len(items) <= MaxItems
    /\ \A i \in DOMAIN items : items[i].stage \in Stages /\ items[i].basis \in 0 .. MaxItems
    /\ failures \in 0 .. MaxFaults

Executed(s) == {i \in DOMAIN items : items[i].stage = s /\ items[i].state = "executed"}

\* The second agent only ever works from something a person approved, although on
\* contracts its daemon polls for a status that comes before that approval.
SecondWorksFromApproved ==
    \A i \in DOMAIN items :
        items[i].stage = 2 => items[i].basis \in Executed(1)

\* An approved review or estimate rests on the fields or the classification the
\* upload carries.  When it does not, a fault made the first agent run twice and a
\* person approved both of its results.
ResultRestsOnStamp ==
    upload.stamp[2] # 0 /\ items[upload.stamp[2]].basis # upload.stamp[1]
        => \E i, j \in Executed(1) : i # j /\ failures > 0

\* A stamped upload that waits for its second agent gets an item from it, or leaves
\* the status that agent's daemon polls for.  The daemon has looked before, found
\* nothing to do and must not have given the upload up.
StampedGoesOn ==
    (upload.stamp[1] # 0 /\ Ready(2))
        ~> (~Ready(2) \/ \E i \in DOMAIN items : items[i].stage = 2)

\* The claim of the dispatch routes: a request makes the daemon pick the upload up.
\* Asked for while the upload is ready and no item of the stage waits for a decision,
\* it brings an item or finds the upload no longer ready.
RequestIsServed ==
    \A s \in Stages, n \in 0 .. MaxItems :
        (/\ marker[s] /\ Ready(s) /\ upload.text = "ok" /\ Len(items) = n
         /\ \A i \in DOMAIN items : items[i].stage = s => items[i].state # "open")
            ~> (Len(items) > n \/ ~Ready(s))
=============================================================================

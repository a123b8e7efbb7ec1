---------------------------- MODULE DispatchStore ----------------------------
(***************************************************************************)
(* Replicas of a dispatch daemon of the runtime (estimator, contract,      *)
(* classification, review) sharing one row of runtime_dispatch_state.      *)
(* Every replica polls the API for uploads that are ready, claims the row  *)
(* under a lease, runs the agent, posts the result as an approval item and *)
(* records the outcome; each of these is an await, between two of which    *)
(* other replicas move, leases run out and the replica may be killed.  The *)
(* estimator is the daemon the actions are named after.                    *)
(***************************************************************************)
EXTENDS Naturals

CONSTANTS
    Workers,        \* replicas
    Nobody,         \* the claimer of a row nobody claims
    LeaseCovers,    \* whether the lease outlasts every run of a live replica
    MaxFaults,      \* bound on crashes, lost answers and failed calls together
    MaxPosts        \* bound on approval items posted; with leases that cover
                    \* every run it is never reached below MaxFaults + 2

ASSUME WorkersAssumption ==
    /\ Nobody \notin Workers
    /\ LeaseCovers \in BOOLEAN
    /\ MaxFaults \in Nat /\ MaxPosts \in Nat

VARIABLES
    row,        \* the upload's row of runtime_dispatch_state
    upload,     \* the estimate: its status, and whether it has a package
    open,       \* approval items posted for the upload that nobody has decided
    posted,     \* how many were posted altogether
    marker,     \* the operator's priority marker file
    worker,     \* what each replica is doing; fresh: its own lease still runs
    faults      \* how many faults have happened

env  == <<upload, open, posted, marker>>
vars == <<row, upload, open, posted, marker, worker, faults>>

\* by is not a column of the table: it only tells whose lease it is that runs out.
Row == [status : {"none", "claimed", "error", "done"}, by : Workers \cup {Nobody},
        expired : BOOLEAN, ripe : BOOLEAN]

NoRow == [status |-> "none", by |-> Nobody, expired |-> FALSE, ripe |-> FALSE]

Steps == {"idle", "listed", "beaten", "claimed", "not_ready", "packaged",
          "ready", "posted", "failed"}

Init ==
    /\ row = NoRow
    /\ upload = [status |-> "estimating", package |-> FALSE]
    /\ open = 0 /\ posted = 0
    /\ marker = FALSE
    /\ worker = [w \in Workers |-> [pc |-> "idle", fresh |-> FALSE]]
    /\ faults = 0

At(w, step)    == worker[w].pc = step
GoTo(w, step)  == worker' = [worker EXCEPT ![w].pc = step]
Rest(w)        == worker' = [worker EXCEPT ![w] = [pc |-> "idle", fresh |-> FALSE]]
Fault          == faults < MaxFaults /\ faults' = faults + 1

\* Replicas that hold a claim, or think so.
Busy == {w \in Workers : worker[w].pc \notin {"idle", "listed", "beaten"}}

-----------------------------------------------------------------------------
\* _tick lists what the API calls estimating and what operators have marked.
Poll(w) ==
    /\ At(w, "idle")
    /\ upload.status = "estimating" \/ marker
    /\ GoTo(w, "listed")
    /\ UNCHANGED <<row, env, faults>>

\* Faulty variant: any claim can be taken over, not only an expired one.
ClaimableAlways(r) ==
    \/ r.status = "none"
    \/ r.status = "error" /\ r.ripe
    \/ r.status = "claimed"

\* Faulty variant: the retry of a failed row is not possible.
ClaimableOnce(r) ==
    \/ r.status = "none"
    \/ r.status = "claimed" /\ r.expired

\* Faulty variant: the WHERE clause forgets which rows are terminal.
ClaimableDone(r) ==
    \/ r.status \in {"none", "done"}
    \/ r.status = "error" /\ r.ripe
    \/ r.status = "claimed" /\ r.expired

\* The INSERT ... ON CONFLICT ... WHERE of try_claim.
Claimable(r) ==
    \/ r.status = "none"
    \/ r.status = "error" /\ r.ripe
    \/ r.status = "claimed" /\ r.expired

TryClaim(w) ==
    /\ At(w, "listed")
    /\ \/ /\ Claimable(row)
          /\ row' = [status |-> "claimed", by |-> w, expired |-> FALSE, ripe |-> FALSE]
          /\ worker' = [worker EXCEPT ![w] = [pc |-> "claimed", fresh |-> TRUE]]
       \/ /\ ~Claimable(row)
          /\ GoTo(w, "beaten")
          /\ UNCHANGED row
    /\ UNCHANGED <<env, faults>>

\* The claim failed: a marker for a row that is done is thrown away.
Beaten(w) ==
    /\ At(w, "beaten")
    /\ marker' = (marker /\ row.status # "done")
    /\ Rest(w)
    /\ UNCHANGED <<row, upload, open, posted, faults>>

\* _fetch_estimate_status and the guards on what it returns; a failed fetch
\* returns None.
FetchStatus(w) ==
    /\ At(w, "claimed")
    /\ GoTo(w, CASE upload.package -> "packaged"
                 [] upload.status # "estimating" -> "not_ready"
                 [] OTHER -> "ready")
    /\ UNCHANGED <<row, env, faults>>

FetchFails(w) ==
    /\ At(w, "claimed")
    /\ GoTo(w, "not_ready")
    /\ Fault
    /\ UNCHANGED <<row, env>>

\* release_claim deletes the row if it is claimed, by whomever.
ReleaseClaim(w) ==
    /\ At(w, "not_ready")
    /\ row' = IF row.status = "claimed" THEN NoRow ELSE row
    /\ Rest(w)
    /\ UNCHANGED <<env, faults>>

\* dispatch_one: the agent runs and the approval item is posted.
Dispatch(w) ==
    /\ At(w, "ready")
    /\ posted < MaxPosts
    /\ posted' = posted + 1
    /\ open' = open + 1
    /\ GoTo(w, "posted")
    /\ UNCHANGED <<row, upload, marker, faults>>

\* It raises before the item is posted, or after: the answer was lost.
DispatchFails(w) ==
    /\ At(w, "ready")
    /\ \/ UNCHANGED <<open, posted>>
       \/ posted < MaxPosts /\ open' = open + 1 /\ posted' = posted + 1
    /\ GoTo(w, "failed")
    /\ Fault
    /\ UNCHANGED <<row, upload, marker>>

\* Faulty variant: success only removes the claim.
RecordSuccessByDelete(w) ==
    /\ At(w, "posted") \/ At(w, "packaged")
    /\ row' = NoRow
    /\ marker' = FALSE
    /\ Rest(w)
    /\ UNCHANGED <<upload, open, posted, faults>>

\* record_success overwrites the row, whatever it says, and the marker goes.
RecordSuccess(w) ==
    /\ At(w, "posted") \/ At(w, "packaged")
    /\ row' = [NoRow EXCEPT !.status = "done"]
    /\ marker' = FALSE
    /\ Rest(w)
    /\ UNCHANGED <<upload, open, posted, faults>>

\* A failure of record_success after a dispatch lands in the same except clause
\* as a failure of the dispatch.
RecordSuccessFails(w) ==
    /\ At(w, "posted")
    /\ GoTo(w, "failed")
    /\ Fault
    /\ UNCHANGED <<row, env>>

\* Faulty variant: a failed run is recorded as done, so as not to be retried.
RecordErrorAsDone(w) ==
    /\ At(w, "failed")
    /\ row' = [NoRow EXCEPT !.status = "done"]
    /\ Rest(w)
    /\ UNCHANGED <<env, faults>>

\* record_error overwrites the row too; retry_after lies in the future.
RecordError(w) ==
    /\ At(w, "failed")
    /\ row' = [NoRow EXCEPT !.status = "error"]
    /\ Rest(w)
    /\ UNCHANGED <<env, faults>>

-----------------------------------------------------------------------------
\* The replica is killed and starts again; its claim stays in the table.
Crash(w) ==
    /\ ~At(w, "idle")
    /\ Rest(w)
    /\ Fault
    /\ UNCHANGED <<row, env>>

LeaseExpires ==
    /\ row.status = "claimed" /\ ~row.expired
    /\ LeaseCovers => row.by \notin Busy
    /\ row' = [row EXCEPT !.expired = TRUE]
    /\ worker' = [worker EXCEPT ![row.by].fresh = FALSE]
    /\ UNCHANGED <<env, faults>>

RetryAfterPasses ==
    /\ row.status = "error" /\ ~row.ripe
    /\ row' = [row EXCEPT !.ripe = TRUE]
    /\ UNCHANGED <<env, worker, faults>>

\* The API side: the posted item is executed (on_package_approved) or turned
\* down, the upload is classified anew (on_classification_approved), started
\* (start_estimation) or marked by an operator (dispatch_estimation_route).
PackageApproved ==
    /\ open > 0
    /\ open' = open - 1
    /\ upload' = [status |-> "done", package |-> TRUE]
    /\ UNCHANGED <<row, posted, marker, worker, faults>>

PackageRejected ==
    /\ open > 0
    /\ open' = open - 1
    /\ UNCHANGED <<row, upload, posted, marker, worker, faults>>

Reclassified ==
    /\ upload' = [upload EXCEPT !.status = "classifying"]
    /\ UNCHANGED <<row, open, posted, marker, worker, faults>>

StartEstimation ==
    /\ upload' = [upload EXCEPT !.status = "estimating"]
    /\ UNCHANGED <<row, open, posted, marker, worker, faults>>

RequestDispatch ==
    /\ upload.status = "estimating" /\ ~upload.package
    /\ marker' = TRUE
    /\ UNCHANGED <<row, upload, open, posted, worker, faults>>

Work(w) ==
    \/ Poll(w) \/ TryClaim(w) \/ Beaten(w) \/ FetchStatus(w) \/ ReleaseClaim(w)
    \/ Dispatch(w) \/ RecordSuccess(w) \/ RecordError(w)

Next ==
    \/ \E w \in Workers :
          \/ Work(w)
          \/ FetchFails(w) \/ DispatchFails(w) \/ RecordSuccessFails(w) \/ Crash(w)
    \/ LeaseExpires \/ RetryAfterPasses
    \/ PackageApproved \/ PackageRejected \/ Reclassified \/ StartEstimation
    \/ RequestDispatch

\* The daemons loop for ever and the clock runs.
Fairness ==
    /\ \A w \in Workers : WF_vars(Work(w))
    /\ WF_vars(LeaseExpires) /\ WF_vars(RetryAfterPasses)

Spec == Init /\ [][Next]_vars
FairSpec == Spec /\ Fairness

-----------------------------------------------------------------------------
TypeOK ==
    /\ row \in Row
    /\ row.status = "claimed" <=> row.by # Nobody
    /\ upload \in [status : {"estimating", "classifying", "done"}, package : BOOLEAN]
    /\ open \in 0 .. posted
    /\ posted \in 0 .. MaxPosts
    /\ marker \in BOOLEAN
    /\ worker \in [Workers -> [pc : Steps, fresh : BOOLEAN]]
    /\ faults \in 0 .. MaxFaults

\* As long as leases outlast runs, one replica at a time works on the upload, and
\* the row in the table is its own claim, whatever was released, failed or taken
\* over from a replica that died.
OneAtATime ==
    LeaseCovers => \A w \in Busy : row.status = "claimed" /\ row.by = w

\* A row is done only when an approval item was posted or the upload already had
\* its package: no upload is dropped by a failure, a crash or a stale replica.
DoneMeansDelivered == row.status = "done" => posted > 0 \/ upload.package

\* Every approval item beyond the first is the price of a fault: of a crash between
\* the post and its record, of an answer that was lost, or of a record that failed.
DuplicatesCostFaults == LeaseCovers => posted <= 1 + faults

\* A row that is done stays done: its daemon never runs the agent again.  The
\* comment on the table calls the status terminal; it is, as long as leases
\* outlast runs.
DoneIsTerminal == [][row.status = "done" => row'.status = "done"]_vars

\* As long as leases outlast runs, the table keeps the promise of Tenure: whoever is
\* busy is the one holder, it posts at most one item before it goes, and the row is done
\* only by the hand of its holder, after an item was posted, and for good.
Unspent == \E w \in Workers : At(w, "claimed") \/ At(w, "ready")

Tenures == INSTANCE Tenure WITH
    holders <- Busy, unspent <- Unspent, items <- posted, closed <- (row.status = "done")

KeepsTenure == Tenures!Spec

\* An upload that waits for its estimate gets an approval item, unless it is
\* classified anew meanwhile, after any bounded number of faults.
EstimatingIsDispatched ==
    upload.status = "estimating" ~> (posted > 0 \/ upload.status # "estimating")
=============================================================================

------------------------ MODULE DispatchStore_proofs ------------------------
(***************************************************************************)
(* Proofs about module DispatchStore, for any number of replicas, faults   *)
(* and approval items.                                                     *)
(***************************************************************************)
EXTENDS DispatchStore, TLAPS

-----------------------------------------------------------------------------
(* Type correctness. *)

USE WorkersAssumption

RowType == row \in Row /\ (row.status = "claimed" <=> row.by # Nobody)

CountType ==
    /\ upload \in [status : {"estimating", "classifying", "done"}, package : BOOLEAN]
    /\ open \in 0 .. posted
    /\ posted \in 0 .. MaxPosts
    /\ marker \in BOOLEAN
    /\ faults \in 0 .. MaxFaults

WorkerType == worker \in [Workers -> [pc : Steps, fresh : BOOLEAN]]

\* The parts of the type invariant, one for each kind of state.
LEMMA TypeParts == TypeOK <=> RowType /\ CountType /\ WorkerType
BY DEF TypeOK, RowType, CountType, WorkerType

\* The daemons start with an empty table and nothing posted.
LEMMA InitType == Init => TypeOK
<1> SUFFICES ASSUME Init
             PROVE  RowType /\ CountType /\ WorkerType
  BY TypeParts
<1>1. RowType
  BY DEF Init, RowType, Row, NoRow
<1>2. CountType
  <2>1. marker \in BOOLEAN
    BY Zenon DEF Init
  <2>2. upload \in [status : {"estimating", "classifying", "done"}, package : BOOLEAN]
    BY DEF Init
  <2>3. open \in 0 .. posted /\ posted \in 0 .. MaxPosts /\ faults \in 0 .. MaxFaults
    BY DEF Init
  <2> QED
    BY <2>1, <2>2, <2>3 DEF CountType
<1>3. WorkerType
  BY DEF Init, WorkerType, Steps
<1> QED
  BY <1>1, <1>2, <1>3

\* What a replica does keeps the type of the row.
LEMMA RowStep == RowType /\ WorkerType /\ [Next]_vars => RowType'
<1> SUFFICES ASSUME RowType, WorkerType, [Next]_vars
             PROVE  RowType'
  OBVIOUS
<1> USE DEF RowType, Row
<1>1. CASE UNCHANGED row
  BY <1>1
<1>2. ASSUME NEW w \in Workers, TryClaim(w)
      PROVE  RowType'
  <2>1. CASE row' = row
    BY <2>1
  <2>2. CASE row' = [status |-> "claimed", by |-> w, expired |-> FALSE, ripe |-> FALSE]
    BY <2>2
  <2> QED
    BY <1>2, <2>1, <2>2 DEF TryClaim
<1>3. ASSUME NEW w \in Workers, ReleaseClaim(w)
      PROVE  RowType'
  BY <1>3 DEF ReleaseClaim, NoRow
<1>4. ASSUME NEW w \in Workers, RecordSuccess(w)
      PROVE  RowType'
  BY <1>4 DEF RecordSuccess, NoRow
<1>5. ASSUME NEW w \in Workers, RecordError(w)
      PROVE  RowType'
  BY <1>5 DEF RecordError, NoRow
<1>6. CASE LeaseExpires \/ RetryAfterPasses
  BY <1>6 DEF LeaseExpires, RetryAfterPasses
<1> QED
  BY <1>1, <1>2, <1>3, <1>4, <1>5, <1>6
     DEF Next, Work, vars, env, Poll, Beaten, FetchStatus, Dispatch, FetchFails, DispatchFails,
         RecordSuccessFails, Crash, PackageApproved, PackageRejected, Reclassified,
         StartEstimation, RequestDispatch

\* No replica ever is at a step it does not have.
LEMMA WorkerStep == RowType /\ WorkerType /\ [Next]_vars => WorkerType'
<1> SUFFICES ASSUME RowType, WorkerType, [Next]_vars
             PROVE  WorkerType'
  OBVIOUS
<1> USE DEF WorkerType, Steps
<1>1. CASE UNCHANGED worker
  BY <1>1
<1>2. ASSUME NEW w \in Workers, NEW step \in Steps, GoTo(w, step)
      PROVE  WorkerType'
  BY <1>2 DEF GoTo
<1>3. ASSUME NEW w \in Workers, Rest(w)
      PROVE  WorkerType'
  BY <1>3 DEF Rest
<1>4. ASSUME NEW w \in Workers, TryClaim(w)
      PROVE  WorkerType'
  <2>1. CASE GoTo(w, "beaten")
    BY <2>1 DEF GoTo
  <2>2. CASE worker' = [worker EXCEPT ![w] = [pc |-> "claimed", fresh |-> TRUE]]
    BY <2>2
  <2> QED
    BY <1>4, <2>1, <2>2 DEF TryClaim
<1>5. CASE LeaseExpires
  BY <1>5 DEF LeaseExpires
<1>6. ASSUME NEW w \in Workers, FetchStatus(w)
      PROVE  \E step \in Steps : GoTo(w, step)
  BY <1>6 DEF FetchStatus
<1>7. ASSUME NEW w \in Workers,
             \/ Poll(w) \/ Dispatch(w) \/ FetchFails(w) \/ DispatchFails(w)
             \/ RecordSuccessFails(w)
      PROVE  \E step \in Steps : GoTo(w, step)
  BY <1>7 DEF Poll, Dispatch, FetchFails, DispatchFails, RecordSuccessFails
<1>8. ASSUME NEW w \in Workers,
             Beaten(w) \/ ReleaseClaim(w) \/ RecordSuccess(w) \/ RecordError(w) \/ Crash(w)
      PROVE  Rest(w)
  BY <1>8 DEF Beaten, ReleaseClaim, RecordSuccess, RecordError, Crash
<1>9. CASE \/ RetryAfterPasses \/ PackageApproved \/ PackageRejected \/ Reclassified
           \/ StartEstimation \/ RequestDispatch \/ UNCHANGED vars
  BY <1>1, <1>9 DEF RetryAfterPasses, PackageApproved, PackageRejected, Reclassified,
                    StartEstimation, RequestDispatch, vars
<1> HIDE DEF WorkerType, Steps
<1> QED
  BY <1>2, <1>3, <1>4, <1>5, <1>6, <1>7, <1>8, <1>9 DEF Next, Work

\* Nor does a counter or the upload leave its range.
LEMMA CountStep == CountType /\ [Next]_vars => CountType'
<1> SUFFICES ASSUME CountType, [Next]_vars
             PROVE  CountType'
  OBVIOUS
<1> USE DEF CountType
<1>1. CASE UNCHANGED <<upload, open, posted, marker, faults>>
  BY <1>1
<1>2. CASE UNCHANGED <<upload, open, posted, marker>> /\ Fault
  BY <1>2 DEF Fault
<1>3. CASE UNCHANGED <<upload, open, posted, faults>> /\ marker' \in BOOLEAN
  BY <1>3
<1>4. ASSUME NEW w \in Workers, Dispatch(w)
      PROVE  CountType'
  BY <1>4 DEF Dispatch
<1>5. ASSUME NEW w \in Workers, DispatchFails(w)
      PROVE  CountType'
  BY <1>5 DEF DispatchFails, Fault
<1>6. CASE PackageApproved \/ PackageRejected \/ Reclassified \/ StartEstimation
  <2>1. CASE PackageApproved
    BY <2>1 DEF PackageApproved
  <2>2. CASE PackageRejected
    BY <2>2 DEF PackageRejected
  <2>3. CASE Reclassified \/ StartEstimation
    BY <2>3 DEF Reclassified, StartEstimation
  <2> QED
    BY <1>6, <2>1, <2>2, <2>3
<1>7. ASSUME NEW w \in Workers, FetchFails(w) \/ RecordSuccessFails(w) \/ Crash(w)
      PROVE  CountType'
  BY <1>2, <1>7 DEF FetchFails, RecordSuccessFails, Crash, env
<1>8. ASSUME NEW w \in Workers, Beaten(w) \/ RecordSuccess(w)
      PROVE  CountType'
  BY <1>3, <1>8 DEF Beaten, RecordSuccess
<1>9. CASE RequestDispatch
  BY <1>3, <1>9 DEF RequestDispatch
<1> QED
  BY <1>1, <1>4, <1>5, <1>6, <1>7, <1>8, <1>9
     DEF Next, Work, vars, env, Poll, TryClaim, FetchStatus, ReleaseClaim, RecordError,
         LeaseExpires, RetryAfterPasses

\* Together: every step keeps the types.
LEMMA TypeStep == TypeOK /\ [Next]_vars => TypeOK'
BY TypeParts, RowStep, CountStep, WorkerStep, PTL

\* The row, the replicas and the counters always have their types; in particular a
\* row names a claimer exactly while it is claimed.
THEOREM TypeCorrect == Spec => []TypeOK
BY InitType, TypeStep, PTL DEF Spec

-----------------------------------------------------------------------------
(* Mutual exclusion.  OneAtATime is not inductive: a second replica could take
   over the row if the lease of a working one had expired, so the invariant also
   says that it has not.  The same invariant carries the count of the approval
   items: one may exceed the faults only once a replica has posted it or the row
   is done. *)

Exclusive == LeaseCovers =>
    \A w \in Busy : row.status = "claimed" /\ row.by = w /\ ~row.expired

Counted == LeaseCovers =>
    /\ posted <= 1 + faults
    /\ posted <= faults \/ row.status = "done" \/ \E w \in Workers : At(w, "posted")

Inv == TypeOK /\ Exclusive /\ Counted

\* Claims, releases, takeovers, failures and crashes keep the invariant.
LEMMA InvStep == Inv /\ [Next]_vars => Inv'
<1> SUFFICES ASSUME Inv, [Next]_vars, LeaseCovers
             PROVE  (Exclusive /\ Counted)'
  BY TypeStep DEF Inv, Exclusive, Counted
<1> USE DEF Inv, TypeOK, Row, NoRow, Steps, Exclusive, Counted, Busy, At, GoTo, Rest, Fault, env
<1>1. CASE UNCHANGED vars
  BY <1>1 DEF vars
<1>2. ASSUME NEW w \in Workers, Poll(w) \/ FetchStatus(w) \/ Beaten(w) \/ FetchFails(w)
      PROVE  (Exclusive /\ Counted)'
  BY <1>2 DEF Poll, FetchStatus, Beaten, FetchFails
<1>3. ASSUME NEW w \in Workers, TryClaim(w)
      PROVE  (Exclusive /\ Counted)'
  BY <1>3 DEF TryClaim, Claimable
<1>4. ASSUME NEW w \in Workers, ReleaseClaim(w)
      PROVE  (Exclusive /\ Counted)'
  BY <1>4 DEF ReleaseClaim
<1>5. ASSUME NEW w \in Workers, RecordSuccess(w) \/ RecordError(w)
      PROVE  (Exclusive /\ Counted)'
  BY <1>5 DEF RecordSuccess, RecordError
<1>6. ASSUME NEW w \in Workers, Dispatch(w) \/ DispatchFails(w)
      PROVE  (Exclusive /\ Counted)'
  BY <1>6 DEF Dispatch, DispatchFails
<1>7. ASSUME NEW w \in Workers, RecordSuccessFails(w) \/ Crash(w)
      PROVE  (Exclusive /\ Counted)'
  BY <1>7 DEF RecordSuccessFails, Crash
<1>8. CASE LeaseExpires \/ RetryAfterPasses
  BY <1>8 DEF LeaseExpires, RetryAfterPasses
<1>9. CASE PackageApproved \/ PackageRejected \/ Reclassified \/ StartEstimation \/ RequestDispatch
  BY <1>9 DEF PackageApproved, PackageRejected, Reclassified, StartEstimation, RequestDispatch
<1> QED
  BY <1>1, <1>2, <1>3, <1>4, <1>5, <1>6, <1>7, <1>8, <1>9 DEF Next, Work

\* The inductive invariant holds throughout.
LEMMA Invariant == Spec => []Inv
<1>1. Init => Inv
  BY InitType DEF Init, Inv, Exclusive, Counted, Busy
<1> QED
  BY <1>1, InvStep, PTL DEF Spec

\* While leases outlast runs, no two replicas work on the same upload: the one that
\* does holds the claim that is in the table.
THEOREM OneAtATimeProved == Spec => []OneAtATime
<1>1. Inv => OneAtATime
  BY DEF Inv, Exclusive, OneAtATime
<1> QED
  BY <1>1, Invariant, PTL

\* No more approval items are posted for an upload than one, plus one for each crash,
\* lost answer or failed record.
THEOREM DuplicatesProved == Spec => []DuplicatesCostFaults
<1>1. Inv => DuplicatesCostFaults
  BY DEF Inv, Counted, DuplicatesCostFaults
<1> QED
  BY <1>1, Invariant, PTL

\* And a row that is done is never claimed or failed again.
THEOREM TerminalProved ==
    ASSUME LeaseCovers
    PROVE  Spec => DoneIsTerminal
<1>1. ASSUME Inv, [Next]_vars, row.status = "done"
      PROVE  row'.status = "done"
  <2> USE <1>1 DEF Inv, TypeOK, Exclusive, Busy, At, Rest, NoRow, env
  <2>1. \A w \in Workers : worker[w].pc \in {"idle", "listed", "beaten"}
    OBVIOUS
  <2>2. ASSUME NEW w \in Workers, Work(w)
        PROVE  row'.status = "done"
    BY <2>1, <2>2 DEF Work, Poll, TryClaim, Claimable, Beaten, FetchStatus, ReleaseClaim,
                      Dispatch, RecordSuccess, RecordError
  <2>3. ASSUME NEW w \in Workers,
               FetchFails(w) \/ DispatchFails(w) \/ RecordSuccessFails(w) \/ Crash(w)
        PROVE  row'.status = "done"
    BY <2>3 DEF FetchFails, DispatchFails, RecordSuccessFails, Crash
  <2> QED
    BY <2>2, <2>3 DEF Next, vars, LeaseExpires, RetryAfterPasses, PackageApproved,
                      PackageRejected, Reclassified, StartEstimation, RequestDispatch
<1>2. Inv /\ [Next]_vars => [row.status = "done" => row'.status = "done"]_vars
  BY <1>1
<1> QED
  BY <1>2, Invariant, PTL DEF Spec, DoneIsTerminal
-----------------------------------------------------------------------------
(* What a done row stands for.  A replica records success some steps after it
   saw the package or posted the item, so the invariant follows what it saw:
   items are never unposted and a package is never withdrawn. *)

Delivered == posted > 0 \/ upload.package

Seen ==
    /\ DoneMeansDelivered
    /\ \A w \in Workers : At(w, "posted") \/ At(w, "packaged") => Delivered

\* What has been delivered stays delivered.
LEMMA DeliveredStays == CountType /\ [Next]_vars => (Delivered => Delivered')
<1> SUFFICES ASSUME CountType, [Next]_vars, Delivered
             PROVE  Delivered'
  OBVIOUS
<1> USE DEF Delivered, CountType
<1>1. ASSUME NEW w \in Workers, Dispatch(w) \/ DispatchFails(w)
      PROVE  Delivered'
  BY <1>1 DEF Dispatch, DispatchFails
<1>2. CASE PackageApproved \/ Reclassified \/ StartEstimation
  BY <1>2 DEF PackageApproved, Reclassified, StartEstimation
<1> QED
  BY <1>1, <1>2
     DEF Next, Work, vars, env, Poll, TryClaim, Beaten, FetchStatus, ReleaseClaim, RecordSuccess,
         RecordError, FetchFails, RecordSuccessFails, Crash, LeaseExpires, RetryAfterPasses,
         PackageRejected, RequestDispatch

\* Whoever moves to one of the two steps that record success has just posted or
\* has just seen the package, and only from there a row becomes done.
LEMMA SeenStep == TypeOK /\ Seen /\ [Next]_vars => Seen'
<1> SUFFICES ASSUME TypeOK, Seen, [Next]_vars
             PROVE  Seen'
  OBVIOUS
<1>1. Delivered => Delivered'
  BY TypeParts, DeliveredStays
<1>2. row'.status = "done" => row.status = "done" \/ Delivered'
  <2> USE <1>1 DEF Seen, NoRow, TypeOK, Row
  <2>1. ASSUME NEW w \in Workers, RecordSuccess(w)
        PROVE  Delivered'
    BY <2>1 DEF RecordSuccess
  <2>2. ASSUME NEW w \in Workers, TryClaim(w) \/ ReleaseClaim(w) \/ RecordError(w)
        PROVE  row'.status = "done" => row.status = "done"
    BY <2>2 DEF TryClaim, ReleaseClaim, RecordError
  <2>3. CASE LeaseExpires \/ RetryAfterPasses
    BY <2>3 DEF LeaseExpires, RetryAfterPasses
  <2> QED
    BY <2>1, <2>2, <2>3
       DEF Next, Work, vars, env, Poll, Beaten, FetchStatus, Dispatch, FetchFails, DispatchFails,
           RecordSuccessFails, Crash, PackageApproved, PackageRejected, Reclassified,
           StartEstimation, RequestDispatch
<1>3. ASSUME NEW v \in Workers, (At(v, "posted") \/ At(v, "packaged"))'
      PROVE  At(v, "posted") \/ At(v, "packaged") \/ Delivered'
  <2> USE <1>3 DEF At, GoTo, Rest, TypeOK, Steps
  <2>1. ASSUME NEW w \in Workers, Dispatch(w)
        PROVE  Delivered'
    BY <2>1 DEF Dispatch, Delivered
  <2>2. ASSUME NEW w \in Workers, FetchStatus(w)
        PROVE  At(v, "posted") \/ At(v, "packaged") \/ Delivered'
    BY <2>2 DEF FetchStatus, Delivered, env
  <2>3. ASSUME NEW w \in Workers,
               Poll(w) \/ TryClaim(w) \/ FetchFails(w) \/ DispatchFails(w) \/ RecordSuccessFails(w)
        PROVE  At(v, "posted") \/ At(v, "packaged")
    BY <2>3 DEF Poll, TryClaim, FetchFails, DispatchFails, RecordSuccessFails
  <2>4. ASSUME NEW w \in Workers,
               Beaten(w) \/ ReleaseClaim(w) \/ RecordSuccess(w) \/ RecordError(w) \/ Crash(w)
        PROVE  At(v, "posted") \/ At(v, "packaged")
    BY <2>4 DEF Beaten, ReleaseClaim, RecordSuccess, RecordError, Crash
  <2>5. CASE LeaseExpires
    BY <2>5 DEF LeaseExpires
  <2> QED
    BY <2>1, <2>2, <2>3, <2>4, <2>5
       DEF Next, Work, vars, RetryAfterPasses, PackageApproved, PackageRejected, Reclassified,
           StartEstimation, RequestDispatch
<1> QED
  BY <1>1, <1>2, <1>3 DEF Seen, DoneMeansDelivered, Delivered

\* A row that is done stands for an approval item or a package, with leases of any
\* length: neither a replica whose claim was taken over nor one that failed writes
\* "done" over work that nobody delivered.
THEOREM DoneMeansDeliveredProved == Spec => []DoneMeansDelivered
<1>1. Init => Seen
  BY DEF Init, Seen, DoneMeansDelivered, NoRow, At
<1>2. Seen => DoneMeansDelivered
  BY DEF Seen
<1> QED
  BY <1>1, <1>2, SeenStep, TypeCorrect, PTL DEF Spec
-----------------------------------------------------------------------------
(* The abstract tenure.  The holders of Tenure are the busy replicas: Exclusive makes
   them one at most, so a step of a busy replica is a step of the one holder.  That a
   row is done only when something was posted is Seen, and that a package comes from
   an item that was posted. *)

PackageIsPosted == upload.package => posted > 0

TenureInv == Inv /\ Seen /\ PackageIsPosted

\* A package is that of an item that was open.
LEMMA PackageStep == CountType /\ PackageIsPosted /\ [Next]_vars => PackageIsPosted'
<1> SUFFICES ASSUME CountType, PackageIsPosted, [Next]_vars
             PROVE  PackageIsPosted'
  OBVIOUS
<1> USE DEF PackageIsPosted, CountType
<1>1. ASSUME NEW w \in Workers, Dispatch(w) \/ DispatchFails(w)
      PROVE  PackageIsPosted'
  BY <1>1 DEF Dispatch, DispatchFails
<1>2. CASE PackageApproved
  BY <1>2 DEF PackageApproved
<1>3. CASE Reclassified \/ StartEstimation
  BY <1>3 DEF Reclassified, StartEstimation
<1> QED
  BY <1>1, <1>2, <1>3
     DEF Next, Work, vars, env, Poll, TryClaim, Beaten, FetchStatus, ReleaseClaim, RecordSuccess,
         RecordError, FetchFails, RecordSuccessFails, Crash, LeaseExpires, RetryAfterPasses,
         PackageRejected, RequestDispatch

\* The parts of the invariant hold together throughout.
LEMMA TenureInvariant == Spec => []TenureInv
<1>1. Init => Seen /\ PackageIsPosted
  BY DEF Init, Seen, DoneMeansDelivered, NoRow, At, PackageIsPosted
<1>2. TypeOK => CountType
  BY TypeParts
<1> QED
  BY <1>1, <1>2, Invariant, TypeCorrect, SeenStep, PackageStep, PTL DEF Spec, TenureInv

\* A replica that moves joins the busy ones, stays or leaves them.
LEMMA BusyMoves ==
    ASSUME TypeOK, NEW w \in Workers, NEW step \in Steps,
           worker'[w].pc = step,
           \A v \in Workers \ {w} : worker'[v].pc = worker[v].pc
    PROVE  Busy' = IF step \in {"idle", "listed", "beaten"} THEN Busy \ {w} ELSE Busy \cup {w}
BY DEF Busy

\* A busy replica is the only one.
LEMMA Alone ==
    ASSUME Inv, LeaseCovers, NEW w \in Busy
    PROVE  Busy = {w}
<1>1. \A v \in Busy : row.by = v
  BY DEF Inv, Exclusive
<1> QED
  BY <1>1

\* Whether the tenure is unspent is a matter of its holder alone.
LEMMA UnspentIs ==
    ASSUME NEW w \in Workers
    PROVE  /\ Busy = {w} => (Unspent <=> worker[w].pc \in {"claimed", "ready"})
           /\ Busy' = {w} => (Unspent' <=> worker'[w].pc \in {"claimed", "ready"})
           /\ Busy = {} => ~Unspent
           /\ Busy' = {} => Unspent' = FALSE
           /\ Unspent \in BOOLEAN /\ Unspent' \in BOOLEAN
<1>1. Busy = {w} => (Unspent <=> worker[w].pc \in {"claimed", "ready"})
  BY DEF Busy, Unspent, At
<1>2. Busy' = {w} => (Unspent' <=> worker'[w].pc \in {"claimed", "ready"})
  BY DEF Busy, Unspent, At
<1>3. (Busy = {} => ~Unspent) /\ (Busy' = {} => ~Unspent')
  BY DEF Busy, Unspent, At
<1>4. Unspent \in BOOLEAN /\ Unspent' \in BOOLEAN
  BY Zenon DEF Unspent
<1>5. Busy' = {} => Unspent' = FALSE
  BY <1>3, <1>4
<1> QED
  BY <1>1, <1>2, <1>3, <1>4, <1>5

TenureVars == <<Busy, Unspent, posted, row.status = "done">>

\* A replica that holds nothing before and after its step does not touch the tenure.
LEMMA Outside ==
    ASSUME TypeOK, NEW w \in Workers, worker[w].pc \in {"idle", "listed", "beaten"},
           worker'[w].pc \in {"idle", "listed", "beaten"},
           \A v \in Workers \ {w} : worker'[v].pc = worker[v].pc,
           posted' = posted, row'.status = row.status
    PROVE  UNCHANGED TenureVars
<1>1. Busy' = Busy
  BY DEF Busy
<1>2. Unspent' <=> Unspent
  BY DEF Unspent, At
<1>3. Unspent' = Unspent
  BY <1>2 DEF Unspent
<1> QED
  BY <1>1, <1>3 DEF TenureVars

\* One that holds the upload may spend its tenure, and one that is through with it does
\* not begin again.
LEMMA Holding ==
    ASSUME TenureInv, LeaseCovers, NEW w \in Busy, NEW step \in Steps,
           worker'[w].pc = step, step \notin {"idle", "listed", "beaten"},
           \A v \in Workers \ {w} : worker'[v].pc = worker[v].pc,
           row'.status = row.status,
           \/ /\ posted' = posted
              /\ step \in {"claimed", "ready"} => worker[w].pc \in {"claimed", "ready"}
           \/ /\ posted' \in {posted, posted + 1}
              /\ worker[w].pc \in {"claimed", "ready"} /\ step \notin {"claimed", "ready"}
    PROVE  [Tenures!Spend]_TenureVars
<1>1. w \in Workers /\ TypeOK
  BY DEF Busy, TenureInv, Inv
<1>2. Busy = {w} /\ Busy' = {w}
  BY <1>1, Alone, BusyMoves DEF TenureInv
<1>3. /\ Unspent <=> worker[w].pc \in {"claimed", "ready"}
      /\ Unspent' <=> step \in {"claimed", "ready"}
      /\ Unspent \in BOOLEAN /\ Unspent' \in BOOLEAN
  BY <1>1, <1>2, UnspentIs
<1>4. (row'.status = "done") = (row.status = "done")
  OBVIOUS
<1>5. CASE Unspent /\ ~Unspent'
  <2>1. Unspent' = FALSE /\ posted' \in {posted, posted + 1}
    BY <1>3, <1>5
  <2> QED
    BY <1>2, <1>4, <1>5, <2>1 DEF Tenures!Spend
<1>6. CASE ~Unspent \/ Unspent'
  <2>1. /\ worker[w].pc \in {"claimed", "ready"} => step \in {"claimed", "ready"}
        /\ posted' = posted
    BY <1>3, <1>6
  <2>2. Unspent' = Unspent
    BY <1>3, <2>1
  <2> QED
    BY <1>2, <1>4, <2>1, <2>2 DEF TenureVars
<1> QED
  BY <1>5, <1>6

\* One that rests leaves the upload, if it held it.
LEMMA Leaving ==
    ASSUME TenureInv, LeaseCovers, NEW w \in Workers, Rest(w),
           posted' = posted, row'.status = "done" => row.status = "done",
           row.status = "done" => row'.status = "done"
    PROVE  [Tenures!Leave]_TenureVars
<1>1. /\ worker'[w].pc = "idle" /\ TypeOK
      /\ \A v \in Workers \ {w} : worker'[v].pc = worker[v].pc
  BY DEF Rest, TenureInv, Inv, TypeOK
<1>2. (row'.status = "done") = (row.status = "done")
  OBVIOUS
<1>3. CASE w \in Busy
  <2>1. Busy = {w} /\ Busy' = {}
    BY <1>1, <1>3, Alone, BusyMoves DEF TenureInv, Steps
  <2>2. Unspent' = FALSE
    BY <2>1, UnspentIs
  <2> QED
    BY <1>2, <2>1, <2>2 DEF Tenures!Leave
<1>4. CASE w \notin Busy
  <2>1. Busy' = Busy
    BY <1>1, <1>4, BusyMoves DEF Steps
  <2>2. Unspent' <=> Unspent
    BY <1>1, <1>4 DEF Unspent, At, Busy
  <2>3. Unspent' = Unspent
    BY <2>2 DEF Unspent
  <2> QED
    BY <1>2, <2>1, <2>3 DEF TenureVars
<1> QED
  BY <1>3, <1>4

\* Each step is one of the abstract tenure, or none.
LEMMA TenureStep ==
    ASSUME LeaseCovers, TenureInv, TenureInv', [Next]_vars
    PROVE  [Tenures!Next]_TenureVars
<1> USE DEF TenureInv
<1>1. TypeOK /\ TypeOK' /\ \A w \in Workers : worker[w].pc \in Steps /\ worker'[w].pc \in Steps
  BY DEF Inv, TypeOK
<1>2. CASE UNCHANGED <<worker, row, posted>>
  BY <1>2 DEF TenureVars, Busy, Unspent, At
<1>3. CASE LeaseExpires \/ RetryAfterPasses
  <2>1. /\ \A v \in Workers : worker'[v].pc = worker[v].pc
        /\ posted' = posted /\ row.status # "done" /\ row'.status # "done"
    BY <1>1, <1>3 DEF LeaseExpires, RetryAfterPasses, TypeOK, Row, env
  <2>2. Busy' = Busy /\ Unspent' = Unspent
    BY <2>1 DEF Busy, Unspent, At
  <2> QED
    BY <2>1, <2>2 DEF TenureVars
<1>4. ASSUME NEW w \in Workers,
             Work(w) \/ FetchFails(w) \/ DispatchFails(w) \/ RecordSuccessFails(w) \/ Crash(w)
      PROVE  [Tenures!Next]_TenureVars
  <2> USE <1>4
  <2>1. worker \in [Workers -> [pc : Steps, fresh : BOOLEAN]] /\ row \in Row
    BY <1>1 DEF TypeOK
  <2>2. ASSUME NEW step \in Steps, GoTo(w, step)
        PROVE  worker'[w].pc = step /\ \A v \in Workers \ {w} : worker'[v].pc = worker[v].pc
    BY <2>1, <2>2 DEF GoTo
  <2>3. CASE Poll(w) \/ (TryClaim(w) /\ GoTo(w, "beaten"))
    <3>1. /\ posted' = posted /\ worker[w].pc \in {"idle", "listed"}
          /\ GoTo(w, "listed") \/ GoTo(w, "beaten")
      BY <2>3 DEF Poll, TryClaim, At, env
    <3>2. row' = row
      BY <2>1, <2>3 DEF Poll, TryClaim, GoTo
    <3> QED
      BY <1>1, <2>2, <3>1, <3>2, Outside DEF Steps
  <2>4. CASE TryClaim(w) /\ Claimable(row) /\ ~GoTo(w, "beaten")
    <3>1. /\ row'.status = "claimed" /\ worker'[w].pc = "claimed" /\ posted' = posted
          /\ \A v \in Workers \ {w} : worker'[v].pc = worker[v].pc
      BY <2>1, <2>4 DEF TryClaim, env
    <3>2. Busy = {}
      BY <2>4 DEF Inv, Exclusive, Claimable
    <3>3. Busy' = {w}
      BY <1>1, <3>1, <3>2, BusyMoves DEF Steps
    <3>4. Unspent' = TRUE
      BY <3>1, <3>3, UnspentIs
    <3>5. (row.status = "done") = FALSE /\ (row'.status = "done") = FALSE
      BY <2>4, <3>1 DEF Claimable
    <3>6. Tenures!Take(w)
      BY <3>1, <3>2, <3>3, <3>4, <3>5 DEF Tenures!Take
    <3> QED
      BY <3>6 DEF Tenures!Next
  <2>5. CASE FetchStatus(w) \/ FetchFails(w) \/ Dispatch(w) \/ DispatchFails(w) \/ RecordSuccessFails(w)
    <3>1. PICK step \in Steps :
             /\ GoTo(w, step) /\ step \notin {"idle", "listed", "beaten"}
             /\ \/ /\ posted' = posted
                   /\ step \in {"claimed", "ready"} => worker[w].pc \in {"claimed", "ready"}
                \/ /\ posted' \in {posted, posted + 1}
                   /\ worker[w].pc \in {"claimed", "ready"} /\ step \notin {"claimed", "ready"}
      <4>1. CASE FetchStatus(w) \/ FetchFails(w)
        BY <4>1 DEF FetchStatus, FetchFails, Steps, At, env
      <4>2. CASE Dispatch(w)
        BY <4>2 DEF Dispatch, Steps, At
      <4>3. CASE DispatchFails(w)
        BY <4>3 DEF DispatchFails, Steps, At
      <4>4. CASE RecordSuccessFails(w)
        BY <4>4 DEF RecordSuccessFails, Steps, At, env
      <4> QED
        BY <2>5, <4>1, <4>2, <4>3, <4>4
    <3>2. w \in Busy /\ row' = row
      BY <2>5 DEF FetchStatus, FetchFails, Dispatch, DispatchFails, RecordSuccessFails, Busy, At
    <3>3. [Tenures!Spend]_TenureVars
      BY <2>2, <3>1, <3>2, Holding
    <3> QED
      BY <3>3 DEF Tenures!Next
  <2>6. CASE Beaten(w) \/ ReleaseClaim(w) \/ RecordError(w) \/ Crash(w)
    <3>1. Rest(w) /\ posted' = posted
      BY <2>6 DEF Beaten, ReleaseClaim, RecordError, Crash, env
    <3>2. /\ row'.status = "done" => row.status = "done"
          /\ row.status = "done" => row'.status = "done"
      <4>1. CASE Beaten(w) \/ Crash(w)
        BY <4>1 DEF Beaten, Crash
      <4>2. CASE ReleaseClaim(w)
        BY <4>2 DEF ReleaseClaim, NoRow
      <4>3. CASE RecordError(w)
        <5>1. row'.status = "error"
          BY <4>3 DEF RecordError, NoRow
        <5>2. w \in Busy
          BY <4>3 DEF RecordError, Busy, At
        <5>3. row.status = "claimed"
          BY <5>2 DEF Inv, Exclusive
        <5> QED
          BY <5>1, <5>3
      <4> QED
        BY <2>6, <4>1, <4>2, <4>3
    <3>3. [Tenures!Leave]_TenureVars
      BY <3>1, <3>2, Leaving
    <3> QED
      BY <3>3 DEF Tenures!Next
  <2>7. CASE RecordSuccess(w)
    <3>1. /\ At(w, "posted") \/ At(w, "packaged")
          /\ Rest(w) /\ posted' = posted /\ row'.status = "done"
      BY <2>7 DEF RecordSuccess, NoRow
    <3>2. w \in Busy /\ worker[w].pc \notin {"claimed", "ready"} /\ posted > 0
      BY <3>1 DEF Busy, At, Seen, Delivered, PackageIsPosted
    <3>3. /\ worker'[w].pc = "idle" /\ \A v \in Workers \ {w} : worker'[v].pc = worker[v].pc
      BY <2>1, <3>1 DEF Rest
    <3>4. Busy = {w} /\ Busy' = {}
      BY <1>1, <3>2, <3>3, Alone, BusyMoves DEF Steps
    <3>5. ~Unspent /\ Unspent' = FALSE /\ Unspent \in BOOLEAN
      BY <3>2, <3>4, UnspentIs
    <3>6. Tenures!Close
      BY <3>1, <3>2, <3>4, <3>5 DEF Tenures!Close
    <3> QED
      BY <3>6 DEF Tenures!Next
  <2> QED
    BY <2>3, <2>4, <2>5, <2>6, <2>7 DEF Work, TryClaim
<1> QED
  BY <1>2, <1>3, <1>4 DEF Next, vars, PackageApproved, PackageRejected, Reclassified, StartEstimation,
     RequestDispatch

\* While leases outlast runs, the claim table keeps the promise of Tenure: one holder at a
\* time, at most one attempt to post per tenure, and an upload that is closed by its holder
\* after an item was posted, once and for all.
THEOREM TenureProved ==
    ASSUME LeaseCovers
    PROVE  Spec => KeepsTenure
<1>1. Init => Tenures!Init
  BY DEF Init, Tenures!Init, Busy, Unspent, At, NoRow
<1>2. TenureInv /\ TenureInv' /\ [Next]_vars => [Tenures!Next]_(Tenures!vars)
  BY TenureStep DEF Tenures!vars, TenureVars
<1> QED
  BY <1>1, <1>2, TenureInvariant, PTL DEF Spec, KeepsTenure, Tenures!Spec
=============================================================================

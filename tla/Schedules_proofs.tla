-------------------------- MODULE Schedules_proofs --------------------------
(***************************************************************************)
(* Proofs about module Schedules, for any schedules, passes of the         *)
(* scheduler, jobs and faults.                                             *)
(***************************************************************************)
EXTENDS Schedules, TLAPS, FiniteSetTheorems, SequenceTheorems

USE SchedulesAssumption

-----------------------------------------------------------------------------
(* Jobs.  That a job runs once is no invariant by itself: what the executions of
   a job are doing has to agree with the status of its row, and the wakes to come
   have to be counted with those given. *)

Those(doing, what) == {e \in Executions : doing[e] = what}

\* Each wake and each run under way is a run of its own, and only what read the job as
\* queued will run it.
Counted(job) ==
    /\ job.runs = 0 <=> job.status = "queued"
    /\ job.wakes + Cardinality(Those(job.doing, "running")) <= job.runs
    /\ job.runs + Cardinality(Those(job.doing, "loaded")) <= Cardinality(Executions)

\* At most one execution is past its first step.
Single(job) ==
    /\ job.runs <= 1
    /\ job.wakes = IF Closed(job) THEN 1 ELSE 0
    /\ \A e \in Executions :
          /\ job.doing[e] = "loaded" => job.status = "queued"
          /\ job.doing[e] = "running" => job.status = "running"
          /\ \A f \in Executions :
                job.doing[e] \in {"loaded", "running"} /\ job.doing[f] = job.doing[e] => e = f

JobOK(job) == Counted(job) /\ (~job.doubled => Single(job))

\* What a step may do to a job.
Grows(new, job) == Advances(new, job) /\ (~job.doubled => Follows(new, job))

JobsInv == jobs \in Seq(Job) /\ \A j \in DOMAIN jobs : JobOK(jobs[j])

\* A new job, and a row rewritten with a job in order, keep the table in order.
LEMMA JobsKept ==
    ASSUME JobsInv, NEW job \in Job, JobOK(job)
    PROVE  /\ jobs' = Append(jobs, job) => JobsInv' /\ DOMAIN jobs' = 1 .. Len(jobs) + 1
           /\ \A j \in DOMAIN jobs :
                 jobs' = [jobs EXCEPT ![j] = job] => JobsInv' /\ DOMAIN jobs' = DOMAIN jobs
<1>1. jobs \in Seq(Job) /\ Len(jobs) \in Nat /\ DOMAIN jobs = 1 .. Len(jobs)
  BY LenProperties DEF JobsInv
<1>2. ASSUME jobs' = Append(jobs, job)
      PROVE  JobsInv' /\ DOMAIN jobs' = 1 .. Len(jobs) + 1
  <2>1. /\ jobs' \in Seq(Job) /\ Len(jobs') = Len(jobs) + 1
        /\ \A j \in 1 .. Len(jobs) : jobs'[j] = jobs[j]
        /\ jobs'[Len(jobs) + 1] = job
    BY <1>1, <1>2, AppendProperties
  <2>2. DOMAIN jobs' = 1 .. Len(jobs')
    BY <2>1, LenProperties
  <2> QED
    BY <1>1, <2>1, <2>2 DEF JobsInv
<1>3. ASSUME NEW j \in DOMAIN jobs, jobs' = [jobs EXCEPT ![j] = job]
      PROVE  JobsInv' /\ DOMAIN jobs' = DOMAIN jobs
  <2>1. jobs' \in Seq(Job)
    BY <1>1, <1>3, ExceptSeq
  <2> QED
    BY <1>1, <1>3, <2>1 DEF JobsInv
<1> QED
  BY <1>2, <1>3

\* What happens to the jobs in a step: nothing, a new row, or a row rewritten by what
\* follows it.
JobsMove ==
    \/ jobs' = jobs
    \/ \E job \in Job : JobOK(job) /\ jobs' = Append(jobs, job)
    \/ \E job \in Job, j \in DOMAIN jobs :
          JobOK(job) /\ Grows(job, jobs[j]) /\ jobs' = [jobs EXCEPT ![j] = job]

Put(doing, e, what) == [doing EXCEPT ![e] = what]

\* What one execution does adds it to one set of executions and takes it from another.
LEMMA DoingMoves ==
    ASSUME NEW doing \in [Executions -> {"none", "launched", "loaded", "running"}],
           NEW e \in Executions, NEW what \in {"none", "launched", "loaded", "running"},
           NEW w \in {"loaded", "running"}
    PROVE  /\ Put(doing, e, what) \in [Executions -> {"none", "launched", "loaded", "running"}]
           /\ Cardinality(Those(doing, w)) \in Nat
           /\ Cardinality(Those(Put(doing, e, what), w)) \in 0 .. Cardinality(Executions)
           /\ Cardinality(Those(Put(doing, e, what), w)) = Cardinality(Those(doing, w))
                + (IF what = w THEN 1 ELSE 0) - (IF doing[e] = w THEN 1 ELSE 0)
<1> DEFINE new == [doing EXCEPT ![e] = what]
<1>1. IsFiniteSet(Those(doing, w)) /\ IsFiniteSet(Those(new, w))
  BY FS_Subset DEF Those
<1>2. Cardinality(Those(doing, w)) \in Nat /\ Cardinality(Those(new, w)) <= Cardinality(Executions)
  BY <1>1, FS_CardinalityType, FS_Subset DEF Those
<1>3. Cardinality(Those(new, w)) \in Nat
  BY <1>1, FS_CardinalityType
<1>4. ASSUME what = w, doing[e] # w
      PROVE  Cardinality(Those(new, w)) = Cardinality(Those(doing, w)) + 1
  <2>1. Those(new, w) = Those(doing, w) \cup {e} /\ e \notin Those(doing, w)
    BY <1>4 DEF Those
  <2> HIDE DEF new
  <2> QED
    BY <1>1, <2>1, FS_AddElement
<1>5. ASSUME what # w, doing[e] = w
      PROVE  Cardinality(Those(new, w)) = Cardinality(Those(doing, w)) - 1
  <2>1. Those(new, w) = Those(doing, w) \ {e} /\ e \in Those(doing, w)
    BY <1>5 DEF Those
  <2> HIDE DEF new
  <2> QED
    BY <1>1, <2>1, FS_RemoveElement
<1>6. ASSUME (what = w) <=> (doing[e] = w)
      PROVE  Those(new, w) = Those(doing, w)
  BY <1>6 DEF Those
<1>7. new \in [Executions -> {"none", "launched", "loaded", "running"}]
  OBVIOUS
<1> HIDE DEF new
<1>8. Cardinality(Those(new, w)) = Cardinality(Those(doing, w))
        + (IF what = w THEN 1 ELSE 0) - (IF doing[e] = w THEN 1 ELSE 0)
  BY <1>2, <1>4, <1>5, <1>6
<1>9. Cardinality(Executions) \in Nat
  BY FS_CardinalityType
<1>10. Cardinality(Those(new, w)) \in 0 .. Cardinality(Executions)
  BY <1>2, <1>3, <1>9
<1> QED
  BY <1>2, <1>7, <1>8, <1>10 DEF new, Put

\* A new row is a job in order.
LEMMA NewJobOK ==
    ASSUME NEW s \in Rows \cup {NoRow}
    PROVE  NewJob(s) \in Job /\ JobOK(NewJob(s)) /\ NewJob(s).of = s /\ NewJob(s).status = "queued"
<1> DEFINE new == NewJob(s)
<1>1. new \in Job
  BY DEF NewJob, Job
<1>2. Those(new.doing, "running") = {} /\ Those(new.doing, "loaded") = {}
  BY DEF NewJob, Those
<1>3. Cardinality({}) = 0 /\ Cardinality(Executions) \in Nat
  BY FS_EmptySet, FS_CardinalityType
<1>4. Counted(new)
  BY <1>2, <1>3 DEF Counted, NewJob
<1>5. Single(new)
  BY DEF Single, NewJob, Closed
<1> QED
  BY <1>1, <1>4, <1>5 DEF JobOK, NewJob

\* What an execution does to its job leaves a job in order, and adds to it.
LEMMA JobMoves ==
    ASSUME NEW job \in Job, JobOK(job), NEW e \in Executions
    PROVE  LET before == job.doing[e]
           IN  /\ before = "none" =>
                     LET new == [job EXCEPT !.doing[e] = "launched"]
                     IN  new \in Job /\ JobOK(new) /\ Grows(new, job)
               /\ LET new == [job EXCEPT !.doing[e] = "none"]
                  IN  new \in Job /\ JobOK(new) /\ Grows(new, job)
               /\ before = "launched" /\ job.status = "queued" =>
                     LET new == [job EXCEPT !.doing[e] = "loaded",
                                  !.doubled = @ \/ \E f \in Executions : job.doing[f] = "loaded"]
                     IN  new \in Job /\ JobOK(new) /\ Grows(new, job)
               /\ before = "loaded" =>
                     LET new == [job EXCEPT !.status = "running", !.doing[e] = "running",
                                            !.runs = @ + 1]
                     IN  new \in Job /\ JobOK(new) /\ Grows(new, job)
               /\ before = "running" =>
                     \A status \in {"ok", "error"} :
                        LET new == [job EXCEPT !.status = status, !.doing[e] = "none",
                                               !.wakes = @ + 1]
                        IN  new \in Job /\ JobOK(new) /\ Grows(new, job)
<1> DEFINE Set(what) == Put(job.doing, e, what)
           Running(what) == Cardinality(Those(Set(what), "running"))
           Loading(what) == Cardinality(Those(Set(what), "loaded"))
<1>1. /\ job.doing \in [Executions -> {"none", "launched", "loaded", "running"}]
      /\ job.runs \in Nat /\ job.wakes \in Nat /\ job.doubled \in BOOLEAN
      /\ job.status \in {"queued", "running", "ok", "error"} /\ job.of \in Rows \cup {NoRow}
  BY DEF Job
<1>2. /\ Cardinality(Those(job.doing, "running")) \in Nat
      /\ Cardinality(Those(job.doing, "loaded")) \in Nat
      /\ Cardinality(Executions) \in Nat
      /\ \A what \in {"none", "launched", "loaded", "running"} :
            /\ Set(what) \in [Executions -> {"none", "launched", "loaded", "running"}]
            /\ Running(what) \in Nat /\ Loading(what) \in Nat
            /\ Loading(what) <= Cardinality(Executions)
            /\ Running(what) = Cardinality(Those(job.doing, "running"))
                 + (IF what = "running" THEN 1 ELSE 0) - (IF job.doing[e] = "running" THEN 1 ELSE 0)
            /\ Loading(what) = Cardinality(Those(job.doing, "loaded"))
                 + (IF what = "loaded" THEN 1 ELSE 0) - (IF job.doing[e] = "loaded" THEN 1 ELSE 0)
  <2>1. /\ Cardinality(Those(job.doing, "running")) \in Nat
        /\ Cardinality(Those(job.doing, "loaded")) \in Nat
    BY <1>1, DoingMoves
  <2>2. Cardinality(Executions) \in Nat
    BY FS_CardinalityType
  <2>3. ASSUME NEW what \in {"none", "launched", "loaded", "running"}
        PROVE  /\ Set(what) \in [Executions -> {"none", "launched", "loaded", "running"}]
               /\ Running(what) \in Nat
               /\ Running(what) = Cardinality(Those(job.doing, "running"))
                    + (IF what = "running" THEN 1 ELSE 0)
                    - (IF job.doing[e] = "running" THEN 1 ELSE 0)
    <3>1. job.doing \in [Executions -> {"none", "launched", "loaded", "running"}]
      BY <1>1
    <3>2. "running" \in {"loaded", "running"}
      OBVIOUS
    <3> HIDE DEF Loading
    <3> QED
      BY <3>1, <3>2, DoingMoves
  <2>4. ASSUME NEW what \in {"none", "launched", "loaded", "running"}
        PROVE  /\ Loading(what) \in Nat /\ Loading(what) <= Cardinality(Executions)
               /\ Loading(what) = Cardinality(Those(job.doing, "loaded"))
                    + (IF what = "loaded" THEN 1 ELSE 0)
                    - (IF job.doing[e] = "loaded" THEN 1 ELSE 0)
    <3>1. job.doing \in [Executions -> {"none", "launched", "loaded", "running"}]
      BY <1>1
    <3>2. "loaded" \in {"loaded", "running"} /\ Cardinality(Executions) \in Nat
      BY <2>2
    <3>3. Loading(what) \in 0 .. Cardinality(Executions)
      BY <3>1, <3>2, DoingMoves
    <3>4. Loading(what) = Cardinality(Those(job.doing, "loaded"))
            + (IF what = "loaded" THEN 1 ELSE 0)
            - (IF job.doing[e] = "loaded" THEN 1 ELSE 0)
      BY <3>1, <3>2, DoingMoves
    <3> HIDE DEF Loading
    <3> QED
      BY <3>2, <3>3, <3>4
  <2> HIDE DEF Set, Running, Loading
  <2> QED
    BY <2>1, <2>2, <2>3, <2>4
<1>3. ASSUME NEW what \in {"none", "launched"},
             what = "launched" => job.doing[e] = "none"
      PROVE  LET new == [job EXCEPT !.doing[e] = what]
             IN  new \in Job /\ JobOK(new) /\ Grows(new, job)
  <2> DEFINE new == [job EXCEPT !.doing[e] = what]
  <2>1. /\ new.doing = Set(what) /\ new.status = job.status /\ new.runs = job.runs
        /\ new.wakes = job.wakes /\ new.doubled = job.doubled /\ new.of = job.of
        /\ new \in Job
    BY <1>1 DEF Job, Put
  <2>2. /\ \A f \in Executions : f # e => new.doing[f] = job.doing[f]
        /\ new.doing[e] = what
    BY <1>1, <2>1 DEF Put
  <2> HIDE DEF new, Set
  <2>3. Counted(new)
    BY <1>1, <1>2, <2>1 DEF JobOK, Counted
  <2>4. ~new.doubled => Single(new)
    BY <2>1, <2>2 DEF JobOK, Single, Closed
  <2>5. Grows(new, job)
    BY <1>1, <2>1 DEF Grows, Advances, Follows
  <2>6. JobOK(new)
    BY <2>3, <2>4 DEF JobOK
  <2> QED
    BY <2>1, <2>5, <2>6 DEF new
<1>4. ASSUME job.doing[e] = "launched", job.status = "queued"
      PROVE  LET new == [job EXCEPT !.doing[e] = "loaded",
                          !.doubled = @ \/ \E f \in Executions : job.doing[f] = "loaded"]
             IN  new \in Job /\ JobOK(new) /\ Grows(new, job)
  <2> DEFINE twice == \E f \in Executions : job.doing[f] = "loaded"
             new == [job EXCEPT !.doing[e] = "loaded", !.doubled = @ \/ twice]
  <2>1. /\ new.doing = Set("loaded") /\ new.status = job.status /\ new.runs = job.runs
        /\ new.wakes = job.wakes /\ new.doubled = (job.doubled \/ twice) /\ new.of = job.of
    BY <1>1 DEF Job, Put
  <2>2. new \in Job
    BY <1>1 DEF Job, Put
  <2>3. /\ \A f \in Executions : f # e => new.doing[f] = job.doing[f]
        /\ new.doing[e] = "loaded"
    BY <1>1, <2>1 DEF Put
  <2> HIDE DEF new, Set
  <2>4. Counted(new)
    <3>1. job.runs = 0
      BY <1>4 DEF JobOK, Counted
    <3> QED
      BY <1>1, <1>2, <1>4, <2>1, <3>1 DEF JobOK, Counted
  <2>5. ~new.doubled => Single(new)
    BY <1>4, <2>1, <2>3 DEF JobOK, Single, Closed
  <2>6. Grows(new, job)
    BY <1>1, <2>1 DEF Grows, Advances, Follows
  <2>7. JobOK(new)
    BY <2>4, <2>5 DEF JobOK
  <2> QED
    BY <2>2, <2>6, <2>7 DEF new
<1>5. ASSUME job.doing[e] = "loaded"
      PROVE  LET new == [job EXCEPT !.status = "running", !.doing[e] = "running", !.runs = @ + 1]
             IN  new \in Job /\ JobOK(new) /\ Grows(new, job)
  <2> DEFINE new == [job EXCEPT !.status = "running", !.doing[e] = "running", !.runs = @ + 1]
  <2>1. /\ new.doing = Set("running") /\ new.status = "running" /\ new.runs = job.runs + 1
        /\ new.wakes = job.wakes /\ new.doubled = job.doubled /\ new.of = job.of
    BY <1>1 DEF Job, Put
  <2>2. new \in Job
    <3> DEFINE d == Set("running")
               n == job.runs + 1
    <3>1. d \in [Executions -> {"none", "launched", "loaded", "running"}] /\ n \in Nat
      BY <1>1 DEF Put
    <3>2. new = [job EXCEPT !.status = "running", !.doing = d, !.runs = n]
      BY <1>1 DEF Job, Put
    <3> HIDE DEF d, n, new, Set
    <3>3. [job EXCEPT !.status = "running", !.doing = d, !.runs = n] \in Job
      BY <3>1 DEF Job
    <3> QED
      BY <3>2, <3>3
  <2>3. /\ \A f \in Executions : f # e => new.doing[f] = job.doing[f]
        /\ new.doing[e] = "running"
    BY <1>1, <2>1 DEF Put
  <2> HIDE DEF new, Set
  <2>4. Counted(new)
    BY <1>1, <1>2, <1>5, <2>1 DEF JobOK, Counted
  <2>5. ~job.doubled => job.status = "queued" /\ job.runs = 0 /\ job.wakes = 0
    BY <1>5 DEF JobOK, Single, Counted, Closed
  <2>6. ~new.doubled => Single(new)
    BY <1>1, <1>5, <2>1, <2>3, <2>5 DEF JobOK, Single, Closed
  <2>7. Grows(new, job)
    BY <1>1, <2>1, <2>5 DEF Grows, Advances, Follows
  <2>8. JobOK(new)
    BY <2>4, <2>6 DEF JobOK
  <2> QED
    BY <2>2, <2>7, <2>8 DEF new
<1>6. ASSUME job.doing[e] = "running", NEW status \in {"ok", "error"}
      PROVE  LET new == [job EXCEPT !.status = status, !.doing[e] = "none", !.wakes = @ + 1]
             IN  new \in Job /\ JobOK(new) /\ Grows(new, job)
  <2> DEFINE new == [job EXCEPT !.status = status, !.doing[e] = "none", !.wakes = @ + 1]
  <2>1. /\ new.doing = Set("none") /\ new.status = status /\ new.runs = job.runs
        /\ new.wakes = job.wakes + 1 /\ new.doubled = job.doubled /\ new.of = job.of
    BY <1>1 DEF Job, Put
  <2>2. new \in Job
    <3> DEFINE d == Set("none")
               n == job.wakes + 1
    <3>1. d \in [Executions -> {"none", "launched", "loaded", "running"}] /\ n \in Nat
      BY <1>1 DEF Put
    <3>2. new = [job EXCEPT !.status = status, !.doing = d, !.wakes = n]
      BY <1>1 DEF Job, Put
    <3> HIDE DEF d, n, new, Set
    <3>3. [job EXCEPT !.status = status, !.doing = d, !.wakes = n] \in Job
      BY <3>1 DEF Job
    <3> QED
      BY <3>2, <3>3
  <2>3. /\ \A f \in Executions : f # e => new.doing[f] = job.doing[f]
        /\ new.doing[e] = "none"
    BY <1>1, <2>1 DEF Put
  <2> HIDE DEF new, Set
  <2>4. job.runs # 0
    BY <1>1, <1>2, <1>6 DEF JobOK, Counted
  <2>5. Counted(new)
    BY <1>1, <1>2, <1>6, <2>1, <2>4 DEF JobOK, Counted
  <2>6. ~job.doubled => job.status = "running" /\ job.wakes = 0
    BY <1>6 DEF JobOK, Single, Closed
  <2>7. ~new.doubled => Single(new)
    BY <1>1, <1>6, <2>1, <2>3, <2>6 DEF JobOK, Single, Closed
  <2>8. Grows(new, job)
    BY <1>1, <2>1, <2>4, <2>6 DEF Grows, Advances, Follows, Closed, JobOK, Counted
  <2>9. JobOK(new)
    BY <2>5, <2>7 DEF JobOK
  <2> QED
    BY <2>2, <2>8, <2>9 DEF new
<1> QED
  BY <1>3, <1>4, <1>5, <1>6

\* Executions read, claim, close and abandon jobs, and passes launch them, in order.
LEMMA JobsStep ==
    ASSUME JobsInv, TypeOK, [Next]_vars
    PROVE  JobsMove
<1> USE DEF JobsMove
<1>1. \A j \in DOMAIN jobs : jobs[j] \in Job /\ JobOK(jobs[j])
  BY LenProperties, ElementOfSeq DEF JobsInv
<1>2. CASE Delegate
  <2>1. NewJob(NoRow) \in Job /\ JobOK(NewJob(NoRow))
    BY NewJobOK
  <2>2. ASSUME NEW e \in Executions
        PROVE  LET new == [NewJob(NoRow) EXCEPT !.doing[e] = "launched"] IN new \in Job /\ JobOK(new)
    <3>1. NewJob(NoRow).doing[e] = "none"
      BY DEF NewJob
    <3> QED
      BY <2>1, <3>1, JobMoves
  <2> QED
    BY <1>2, <2>1, <2>2 DEF Delegate
<1>3. ASSUME NEW p \in Passes, NEW s \in Rows, CreateJob(p, s)
      PROVE  JobsMove
  BY <1>3, NewJobOK DEF CreateJob
<1>4. ASSUME NEW j \in DOMAIN jobs, NEW job \in Job, JobOK(job), Grows(job, jobs[j]),
             jobs' = [jobs EXCEPT ![j] = job]
      PROVE  JobsMove
  BY <1>4
<1>5. ASSUME NEW j \in DOMAIN jobs, NEW e \in Executions, Launch(j, e)
      PROVE  JobsMove
  <2> DEFINE new == [jobs[j] EXCEPT !.doing[e] = "launched"]
  <2>1. new \in Job /\ JobOK(new) /\ Grows(new, jobs[j])
    BY <1>1, <1>5, JobMoves DEF Launch, Does
  <2>2. jobs' = [jobs EXCEPT ![j] = new]
    BY <1>5 DEF Launch
  <2> HIDE DEF new
  <2> QED
    BY <1>4, <2>1, <2>2
<1>6. ASSUME NEW p \in Passes, Dispatch(p)
      PROVE  JobsMove
  BY <1>5, <1>6 DEF Dispatch, TypeOK
<1>7. ASSUME NEW j \in DOMAIN jobs, NEW e \in Executions, LoadJob(j, e) \/ JobDies(j, e)
      PROVE  JobsMove
  <2>1. CASE jobs' = [jobs EXCEPT ![j].doing[e] = "none"]
    <3> DEFINE new == [jobs[j] EXCEPT !.doing[e] = "none"]
    <3>1. new \in Job /\ JobOK(new) /\ Grows(new, jobs[j])
      BY <1>1, JobMoves
    <3>2. jobs' = [jobs EXCEPT ![j] = new]
      BY <2>1
    <3> HIDE DEF new
    <3> QED
      BY <1>4, <3>1, <3>2
  <2>2. CASE LoadJob(j, e) /\ jobs[j].status = "queued"
    <3> DEFINE new == [jobs[j] EXCEPT !.doing[e] = "loaded",
                          !.doubled = @ \/ \E f \in Executions : jobs[j].doing[f] = "loaded"]
    <3>1. new \in Job /\ JobOK(new) /\ Grows(new, jobs[j])
      BY <1>1, <2>2, JobMoves DEF LoadJob, Does
    <3>2. jobs' = [jobs EXCEPT ![j] = new]
      BY <2>2 DEF LoadJob, Loaded, Does
    <3> HIDE DEF new
    <3> QED
      BY <1>4, <3>1, <3>2
  <2> QED
    BY <1>7, <2>1, <2>2 DEF LoadJob, JobDies
<1>8. ASSUME NEW j \in DOMAIN jobs, NEW e \in Executions, ClaimJob(j, e)
      PROVE  JobsMove
  <2> DEFINE new == [jobs[j] EXCEPT !.status = "running", !.doing[e] = "running", !.runs = @ + 1]
  <2>1. new \in Job /\ JobOK(new) /\ Grows(new, jobs[j])
    BY <1>1, <1>8, JobMoves DEF ClaimJob, Does
  <2>2. jobs' = [jobs EXCEPT ![j] = new]
    BY <1>8 DEF ClaimJob
  <2> HIDE DEF new
  <2> QED
    BY <1>4, <2>1, <2>2
<1>9. ASSUME NEW j \in DOMAIN jobs, NEW e \in Executions, FinishJob(j, e)
      PROVE  JobsMove
  <2>1. PICK status \in {"ok", "error"} :
          jobs' = [jobs EXCEPT ![j].status = status, ![j].doing[e] = "none", ![j].wakes = @ + 1]
    BY <1>9 DEF FinishJob
  <2> DEFINE new == [jobs[j] EXCEPT !.status = status, !.doing[e] = "none", !.wakes = @ + 1]
  <2>2. new \in Job /\ JobOK(new) /\ Grows(new, jobs[j])
    BY <1>1, <1>9, JobMoves DEF FinishJob, Does
  <2>3. jobs' = [jobs EXCEPT ![j] = new]
    BY <2>1
  <2> HIDE DEF new
  <2> QED
    BY <1>4, <2>2, <2>3
<1>10. ASSUME NEW j \in DOMAIN jobs, Relaunch(j)
       PROVE  JobsMove
  BY <1>5, <1>10 DEF Relaunch
<1> QED
  BY <1>2, <1>3, <1>6, <1>7, <1>8, <1>9, <1>10
     DEF Next, Advance, Execute, vars, Clock, Create, Patch, Delete, ListDue, TakeDue, CommitClaim,
         CreateJobRefused, BookFired, BookFailed, BookFiredFails, Crash

-----------------------------------------------------------------------------
(* Types, with what each step of a pass says about the schedule it is firing. *)

\* What happens to a job disturbs nothing else.
LEMMA JobsOnly ==
    ASSUME NEW j \in DOMAIN jobs, Relaunch(j) \/ \E e \in Executions : Execute(j, e)
    PROVE  UNCHANGED <<now, row, pass, arms, claims, told>> /\ (faults' = faults \/ Fault)
BY DEF Relaunch, Execute, LoadJob, ClaimJob, FinishJob, JobDies

RowType ==
    /\ now \in Nat /\ faults \in 0 .. MaxFaults
    /\ row \in [Rows -> [here : BOOLEAN, enabled : BOOLEAN, next : Nat, runAt : Nat]]

BookType ==
    /\ arms \in [Rows -> Nat] /\ claims \in [Rows -> Nat]
    /\ told \in [Rows -> [fired : Nat, failed : Nat]]

Pass == [pc : {"idle", "claiming", "firing", "created", "dispatched", "failing"},
         at : Nat, todo : SUBSET Rows, row : Rows \cup {NoRow}, job : Nat]

PassOK(p) ==
    /\ At(p, "idle") => pass[p].todo = {}
    /\ pass[p].pc \in {"idle", "claiming", "firing"} => pass[p].row = NoRow
    /\ pass[p].pc \in {"created", "dispatched", "failing"} => pass[p].row \in Rows \ pass[p].todo
    /\ At(p, "created") => pass[p].job \in DOMAIN jobs

PassType == pass \in [Passes -> Pass] /\ \A p \in Passes : PassOK(p)

Typed == RowType /\ BookType /\ PassType /\ JobsInv

\* The parts make the type invariant.
LEMMA TypedIsTypeOK == Typed => TypeOK
BY DEF Typed, RowType, BookType, PassType, PassOK, Pass, JobsInv, TypeOK, At

\* The clock and the rows keep their types.
LEMMA RowStep == RowType /\ PassType /\ [Next]_vars => RowType'
<1> SUFFICES ASSUME RowType, PassType, [Next]_vars
             PROVE  RowType'
  OBVIOUS
<1> USE DEF RowType
<1>1. CASE Clock
  BY <1>1 DEF Clock
<1>2. CASE Delegate
  BY <1>2 DEF Delegate, Fault
<1>3. ASSUME NEW s \in Rows, NEW enabled \in BOOLEAN, NEW runAt \in Nat, Arm(s, enabled, runAt),
             now' = now, faults' = faults
      PROVE  RowType'
  BY <1>3 DEF Arm, NextRun
<1>4. ASSUME NEW s \in Rows, Create(s)
      PROVE  RowType'
  BY <1>3, <1>4 DEF Create
<1>5. ASSUME NEW s \in Rows, Patch(s)
      PROVE  RowType'
  <2>1. CASE row' = [row EXCEPT ![s].enabled = FALSE]
    BY <1>5, <2>1 DEF Patch
  <2>2. CASE \E enabled \in BOOLEAN, delay \in Delays : Arm(s, enabled, now + delay)
    BY <1>3, <1>5, <2>2 DEF Patch
  <2>3. CASE Arm(s, TRUE, row[s].runAt)
    BY <1>3, <1>5, <2>3 DEF Patch
  <2> QED
    BY <1>5, <2>1, <2>2, <2>3 DEF Patch
<1>6. ASSUME NEW s \in Rows, Delete(s)
      PROVE  RowType'
  BY <1>6 DEF Delete, Absent
<1>7. ASSUME NEW p \in Passes, CommitClaim(p)
      PROVE  RowType'
  BY <1>7 DEF CommitClaim, NextRun, PassType, Pass
<1>8. ASSUME NEW p \in Passes, BookFired(p)
      PROVE  RowType'
  BY <1>8 DEF BookFired, Absent
<1>9. ASSUME NEW p \in Passes,
             \/ ListDue(p) \/ Dispatch(p) \/ BookFailed(p) \/ BookFiredFails(p) \/ Crash(p)
             \/ \E s \in Rows : CreateJob(p, s) \/ CreateJobRefused(p, s)
      PROVE  row' = row /\ now' = now /\ (faults' = faults \/ Fault)
  BY <1>9 DEF ListDue, TakeDue, Dispatch, BookFailed, BookFiredFails, Crash, CreateJob, CreateJobRefused
<1>10. ASSUME NEW j \in DOMAIN jobs, Relaunch(j) \/ \E e \in Executions : Execute(j, e)
       PROVE  row' = row /\ now' = now /\ (faults' = faults \/ Fault)
  BY <1>10, JobsOnly
<1>11. ASSUME row' = row /\ now' = now /\ (faults' = faults \/ Fault)
       PROVE  RowType'
  BY <1>11 DEF Fault
<1>12. CASE UNCHANGED vars
  BY <1>12 DEF vars
<1> HIDE DEF RowType
<1> QED
  BY <1>1, <1>2, <1>4, <1>5, <1>6, <1>7, <1>8, <1>9, <1>10, <1>11, <1>12 DEF Next, Advance

\* So do the books of what was armed, claimed and told.
LEMMA BookStep == BookType /\ PassType /\ [Next]_vars => BookType'
<1> SUFFICES ASSUME BookType, PassType, [Next]_vars
             PROVE  BookType'
  OBVIOUS
<1> USE DEF BookType
<1>1. CASE UNCHANGED <<arms, claims, told>>
  BY <1>1
<1>2. ASSUME NEW s \in Rows, Create(s) \/ Patch(s)
      PROVE  BookType'
  BY <1>2 DEF Create, Patch, Arm
<1>3. ASSUME NEW p \in Passes, CommitClaim(p)
      PROVE  BookType'
  BY <1>3 DEF CommitClaim
<1>4. ASSUME NEW p \in Passes, BookFired(p) \/ BookFailed(p)
      PROVE  BookType'
  <2>1. pass[p].row \in Rows
    BY <1>4 DEF BookFired, BookFailed, PassType, PassOK, At
  <2> QED
    BY <1>4, <2>1 DEF BookFired, BookFailed
<1> HIDE DEF BookType
<1> QED
  BY <1>1, <1>2, <1>3, <1>4, JobsOnly
     DEF Next, Advance, vars, Clock, Delegate, Delete, ListDue, TakeDue, CreateJob, CreateJobRefused,
         Dispatch, BookFiredFails, Crash

\* And every pass is at one of its steps with the schedule that step needs.
LEMMA PassStep == Typed /\ [Next]_vars => PassType'
<1> SUFFICES ASSUME Typed, [Next]_vars
             PROVE  PassType'
  OBVIOUS
<1>1. JobsMove
  BY JobsStep, TypedIsTypeOK DEF Typed
<1>2. DOMAIN jobs \subseteq DOMAIN jobs' /\ Len(jobs) \in Nat /\ DOMAIN jobs = 1 .. Len(jobs)
  <2>1. Len(jobs) \in Nat /\ DOMAIN jobs = 1 .. Len(jobs)
    BY LenProperties DEF Typed, JobsInv
  <2> QED
    BY <1>1, <2>1, JobsKept DEF JobsMove, Typed
<1>3. ASSUME pass' = pass
      PROVE  PassType'
  BY <1>2, <1>3 DEF PassOK, At, Typed, PassType
<1>4. ASSUME NEW p \in Passes, NEW new \in Pass, pass' = [pass EXCEPT ![p] = new], PassOK(p)'
      PROVE  PassType'
  BY <1>2, <1>4 DEF PassOK, At, Typed, PassType
<1>5. ASSUME NEW p \in Passes, ListDue(p)
      PROVE  PassType'
  <2>1. PICK chosen \in SUBSET Rows :
          pass' = [pass EXCEPT ![p] = [Idle EXCEPT !.pc = "claiming", !.at = now, !.todo = chosen]]
    BY <1>5 DEF ListDue, TakeDue
  <2> DEFINE new == [Idle EXCEPT !.pc = "claiming", !.at = now, !.todo = chosen]
  <2>2. new \in Pass
    BY DEF Idle, Pass, Typed, RowType
  <2>3. new.pc = "claiming" /\ new.row = NoRow
    BY DEF Idle
  <2> HIDE DEF new
  <2>4. pass' = [pass EXCEPT ![p] = new] /\ pass'[p] = new
    BY <2>1 DEF new, Typed, PassType
  <2> QED
    BY <1>4, <2>2, <2>3, <2>4 DEF PassOK, At
<1>6. ASSUME NEW p \in Passes, CommitClaim(p)
      PROVE  PassType'
  <2> DEFINE new == [pass[p] EXCEPT !.pc = "firing", !.at = 0]
  <2>1. pass' = [pass EXCEPT ![p] = new]
    BY <1>6 DEF CommitClaim
  <2>2. pass[p] \in Pass /\ pass[p].row = NoRow
    BY <1>6 DEF CommitClaim, Typed, PassOK, At, PassType
  <2>3. new \in Pass
    BY <2>2 DEF Pass
  <2>4. pass'[p].pc = "firing" /\ pass'[p].row = NoRow
    BY <2>1, <2>2 DEF Pass, Typed, PassType
  <2> HIDE DEF new
  <2> QED
    BY <1>4, <2>1, <2>3, <2>4 DEF PassOK, At
<1>7. ASSUME NEW p \in Passes, NEW s \in Rows, CreateJob(p, s)
      PROVE  PassType'
  <2> DEFINE new == [pass[p] EXCEPT !.pc = "created", !.row = s, !.todo = @ \ {s},
                                    !.job = Len(jobs')]
  <2>1. pass' = [pass EXCEPT ![p] = new]
    BY <1>7 DEF CreateJob
  <2>2. Len(jobs') \in DOMAIN jobs' /\ Len(jobs') \in Nat
    BY <1>7, AppendProperties, NewJobOK, LenProperties DEF CreateJob, Typed, JobsInv
  <2>3. new \in Pass
    BY <2>2 DEF Pass, Typed, PassType
  <2>4. /\ pass'[p].pc = "created" /\ pass'[p].row = s /\ pass'[p].job = Len(jobs')
        /\ s \notin pass'[p].todo
    BY <2>1 DEF Pass, Typed, PassType
  <2> HIDE DEF new
  <2> QED
    BY <1>4, <2>1, <2>2, <2>3, <2>4 DEF PassOK, At
<1>8. ASSUME NEW p \in Passes, NEW s \in Rows, CreateJobRefused(p, s)
      PROVE  PassType'
  <2> DEFINE new == [pass[p] EXCEPT !.pc = "failing", !.row = s, !.todo = @ \ {s}]
  <2>1. pass' = [pass EXCEPT ![p] = new]
    BY <1>8 DEF CreateJobRefused
  <2>2. new \in Pass
    BY DEF Pass, Typed, PassType
  <2>3. pass'[p].pc = "failing" /\ pass'[p].row = s /\ s \notin pass'[p].todo
    BY <2>1 DEF Pass, Typed, PassType
  <2> HIDE DEF new
  <2> QED
    BY <1>4, <2>1, <2>2, <2>3 DEF PassOK, At
<1>9. ASSUME NEW p \in Passes, Dispatch(p) \/ BookFiredFails(p)
      PROVE  PassType'
  <2>1. PICK pc \in {"dispatched", "failing"} : pass' = [pass EXCEPT ![p].pc = pc]
    BY <1>9 DEF Dispatch, BookFiredFails, Go
  <2> DEFINE new == [pass[p] EXCEPT !.pc = pc]
  <2>2. pass' = [pass EXCEPT ![p] = new]
    BY <2>1
  <2>3. new \in Pass
    BY DEF Pass, Typed, PassType
  <2>4. pass[p].row \in Rows \ pass[p].todo
    BY <1>9 DEF Dispatch, BookFiredFails, Typed, PassOK, At, PassType
  <2>5. pass'[p].pc = pc /\ pass'[p].row = pass[p].row /\ pass'[p].todo = pass[p].todo
    BY <2>2 DEF Pass, Typed, PassType
  <2> HIDE DEF new
  <2> QED
    BY <1>4, <2>2, <2>3, <2>4, <2>5 DEF PassOK, At
<1>10. ASSUME NEW p \in Passes, BookFired(p) \/ BookFailed(p)
       PROVE  PassType'
  <2> DEFINE new == [pass[p] EXCEPT !.pc = IF pass[p].todo = {} THEN "idle" ELSE "firing",
                                    !.row = NoRow, !.job = 0]
  <2>1. pass' = [pass EXCEPT ![p] = new]
    BY <1>10 DEF BookFired, BookFailed, Rest
  <2>2. new \in Pass
    BY DEF Pass, Typed, PassType
  <2>3. /\ pass'[p].pc \in {"idle", "firing"} /\ pass'[p].row = NoRow
        /\ pass'[p].pc = "idle" => pass'[p].todo = {}
    BY <2>1 DEF Pass, Typed, PassType
  <2> HIDE DEF new
  <2> QED
    BY <1>4, <2>1, <2>2, <2>3 DEF PassOK, At
<1>11. ASSUME NEW p \in Passes, Crash(p)
       PROVE  PassType'
  <2>1. Idle \in Pass /\ Idle.pc = "idle" /\ Idle.todo = {} /\ Idle.row = NoRow
    BY DEF Idle, Pass
  <2>2. pass' = [pass EXCEPT ![p] = Idle] /\ pass'[p] = Idle
    BY <1>11 DEF Crash, Typed, PassType
  <2> QED
    BY <1>4, <2>1, <2>2 DEF PassOK, At
<1> QED
  BY <1>3, <1>5, <1>6, <1>7, <1>8, <1>9, <1>10, <1>11, JobsOnly
     DEF Next, Advance, vars, Clock, Delegate, Create, Patch, Delete

\* Together they are inductive.
LEMMA TypedInvariant == Spec => []Typed
<1>1. Init => Typed
  <2> SUFFICES ASSUME Init
               PROVE  Typed
    OBVIOUS
  <2>1. RowType /\ BookType
    BY DEF Init, RowType, BookType, Absent
  <2>2. PassType
    BY DEF Init, PassType, PassOK, Pass, Idle, At
  <2>3. JobsInv
    BY EmptySeq DEF Init, JobsInv
  <2> QED
    BY <2>1, <2>2, <2>3 DEF Typed
<1>2. Typed /\ [Next]_vars => Typed'
  <2> SUFFICES ASSUME Typed, [Next]_vars
               PROVE  Typed'
    OBVIOUS
  <2>1. RowType' /\ BookType' /\ PassType'
    BY RowStep, BookStep, PassStep DEF Typed
  <2>2. JobsInv'
    <3>1. JobsMove
      BY JobsStep, TypedIsTypeOK DEF Typed
    <3> QED
      BY <3>1, JobsKept DEF JobsMove, JobsInv, Typed
  <2> QED
    BY <2>1, <2>2 DEF Typed
<1> QED
  BY <1>1, <1>2, PTL DEF Spec

\* Rows, passes, jobs and books always have their types; in particular a pass that
\* fires a schedule knows which, and launches a job that exists.
THEOREM TypeCorrect == Spec => []TypeOK
BY TypedInvariant, TypedIsTypeOK, PTL

\* Each wake of a parent is the end of a run of its own, and no more executions run a job
\* than there are at once; and unless one of them read the job as queued while another was
\* about to claim it, the job runs at most once and wakes its parent once, when it is
\* closed.  What run_job guarantees without a lock, however often and by however many
\* executions the command of the job is run.
THEOREM WokenOnceProved == Spec => []WokenOnce
<1>1. Typed => WokenOnce
  <2> SUFFICES ASSUME Typed, NEW j \in DOMAIN jobs
               PROVE  /\ jobs[j].wakes <= jobs[j].runs /\ jobs[j].runs <= Cardinality(Executions)
                      /\ ~jobs[j].doubled =>
                            /\ jobs[j].runs <= 1
                            /\ jobs[j].wakes = IF Closed(jobs[j]) THEN 1 ELSE 0
    BY DEF WokenOnce
  <2>1. jobs[j] \in Job /\ JobOK(jobs[j])
    BY ElementOfSeq, LenProperties DEF Typed, JobsInv
  <2>2. \A what \in {"loaded", "running"} : Cardinality(Those(jobs[j].doing, what)) \in Nat
    BY FS_Subset, FS_CardinalityType DEF Those
  <2>3. Cardinality(Executions) \in Nat /\ jobs[j].runs \in Nat /\ jobs[j].wakes \in Nat
    BY <2>1, FS_CardinalityType DEF Job
  <2> QED
    BY <2>1, <2>2, <2>3 DEF JobOK, Counted, Single
<1> QED
  BY <1>1, TypedInvariant, PTL

\* The table of jobs is only added to, no row of it is queued again or loses what it has
\* run and told, and one that two executions have not read as queued together goes from the
\* queue to one run to one end and stays there: the agreement of the executions with the
\* status of the row (Single) is what makes a run close its own job.
THEOREM JobsOnlyAdvanceProved == Spec => JobsOnlyAdvance
<1> DEFINE Onward == \A j \in DOMAIN jobs : j \in DOMAIN jobs' /\ Grows(jobs'[j], jobs[j])
<1>1. ASSUME Typed, [Next]_vars
      PROVE  Onward
  <2>1. JobsInv /\ JobsMove
    BY <1>1, TypedIsTypeOK, JobsStep DEF Typed
  <2>2. jobs \in Seq(Job) /\ \A j \in DOMAIN jobs : jobs[j] \in Job /\ Grows(jobs[j], jobs[j])
    <3>1. jobs \in Seq(Job) /\ \A j \in DOMAIN jobs : jobs[j] \in Job
      BY <2>1, ElementOfSeq, LenProperties DEF JobsInv
    <3>2. \A job \in Job : job.runs \in Nat /\ job.wakes \in Nat
      BY DEF Job
    <3>3. \A job \in Job : Grows(job, job)
      BY <3>2 DEF Grows, Advances, Follows
    <3> QED
      BY <3>1, <3>3
  <2>3. CASE jobs' = jobs
    BY <2>2, <2>3
  <2>4. ASSUME NEW job \in Job, jobs' = Append(jobs, job)
        PROVE  Onward
    <3>1. /\ Len(jobs) \in Nat /\ Len(jobs') = Len(jobs) + 1
          /\ jobs' \in Seq(Job) /\ \A j \in 1 .. Len(jobs) : jobs'[j] = jobs[j]
      BY <2>2, <2>4, AppendProperties, LenProperties
    <3>2. DOMAIN jobs = 1 .. Len(jobs) /\ DOMAIN jobs' = 1 .. Len(jobs')
      BY <2>2, <3>1, LenProperties
    <3> QED
      BY <2>2, <3>1, <3>2
  <2>5. ASSUME NEW job \in Job, NEW j \in DOMAIN jobs, Grows(job, jobs[j]),
               jobs' = [jobs EXCEPT ![j] = job]
        PROVE  Onward
    BY <2>2, <2>5
  <2> HIDE DEF Onward
  <2> QED
    BY <2>1, <2>3, <2>4, <2>5 DEF JobsMove
<1>2. ASSUME Typed, [Next]_vars
      PROVE  [\A j \in DOMAIN jobs :
                 /\ j \in DOMAIN jobs' /\ Advances(jobs'[j], jobs[j])
                 /\ ~jobs[j].doubled => Follows(jobs'[j], jobs[j])]_vars
  BY <1>1, <1>2 DEF Grows
<1> QED
  BY <1>2, TypedInvariant, PTL DEF Spec, JobsOnlyAdvance

-----------------------------------------------------------------------------
(* Claims.  A schedule is claimed once per occurrence because its row is moved on
   in the transaction that locked it.  The invariant therefore follows the row
   and the lock: a one-shot that can still be claimed has been set once more than
   it was claimed, a cron schedule waits for a tick behind all its claims. *)

Holds(p, s) == At(p, "claiming") /\ s \in pass[p].todo

Exclusive == \A p, q \in Passes, s \in Rows : Holds(p, s) /\ Holds(q, s) => p = q

OnceInv(s) ==
    /\ claims[s] <= arms[s]
    /\ row[s].next # 0 \/ (\E p \in Passes : Holds(p, s)) => claims[s] + 1 <= arms[s]

CronInv(s) ==
    /\ claims[s] + 1 <= now
    /\ row[s].here => arms[s] # 0 /\ claims[s] + 2 <= row[s].next
    /\ \A p \in Passes : Holds(p, s) => row[s].here /\ row[s].next <= pass[p].at
                                        /\ pass[p].at <= now

Occurrences == \A s \in Rows : IF s \in OneShot THEN OnceInv(s) ELSE CronInv(s)

(* Books.  Each claim is in the hands of one pass until it is told or lost. *)

Flying(s) == {p \in Passes : pass[p].row = s \/ (~At(p, "claiming") /\ s \in pass[p].todo)}
Told(s)   == told[s].fired + told[s].failed

Booked == \A s \in Rows :
    /\ Told(s) + Cardinality(Flying(s)) <= claims[s]
    /\ faults = 0 => Told(s) + Cardinality(Flying(s)) = claims[s]

Inv == Typed /\ Exclusive /\ Occurrences /\ Booked

\* What a step does to the pass it is a step of; the others do not move.
LEMMA PassMoves ==
    ASSUME Typed, NEW p \in Passes
    PROVE  /\ ListDue(p) => /\ \A q \in Passes \ {p} : pass'[q] = pass[q]
                            /\ pass'[p].pc = "claiming" /\ pass'[p].row = NoRow
                            /\ pass'[p].at = now
                            /\ \A s \in pass'[p].todo :
                                  Due(s) /\ ~ \E q \in Passes : Holds(q, s)
           /\ CommitClaim(p) => /\ \A q \in Passes \ {p} : pass'[q] = pass[q]
                                /\ pass'[p].pc = "firing" /\ pass'[p].row = pass[p].row
                                /\ pass'[p].todo = pass[p].todo
           /\ \A s \in Rows : CreateJob(p, s) \/ CreateJobRefused(p, s) =>
                                /\ \A q \in Passes \ {p} : pass'[q] = pass[q]
                                /\ pass'[p].pc \in {"created", "failing"} /\ pass'[p].row = s
                                /\ pass'[p].todo = pass[p].todo \ {s}
           /\ Dispatch(p) \/ BookFiredFails(p) =>
                                /\ \A q \in Passes \ {p} : pass'[q] = pass[q]
                                /\ pass'[p].pc \in {"dispatched", "failing"}
                                /\ pass'[p].row = pass[p].row /\ pass'[p].todo = pass[p].todo
           /\ BookFired(p) \/ BookFailed(p) =>
                                /\ \A q \in Passes \ {p} : pass'[q] = pass[q]
                                /\ pass'[p].pc \in {"idle", "firing"} /\ pass'[p].row = NoRow
                                /\ pass'[p].todo = pass[p].todo
           /\ Crash(p) => /\ \A q \in Passes \ {p} : pass'[q] = pass[q]
                          /\ pass'[p].pc = "idle" /\ pass'[p].row = NoRow /\ pass'[p].todo = {}
<1> USE DEF Typed, PassType, Pass
<1>1. ASSUME ListDue(p)
      PROVE  /\ \A q \in Passes \ {p} : pass'[q] = pass[q]
             /\ pass'[p].pc = "claiming" /\ pass'[p].row = NoRow
             /\ pass'[p].at = now
             /\ \A s \in pass'[p].todo : Due(s) /\ ~ \E q \in Passes : Holds(q, s)
  <2>1. PICK chosen \in SUBSET ({s \in Rows : Due(s)} \ Locked) :
          pass' = [pass EXCEPT ![p] = [Idle EXCEPT !.pc = "claiming", !.at = now, !.todo = chosen]]
    BY <1>1 DEF ListDue, TakeDue
  <2> DEFINE new == [Idle EXCEPT !.pc = "claiming", !.at = now, !.todo = chosen]
  <2>2. new.pc = "claiming" /\ new.row = NoRow /\ new.at = now /\ new.todo = chosen
    BY DEF Idle
  <2>3. \A s \in chosen : Due(s) /\ ~ \E q \in Passes : Holds(q, s)
    BY DEF Locked, Holds
  <2> HIDE DEF new
  <2>4. pass' = [pass EXCEPT ![p] = new]
    BY <2>1 DEF new
  <2>5. pass'[p] = new /\ \A q \in Passes \ {p} : pass'[q] = pass[q]
    BY <2>4
  <2> QED
    BY <2>2, <2>3, <2>5
<1>2. ASSUME CommitClaim(p)
      PROVE  /\ \A q \in Passes \ {p} : pass'[q] = pass[q]
             /\ pass'[p].pc = "firing" /\ pass'[p].row = pass[p].row
             /\ pass'[p].todo = pass[p].todo
  BY <1>2 DEF CommitClaim
<1>3. ASSUME NEW s \in Rows, CreateJob(p, s) \/ CreateJobRefused(p, s)
      PROVE  /\ \A q \in Passes \ {p} : pass'[q] = pass[q]
             /\ pass'[p].pc \in {"created", "failing"} /\ pass'[p].row = s
             /\ pass'[p].todo = pass[p].todo \ {s}
  <2>1. CASE CreateJob(p, s)
    BY <2>1 DEF CreateJob
  <2>2. CASE CreateJobRefused(p, s)
    BY <2>2 DEF CreateJobRefused
  <2> QED
    BY <1>3, <2>1, <2>2
<1>4. ASSUME Dispatch(p) \/ BookFiredFails(p)
      PROVE  /\ \A q \in Passes \ {p} : pass'[q] = pass[q]
             /\ pass'[p].pc \in {"dispatched", "failing"}
             /\ pass'[p].row = pass[p].row /\ pass'[p].todo = pass[p].todo
  <2>1. PICK pc \in {"dispatched", "failing"} : pass' = [pass EXCEPT ![p].pc = pc]
    BY <1>4 DEF Dispatch, BookFiredFails, Go
  <2> QED
    BY <2>1
<1>5. ASSUME BookFired(p) \/ BookFailed(p)
      PROVE  /\ \A q \in Passes \ {p} : pass'[q] = pass[q]
             /\ pass'[p].pc \in {"idle", "firing"} /\ pass'[p].row = NoRow
             /\ pass'[p].todo = pass[p].todo
  <2>1. Rest(p)
    BY <1>5 DEF BookFired, BookFailed
  <2> QED
    BY <2>1 DEF Rest
<1>6. ASSUME Crash(p)
      PROVE  /\ \A q \in Passes \ {p} : pass'[q] = pass[q]
             /\ pass'[p].pc = "idle" /\ pass'[p].row = NoRow /\ pass'[p].todo = {}
  BY <1>6 DEF Crash, Idle
<1> HIDE DEF Typed, PassType, Pass
<1> QED
  BY <1>1, <1>2, <1>3, <1>4, <1>5, <1>6

\* The steps of users, clock and jobs move no pass.
LEMMA NoPassMoves ==
    ASSUME [Next]_vars
    PROVE  \/ pass' = pass
           \/ \E p \in Passes : Advance(p) \/ BookFiredFails(p) \/ Crash(p)
BY JobsOnly DEF Next, vars, Clock, Delegate, Create, Patch, Delete

\* A lock is only taken by a pass that finds a due row nobody has locked.
LEMMA HoldStep ==
    ASSUME Typed, [Next]_vars, NEW p \in Passes, NEW s \in Rows, Holds(p, s)'
    PROVE  \/ Holds(p, s) /\ pass'[p] = pass[p]
           \/ /\ ListDue(p) /\ pass'[p].at = now
              /\ Due(s) /\ ~ \E q \in Passes : Holds(q, s)
<1> USE DEF Holds, At
<1>1. CASE pass' = pass
  BY <1>1
<1>2. ASSUME NEW q \in Passes, Advance(q) \/ BookFiredFails(q) \/ Crash(q)
      PROVE  \/ Holds(p, s) /\ pass'[p] = pass[p]
             \/ /\ ListDue(p) /\ pass'[p].at = now
                /\ Due(s) /\ ~ \E r \in Passes : Holds(r, s)
  <2>1. CASE ListDue(q)
    BY <2>1, PassMoves
  <2>2. CASE q # p
    BY <1>2, <2>2, PassMoves DEF Advance
  <2>3. CASE q = p /\ ~ListDue(q)
    BY <1>2, <2>3, PassMoves DEF Advance
  <2> QED
    BY <2>1, <2>2, <2>3
<1> QED
  BY <1>1, <1>2, NoPassMoves

\* So no row is locked by two passes.
LEMMA ExclusiveStep == Typed /\ Exclusive /\ [Next]_vars => Exclusive'
<1> SUFFICES ASSUME Typed, Exclusive, [Next]_vars,
                    NEW p \in Passes, NEW q \in Passes, NEW s \in Rows,
                    Holds(p, s)', Holds(q, s)', p # q
             PROVE  FALSE
  BY DEF Exclusive
<1>1. CASE ListDue(p)
  <2>1. ~ListDue(q)
    <3>1. At(p, "idle") /\ pass'[p].pc = "claiming" /\ \A r \in Passes \ {p} : pass'[r] = pass[r]
      BY <1>1, PassMoves DEF ListDue, TakeDue
    <3> QED
      BY <3>1, PassMoves DEF ListDue, TakeDue, At
  <2> QED
    BY <1>1, <2>1, HoldStep DEF Holds, At, ListDue, TakeDue
<1>2. CASE ~ListDue(p) /\ ListDue(q)
  BY <1>2, HoldStep DEF Holds, At, ListDue, TakeDue
<1>3. CASE ~ListDue(p) /\ ~ListDue(q)
  BY <1>3, HoldStep DEF Exclusive
<1> QED
  BY <1>1, <1>2, <1>3

\* What a step does to one schedule: nothing its claims depend on, new timing for
\* a row nobody has locked, its end, or the commit of a claim.
LEMMA RowMoves ==
    ASSUME Typed, Occurrences, [Next]_vars, NEW s \in Rows
    PROVE  \/ /\ claims'[s] = claims[s] /\ arms'[s] = arms[s] /\ now <= now'
              /\ row'[s].here = row[s].here /\ row'[s].next = row[s].next
           \/ /\ claims'[s] = claims[s] /\ arms'[s] = arms[s] + 1 /\ now' = now /\ pass' = pass
              /\ ~ \E p \in Passes : Holds(p, s)
              /\ s \notin OneShot => row'[s].next = now + 1
           \/ /\ claims'[s] = claims[s] /\ arms'[s] = arms[s] /\ now' = now
              /\ ~row'[s].here /\ row'[s].next = 0
              /\ s \in OneShot \/ (pass' = pass /\ ~ \E p \in Passes : Holds(p, s))
           \/ \E p \in Passes :
              /\ CommitClaim(p) /\ Holds(p, s)
              /\ claims'[s] = claims[s] + 1 /\ arms'[s] = arms[s] /\ now' = now
              /\ row'[s].here = row[s].here
              /\ row'[s].next = IF s \in OneShot THEN 0 ELSE pass[p].at + 1
<1> DEFINE Same == /\ claims'[s] = claims[s] /\ arms'[s] = arms[s] /\ now <= now'
                   /\ row'[s].here = row[s].here /\ row'[s].next = row[s].next
           Armed == /\ claims'[s] = claims[s] /\ arms'[s] = arms[s] + 1
                    /\ now' = now /\ pass' = pass
                    /\ ~ \E p \in Passes : Holds(p, s)
                    /\ s \notin OneShot => row'[s].next = now + 1
           Ended == /\ claims'[s] = claims[s] /\ arms'[s] = arms[s] /\ now' = now
                    /\ ~row'[s].here /\ row'[s].next = 0
                    /\ s \in OneShot \/ (pass' = pass /\ ~ \E p \in Passes : Holds(p, s))
           Claimed(p) == /\ CommitClaim(p) /\ Holds(p, s)
                         /\ claims'[s] = claims[s] + 1 /\ arms'[s] = arms[s] /\ now' = now
                         /\ row'[s].here = row[s].here
                         /\ row'[s].next = IF s \in OneShot THEN 0 ELSE pass[p].at + 1
<1> SUFFICES Same \/ Armed \/ Ended \/ \E p \in Passes : Claimed(p)
  OBVIOUS
<1>0. /\ now \in Nat /\ arms \in [Rows -> Nat] /\ claims \in [Rows -> Nat]
      /\ row \in [Rows -> [here : BOOLEAN, enabled : BOOLEAN, next : Nat, runAt : Nat]]
      /\ \A t \in Rows : row[t] \in [here : BOOLEAN, enabled : BOOLEAN, next : Nat, runAt : Nat]
  BY DEF Typed, RowType, BookType
<1>a. ASSUME row'[s] = row[s], arms'[s] = arms[s], claims'[s] = claims[s], now' = now
      PROVE  Same
  BY <1>0, <1>a
<1>1. CASE UNCHANGED <<row, arms, claims, now>>
  BY <1>1, <1>a
<1>2. CASE Clock
  BY <1>0, <1>2 DEF Clock
<1>3. s \notin Locked => ~ \E p \in Passes : Holds(p, s)
  BY DEF Locked, Holds
<1>4. arms[s] = 0 => ~ \E p \in Passes : Holds(p, s)
  BY <1>0 DEF Occurrences, OnceInv, CronInv
<1>5. ASSUME NEW t \in Rows, NEW enabled \in BOOLEAN, NEW runAt \in Nat, Arm(t, enabled, runAt),
             claims' = claims, now' = now, pass' = pass,
             t = s => ~ \E p \in Passes : Holds(p, s)
      PROVE  Same \/ Armed
  <2>1. CASE t = s
    <3>1. row'[s].next = NextRun(s, runAt, now) /\ arms'[s] = arms[s] + 1
      BY <1>0, <1>5, <2>1 DEF Arm
    <3> QED
      BY <1>5, <2>1, <3>1 DEF NextRun
  <2>2. CASE t # s
    <3>1. row'[s] = row[s] /\ arms'[s] = arms[s]
      BY <1>0, <1>5, <2>2 DEF Arm
    <3> QED
      BY <1>a, <1>5, <3>1
  <2> QED
    BY <2>1, <2>2
<1>6. ASSUME NEW t \in Rows, Create(t)
      PROVE  Same \/ Armed
  BY <1>0, <1>4, <1>5, <1>6 DEF Create
<1>7. ASSUME NEW t \in Rows, Patch(t)
      PROVE  Same \/ Armed
  <2>1. CASE \E enabled \in BOOLEAN, delay \in Delays : Arm(t, enabled, now + delay)
    BY <1>0, <1>3, <1>5, <1>7, <2>1 DEF Patch
  <2>2. CASE Arm(t, TRUE, row[t].runAt)
    BY <1>0, <1>3, <1>5, <1>7, <2>2 DEF Patch
  <2>3. CASE row' = [row EXCEPT ![t].enabled = FALSE] /\ arms' = arms
    BY <1>0, <1>7, <2>3 DEF Patch
  <2> QED
    BY <1>7, <2>1, <2>2, <2>3 DEF Patch
<1>8. ASSUME NEW t \in Rows, Delete(t)
      PROVE  Same \/ Ended
  <2>1. CASE t = s
    <3>1. row'[s] = Absent
      BY <1>0, <1>8, <2>1 DEF Delete
    <3>2. ~row'[s].here /\ row'[s].next = 0
      BY <3>1 DEF Absent
    <3>3. /\ claims' = claims /\ arms' = arms /\ now' = now /\ pass' = pass
          /\ ~ \E p \in Passes : Holds(p, s)
      BY <1>3, <1>8, <2>1 DEF Delete
    <3> QED
      BY <3>2, <3>3
  <2>2. CASE t # s
    <3>1. row'[s] = row[s]
      BY <1>0, <1>8, <2>2 DEF Delete
    <3> QED
      BY <1>a, <1>8, <3>1 DEF Delete
  <2> QED
    BY <2>1, <2>2
<1>9. ASSUME NEW p \in Passes, BookFired(p)
      PROVE  Same \/ Ended
  <2>1. pass[p].row \in Rows
    BY <1>9 DEF BookFired, Typed, PassType, PassOK, At
  <2>2. row'[s] = row[s] \/ (s \in DeleteAfterRun /\ row'[s] = Absent)
    BY <1>0, <1>9, <2>1 DEF BookFired
  <2>3. arms' = arms /\ claims' = claims /\ now' = now
    BY <1>9 DEF BookFired
  <2> QED
    BY <1>a, <2>2, <2>3 DEF Absent
<1>10. ASSUME NEW p \in Passes, CommitClaim(p)
       PROVE  Same \/ Claimed(p)
  <2>1. CASE s \in pass[p].todo
    <3>1. Holds(p, s)
      BY <1>10, <2>1 DEF CommitClaim, Holds
    <3>2. claims'[s] = claims[s] + 1 /\ arms' = arms /\ now' = now
      BY <1>0, <1>10, <2>1 DEF CommitClaim
    <3>3. row'[s].here = row[s].here /\ row'[s].next = IF s \in OneShot THEN 0 ELSE pass[p].at + 1
      BY <1>0, <1>10, <2>1 DEF CommitClaim, NextRun
    <3> QED
      BY <1>10, <3>1, <3>2, <3>3
  <2>2. CASE s \notin pass[p].todo
    BY <1>0, <1>a, <1>10, <2>2 DEF CommitClaim
  <2> QED
    BY <2>1, <2>2
<1> HIDE DEF Same, Armed, Ended, Claimed
<1> QED
  BY <1>1, <1>2, <1>6, <1>7, <1>8, <1>9, <1>10, JobsOnly
     DEF Next, Advance, vars, Delegate, ListDue, TakeDue, CreateJob, CreateJobRefused, Dispatch,
         BookFailed, BookFiredFails, Crash

\* So every schedule stays within what its user set or its clock allows.
LEMMA OccurrencesStep == Typed /\ Exclusive /\ Occurrences /\ [Next]_vars => Occurrences'
<1> SUFFICES ASSUME Typed, Exclusive, Occurrences, [Next]_vars, NEW s \in Rows
             PROVE  IF s \in OneShot THEN OnceInv(s)' ELSE CronInv(s)'
  BY DEF Occurrences
<1>1. \A p \in Passes : Holds(p, s)' =>
         \/ Holds(p, s) /\ pass'[p] = pass[p]
         \/ pass'[p].at = now /\ Due(s)
  BY HoldStep
<1>2. /\ now \in Nat /\ row[s].next \in Nat /\ claims[s] \in Nat /\ arms[s] \in Nat
      /\ \A p \in Passes : pass[p].at \in Nat
  BY DEF Typed, RowType, BookType, PassType, Pass
<1>3. pass' = pass => \A p \in Passes : Holds(p, s)' => Holds(p, s)
  BY DEF Holds, At
<1>4. ASSUME NEW p \in Passes, CommitClaim(p), Holds(p, s)
      PROVE  ~ \E q \in Passes : Holds(q, s)'
  <2>1. pass'[p].pc = "firing" /\ \A q \in Passes \ {p} : pass'[q] = pass[q]
    BY <1>4, PassMoves
  <2> QED
    BY <1>4, <2>1 DEF Exclusive, Holds, At
<1>5. ASSUME s \in OneShot
      PROVE  OnceInv(s)'
  <2>1. OnceInv(s)
    BY <1>5 DEF Occurrences
  <2> QED
    BY <1>1, <1>2, <1>3, <1>4, <2>1, <1>5, RowMoves DEF OnceInv, Due
<1>6. ASSUME s \notin OneShot
      PROVE  CronInv(s)'
  <2>1. CronInv(s)
    BY <1>6 DEF Occurrences
  <2>2. now' \in Nat /\ row'[s].next \in Nat /\ row[s].here \in BOOLEAN
    BY RowStep DEF Typed, RowType
  <2>3. \A p \in Passes : Holds(p, s)' =>
           \/ Holds(p, s) /\ pass'[p].at = pass[p].at
           \/ pass'[p].at = now /\ row[s].here /\ row[s].next <= now
    BY <1>1, <1>2 DEF Due
  <2> QED
    BY <1>2, <1>3, <1>4, <1>6, <2>1, <2>2, <2>3, RowMoves DEF CronInv
<1> QED
  BY <1>5, <1>6

\* What a step does to the claims of one schedule that are in flight: they stay as
\* they are, one is made, one is told, or some are lost to a fault.
LEMMA FlyingMoves ==
    ASSUME Typed, [Next]_vars, NEW s \in Rows
    PROVE  \/ /\ Flying(s)' = Flying(s) /\ claims'[s] = claims[s] /\ Told(s)' = Told(s)
              /\ faults <= faults'
           \/ /\ \E p \in Passes \ Flying(s) : Flying(s)' = Flying(s) \cup {p}
              /\ claims'[s] = claims[s] + 1 /\ Told(s)' = Told(s) /\ faults' = faults
           \/ /\ \E p \in Flying(s) : Flying(s)' = Flying(s) \ {p}
              /\ claims'[s] = claims[s] /\ Told(s)' = Told(s) + 1 /\ faults' = faults
           \/ /\ Flying(s)' \subseteq Flying(s) /\ claims'[s] = claims[s] /\ Told(s)' = Told(s)
              /\ faults' # 0
<1> DEFINE Same == /\ Flying(s)' = Flying(s) /\ claims'[s] = claims[s] /\ Told(s)' = Told(s)
                   /\ faults <= faults'
           Claimed == /\ \E p \in Passes \ Flying(s) : Flying(s)' = Flying(s) \cup {p}
                      /\ claims'[s] = claims[s] + 1 /\ Told(s)' = Told(s) /\ faults' = faults
           Booking == /\ \E p \in Flying(s) : Flying(s)' = Flying(s) \ {p}
                      /\ claims'[s] = claims[s] /\ Told(s)' = Told(s) + 1 /\ faults' = faults
           Lost == /\ Flying(s)' \subseteq Flying(s) /\ claims'[s] = claims[s]
                   /\ Told(s)' = Told(s) /\ faults' # 0
           Carries(p) == pass[p].row = s \/ (~At(p, "claiming") /\ s \in pass[p].todo)
<1> SUFFICES Same \/ Claimed \/ Booking \/ Lost
  OBVIOUS
<1>0. /\ faults \in Nat /\ claims \in [Rows -> Nat] /\ told \in [Rows -> [fired : Nat, failed : Nat]]
      /\ \A t \in Rows : told[t] \in [fired : Nat, failed : Nat]
  BY DEF Typed, RowType, BookType
<1>1. faults' = faults \/ Fault => faults <= faults'
  BY <1>0 DEF Fault
<1>2. ASSUME pass' = pass
      PROVE  Flying(s)' = Flying(s)
  BY <1>2 DEF Flying, At
<1>3. ASSUME NEW p \in Passes, \A q \in Passes \ {p} : pass'[q] = pass[q]
      PROVE  /\ (Carries(p)' <=> Carries(p)) => Flying(s)' = Flying(s)
             /\ Carries(p)' /\ ~Carries(p) => p \notin Flying(s) /\ Flying(s)' = Flying(s) \cup {p}
             /\ ~Carries(p)' /\ Carries(p) => p \in Flying(s) /\ Flying(s)' = Flying(s) \ {p}
  BY <1>3 DEF Flying, At
<1>4. \A p \in Passes : PassOK(p) /\ s # NoRow
  BY DEF Typed, PassType
<1>5. ASSUME NEW p \in Passes, ListDue(p)
      PROVE  Same
  <2>1. ~Carries(p)
    BY <1>4, <1>5 DEF ListDue, TakeDue, PassOK, At
  <2>2. ~Carries(p)'
    BY <1>4, <1>5, PassMoves DEF At
  <2>3. UNCHANGED <<claims, told, faults>>
    BY <1>5 DEF ListDue, TakeDue
  <2> QED
    BY <1>0, <1>3, <1>5, <2>1, <2>2, <2>3, PassMoves DEF Told
<1>6. ASSUME NEW p \in Passes, CommitClaim(p)
      PROVE  Same \/ Claimed
  <2>1. ~Carries(p)
    BY <1>4, <1>6 DEF CommitClaim, PassOK, At
  <2>2. Carries(p)' <=> s \in pass[p].todo
    BY <1>4, <1>6, PassMoves DEF At, CommitClaim, PassOK
  <2>3. claims'[s] = IF s \in pass[p].todo THEN claims[s] + 1 ELSE claims[s]
    BY <1>6 DEF CommitClaim
  <2>4. Told(s)' = Told(s) /\ faults' = faults
    BY <1>6 DEF CommitClaim, Told
  <2> QED
    BY <1>0, <1>3, <1>6, <2>1, <2>2, <2>3, <2>4, PassMoves
<1>7. ASSUME NEW p \in Passes, NEW t \in Rows, CreateJob(p, t) \/ CreateJobRefused(p, t)
      PROVE  Same
  <2>1. pass[p].row = NoRow /\ At(p, "firing") /\ t \in pass[p].todo
    BY <1>4, <1>7 DEF CreateJob, CreateJobRefused, PassOK, At
  <2>2. pass'[p].row = t /\ pass'[p].pc # "claiming" /\ pass'[p].todo = pass[p].todo \ {t}
    BY <1>7, PassMoves
  <2>3. Carries(p)' <=> Carries(p)
    BY <1>4, <2>1, <2>2 DEF At
  <2>4. UNCHANGED <<claims, told, faults>>
    BY <1>7 DEF CreateJob, CreateJobRefused
  <2> QED
    BY <1>0, <1>3, <1>7, <2>3, <2>4, PassMoves DEF Told
<1>8. ASSUME NEW p \in Passes, Dispatch(p) \/ BookFiredFails(p)
      PROVE  Same
  <2>1. Carries(p)' <=> Carries(p)
    BY <1>8, PassMoves DEF At, Dispatch, BookFiredFails
  <2>2. UNCHANGED <<claims, told>> /\ (faults' = faults \/ Fault)
    BY <1>8 DEF Dispatch, BookFiredFails
  <2> QED
    BY <1>0, <1>1, <1>3, <1>8, <2>1, <2>2, PassMoves DEF Told
<1>9. ASSUME NEW p \in Passes, BookFired(p) \/ BookFailed(p)
      PROVE  Same \/ Booking \/ Lost
  <2>1. pass[p].row \in Rows \ pass[p].todo /\ ~At(p, "claiming")
    BY <1>4, <1>9 DEF BookFired, BookFailed, PassOK, At
  <2>2. Carries(p)' <=> s \in pass[p].todo
    BY <1>4, <1>9, PassMoves DEF At
  <2>3. claims' = claims /\ (faults' = faults \/ Fault)
    BY <1>9 DEF BookFired, BookFailed
  <2>4. CASE pass[p].row # s
    <3>1. Told(s)' = Told(s)
      BY <1>0, <1>9, <2>1, <2>4 DEF BookFired, BookFailed, Told
    <3> QED
      BY <1>0, <1>1, <1>3, <1>9, <2>1, <2>2, <2>3, <2>4, <3>1, PassMoves
  <2>5. CASE pass[p].row = s
    <3>1. p \in Flying(s) /\ Flying(s)' = Flying(s) \ {p}
      BY <1>3, <1>9, <2>1, <2>2, <2>5, PassMoves
    <3>2. \/ Told(s)' = Told(s) + 1 /\ faults' = faults
          \/ Told(s)' = Told(s) /\ Fault
      <4>1. CASE faults' = faults /\ told' = [told EXCEPT ![s].fired = @ + 1]
        BY <1>0, <4>1 DEF Told
      <4>2. CASE faults' = faults /\ told' = [told EXCEPT ![s].failed = @ + 1]
        BY <1>0, <4>2 DEF Told
      <4>3. CASE Fault /\ told' = told
        BY <4>3 DEF Told
      <4> QED
        BY <1>9, <2>5, <4>1, <4>2, <4>3 DEF BookFired, BookFailed
    <3>3. Fault => faults' # 0
      BY <1>0 DEF Fault
    <3> QED
      BY <2>3, <3>1, <3>2, <3>3
  <2> QED
    BY <2>4, <2>5
<1>10. ASSUME NEW p \in Passes, Crash(p)
       PROVE  Lost
  <2>1. ~Carries(p)'
    BY <1>4, <1>10, PassMoves
  <2>2. Flying(s)' \subseteq Flying(s)
    BY <1>3, <1>10, <2>1, PassMoves
  <2>3. claims' = claims /\ Told(s)' = Told(s) /\ faults' # 0
    BY <1>0, <1>10 DEF Crash, Fault, Told
  <2> QED
    BY <2>2, <2>3
<1>11. CASE pass' = pass
  <2>1. \A p \in Passes : ~CommitClaim(p) /\ ~BookFired(p) /\ ~BookFailed(p)
    <3>1. \A p \in Passes : /\ CommitClaim(p) => pass[p].pc = "claiming"
                            /\ BookFired(p) => pass[p].pc = "dispatched"
                            /\ BookFailed(p) => pass[p].pc = "failing"
      BY DEF CommitClaim, BookFired, BookFailed, At
    <3>2. \A p \in Passes : /\ CommitClaim(p) => pass'[p].pc = "firing"
                            /\ BookFired(p) \/ BookFailed(p) => pass'[p].pc \in {"idle", "firing"}
      BY PassMoves
    <3> QED
      BY <1>11, <3>1, <3>2
  <2>2. UNCHANGED <<claims, told>> /\ (faults' = faults \/ Fault)
    BY <1>11, <2>1, JobsOnly
       DEF Next, Advance, vars, Clock, Delegate, Create, Patch, Delete, ListDue, TakeDue,
           CreateJob, CreateJobRefused, Dispatch, BookFiredFails, Crash
  <2> QED
    BY <1>0, <1>1, <1>2, <1>11, <2>2 DEF Told
<1> HIDE DEF Same, Claimed, Booking, Lost
<1> QED
  BY <1>5, <1>6, <1>7, <1>8, <1>9, <1>10, <1>11, NoPassMoves DEF Advance

\* So the books balance.
LEMMA BookedStep == Typed /\ Booked /\ [Next]_vars => Booked'
<1> SUFFICES ASSUME Typed, Booked, [Next]_vars, NEW s \in Rows
             PROVE  /\ Told(s)' + Cardinality(Flying(s)') <= claims'[s]
                    /\ faults' = 0 => Told(s)' + Cardinality(Flying(s)') = claims'[s]
  BY DEF Booked, Flying, Told, At
<1>1. IsFiniteSet(Flying(s)) /\ Cardinality(Flying(s)) \in Nat
  BY FS_Subset, FS_CardinalityType DEF Flying
<1>2. /\ Told(s) \in Nat /\ claims[s] \in Nat /\ faults \in Nat
      /\ Told(s) + Cardinality(Flying(s)) <= claims[s]
      /\ faults = 0 => Told(s) + Cardinality(Flying(s)) = claims[s]
  BY DEF Typed, RowType, BookType, Told, Booked
<1>3. ASSUME NEW p \in Passes \ Flying(s), Flying(s)' = Flying(s) \cup {p}
      PROVE  Cardinality(Flying(s)') = Cardinality(Flying(s)) + 1
  BY <1>1, <1>3, FS_AddElement
<1>4. ASSUME NEW p \in Flying(s), Flying(s)' = Flying(s) \ {p}
      PROVE  Cardinality(Flying(s)') = Cardinality(Flying(s)) - 1
  BY <1>1, <1>4, FS_RemoveElement
<1>5. ASSUME Flying(s)' \subseteq Flying(s)
      PROVE  Cardinality(Flying(s)') <= Cardinality(Flying(s)) /\ Cardinality(Flying(s)') \in Nat
  BY <1>1, <1>5, FS_Subset, FS_CardinalityType
<1>6. faults' \in Nat
  BY RowStep DEF Typed, RowType
<1> QED
  BY <1>1, <1>2, <1>3, <1>4, <1>5, <1>6, FlyingMoves

\* The whole is inductive.
LEMMA InvInvariant == Spec => []Inv
<1>1. Init => Exclusive /\ Occurrences /\ Booked
  <2> SUFFICES ASSUME Init
               PROVE  Exclusive /\ Occurrences /\ Booked
    OBVIOUS
  <2>1. /\ \A p \in Passes : pass[p].pc = "idle" /\ pass[p].todo = {} /\ pass[p].row = NoRow
        /\ \A s \in Rows : row[s].next = 0 /\ row[s].here = FALSE
        /\ \A s \in Rows : Told(s) = 0 /\ claims[s] = 0 /\ arms[s] = 0 /\ now = 1
    BY DEF Init, Idle, Absent, Told
  <2>2. \A s \in Rows : Flying(s) = {}
    BY <2>1 DEF Flying
  <2>3. Cardinality({}) = 0
    BY FS_EmptySet
  <2>4. \A p \in Passes, s \in Rows : ~Holds(p, s)
    BY <2>1 DEF Holds
  <2>5. Exclusive /\ Occurrences
    BY <2>1, <2>4 DEF Exclusive, Occurrences, OnceInv, CronInv
  <2>6. Booked
    <3> SUFFICES ASSUME NEW s \in Rows
                 PROVE  Told(s) + Cardinality(Flying(s)) = 0 /\ claims[s] = 0
      BY DEF Booked
    <3> QED
      BY <2>1, <2>2, <2>3
  <2> QED
    BY <2>5, <2>6
<1>2. Inv /\ [Next]_vars /\ Typed' => Inv'
  BY ExclusiveStep, OccurrencesStep, BookedStep DEF Inv
<1> QED
  BY <1>1, <1>2, TypedInvariant, PTL DEF Spec, Inv

\* A one-shot is claimed once for each time its user set it and a cron schedule once
\* for each tick of its clock, whatever passes, edits and crashes overlap; and unless
\* a process died or a transaction failed, each claim is told, once.
THEOREM ClaimedOnceProved == Spec => []ClaimedOncePerOccurrence
<1>1. Inv => ClaimedOncePerOccurrence
  <2> SUFFICES ASSUME Inv, NEW s \in Rows
               PROVE  LET accounted == told[s].fired + told[s].failed + InFlight(s)
                      IN  /\ claims[s] <= IF s \in OneShot THEN arms[s] ELSE now - 1
                          /\ accounted <= claims[s]
                          /\ faults = 0 => accounted = claims[s]
    BY DEF ClaimedOncePerOccurrence
  <2>1. InFlight(s) = Cardinality(Flying(s))
    BY DEF InFlight, Flying
  <2>2. now \in Nat /\ claims[s] \in Nat /\ arms[s] \in Nat
    BY DEF Inv, Typed, RowType, BookType
  <2>3. claims[s] <= IF s \in OneShot THEN arms[s] ELSE now - 1
    BY <2>2 DEF Inv, Occurrences, OnceInv, CronInv
  <2> QED
    BY <2>1, <2>3 DEF Inv, Booked, Told
<1> QED
  BY <1>1, InvInvariant, PTL
=============================================================================

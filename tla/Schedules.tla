----------------------------- MODULE Schedules -----------------------------
(***************************************************************************)
(* The schedules of the agent cloud and the sub-agent jobs they start.     *)
(* Passes of the scheduler overlap (several instances, or a loop and the   *)
(* tick endpoint).  A pass locks the rows that are due, moves them on and  *)
(* commits, and only then fires what it has claimed, one schedule after    *)
(* the other: a job row, its launch, and a note on the schedule, each in a *)
(* transaction of its own.  An execution of a job reads the row, claims it *)
(* in the same transaction but without a lock, runs an agent's turn, and   *)
(* closes the job together with the wake of its parent; several executions *)
(* of one job may be under way.                                            *)
(***************************************************************************)
EXTENDS Naturals, Sequences, FiniteSets, FiniteSetsExt

CONSTANTS
    Rows,           \* schedules that may be created
    OneShot,        \* those of kind 'at'; the others are of kind 'cron'
    DeleteAfterRun, \* one-shots that are deleted once fired
    Passes,         \* passes of the scheduler that may overlap
    Limit,          \* SCHEDULER_MAX_PER_TICK
    Executions,     \* executions of one job that may be under way at once
    Delays,         \* how far ahead users set a one-shot
    NoRow,          \* stands for no schedule
    MaxTime,        \* bound on the clock
    MaxArms,        \* bound on how often users set the timing of schedules
    MaxJobs,        \* bound on the jobs started
    MaxFaults       \* bound on crashes and failed transactions together

ASSUME SchedulesAssumption ==
    /\ DeleteAfterRun \subseteq OneShot /\ OneShot \subseteq Rows
    /\ NoRow \notin Rows /\ IsFiniteSet(Passes) /\ IsFiniteSet(Executions)
    /\ Limit \in Nat \ {0} /\ Delays \subseteq Nat
    /\ MaxTime \in Nat /\ MaxArms \in Nat /\ MaxJobs \in Nat /\ MaxFaults \in Nat

VARIABLES
    now,        \* the clock
    row,        \* the agentcloud_schedules rows
    pass,       \* what each pass is doing
    jobs,       \* the agentcloud_jobs rows, oldest first
    arms,       \* how often a schedule's next run was set by its user
    claims,     \* how often it was claimed
    told,       \* the schedule.fired and schedule.failed events of each
    faults

vars == <<now, row, pass, jobs, arms, claims, told, faults>>

\* next is next_run_at, 0 for NULL; runAt is the time a one-shot was set to
Absent == [here |-> FALSE, enabled |-> FALSE, next |-> 0, runAt |-> 0]

\* todo: the claimed schedules not yet fired; at: the pass's own time; job: the
\* job of the one being fired
Idle == [pc |-> "idle", at |-> 0, todo |-> {}, row |-> NoRow, job |-> 0]

Init ==
    /\ now = 1
    /\ row = [s \in Rows |-> Absent]
    /\ pass = [p \in Passes |-> Idle]
    /\ jobs = <<>>
    /\ arms = [s \in Rows |-> 0] /\ claims = [s \in Rows |-> 0]
    /\ told = [s \in Rows |-> [fired |-> 0, failed |-> 0]]
    /\ faults = 0

At(p, pc)  == pass[p].pc = pc
Go(p, pc)  == pass' = [pass EXCEPT ![p].pc = pc]
Fault      == faults < MaxFaults /\ faults' = faults + 1

Locked == UNION {pass[p].todo : p \in {q \in Passes : At(q, "claiming")}}
Due(s) == row[s].here /\ row[s].enabled /\ row[s].next \in 1 .. now

-----------------------------------------------------------------------------
\* compute_next_run: a one-shot runs at its time, past or not; a cron schedule at
\* the next occurrence strictly after the given time.
NextRun(s, runAt, after) == IF s \in OneShot THEN runAt ELSE after + 1

ArmsSet == MapThenSumSet(LAMBDA t : arms[t], Rows)

Arm(s, enabled, runAt) ==
    /\ ArmsSet < MaxArms
    /\ arms' = [arms EXCEPT ![s] = @ + 1]
    /\ row' = [row EXCEPT ![s] = [here |-> TRUE, enabled |-> enabled, runAt |-> runAt,
                                  next |-> NextRun(s, runAt, now)]]

\* create_schedule
Create(s) ==
    /\ arms[s] = 0
    /\ \E enabled \in BOOLEAN, delay \in Delays : Arm(s, enabled, now + delay)
    /\ UNCHANGED <<now, pass, jobs, claims, told, faults>>

\* update_schedule waits for the lock of a pass that is claiming the row.  New
\* timing and a re-enable compute the next run, a disable leaves it.
Patch(s) ==
    /\ row[s].here /\ s \notin Locked
    /\ \/ \E enabled \in BOOLEAN, delay \in Delays : Arm(s, enabled, now + delay)
       \/ ~row[s].enabled /\ Arm(s, TRUE, row[s].runAt)
       \/ /\ row[s].enabled
          /\ row' = [row EXCEPT ![s].enabled = FALSE]
          /\ UNCHANGED arms
    /\ UNCHANGED <<now, pass, jobs, claims, told, faults>>

\* delete_schedule; a pass that has already claimed the row fires it all the same
Delete(s) ==
    /\ row[s].here /\ s \notin Locked
    /\ row' = [row EXCEPT ![s] = Absent]
    /\ UNCHANGED <<now, pass, jobs, arms, claims, told, faults>>

Clock ==
    /\ now < MaxTime
    /\ now' = now + 1
    /\ UNCHANGED <<row, pass, jobs, arms, claims, told, faults>>

-----------------------------------------------------------------------------
\* _claim_due, its SELECT: of the rows that are open, those longest due are locked
TakeDue(p, open) ==
    /\ At(p, "idle") /\ open # {}
    /\ \E chosen \in SUBSET open :
          /\ Cardinality(chosen) = IF Cardinality(open) < Limit
                                     THEN Cardinality(open) ELSE Limit
          /\ \A s \in chosen, t \in open \ chosen : row[s].next <= row[t].next
          /\ pass' = [pass EXCEPT ![p] = [Idle EXCEPT !.pc = "claiming", !.at = now,
                                                    !.todo = chosen]]
    /\ UNCHANGED <<now, row, jobs, arms, claims, told, faults>>

\* Faulty variants: the rows are selected without FOR UPDATE SKIP LOCKED; a schedule
\* that has failed is passed over.
ListDueUnlocked(p) == TakeDue(p, {s \in Rows : Due(s)})
ListDueSound(p)    == TakeDue(p, {s \in Rows : Due(s) /\ told[s].failed = 0} \ Locked)

\* FOR UPDATE SKIP LOCKED: a row locked by another pass is not open
ListDue(p) == TakeDue(p, {s \in Rows : Due(s)} \ Locked)

\* _claim_due, its commit: every claimed row moves on.
CommitClaim(p) ==
    /\ At(p, "claiming")
    /\ row' = [s \in Rows |-> IF s \in pass[p].todo
                 THEN [row[s] EXCEPT !.next = IF s \in OneShot THEN 0
                                              ELSE NextRun(s, row[s].runAt, pass[p].at)]
                 ELSE row[s]]
    /\ claims' = [s \in Rows |-> IF s \in pass[p].todo THEN claims[s] + 1 ELSE claims[s]]
    /\ pass' = [pass EXCEPT ![p].pc = "firing", ![p].at = 0]
    /\ UNCHANGED <<now, jobs, arms, told, faults>>

\* doing: what each execution of the job is at; doubled: one has read the job as
\* queued while another that had done so was about to claim it
NewJob(s) == [of |-> s, status |-> "queued", doing |-> [e \in Executions |-> "none"],
              runs |-> 0, wakes |-> 0, doubled |-> FALSE]

\* _fire_one: create_job commits the job's row ...
CreateJob(p, s) ==
    /\ At(p, "firing") /\ s \in pass[p].todo
    /\ Len(jobs) < MaxJobs
    /\ jobs' = Append(jobs, NewJob(s))
    /\ pass' = [pass EXCEPT ![p].pc = "created", ![p].row = s, ![p].todo = @ \ {s},
                            ![p].job = Len(jobs')]
    /\ UNCHANGED <<now, row, arms, claims, told, faults>>

\* ... unless the agent is unknown or disabled, or its session is gone ...
CreateJobRefused(p, s) ==
    /\ At(p, "firing") /\ s \in pass[p].todo
    /\ pass' = [pass EXCEPT ![p].pc = "failing", ![p].row = s, ![p].todo = @ \ {s}]
    /\ UNCHANGED <<now, row, jobs, arms, claims, told, faults>>

Does(j, e, what) == jobs[j].doing[e] = what

Launch(j, e) ==
    /\ Does(j, e, "none")
    /\ jobs' = [jobs EXCEPT ![j].doing[e] = "launched"]

\* ... and launches an execution, which may fail: the job stays queued.
Dispatch(p) ==
    /\ At(p, "created")
    /\ \/ /\ \E e \in Executions : Launch(pass[p].job, e)
          /\ Go(p, "dispatched")
          /\ UNCHANGED faults
       \/ /\ Fault
          /\ Go(p, "failing")
          /\ UNCHANGED jobs
    /\ UNCHANGED <<now, row, arms, claims, told>>

Rest(p) == pass' = [pass EXCEPT ![p].pc = IF pass[p].todo = {} THEN "idle" ELSE "firing",
                                ![p].row = NoRow, ![p].job = 0]

\* The event and the note on the row, or the row's end, in one transaction.
BookFired(p) ==
    LET s == pass[p].row
    IN  /\ At(p, "dispatched")
        /\ told' = [told EXCEPT ![s].fired = @ + 1]
        /\ row' = IF s \in DeleteAfterRun THEN [row EXCEPT ![s] = Absent] ELSE row
        /\ Rest(p)
        /\ UNCHANGED <<now, jobs, arms, claims, faults>>

\* That transaction fails: the schedule counts as failed although its job runs.
BookFiredFails(p) ==
    /\ At(p, "dispatched")
    /\ Fault
    /\ Go(p, "failing")
    /\ UNCHANGED <<now, row, jobs, arms, claims, told>>

\* A failure is told and noted on the row; a failure of that is only logged.
BookFailed(p) ==
    /\ At(p, "failing")
    /\ \/ /\ told' = [told EXCEPT ![pass[p].row].failed = @ + 1]
          /\ UNCHANGED faults
       \/ Fault /\ UNCHANGED told
    /\ Rest(p)
    /\ UNCHANGED <<now, row, jobs, arms, claims>>

\* The process dies: a claim not committed is rolled back, one that is committed
\* and not fired is lost.
Crash(p) ==
    /\ ~At(p, "idle")
    /\ Fault
    /\ pass' = [pass EXCEPT ![p] = Idle]
    /\ UNCHANGED <<now, row, jobs, arms, claims, told>>

-----------------------------------------------------------------------------
\* POST /v1/agents/subagents: a job of no schedule, launched or left queued.
Delegate ==
    /\ Len(jobs) < MaxJobs
    /\ \/ /\ \E e \in Executions :
                jobs' = Append(jobs, [NewJob(NoRow) EXCEPT !.doing[e] = "launched"])
          /\ UNCHANGED faults
       \/ Fault /\ jobs' = Append(jobs, NewJob(NoRow))
    /\ UNCHANGED <<now, row, pass, arms, claims, told>>

\* The command of a job is run once more: the platform retries an execution that
\* exited with an error, or that it takes for lost, and anyone may run it by hand.
Relaunch(j) ==
    /\ \E e \in Executions : Launch(j, e)
    /\ UNCHANGED <<now, row, pass, arms, claims, told, faults>>

Loaded(j) == \E e \in Executions : Does(j, e, "loaded")

\* Faulty variant: an execution does not look at the job's status.
LoadJobAlways(j, e) ==
    /\ Does(j, e, "launched")
    /\ jobs' = [jobs EXCEPT ![j].doing[e] = "loaded", ![j].doubled = @ \/ Loaded(j)]
    /\ UNCHANGED <<now, row, pass, arms, claims, told, faults>>

\* run_job, its SELECT: an execution goes on with a job that is queued and leaves any
\* other alone.
LoadJob(j, e) ==
    /\ Does(j, e, "launched")
    /\ jobs' = IF jobs[j].status = "queued"
               THEN [jobs EXCEPT ![j].doing[e] = "loaded", ![j].doubled = @ \/ Loaded(j)]
               ELSE [jobs EXCEPT ![j].doing[e] = "none"]
    /\ UNCHANGED <<now, row, pass, arms, claims, told, faults>>

\* Its commit: running is written over whatever the row says by now.
ClaimJob(j, e) ==
    /\ Does(j, e, "loaded")
    /\ jobs' = [jobs EXCEPT ![j].status = "running", ![j].doing[e] = "running",
                            ![j].runs = @ + 1]
    /\ UNCHANGED <<now, row, pass, arms, claims, told, faults>>

\* The turn of the agent is over, well or not: the job is closed, whatever its row says,
\* and its parent woken in one transaction.
FinishJob(j, e) ==
    /\ Does(j, e, "running")
    /\ \E status \in {"ok", "error"} :
          jobs' = [jobs EXCEPT ![j].status = status, ![j].doing[e] = "none",
                               ![j].wakes = @ + 1]
    /\ UNCHANGED <<now, row, pass, arms, claims, told, faults>>

\* The execution dies, or fails to claim or to close its job.
JobDies(j, e) ==
    /\ ~Does(j, e, "none")
    /\ Fault
    /\ jobs' = [jobs EXCEPT ![j].doing[e] = "none"]
    /\ UNCHANGED <<now, row, pass, arms, claims, told>>

Execute(j, e) == LoadJob(j, e) \/ ClaimJob(j, e) \/ FinishJob(j, e) \/ JobDies(j, e)

Advance(p) ==
    \/ ListDue(p) \/ CommitClaim(p)
    \/ \E s \in Rows : CreateJob(p, s) \/ CreateJobRefused(p, s)
    \/ Dispatch(p) \/ BookFired(p) \/ BookFailed(p)

Next ==
    \/ Clock \/ Delegate
    \/ \E s \in Rows : Create(s) \/ Patch(s) \/ Delete(s)
    \/ \E p \in Passes : Advance(p) \/ BookFiredFails(p) \/ Crash(p)
    \/ \E j \in DOMAIN jobs : Relaunch(j) \/ \E e \in Executions : Execute(j, e)

\* The loop ticks for ever and a pass, once started, goes on.
Fairness == \A p \in Passes : WF_vars(Advance(p))

Spec == Init /\ [][Next]_vars
FairSpec == Spec /\ Fairness

-----------------------------------------------------------------------------
Job == [of : Rows \cup {NoRow}, status : {"queued", "running", "ok", "error"},
        doing : [Executions -> {"none", "launched", "loaded", "running"}],
        runs : Nat, wakes : Nat, doubled : BOOLEAN]

TypeOK ==
    /\ now \in Nat /\ faults \in 0 .. MaxFaults
    /\ row \in [Rows -> [here : BOOLEAN, enabled : BOOLEAN, next : Nat, runAt : Nat]]
    /\ pass \in [Passes -> [pc : {"idle", "claiming", "firing", "created", "dispatched",
                                  "failing"},
                            at : Nat, todo : SUBSET Rows, row : Rows \cup {NoRow}, job : Nat]]
    /\ \A p \in Passes :
          /\ At(p, "created") => pass[p].job \in DOMAIN jobs
          /\ pass[p].pc \in {"created", "dispatched", "failing"} => pass[p].row \in Rows
    /\ jobs \in Seq(Job)
    /\ arms \in [Rows -> Nat] /\ claims \in [Rows -> Nat]
    /\ told \in [Rows -> [fired : Nat, failed : Nat]]

InFlight(s) == Cardinality({p \in Passes :
                  \/ pass[p].row = s
                  \/ ~At(p, "claiming") /\ s \in pass[p].todo})

\* "Two orchestrator instances can never double-fire" and "every failure is recorded":
\* a one-shot is claimed once for each time its user set it, a cron schedule once for
\* each tick of its clock, whatever passes, edits and crashes overlap; and unless a
\* process died or the database failed, each claim is told once, as fired or as failed.
ClaimedOncePerOccurrence ==
    \A s \in Rows :
        LET accounted == told[s].fired + told[s].failed + InFlight(s)
        IN  /\ claims[s] <= IF s \in OneShot THEN arms[s] ELSE now - 1
            /\ accounted <= claims[s]
            /\ faults = 0 => accounted = claims[s]

Closed(job) == job.status \in {"ok", "error"}

\* However often the command of a job is run, also by several executions at once, each
\* wake of its parent is the end of a run of its own and no more executions run it than
\* there are at once; and unless one of them read the job as queued while another was
\* about to claim it, the job runs at most once and has woken its parent exactly when
\* it is closed.
WokenOnce ==
    \A j \in DOMAIN jobs :
        /\ jobs[j].wakes <= jobs[j].runs /\ jobs[j].runs <= Cardinality(Executions)
        /\ ~jobs[j].doubled =>
              /\ jobs[j].runs <= 1
              /\ jobs[j].wakes = IF Closed(jobs[j]) THEN 1 ELSE 0

\* A job as its table shows it: claimed once out of the queue, closed once out of a run.
Follows(new, job) ==
    \/ new.status = job.status /\ new.runs = job.runs /\ new.wakes = job.wakes
    \/ /\ job.status = "queued" /\ new.status = "running"
       /\ new.runs = job.runs + 1 /\ new.wakes = job.wakes
    \/ /\ job.status = "running" /\ Closed(new)
       /\ new.runs = job.runs /\ new.wakes = job.wakes + 1

\* What holds of a job even when two executions have claimed it: it stays the job of its
\* schedule, is not queued again, and what it has run and told is not undone.
Advances(new, job) ==
    /\ new.of = job.of
    /\ job.status # "queued" => new.status # "queued"
    /\ new.runs >= job.runs /\ new.wakes >= job.wakes
    /\ job.doubled => new.doubled

\* Whatever executions start, overlap, die and are started again, and whatever passes and
\* people add, no row is lost, given to another schedule or put back in the queue; and
\* unless two executions have read it as queued together, a run begins only by the claim
\* of a queued job, a wake is given only by closing one that runs, and a job that is
\* closed stays as it was closed.
JobsOnlyAdvance ==
    [][\A j \in DOMAIN jobs :
          /\ j \in DOMAIN jobs' /\ Advances(jobs'[j], jobs[j])
          /\ ~jobs[j].doubled => Follows(jobs'[j], jobs[j])]_vars

\* Which of the two a count of the settings and claims of a schedule is: the next
\* setting or claim turns it.
Turn(s) == (claims[s] + arms[s]) % 2

\* A schedule that is due is claimed, unless its user sets it anew, disables or deletes
\* it: no failure of another schedule stops the loop.  A one-shot that goes once fired
\* and that its user has set again is left out while an earlier firing of it is under
\* way: the row goes with the booking of that firing, and the new occurrence with it.
DueIsClaimed ==
    \A s \in Rows : \A turn \in 0 .. 1 :
        Due(s) /\ Turn(s) = turn /\ (s \in DeleteAfterRun => InFlight(s) = 0)
            ~> Turn(s) # turn \/ ~row[s].enabled
=============================================================================

----------------------------- MODULE AuditTrail -----------------------------
(***************************************************************************)
(* The audit log, its offsite mirror and the verification that compares    *)
(* the two.  A request reads the latest hash, then flushes its event, which *)
(* is put on the queue of its own process before the request has committed; *)
(* a worker of the process uploads it later.  The verification reads the   *)
(* log, then the mirror, and freezes the log whenever it finds a           *)
(* difference, whatever the reason.                                        *)
(* One sub-chain stands for all: ids are shared, links are not.            *)
(***************************************************************************)
EXTENDS Naturals, Sequences, FiniteSets, Functions

CONSTANTS
    Requests,    \* requests that may overlap
    Replicas,    \* processes of the API
    Home,        \* the process that serves each request
    MaxEvents,   \* bound on the events recorded
    MaxRetries,  \* AUDIT_MIRROR_MAX_RETRIES
    MaxReported, \* how many failed entries a process keeps; 200 in the code
    MaxFaults,   \* bound on crashes
    MaxDrifts    \* bound on rows or objects that change or vanish

ASSUME TrailAssumption ==
    /\ Home \in [Requests -> Replicas]
    /\ MaxEvents \in Nat /\ MaxRetries \in Nat \ {0} /\ MaxReported \in Nat \ {0}
    /\ MaxFaults \in Nat /\ MaxDrifts \in Nat

Entry == 1 .. MaxEvents

VARIABLES
    table,    \* audit_log_entries
    reading,  \* what record_event has read for each request, before it flushes
    docs,     \* the objects of the mirror; their key holds the id and the hash
    queue,    \* the ids waiting in each process
    upload,   \* what the worker of each process is uploading
    failed,   \* failed_entries of get_status, in the memory of each process
    frozen,   \* the freeze flag
    check,    \* a verification on its way
    faults, drifts,
    dropped,    \* history: entries a process had queued, or reported as failed, and forgot
    overlapped  \* history: two requests were recording events at the same time

trailVars == <<table, reading, docs, queue, upload, failed, frozen, check, faults, drifts,
               dropped, overlapped>>
log      == <<table, reading, overlapped>>
mirror   == <<docs, queue, upload, failed, dropped>>
watch    == <<frozen, check>>
bad      == <<faults, drifts>>

\* prev is the hash of the parent: 0, or its id and whether it is the hash the
\* parent was recorded with.  hash and body tell whether they are still those.
NoHash  == [id |-> 0, hash |-> TRUE]
NoRow   == [state |-> "unused", by |-> "none", prev |-> NoHash, hash |-> TRUE, body |-> TRUE]
NotReading == [on |-> FALSE, prev |-> NoHash]
NoCheck == [pc |-> "idle", rows |-> {}, docs |-> {}, todo |-> {}, quiet |-> FALSE,
            missed |-> FALSE, upTo |-> 0, split |-> {}]

TrailInit ==
    /\ table = [e \in Entry |-> NoRow]
    /\ reading = [q \in Requests |-> NotReading]
    /\ docs = {} /\ dropped = {}
    /\ failed = [r \in Replicas |-> <<>>]
    /\ queue = [r \in Replicas |-> <<>>]
    /\ upload = [r \in Replicas |-> [id |-> 0, attempts |-> 0]]
    /\ frozen = FALSE /\ overlapped = FALSE
    /\ check = NoCheck
    /\ faults = 0 /\ drifts = 0

In(state)    == {e \in Entry : table[e].state = state}
OpenOf(q)    == {e \in In("open") : table[e].by = q}
Used         == Entry \ In("unused")
HashOf(e)    == [id |-> e, hash |-> table[e].hash]
Mirrored(e)  == \E d \in docs : d.id = e
InMemory(r)  == Range(queue[r]) \cup ({upload[r].id} \ {0})
Pending      == UNION {InMemory(r) : r \in Replicas}
Reported     == UNION {Range(failed[r]) : r \in Replicas}

-----------------------------------------------------------------------------
\* Faulty variant: the session does not see the events it has flushed itself.
LatestCommitted(q) == In("kept")

\* _latest_hash: what the session of q sees
LatestSeen(q) == In("kept") \cup OpenOf(q)

Highest(ids) == CHOOSE e \in ids : \A x \in ids : x <= e

\* record_event is refused while frozen; it reads the hash of the latest event, ...
ReadParent(q) ==
    LET par == LatestSeen(q)
    IN  /\ ~frozen /\ ~reading[q].on /\ Cardinality(Used) < MaxEvents
        /\ reading' = [reading EXCEPT ![q] =
               [on |-> TRUE, prev |-> IF par = {} THEN NoHash ELSE HashOf(Highest(par))]]
        /\ overlapped' = (overlapped \/ In("open") # OpenOf(q) \/ \E p \in Requests : reading[p].on)
        /\ UNCHANGED <<table, mirror, watch, bad>>

\* ... and when it has it, flushes the row and queues it.
FlushRow(q) ==
    LET e == Cardinality(Used) + 1
    IN  /\ reading[q].on /\ e \in Entry
        /\ reading' = [reading EXCEPT ![q] = NotReading]
        /\ table' = [table EXCEPT ![e] =
               [NoRow EXCEPT !.state = "open", !.by = q, !.prev = reading[q].prev]]
        /\ queue' = [queue EXCEPT ![Home[q]] = Append(@, e)]
        /\ UNCHANGED <<overlapped, docs, upload, failed, dropped, watch, bad>>

Ended(qs, state) ==
    [e \in Entry |-> IF table[e].state = "open" /\ table[e].by \in qs
                       THEN [table[e] EXCEPT !.state = state, !.by = "none"] ELSE table[e]]

\* The request ends: commit, or a rollback that leaves its events on the queue.
CommitRequest(q) ==
    /\ OpenOf(q) # {} /\ ~reading[q].on
    /\ table' = Ended({q}, "kept")
    /\ UNCHANGED <<reading, overlapped, mirror, watch, bad>>

RollbackRequest(q) ==
    /\ OpenOf(q) # {} \/ reading[q].on
    /\ table' = Ended({q}, "undone")
    /\ reading' = [reading EXCEPT ![q] = NotReading]
    /\ UNCHANGED <<overlapped, mirror, watch, bad>>

-----------------------------------------------------------------------------
\* Faulty variant: a worker that is between two attempts goes on with the next entry.
TakeTwice(r) ==
    /\ queue[r] # <<>>
    /\ upload' = [upload EXCEPT ![r] = [id |-> Head(queue[r]), attempts |-> 1]]
    /\ queue' = [queue EXCEPT ![r] = Tail(@)]
    /\ UNCHANGED <<log, docs, failed, dropped, watch, bad>>

\* _run_worker takes the next entry.  Its claim is always won: an entry is queued
\* once, by the process that wrote it.
Take(r) ==
    /\ upload[r].id = 0 /\ queue[r] # <<>>
    /\ upload' = [upload EXCEPT ![r] = [id |-> Head(queue[r]), attempts |-> 1]]
    /\ queue' = [queue EXCEPT ![r] = Tail(@)]
    /\ UNCHANGED <<log, docs, failed, dropped, watch, bad>>

\* The queue holds the event as it was flushed, not as the row is now.
Upload(r) ==
    /\ upload[r].id # 0
    /\ docs' = docs \cup {[id |-> upload[r].id, hash |-> TRUE, body |-> TRUE]}
    /\ upload' = [upload EXCEPT ![r] = [id |-> 0, attempts |-> 0]]
    /\ UNCHANGED <<log, queue, failed, dropped, watch, bad>>

UploadFails(r) ==
    /\ upload[r].id # 0 /\ upload[r].attempts < MaxRetries
    /\ upload' = [upload EXCEPT ![r].attempts = @ + 1]
    /\ UNCHANGED <<log, docs, queue, failed, dropped, watch, bad>>

\* After the last attempt the entry is reported; the oldest reports make room.
GiveUp(r) ==
    LET report == Append(failed[r], upload[r].id)
    IN  /\ upload[r].id # 0 /\ upload[r].attempts = MaxRetries
        /\ upload' = [upload EXCEPT ![r] = [id |-> 0, attempts |-> 0]]
        /\ IF Len(report) > MaxReported
             THEN /\ failed' = [failed EXCEPT ![r] = Tail(report)]
                  /\ dropped' = dropped \cup {Head(report)}
             ELSE /\ failed' = [failed EXCEPT ![r] = report]
                  /\ UNCHANGED dropped
        /\ UNCHANGED <<log, docs, queue, watch, bad>>

\* A process ends, by a crash or a restart: its requests are rolled back, its queue,
\* the upload under way and its reports are gone.
Crash(r) ==
    /\ faults < MaxFaults /\ faults' = faults + 1
    /\ table' = Ended({q \in Requests : Home[q] = r}, "undone")
    /\ reading' = [q \in Requests |-> IF Home[q] = r THEN NotReading ELSE reading[q]]
    /\ queue' = [queue EXCEPT ![r] = <<>>]
    /\ upload' = [upload EXCEPT ![r] = [id |-> 0, attempts |-> 0]]
    /\ failed' = [failed EXCEPT ![r] = <<>>]
    /\ dropped' = dropped \cup InMemory(r) \cup Range(failed[r])
    /\ UNCHANGED <<overlapped, docs, watch, drifts>>

-----------------------------------------------------------------------------
\* What the verification is there to find: a stored row or object that changes or
\* vanishes.  A row may change with its hash left as it was, or made to fit.
Drift(e, newRow, newDocs) ==
    /\ drifts < MaxDrifts /\ drifts' = drifts + 1
    /\ table' = [table EXCEPT ![e] = newRow]
    /\ docs' = newDocs
    /\ UNCHANGED <<reading, overlapped, queue, upload, failed, dropped, watch, faults>>

RowDrifts(e) ==
    /\ table[e].state = "kept"
    /\ \E new \in {[table[e] EXCEPT !.body = FALSE],
                   [table[e] EXCEPT !.body = FALSE, !.hash = FALSE],
                   [table[e] EXCEPT !.state = "lost"]} : Drift(e, new, docs)

ObjectDrifts(e) ==
    /\ table[e].state = "kept"
    /\ \E d \in {x \in docs : x.id = e} :
          \/ Drift(e, table[e], docs \ {d})
          \/ Drift(e, table[e], (docs \ {d}) \cup {[d EXCEPT !.body = FALSE]})

-----------------------------------------------------------------------------
\* The events on which log and mirror disagree, by the side that is wrong: the row is
\* as it was recorded and its object is not there or another, or the row has changed
\* and the object has not.  A drain after a row was rewritten puts the new row beside
\* the old object, and from then on either may count: such an event is not in Split.
Original(e) == [id |-> e, hash |-> TRUE, body |-> TRUE]

Split ==
    LET intact(e) == table[e].state = "kept" /\ table[e].hash /\ table[e].body
    IN  [side : {"mirror"}, id : {e \in Entry : intact(e) /\ Original(e) \notin docs}]
          \cup
        [side : {"log"}, id : {e \in In("kept") \cup In("lost") :
                                  ~intact(e) /\ {d \in docs : d.id = e} = {Original(e)}}]

Settled == In("open") = {} /\ Pending = {}

Snapshot ==
    {[e |-> e, prev |-> table[e].prev, hash |-> table[e].hash, body |-> table[e].body] : e \in In("kept")}

\* audit_verify_run --drain: the rows whose key the mirror does not have are uploaded
\* first, one by one, as the table has them.
DrainList ==
    LET missing == {e \in In("kept") : ~ \E d \in docs : d.id = e /\ d.hash = table[e].hash}
    IN  /\ check.pc = "idle" /\ missing # {}
        /\ check' = [check EXCEPT !.pc = "draining",
                                  !.todo = missing, !.rows = Snapshot]
        /\ UNCHANGED <<log, mirror, frozen, bad>>

DrainPut ==
    /\ check.pc = "draining"
    /\ \E x \in check.rows :
          /\ x.e \in check.todo
          /\ docs' = docs \cup {[id |-> x.e, hash |-> x.hash, body |-> x.body]}
          /\ check' = [check EXCEPT !.todo = @ \ {x.e}]
    /\ UNCHANGED <<log, queue, upload, failed, dropped, frozen, bad>>

\* verify_chain_integrity reads the log, ...
ReadRows ==
    /\ check.pc \in {"idle", "draining"} /\ check.todo = {}
    /\ check' = [NoCheck EXCEPT !.pc = "rows", !.quiet = Settled, !.upTo = Cardinality(Used),
                                !.split = Split,
                                !.rows = Snapshot]
    /\ UNCHANGED <<log, mirror, frozen, bad>>

\* A row that is gone shows by its object alone.
Shows(x, objects) ==
    x.side = "mirror" \/ Original(x.id) \in objects \/ \E c \in check.rows : c.e = x.id

\* ... then the mirror, one object after the other.  An object whose download raises is
\* skipped.  Of two objects of one id the one whose key sorts last counts.
ReadDocs ==
    /\ check.pc = "rows"
    /\ \E chosen \in SUBSET docs :
          /\ \A c, d \in chosen : c.id = d.id => c = d
          /\ check' = [check EXCEPT !.pc = "docs", !.docs = chosen,
                                    !.missed = \E d \in docs : \A c \in chosen : c.id # d.id,
                                    !.split = {x \in @ \cap Split : Shows(x, chosen)},
                                    !.quiet = @ /\ check.upTo = Cardinality(Used)]
    /\ UNCHANGED <<log, mirror, frozen, bad>>

\* _check_subchain, in the order of the ids
Linked(rows) ==
    \A x \in rows :
        LET before == {y \in rows : y.e < x.e}
        IN  x.prev = IF before = {} THEN NoHash
                     ELSE LET last == CHOOSE y \in before : \A z \in before : z.e <= y.e
                          IN  [id |-> last.e, hash |-> last.hash]
Recomputes(x) == x.hash = x.body

\* Faulty variant: the bodies of the objects are not compared.
SameHashInMirror(rows, objects) ==
    /\ \A x \in rows : \E d \in objects : d.id = x.e /\ d.hash = x.hash
    /\ {d.id : d \in objects} \subseteq {x.e : x \in rows}

SameInMirror(rows, objects) ==
    /\ \A x \in rows : [id |-> x.e, hash |-> x.hash, body |-> x.body] \in objects
    /\ {d.id : d \in objects} \subseteq {x.e : x \in rows}

\* The result, once both were read: ok, or one of those that set the freeze flag.
Passes ==
    /\ Linked(check.rows) /\ \A x \in check.rows : Recomputes(x)
    /\ SameInMirror(check.rows, check.docs)

Conclude ==
    /\ check.pc = "docs"
    /\ frozen' = (frozen \/ ~Passes)
    /\ check' = NoCheck
    /\ UNCHANGED <<log, mirror, bad>>

\* An upload of the drain, or a read, raises, or the script is killed.
Abandon ==
    /\ check.pc # "idle" /\ check' = NoCheck
    /\ UNCHANGED <<log, mirror, frozen, bad>>

\* clear_freeze, by an administrator
ClearFreeze ==
    /\ frozen /\ frozen' = FALSE
    /\ UNCHANGED <<log, mirror, check, bad>>

-----------------------------------------------------------------------------
Work(r) == Take(r) \/ Upload(r) \/ UploadFails(r) \/ GiveUp(r)

TrailNext ==
    \/ \E q \in Requests : ReadParent(q) \/ FlushRow(q) \/ CommitRequest(q) \/ RollbackRequest(q)
    \/ \E r \in Replicas : Work(r) \/ Crash(r)
    \/ \E e \in Entry : RowDrifts(e) \/ ObjectDrifts(e)
    \/ DrainList \/ DrainPut \/ ReadRows \/ ReadDocs \/ Conclude \/ Abandon \/ ClearFreeze

TrailSpec == TrailInit /\ [][TrailNext]_trailVars

\* The worker of each process goes on: it catches what its uploads raise.
FairTrailSpec == TrailSpec /\ \A r \in Replicas : WF_trailVars(Work(r))

-----------------------------------------------------------------------------
Hash   == [id : {0} \cup Entry, hash : BOOLEAN]
Row    == [state : {"unused", "open", "kept", "undone", "lost"}, by : Requests \cup {"none"},
           prev : Hash, hash : BOOLEAN, body : BOOLEAN]
Copy   == [e : Entry, prev : Hash, hash : BOOLEAN, body : BOOLEAN]
Object == [id : Entry, hash : BOOLEAN, body : BOOLEAN]
Sides  == [side : {"mirror", "log"}, id : Entry]
Checks == [pc : {"idle", "draining", "rows", "docs"}, rows : SUBSET Copy, docs : SUBSET Object,
           todo : SUBSET Entry, quiet : BOOLEAN, missed : BOOLEAN, upTo : Nat, split : SUBSET Sides]

TrailTypeOK ==
    /\ table \in [Entry -> Row] /\ reading \in [Requests -> [on : BOOLEAN, prev : Hash]]
    /\ docs \in SUBSET Object
    /\ queue \in [Replicas -> Seq(Entry)]
    /\ upload \in [Replicas -> [id : {0} \cup Entry, attempts : 0 .. MaxRetries]]
    /\ failed \in [Replicas -> Seq(Entry)] /\ dropped \in SUBSET Entry
    /\ check \in Checks /\ frozen \in BOOLEAN /\ overlapped \in BOOLEAN
    /\ faults \in 0 .. MaxFaults /\ drifts \in 0 .. MaxDrifts

\* An event that was committed is in the mirror, waits for it, is reported as failed,
\* or was forgotten by its process, when it ended or to make room for later reports:
\* there is no other way to lose one.  Events whose object vanished are the
\* verification's business.
EveryLossIsKnown ==
    \A e \in In("kept") : Mirrored(e) \/ e \in Pending \cup Reported \cup dropped
                          \/ drifts > 0

\* A verification that ran while nothing was open or waiting and read every object,
\* after requests that did not overlap and were not undone, uploads that did not fail
\* and processes that forgot nothing, finds nothing: an alarm has one of these causes,
\* or a drift.
QuietVerificationPasses ==
    /\ check.pc = "docs" /\ check.quiet /\ ~check.missed
    /\ ~overlapped /\ In("undone") = {} /\ Reported \cup dropped = {} /\ drifts = 0
    => Passes

\* No verification passes over an event on which log and mirror disagree, from before
\* it read the one until it had read the other, however many drifts, uploads and
\* drains go on meanwhile and whatever it fails to read, unless the row is gone and its
\* object is what could not be read.
DisagreementIsFound == check.pc = "docs" /\ Passes => check.split = {}

\* Every committed event gets to the mirror unless its uploads fail or its process ends.
CommittedIsMirrored ==
    \A e \in Entry : table[e].state = "kept" ~>
        (Mirrored(e) \/ e \in Reported \cup dropped \/ drifts > 0)
=============================================================================

---------------------------- MODULE Deliverables ----------------------------
(***************************************************************************)
(* One deliverable: a head row and insert-only version snapshots.  A       *)
(* request starts a background producer that runs a chain of agents, each  *)
(* appending a version, and ends at a gate: an approval item for the queue *)
(* or a co-development gate a person resumes.  Meanwhile people edit, roll *)
(* back, resume and decide.  Every actor has its own database session: it  *)
(* loads the row, works on its copy, for a chain during a call of an agent *)
(* that lasts minutes, and then writes the columns it changed.  Nothing is *)
(* locked and the version it writes is the one of its copy plus one.       *)
(***************************************************************************)
EXTENDS Naturals

CONSTANTS
    Producer,       \* the background task of the request
    People,         \* request handlers of persons
    ChainLength,    \* steps of the chain; every registered type has two
    EditStatuses,   \* the statuses people set by hand
    MaxWrites,      \* bound: nobody starts to write after so many snapshots
    MaxFaults       \* bound on crashes of the producer and failed updates of its own

ASSUME DeliverablesAssumption ==
    /\ Producer \notin People
    /\ ChainLength \in Nat \ {0, 1}
    /\ EditStatuses \subseteq {"draft", "in_progress", "awaiting_human", "approved",
                             "rejected", "published", "superseded"}
    /\ MaxWrites \in Nat /\ MaxFaults \in Nat

VARIABLES
    head,       \* the deliverables row; content and meta are single columns
    versions,   \* the deliverable_versions rows; n tells their order
    writes,     \* how many snapshots there are
    raced,      \* whether a session wrote over a version it had not loaded
    item,       \* the approval item of the gate
    request,    \* the project request: its status, whether it names its output
    session,    \* what each actor is doing, with its copy of the row
    faults

store == <<head, versions, writes, raced>>
vars  == <<head, versions, writes, raced, item, request, session, faults>>

Actors == People \cup {Producer}
Statuses == {"draft", "in_progress", "awaiting_human", "approved", "rejected",
             "published", "superseded"}

NoHead == [status |-> "none", version |-> 0, content |-> 0,
           meta |-> [done |-> 0, codev |-> FALSE]]

Idle == [pc |-> "idle", op |-> "none", copy |-> NoHead, step |-> 0]

Init ==
    /\ head = NoHead
    /\ versions = {}
    /\ writes = 0
    /\ raced = FALSE
    /\ item = "none"
    /\ request = [status |-> "none", output |-> FALSE]
    /\ session = [s \in Actors |-> Idle]
    /\ faults = 0

At(s, pc)  == session[s].pc = pc
Go(s, new) == session' = [session EXCEPT ![s] =
                  [f \in DOMAIN @ |-> IF f \in DOMAIN new THEN new[f] ELSE @[f]]]
End(s)     == session' = [session EXCEPT ![s] = [Idle EXCEPT !.pc = IF s = Producer
                                                                  THEN "over" ELSE "idle"]]
Fault      == faults < MaxFaults /\ faults' = faults + 1

\* An update of the request by its background task; a failure of it is logged or not,
\* and forgotten.
Update(new) ==
    \/ request' = new /\ UNCHANGED faults
    \/ Fault /\ UNCHANGED request

-----------------------------------------------------------------------------
\* The UPDATE names the columns whose value differs from the one loaded.  All but an
\* edit and a rollback note something in meta, and write that column as they loaded it.
Merged(copy, new, by) ==
    [f \in DOMAIN head |-> IF new[f] = copy[f] /\ (f = "meta" => by = "person")
                            THEN head[f] ELSE new[f]]

\* Faulty variant: the snapshot is taken from the copy before the change.
AppendVersionOfPrior(s, new, by) ==
    LET next == [new EXCEPT !.version = session[s].copy.version + 1]
    IN  /\ head' = Merged(session[s].copy, next, by)
        /\ versions' = versions \cup {[n |-> writes + 1, version |-> next.version,
                           status |-> session[s].copy.status, content |-> session[s].copy.content,
                           by |-> by]}
        /\ writes' = writes + 1
        /\ raced' = (raced \/ head.version # session[s].copy.version)

\* append_deliverable_version_service, and the same three assignments in rollback:
\* the copy takes the new values and the next version, the snapshot is taken of it.
AppendVersion(s, new, by) ==
    LET next == [new EXCEPT !.version = session[s].copy.version + 1]
    IN  /\ head' = Merged(session[s].copy, next, by)
        /\ versions' = versions \cup {[n |-> writes + 1, version |-> next.version,
                           status |-> next.status, content |-> next.content,
                           by |-> by]}
        /\ writes' = writes + 1
        /\ raced' = (raced \/ head.version # session[s].copy.version)

\* The link to a Drive document is added to the content of the copy; the document is
\* no content of its own here.
WriteLink(s) ==
    /\ head' = [head EXCEPT !.content = session[s].copy.content]
    /\ raced' = (raced \/ head.version # session[s].copy.version)
    /\ UNCHANGED <<versions, writes>>

\* A content nobody has written before.
Fresh == writes + 1

\* create_deliverable_service: version 1, a draft without meta, and its snapshot.
Create(by) ==
    /\ head' = [status |-> "draft", version |-> 1, content |-> Fresh, meta |-> NoHead.meta]
    /\ versions' = {[n |-> 1, version |-> 1, status |-> "draft", content |-> Fresh,
                     by |-> by]}
    /\ writes' = 1
    /\ UNCHANGED raced

-----------------------------------------------------------------------------
\* POST /v1/deliverables
CreateByHand(p) ==
    /\ head = NoHead /\ request.status = "none"
    /\ Create("person")
    /\ UNCHANGED <<item, request, session, faults>>

\* POST /v1/requests, then its background task, which marks a request whose
\* answer is to be a deliverable complete before it runs the chain.
Submit ==
    /\ head = NoHead /\ request.status = "none"
    /\ request' = [request EXCEPT !.status = "processing"]
    /\ Go(Producer, [pc |-> "dispatched"])
    /\ UNCHANGED <<store, item, faults>>

Dispatch ==
    /\ At(Producer, "dispatched")
    /\ Update([request EXCEPT !.status = "complete"])
    /\ Go(Producer, [pc |-> "calling", step |-> 0])
    /\ UNCHANGED <<store, item>>

\* run_deliverable_chain, first step: the agent has answered, the row is created.
FirstStep(s) ==
    /\ At(s, "calling") /\ session[s].step = 0
    /\ Create("chain")
    /\ Go(s, [pc |-> "created"])
    /\ UNCHANGED <<item, request, faults>>

\* The lineage is written in a second transaction, without a version.
Label(s) ==
    /\ At(s, "created")
    /\ head' = [head EXCEPT !.meta = [NoHead.meta EXCEPT !.done = 1]]
    /\ Go(s, [pc |-> "calling", step |-> 1, copy |-> head'])
    /\ UNCHANGED <<versions, writes, raced, item, request, faults>>

\* Faulty variant: the last agent approves its own work.
NextStepApproves(s) ==
    LET step == session[s].step
        last == step = ChainLength - 1
        new  == [session[s].copy EXCEPT !.content = Fresh,
                    !.status = IF last THEN "approved" ELSE "in_progress",
                    !.meta.done = step + 1]
    IN  /\ At(s, "calling") /\ step > 0
        /\ AppendVersion(s, new, "chain")
        /\ Go(s, [pc |-> IF last THEN "finished" ELSE "calling", step |-> step + 1, copy |-> head'])
        /\ UNCHANGED <<item, request, faults>>

\* A later step: the copy is as old as the call of the agent is long.
NextStep(s) ==
    LET step == session[s].step
        last == step = ChainLength - 1
        new  == [session[s].copy EXCEPT !.content = Fresh,
                    !.status = IF last THEN "awaiting_human" ELSE "in_progress",
                    !.meta.done = step + 1]
    IN  /\ At(s, "calling") /\ step > 0
        /\ AppendVersion(s, new, "chain")
        /\ Go(s, [pc |-> IF last THEN "finished" ELSE "calling", step |-> step + 1, copy |-> head'])
        /\ UNCHANGED <<item, request, faults>>

\* Faulty variant: a chain that produced nothing leaves its request as it is.
AgentFailsSilently(s) ==
    /\ At(s, "calling")
    /\ IF session[s].step = 0 THEN End(s) ELSE Go(s, [pc |-> "finished"])
    /\ UNCHANGED <<store, item, request, faults>>

\* An agent that cannot be reached stops the chain at its last good version; a
\* request whose chain produced nothing is marked failed, if the update gets through.
AgentFails(s) ==
    /\ At(s, "calling")
    /\ IF session[s].step = 0
       THEN End(s) /\ Update([request EXCEPT !.status = "failed"])
       ELSE Go(s, [pc |-> "finished"]) /\ UNCHANGED <<request, faults>>
    /\ UNCHANGED <<store, item>>

\* A chain that ran to its end may author its content to Drive and store the link in
\* the content, without a version: the copy is as old as the call of Drive is long.
StoreLink ==
    /\ At(Producer, "finished") /\ session[Producer].step = ChainLength
    /\ WriteLink(Producer)
    /\ Go(Producer, [pc |-> "authored", copy |-> head'])
    /\ UNCHANGED <<item, request, faults>>

\* The request is linked to its deliverable.
Link ==
    /\ At(Producer, "finished") \/ At(Producer, "authored")
    /\ Go(Producer, [pc |-> "linked"])
    /\ Update([status |-> "complete", output |-> TRUE])
    /\ UNCHANGED <<store, item>>

\* The gate of a finished chain: an approval item, or for a type whose gate is
\* co-development a mark in the row's meta, read and written back as it is now.
OpenGate ==
    /\ At(Producer, "linked")
    /\ session[Producer].copy.status = "awaiting_human"
    /\ \/ item' = "pending" /\ UNCHANGED <<store, faults>>
       \/ /\ head' = [head EXCEPT !.meta.codev = TRUE]
          /\ UNCHANGED <<versions, writes, raced, item, faults>>
       \/ Fault /\ UNCHANGED <<store, item>>
    /\ End(Producer)
    /\ UNCHANGED request

NoGate ==
    /\ At(Producer, "linked")
    /\ session[Producer].copy.status # "awaiting_human"
    /\ End(Producer)
    /\ UNCHANGED <<store, item, request, faults>>

-----------------------------------------------------------------------------
\* A person's request (PATCH, rollback or resume) loads the row; none of the routes
\* looks at its status.
Load(p) ==
    /\ At(p, "idle")
    /\ head # NoHead /\ writes < MaxWrites
    /\ Go(p, [pc |-> "loaded", copy |-> head])
    /\ UNCHANGED <<store, item, request, faults>>

\* PATCH: new content, a new status, or both.
Edit(p) ==
    /\ At(p, "loaded") /\ session[p].op = "none"
    /\ \E status \in EditStatuses \cup {session[p].copy.status}, content \in {session[p].copy.content, Fresh} :
          AppendVersion(p, [session[p].copy EXCEPT !.status = status, !.content = content],
                        "person")
    /\ End(p)
    /\ UNCHANGED <<item, request, faults>>

\* A rollback asks for a number, and gets the oldest snapshot that has it.
Reached(v) == \A u \in versions : u.version = v.version => v.n <= u.n

Rollback(p) ==
    /\ At(p, "loaded") /\ session[p].op = "none"
    /\ \E v \in versions :
          /\ Reached(v)
          /\ AppendVersion(p, [session[p].copy EXCEPT !.status = v.status,
                                                      !.content = v.content], "person")
    /\ End(p)
    /\ UNCHANGED <<item, request, faults>>

\* resume without its chain: the contribution is accepted as it is.
Accept(p) ==
    /\ At(p, "loaded") /\ session[p].op = "none"
    /\ AppendVersion(p, [session[p].copy EXCEPT !.status = "approved", !.content = Fresh],
                     "resume")
    /\ Go(p, [pc |-> "answering", op |-> "accept", copy |-> NoHead])
    /\ UNCHANGED <<item, request, faults>>

\* resume with its chain: the contribution is a version in progress.
Resume(p) ==
    /\ At(p, "loaded") /\ session[p].op = "none"
    /\ AppendVersion(p, [session[p].copy EXCEPT !.status = "in_progress", !.content = Fresh],
                     "resume")
    /\ Go(p, [pc |-> "resumed", copy |-> head'])
    /\ UNCHANGED <<item, request, faults>>

\* The rest of the chain runs on the row loaded anew.  A row without lineage counts
\* no step as done, and the chain starts afresh on another row, not followed here.
RunRest(p) ==
    LET done == session[p].copy.meta.done
    IN  /\ At(p, "resumed")
        /\ IF done \in 1 .. ChainLength - 1
           THEN Go(p, [pc |-> "calling", copy |-> head, step |-> done])
           ELSE Go(p, [pc |-> "answering", copy |-> NoHead])
        /\ UNCHANGED <<store, item, request, faults>>

\* A resumed chain has no gate of its own: the handler goes on to its answer.
Resumed(p) ==
    /\ At(p, "finished")
    /\ Go(p, [pc |-> "answering", copy |-> NoHead, step |-> 0])
    /\ UNCHANGED <<store, item, request, faults>>

Answer(p) ==
    /\ At(p, "answering")
    /\ End(p)
    /\ UNCHANGED <<store, item, request, faults>>

\* Before it answers it may author what is finished to Drive; another session loads
\* the row anew and stores the link.
LoadForLink(p) ==
    /\ At(p, "answering")
    /\ session[p].op = "accept" \/ head.status \in {"approved", "awaiting_human"}
    /\ Go(p, [pc |-> "linking", copy |-> head])
    /\ UNCHANGED <<store, item, request, faults>>

LinkAnswer(p) ==
    /\ At(p, "linking")
    /\ WriteLink(p)
    /\ End(p)
    /\ UNCHANGED <<item, request, faults>>

\* The approval item is decided; its deliverable is finalized afterwards.
Decide(p, verdict) ==
    /\ At(p, "idle")
    /\ item = "pending"
    /\ item' = verdict
    /\ Go(p, [pc |-> "deciding", op |-> verdict])
    /\ UNCHANGED <<store, request, faults>>

\* Faulty variant: the deliverable is finalized whatever its status.
FinalizeLoadAlways(p) ==
    /\ At(p, "deciding")
    /\ Go(p, [pc |-> "loaded", copy |-> head])
    /\ UNCHANGED <<store, item, request, faults>>

\* A deliverable that does not wait any more is left alone, and the item is
\* executed all the same.
FinalizeLoad(p) ==
    /\ At(p, "deciding")
    /\ IF head.status = "awaiting_human"
       THEN Go(p, [pc |-> "loaded", copy |-> head]) /\ UNCHANGED item
       ELSE End(p) /\ item' = IF session[p].op = "approved" THEN "executed" ELSE item
    /\ UNCHANGED <<store, request, faults>>

\* The commit of the new version also carries the item's EXECUTED.
Finalize(p) ==
    /\ At(p, "loaded") /\ session[p].op \in {"approved", "rejected"}
    /\ AppendVersion(p, [session[p].copy EXCEPT !.status = session[p].op], "gate")
    /\ item' = IF session[p].op = "approved" THEN "executed" ELSE item
    /\ End(p)
    /\ UNCHANGED <<request, faults>>

\* The process that serves the session dies; only the producer's deaths are counted.
Crash(s) ==
    /\ session[s].pc \notin {"idle", "over"}
    /\ IF s = Producer THEN Fault ELSE UNCHANGED faults
    /\ End(s)
    /\ UNCHANGED <<store, item, request>>

Produce ==
    \/ Dispatch \/ FirstStep(Producer) \/ Label(Producer) \/ NextStep(Producer)
    \/ AgentFails(Producer) \/ StoreLink \/ Link \/ OpenGate \/ NoGate

Next ==
    \/ Submit \/ Produce
    \/ \E p \in People :
          \/ CreateByHand(p)
          \/ Load(p) \/ Edit(p) \/ Rollback(p) \/ Accept(p)
          \/ Resume(p) \/ RunRest(p) \/ NextStep(p) \/ AgentFails(p) \/ Resumed(p)
          \/ Answer(p) \/ LoadForLink(p) \/ LinkAnswer(p)
          \/ \E verdict \in {"approved", "rejected"} : Decide(p, verdict)
          \/ FinalizeLoad(p) \/ Finalize(p)
    \/ \E s \in Actors : Crash(s)

Spec == Init /\ [][Next]_vars

-----------------------------------------------------------------------------
Row == [status : Statuses \cup {"none"}, version : Nat, content : Nat,
        meta : [done : 0 .. ChainLength, codev : BOOLEAN]]

Snapshot == [n : Nat \ {0}, version : Nat \ {0}, status : Statuses, content : Nat,
             by : {"chain", "person", "resume", "gate"}]

Session == [pc : {"idle", "dispatched", "calling", "created", "finished", "linked", "authored",
                  "loaded", "resumed", "answering", "linking", "deciding", "over"},
            op : {"none", "accept", "approved", "rejected"},
            copy : Row,
            step : 0 .. ChainLength]

TypeOK ==
    /\ head \in Row
    /\ versions \subseteq Snapshot /\ \A v \in versions : v.n <= writes
    /\ writes \in Nat
    /\ raced \in BOOLEAN
    /\ item \in {"none", "pending", "approved", "executed", "rejected"}
    /\ request \in [status : {"none", "processing", "complete", "failed"}, output : BOOLEAN]
    /\ session \in [Actors -> Session]
    /\ faults \in 0 .. MaxFaults

Shown(x) == <<x.version, x.status, x.content>>

\* "Never destructive".  As long as no session wrote over another, every snapshot is the
\* one a rollback to its number gets, and what the head shows is in one of them.  Where
\* sessions overlap two snapshots may have one number, and a rollback gets the older of
\* them alone; but even then the content and the status of the head were each recorded.
NothingIsLost ==
    head # NoHead =>
        /\ ~raced => /\ \A v \in versions : Reached(v)
                     /\ \E v \in versions : Shown(v) = Shown(head)
        /\ \E v \in versions : v.content = head.content
        /\ \E v \in versions : v.status = head.status

\* Agents never finalize: a deliverable is approved, rejected or published only if a
\* person or the approval queue gave it that status, also where columns written by
\* overlapping sessions mix.
PeopleFinalize ==
    head.status \in {"approved", "rejected", "published", "superseded"} =>
        \E v \in versions : v.by # "chain" /\ v.status = head.status

\* What the queue approves or rejects is the version that was waiting, unchanged.
GateClosesWhatWaits ==
    ~raced => \A v \in versions : v.by = "gate" =>
        \E u \in versions : /\ u.version + 1 = v.version
                            /\ u.status = "awaiting_human" /\ u.content = v.content

\* "So it doesn't sit falsely complete": a request is marked complete before its chain
\* ran; once its background task is over it has its output or has failed, unless the
\* process died or an update of it was lost.
CompleteMeansOutput ==
    At(Producer, "over") /\ request.status = "complete" => request.output \/ faults > 0

\* Snapshots are numbered in the order they were taken, none twice; and as long as no
\* session wrote over another, that number is their version and the head has the last one.
NumberedInOrder ==
    /\ {v.n : v \in versions} = 1 .. writes
    /\ \A u, v \in versions : u.n = v.n => u = v
    /\ ~raced => head.version = writes /\ \A v \in versions : v.version = v.n

\* Snapshots are inserted and never changed or removed; and unless it writes over another,
\* a session that changes what the head shows inserts the next version, and the head
\* shows what is in it.
HistoryOnlyGrows ==
    [][/\ versions \subseteq versions'
       /\ \/ raced'
          \/ versions' = versions /\ Shown(head') = Shown(head)
          \/ \E v \in versions' \ versions :
                /\ versions' = versions \cup {v}
                /\ v.version = head.version + 1 /\ Shown(head') = Shown(v)]_vars

-----------------------------------------------------------------------------
\* A claim the code does not keep: the head is "versioned monotonically".
VersionsAreMonotone == [][head'.version >= head.version]_vars
=============================================================================

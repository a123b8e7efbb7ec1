------------------------------- MODULE DevChat -------------------------------
(***************************************************************************)
(* The developers' chat.  A message of the user becomes a task; a worker   *)
(* polls for queued tasks, writes a brief into a directory and waits for   *)
(* the result file of a bridge, which runs a coding agent, one task at a   *)
(* time.  The report of the worker closes the newest open reply of the     *)
(* thread, whichever task that reply was made for.                         *)
(*                                                                         *)
(* A route is cut at its awaits where another can come between.  What      *)
(* keeps others out is the lock of a row its session has written: the      *)
(* session writes what it has changed before each of its queries, and      *)
(* commits at the end.                                                     *)
(*                                                                         *)
(* Left out is how a task ended, for nothing asks: completed, failed and   *)
(* cancelled are all "ended" here, and such a reply is "closed".           *)
(*                                                                         *)
(* Assumed: the thread exists; its user cancels one task at a time.  A     *)
(* request that the database aborts for a deadlock is one that dies.       *)
(***************************************************************************)
EXTENDS Naturals, Sequences, FiniteSets

CONSTANTS
    MaxMessages,   \* bound on the messages sent
    MaxHandlers,   \* bound, for each, on the handlers the worker runs for it at a time
    MaxChatFaults  \* bound on crashes, lost answers and slow calls together

ASSUME ChatAssumption ==
    /\ {MaxMessages, MaxChatFaults} \subseteq Nat
    /\ MaxHandlers \in [1 .. MaxMessages -> Nat]

Messages == 1 .. MaxMessages
Slots    == UNION {{t} \X (1 .. MaxHandlers[t]) : t \in Messages}
Nothing  == 0

VARIABLES
    busy,      \* dev_chat_threads.state is "in_progress"
    work,      \* dev_chat_tasks.status; "checked" while the request goes on
    reply,     \* the agent's message: open or not, and the task whose report closed it
    sent,      \* the messages in the order of their rows
    handler,   \* the handlers of the worker, by task
    briefs, results, stops,   \* the files of the directory
    bridge,    \* the task whose agent runs
    chatFaults,
    report,    \* the request that reports a task, by task: how far it is, the handler that
               \* waits for its answer, the reply it picked, whether it frees the thread
    cancel,    \* the request that cancels a task, likewise
    raced,     \* history: two messages were sent at the same time
    doubled    \* history: two reports closed one reply

chatVars == <<busy, work, reply, sent, handler, briefs, results, stops, bridge,
              chatFaults, report, cancel, raced, doubled>>
thread   == <<busy, work, reply, sent, raced, doubled>>
requests == <<report, cancel>>
directory == <<briefs, results, stops>>

NoReport == [stage |-> "none", by |-> 0, pick |-> Nothing, frees |-> FALSE]

ChatInit ==
    /\ busy = FALSE /\ sent = <<>>
    /\ work = [t \in Messages |-> "none"]
    /\ reply = [t \in Messages |-> [status |-> "none", of |-> Nothing]]
    /\ handler = [s \in Slots |-> "unused"]
    /\ briefs = {} /\ results = {} /\ stops = {}
    /\ bridge = Nothing
    /\ report = [t \in Messages |-> NoReport] /\ cancel = [t \in Messages |-> "none"]
    /\ chatFaults = 0 /\ raced = FALSE /\ doubled = FALSE

ChatFault == chatFaults < MaxChatFaults /\ chatFaults' = chatFaults + 1

OpenReplies == {t \in Messages : reply[t].status = "queued"}

\* A request has written the row of the task, and has still to commit.
TaskLocked(t) == report[t].stage # "none" \/ cancel[t] \in {"frees", "keeps"}

\* A report has written the reply, and has still to commit.
ReplyLocked(u) ==
    u # Nothing /\ \E t \in Messages : report[t].stage = "loaded" /\ report[t].pick = u

-----------------------------------------------------------------------------
\* Faulty variant: a message is taken while another is worked on.
CheckNothing(t) ==
    /\ work[t] = "none" /\ \A u \in 1 .. t - 1 : work[u] # "none"
    /\ work' = [work EXCEPT ![t] = "checked"]
    /\ UNCHANGED <<busy, reply, sent, handler, directory, bridge, chatFaults, requests, raced,
                   doubled>>

\* send_message loads the thread, and refuses if it is busy ...
CheckThread(t) ==
    /\ work[t] = "none" /\ \A u \in 1 .. t - 1 : work[u] # "none"
    /\ ~busy
    /\ work' = [work EXCEPT ![t] = "checked"]
    /\ UNCHANGED <<busy, reply, sent, handler, directory, bridge, chatFaults, requests, raced,
                   doubled>>

\* ... then inserts the task and the empty reply.  What follows the commit raises: the
\* settings have no WORKER_URL.  The task stays queued.
SendMessage(t) ==
    /\ work[t] = "checked"
    /\ work' = [work EXCEPT ![t] = "queued"]
    /\ reply' = [reply EXCEPT ![t].status = "queued"]
    /\ sent' = Append(sent, t)
    /\ busy' = TRUE
    /\ raced' = (raced \/ \E u \in Messages \ {t} : work[u] = "checked")
    /\ UNCHANGED <<handler, directory, bridge, chatFaults, requests, doubled>>

\* cancel_task refuses a task that has ended ...
CancelCheck(t) ==
    /\ (\A u \in Messages : cancel[u] = "none") /\ work[t] \in {"queued", "running"}
    /\ cancel' = [cancel EXCEPT ![t] = "checked"]
    /\ UNCHANGED <<thread, handler, directory, bridge, chatFaults, report>>

\* ... writes the cancel file, which no failure takes back ...
CancelFile(t) ==
    /\ cancel[t] = "checked"
    /\ cancel' = [cancel EXCEPT ![t] = "filed"]
    /\ stops' = stops \cup {t}
    /\ UNCHANGED <<thread, handler, briefs, results, bridge, chatFaults, report>>

\* ... loads the thread, whose state it writes only if that is a change ...
CancelLoad(t) ==
    /\ cancel[t] = "filed" /\ ~TaskLocked(t)
    /\ cancel' = [cancel EXCEPT ![t] = IF busy THEN "frees" ELSE "keeps"]
    /\ UNCHANGED <<thread, handler, directory, bridge, chatFaults, report>>

\* ... and closes every open reply of the thread: from the query for them to the commit it
\* holds the thread's row, without which no report commits.
CancelClose(t) ==
    /\ cancel[t] \in {"frees", "keeps"} /\ \A u \in OpenReplies : ~ReplyLocked(u)
    /\ work' = [work EXCEPT ![t] = "ended"]
    /\ reply' = [u \in Messages |->
           IF u \in OpenReplies THEN [reply[u] EXCEPT !.status = "closed"] ELSE reply[u]]
    /\ busy' = (busy /\ cancel[t] # "frees")
    /\ cancel' = [cancel EXCEPT ![t] = "none"]
    /\ UNCHANGED <<sent, handler, directory, bridge, chatFaults, report, raced, doubled>>

-----------------------------------------------------------------------------
\* _poll_once starts a handler for each queued task, also for one that has a handler
\* which is still busy marking it: that takes a call slower than the poll interval.
Handled(t) == \E n \in 1 .. MaxHandlers[t] : handler[<<t, n>>] # "unused"

PollTasks ==
    LET queued  == {t \in Messages : work[t] = "queued"}
        slot(t) == CHOOSE n \in 1 .. MaxHandlers[t] :
                       handler[<<t, n>>] = "unused" /\ \A m \in 1 .. n - 1 : handler[<<t, m>>] # "unused"
    IN  /\ queued # {}
        /\ \A t \in queued : \E n \in 1 .. MaxHandlers[t] : handler[<<t, n>>] = "unused"
        /\ IF \E t \in queued : Handled(t) THEN ChatFault ELSE UNCHANGED chatFaults
        /\ handler' = [s \in Slots |->
               IF s[1] \in queued /\ s[2] = slot(s[1]) THEN "listed" ELSE handler[s]]
        /\ UNCHANGED <<thread, directory, bridge, requests>>

Goto(s, pc) == handler' = [handler EXCEPT ![s] = pc]

\* worker_mark_running sets the status, whatever it is by now.
SetRunning(t) == ~TaskLocked(t) /\ work' = [work EXCEPT ![t] = "running"]

\* The task is marked, and its brief written as soon as the answer is there.
MarkRunning(s) ==
    /\ handler[s] = "listed" /\ SetRunning(s[1])
    /\ briefs' = briefs \cup {s[1]}
    /\ Goto(s, "waiting")
    /\ UNCHANGED <<busy, reply, sent, results, stops, bridge, chatFaults, requests, raced, doubled>>

\* An answer is lost and the call is made again, or the attempts run out.
MarkFails(s) ==
    /\ handler[s] = "listed" /\ ChatFault
    /\ SetRunning(s[1]) \/ UNCHANGED work
    /\ UNCHANGED handler \/ Goto(s, "excusing")
    /\ UNCHANGED <<busy, reply, sent, directory, bridge, requests, raced, doubled>>

\* Faulty variant: the handler waits without a limit.
WaitForEver(s) ==
    /\ handler[s] = "waiting" /\ s[1] \in stops \cup results /\ Goto(s, "reporting")
    /\ UNCHANGED <<thread, directory, bridge, chatFaults, requests>>

\* _wait_for_result ends with the cancel file, with the result or at the limit.
WaitForResult(s) ==
    /\ handler[s] = "waiting" /\ Goto(s, "reporting")
    /\ UNCHANGED <<thread, directory, bridge, chatFaults, requests>>

Reporting(s) == handler[s] \in {"reporting", "excusing"}

\* worker_complete_task looks for the newest open reply of the thread, and so writes the
\* row of the task ...
Newest ==
    CHOOSE i \in DOMAIN sent :
        sent[i] \in OpenReplies /\ \A j \in i + 1 .. Len(sent) : sent[j] \notin OpenReplies

StartReport(s) ==
    /\ Reporting(s) /\ ~TaskLocked(s[1])
    /\ report' = [report EXCEPT ![s[1]] =
           [stage |-> "picked", by |-> s[2], frees |-> FALSE,
            pick |-> IF OpenReplies = {} THEN Nothing ELSE sent[Newest]]]
    /\ UNCHANGED <<thread, handler, directory, bridge, chatFaults, cancel>>

\* ... loads the thread, and so writes the reply, which waits for another that has ...
LoadThread(t) ==
    /\ report[t].stage = "picked" /\ ~ReplyLocked(report[t].pick)
    /\ report' = [report EXCEPT ![t].stage = "loaded", ![t].frees = busy]
    /\ UNCHANGED <<thread, handler, directory, bridge, chatFaults, cancel>>

\* ... and commits, also if the reply it picked was closed meanwhile.
FinishReport(t) ==
    /\ report[t].stage = "loaded"
    /\ work' = [work EXCEPT ![t] = "ended"]
    /\ reply' = IF report[t].pick = Nothing THEN reply
                ELSE [reply EXCEPT ![report[t].pick] = [status |-> "closed", of |-> t]]
    /\ doubled' = (doubled \/ (report[t].pick # Nothing /\ reply[report[t].pick].of # Nothing))
    /\ busy' = (busy /\ ~report[t].frees)
    /\ report' = [report EXCEPT ![t] = NoReport]
    /\ handler' = IF report[t].by = 0 THEN handler
                  ELSE [handler EXCEPT ![<<t, report[t].by>>] = "unused"]
    /\ UNCHANGED <<sent, directory, bridge, chatFaults, cancel, raced>>

\* A request is lost, or rolled back, or its answer comes too late.  It is made again; or
\* the attempts run out, and the handler reports its own failure; or that fails as well,
\* and the handler is over.
ReportFails(s) ==
    /\ Reporting(s) /\ ChatFault
    /\ IF report[s[1]].by = s[2]
         THEN \E r \in {NoReport, [report[s[1]] EXCEPT !.by = 0]} :
                  report' = [report EXCEPT ![s[1]] = r]
         ELSE UNCHANGED report
    /\ \/ UNCHANGED handler
       \/ handler[s] = "reporting" /\ Goto(s, "excusing")
       \/ handler[s] = "excusing" /\ Goto(s, "unused")
    /\ UNCHANGED <<thread, directory, bridge, cancel>>

\* A request ends with its process; a report is made again by its handler.
RequestDies(t) ==
    /\ ChatFault
    /\ \/ report[t].stage # "none" /\ report' = [report EXCEPT ![t] = NoReport] /\ UNCHANGED cancel
       \/ cancel[t] \notin {"none", "checked"} /\ cancel' = [cancel EXCEPT ![t] = "none"] /\ UNCHANGED report
    /\ UNCHANGED <<thread, handler, directory, bridge>>

\* The worker ends with its handlers, but not the requests they made; nothing takes up a
\* task that is running.
WorkerDies ==
    /\ ChatFault
    /\ report' = [t \in Messages |-> [report[t] EXCEPT !.by = 0]]
    /\ handler' = [s \in Slots |-> "unused"]
    /\ UNCHANGED <<thread, directory, bridge, cancel>>

-----------------------------------------------------------------------------
\* The bridge takes a brief that has no result, unless it finds its cancel file ...
PickUp(t) ==
    /\ bridge = Nothing /\ t \in briefs \ results
    /\ IF t \in stops
         THEN results' = results \cup {t} /\ briefs' = briefs \ {t} /\ UNCHANGED bridge
         ELSE bridge' = t /\ UNCHANGED <<results, briefs>>
    /\ UNCHANGED <<thread, handler, stops, chatFaults, requests>>

\* ... and when the agent ends, it writes what came of it.
AgentEnds ==
    /\ bridge # Nothing /\ bridge' = Nothing
    /\ results' = results \cup {bridge} /\ briefs' = briefs \ {bridge}
    /\ UNCHANGED <<thread, handler, stops, chatFaults, requests>>

\* A bridge that ends takes the brief again when it is back, and runs the agent anew.
BridgeDies ==
    /\ bridge # Nothing /\ bridge' = Nothing
    /\ UNCHANGED <<thread, handler, directory, chatFaults, requests>>

-----------------------------------------------------------------------------
Handle(s) == MarkRunning(s) \/ WaitForResult(s) \/ StartReport(s)
Serve(t)  == LoadThread(t) \/ FinishReport(t) \/ CancelLoad(t) \/ CancelClose(t)

ChatNext ==
    \/ \E t \in Messages : CheckThread(t) \/ SendMessage(t) \/ PickUp(t)
    \/ \E t \in Messages : CancelCheck(t) \/ CancelFile(t) \/ Serve(t) \/ RequestDies(t)
    \/ PollTasks \/ WorkerDies \/ AgentEnds \/ BridgeDies
    \/ \E s \in Slots : Handle(s) \/ MarkFails(s) \/ ReportFails(s)

ChatSpec == ChatInit /\ [][ChatNext]_chatVars

\* The worker polls for ever, its handlers go on, and stop waiting in the end; what the
\* API has begun it ends.
ChatFairSpec ==
    /\ ChatSpec /\ WF_chatVars(PollTasks)
    /\ \A s \in Slots : WF_chatVars(Handle(s))
    /\ \A t \in Messages : WF_chatVars(Serve(t))

-----------------------------------------------------------------------------
ChatTypeOK ==
    /\ {busy, raced, doubled} \subseteq BOOLEAN
    /\ work \in [Messages -> {"none", "checked", "queued", "running", "ended"}]
    /\ reply \in [Messages -> [status : {"none", "queued", "closed"}, of : {Nothing} \cup Messages]]
    /\ sent \in Seq(Messages)
    /\ handler \in [Slots -> {"unused", "listed", "waiting", "reporting", "excusing"}]
    /\ briefs \subseteq Messages /\ results \subseteq Messages /\ stops \subseteq Messages
    /\ bridge \in {Nothing} \cup Messages
    /\ report \in [Messages -> [stage : {"none", "picked", "loaded"}, by : Nat,
                                pick : {Nothing} \cup Messages, frees : BOOLEAN]]
    /\ cancel \in [Messages -> {"none", "checked", "filed", "frees", "keeps"}]
    /\ chatFaults \in 0 .. MaxChatFaults

\* A reply shows what came of its own message.  It shows another's only after some task
\* was cancelled, for then the thread is free while handlers still have to report; or if
\* two messages were sent at once, a report was made twice or a task handled twice.
RepliesAreTheirOwn ==
    \A t \in Messages :
        reply[t].of \notin {Nothing, t} => stops \ {t} # {} \/ raced \/ chatFaults > 0

\* A task that is running, and that nobody works on or reports any more.
Stranded(t) == work[t] = "running" /\ ~Handled(t) /\ report[t].stage = "none"

\* Every message is answered in the end, by a result, a refusal or the handler's own
\* failure, whatever the bridge does, unless a fault stranded a task, or two reports that
\* overlap closed one reply: then the other reply of the two stays open.
EveryMessageIsAnswered ==
    \A t \in Messages :
        reply[t].status = "queued"
          ~> \/ reply[t].status # "queued"
             \/ chatFaults > 0 /\ \E u \in Messages : Stranded(u)
             \/ doubled
=============================================================================

# A TLA+ verification project for the Quill platform

Quill runs the paperwork of a construction program with agents.  What keeps it
safe is one idea: an agent never writes, it files an *approval item*, and what it
asked for goes out only after the right people have signed.  Around that queue
stand daemons that call models, chains of agents that produce deliverables, and a
second service, the *agent cloud*, with schedules, sub-agent jobs and proposals
of its own.  This directory holds TLA+ modules of those parts, the TLC
configurations that check them and proofs that TLAPS checks.

    tlc -workers 2 -config MCApprovals.cfg MCApprovals      # one run
    tlapm Approvals_proofs.tla                              # one proof module

`PROJECT.json` is the machine-readable index: components, runs, the lines of the
source each definition stands for, faulty variants of those definitions that each
property detects, known disagreements, hazards, theorems.  Paths below are those
of the repository.

## 1. The system

### The API (`api/app`)

FastAPI handlers over one SQL database, each request with an `AsyncSession` of
its own at READ COMMITTED and `expire_on_commit=False`.  No request asks for a lock
and no table has a version column; only an UPDATE that is flushed early keeps its row
until the commit.

| Component | State | Operations | Correct when |
|---|---|---|---|
| approval queue (`services/approvals.py`, `routes/approvals.py`) | `approval_items`, `approval_records` | create, decide (approve, edit then approve, reject, escalate), execute, cancel, litigation hold | nothing goes out unsigned; closed items stay closed; an assignment is the owner's; a decision is executed once |
| audit chain (`services/audit.py`) | `audit_log_entries`, a freeze flag | `record_event`, `verify_chain` | it only grows, says how each item ended, is one chain |
| audit mirror, verification (`services/audit_mirror.py`, `audit_verify.py`, `scripts/audit_verify_run.py`) | a queue in the memory of each process, claims, failed entries, the freeze flag | enqueue at flush, claim, upload with retries, drain, compare log and mirror, freeze | no committed entry is lost unnoticed; a disagreement is found; a freeze has a cause |
| SLA watcher (`services/sla.py`) | none of its own | scan | a late item is announced, once |
| lane policy (`services/lane_policy.py`) | none of its own | the least lane of a proposed write | sensitive writes never run unasked |
| trust promotion (`services/trust_promotion.py`) | trust tier of an agent | promotion after a clean streak; called by nothing but tests | - |
| actions (`services/agentcloud_actions.py`) | business tables | perform an approved write, announce its end | one announcement for each end |
| deliverables (`routes/deliverables.py`, `deliverable_pipeline.py`, `services/deliverable_hitl.py`) | `deliverables`, `deliverable_versions` | create, edit, roll back, resume, co-develop, the chain of agents, its gate | nothing is lost, a rollback gets what it asks for, agents do not finalize |
| project requests (`routes/requests.py`) | `project_requests` | submit, background processing | a request marked complete has its output |
| estimates, contracts (`services/estimates.py`, `contracts.py`, their routes) | the status, text and approved results of an upload; marker files | upload, a background task that reads the files, requests to run an agent, cancel, start, hooks of an approval | the second agent works from what a person approved; no upload is forgotten |
| developers' chat (`routes/dev_chat.py`, with `runtime/runtime/dev_chat_worker.py` and `openclaw_bridge.py`) | a thread, its messages and tasks; a directory of briefs, results and cancel files | send, cancel, poll, mark, wait, report; run the agent | a message is answered, by what came of it |
| business tables, documents, auth, realtime, admin | single rows | CRUD and outside calls | - |

### The agent cloud (`agent-cloud/app`)

| Component | State | Operations | Correct when |
|---|---|---|---|
| proposals (`approvals.py`) | `agentcloud_proposals`, wake messages | create, notify, reconcile sweep | the agent hears once, and the truth, how its proposal ended |
| workflow assignments (`workflow_assignments.py`) | suggestion rows, `agent.approval_state` | suggest, finalize; called by nothing but tests | - |
| schedules (`scheduler.py`) | `agentcloud_schedules` | create, patch, delete, claim, fire | an occurrence fires at most once, each claim is told |
| jobs (`jobs.py`) | `agentcloud_jobs` | create, launch, run, close with a wake | a job runs once and its parent is woken once, unless two executions read it as queued together |
| orchestrator, budget, rate limit (`orchestrator.py`, `budget.py`, `ratelimit.py`) | usage of each month, counts of each minute | a turn: count, check the caps, loop over the model and its tools, bill | a cap is overshot only by turns under way; each call is billed once |
| channels (`channels/links.py`) | links of chats and agents | pair, redeem a code, route a message, revoke | a chat speaks with the agent it was told it speaks with |
| memory, secrets, providers | single rows, outside services | - | - |

### The runtime (`runtime/runtime`)

| Component | State | Operations | Correct when |
|---|---|---|---|
| claim table (`state_store.py`) | `runtime_dispatch_state` | claim, release, success, error | one replica works on an upload |
| estimator, classification, contract, review dispatchers | the operators' markers | tick: list, claim, check, dispatch, record | every waiting upload gets its item, once unless something fails |
| contract-draft dispatcher (`contract_draft_dispatcher.py`) | its memory of drafts, saved whole to a file | tick, without claims | a contract is drafted once by each process, and once more only for a draft one lost sight of |
| triage dispatcher (`triage_dispatcher.py`) | a cursor into the event file, the ids lately seen | read, dispatch, write the cursor | no event is skipped, few are repeated |

### The Telegram bot (`telegram-bot/quill_bot`)

| Component | State | Operations | Correct when |
|---|---|---|---|
| conversation (`llm.py`, `conversation.py`, `handlers/nl.py`, `handlers/voice.py`) | the rows of each chat in a file database | a turn by text or voice, reset | a chat that is refused comes free again |
| reminders, daily brief, notifier, pairing, commands | a table of what was claimed; a queue in memory | list, claim, send; commands call the API | - |

### How they interact

    agent-cloud tool --POST item--> approval queue <--POST item-- dispatcher daemons
          ^                            |  |  ^                        |
          |  notify, once, may be lost |  |  | gate of a chain        | claim table (lease)
          +----------------------------+  |  +-- deliverable chain    |
          |  reconcile sweep polls        v                           v
          +------------------------- audit chain -> mirror      uploads of the API

- The agent cloud and the daemons reach the queue by HTTP and share no
  transaction with it: a post whose answer is lost has still filed its item.
- An approval is two transactions of one request: `decide_approval` commits
  APPROVED, `execute_approval` runs the executor and its hooks.  Some hooks commit
  on their own in between.
- Every change of an item records an audit event in the same session; a frozen
  chain makes that raise, and the transaction is rolled back.
- The daemons share only the claim table; the scheduler's passes only their rows.
  The drafting daemon has no claims, and the triage daemon assumes it is alone.
- An upload is written by three parties that do not look at each other: the task
  that reads its files, the routes, and the hooks of approvals.  The daemons only
  read it; what they did is in the claim table and in the items they posted.
- An audit event waits in the memory of its process for its upload to the mirror,
  from the flush on, so before its request has committed.
- A message of the developers' chat goes from the API to its worker by a table that
  is polled, from the worker to the bridge by files, and back by a report.
- A turn reads what its agent and its tenant spent in one transaction, calls the
  model for as long as it takes, and adds its bill in another.

What is hard here: sessions that hold copies older than the database while an
agent is called for minutes; two commits of one request with a crash between
them; leases; notifications sent once; polling with a limit; at-most-once firing;
memory that is saved after the fact or not at all; two reads compared as if they
were one; a check before a long call whose result is booked after it.
The list, with the line each hazard bites at, is `hazards` in `PROJECT.json`.

## 2. The modules

| Module | Models | State and code |
|---|---|---|
| `ApprovalRules` | the stateless rules: lanes, required roles, who may decide, when signatures suffice | `required_approvers_for_lane`, the guards of `decide_approval` |
| `Approvals` | the queue, one transaction per action | `item`, `records`, `audit` are the three tables; `executing` holds the requests between their two commits; `frozen` is the flag; `overdue` says whose `sla_due_at` has passed |
| `HumanGate` | what the queue promises: a write waits, the asked roles sign, the gate opens exactly then, and ends are final | abstract; `Approvals` implements it (`KeepsTheGate`) |
| `ApprovalSessions` | one item under overlapping requests, one action per await that loads, checks, reads the latest hash, flushes or commits | `session` holds the copy of the row, the records and the parent read and the entry flushed; `chain` has ids and parents.  `Execute` is the executor, which may raise; its end is recorded and committed like any other event, after `CommitByHook` where the hook of the item commits by itself |
| `DispatchStore` | replicas of a dispatcher on one upload | `row` is the upload's row of the claim table; `worker[w].pc` is the await a replica is at |
| `Tenure` | what the claim table promises of one upload: one holder at a time, one attempt to post per tenure, closed by its holder, for good, when something was posted | abstract; `DispatchStore` implements it while leases outlast runs (`KeepsTenure`): holders are the busy replicas, `closed` is a row that is done |
| `Proposals` | write-tool calls, the queue's items seen from outside, announcements and sweep | `created` is the order of the rows, `aged` how many passed the cutoff |
| `Deliverables` | one deliverable, its request, chain, gate and people | `head` and `versions` are the two tables; `session` holds loaded copies; a write touches only the columns that differ from the copy, as the ORM's UPDATE does; a Drive link rewrites the content a session loaded, without a version; `Update` is a write of the request's row by its background task, which may fail unnoticed |
| `Schedules` | schedules, passes, jobs | `pass[p].todo` are the claimed and not yet fired rows, `arms`, `claims`, `told` count for the properties; `doing` says how far each execution of a job's command is, between its SELECT and its commits; executions may overlap, and `doubled` says that one read the job as queued while another was about to claim it |
| `AuditTrail` | the log, its mirror, the verification that compares them and the freeze | `table` and `docs` are the two stores; a hash is ideal, so an entry only says whether its contents and its hash are still the ones recorded; `reading` is a parent that was read and whose event is not flushed yet; `check` is a verification between its two reads, the second of which may miss objects; `failed` are the last `MaxReported` failed entries of each process, lost with it |
| `Turns` | turns of the agents of a tenant: rate limit, caps, loop, bill | `turn[t].pc` is where a turn is, `usage` the bill by month and agent, `hits` the counts by minute |
| `ChannelLinks` | pairing codes, binding and revocation | `ask[k]` is a message or a revocation between its load and its write |
| `BotTalk` | a chat with the Telegram bot | `history` is the last `Keep` rows of `conversations`, which is all that is read; `saving` are the rows of a turn still to be appended; updates are handled one at a time, so one chat is enough |
| `Uploads` | a contract or an estimate from upload to approved result | `upload` is its row, `job[s]` the claim and the daemon of each of the two agents, `marker` the operators' requests, `items` the approval items with what their agent was given; a daemon stands for its replicas, which `DispatchStore` shows to work one at a time |
| `DraftDispatch` | the drafting daemon without claims | `memory` of each process and `stateFile`, which each loads when it starts and writes whole; `unsaved` are the drafts the file had and lost or never got, `lapses` counts how often a draft was lost sight of |
| `TriageSource` | the triage daemon on its event file | `cursor` is on disk, `seen` is not |
| `DevChat` | the developers' chat, its worker and its bridge | `work` is the task's row, `reply` the agent's message with the task whose report closed it, `handler` the coroutines of the worker; `report` and `cancel` are the two requests that close replies, cut at their awaits, with the reply they picked and the rows they keep |
| `MCAgentCloud`, `MCPipelines`, `MCDispatch` | parts that share no state, checked in one run: a behavior is one of the parts' own | `part` says whose |
| `MCApprovals`, `MCApprovalSessions`, `MCProposals`, `MCDeliverables`, `MCAuditTrail` | the instances TLC checks | |
| `Approvals_proofs`, `DispatchStore_proofs`, `Proposals_proofs`, `Schedules_proofs`, `Deliverables_proofs` | theorems about the module they are named for | |
| `AuditLog_proofs` | theorems about `ApprovalSessions` and `AuditTrail` | |
| `AgentCloud_proofs` | theorems about `Turns`, `ChannelLinks` and `BotTalk` | |
| `Pipelines_proofs` | theorems about `Uploads`, `DraftDispatch`, `TriageSource` and `DevChat` | |

Conventions.  An action is a transaction or the stretch between two awaits, with
every change the handler makes in it.  `Faulty variant` marks an operator that is
not part of the specification: a plausible bug that the run must detect.  Words
such as `Fault` bound crashes and lost answers together (`MaxFaults`).

What the data became: payloads, titles, prompts and answers are absent; a
workflow string is one of the six `Kinds` the code tells apart; a deliverable's
content is a number no one wrote before; a timestamp is "has passed" or, in
`Schedules`, a tick; a hash is the id of the parent entry; a file of events is a
sequence of ids, an offset into it a number of lines; a price is one unit a call.

Every module has a type invariant.  Those of `Approvals`, `ApprovalSessions`,
`DispatchStore`, `Schedules`, `Deliverables` and `AuditTrail` are theorems under
their own name, those of the others (but for the two lists named in section 5) parts
of the inductive invariants; the runs leave all of them out and spend their time on
the properties below.

## 3. The runs

| Run | Module, bounds | Shows |
|---|---|---|
| `approvals` | `MCApprovals`: one item; owner, partner, observer | quorum; a person in the loop; closed stays closed; audit agrees with status; refinement of `HumanGate`; late items announced; a running execution ends |
| `sessions` | `MCApprovalSessions`: one item, two sessions, two users, requests start while the chain has fewer than four entries | what survives overlap: runs, also those that fail, are backed by approvals of their own, a breach is tagged once |
| `dispatch` | `MCDispatch`: two replicas, one upload, three faults, leases cover runs; two messages, the first handled by up to two handlers at a time, one fault | one at a time, done means delivered, duplicates cost a fault each, refinement of `Tenure`, every waiting upload is dispatched; a message is answered, and by its own task but for named causes |
| `proposals` | `MCProposals`: two identical calls and a third, sweep limit 3, one fault | told once and right, orphans are explained, the sweep closes the loop |
| `deliverables` | `MCDeliverables`: producer and two people, chain of two steps, three snapshots before new requests stop, one fault | a rollback gets what it asks for unless a session wrote over another, people finalize, the gate closes what waited, complete means output |
| `schedules` | `Schedules`: one cron and one one-shot schedule, two passes, limit 2, time to 2, two settings, one job of two executions, one fault | one claim per occurrence, told once, a job runs and wakes once but for the named overlap, what is due is claimed |
| `audit` | `MCAuditTrail`: two requests of one process, two events, two attempts, one report kept, one crash, one drift; reads that miss any objects | an alarm has a cause, a disagreement is found, what commits is mirrored |
| `agent_cloud` | `MCAgentCloud`: three chats with one agent and a job of another, one chat a minute, caps 2 and 3, two calls a turn, three minutes, one change of month, one fault; three codes of two tenants, two chats, three requests; a window of eight rows, two rounds of at most two tools | a cap is overshot only by overlapping turns, every call is billed, a window keeps its limit, what users were told of a link holds, a chat with the bot is refused at most half a window of turns in a row |
| `pipelines` | `MCPipelines`: three events on four lines, memory of two, one restart, one rotation; four items, two faults; two drafting processes that restart at will, two drafts, each lost sight of once | what is written is dispatched, repeats have a cause, the second agent works from what was approved and its result rests on the stamp, a waiting upload goes on, drafts are accounted for |

Why the bounds are enough.  Items do not share rows: they meet only in the freeze
flag, so one item shows what `approvals` asks, and the proofs cover any number.
Three users cover every role that matters: owner, partner, and one who may sign
only a list that asks nobody or names the role.  Two sessions make every pair of
statements overlap, and each stale read of the code is a matter of two requests; they
are interchangeable, and the run uses that.  In `dispatch` a third fault allows a crash, a failed retry and a lost record in
one behaviour; the bound on posts (5) is `MaxFaults + 2` and never blocks while
leases cover runs; a second message is the one whose reply a late report of the first
may close, and one fault of the chat is a crash, a lost answer or a second handler.
`proposals` needs two calls with one key for the index and a
third for the sweep's order; its limit holds all three, which is the assumption
its liveness property is about.  Every registered chain has two steps.  A job
shows its whole life by itself, two executions are enough to overlap, and two passes
meet over two schedules, one of which may take both; by time 2 a cron schedule has been
due twice and a one-shot set again while it fires.  In `audit` an alarm needs two events (a link, or a lag) and a disagreement
one drift; two attempts show a retry and its end, and a process that keeps one report
forgets the first of two.  In `agent_cloud` three turns
past a cap of two calls overshoot it by more than one turn could, and the fourth
shows the tenant's cap beside the agent's; three links are one to bind, one of the
same tenant to replace and one of another; a window of eight rows is one
turn at its longest, so it can begin at each row of a turn, and the bound of
`RefusalsEnd` is reached.  In `pipelines` two faults let each
agent run twice, which is what `ResultRestsOnStamp` is about; items beyond
`MaxFaults + 2` cannot be posted, so the bound never blocks; a memory of two among
three events makes the daemon forget one; restarts of a drafting process cost nothing,
so a draft is done once more only by a lapse, and one of each is enough to tell.
Every action and every disjunct is
taken in a passing run.

### Runs that end in a violation

Each checks one sentence of the repository that its code does not keep.

| Run | The sentence | What happens |
|---|---|---|
| `sessions_double` | "No double execution" (`agent-cloud/APPROVALS.md:228`) | two overlapping approvals both see APPROVED on their own copy and both run the executor |
| `deliverables_versions` | the head is "versioned monotonically" (`api/app/models_deliverables.py:4`) | a chain that called an agent during two edits writes a lower number over a higher one |
| `uploads_request` | a dispatch route is the "signal that the contract-extractor daemon should pick up this contract" (`api/app/routes/contracts.py:393`) | once a person has rejected the agent's item, the route still accepts the request; the claim is done for good, and the daemon deletes the marker |

Disagreements met while modelling that have no run of their own:

- `api/app/services/approvals.py:663` expects an operator to re-run a failed
  execution; the status guard of `execute_approval` refuses it
  (`ClosedStaysClosed` says so).
- The two last signatures of a lane-3 item given together each miss the other;
  the item stays pending and both signers "have already signed".
- A lane-1 item stores a list of approvers nobody looks at.
- Hooks of estimates, contracts and deliverables commit EXECUTED ahead of its
  audit row; `StatusIsAudited` excludes those kinds.  In `ApprovalSessions` that is
  `CommitByHook`: a request that dies after it leaves work of which the log knows
  nothing, and `EveryRunIsBacked` counts that work too.
- "One snapshot per version number" (`api/app/routes/deliverables.py:394`): sessions
  that overlap write two under one number, and a rollback gets the older of them; the
  other is there and cannot be reached.  `NothingIsLost` says when it can.
- `api/app/models_deliverables.py:82` calls a snapshot the state *before* a
  PATCH; the code takes it after.
- "A finalized or already-running job is not re-run" (`agent-cloud/app/jobs.py:233`):
  the status is read without a lock and `running` is written whatever the row says by
  then, so two executions that both read the job as queued both run it, both wake its
  parent, and the second rewrites how the first ended.  `WokenOnce` names the case
  (`doubled`) and bounds it.
- A one-shot that is deleted when it has fired, and that its user sets again between
  the claim and the booking, is deleted by the booking of the earlier firing
  (`agent-cloud/app/scheduler.py:459`): the new occurrence is lost.  `DueIsClaimed`
  leaves the time of that firing out.
- A launch that fails leaves its job queued, a job whose process dies stays
  running, and neither wakes its parent.
- A re-enabled one-shot fires again at its old time, since patching computes its
  next run anew; `ClaimedOncePerOccurrence` counts that as a setting by its user.
- Assignments are "always owner-only" (`api/app/services/approvals.py:165`), but an
  escalation asks for owner and partner, and the guard refuses the partner: the
  item waits for ever.
- The log is "sha256-chained per approval" (`README.md:95`); two overlapping
  requests name the same parent, and `verify_chain` then reports a break.
- Done is "(terminal)" (`runtime/runtime/state_store.py:25`); without the
  assumption that leases outlast runs a replica records its error over the success
  of its successor.
- The sweep "still closes the loop by polling"
  (`api/app/services/agentcloud_actions.py:259`) only while undecided rows do not
  fill its limit.
- A restart drops the queue of the mirror; only the drain finds those entries
  again.  An event whose request rolls back is mirrored all the same, and the next
  verification freezes the log; so does one that reads the log, and then the
  mirror, around an upload.  `QuietVerificationPasses` lists these causes.
- An object whose download raises is taken for one that is not there
  (`api/app/services/audit_mirror.py:204`, `audit_verify.py:104`): the entry counts as
  missing and the log freezes, although nothing is wrong.  And "ok" means "both stores
  consistent end-to-end" (`audit_verify.py:10`), but the object of a row that is gone
  passes unseen when it is the one that could not be read.
- What failed for good is listed by `get_status` for the last 200 entries of the
  process that answers, and by nobody once it has ended.
- A drain after a row was rewritten puts the new row beside the old object, and
  from then on the verification may compare with either.
- The bill leaves out the tokens of the cache, which the event of the turn counts
  (`agent-cloud/app/orchestrator.py:256`), while a test asks that prices "must never
  under-count" (`agent-cloud/tests/test_pricing.py:14`).  `Turns` counts calls, not tokens.
- A pairing code is single-use (`agent-cloud/app/channels/links.py:103`), but two
  chats that send it together both load it as pending and both are told "Linked":
  `AnswersHold` excludes such a collision.  Re-pairing a linked chat by a new code
  (`agent-cloud/CHANNELS.md:71`) does not happen: its message goes to its agent.
- A rotated event file that has outgrown the old cursor is read from there: its
  first lines are skipped.  The webhook source promises the same memory of seen
  events and has none.
- The same upload is drafted once (`runtime/runtime/contract_draft_dispatcher.py:10`)
  only by a single process that does not die between post and save and whose answer
  and file arrive; a second one drafts again and saves its memory over the other's, so
  that either, started anew, may draft what it had drafted.
- A restart of the API loses the task that reads an upload's files; nothing starts
  it again.  A cancel before an approval, or during the reading, is overwritten.
- A second approved extraction takes a reviewed contract back to extracted; a
  second approved classification takes a finished estimate back to classifying.
- A start of a finished estimate leaves it estimating, and its daemon is done.
- A hook of an approval that raises is logged and the item is executed: the upload
  keeps waiting for a stamp that will not come.
- In the developers' chat a report closes the newest open reply of its thread
  (`api/app/routes/dev_chat.py:628`): a cancelled task that reports late closes the
  reply of the next message and frees the thread.  `RepliesAreTheirOwn` names the
  causes.  Two reports that overlap, which takes two messages sent at once, pick the
  same reply before either commits, and the other reply stays open for ever with the
  worker alive; `EveryMessageIsAnswered` names that (`doubled`).  A cancel writes its
  file before its rows (`dev_chat.py:456`), so a task whose cancel failed is stopped all
  the same, and one that ends meanwhile closes the replies of the next.  Marking a task as running does not look at its status, so a task that was
  cancelled after it was listed is run.
- The brief "is written before the DB record transitions to ``running``"
  (`runtime/runtime/dev_chat_worker.py:70`); the worker marks the task first.  A worker
  that ends leaves its running tasks so: only queued ones are polled.
- "One thread per user" (`api/app/models_dev_chat.py:54`): two first requests make
  two, and every later one then fails to choose.
- `send_message` raises after its commit, for the settings have no `WORKER_URL`; the
  task is queued all the same, without its event in the log.
- The rows sent to the model should "always start ... on a 'user' role boundary"
  (`telegram-bot/quill_bot/llm.py:123`), but `history` returns no more rows than
  `_trim` lets pass, so nothing is cut, and a result of a tool would count as a row
  of the user: once a chat has 24 rows, the API refuses a turn whenever the window
  begins inside another.  An answer cut off at the limit of tokens leaves calls
  without results, for up to twelve turns.  "If the call failed we don't want a
  half-formed turn poisoning future history" (`telegram-bot/quill_bot/handlers/nl.py:115`),
  yet a refused turn is saved, since its error does not raise; that is what
  `RefusalsEnd` rests on: the faulty variant that saves nothing is refused for ever.
- The eight-hour reminder says "Auto-escalating to Lane 3"
  (`telegram-bot/quill_bot/scheduler.py:515`) and escalates nothing; of more than
  eight items it claims all and names eight.
- A pairing code of the bot is used up before the API is called; the reply to a
  failure is "Try again" (`telegram-bot/quill_bot/handlers/start.py:89`).
- The daemons list the fifty newest uploads; older ones wait for a marker.

## 4. Fairness

- `Approvals`: weak fairness of the rest of a deciding request (it is a
  coroutine that goes on) and of the SLA scan of an item (the watcher loops for
  ever and catches its errors).  Nobody has to decide anything.  A crash or a
  freeze is a way out that the properties name.
- `DispatchStore`: weak fairness of each daemon's next statement, of the lease's
  end and of the back-off: daemons loop, the clock runs, faults are bounded.
- `Proposals`: the clock, the sweep (a scheduler tick) and the insert of a call
  that has posted.  No announcement has to arrive, no item has to be decided.
- `Schedules`: each pass goes on, and the loop starts the next one.  Users, the
  clock and jobs need no fairness.

- `AuditTrail`: the worker of each process, which catches what its uploads raise.
  Verifications, drains and administrators need no fairness.
- `TriageSource`: the daemon's loop.
- `Uploads`: the task that reads files and the ticks of the two daemons, which
  poll for ever.  Nobody has to request, approve or reject anything.
- `DevChat`: the worker's poll, each of its handlers, which stops waiting after
  90 minutes, and the rest of a report or a cancel the API has begun (`Serve`): it is a
  coroutine that goes on or dies.  The bridge needs none.

`ApprovalSessions`, `Deliverables`, `Turns`, `ChannelLinks`, `BotTalk` and
`DraftDispatch` have safety properties only and no fairness; the two persons of `Deliverables` and the
three chats of `Turns` are interchangeable, so their runs use symmetry.

## 5. What is proved

TLAPS checks the theorems below for every value of the constants.  All rest on the
named assumptions of the modules alone, which TLC evaluates in every run:

| Assumption | Says | Because |
|---|---|---|
| `RolesAssumption` | every user has one of the four roles | an enumeration of the code |
| `SessionsAssumption` | `None` is no user; there is an item to begin with, and it is a row | requests without a user; requests need an item |
| `WorkersAssumption`, `SchedulesAssumption`, `DraftAssumption`, `TurnsAssumption`, `LinksAssumption` | finitely many passes, executions of a job, drafting processes, turns, agents and requests; a marker such as `Nobody` is none of them; limits are positive | processes and requests are counted |
| `DeliverablesAssumption` | the producer is not among the people; a chain has at least two steps | every registered chain has two |
| `ProposalsAssumption`, `TriageAssumption`, `TrailAssumption`, `ChatAssumption`, `UploadsAssumption`, `BotTalkAssumption` | bounds are naturals; a window has an even number of rows | settings of the code, and bounds of the models |

Nothing else is assumed finite: items, users, calls, replicas, schedules, people.

Every invariant that a run checks is a theorem, and so are its action properties
and the two refinements.  Few of the invariants are inductive by themselves;
what each proof adds is said where it is defined, and in short here.

### The queue (`Approvals_proofs`, `AuditLog_proofs`)

- `TypeCorrect`: `TypeOK` is inductive; one lemma each for create and decide.
- `QuorumProved`, `HumanInTheLoopProved`: signatures and events only grow
  (`Grows`), and a step clears an item in three ways only (`Clears`): it was filed
  on lane 1, it was clear and asks for the same roles, or the step completes its
  signatures with an approval.  `StepClears` shows that of every action, and both
  invariants follow with `TypeOK`.
- `OwnerOnlyProved`: a row could be created over old signatures; `OwnerInv` adds that
  an item not yet created has neither records nor events (`FreshIsEmpty`).
- `StatusIsAuditedProved`: by the action; `FreshIsEmpty` again, since the audit entries
  of a row to be created must not tell of another end.
- `ClosedProved`, `HoldProved`: action properties, from `TypeOK`.
- `GateProved`: the refinement `KeepsTheGate`.  The abstract gate opens exactly when the
  asked roles have signed.  `GateInv` adds to `OwnerInv` that an item born on lane 1 is
  never pending (`PendingIsAsked`); `Moves(i)` lists the moves of the gate for one item,
  every action makes one of them or none, and initial states map to initial states.

Overlapping requests on one item:

- `TypeCorrect`, `ParentsAreCommittedProved`: `SessionsInv` follows what a session has
  flushed: its entry is on the chain, not committed, its own (`Apart`), and its event is
  the one of the request.  A parent is committed and older, because `_latest_hash` reads
  a committed entry (`LatestIs`) and a commit is not undone.
- `RecordsMatchChainProved`: a commit adds a record and commits the entry the session
  flushed, and `Apart` says that nobody else's entry is committed with it.
- `BreachTaggedOnceProved`: `BreachInv` adds that a scan past its check still finds no
  breach on the chain, and that one session at a time is a scan.
- `EveryRunIsBackedProved`: the pairing of runs with approvals is not inductive: two
  requests on their way to a run could claim one approval.  `RunsInv` pairs those
  requests too (`Executors`), all with different approvals; a run, or its failure, inherits
  the approval of its session.  Work a hook has committed ahead of its entry (`Hooked`)
  is paid for by approvals of its own, and so is what stays behind when its request dies:
  effects are the runs on the chain and those.  It uses `RecordsMatchChain`.

### The log and its mirror (`AuditLog_proofs`)

- `TrailTypeCorrect`, `EveryLossIsKnownProved`: `NothingForgotten` says it of every entry
  from its flush on: an entry gets in memory before it commits.
- `DisagreementIsFoundProved`: `FoundInv` carries what a verification has read of each
  disagreement from before it began (`check.split`): what the rows show, then what the
  objects show.
- `QuietVerificationPassesProved`: by `QuietInv`, as long as none of the named causes has
  occurred (`Clean`, which never comes back), rows are the entries 1 to n linked in
  order, the parent read for the next one is the last of them (`ReadingClean`), objects
  are originals, every entry is in the mirror or waits for it, and a quiet verification
  that missed no object has read exactly the entries up to where it began.

### The claim table (`DispatchStore_proofs`)

- `TypeCorrect`, by the kind of state (`RowType`, `WorkerType`, `CountType`).
- `OneAtATimeProved`, `DuplicatesProved`: `OneAtATime` says nothing about the
  lease, and a claim that had expired under a working replica could be taken
  over; `Exclusive` adds that it has not.  `Counted` adds who has used up the one
  free item: a replica past its post, or a row that is done.
- `DoneMeansDeliveredProved`: `Seen` adds that a replica about to record success has
  posted or has seen the item.
- `TerminalProved`, under `LeaseCovers`: by `Exclusive` no replica is busy while
  the row is done, so none can write it.
- `TenureProved`, under `LeaseCovers`: the refinement `KeepsTenure`.  The holders of
  `Tenure` are the busy replicas; `Exclusive` makes them one at most (`Alone`), so what a
  busy replica does is done by the holder (`Holding`, `Leaving`), and nobody else moves
  the state of `Tenure` (`Outside`).  The abstract `Close` needs a delivery:
  `TenureInv` adds to `Seen` that a package comes from an item that was posted.

### Proposals (`Proposals_proofs`)

- `ToldOnceAndRightProved`, `OrphansAreExplainedProved`: `ProposalsInv` ties how far a
  call is to what there is of its item and its row (`CallsInOrder`), and says that what
  is announced has ended, since an announcement may arrive at any time.

### Deliverables (`Deliverables_proofs`)

- `TypeCorrect`, `PeopleFinalizeProved`,
  `GateClosesWhatWaitsProved`, `CompleteMeansOutputProved`: one invariant,
  `DeliverablesInv`.  A session writes what differs from a copy that may be old, so what
  holds of the head must hold of every copy (`Known`): its content and its status are
  each in a snapshot, and both in the one of its version unless a session wrote over
  another.  `CopyOK`, `PersonOK` and `ProducerOK` say at which steps a session has one.
- `NumberedInOrderProved`, `HistoryOnlyGrowsProved`: whatever sessions overlap, a step
  makes one of four writes (`Writes`): it creates the head with its first snapshot,
  appends a snapshot, puts a link into the content without one, or writes nothing the
  head shows.  Snapshots only accumulate; and unless a session writes over another, the
  head moves to the next version, which is the number of the new snapshot.  This is the
  exact condition of "versioned monotonically", which `deliverables_versions` shows to
  fail when sessions do overlap.  `NothingIsLostProved` follows from both: snapshots that
  are numbered in order have numbers of their own, so a rollback gets the one it asks for.

### Schedules and jobs (`Schedules_proofs`)

- `TypeCorrect`, `WokenOnceProved`: `JobOK`, per job.  However executions overlap, each
  wake and each run under way is a run of its own, and nothing runs a job but what read
  it as queued (`Counted`).  Unless two read it so together, one execution at most is past
  its first step, at the status of the row (`Single`): the claim of the first keeps every
  later one out.
- `JobsOnlyAdvanceProved`: a step leaves the table, adds a job, or rewrites one (`Grows`)
  with what may follow it: in every case with what `Advances`, and with what `Follows`,
  a claim out of the queue or a close out of a run, as long as no two executions have
  claimed it together.
- `ClaimedOnceProved`: a row is moved on in the transaction that locked it.  `Exclusive`
  is the lock; `OnceInv` says that a one-shot that can still be claimed has been set
  once more than claimed, `CronInv` that a cron schedule waits for a tick behind all
  its claims; `Booked` counts the claims in the hands of passes (`Flying`).  A first
  version of the count missed a pass that was killed between the claim of a row and
  its firing; the failed proof showed that, and the run now has two rows a pass.

### Turns, links and the bot (`AgentCloud_proofs`)

A sum over a set is proved about as the size of a set of units (`Units`), for what a
fold computes needs an induction over data; `TotalJoins`, `TotalSame` and `TotalOne` are
all that is used of it.

- `WindowsHoldProved`: while requests may still be counted in a window, its row counts
  the chats that went past it, and the first one over the limit alone makes the event
  (`WindowInv`).
- `EveryCallIsBilledProved`: `BillInv` says it of agents, months and turns billed, with
  every lost bill paid for by a fault.
- `OvershootIsBoundedProved`: `CapInv` bounds the bill of each month by the cap and the
  turns in flight: those that passed the check and have not been billed.
- `AnswersHoldProved`: `LinksInv` says of a link that no two requests had loaded at once
  that it has one loader and what this one still knows of it (`Knows`).
- `RefusalsEndProved`: after n refusals the last 2n rows are pairs of a message and a text
  (`RefusedRows`), and a window of such pairs is not refused (`AcceptsPairs`).

### Daemons, uploads and the developers' chat (`Pipelines_proofs`)

- `NothingIsSkippedProved`: the cursor is written once a batch, so the invariant follows
  the batch whose end it will be (`SkipInv`): the lines between the cursor and the rest
  of the batch have been tried, the rest is still what the file says unless the file was
  rotated, and what the daemon takes for known it has tried.
- `RepeatsHaveACauseProved`: without a restart, what was tried is in the memory or was
  pushed out of it (`Remembered`).
- `DraftsAreAccountedForProved`: drafts are counted against the processes that know of
  one (`Knowing`) and the lapses.  That a restart costs nothing else is `FileKeeps`: what a
  process remembers is in the file or known to be missing from it.
- `SecondWorksFromApprovedProved`, `ResultRestsOnStampProved`: a stamp is the number of an
  executed item (`StampsExecuted`), an estimate has the status its second daemon polls
  for only with a stamp (`EstimatingIsStamped`), and what the second daemon holds or has
  posted rests on both (`SecondRests`); without a fault the first daemon posts once
  (`PostedOnce`).
- `RepliesAreTheirOwnProved`: until one of the named causes occurs (`Quiet`: nothing raced or
  failed, and what was cancelled is still open), the thread has one task at a time, one
  open reply, its own, and one handler, whose report picks that reply
  (`OneAtATimeInThread`).  A report is cut between its picking and its commit, so the
  invariant says of each that if it picked another's reply, a cause was there
  (`PicksHaveACause`).

### What the runs do not restate, and what stays with TLC

No run spends time on the types, `OwnerOnlyProved`, `HoldProved`,
`ParentsAreCommittedProved`, `RecordsMatchChainProved`, `EveryLossIsKnownProved`,
`TerminalProved` (the run checks `KeepsTenure`, which says more), `NothingIsSkippedProved`,
`NumberedInOrderProved`, `HistoryOnlyGrowsProved` and `JobsOnlyAdvanceProved`; TLC found no
violation of them on the bounds of their runs before they were proved.

Only model-checked:

- liveness (`BreachIsAnnounced`, `ApprovedIsExecuted`, `EstimatingIsDispatched`,
  `ResolvedIsReported`, `DueIsClaimed`, `CommittedIsMirrored`, `WrittenIsDispatched`,
  `StampedGoesOn`, `EveryMessageIsAnswered`), which the prover does not reach;
- the types of two lists: the rows a turn of the bot will save (`FlattenSeq` of the library
  is recursive) and the rows a sweep polls (`SelectSeq` is), for what a recursive
  definition computes needs an induction over data.  No proved invariant needs them.

## 6. What is not modelled

- Outside services (models, Drive, Telegram, the object store), cryptography,
  authentication and the user interfaces: calls that may fail, or a constant.
- Business tables: single-row handlers in one transaction.
- Parsing, validation and wording of what agents send.
- The file backend of the claim table (one process), cron expressions and time
  zones ("the next tick"), chains of other lengths than the registered ones.
- A deliverable that a resume starts afresh on a second row.
- Code that nothing reaches: the suggestion of workflow assignments and the
  overlay that would apply them, trust promotion, the file bus of the agent cloud
  (its cursor never advances and its replay is never called).
- The webhook source of the triage daemon, which keeps nothing; the chain an event
  starts, which is one step that is not tried again.
- In `ApprovalSessions`, the two kinds whose executor publishes a document, which records
  an entry more for each execution; `Approvals` has all kinds.
- In `DevChat`, how a task ended (completed, failed, cancelled), which nothing asks; two
  cancellations at a time.
- A state file of the drafting daemon that cannot be parsed.
- The answers to questions about a clause: one row each, no change of a contract.
- The adapters of the chat platforms, the session kept for a chat.
- Of the Telegram bot: reminders (claimed in a table before they are sent, once),
  the daily brief, pairing, and the buttons below a proposal, which change nothing
  yet; what its tools answer.
- What the bridge of the developers' chat does with git (it resets the main branch when
  an agent touched a forbidden path, over what others pushed meanwhile), the simulate
  mode of its worker, and the making of a thread.
- The token counts the model kit reports by itself; `Turns` bills calls.

`components` in `PROJECT.json` has the reason for each part.

## 7. Plan

Done, in this order: rules and queue with its abstract gate; overlapping
sessions; the claim table; proposals; deliverables; schedules and jobs; proofs
about the queue and the claim table; the audit trail and its mirror; turns and
their caps; channel links; the triage source; uploads through both their agents;
drafts; the developers' chat; the conversations of the Telegram bot; proofs of every
invariant the runs check, of the refinement of the gate, and of what the models promise
beside the runs: the cursor of the triage daemon, the history of a deliverable, the table of jobs, and a
tenure on the claim table as a second abstract specification.

Left, of what keeps state or decides: `LanePolicy`, the lane of a proposed write as a
function, against a reference definition.

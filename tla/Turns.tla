-------------------------------- MODULE Turns --------------------------------
(***************************************************************************)
(* Turns of the agents of one tenant, as the orchestrator runs them: the   *)
(* rate limit of the chats, the two monthly caps, the loop of model calls, *)
(* and the bill.  What was spent is read in one transaction before the     *)
(* first call and added in another after the last; nothing is held         *)
(* between, so turns that overlap pass a cap together.                     *)
(***************************************************************************)
EXTENDS Naturals, FiniteSets, FiniteSetsExt

CONSTANTS
    Turns,         \* the turns asked for
    ChatTurns,     \* those that come by chat: jobs and schedules are not counted
    Agents,
    AgentOf,       \* the agent of each turn
    AgentBudget, TenantBudget,   \* a call of the model costs 1
    RateLimit,     \* chats per window
    MaxCalls,      \* MAX_TOOL_ITERATIONS
    MaxWindows, MaxMonths, MaxFaults

ASSUME TurnsAssumption ==
    /\ IsFiniteSet(Turns) /\ IsFiniteSet(Agents)
    /\ ChatTurns \subseteq Turns /\ AgentOf \in [Turns -> Agents]
    /\ {AgentBudget, TenantBudget} \subseteq Nat
    /\ {RateLimit, MaxCalls} \subseteq Nat \ {0}
    /\ {MaxWindows, MaxMonths, MaxFaults} \subseteq Nat

VARIABLES
    turn,    \* each turn: where it is, its window, the calls it has made
    hits,    \* agentcloud_rate_limits: the count of each window
    told,    \* the rate_limit.exceeded events of each window
    usage,   \* agentcloud_usage: what each agent was billed in each month
    window, month,
    faults,
    overlap  \* history: the most turns of an agent, and of all, past a cap at once

turnVars == <<turn, hits, told, usage, window, month, faults, overlap>>

Window == 0 .. MaxWindows
Month  == 0 .. MaxMonths

TurnsInit ==
    /\ turn = [t \in Turns |-> [pc |-> "asked", win |-> 0, calls |-> 0]]
    /\ hits = [w \in Window |-> 0] /\ told = hits
    /\ usage = [m \in Month |-> [a \in Agents |-> 0]]
    /\ window = 0 /\ month = 0 /\ faults = 0
    /\ overlap = [agent |-> [a \in Agents |-> 0], all |-> 0]

At(t, pc)   == turn[t].pc = pc
Goto(t, pc) == turn' = [turn EXCEPT ![t].pc = pc]

-----------------------------------------------------------------------------
\* check reads the clock ...
ReadClock(t) ==
    /\ At(t, "asked") /\ t \in ChatTurns
    /\ turn' = [turn EXCEPT ![t].pc = "counted", ![t].win = window]
    /\ UNCHANGED <<hits, told, usage, window, month, faults, overlap>>

\* Faulty variant: the rows of all earlier windows go.
EnforceForgets(t) ==
    LET w == turn[t].win
    IN  /\ At(t, "counted")
        /\ hits' = [v \in Window |-> IF v < w THEN 0 ELSE hits[v] + (IF v = w THEN 1 ELSE 0)]
        /\ told' = [told EXCEPT ![w] = @ + (IF hits'[w] = RateLimit + 1 THEN 1 ELSE 0)]
        /\ Goto(t, IF hits'[w] <= RateLimit THEN "admitted" ELSE "rejected")
        /\ UNCHANGED <<usage, window, month, faults, overlap>>

\* ... and counts the request: the upsert holds the row until the commit.  Windows
\* two minutes old go.  The first request over the limit records the event.
Enforce(t) ==
    LET w == turn[t].win
    IN  /\ At(t, "counted")
        /\ hits' = [v \in Window |-> IF v + 2 < w THEN 0 ELSE hits[v] + (IF v = w THEN 1 ELSE 0)]
        /\ told' = [told EXCEPT ![w] = @ + (IF hits'[w] = RateLimit + 1 THEN 1 ELSE 0)]
        /\ Goto(t, IF hits'[w] <= RateLimit THEN "admitted" ELSE "rejected")
        /\ UNCHANGED <<usage, window, month, faults, overlap>>

\* A sub-agent job or the turn of a schedule
Start(t) ==
    /\ At(t, "asked") /\ t \notin ChatTurns
    /\ Goto(t, "admitted")
    /\ UNCHANGED <<hits, told, usage, window, month, faults, overlap>>

\* The sum of f over S, as the size of a set that has an element for each unit.
Total(f, S) == Cardinality(UNION {{x} \X (1 .. f[x]) : x \in S})

Billed(as)  == Total(usage[month], as)
InFlight(a) == {t \in Turns : AgentOf[t] = a /\ turn[t].pc \in {"running", "closing"}}
AllInFlight == UNION {InFlight(a) : a \in Agents}

\* Faulty variant: a cap that is just reached lets one more turn pass.
ExhaustedLate(a) == Billed({a}) > AgentBudget \/ Billed(Agents) > TenantBudget

Exhausted(a) == Billed({a}) >= AgentBudget \/ Billed(Agents) >= TenantBudget

\* _prepare: what was spent this month, read in a transaction of its own, decides.
Prepare(t) ==
    LET a == AgentOf[t]
    IN  /\ At(t, "admitted")
        /\ Goto(t, IF Exhausted(a) THEN "refusing" ELSE "running")
        /\ overlap' = [overlap EXCEPT
               !.agent[a] = Max({@, Cardinality(InFlight(a)')}),
               !.all      = Max({@, Cardinality(AllInFlight')})]
        /\ UNCHANGED <<hits, told, usage, window, month, faults>>

\* A refusal is stored as an answer; it costs nothing.
Refuse(t) ==
    /\ At(t, "refusing") /\ Goto(t, "refused")
    /\ UNCHANGED <<hits, told, usage, window, month, faults, overlap>>

\* Faulty variant: a turn that is still asking for tools at the limit just ends.
CallThenGiveUp(t) ==
    /\ At(t, "running")
    /\ \E more \in BOOLEAN :
          turn' = [turn EXCEPT ![t].calls = @ + 1,
                               ![t].pc = IF ~more THEN "closing"
                                         ELSE IF turn[t].calls + 1 = MaxCalls THEN "billed"
                                         ELSE "running"]
    /\ UNCHANGED <<hits, told, usage, window, month, faults, overlap>>

\* The model is called, and its tools are run, until it asks for no more.
CallModel(t) ==
    /\ At(t, "running")
    /\ \E more \in BOOLEAN :
          turn' = [turn EXCEPT ![t].calls = @ + 1,
                               ![t].pc = IF more /\ turn[t].calls + 1 < MaxCalls
                                           THEN "running" ELSE "closing"]
    /\ UNCHANGED <<hits, told, usage, window, month, faults, overlap>>

\* _persist: messages, events and usage in one transaction, under today's date.
Persist(t) ==
    /\ At(t, "closing") /\ Goto(t, "billed")
    /\ usage' = [usage EXCEPT ![month][AgentOf[t]] = @ + turn[t].calls]
    /\ UNCHANGED <<hits, told, window, month, faults, overlap>>

\* The provider or the database raises, the client of a stream goes away, or the
\* process ends: nothing of the turn is stored.
Abort(t) ==
    /\ faults < MaxFaults /\ faults' = faults + 1
    /\ turn[t].pc \in {"refusing", "running", "closing"} /\ Goto(t, "lost")
    /\ UNCHANGED <<hits, told, usage, window, month, overlap>>

\* Assumed: no request takes more than two minutes from the clock to its count, for
\* then its row might be gone and be counted anew.
Minute ==
    /\ window < MaxWindows /\ window' = window + 1
    /\ \A t \in Turns : At(t, "counted") => window' <= turn[t].win + 2
    /\ UNCHANGED <<turn, hits, told, usage, month, faults, overlap>>

NewMonth ==
    /\ month < MaxMonths /\ month' = month + 1
    /\ UNCHANGED <<turn, hits, told, usage, window, faults, overlap>>

TurnsNext ==
    \/ \E t \in Turns : \/ ReadClock(t) \/ Enforce(t) \/ Start(t) \/ Prepare(t) \/ Refuse(t)
                        \/ CallModel(t) \/ Persist(t) \/ Abort(t)
    \/ Minute \/ NewMonth

TurnsSpec == TurnsInit /\ [][TurnsNext]_turnVars

-----------------------------------------------------------------------------
TurnsTypeOK ==
    /\ turn \in [Turns -> [pc : {"asked", "counted", "admitted", "rejected", "refusing",
                                 "refused", "running", "closing", "billed", "lost"},
                           win : Window, calls : 0 .. MaxCalls]]
    /\ hits \in [Window -> Nat] /\ told \in [Window -> Nat]
    /\ usage \in [Month -> [Agents -> Nat]]
    /\ window \in Window /\ month \in Month /\ faults \in 0 .. MaxFaults
    /\ overlap \in [agent : [Agents -> Nat], all : Nat]

\* A cap is overshot only by the turns that were past it together: in no month is an
\* agent, or the tenant, billed more than one whole turn for each of them beyond what
\* still lets a turn pass.  A turn begun last month may be billed this month.
OvershootIsBounded ==
    \A m \in Month :
        /\ \A a \in Agents :
              usage[m][a] > 0 => usage[m][a] < AgentBudget + overlap.agent[a] * MaxCalls
        /\ LET all == Total(usage[m], Agents)
           IN  all > 0 => all < TenantBudget + overlap.all * MaxCalls

\* Every call of the model is billed, by the turn that made it and once; only a turn
\* under way or one that a fault ended has made calls nobody was billed for.
EveryCallIsBilled ==
    /\ \A a \in Agents :
          Total([m \in Month |-> usage[m][a]], Month) =
          Total([t \in Turns |-> turn[t].calls], {t \in Turns : AgentOf[t] = a /\ At(t, "billed")})
    /\ \A t \in Turns : At(t, "billed") => turn[t].calls > 0
    /\ Cardinality({t \in Turns : At(t, "lost")}) <= faults

\* However requests and minutes interleave, no window lets more chats pass than the
\* limit, and a window that rejects one says so, once.
WindowsHold ==
    \A w \in Window :
        LET of(pcs) == {t \in ChatTurns : turn[t].win = w /\ turn[t].pc \in pcs}
        IN  /\ Cardinality({t \in ChatTurns : turn[t].win = w}
                 \ of({"asked", "counted", "rejected"})) <= RateLimit
            /\ told[w] = IF of({"rejected"}) = {} THEN 0 ELSE 1
=============================================================================

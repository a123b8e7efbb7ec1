------------------------- MODULE AgentCloud_proofs -------------------------
(***************************************************************************)
(* Proofs about modules Turns, ChannelLinks and BotTalk, for any turns,    *)
(* limits, links, chats and windows.                                       *)
(***************************************************************************)
EXTENDS Turns, ChannelLinks, BotTalk, TLAPS, FiniteSetTheorems, SequenceTheorems

-----------------------------------------------------------------------------
(* Turns: where each is, its window and its calls. *)

USE TurnsAssumption

Pcs == {"asked", "counted", "admitted", "rejected", "refusing", "refused", "running", "closing",
        "billed", "lost"}

TurnRec == [pc : Pcs, win : Window, calls : Nat]

\* A turn that may still call the model has a call left, and one that has not begun
\* has made none.
TurnOK(t) ==
    /\ turn[t].calls <= MaxCalls
    /\ At(t, "running") => turn[t].calls < MaxCalls
    /\ turn[t].pc \in {"asked", "counted", "admitted"} => turn[t].calls = 0
    /\ turn[t].pc \in {"closing", "billed"} => turn[t].calls > 0

TurnTyped ==
    /\ turn \in [Turns -> TurnRec] /\ \A t \in Turns : TurnOK(t)
    /\ window \in Window /\ month \in Month /\ faults \in 0 .. MaxFaults

\* What a turn's step leaves of it; the others do not move.
Moved(t, pcs, win, calls) ==
    /\ turn' \in [Turns -> TurnRec]
    /\ \A u \in Turns \ {t} : turn'[u] = turn[u]
    /\ turn'[t].pc \in pcs /\ turn'[t].win = win /\ turn'[t].calls = calls

\* A step that only advances a turn leaves its window and its calls.
LEMMA GotoMoves ==
    ASSUME TurnTyped, NEW t \in Turns, NEW pc \in Pcs, Goto(t, pc)
    PROVE  Moved(t, {pc}, turn[t].win, turn[t].calls)
<1> DEFINE new == [turn[t] EXCEPT !.pc = pc]
<1>1. turn[t] \in TurnRec /\ turn \in [Turns -> TurnRec]
  BY DEF TurnTyped
<1>2. new \in TurnRec /\ new.pc = pc /\ new.win = turn[t].win /\ new.calls = turn[t].calls
  BY <1>1 DEF TurnRec
<1>3. turn' = [turn EXCEPT ![t] = new]
  BY DEF Goto
<1> HIDE DEF new
<1> QED
  BY <1>1, <1>2, <1>3 DEF Moved

\* The steps of turns.
LEMMA TurnMoves ==
    ASSUME TurnTyped, NEW t \in Turns
    PROVE  /\ ReadClock(t) => Moved(t, {"counted"}, window, turn[t].calls)
           /\ Enforce(t) =>
                Moved(t, IF hits'[turn[t].win] <= RateLimit THEN {"admitted"} ELSE {"rejected"},
                      turn[t].win, turn[t].calls)
           /\ Start(t) => Moved(t, {"admitted"}, turn[t].win, turn[t].calls)
           /\ Prepare(t) => Moved(t, IF Exhausted(AgentOf[t]) THEN {"refusing"} ELSE {"running"},
                                  turn[t].win, turn[t].calls)
           /\ Refuse(t) => Moved(t, {"refused"}, turn[t].win, turn[t].calls)
           /\ CallModel(t) =>
                \/ Moved(t, {"closing"}, turn[t].win, turn[t].calls + 1)
                \/ /\ Moved(t, {"running"}, turn[t].win, turn[t].calls + 1)
                   /\ turn[t].calls + 1 < MaxCalls
           /\ Persist(t) => Moved(t, {"billed"}, turn[t].win, turn[t].calls)
           /\ Abort(t) => Moved(t, {"lost"}, turn[t].win, turn[t].calls)
<1>1. turn[t] \in TurnRec /\ turn \in [Turns -> TurnRec] /\ window \in Window
  BY DEF TurnTyped
<1>2. ASSUME ReadClock(t)
      PROVE  Moved(t, {"counted"}, window, turn[t].calls)
  <2> DEFINE new == [turn[t] EXCEPT !.pc = "counted", !.win = window]
  <2>1. new \in TurnRec /\ new.pc = "counted" /\ new.win = window /\ new.calls = turn[t].calls
    BY <1>1 DEF TurnRec, Pcs
  <2>2. turn' = [turn EXCEPT ![t] = new]
    BY <1>2 DEF ReadClock
  <2> HIDE DEF new
  <2> QED
    BY <1>1, <2>1, <2>2 DEF Moved
<1>3. ASSUME Enforce(t)
      PROVE  Moved(t, IF hits'[turn[t].win] <= RateLimit THEN {"admitted"} ELSE {"rejected"},
                   turn[t].win, turn[t].calls)
  <2>1. \A pc \in Pcs : Goto(t, pc) => Moved(t, {pc}, turn[t].win, turn[t].calls)
    BY GotoMoves
  <2> QED
    BY <1>3, <2>1 DEF Enforce, Pcs
<1>4. ASSUME CallModel(t)
      PROVE  \/ Moved(t, {"closing"}, turn[t].win, turn[t].calls + 1)
             \/ /\ Moved(t, {"running"}, turn[t].win, turn[t].calls + 1)
                /\ turn[t].calls + 1 < MaxCalls
  <2>1. PICK pc \in {"running", "closing"} :
          /\ turn' = [turn EXCEPT ![t].calls = @ + 1, ![t].pc = pc]
          /\ pc = "running" => turn[t].calls + 1 < MaxCalls
    BY <1>4 DEF CallModel
  <2> DEFINE new == [turn[t] EXCEPT !.calls = @ + 1, !.pc = pc]
  <2>a. ASSUME NEW n \in Nat, NEW q \in Pcs
        PROVE  [turn[t] EXCEPT !.calls = n, !.pc = q] \in TurnRec
    BY <1>1 DEF TurnRec
  <2>b. turn[t].calls + 1 \in Nat /\ pc \in Pcs
    BY <1>1 DEF TurnRec, Pcs
  <2>2. new \in TurnRec /\ new.pc = pc /\ new.win = turn[t].win /\ new.calls = turn[t].calls + 1
    <3>1. new \in TurnRec
      BY <2>a, <2>b
    <3>2. new.pc = pc /\ new.win = turn[t].win /\ new.calls = turn[t].calls + 1
      BY <1>1 DEF TurnRec
    <3> QED
      BY <3>1, <3>2
  <2>3. turn' = [turn EXCEPT ![t] = new]
    BY <2>1
  <2> HIDE DEF new
  <2> QED
    BY <1>1, <2>1, <2>2, <2>3 DEF Moved
<1>5. Goto(t, "admitted") => Moved(t, {"admitted"}, turn[t].win, turn[t].calls)
  BY GotoMoves DEF Pcs
<1>6. Goto(t, "refused") => Moved(t, {"refused"}, turn[t].win, turn[t].calls)
  BY GotoMoves DEF Pcs
<1>7. Goto(t, "billed") => Moved(t, {"billed"}, turn[t].win, turn[t].calls)
  BY GotoMoves DEF Pcs
<1>8. Goto(t, "lost") => Moved(t, {"lost"}, turn[t].win, turn[t].calls)
  BY GotoMoves DEF Pcs
<1>9. ASSUME Prepare(t)
      PROVE  Moved(t, IF Exhausted(AgentOf[t]) THEN {"refusing"} ELSE {"running"},
                   turn[t].win, turn[t].calls)
  <2>1. \A pc \in Pcs : Goto(t, pc) => Moved(t, {pc}, turn[t].win, turn[t].calls)
    BY GotoMoves
  <2>2. Goto(t, IF Exhausted(AgentOf[t]) THEN "refusing" ELSE "running")
    BY <1>9 DEF Prepare
  <2> QED
    BY <2>1, <2>2 DEF Pcs
<1> QED
  BY <1>2, <1>3, <1>4, <1>5, <1>6, <1>7, <1>8, <1>9 DEF Start, Refuse, Persist, Abort

\* Turns stay well formed.
LEMMA TurnTypedStep == TurnTyped /\ [TurnsNext]_turnVars => TurnTyped'
<1> SUFFICES ASSUME TurnTyped, [TurnsNext]_turnVars
             PROVE  TurnTyped'
  OBVIOUS
<1>1. window' \in Window /\ month' \in Month /\ faults' \in 0 .. MaxFaults
  <2>1. /\ window' = window \/ (window < MaxWindows /\ window' = window + 1)
        /\ month' = month \/ (month < MaxMonths /\ month' = month + 1)
        /\ faults' = faults \/ (faults < MaxFaults /\ faults' = faults + 1)
    BY DEF TurnsNext, turnVars, ReadClock, Enforce, Start, Prepare, Refuse, CallModel, Persist,
           Abort, Minute, NewMonth
  <2> QED
    BY <2>1 DEF TurnTyped, Window, Month
<1>2. CASE turn' = turn
  BY <1>1, <1>2 DEF TurnTyped, TurnOK, At
<1>3. ASSUME NEW t \in Turns, NEW pcs, NEW win, NEW calls, Moved(t, pcs, win, calls), TurnOK(t)'
      PROVE  TurnTyped'
  BY <1>1, <1>3 DEF TurnTyped, TurnOK, At, Moved
<1>4. ASSUME NEW t \in Turns,
             \/ ReadClock(t) \/ Enforce(t) \/ Start(t) \/ Prepare(t) \/ Refuse(t)
             \/ CallModel(t) \/ Persist(t) \/ Abort(t)
      PROVE  TurnTyped'
  <2>1. TurnOK(t) /\ turn[t].calls \in Nat /\ MaxCalls \in Nat \ {0}
    BY DEF TurnTyped, TurnRec
  <2>2. CASE ReadClock(t) \/ Enforce(t) \/ Start(t)
    <3>1. turn[t].pc \in {"asked", "counted"}
      BY <2>2 DEF ReadClock, Enforce, Start, At
    <3>2. PICK pcs \in SUBSET {"counted", "admitted", "rejected"} :
            Moved(t, pcs, window, turn[t].calls) \/ Moved(t, pcs, turn[t].win, turn[t].calls)
      BY <2>2, TurnMoves
    <3> QED
      BY <1>3, <2>1, <3>1, <3>2 DEF TurnOK, At, Moved
  <2>3. CASE Prepare(t)
    <3>1. PICK pcs \in SUBSET {"refusing", "running"} : Moved(t, pcs, turn[t].win, turn[t].calls)
      BY <2>3, TurnMoves
    <3> QED
      BY <1>3, <2>1, <2>3, <3>1 DEF Prepare, TurnOK, At, Moved
  <2>4. CASE Refuse(t) \/ Abort(t)
    <3>1. PICK pcs \in SUBSET {"refused", "lost"} : Moved(t, pcs, turn[t].win, turn[t].calls)
      BY <2>4, TurnMoves
    <3> QED
      BY <1>3, <2>1, <3>1 DEF TurnOK, At, Moved
  <2>5. CASE Persist(t)
    BY <1>3, <2>1, <2>5, TurnMoves DEF Persist, TurnOK, At, Moved
  <2>6. CASE CallModel(t)
    <3>1. turn[t].calls < MaxCalls
      BY <2>1, <2>6 DEF CallModel, TurnOK
    <3>2. CASE Moved(t, {"closing"}, turn[t].win, turn[t].calls + 1)
      <4>1. TurnOK(t)'
        BY <2>1, <3>1, <3>2 DEF TurnOK, At, Moved
      <4> QED
        BY <1>3, <3>2, <4>1
    <3>3. CASE Moved(t, {"running"}, turn[t].win, turn[t].calls + 1) /\ turn[t].calls + 1 < MaxCalls
      <4>1. TurnOK(t)'
        BY <2>1, <3>3 DEF TurnOK, At, Moved
      <4> QED
        BY <1>3, <3>3, <4>1
    <3> QED
      BY <2>6, <3>2, <3>3, TurnMoves
  <2> QED
    BY <1>4, <2>2, <2>3, <2>4, <2>5, <2>6
<1> QED
  BY <1>2, <1>4 DEF TurnsNext, turnVars, Minute, NewMonth

\* The types of the turns, of the counts and of the bills hold in every state.
LEMMA TurnTypedInvariant == TurnsSpec => []TurnTyped
<1>1. TurnsInit => TurnTyped
  <2> SUFFICES ASSUME TurnsInit
               PROVE  TurnTyped
    OBVIOUS
  <2>1. window \in Window /\ 0 \in Window /\ month \in Month /\ faults \in 0 .. MaxFaults
    BY DEF TurnsInit, Window, Month
  <2>2. turn \in [Turns -> TurnRec]
    BY <2>1 DEF TurnsInit, TurnRec, Pcs
  <2>3. \A t \in Turns : turn[t].pc = "asked" /\ turn[t].calls = 0
    BY DEF TurnsInit
  <2> QED
    BY <2>1, <2>2, <2>3 DEF TurnTyped, TurnOK, At
<1> QED
  BY <1>1, TurnTypedStep, PTL DEF TurnsSpec

-----------------------------------------------------------------------------
(* The rate limit.  While requests may still be counted in a window, its row counts
   the chats that went past it; the first of them over the limit, and it alone, makes
   the event.  A row that is gone is of a window nobody counts in any more. *)

Past(w)     == {t \in ChatTurns : turn[t].win = w /\ turn[t].pc \notin {"asked", "counted"}}
Rejected(w) == {t \in ChatTurns : turn[t].win = w /\ At(t, "rejected")}

Counts(w) ==
    /\ window <= w + 2 => hits[w] = Cardinality(Past(w))
    /\ Rejected(w) = {} <=> Cardinality(Past(w)) <= RateLimit
    /\ Cardinality(Past(w) \ Rejected(w)) <= RateLimit
    /\ told[w] = IF Rejected(w) = {} THEN 0 ELSE 1

Counting(t) == At(t, "counted") => /\ t \in ChatTurns
                                   /\ turn[t].win <= window /\ window <= turn[t].win + 2

WindowInv ==
    /\ hits \in [Window -> Nat] /\ told \in [Window -> Nat]
    /\ \A w \in Window : Counts(w)
    /\ \A t \in Turns : Counting(t)

\* A turn that has passed its window, or is not there yet, changes no count.
LEMMA OtherTurnsCount ==
    ASSUME TurnTyped, WindowInv, NEW t \in Turns,
           ReadClock(t) \/ Start(t) \/ Prepare(t) \/ Refuse(t) \/ CallModel(t) \/ Persist(t) \/ Abort(t)
    PROVE  WindowInv'
<1>1. hits' = hits /\ told' = told /\ window' = window
  BY DEF ReadClock, Start, Prepare, Refuse, CallModel, Persist, Abort
<1>2. /\ \A u \in Turns \ {t} : turn'[u] = turn[u]
      /\ \/ At(t, "asked") /\ turn'[t].pc = "counted" /\ turn'[t].win = window /\ t \in ChatTurns
         \/ At(t, "asked") /\ t \notin ChatTurns /\ turn'[t].pc = "admitted"
         \/ /\ turn[t].pc \notin {"asked", "counted", "rejected"} /\ turn'[t].win = turn[t].win
            /\ turn'[t].pc \notin {"asked", "counted", "rejected"}
  <2>1. CASE ReadClock(t)
    BY <2>1, TurnMoves DEF ReadClock, Moved
  <2>2. CASE Start(t)
    BY <2>2, TurnMoves DEF Start, Moved
  <2>3. CASE Prepare(t)
    BY <2>3, TurnMoves DEF Prepare, At, Moved
  <2>4. CASE Refuse(t)
    BY <2>4, TurnMoves DEF Refuse, At, Moved
  <2>5. CASE CallModel(t)
    BY <2>5, TurnMoves DEF CallModel, At, Moved
  <2>6. CASE Persist(t)
    BY <2>6, TurnMoves DEF Persist, At, Moved
  <2>7. CASE Abort(t)
    BY <2>7, TurnMoves DEF Abort, At, Moved
  <2> QED
    BY <2>1, <2>2, <2>3, <2>4, <2>5, <2>6, <2>7
<1>3. \A w \in Window : Past(w)' = Past(w) /\ Rejected(w)' = Rejected(w)
  BY <1>2 DEF Past, Rejected, At
<1>4. \A u \in Turns : Counting(u)'
  <2>1. window \in Nat
    BY DEF TurnTyped, Window
  <2> QED
    BY <1>1, <1>2, <2>1 DEF WindowInv, Counting, At
<1>5. \A w \in Window : Counts(w)'
  BY <1>1, <1>3 DEF WindowInv, Counts
<1> QED
  BY <1>1, <1>4, <1>5 DEF WindowInv

\* A request that is counted finds in the row those that were counted before it.
LEMMA EnforceCounts ==
    ASSUME TurnTyped, WindowInv, NEW t \in Turns, Enforce(t)
    PROVE  WindowInv'
<1>0. PICK w \in Window : w = turn[t].win
  BY DEF TurnTyped, TurnRec
<1>a. PICK n : n = Cardinality(Past(w))
  OBVIOUS
<1>1. /\ w \in Window /\ window \in Window /\ At(t, "counted") /\ t \in ChatTurns
      /\ w <= window /\ window <= w + 2 /\ window' = window
  BY <1>0 DEF TurnTyped, WindowInv, Counting, Enforce
<1>2. /\ n \in Nat /\ IsFiniteSet(Past(w)) /\ RateLimit \in Nat /\ hits[w] = n
      /\ Rejected(w) = {} <=> n <= RateLimit
      /\ Cardinality(Past(w) \ Rejected(w)) <= RateLimit
      /\ told[w] = IF Rejected(w) = {} THEN 0 ELSE 1
  <2>1. IsFiniteSet(Past(w))
    BY FS_Subset DEF Past
  <2> QED
    BY <1>a, <1>1, <2>1, FS_CardinalityType DEF WindowInv, Counts
<1>3. /\ hits' \in [Window -> Nat] /\ told' \in [Window -> Nat]
      /\ hits'[w] = n + 1
      /\ told'[w] = told[w] + (IF n + 1 = RateLimit + 1 THEN 1 ELSE 0)
      /\ \A v \in Window \ {w} : told'[v] = told[v] /\ (w <= v + 2 => hits'[v] = hits[v])
  <2>1. hits' = [v \in Window |-> IF v + 2 < w THEN 0 ELSE hits[v] + (IF v = w THEN 1 ELSE 0)]
    BY <1>0 DEF Enforce
  <2>2. hits' \in [Window -> Nat] /\ hits'[w] = n + 1
    <3>1. \A v \in Window : v \in Nat /\ hits[v] \in Nat
      BY DEF WindowInv, Window
    <3>2. \A v \in Window : hits'[v] = IF v + 2 < w THEN 0 ELSE hits[v] + (IF v = w THEN 1 ELSE 0)
      BY <2>1
    <3>3. \A v \in Window : hits'[v] \in Nat
      BY <3>1, <3>2
    <3>4. hits'[w] = n + 1
      BY <1>1, <1>2, <3>1, <3>2
    <3>5. DOMAIN hits' = Window /\ hits' = [v \in Window |-> hits'[v]]
      BY <2>1
    <3> QED
      BY <3>3, <3>4, <3>5
  <2>3. told' = [told EXCEPT ![w] = @ + (IF hits'[w] = RateLimit + 1 THEN 1 ELSE 0)]
    BY <1>0 DEF Enforce
  <2>4. \A v \in Window \ {w} : w <= v + 2 => hits'[v] = hits[v]
    <3> SUFFICES ASSUME NEW v \in Window \ {w}, w <= v + 2
                 PROVE  hits'[v] = hits[v]
      OBVIOUS
    <3>1. v \in Nat /\ w \in Nat /\ hits[v] \in Nat
      BY <1>1 DEF WindowInv, Window
    <3>2. ~(v + 2 < w) /\ hits[v] + 0 = hits[v]
      BY <3>1
    <3> QED
      BY <2>1, <3>2
  <2> QED
    BY <1>1, <2>2, <2>3, <2>4 DEF WindowInv
<1>4. Moved(t, IF n + 1 <= RateLimit THEN {"admitted"} ELSE {"rejected"}, w, turn[t].calls)
  BY <1>0, <1>3, TurnMoves
<1>5. ASSUME NEW v \in Window \ {w}
      PROVE  Counts(v)'
  <2>1. Past(v)' = Past(v) /\ Rejected(v)' = Rejected(v)
    BY <1>0, <1>4 DEF Moved, Past, Rejected, At
  <2>2. v \in Nat /\ (window <= v + 2 => w <= v + 2)
    BY <1>1 DEF Window
  <2>3. Counts(v) /\ told'[v] = told[v] /\ (w <= v + 2 => hits'[v] = hits[v])
    BY <1>3 DEF WindowInv
  <2> QED
    BY <1>1, <2>1, <2>2, <2>3 DEF Counts
<1>6. Counts(w)'
  <2>1. t \notin Past(w) /\ Past(w)' = Past(w) \cup {t}
    BY <1>1, <1>4 DEF Moved, Past, At
  <2>2. Cardinality(Past(w)') = n + 1 /\ IsFiniteSet(Past(w)')
    BY <1>a, <1>2, <2>1, FS_AddElement
  <2>3. CASE n + 1 <= RateLimit
    <3>1. Rejected(w)' = Rejected(w) /\ Rejected(w) = {}
      BY <1>1, <1>2, <1>4, <2>3 DEF Moved, Rejected, At
    <3>2. Cardinality((Past(w) \ Rejected(w))') <= RateLimit
      BY <2>2, <2>3, <3>1
    <3> QED
      BY <1>1, <1>2, <1>3, <2>2, <2>3, <3>1, <3>2 DEF Counts
  <2>4. CASE ~(n + 1 <= RateLimit)
    <3>1. Rejected(w)' = Rejected(w) \cup {t}
      BY <1>1, <1>4, <2>4 DEF Moved, Rejected, At
    <3>2. (Past(w) \ Rejected(w))' = Past(w) \ Rejected(w)
      BY <2>1, <3>1
    <3> QED
      BY <1>1, <1>2, <1>3, <2>2, <2>4, <3>1, <3>2 DEF Counts
  <2> QED
    BY <2>3, <2>4
<1>7. \A u \in Turns : Counting(u)'
  BY <1>1, <1>4 DEF Moved, WindowInv, Counting, At
<1> QED
  BY <1>3, <1>5, <1>6, <1>7 DEF WindowInv

\* However requests and minutes interleave, no window lets more chats pass than the
\* limit, and one that rejects a chat says so once: enforce's upsert and its deletion
\* of old rows, under the assumption that a request is counted within two minutes.
THEOREM WindowsHoldProved == TurnsSpec => []WindowsHold
<1>1. TurnsInit => WindowInv
  <2> SUFFICES ASSUME TurnsInit
               PROVE  WindowInv
    OBVIOUS
  <2>1. \A w \in Window : Past(w) = {} /\ Rejected(w) = {} /\ hits[w] = 0 /\ told[w] = 0
    BY DEF TurnsInit, Past, Rejected, At
  <2>2. Cardinality({}) = 0
    BY FS_EmptySet
  <2>3. \A w \in Window : Counts(w)
    BY <2>1, <2>2 DEF Counts
  <2> QED
    BY <2>3 DEF TurnsInit, WindowInv, Counting, At
<1>2. TurnTyped /\ WindowInv /\ [TurnsNext]_turnVars => WindowInv'
  <2> SUFFICES ASSUME TurnTyped, WindowInv, [TurnsNext]_turnVars
               PROVE  WindowInv'
    OBVIOUS
  <2>1. CASE /\ turn' = turn /\ hits' = hits /\ told' = told
             /\ \/ window' = window
                \/ window' = window + 1 /\ \A t \in Turns : At(t, "counted") => window' <= turn[t].win + 2
    <3>1. \A w \in Window : Past(w)' = Past(w) /\ Rejected(w)' = Rejected(w)
      BY <2>1 DEF Past, Rejected, At
    <3>2. window \in Nat /\ \A t \in Turns : turn[t].win \in Nat
      BY DEF TurnTyped, TurnRec, Window
    <3>3. ASSUME NEW w \in Window
          PROVE  Counts(w)'
      <4>1. Counts(w) /\ w \in Nat
        BY DEF WindowInv, Window
      <4>2. window' <= w + 2 => window <= w + 2
        BY <2>1, <3>2, <4>1
      <4> QED
        BY <2>1, <3>1, <4>1, <4>2 DEF Counts
    <3>4. \A t \in Turns : Counting(t)'
      BY <2>1, <3>2 DEF WindowInv, Counting, At
    <3> QED
      BY <2>1, <3>3, <3>4 DEF WindowInv
  <2> QED
    BY <2>1, OtherTurnsCount, EnforceCounts DEF TurnsNext, turnVars, Minute, NewMonth
<1>3. TurnTyped /\ WindowInv => WindowsHold
  <2> SUFFICES ASSUME TurnTyped, WindowInv, NEW w \in Window
               PROVE  LET of(pcs) == {t \in ChatTurns : turn[t].win = w /\ turn[t].pc \in pcs}
                      IN  /\ Cardinality({t \in ChatTurns : turn[t].win = w}
                               \ of({"asked", "counted", "rejected"})) <= RateLimit
                          /\ told[w] = IF of({"rejected"}) = {} THEN 0 ELSE 1
    BY DEF WindowsHold
  <2> DEFINE of(pcs) == {t \in ChatTurns : turn[t].win = w /\ turn[t].pc \in pcs}
  <2>1. of({"rejected"}) = Rejected(w)
    BY DEF Rejected, At
  <2>2. {t \in ChatTurns : turn[t].win = w} \ of({"asked", "counted", "rejected"})
        = Past(w) \ Rejected(w)
    BY DEF Past, Rejected, At
  <2>3. Counts(w)
    BY DEF WindowInv
  <2> QED
    BY <2>1, <2>2, <2>3 DEF Counts
<1> QED
  BY <1>1, <1>2, <1>3, TurnTypedInvariant, PTL DEF TurnsSpec

-----------------------------------------------------------------------------
(* Sums.  A total is the size of a set, so what it becomes when one value grows, or
   one element joins, is a fact about sets that are disjoint. *)

Units(f, S) == UNION {{x} \X (1 .. f[x]) : x \in S}

\* A unit is of an element, and one of its value.
LEMMA UnitsAre ==
    ASSUME NEW f, NEW S, NEW u
    PROVE  u \in Units(f, S) <=> \E x \in S : \E i \in 1 .. f[x] : u = <<x, i>>
BY DEF Units

\* The units by which the value of an element grows from m to m + d.
Block(a, m, d) == {a} \X (m + 1 .. m + d)

\* A block of d units of a is finite, and has d of them.
LEMMA BlockIs ==
    ASSUME NEW a, NEW m \in Nat, NEW d \in Nat
    PROVE  IsFiniteSet(Block(a, m, d)) /\ Cardinality(Block(a, m, d)) = d
<1>1. PICK one : one = {a} /\ IsFiniteSet(one) /\ Cardinality(one) = 1
  BY FS_Singleton
<1>2. PICK low \in Int, high \in Int : low = m + 1 /\ high = m + d
  OBVIOUS
<1>3. PICK values : values = low .. high /\ IsFiniteSet(values) /\ Cardinality(values) = d
  <2>1. IsFiniteSet(low .. high) /\ Cardinality(low .. high) = IF low > high THEN 0 ELSE high - low + 1
    BY FS_Interval
  <2>2. (IF low > high THEN 0 ELSE high - low + 1) = d
    BY <1>2
  <2> QED
    BY <2>1, <2>2
<1>4. IsFiniteSet(one \X values) /\ Cardinality(one \X values) = 1 * d
  BY <1>1, <1>3, FS_Product
<1>5. Block(a, m, d) = one \X values /\ 1 * d = d
  BY <1>1, <1>2, <1>3 DEF Block
<1> QED
  BY <1>4, <1>5

\* A set that gains a block of d new units has d more.
LEMMA UnitsGrow ==
    ASSUME NEW U, IsFiniteSet(U), NEW a, NEW m \in Nat, NEW d \in Nat,
           \A i \in m + 1 .. m + d : <<a, i>> \notin U
    PROVE  Cardinality(U \cup Block(a, m, d)) = Cardinality(U) + d
<1>1. PICK block : block = Block(a, m, d)
  OBVIOUS
<1>2. IsFiniteSet(block) /\ Cardinality(block) = d
  BY <1>1, BlockIs
<1>3. U \cap block = {}
  BY <1>1 DEF Block
<1>4. Cardinality(U) \in Nat /\ Cardinality({}) = 0
  BY FS_CardinalityType, FS_EmptySet
<1>5. Cardinality(U \cup block) = Cardinality(U) + Cardinality(block) - Cardinality(U \cap block)
  BY <1>2, FS_Union
<1>6. Cardinality(U \cap block) = 0
  BY <1>3, <1>4
<1>7. Cardinality(U \cup block) = Cardinality(U) + d
  BY <1>2, <1>4, <1>5, <1>6
<1> QED
  BY <1>1, <1>7

\* The units of finitely many numbers are finite, so their total is a number.
LEMMA UnitsFinite ==
    ASSUME NEW S, IsFiniteSet(S), NEW f, \A x \in S : f[x] \in Nat
    PROVE  IsFiniteSet(Units(f, S)) /\ Total(f, S) \in Nat
<1> DEFINE blocks == {{x} \X (1 .. f[x]) : x \in S}
           g == [x \in S |-> {x} \X (1 .. f[x])]
<1>1. g \in Surjection(S, blocks)
  BY DEF Surjection
<1>2. IsFiniteSet(blocks)
  BY <1>1, FS_Surjection
<1>3. ASSUME NEW b \in blocks
      PROVE  IsFiniteSet(b)
  <2>1. PICK x \in S : b = Block(x, 0, f[x])
    BY DEF Block
  <2> QED
    BY <2>1, BlockIs
<1>4. IsFiniteSet(UNION blocks)
  <2> HIDE DEF blocks
  <2> QED
    BY <1>2, <1>3, FS_UNION
<1> QED
  BY <1>4, FS_CardinalityType DEF Units, Total

\* The laws of sums: an element that grows by d, one that joins, a single one, none,
\* and what changes elsewhere.
LEMMA TotalGrows ==
    ASSUME NEW S, IsFiniteSet(S), NEW f, NEW g, \A x \in S : f[x] \in Nat,
           NEW a \in S, NEW d \in Nat, g[a] = f[a] + d, \A x \in S \ {a} : g[x] = f[x]
    PROVE  Total(g, S) = Total(f, S) + d
<1> DEFINE block == Block(a, f[a], d)
<1>1. IsFiniteSet(Units(f, S)) /\ f[a] \in Nat
  BY UnitsFinite
<1>2. Units(g, S) = Units(f, S) \cup block
  <2>1. \A u : u \in Units(g, S) <=> \E x \in S : \E i \in 1 .. g[x] : u = <<x, i>>
    BY UnitsAre
  <2>2. \A u : u \in Units(f, S) <=> \E x \in S : \E i \in 1 .. f[x] : u = <<x, i>>
    BY UnitsAre
  <2>3. \A u : u \in block <=> \E i \in f[a] + 1 .. f[a] + d : u = <<a, i>>
    BY DEF Block
  <2>4. \A i : i \in 1 .. g[a] <=> i \in 1 .. f[a] \/ i \in f[a] + 1 .. f[a] + d
    BY <1>1
  <2> HIDE DEF block
  <2>5. ASSUME NEW u \in Units(g, S)
        PROVE  u \in Units(f, S) \cup block
    <3>1. PICK x \in S : \E i \in 1 .. g[x] : u = <<x, i>>
      BY <2>1
    <3> QED
      BY <2>2, <2>3, <2>4, <3>1
  <2>6. ASSUME NEW u \in Units(f, S)
        PROVE  u \in Units(g, S)
    <3>1. PICK x \in S : \E i \in 1 .. f[x] : u = <<x, i>>
      BY <2>2
    <3> QED
      BY <2>1, <2>4, <3>1
  <2>7. ASSUME NEW u \in block
        PROVE  u \in Units(g, S)
    BY <2>1, <2>3, <2>4
  <2> QED
    BY <2>5, <2>6, <2>7
<1>3. \A i \in f[a] + 1 .. f[a] + d : <<a, i>> \notin Units(f, S)
  BY <1>1 DEF Units
<1>4. Total(f, S) = Cardinality(Units(f, S)) /\ Total(g, S) = Cardinality(Units(g, S))
  BY DEF Total, Units
<1> QED
  BY <1>1, <1>2, <1>3, <1>4, UnitsGrow

\* One more member adds its number to the total.
LEMMA TotalJoins ==
    ASSUME NEW S, IsFiniteSet(S), NEW f, \A x \in S : f[x] \in Nat, NEW a, a \notin S, f[a] \in Nat
    PROVE  Total(f, S \cup {a}) = Total(f, S) + f[a]
<1>1. IsFiniteSet(Units(f, S))
  BY UnitsFinite
<1>2. Block(a, 0, f[a]) = {a} \X (1 .. f[a])
  BY DEF Block
<1>3. Units(f, S \cup {a}) = Units(f, S) \cup Block(a, 0, f[a])
  BY <1>2 DEF Units
<1>4. \A i : <<a, i>> \notin Units(f, S)
  BY UnitsAre
<1>5. /\ Total(f, S) = Cardinality(Units(f, S))
      /\ Total(f, S \cup {a}) = Cardinality(Units(f, S \cup {a}))
  BY DEF Total, Units
<1>6. Cardinality(Units(f, S) \cup Block(a, 0, f[a])) = Cardinality(Units(f, S)) + f[a]
  <2> DEFINE U == Units(f, S)
  <2>1. IsFiniteSet(U) /\ \A i : <<a, i>> \notin U
    BY <1>1, <1>4
  <2> HIDE DEF U
  <2>2. \A m, d \in Nat : Cardinality(U \cup Block(a, m, d)) = Cardinality(U) + d
    BY <2>1, UnitsGrow
  <2>3. 0 \in Nat
    OBVIOUS
  <2>4. Cardinality(U \cup Block(a, 0, f[a])) = Cardinality(U) + f[a]
    BY <2>2, <2>3
  <2> QED
    BY <2>4 DEF U
<1> QED
  BY <1>3, <1>5, <1>6

\* The total depends on the numbers of the members only.
LEMMA TotalSame ==
    ASSUME NEW S, NEW f, NEW g, \A x \in S : f[x] = g[x]
    PROVE  Total(f, S) = Total(g, S)
<1>1. {{x} \X (1 .. f[x]) : x \in S} = {{x} \X (1 .. g[x]) : x \in S}
  OBVIOUS
<1> QED
  BY <1>1 DEF Total

\* Nothing but zeros is nothing in total.
LEMMA TotalZero ==
    ASSUME NEW S, NEW f, \A x \in S : f[x] = 0
    PROVE  Total(f, S) = 0
<1>1. Units(f, S) = {}
  BY UnitsAre
<1> QED
  BY <1>1, FS_EmptySet DEF Total, Units

\* The total of one member is its number.
LEMMA TotalOne ==
    ASSUME NEW a, NEW f, f[a] \in Nat
    PROVE  Total(f, {a}) = f[a]
<1>1. Total(f, {}) = 0 /\ IsFiniteSet({})
  BY TotalZero, FS_EmptySet
<1>2. {} \cup {a} = {a}
  OBVIOUS
<1> QED
  BY <1>1, <1>2, TotalJoins

-----------------------------------------------------------------------------
(* The bill. *)

Bill(a)     == [m \in Month |-> usage[m][a]]
Made        == [t \in Turns |-> turn[t].calls]
BilledBy(a) == {t \in Turns : AgentOf[t] = a /\ At(t, "billed")}
Lost        == {t \in Turns : At(t, "lost")}

UsageType == usage \in [Month -> [Agents -> Nat]]

BillInv ==
    /\ UsageType
    /\ \A a \in Agents : Total(Bill(a), Month) = Total(Made, BilledBy(a))
    /\ Cardinality(Lost) <= faults

\* The set of the turns of an agent that were billed is finite, and so are its months.
LEMMA BillFinite ==
    ASSUME TurnTyped, UsageType, NEW a \in Agents
    PROVE  /\ IsFiniteSet(Month) /\ \A m \in Month : Bill(a)[m] \in Nat
           /\ IsFiniteSet(BilledBy(a)) /\ \A t \in Turns : Made[t] \in Nat
           /\ IsFiniteSet(Lost) /\ Cardinality(Lost) \in Nat
<1>1. IsFiniteSet(Month)
  <2>1. 0 \in Int /\ MaxMonths \in Int
    OBVIOUS
  <2> QED
    BY <2>1, FS_Interval DEF Month
<1>2. IsFiniteSet(BilledBy(a)) /\ IsFiniteSet(Lost)
  BY FS_Subset DEF BilledBy, Lost
<1>3. \A t \in Turns : Made[t] \in Nat
  BY DEF TurnTyped, TurnRec, Made
<1>4. \A m \in Month : Bill(a)[m] \in Nat
  BY DEF Bill, UsageType
<1> QED
  BY <1>1, <1>2, <1>3, <1>4, FS_CardinalityType

\* The step that bills: the same calls join both sides.
LEMMA PersistBills ==
    ASSUME TurnTyped, BillInv, NEW t \in Turns, Persist(t)
    PROVE  BillInv'
<1>0. PICK a \in Agents : a = AgentOf[t]
  OBVIOUS
<1>1. PICK n : n = turn[t].calls
  OBVIOUS
<1>2. /\ Moved(t, {"billed"}, turn[t].win, n) /\ At(t, "closing") /\ faults' = faults
      /\ usage' = [usage EXCEPT ![month][a] = @ + n]
  BY <1>0, <1>1, TurnMoves DEF Persist
<1>3. UsageType /\ month \in Month /\ n \in Nat
  BY <1>1 DEF TurnTyped, TurnRec, BillInv
<1>4. UsageType' /\ usage'[month][a] = usage[month][a] + n
      /\ \A m \in Month, b \in Agents : m # month \/ b # a => usage'[m][b] = usage[m][b]
  BY <1>2, <1>3 DEF UsageType
<1>5. Lost' = Lost
  BY <1>2 DEF Lost, At, Moved
<1>6. \A x \in Turns : Made'[x] = Made[x]
  BY <1>1, <1>2 DEF Made, Moved
<1>7. ASSUME NEW b \in Agents \ {a}
      PROVE  Total(Bill(b)', Month) = Total(Made', BilledBy(b)')
  <2>1. \A m \in Month : Bill(b)'[m] = Bill(b)[m]
    BY <1>4 DEF Bill
  <2>2. BilledBy(b)' = BilledBy(b)
    BY <1>0, <1>2 DEF BilledBy, At, Moved
  <2>3. Total(Bill(b)', Month) = Total(Bill(b), Month)
    BY <2>1, TotalSame
  <2>4. Total(Made', BilledBy(b)) = Total(Made, BilledBy(b))
    <3>1. \A x \in BilledBy(b) : Made'[x] = Made[x]
      BY <1>6 DEF BilledBy
    <3> QED
      BY <3>1, TotalSame
  <2> QED
    BY <2>2, <2>3, <2>4 DEF BillInv
<1>8. Total(Bill(a)', Month) = Total(Made', BilledBy(a)')
  <2>1. t \notin BilledBy(a) /\ BilledBy(a)' = BilledBy(a) \cup {t}
    BY <1>0, <1>2 DEF BilledBy, At, Moved
  <2>2. /\ IsFiniteSet(Month) /\ \A m \in Month : Bill(a)[m] \in Nat
        /\ IsFiniteSet(BilledBy(a)) /\ \A x \in Turns : Made[x] \in Nat
    BY <1>3, BillFinite
  <2>3. Total(Bill(a)', Month) = Total(Bill(a), Month) + n
    <3>1. /\ Bill(a)'[month] = Bill(a)[month] + n
          /\ \A m \in Month \ {month} : Bill(a)'[m] = Bill(a)[m]
      BY <1>3, <1>4 DEF Bill
    <3> QED
      BY <1>3, <2>2, <3>1, TotalGrows
  <2>4. Total(Made, BilledBy(a) \cup {t}) = Total(Made, BilledBy(a)) + n
    <3>1. \A x \in BilledBy(a) : Made[x] \in Nat
      BY <2>2 DEF BilledBy
    <3>2. Made[t] = n
      BY <1>1 DEF Made
    <3> QED
      BY <1>3, <2>1, <2>2, <3>1, <3>2, TotalJoins
  <2>5. Total(Made', BilledBy(a) \cup {t}) = Total(Made, BilledBy(a) \cup {t})
    <3>1. \A x \in BilledBy(a) \cup {t} : Made'[x] = Made[x]
      BY <1>6 DEF BilledBy
    <3> QED
      BY <3>1, TotalSame
  <2> QED
    BY <2>1, <2>3, <2>4, <2>5 DEF BillInv
<1> QED
  BY <1>2, <1>4, <1>5, <1>7, <1>8 DEF BillInv

\* The other steps bill nobody and leave what was billed alone.
LEMMA OtherTurnsBill ==
    ASSUME TurnTyped, BillInv, NEW t \in Turns,
           \/ ReadClock(t) \/ Enforce(t) \/ Start(t) \/ Prepare(t) \/ Refuse(t)
           \/ CallModel(t) \/ Abort(t)
    PROVE  BillInv'
<1>1. usage' = usage
  BY DEF ReadClock, Enforce, Start, Prepare, Refuse, CallModel, Abort
<1>2. /\ \A u \in Turns \ {t} : turn'[u] = turn[u]
      /\ turn[t].pc \notin {"billed", "lost"} /\ turn'[t].pc # "billed"
      /\ \/ turn'[t].pc # "lost" /\ faults' = faults
         \/ turn'[t].pc = "lost" /\ faults' = faults + 1
  <2>1. CASE ReadClock(t)
    BY <2>1, TurnMoves DEF ReadClock, At, Moved
  <2>2. CASE Enforce(t)
    BY <2>2, TurnMoves DEF Enforce, At, Moved
  <2>3. CASE Start(t)
    BY <2>3, TurnMoves DEF Start, At, Moved
  <2>4. CASE Prepare(t)
    BY <2>4, TurnMoves DEF Prepare, At, Moved
  <2>5. CASE Refuse(t)
    BY <2>5, TurnMoves DEF Refuse, At, Moved
  <2>6. CASE CallModel(t)
    BY <2>6, TurnMoves DEF CallModel, At, Moved
  <2>7. CASE Abort(t)
    BY <2>7, TurnMoves DEF Abort, At, Moved
  <2> QED
    BY <2>1, <2>2, <2>3, <2>4, <2>5, <2>6, <2>7
<1>3. ASSUME NEW a \in Agents
      PROVE  Total(Bill(a)', Month) = Total(Made', BilledBy(a)')
  <2>1. Bill(a)' = Bill(a) /\ BilledBy(a)' = BilledBy(a)
    BY <1>1, <1>2 DEF Bill, BilledBy, At
  <2>2. \A x \in BilledBy(a) : Made'[x] = Made[x]
    BY <1>2 DEF Made, BilledBy, At
  <2>3. Total(Made', BilledBy(a)) = Total(Made, BilledBy(a))
    BY <2>2, TotalSame
  <2> QED
    BY <2>1, <2>3 DEF BillInv
<1>4. Cardinality(Lost') <= faults'
  <2>1. IsFiniteSet(Lost) /\ Cardinality(Lost) \in Nat /\ Cardinality(Lost) <= faults /\ faults \in Nat
    <3>1. IsFiniteSet(Lost)
      BY FS_Subset DEF Lost
    <3> QED
      BY <3>1, FS_CardinalityType DEF TurnTyped, BillInv
  <2>2. CASE turn'[t].pc # "lost" /\ faults' = faults
    <3>1. Lost' = Lost
      BY <1>2, <2>2 DEF Lost, At
    <3> QED
      BY <2>1, <2>2, <3>1
  <2>3. CASE turn'[t].pc = "lost" /\ faults' = faults + 1
    <3>1. Lost' = Lost \cup {t} /\ t \notin Lost
      BY <1>2, <2>3 DEF Lost, At
    <3>2. Cardinality(Lost') = Cardinality(Lost) + 1
      BY <2>1, <3>1, FS_AddElement
    <3> QED
      BY <2>1, <2>3, <3>2
  <2> QED
    BY <1>2, <2>2, <2>3
<1> QED
  BY <1>1, <1>3, <1>4 DEF BillInv, UsageType

\* In every state the bill of an agent counts the calls of its turns that have billed.
LEMMA BillInvariant == TurnsSpec => []BillInv
<1>1. TurnsInit => BillInv
  <2> SUFFICES ASSUME TurnsInit
               PROVE  BillInv
    OBVIOUS
  <2>1. UsageType /\ \A a \in Agents, m \in Month : Bill(a)[m] = 0
    BY DEF TurnsInit, UsageType, Bill
  <2>2. \A a \in Agents : BilledBy(a) = {} /\ Lost = {}
    BY DEF TurnsInit, BilledBy, Lost, At
  <2>3. ASSUME NEW a \in Agents
        PROVE  Total(Bill(a), Month) = Total(Made, BilledBy(a))
    <3>1. Total(Bill(a), Month) = 0
      BY <2>1, TotalZero
    <3>2. Total(Made, {}) = 0
      BY TotalZero
    <3> QED
      BY <2>2, <3>1, <3>2
  <2>4. Cardinality(Lost) = 0 /\ faults = 0
    BY FS_EmptySet DEF TurnsInit, Lost, At
  <2> QED
    BY <2>1, <2>3, <2>4 DEF BillInv
<1>2. TurnTyped /\ BillInv /\ [TurnsNext]_turnVars => BillInv'
  <2>1. BillInv /\ UNCHANGED <<turn, usage, faults>> => BillInv'
    BY DEF BillInv, UsageType, Bill, Made, BilledBy, Lost, At
  <2> QED
    BY <2>1, PersistBills, OtherTurnsBill DEF TurnsNext, turnVars, Minute, NewMonth
<1> QED
  BY <1>1, <1>2, TurnTypedInvariant, PTL DEF TurnsSpec

\* Every call of the model is billed to its agent, by the turn that made it and once;
\* only a turn under way, or one that a fault ended, has made calls that nobody was
\* billed for: _persist bills the whole turn in the transaction that stores it.
THEOREM EveryCallIsBilledProved == TurnsSpec => []EveryCallIsBilled
<1>1. TurnTyped /\ BillInv => EveryCallIsBilled
  <2> SUFFICES ASSUME TurnTyped, BillInv
               PROVE  EveryCallIsBilled
    OBVIOUS
  <2>1. \A t \in Turns : At(t, "billed") => turn[t].calls > 0
    BY DEF TurnTyped, TurnOK, At
  <2> QED
    BY <2>1 DEF EveryCallIsBilled, BillInv, Bill, Made, BilledBy, Lost
<1> QED
  BY <1>1, BillInvariant, TurnTypedInvariant, PTL

-----------------------------------------------------------------------------
(* The caps.  What was billed is read long before a turn is billed, so the invariant
   charges every turn under way, in advance, with all the calls it may make. *)

\* The bills f of an agent or of the tenant, in month now, with n turns under way and
\* at most k at once until now, under a cap of b.
Within(f, now, n, k, b) ==
    /\ n <= k
    /\ b = 0 => n = 0 /\ \A m \in Month : f[m] = 0
    /\ \A m \in Month : m > now => f[m] = 0
    /\ b > 0 => /\ \A m \in Month : f[m] < b + k * MaxCalls
                /\ f[now] + n * MaxCalls < b + k * MaxCalls

\* A turn that finds less than the cap, one that ends, and a new month stay within.
LEMMA WithinMoves ==
    ASSUME NEW f, \A m \in Month : f[m] \in Nat, NEW now \in Month,
           NEW n \in Nat, NEW k \in Nat, NEW b \in Nat, Within(f, now, n, k, b)
    PROVE  /\ \A j \in Nat : f[now] < b /\ j >= k /\ j >= n + 1 => Within(f, now, n + 1, j, b)
           /\ n > 0 => Within(f, now, n - 1, k, b)
           /\ \A g, d : /\ n > 0 /\ d \in 0 .. MaxCalls /\ g[now] = f[now] + d
                        /\ \A m \in Month \ {now} : g[m] = f[m]
                        => Within(g, now, n - 1, k, b)
           /\ now + 1 \in Month => Within(f, now + 1, n, k, b)
<1> DEFINE c == MaxCalls
<1>0. c \in Nat /\ now \in Nat /\ Month \subseteq Nat
  BY DEF Month
<1>1. \A i, j \in Nat : i <= j => i * c <= j * c
  BY <1>0
<1>2. /\ (n + 1) * c = n * c + c /\ n * c \in Nat /\ k * c \in Nat
      /\ n > 0 => (n - 1) * c = n * c - c /\ (n - 1) * c \in Nat
  BY <1>0
<1>3. ASSUME NEW j \in Nat, f[now] < b, j >= k, j >= n + 1
      PROVE  Within(f, now, n + 1, j, b)
  <2>1. k * c <= j * c /\ (n + 1) * c <= j * c /\ j * c \in Nat
    BY <1>0, <1>1, <1>3
  <2>2. \A m \in Month : f[m] < b + k * c
    BY <1>3 DEF Within
  <2>3. \A m \in Month : f[m] < b + j * c
    <3>1. PICK kc \in Nat, jc \in Nat : kc = k * c /\ jc = j * c /\ kc <= jc
      BY <1>2, <2>1
    <3>2. \A m \in Month : f[m] < b + kc
      BY <2>2, <3>1
    <3>3. \A m \in Month : f[m] < b + jc
      BY <3>1, <3>2
    <3> QED
      BY <3>1, <3>3
  <2>4. f[now] + (n + 1) * c < b + j * c
    BY <1>2, <1>3, <2>1
  <2> QED
    BY <1>3, <2>3, <2>4 DEF Within
<1>4. ASSUME n > 0
      PROVE  Within(f, now, n - 1, k, b)
  <2>1. b > 0 => f[now] + (n - 1) * c < b + k * c
    BY <1>0, <1>2, <1>4 DEF Within
  <2> QED
    BY <1>4, <2>1 DEF Within
<1>5. ASSUME NEW g, NEW d \in 0 .. MaxCalls, n > 0, g[now] = f[now] + d,
             \A m \in Month \ {now} : g[m] = f[m]
      PROVE  Within(g, now, n - 1, k, b)
  <2>1. b > 0
    BY <1>5 DEF Within
  <2>2. f[now] + n * c < b + k * c
    BY <2>1 DEF Within
  <2>3. g[now] + (n - 1) * c < b + k * c /\ g[now] < b + k * c
    BY <1>0, <1>2, <1>5, <2>2
  <2>4. \A m \in Month : g[m] < b + k * c
    BY <1>5, <2>1, <2>3 DEF Within
  <2>5. \A m \in Month : m > now => g[m] = 0
    BY <1>0, <1>5 DEF Within
  <2> QED
    BY <1>5, <2>1, <2>3, <2>4, <2>5 DEF Within
<1>6. ASSUME now + 1 \in Month
      PROVE  Within(f, now + 1, n, k, b)
  <2>1. f[now + 1] = 0
    BY <1>0, <1>6 DEF Within
  <2>2. b > 0 => f[now + 1] + n * c < b + k * c
    <3>1. n * c <= k * c
      BY <1>1 DEF Within
    <3> QED
      BY <1>2, <2>1, <3>1
  <2>3. \A m \in Month : m > now + 1 => f[m] = 0
    BY <1>0 DEF Within
  <2> QED
    BY <2>2, <2>3 DEF Within
<1> QED
  BY <1>3, <1>4, <1>5, <1>6

TenantBill == [m \in Month |-> Total(usage[m], Agents)]

OverlapType == overlap \in [agent : [Agents -> Nat], all : Nat]

CapInv ==
    /\ UsageType /\ OverlapType
    /\ \A a \in Agents :
          Within(Bill(a), month, Cardinality(InFlight(a)), overlap.agent[a], AgentBudget)
    /\ Within(TenantBill, month, Cardinality(AllInFlight), overlap.all, TenantBudget)

\* The numbers the caps are about.
LEMMA CapTypes ==
    ASSUME TurnTyped, UsageType, OverlapType
    PROVE  /\ \A a \in Agents : /\ IsFiniteSet(InFlight(a)) /\ Cardinality(InFlight(a)) \in Nat
                                /\ overlap.agent[a] \in Nat /\ \A m \in Month : Bill(a)[m] \in Nat
           /\ IsFiniteSet(AllInFlight) /\ Cardinality(AllInFlight) \in Nat
           /\ overlap.all \in Nat /\ \A m \in Month : TenantBill[m] \in Nat
           /\ AllInFlight = {t \in Turns : turn[t].pc \in {"running", "closing"}}
<1>1. AllInFlight = {t \in Turns : turn[t].pc \in {"running", "closing"}}
  BY DEF AllInFlight, InFlight
<1>2. IsFiniteSet(AllInFlight) /\ \A a \in Agents : IsFiniteSet(InFlight(a))
  <2>1. IsFiniteSet({t \in Turns : turn[t].pc \in {"running", "closing"}})
    BY FS_Subset
  <2>2. \A a \in Agents : IsFiniteSet(InFlight(a))
    BY FS_Subset DEF InFlight
  <2> QED
    BY <1>1, <2>1, <2>2
<1>3. \A m \in Month : TenantBill[m] \in Nat
  <2>1. ASSUME NEW m \in Month
        PROVE  Total(usage[m], Agents) \in Nat
    <3>1. PICK f : f = usage[m] /\ \A a \in Agents : f[a] \in Nat
      BY DEF UsageType
    <3> QED
      BY <3>1, UnitsFinite
  <2> QED
    BY <2>1 DEF TenantBill
<1>4. \A a \in Agents, m \in Month : Bill(a)[m] \in Nat
  BY DEF Bill, UsageType
<1> QED
  BY <1>1, <1>2, <1>3, <1>4, FS_CardinalityType DEF OverlapType

\* A turn that takes off, lands or stays changes its agent's flights and the tenant's.
LEMMA Flights ==
    ASSUME TurnTyped, NEW t \in Turns, \A u \in Turns \ {t} : turn'[u] = turn[u]
    PROVE  LET a      == AgentOf[t]
               before == turn[t].pc \in {"running", "closing"}
               after  == turn'[t].pc \in {"running", "closing"}
           IN  /\ \A b \in Agents \ {a} : InFlight(b)' = InFlight(b)
               /\ (before <=> after) => InFlight(a)' = InFlight(a) /\ AllInFlight' = AllInFlight
               /\ ~before /\ after =>
                    /\ t \notin InFlight(a) /\ InFlight(a)' = InFlight(a) \cup {t}
                    /\ t \notin AllInFlight /\ AllInFlight' = AllInFlight \cup {t}
               /\ before /\ ~after =>
                    /\ t \in InFlight(a) /\ InFlight(a)' = InFlight(a) \ {t}
                    /\ t \in AllInFlight /\ AllInFlight' = AllInFlight \ {t}
<1>1. /\ AllInFlight = {u \in Turns : turn[u].pc \in {"running", "closing"}}
      /\ AllInFlight' = {u \in Turns : turn'[u].pc \in {"running", "closing"}}
  BY DEF AllInFlight, InFlight
<1>2. \A b \in Agents :
         /\ InFlight(b) = {u \in Turns : AgentOf[u] = b /\ turn[u].pc \in {"running", "closing"}}
         /\ InFlight(b)' = {u \in Turns : AgentOf[u] = b /\ turn'[u].pc \in {"running", "closing"}}
  BY DEF InFlight
<1>3. PICK a \in Agents : a = AgentOf[t]
  OBVIOUS
<1>4. ASSUME NEW b \in Agents \ {a}
      PROVE  InFlight(b)' = InFlight(b)
  <2>1. \A u \in Turns : AgentOf[u] = b => turn'[u] = turn[u]
    BY <1>3
  <2>2. {u \in Turns : AgentOf[u] = b /\ turn'[u].pc \in {"running", "closing"}}
           = {u \in Turns : AgentOf[u] = b /\ turn[u].pc \in {"running", "closing"}}
    BY <2>1
  <2> QED
    BY <1>2, <2>2
<1>5. CASE turn[t].pc \in {"running", "closing"} <=> turn'[t].pc \in {"running", "closing"}
  <2>1. \A u \in Turns : turn[u].pc \in {"running", "closing"}
                         <=> turn'[u].pc \in {"running", "closing"}
    BY <1>5
  <2>2. InFlight(a)' = InFlight(a) /\ AllInFlight' = AllInFlight
    BY <1>1, <1>2, <2>1
  <2> QED
    BY <1>3, <1>4, <1>5, <2>2
<1>6. CASE turn[t].pc \notin {"running", "closing"} /\ turn'[t].pc \in {"running", "closing"}
  <2>1. t \notin InFlight(a) /\ InFlight(a)' = InFlight(a) \cup {t}
    BY <1>2, <1>3, <1>6
  <2>2. t \notin AllInFlight /\ AllInFlight' = AllInFlight \cup {t}
    BY <1>1, <1>6
  <2> QED
    BY <1>3, <1>4, <1>6, <2>1, <2>2
<1>7. CASE turn[t].pc \in {"running", "closing"} /\ turn'[t].pc \notin {"running", "closing"}
  <2>1. t \in InFlight(a) /\ InFlight(a)' = InFlight(a) \ {t}
    BY <1>2, <1>3, <1>7
  <2>2. t \in AllInFlight /\ AllInFlight' = AllInFlight \ {t}
    BY <1>1, <1>7
  <2> QED
    BY <1>3, <1>4, <1>7, <2>1, <2>2
<1> QED
  BY <1>5, <1>6, <1>7

\* The higher of two numbers.
LEMMA MaxOfTwo ==
    ASSUME NEW i \in Nat, NEW j \in Nat
    PROVE  /\ Max({i, j}) \in Nat /\ Max({i, j}) >= i /\ Max({i, j}) >= j
           /\ i >= j => Max({i, j}) = i
<1>1. \E x \in {i, j} : \A y \in {i, j} : x >= y
  OBVIOUS
<1>2. PICK x \in {i, j} : x = Max({i, j}) /\ \A y \in {i, j} : x >= y
  BY <1>1 DEF Max
<1> QED
  BY <1>2

\* The check of _prepare: a turn takes off below both caps.
LEMMA PrepareCaps ==
    ASSUME TurnTyped, CapInv, NEW t \in Turns, Prepare(t)
    PROVE  CapInv'
<1>0. PICK a \in Agents : a = AgentOf[t]
  OBVIOUS
<1>1. PICK n, k, all, most :
        /\ n = Cardinality(InFlight(a)') /\ k = Max({overlap.agent[a], n})
        /\ all = Cardinality(AllInFlight') /\ most = Max({overlap.all, all})
        /\ overlap' = [overlap EXCEPT !.agent[a] = k, !.all = most]
  BY <1>0 DEF Prepare
<1>2. /\ usage' = usage /\ month' = month
      /\ Moved(t, IF Exhausted(a) THEN {"refusing"} ELSE {"running"}, turn[t].win, turn[t].calls)
      /\ At(t, "admitted")
  BY <1>0, TurnMoves DEF Prepare
<1>3. UsageType /\ OverlapType /\ UsageType' /\ month \in Month
  BY <1>2 DEF CapInv, UsageType, TurnTyped
<1>4. \A b \in Agents : Bill(b)' = Bill(b) /\ TenantBill' = TenantBill
  BY <1>2 DEF Bill, TenantBill
<1>5. /\ Cardinality(InFlight(a)) \in Nat /\ IsFiniteSet(InFlight(a)) /\ overlap.agent[a] \in Nat
      /\ Cardinality(AllInFlight) \in Nat /\ IsFiniteSet(AllInFlight) /\ overlap.all \in Nat
      /\ Cardinality(InFlight(a)) <= overlap.agent[a] /\ Cardinality(AllInFlight) <= overlap.all
      /\ \A m \in Month : Bill(a)[m] \in Nat /\ TenantBill[m] \in Nat
  BY <1>3, CapTypes DEF CapInv, Within
<1>6. ASSUME k \in Nat, most \in Nat
      PROVE  /\ OverlapType'
             /\ overlap'.agent[a] = k /\ overlap'.all = most
             /\ \A b \in Agents \ {a} : overlap'.agent[b] = overlap.agent[b]
  BY <1>1, <1>3, <1>6 DEF OverlapType
<1>7. /\ \A u \in Turns \ {t} : turn'[u] = turn[u]
      /\ turn'[t].pc = IF Exhausted(a) THEN "refusing" ELSE "running"
      /\ turn[t].pc = "admitted"
  BY <1>2 DEF Moved, At
<1>8. \A b \in Agents \ {a} : InFlight(b)' = InFlight(b)
  BY <1>0, <1>7, Flights
<1>9. CASE Exhausted(a)
  <2>1. InFlight(a)' = InFlight(a) /\ AllInFlight' = AllInFlight
    BY <1>0, <1>7, <1>9, Flights
  <2>2. k = overlap.agent[a] /\ most = overlap.all
    BY <1>1, <1>5, <2>1, MaxOfTwo
  <2>3. /\ OverlapType' /\ overlap'.all = overlap.all
        /\ \A b \in Agents : overlap'.agent[b] = overlap.agent[b]
    BY <1>5, <1>6, <2>2
  <2>4. \A b \in Agents : InFlight(b)' = InFlight(b)
    BY <1>8, <2>1
  <2> QED
    BY <1>2, <1>3, <1>4, <2>1, <2>3, <2>4 DEF CapInv
<1>10. CASE ~Exhausted(a)
  <2>1. /\ t \notin InFlight(a) /\ InFlight(a)' = InFlight(a) \cup {t}
        /\ t \notin AllInFlight /\ AllInFlight' = AllInFlight \cup {t}
    BY <1>0, <1>7, <1>10, Flights
  <2>2. n = Cardinality(InFlight(a)) + 1 /\ all = Cardinality(AllInFlight) + 1
    BY <1>1, <1>5, <2>1, FS_AddElement
  <2>3. /\ k \in Nat /\ k >= overlap.agent[a] /\ k >= n
        /\ most \in Nat /\ most >= overlap.all /\ most >= all
    <3>1. n \in Nat /\ all \in Nat
      BY <1>5, <2>2
    <3> QED
      BY <1>1, <1>5, <3>1, MaxOfTwo
  <2>4. Bill(a)[month] < AgentBudget /\ TenantBill[month] < TenantBudget
    <3>1. PICK f : f = usage[month] /\ \A b \in Agents : f[b] \in Nat
      BY <1>3 DEF UsageType
    <3>2. Total(f, {a}) = f[a]
      BY <3>1, TotalOne
    <3>3. Total(f, {a}) < AgentBudget /\ Total(f, Agents) < TenantBudget
      <4>1. Total(f, Agents) \in Nat /\ f[a] \in Nat
        BY <3>1, UnitsFinite
      <4> QED
        BY <1>10, <3>1, <3>2, <4>1 DEF Exhausted, Billed
    <3> QED
      BY <1>3, <3>1, <3>2, <3>3 DEF Bill, TenantBill
  <2>5. Within(Bill(a), month, n, k, AgentBudget)
    BY <1>3, <1>5, <2>2, <2>3, <2>4, WithinMoves DEF CapInv
  <2>6. Within(TenantBill, month, all, most, TenantBudget)
    BY <1>3, <1>5, <2>2, <2>3, <2>4, WithinMoves DEF CapInv
  <2>7. ASSUME NEW b \in Agents
        PROVE  Within(Bill(b)', month', Cardinality(InFlight(b)'), overlap'.agent[b], AgentBudget)
    <3>1. CASE b = a
      BY <1>1, <1>2, <1>4, <1>6, <2>3, <2>5, <3>1
    <3>2. CASE b # a
      BY <1>2, <1>4, <1>6, <1>8, <2>3, <3>2 DEF CapInv
    <3> QED
      BY <3>1, <3>2
  <2>8. Within(TenantBill', month', Cardinality(AllInFlight'), overlap'.all, TenantBudget)
    BY <1>1, <1>2, <1>4, <1>6, <2>3, <2>6
  <2> QED
    BY <1>3, <1>6, <2>3, <2>7, <2>8 DEF CapInv
<1> QED
  BY <1>9, <1>10

\* The bill of a turn that lands is within what was charged for it.
LEMMA PersistCaps ==
    ASSUME TurnTyped, CapInv, NEW t \in Turns, Persist(t)
    PROVE  CapInv'
<1>0. PICK a \in Agents : a = AgentOf[t]
  OBVIOUS
<1>1. PICK d : d = turn[t].calls
  OBVIOUS
<1>2. /\ Moved(t, {"billed"}, turn[t].win, d) /\ At(t, "closing")
      /\ usage' = [usage EXCEPT ![month][a] = @ + d] /\ month' = month /\ overlap' = overlap
  BY <1>0, <1>1, TurnMoves DEF Persist
<1>3. UsageType /\ OverlapType /\ OverlapType' /\ month \in Month /\ d \in 0 .. MaxCalls
  BY <1>1, <1>2 DEF CapInv, OverlapType, TurnTyped, TurnOK, TurnRec
<1>4. /\ UsageType' /\ usage'[month][a] = usage[month][a] + d
      /\ \A m \in Month, b \in Agents : m # month \/ b # a => usage'[m][b] = usage[m][b]
  BY <1>2, <1>3 DEF UsageType
<1>5. /\ t \in InFlight(a) /\ InFlight(a)' = InFlight(a) \ {t}
      /\ t \in AllInFlight /\ AllInFlight' = AllInFlight \ {t}
      /\ \A b \in Agents \ {a} : InFlight(b)' = InFlight(b)
  <2>1. /\ \A u \in Turns \ {t} : turn'[u] = turn[u]
        /\ turn'[t].pc = "billed" /\ turn[t].pc = "closing"
    BY <1>2 DEF Moved, At
  <2> QED
    BY <1>0, <2>1, Flights
<1>6. /\ Cardinality(InFlight(a)) \in Nat /\ IsFiniteSet(InFlight(a)) /\ overlap.agent[a] \in Nat
      /\ Cardinality(AllInFlight) \in Nat /\ IsFiniteSet(AllInFlight) /\ overlap.all \in Nat
      /\ \A m \in Month : Bill(a)[m] \in Nat /\ TenantBill[m] \in Nat
  BY <1>3, CapTypes
<1>7. /\ Cardinality(InFlight(a)') = Cardinality(InFlight(a)) - 1 /\ Cardinality(InFlight(a)) > 0
      /\ Cardinality(AllInFlight') = Cardinality(AllInFlight) - 1 /\ Cardinality(AllInFlight) > 0
  <2>1. /\ Cardinality(InFlight(a)') = Cardinality(InFlight(a)) - 1
        /\ Cardinality(AllInFlight') = Cardinality(AllInFlight) - 1
    BY <1>5, <1>6, FS_RemoveElement
  <2>2. Cardinality(InFlight(a)) # 0 /\ Cardinality(AllInFlight) # 0
    BY <1>5, <1>6, FS_EmptySet
  <2> QED
    BY <1>6, <2>1, <2>2
<1>8. /\ Bill(a)'[month] = Bill(a)[month] + d
      /\ \A m \in Month \ {month} : Bill(a)'[m] = Bill(a)[m]
      /\ \A b \in Agents \ {a} : Bill(b)' = Bill(b)
  BY <1>3, <1>4 DEF Bill
<1>9. /\ TenantBill'[month] = TenantBill[month] + d
      /\ \A m \in Month \ {month} : TenantBill'[m] = TenantBill[m]
  <2>1. Total(usage'[month], Agents) = Total(usage[month], Agents) + d
    <3>1. PICK f, g : f = usage[month] /\ g = usage'[month]
      OBVIOUS
    <3>2. /\ \A b \in Agents : f[b] \in Nat /\ g[a] = f[a] + d
          /\ \A b \in Agents \ {a} : g[b] = f[b]
      BY <1>3, <1>4, <3>1 DEF UsageType
    <3>3. Total(g, Agents) = Total(f, Agents) + d
      BY <1>3, <3>2, TotalGrows
    <3> QED
      BY <3>1, <3>3
  <2>2. ASSUME NEW m \in Month \ {month}
        PROVE  Total(usage'[m], Agents) = Total(usage[m], Agents)
    <3>1. PICK f, g : f = usage[m] /\ g = usage'[m]
      OBVIOUS
    <3>2. \A b \in Agents : g[b] = f[b]
      BY <1>4, <3>1
    <3>3. Total(g, Agents) = Total(f, Agents)
      BY <3>2, TotalSame
    <3> QED
      BY <3>1, <3>3
  <2> QED
    BY <1>3, <2>1, <2>2 DEF TenantBill
<1>10. Within(Bill(a)', month, Cardinality(InFlight(a)) - 1, overlap.agent[a], AgentBudget)
  <2>1. Within(Bill(a), month, Cardinality(InFlight(a)), overlap.agent[a], AgentBudget)
    BY DEF CapInv
  <2> QED
    BY <1>3, <1>6, <1>7, <1>8, <2>1, WithinMoves
<1>11. Within(TenantBill', month, Cardinality(AllInFlight) - 1, overlap.all, TenantBudget)
  <2>1. Within(TenantBill, month, Cardinality(AllInFlight), overlap.all, TenantBudget)
    BY DEF CapInv
  <2> QED
    BY <1>3, <1>6, <1>7, <1>9, <2>1, WithinMoves
<1>12. ASSUME NEW b \in Agents
       PROVE  Within(Bill(b)', month', Cardinality(InFlight(b)'), overlap'.agent[b], AgentBudget)
  <2>1. CASE b = a
    BY <1>2, <1>7, <1>10, <2>1
  <2>2. CASE b # a
    BY <1>2, <1>5, <1>8, <2>2 DEF CapInv
  <2> QED
    BY <2>1, <2>2
<1> QED
  BY <1>2, <1>3, <1>4, <1>7, <1>11, <1>12 DEF CapInv

\* A turn that is lost leaves its charge unused; the other steps change no flight.
LEMMA OtherTurnsCap ==
    ASSUME TurnTyped, CapInv, NEW t \in Turns,
           ReadClock(t) \/ Enforce(t) \/ Start(t) \/ Refuse(t) \/ CallModel(t) \/ Abort(t)
    PROVE  CapInv'
<1>0. PICK a \in Agents : a = AgentOf[t]
  OBVIOUS
<1>1. usage' = usage /\ month' = month /\ overlap' = overlap
  BY DEF ReadClock, Enforce, Start, Refuse, CallModel, Abort
<1>2. /\ \A u \in Turns \ {t} : turn'[u] = turn[u]
      /\ turn'[t].pc \in {"running", "closing"} => turn[t].pc \in {"running", "closing"}
  <2>1. CASE ReadClock(t)
    BY <2>1, TurnMoves DEF Moved
  <2>2. CASE Enforce(t)
    BY <2>2, TurnMoves DEF Moved
  <2>3. CASE Start(t)
    BY <2>3, TurnMoves DEF Moved
  <2>4. CASE Refuse(t)
    BY <2>4, TurnMoves DEF Moved
  <2>5. CASE CallModel(t)
    BY <2>5, TurnMoves DEF CallModel, At, Moved
  <2>6. CASE Abort(t)
    BY <2>6, TurnMoves DEF Moved
  <2> QED
    BY <2>1, <2>2, <2>3, <2>4, <2>5, <2>6
<1>3. /\ UsageType' /\ OverlapType' /\ UsageType /\ OverlapType /\ month \in Month
      /\ TenantBill' = TenantBill /\ \A b \in Agents : Bill(b)' = Bill(b)
  BY <1>1 DEF CapInv, UsageType, OverlapType, TenantBill, Bill, TurnTyped
<1>4. \A b \in Agents \ {a} : InFlight(b)' = InFlight(b)
  BY <1>0, <1>2, Flights
<1>5. CASE InFlight(a)' = InFlight(a) /\ AllInFlight' = AllInFlight
  <2>1. \A b \in Agents : InFlight(b)' = InFlight(b)
    BY <1>4, <1>5
  <2> QED
    BY <1>1, <1>3, <1>5, <2>1 DEF CapInv
<1>6. CASE /\ t \in InFlight(a) /\ InFlight(a)' = InFlight(a) \ {t}
           /\ t \in AllInFlight /\ AllInFlight' = AllInFlight \ {t}
  <2>1. /\ Cardinality(InFlight(a)) \in Nat /\ IsFiniteSet(InFlight(a)) /\ overlap.agent[a] \in Nat
        /\ Cardinality(AllInFlight) \in Nat /\ IsFiniteSet(AllInFlight) /\ overlap.all \in Nat
        /\ \A m \in Month : Bill(a)[m] \in Nat /\ TenantBill[m] \in Nat
    BY <1>3, CapTypes
  <2>2. /\ Cardinality(InFlight(a)') = Cardinality(InFlight(a)) - 1 /\ Cardinality(InFlight(a)) > 0
        /\ Cardinality(AllInFlight') = Cardinality(AllInFlight) - 1 /\ Cardinality(AllInFlight) > 0
    <3>1. /\ Cardinality(InFlight(a)') = Cardinality(InFlight(a)) - 1
          /\ Cardinality(AllInFlight') = Cardinality(AllInFlight) - 1
      BY <1>6, <2>1, FS_RemoveElement
    <3>2. Cardinality(InFlight(a)) # 0 /\ Cardinality(AllInFlight) # 0
      BY <1>6, <2>1, FS_EmptySet
    <3> QED
      BY <2>1, <3>1, <3>2
  <2>3. Within(Bill(a), month, Cardinality(InFlight(a)) - 1, overlap.agent[a], AgentBudget)
    BY <1>3, <2>1, <2>2, WithinMoves DEF CapInv
  <2>4. Within(TenantBill, month, Cardinality(AllInFlight) - 1, overlap.all, TenantBudget)
    BY <1>3, <2>1, <2>2, WithinMoves DEF CapInv
  <2>5. ASSUME NEW b \in Agents
        PROVE  Within(Bill(b)', month', Cardinality(InFlight(b)'), overlap'.agent[b], AgentBudget)
    <3>1. CASE b = a
      BY <1>1, <1>3, <2>2, <2>3, <3>1
    <3>2. CASE b # a
      BY <1>1, <1>3, <1>4, <3>2 DEF CapInv
    <3> QED
      BY <3>1, <3>2
  <2> QED
    BY <1>1, <1>3, <2>2, <2>4, <2>5 DEF CapInv
<1> QED
  BY <1>0, <1>2, <1>5, <1>6, Flights

\* In every state a bill beyond its cap is covered by the turns that passed the check together.
LEMMA CapInvariant == TurnsSpec => []CapInv
<1>1. TurnsInit => CapInv
  <2> SUFFICES ASSUME TurnsInit
               PROVE  CapInv
    OBVIOUS
  <2>1. UsageType /\ OverlapType /\ month = 0 /\ month \in Month
    BY DEF TurnsInit, UsageType, OverlapType, Month
  <2>2. AllInFlight = {} /\ \A a \in Agents : InFlight(a) = {}
    BY DEF TurnsInit, AllInFlight, InFlight
  <2>3. Cardinality(AllInFlight) = 0 /\ \A a \in Agents : Cardinality(InFlight(a)) = 0
    BY <2>2, FS_EmptySet
  <2>4. \A m \in Month, a \in Agents : Bill(a)[m] = 0
    BY DEF TurnsInit, Bill
  <2>5. ASSUME NEW m \in Month
        PROVE  TenantBill[m] = 0
    <3>1. PICK f : f = usage[m] /\ \A a \in Agents : f[a] = 0
      BY DEF TurnsInit
    <3> QED
      BY <3>1, TotalZero DEF TenantBill
  <2>6. overlap.all = 0 /\ \A a \in Agents : overlap.agent[a] = 0
    BY DEF TurnsInit
  <2>7. \A f, b : b \in Nat /\ (\A m \in Month : f[m] = 0) => Within(f, month, 0, 0, b)
    <3>1. 0 * MaxCalls = 0
      OBVIOUS
    <3> QED
      BY <2>1, <3>1 DEF Within
  <2> QED
    BY <2>1, <2>3, <2>4, <2>5, <2>6, <2>7 DEF CapInv
<1>2. TurnTyped /\ CapInv /\ NewMonth => CapInv'
  <2> SUFFICES ASSUME TurnTyped, CapInv, NewMonth
               PROVE  CapInv'
    OBVIOUS
  <2>1. /\ month' = month + 1 /\ month \in Month /\ month + 1 \in Month
        /\ turn' = turn /\ usage' = usage /\ overlap' = overlap
    BY DEF NewMonth, TurnTyped, Month
  <2>2. /\ UsageType /\ OverlapType /\ UsageType' /\ OverlapType'
        /\ TenantBill' = TenantBill /\ AllInFlight' = AllInFlight
        /\ \A a \in Agents : Bill(a)' = Bill(a) /\ InFlight(a)' = InFlight(a)
    BY <2>1 DEF CapInv, UsageType, OverlapType, TenantBill, AllInFlight, Bill, InFlight
  <2>3. Within(TenantBill, month + 1, Cardinality(AllInFlight), overlap.all, TenantBudget)
    BY <2>1, <2>2, CapTypes, WithinMoves DEF CapInv
  <2>4. \A a \in Agents :
           Within(Bill(a), month + 1, Cardinality(InFlight(a)), overlap.agent[a], AgentBudget)
    BY <2>1, <2>2, CapTypes, WithinMoves DEF CapInv
  <2> QED
    BY <2>1, <2>2, <2>3, <2>4 DEF CapInv
<1>3. TurnTyped /\ CapInv /\ [TurnsNext]_turnVars => CapInv'
  <2>1. CapInv /\ UNCHANGED <<turn, usage, month, overlap>> => CapInv'
    BY DEF CapInv, UsageType, OverlapType, TenantBill, AllInFlight, Bill, InFlight
  <2> QED
    BY <1>2, <2>1, PrepareCaps, PersistCaps, OtherTurnsCap DEF TurnsNext, turnVars, Minute
<1> QED
  BY <1>1, <1>3, TurnTypedInvariant, PTL DEF TurnsSpec

\* A cap is overshot only by the turns that were past it together: in no month is an
\* agent, or the tenant, billed a whole turn for each of them beyond what still lets a
\* turn pass.  That is all that _prepare's check in a transaction of its own buys.
THEOREM OvershootIsBoundedProved == TurnsSpec => []OvershootIsBounded
<1>1. TurnTyped /\ CapInv => OvershootIsBounded
  <2> SUFFICES ASSUME TurnTyped, CapInv, NEW m \in Month
               PROVE  /\ \A a \in Agents :
                           usage[m][a] > 0 => usage[m][a] < AgentBudget + overlap.agent[a] * MaxCalls
                      /\ Total(usage[m], Agents) > 0 =>
                           Total(usage[m], Agents) < TenantBudget + overlap.all * MaxCalls
    BY DEF OvershootIsBounded
  <2>1. /\ \A a \in Agents : usage[m][a] = Bill(a)[m]
        /\ Total(usage[m], Agents) = TenantBill[m]
    BY DEF Bill, TenantBill
  <2>2. AgentBudget \in Nat /\ TenantBudget \in Nat
    OBVIOUS
  <2> QED
    BY <2>1, <2>2 DEF CapInv, Within
<1> QED
  BY <1>1, CapInvariant, TurnTypedInvariant, PTL

HIDE TurnsAssumption

-----------------------------------------------------------------------------
(* Links.  What a chat or a tenant was told about a link stays true because nobody
   writes the row but the one request that has loaded it, or the binding of another
   link that clears it, and the rows that binding clears are locked till it commits. *)

USE LinksAssumption

Ask == [pc : {"new", "resolved", "found", "loaded", "cleared", "revoking", "over"},
        chat : Chats \cup {NoChat}, link : Links \cup {"none"},
        seen : {"none", "pending", "linked", "revoked"}, clears : SUBSET Links]

LinkRow == [status : {"none", "pending", "linked", "revoked"}, chat : Chats \cup {NoChat},
            expired : BOOLEAN]

AskOK(k) ==
    /\ ask[k].pc \in {"resolved", "found", "loaded", "cleared", "revoking"} => ask[k].link \in Links
    /\ ask[k].pc # "cleared" => ask[k].clears = {}
    /\ ask[k].link \notin ask[k].clears
    /\ ask[k].pc = "cleared" => ask[k].chat \in Chats
    /\ ask[k].pc \in {"resolved", "found", "loaded"} => ask[k].chat \in Chats
    /\ \A l \in ask[k].clears : link[l].status = "linked"

LinksTyped ==
    /\ link \in [Links -> LinkRow] /\ ask \in [Asks -> Ask]
    /\ confirmed \subseteq Links \X Chats /\ revoked \subseteq Links /\ collided \subseteq Links
    /\ \A k \in Asks : AskOK(k)
    /\ \A j, k \in Asks : j # k => ask[j].clears \cap ask[k].clears = {}

\* What a request that has loaded a link nobody else had loaded knows of it
Knows(k, l) ==
    /\ ask[k].pc \in {"loaded", "cleared"} => link[l].status = "pending"
    /\ ask[k].pc = "revoking" => /\ link[l].status # "none"
                                 /\ ask[k].seen = "revoked" => link[l].status = "revoked"

Answered(l) ==
    /\ \A j, k \in Loaders(l) : j = k
    /\ \A k \in Loaders(l) : Knows(k, l)
    /\ \A c \in Chats : <<l, c>> \in confirmed =>
          link[l].status \in {"linked", "revoked"} /\ link[l].chat = c
    /\ l \in revoked => link[l].status = "revoked"

LinksInv == \A l \in Links \ collided : Answered(l)

\* What a request's step leaves of it; the others do not move.
AskMoved(k, pcs, chat, l, seen, clears) ==
    /\ ask' \in [Asks -> Ask] /\ \A j \in Asks \ {k} : ask'[j] = ask[j]
    /\ ask'[k].pc \in pcs /\ ask'[k].chat = chat /\ ask'[k].link = l /\ ask'[k].seen = seen
    /\ ask'[k].clears = clears

\* The steps of requests.
LEMMA AskMoves ==
    ASSUME LinksTyped, NEW k \in Asks
    PROVE  /\ \A c \in Chats, l \in Links :
                Receive(k, c, l) => AskMoved(k, {"resolved"}, c, l, ask[k].seen, ask[k].clears)
           /\ Find(k) => AskMoved(k, IF Valid(ask[k].link) THEN {"found"} ELSE {"over"},
                                  ask[k].chat, ask[k].link, ask[k].seen, ask[k].clears)
           /\ Load(k) => \/ /\ link[ask[k].link].status = "pending" /\ Collide(ask[k].link)
                            /\ AskMoved(k, {"loaded"}, ask[k].chat, ask[k].link, "pending",
                                        ask[k].clears)
                         \/ /\ collided' = collided
                            /\ AskMoved(k, {"over"}, ask[k].chat, ask[k].link, ask[k].seen,
                                        ask[k].clears)
           /\ Clear(k) => \E ls \in SUBSET (Routed(ask[k].chat) \ {ask[k].link}) :
                            /\ \A x \in ls : ~Locked(x)
                            /\ AskMoved(k, {"cleared"}, ask[k].chat, ask[k].link, ask[k].seen, ls)
           /\ Bind(k) => AskMoved(k, {"over"}, ask[k].chat, ask[k].link, ask[k].seen, {})
           /\ \A l \in Links :
                LoadToRevoke(k, l) => AskMoved(k, {"revoking"}, ask[k].chat, l, link[l].status,
                                               ask[k].clears)
           /\ Revoke(k) => AskMoved(k, {"over"}, ask[k].chat, ask[k].link, ask[k].seen,
                                    ask[k].clears)
<1>1. ask[k] \in Ask /\ ask \in [Asks -> Ask] /\ link \in [Links -> LinkRow]
  BY DEF LinksTyped
<1>a. ASSUME NEW new \in Ask, ask' = [ask EXCEPT ![k] = new]
      PROVE  AskMoved(k, {new.pc}, new.chat, new.link, new.seen, new.clears)
  BY <1>1, <1>a DEF AskMoved
<1>b. ASSUME NEW pc \in {"found", "over"}, ask' = [ask EXCEPT ![k].pc = pc]
      PROVE  AskMoved(k, {pc}, ask[k].chat, ask[k].link, ask[k].seen, ask[k].clears)
  <2> DEFINE new == [ask[k] EXCEPT !.pc = pc]
  <2>1. /\ new \in Ask /\ new.pc = pc /\ new.chat = ask[k].chat /\ new.link = ask[k].link
        /\ new.seen = ask[k].seen /\ new.clears = ask[k].clears
    BY <1>1 DEF Ask
  <2>2. ask' = [ask EXCEPT ![k] = new]
    BY <1>b
  <2> HIDE DEF new
  <2> QED
    BY <1>a, <2>1, <2>2
<1>2. ASSUME NEW c \in Chats, NEW l \in Links, Receive(k, c, l)
      PROVE  AskMoved(k, {"resolved"}, c, l, ask[k].seen, ask[k].clears)
  <2> DEFINE new == [ask[k] EXCEPT !.pc = "resolved", !.chat = c, !.link = l]
  <2>1. new \in Ask
    BY <1>1 DEF Ask
  <2>2. /\ new.pc = "resolved" /\ new.chat = c /\ new.link = l
        /\ new.seen = ask[k].seen /\ new.clears = ask[k].clears
    BY <1>1 DEF Ask
  <2>3. ask' = [ask EXCEPT ![k] = new]
    BY <1>2 DEF Receive
  <2> HIDE DEF new
  <2> QED
    BY <1>a, <2>1, <2>2, <2>3
<1>3. ASSUME Find(k)
      PROVE  AskMoved(k, IF Valid(ask[k].link) THEN {"found"} ELSE {"over"},
                      ask[k].chat, ask[k].link, ask[k].seen, ask[k].clears)
  BY <1>3, <1>b DEF Find
<1>4. ASSUME Load(k)
      PROVE  \/ /\ link[ask[k].link].status = "pending" /\ Collide(ask[k].link)
                /\ AskMoved(k, {"loaded"}, ask[k].chat, ask[k].link, "pending", ask[k].clears)
             \/ /\ collided' = collided
                /\ AskMoved(k, {"over"}, ask[k].chat, ask[k].link, ask[k].seen, ask[k].clears)
  <2>1. CASE link[ask[k].link].status = "pending"
    <3> DEFINE new == [ask[k] EXCEPT !.pc = "loaded", !.seen = "pending"]
    <3>1. new \in Ask
      <4>1. ASSUME NEW pc \in {"loaded"}, NEW seen \in {"pending"}
            PROVE  [ask[k] EXCEPT !.pc = pc, !.seen = seen] \in Ask
        BY <1>1 DEF Ask
      <4> QED
        BY <4>1
    <3>2. /\ new.pc = "loaded" /\ new.chat = ask[k].chat /\ new.link = ask[k].link
          /\ new.seen = "pending" /\ new.clears = ask[k].clears
      BY <1>1 DEF Ask
    <3>3. ask' = [ask EXCEPT ![k] = new] /\ Collide(ask[k].link)
      BY <1>4, <2>1 DEF Load
    <3> HIDE DEF new
    <3> QED
      BY <1>a, <2>1, <3>1, <3>2, <3>3
  <2>2. CASE link[ask[k].link].status # "pending"
    BY <1>4, <1>b, <2>2 DEF Load, Fail
  <2> QED
    BY <2>1, <2>2
<1>5. ASSUME Clear(k)
      PROVE  \E ls \in SUBSET (Routed(ask[k].chat) \ {ask[k].link}) :
                /\ \A x \in ls : ~Locked(x)
                /\ AskMoved(k, {"cleared"}, ask[k].chat, ask[k].link, ask[k].seen, ls)
  <2>1. PICK ls \in SUBSET (Routed(ask[k].chat) \ {ask[k].link}) :
          /\ \A x \in ls : ~Locked(x)
          /\ ask' = [ask EXCEPT ![k].pc = "cleared", ![k].clears = ls]
    BY <1>5 DEF Clear
  <2>2. ls \subseteq Links
    BY DEF Routed
  <2> DEFINE new == [ask[k] EXCEPT !.pc = "cleared", !.clears = ls]
  <2>3. new \in Ask
    BY <1>1, <2>2 DEF Ask
  <2>4. /\ new.pc = "cleared" /\ new.chat = ask[k].chat /\ new.link = ask[k].link
        /\ new.seen = ask[k].seen /\ new.clears = ls
    BY <1>1 DEF Ask
  <2>5. ask' = [ask EXCEPT ![k] = new]
    BY <2>1
  <2> HIDE DEF new
  <2> QED
    BY <1>a, <2>1, <2>3, <2>4, <2>5
<1>6. ASSUME Bind(k)
      PROVE  AskMoved(k, {"over"}, ask[k].chat, ask[k].link, ask[k].seen, {})
  <2> DEFINE new == [ask[k] EXCEPT !.pc = "over", !.clears = {}]
  <2>1. new \in Ask
    BY <1>1 DEF Ask
  <2>2. /\ new.pc = "over" /\ new.chat = ask[k].chat /\ new.link = ask[k].link
        /\ new.seen = ask[k].seen /\ new.clears = {}
    BY <1>1 DEF Ask
  <2>3. ask' = [ask EXCEPT ![k] = new]
    BY <1>6 DEF Bind
  <2> HIDE DEF new
  <2> QED
    BY <1>a, <2>1, <2>2, <2>3
<1>7. ASSUME NEW l \in Links, LoadToRevoke(k, l)
      PROVE  AskMoved(k, {"revoking"}, ask[k].chat, l, link[l].status, ask[k].clears)
  <2>1. PICK seen \in {"none", "pending", "linked", "revoked"} : seen = link[l].status
    BY <1>1 DEF LinkRow
  <2> DEFINE new == [ask[k] EXCEPT !.pc = "revoking", !.link = l, !.seen = seen]
  <2>2. new \in Ask
    BY <1>1 DEF Ask
  <2>3. /\ new.pc = "revoking" /\ new.chat = ask[k].chat /\ new.link = l
        /\ new.seen = seen /\ new.clears = ask[k].clears
    BY <1>1 DEF Ask
  <2>4. ask' = [ask EXCEPT ![k] = new]
    BY <1>7, <2>1 DEF LoadToRevoke
  <2> HIDE DEF new
  <2> QED
    BY <1>a, <2>1, <2>2, <2>3, <2>4
<1>8. ASSUME Revoke(k)
      PROVE  AskMoved(k, {"over"}, ask[k].chat, ask[k].link, ask[k].seen, ask[k].clears)
  BY <1>8, <1>b DEF Revoke, Fail
<1> QED
  BY <1>2, <1>3, <1>4, <1>5, <1>6, <1>7, <1>8

\* The steps that write links.
LEMMA LinkMoves ==
    ASSUME LinksTyped
    PROVE  /\ \A l \in Links :
                CreatePairing(l) =>
                   /\ link' \in [Links -> LinkRow] /\ \A x \in Links \ {l} : link'[x] = link[x]
                   /\ link[l].status = "none" /\ link'[l].status = "pending"
                   /\ link'[l].chat = link[l].chat
           /\ \A l \in Links :
                Expire(l) =>
                   /\ link' \in [Links -> LinkRow]
                   /\ \A x \in Links : link'[x].status = link[x].status /\ link'[x].chat = link[x].chat
           /\ \A k \in Asks :
                Bind(k) =>
                   /\ ask[k].link \in Links
                   /\ \/ link' = link /\ confirmed' = confirmed
                      \/ /\ link' \in [Links -> LinkRow]
                         /\ link'[ask[k].link].status = "linked"
                         /\ link'[ask[k].link].chat = ask[k].chat
                         /\ \A x \in ask[k].clears :
                               link'[x].status = "revoked" /\ link'[x].chat = link[x].chat
                         /\ \A x \in Links \ (ask[k].clears \cup {ask[k].link}) : link'[x] = link[x]
                         /\ confirmed' = confirmed \cup {<<ask[k].link, ask[k].chat>>}
           /\ \A k \in Asks :
                Revoke(k) =>
                   /\ ask[k].link \in Links
                   /\ \/ ask[k].seen = "revoked" /\ link' = link
                      \/ /\ ask[k].seen # "revoked"
                         /\ link' \in [Links -> LinkRow]
                         /\ link'[ask[k].link].status = "revoked"
                         /\ link'[ask[k].link].chat = link[ask[k].link].chat
                         /\ \A x \in Links \ {ask[k].link} : link'[x] = link[x]
<1>1. link \in [Links -> LinkRow] /\ \A l \in Links : link[l] \in LinkRow
  BY DEF LinksTyped
<1>3. ASSUME NEW l \in Links, CreatePairing(l)
      PROVE  /\ link' \in [Links -> LinkRow] /\ \A x \in Links \ {l} : link'[x] = link[x]
             /\ link[l].status = "none" /\ link'[l].status = "pending"
             /\ link'[l].chat = link[l].chat
  <2> DEFINE new == [link[l] EXCEPT !.status = "pending"]
  <2>1. new \in LinkRow /\ new.status = "pending" /\ new.chat = link[l].chat
    BY <1>1 DEF LinkRow
  <2>2. link' = [link EXCEPT ![l] = new] /\ link[l].status = "none"
    BY <1>3 DEF CreatePairing
  <2> HIDE DEF new
  <2> QED
    BY <1>1, <2>1, <2>2
<1>4. ASSUME NEW l \in Links, Expire(l)
      PROVE  /\ link' \in [Links -> LinkRow]
             /\ \A x \in Links : link'[x].status = link[x].status /\ link'[x].chat = link[x].chat
  <2> DEFINE new == [link[l] EXCEPT !.expired = TRUE]
  <2>1. new \in LinkRow /\ new.status = link[l].status /\ new.chat = link[l].chat
    BY <1>1 DEF LinkRow
  <2>2. link' = [link EXCEPT ![l] = new]
    BY <1>4 DEF Expire
  <2> HIDE DEF new
  <2> QED
    BY <1>1, <2>1, <2>2
<1>5. ASSUME NEW k \in Asks, Bind(k)
      PROVE  /\ ask[k].link \in Links
             /\ \/ link' = link /\ confirmed' = confirmed
                \/ /\ link' \in [Links -> LinkRow]
                   /\ link'[ask[k].link].status = "linked"
                   /\ link'[ask[k].link].chat = ask[k].chat
                   /\ \A x \in ask[k].clears :
                         link'[x].status = "revoked" /\ link'[x].chat = link[x].chat
                   /\ \A x \in Links \ (ask[k].clears \cup {ask[k].link}) : link'[x] = link[x]
                   /\ confirmed' = confirmed \cup {<<ask[k].link, ask[k].chat>>}
  <2>1. /\ ask[k].link \in Links /\ ask[k].chat \in Chats
        /\ ask[k].clears \subseteq Links \ {ask[k].link}
    BY <1>5 DEF Bind, LinksTyped, AskOK, Ask
  <2>2. PICK l \in Links, c \in Chats, ls \in SUBSET Links :
          l \notin ls /\ l = ask[k].link /\ c = ask[k].chat /\ ls = ask[k].clears
    BY <2>1
  <2>3. CASE Routed(c) \subseteq ls \cup {l}
    <3>1. /\ link' = [x \in Links |->
                        IF x = l THEN [link[x] EXCEPT !.status = "linked", !.chat = c]
                        ELSE IF x \in ls THEN [link[x] EXCEPT !.status = "revoked"]
                        ELSE link[x]]
          /\ confirmed' = confirmed \cup {<<l, c>>}
      BY <1>5, <2>2, <2>3 DEF Bind
    <3>2. link'[l] = [link[l] EXCEPT !.status = "linked", !.chat = c]
      BY <3>1
    <3>3. \A x \in ls : link'[x] = [link[x] EXCEPT !.status = "revoked"]
      BY <2>2, <3>1
    <3>4. \A x \in Links \ (ls \cup {l}) : link'[x] = link[x]
      BY <3>1
    <3>5. link'[l] \in LinkRow /\ link'[l].status = "linked" /\ link'[l].chat = c
      <4> DEFINE new == [link[l] EXCEPT !.status = "linked", !.chat = c]
      <4>1. new \in LinkRow /\ new.status = "linked" /\ new.chat = c
        BY <1>1 DEF LinkRow
      <4>2. link'[l] = new
        BY <3>2
      <4> HIDE DEF new
      <4> QED
        BY <4>1, <4>2
    <3>6. ASSUME NEW x \in ls
          PROVE  link'[x] \in LinkRow /\ link'[x].status = "revoked" /\ link'[x].chat = link[x].chat
      <4>1. link'[x] = [link[x] EXCEPT !.status = "revoked"] /\ x \in Links
        BY <3>3
      <4> QED
        BY <1>1, <4>1 DEF LinkRow
    <3>7. link' \in [Links -> LinkRow]
      <4>1. \A x \in Links : link'[x] \in LinkRow
        BY <1>1, <3>4, <3>5, <3>6
      <4>2. DOMAIN link' = Links /\ link' = [x \in Links |-> link'[x]]
        BY <3>1
      <4> QED
        BY <4>1, <4>2
    <3> QED
      BY <2>1, <2>2, <3>1, <3>4, <3>5, <3>6, <3>7
  <2>4. CASE ~(Routed(c) \subseteq ls \cup {l})
    BY <1>5, <2>1, <2>2, <2>4 DEF Bind
  <2> QED
    BY <2>3, <2>4
<1>6. ASSUME NEW k \in Asks, Revoke(k)
      PROVE  /\ ask[k].link \in Links
             /\ \/ ask[k].seen = "revoked" /\ link' = link
                \/ /\ ask[k].seen # "revoked"
                   /\ link' \in [Links -> LinkRow]
                   /\ link'[ask[k].link].status = "revoked"
                   /\ link'[ask[k].link].chat = link[ask[k].link].chat
                   /\ \A x \in Links \ {ask[k].link} : link'[x] = link[x]
  <2>1. PICK l \in Links : l = ask[k].link
    BY <1>6 DEF Revoke, LinksTyped, AskOK
  <2>2. CASE ask[k].seen = "revoked"
    BY <1>6, <2>1, <2>2 DEF Revoke
  <2>3. CASE ask[k].seen # "revoked"
    <3> DEFINE new == [link[l] EXCEPT !.status = "revoked"]
    <3>1. new \in LinkRow /\ new.status = "revoked" /\ new.chat = link[l].chat
      BY <1>1 DEF LinkRow
    <3>2. link' = [link EXCEPT ![l] = new]
      BY <1>6, <2>1, <2>3 DEF Revoke
    <3> HIDE DEF new
    <3> QED
      BY <1>1, <2>1, <2>3, <3>1, <3>2
  <2> QED
    BY <2>2, <2>3
<1> QED
  BY <1>3, <1>4, <1>5, <1>6

\* Types, and the locks of bindings under way: what one of them clears is linked, and
\* no other clears it.
LEMMA LinksTypedStep == LinksTyped /\ [LinksNext]_linkVars => LinksTyped'
<1> SUFFICES ASSUME LinksTyped, [LinksNext]_linkVars
             PROVE  LinksTyped'
  OBVIOUS
<1>1. /\ ask \in [Asks -> Ask] /\ link \in [Links -> LinkRow]
      /\ confirmed \subseteq Links \X Chats /\ revoked \subseteq Links /\ collided \subseteq Links
      /\ \A k \in Asks : AskOK(k) /\ ask[k] \in Ask
      /\ \A j, k \in Asks : j # k => ask[j].clears \cap ask[k].clears = {}
  BY DEF LinksTyped
<1>2. ASSUME NEW l \in Links, CreatePairing(l) \/ Expire(l)
      PROVE  LinksTyped'
  <2>1. /\ link' \in [Links -> LinkRow]
        /\ \A x \in Links : link[x].status = "linked" => link'[x].status = "linked"
        /\ UNCHANGED <<ask, confirmed, revoked, collided>>
    BY <1>2, LinkMoves DEF CreatePairing, Expire
  <2>2. \A k \in Asks : AskOK(k)'
    BY <1>1, <2>1 DEF AskOK, Ask
  <2> QED
    BY <1>1, <2>1, <2>2 DEF LinksTyped
<1>3. ASSUME NEW k \in Asks, link' = link, confirmed' = confirmed,
             revoked' \subseteq Links, collided' \subseteq Links,
             NEW pcs, NEW chat, NEW l, NEW seen, NEW ls,
             AskMoved(k, pcs, chat, l, seen, ls), AskOK(k)',
             \A j \in Asks \ {k} : ask[j].clears \cap ls = {}
      PROVE  LinksTyped'
  <2>1. \A j \in Asks : AskOK(j)'
    BY <1>1, <1>3 DEF AskMoved, AskOK
  <2>2. \A i, j \in Asks : i # j => ask'[i].clears \cap ask'[j].clears = {}
    BY <1>1, <1>3 DEF AskMoved
  <2>3. ask' \in [Asks -> Ask]
    BY <1>3 DEF AskMoved
  <2> QED
    BY <1>1, <1>3, <2>1, <2>2, <2>3 DEF LinksTyped
<1>4. ASSUME NEW l \in Links, collided' = collided \/ Collide(l)
      PROVE  collided' \subseteq Links
  BY <1>1, <1>4 DEF Collide
<1>5. ASSUME NEW k \in Asks, NEW c \in Chats, NEW l \in Links, Receive(k, c, l)
      PROVE  LinksTyped'
  <2>1. UNCHANGED <<link, confirmed, revoked, collided>> /\ ask[k].pc = "new" /\ ask[k].clears = {}
    BY <1>1, <1>5 DEF Receive, AskOK
  <2>2. AskMoved(k, {"resolved"}, c, l, ask[k].seen, {})
    <3>1. AskMoved(k, {"resolved"}, c, l, ask[k].seen, ask[k].clears)
      BY <1>5, AskMoves
    <3> QED
      BY <2>1, <3>1
  <2>3. AskOK(k)'
    BY <2>2 DEF AskMoved, AskOK
  <2> QED
    BY <1>1, <1>3, <2>1, <2>2, <2>3
<1>6. ASSUME NEW k \in Asks, Find(k)
      PROVE  LinksTyped'
  <2>1. UNCHANGED <<link, confirmed, revoked, collided>> /\ ask[k].pc = "resolved" /\ ask[k].clears = {}
    BY <1>1, <1>6 DEF Find, AskOK
  <2>2. PICK pcs \in SUBSET {"found", "over"} : AskMoved(k, pcs, ask[k].chat, ask[k].link, ask[k].seen, {})
    BY <1>6, <2>1, AskMoves
  <2>3. AskOK(k)'
    BY <1>1, <2>1, <2>2 DEF AskMoved, AskOK
  <2> QED
    BY <1>1, <1>3, <2>1, <2>2, <2>3
<1>7. ASSUME NEW k \in Asks, Load(k)
      PROVE  LinksTyped'
  <2>1. /\ UNCHANGED <<link, confirmed, revoked>> /\ ask[k].pc = "found" /\ ask[k].clears = {}
        /\ ask[k].link \in Links
    BY <1>1, <1>7 DEF Load, AskOK
  <2>2. PICK pcs \in SUBSET {"loaded", "over"}, seen \in {ask[k].seen, "pending"} :
          AskMoved(k, pcs, ask[k].chat, ask[k].link, seen, {})
    BY <1>7, <2>1, AskMoves
  <2>3. collided' = collided \/ Collide(ask[k].link)
    BY <1>7, AskMoves
  <2>4. collided' \subseteq Links
    BY <1>4, <2>1, <2>3
  <2>5. AskOK(k)'
    BY <1>1, <2>1, <2>2 DEF AskMoved, AskOK
  <2> QED
    BY <1>1, <1>3, <2>1, <2>2, <2>4, <2>5
<1>8. ASSUME NEW k \in Asks, Clear(k)
      PROVE  LinksTyped'
  <2>1. /\ UNCHANGED <<link, confirmed, revoked, collided>> /\ ask[k].pc = "loaded"
        /\ ask[k].link \in Links /\ ask[k].chat \in Chats
    BY <1>1, <1>8 DEF Clear, AskOK
  <2>2. PICK ls \in SUBSET (Routed(ask[k].chat) \ {ask[k].link}) :
          /\ \A x \in ls : ~Locked(x)
          /\ AskMoved(k, {"cleared"}, ask[k].chat, ask[k].link, ask[k].seen, ls)
    BY <1>8, AskMoves
  <2>3. AskOK(k)'
    BY <2>1, <2>2 DEF AskMoved, AskOK, Routed
  <2>4. \A j \in Asks \ {k} : ask[j].clears \cap ls = {}
    BY <2>2 DEF Locked
  <2> QED
    BY <1>1, <1>3, <2>1, <2>2, <2>3, <2>4
<1>9. ASSUME NEW k \in Asks, Bind(k)
      PROVE  LinksTyped'
  <2>1. /\ UNCHANGED <<revoked, collided>> /\ ask[k].pc = "cleared"
        /\ ask[k].link \in Links /\ ask[k].chat \in Chats
    BY <1>1, <1>9 DEF Bind, AskOK
  <2>2. AskMoved(k, {"over"}, ask[k].chat, ask[k].link, ask[k].seen, {})
    BY <1>9, AskMoves
  <2>3. /\ link' \in [Links -> LinkRow] /\ confirmed' \subseteq Links \X Chats
        /\ \A x \in Links : link[x].status = "linked" /\ x \notin ask[k].clears
                            => link'[x].status = "linked"
    BY <1>1, <1>9, <2>1, LinkMoves
  <2>4. \A j \in Asks : AskOK(j)'
    <3>1. AskOK(k)'
      BY <2>2 DEF AskMoved, AskOK
    <3>2. ASSUME NEW j \in Asks \ {k}
          PROVE  AskOK(j)'
      <4>1. ask'[j] = ask[j] /\ AskOK(j) /\ ask[j].clears \subseteq Links
            /\ ask[j].clears \cap ask[k].clears = {}
        BY <1>1, <2>2 DEF AskMoved, Ask
      <4> QED
        BY <2>3, <4>1 DEF AskOK
    <3> QED
      BY <3>1, <3>2
  <2>5. \A i, j \in Asks : i # j => ask'[i].clears \cap ask'[j].clears = {}
    BY <1>1, <2>2 DEF AskMoved
  <2>6. ask' \in [Asks -> Ask]
    BY <2>2 DEF AskMoved
  <2> QED
    BY <1>1, <2>1, <2>3, <2>4, <2>5, <2>6 DEF LinksTyped
<1>10. ASSUME NEW k \in Asks, NEW l \in Links, LoadToRevoke(k, l)
       PROVE  LinksTyped'
  <2>1. /\ UNCHANGED <<link, confirmed, revoked>> /\ ask[k].pc = "new" /\ ask[k].clears = {}
        /\ Collide(l)
    BY <1>1, <1>10 DEF LoadToRevoke, AskOK
  <2>2. AskMoved(k, {"revoking"}, ask[k].chat, l, link[l].status, {})
    BY <1>10, <2>1, AskMoves
  <2>3. AskOK(k)'
    BY <1>1, <2>1, <2>2 DEF AskMoved, AskOK
  <2> QED
    BY <1>1, <1>3, <1>4, <2>1, <2>2, <2>3
<1>11. ASSUME NEW k \in Asks, Revoke(k)
       PROVE  LinksTyped'
  <2>1. /\ UNCHANGED <<confirmed, collided>> /\ ask[k].pc = "revoking" /\ ask[k].clears = {}
        /\ ask[k].link \in Links /\ ~Locked(ask[k].link) /\ revoked' = revoked \cup {ask[k].link}
    BY <1>1, <1>11 DEF Revoke, AskOK
  <2>2. AskMoved(k, {"over"}, ask[k].chat, ask[k].link, ask[k].seen, {})
    BY <1>11, <2>1, AskMoves
  <2>3. /\ link' \in [Links -> LinkRow]
        /\ \A x \in Links \ {ask[k].link} : link'[x] = link[x]
    BY <1>1, <1>11, LinkMoves
  <2>4. \A j \in Asks : AskOK(j)'
    <3>1. AskOK(k)'
      BY <2>2 DEF AskMoved, AskOK
    <3>2. ASSUME NEW j \in Asks \ {k}
          PROVE  AskOK(j)'
      <4>1. ask'[j] = ask[j] /\ AskOK(j) /\ ask[j].clears \subseteq Links \ {ask[k].link}
        BY <1>1, <2>1, <2>2 DEF AskMoved, Ask, Locked
      <4> QED
        BY <2>3, <4>1 DEF AskOK
    <3> QED
      BY <3>1, <3>2
  <2>5. \A i, j \in Asks : i # j => ask'[i].clears \cap ask'[j].clears = {}
    BY <1>1, <2>2 DEF AskMoved
  <2>6. ask' \in [Asks -> Ask]
    BY <2>2 DEF AskMoved
  <2> QED
    BY <1>1, <2>1, <2>3, <2>4, <2>5, <2>6 DEF LinksTyped
<1>12. CASE UNCHANGED linkVars
  BY <1>1, <1>12 DEF linkVars, LinksTyped, AskOK
<1> QED
  BY <1>2, <1>5, <1>6, <1>7, <1>8, <1>9, <1>10, <1>11, <1>12 DEF LinksNext

\* A set of more than one request has more than one element.
LEMMA NotMany ==
    ASSUME NEW S, IsFiniteSet(S), ~(Cardinality(S) > 1), NEW j \in S, NEW k \in S
    PROVE  j = k
<1> SUFFICES ASSUME j # k
             PROVE  FALSE
  OBVIOUS
<1>1. PICK one : one = {j} /\ IsFiniteSet(one) /\ Cardinality(one) = 1
  BY FS_Singleton
<1>2. PICK two : two = one \cup {k} /\ Cardinality(two) = Cardinality(one) + 1
  BY <1>1, FS_AddElement
<1>3. two \in SUBSET S
  BY <1>1, <1>2
<1>4. Cardinality(two) <= Cardinality(S) /\ Cardinality(S) \in Nat
  BY <1>3, FS_Subset, FS_CardinalityType
<1> QED
  BY <1>1, <1>2, <1>4

\* A link whose row and requests are as they were, or fewer, keeps its answers.
LEMMA AnswersKept ==
    ASSUME NEW l \in Links, Answered(l), link'[l].status = link[l].status, link'[l].chat = link[l].chat,
           \A c \in Chats : <<l, c>> \in confirmed' => <<l, c>> \in confirmed,
           l \in revoked' => l \in revoked,
           \A j \in Loaders(l)' : /\ j \in Loaders(l) /\ ask'[j].seen = ask[j].seen
                                  /\ ask'[j].pc = "revoking" <=> ask[j].pc = "revoking"
    PROVE  Answered(l)'
<1>1. \A j, k \in Loaders(l)' : j = k
  BY DEF Answered
<1>2. \A j \in Loaders(l)' : Knows(j, l)'
  BY DEF Answered, Knows, Loaders
<1> QED
  BY <1>1, <1>2 DEF Answered

\* A request that loads a link nobody else has loaded knows its status.
LEMMA LoadAnswers ==
    ASSUME LinksTyped, LinksTyped', NEW k \in Asks, NEW l \in Links, l \notin collided', Collide(l),
           Answered(l), UNCHANGED <<link, confirmed, revoked>>,
           \A j \in Asks \ {k} : ask'[j] = ask[j],
           ask'[k].link = l,
           \/ ask'[k].pc = "loaded" /\ link[l].status = "pending"
           \/ /\ ask'[k].pc = "revoking" /\ link[l].status # "none"
              /\ ask'[k].seen = link[l].status
    PROVE  Answered(l)'
<1>1. IsFiniteSet(Loaders(l)')
  BY FS_Subset DEF Loaders
<1>2. ~(Cardinality(Loaders(l)') > 1)
  BY DEF Collide
<1>3. \A i, j \in Loaders(l)' : i = j
  BY <1>1, <1>2, NotMany
<1>4. k \in Loaders(l)'
  BY DEF Loaders
<1>5. \A j \in Loaders(l)' : Knows(j, l)'
  <2>1. Knows(k, l)'
    BY DEF Knows
  <2> QED
    BY <1>3, <1>4, <2>1
<1> QED
  BY <1>3, <1>5 DEF Answered

\* The binding: of the link itself, of one it clears, of another.
LEMMA BindAnswers ==
    ASSUME LinksTyped, NEW k \in Asks, Bind(k), NEW l \in Links, Answered(l)
    PROVE  Answered(l)'
<1>1. /\ ask[k].link \in Links /\ ask[k].pc = "cleared" /\ revoked' = revoked
      /\ \A x \in ask[k].clears : link[x].status = "linked"
      /\ ask[k].link \notin ask[k].clears
  BY LinkMoves DEF Bind, LinksTyped, AskOK
<1>2. AskMoved(k, {"over"}, ask[k].chat, ask[k].link, ask[k].seen, {})
  BY AskMoves
<1>3. \A x \in Links : \A j \in Loaders(x)' : j \in Loaders(x) /\ j # k /\ ask'[j] = ask[j]
  BY <1>2 DEF AskMoved, Loaders
<1>4. CASE link' = link /\ confirmed' = confirmed
  BY <1>1, <1>3, <1>4, AnswersKept
<1>5. CASE /\ link'[ask[k].link].status = "linked"
           /\ link'[ask[k].link].chat = ask[k].chat
           /\ \A x \in ask[k].clears : link'[x].status = "revoked" /\ link'[x].chat = link[x].chat
           /\ \A x \in Links \ (ask[k].clears \cup {ask[k].link}) : link'[x] = link[x]
           /\ confirmed' = confirmed \cup {<<ask[k].link, ask[k].chat>>}
  <2>1. CASE l = ask[k].link
    <3>1. k \in Loaders(l) /\ link[l].status = "pending"
      BY <1>1, <2>1 DEF Loaders, Answered, Knows
    <3>2. Loaders(l)' = {}
      BY <1>3, <3>1 DEF Answered
    <3>3. l \notin revoked' /\ \A c \in Chats : <<l, c>> \in confirmed' => c = ask[k].chat
      BY <1>1, <1>5, <2>1, <3>1 DEF Answered
    <3> QED
      BY <1>5, <2>1, <3>2, <3>3 DEF Answered
  <2>2. CASE l \in ask[k].clears
    <3>1. link[l].status = "linked" /\ link'[l].status = "revoked" /\ link'[l].chat = link[l].chat
      BY <1>1, <1>5, <2>2
    <3>2. \A c \in Chats : <<l, c>> \in confirmed' => <<l, c>> \in confirmed
      BY <1>1, <1>5, <2>2
    <3>3. \A i, j \in Loaders(l)' : i = j
      BY <1>3 DEF Answered
    <3>4. \A j \in Loaders(l)' : Knows(j, l)'
      BY <1>3, <3>1 DEF Answered, Knows
    <3> QED
      BY <1>1, <3>1, <3>2, <3>3, <3>4 DEF Answered
  <2>3. CASE l \notin ask[k].clears \cup {ask[k].link}
    <3>1. link'[l] = link[l] /\ \A c \in Chats : <<l, c>> \in confirmed' => <<l, c>> \in confirmed
      BY <1>5, <2>3
    <3> QED
      BY <1>1, <1>3, <3>1, AnswersKept
  <2> QED
    BY <2>1, <2>2, <2>3
<1> QED
  BY <1>4, <1>5, LinkMoves

\* The revocation: of the link itself, of another.
LEMMA RevokeAnswers ==
    ASSUME LinksTyped, NEW k \in Asks, Revoke(k), NEW l \in Links, Answered(l)
    PROVE  Answered(l)'
<1>1. /\ ask[k].link \in Links /\ ask[k].pc = "revoking" /\ confirmed' = confirmed
      /\ revoked' = revoked \cup {ask[k].link}
  BY LinkMoves DEF Revoke
<1>2. AskMoved(k, {"over"}, ask[k].chat, ask[k].link, ask[k].seen, ask[k].clears)
  BY AskMoves
<1>3. \A x \in Links : \A j \in Loaders(x)' : j \in Loaders(x) /\ j # k /\ ask'[j] = ask[j]
  BY <1>2 DEF AskMoved, Loaders
<1>4. CASE l = ask[k].link
  <2>1. k \in Loaders(l) /\ Knows(k, l)
    BY <1>1, <1>4 DEF Loaders, Answered
  <2>2. Loaders(l)' = {}
    BY <1>3, <2>1 DEF Answered
  <2>3. link'[l].status = "revoked" /\ link'[l].chat = link[l].chat
    BY <1>1, <1>4, <2>1, LinkMoves DEF Knows
  <2> QED
    BY <1>1, <2>2, <2>3 DEF Answered
<1>5. CASE l # ask[k].link
  <2>1. link'[l] = link[l]
    BY <1>5, LinkMoves
  <2> QED
    BY <1>1, <1>3, <1>5, <2>1, AnswersKept
<1> QED
  BY <1>4, <1>5

\* No step, nor a stutter, makes an answer untrue of a link that no two requests had loaded.
LEMMA LinksInvStep == LinksTyped /\ LinksInv /\ [LinksNext]_linkVars => LinksInv'
<1> SUFFICES ASSUME LinksTyped, LinksInv, [LinksNext]_linkVars, NEW l \in Links, l \notin collided'
             PROVE  Answered(l)'
  BY DEF LinksInv
<1>1. LinksTyped'
  BY LinksTypedStep
<1>2. ASSUME collided' = collided
      PROVE  Answered(l)
  BY <1>2 DEF LinksInv
<1>3. ASSUME NEW x, Collide(x)
      PROVE  Answered(l)
  BY <1>3 DEF Collide, LinksInv
<1>4. CASE UNCHANGED linkVars
  BY <1>2, <1>4, AnswersKept DEF linkVars, Loaders
<1>5. ASSUME NEW x \in Links, CreatePairing(x)
      PROVE  Answered(l)'
  <2>1. UNCHANGED <<ask, confirmed, revoked, collided>> /\ Answered(l) /\ Loaders(l)' = Loaders(l)
    BY <1>2, <1>5 DEF CreatePairing, Loaders
  <2>2. CASE x = l
    <3>1. link[l].status = "none" /\ link'[l].status = "pending"
      BY <1>5, <2>2, LinkMoves
    <3>2. Loaders(l) = {}
      BY <2>1, <3>1 DEF Answered, Knows, Loaders
    <3> QED
      BY <2>1, <3>1, <3>2 DEF Answered
  <2>3. CASE x # l
    <3>1. link'[l] = link[l]
      BY <1>5, <2>3, LinkMoves
    <3> QED
      BY <2>1, <3>1, AnswersKept
  <2> QED
    BY <2>2, <2>3
<1>6. ASSUME NEW x \in Links, Expire(x)
      PROVE  Answered(l)'
  <2>1. UNCHANGED <<ask, confirmed, revoked, collided>> /\ Answered(l) /\ Loaders(l)' = Loaders(l)
    BY <1>2, <1>6 DEF Expire, Loaders
  <2>2. link'[l].status = link[l].status /\ link'[l].chat = link[l].chat
    BY <1>6, LinkMoves
  <2> QED
    BY <2>1, <2>2, AnswersKept
<1>7. ASSUME NEW k \in Asks,
             \/ \E c \in Chats, x \in Links : Receive(k, c, x)
             \/ Find(k) \/ Clear(k)
      PROVE  Answered(l)'
  <2>1. UNCHANGED <<link, confirmed, revoked, collided>> /\ Answered(l)
    BY <1>2, <1>7 DEF Receive, Find, Clear
  <2>2. \A j \in Loaders(l)' : /\ j \in Loaders(l) /\ ask'[j].seen = ask[j].seen
                               /\ ask'[j].pc = "revoking" <=> ask[j].pc = "revoking"
    <3>1. CASE \E c \in Chats, x \in Links : Receive(k, c, x)
      BY <3>1, AskMoves DEF AskMoved, Loaders
    <3>2. CASE Find(k)
      BY <3>2, AskMoves DEF AskMoved, Loaders
    <3>3. CASE Clear(k)
      <4>1. PICK ls : AskMoved(k, {"cleared"}, ask[k].chat, ask[k].link, ask[k].seen, ls)
        BY <3>3, AskMoves
      <4>2. ask[k].pc = "loaded"
        BY <3>3 DEF Clear
      <4> QED
        BY <4>1, <4>2 DEF AskMoved, Loaders
    <3> QED
      BY <1>7, <3>1, <3>2, <3>3
  <2> QED
    BY <2>1, <2>2, AnswersKept
<1>8. ASSUME NEW k \in Asks, Load(k)
      PROVE  Answered(l)'
  <2>1. UNCHANGED <<link, confirmed, revoked>> /\ ask[k].pc = "found" /\ ask[k].link \in Links
    BY <1>8 DEF Load, LinksTyped, AskOK
  <2>2. CASE /\ link[ask[k].link].status = "pending" /\ Collide(ask[k].link)
             /\ AskMoved(k, {"loaded"}, ask[k].chat, ask[k].link, "pending", ask[k].clears)
    <3>1. Answered(l)
      BY <1>3, <2>2
    <3>2. CASE ask[k].link = l
      BY <1>1, <2>1, <2>2, <3>1, <3>2, LoadAnswers DEF AskMoved
    <3>3. CASE ask[k].link # l
      <4>1. \A j \in Loaders(l)' : j \in Loaders(l) /\ ask'[j] = ask[j]
        BY <2>2, <3>3 DEF AskMoved, Loaders
      <4> QED
        BY <2>1, <3>1, <4>1, AnswersKept
    <3> QED
      BY <3>2, <3>3
  <2>3. CASE /\ collided' = collided
             /\ AskMoved(k, {"over"}, ask[k].chat, ask[k].link, ask[k].seen, ask[k].clears)
    <3>1. \A j \in Loaders(l)' : j \in Loaders(l) /\ ask'[j] = ask[j]
      BY <2>3 DEF AskMoved, Loaders
    <3> QED
      BY <1>2, <2>1, <2>3, <3>1, AnswersKept
  <2> QED
    BY <1>8, <2>2, <2>3, AskMoves
<1>9. ASSUME NEW k \in Asks, NEW x \in Links, LoadToRevoke(k, x)
      PROVE  Answered(l)'
  <2>1. /\ UNCHANGED <<link, confirmed, revoked>> /\ link[x].status # "none" /\ Collide(x)
        /\ Answered(l)
    BY <1>3, <1>9 DEF LoadToRevoke
  <2>2. AskMoved(k, {"revoking"}, ask[k].chat, x, link[x].status, ask[k].clears)
    BY <1>9, AskMoves
  <2>3. CASE x = l
    BY <1>1, <2>1, <2>2, <2>3, LoadAnswers DEF AskMoved
  <2>4. CASE x # l
    <3>1. \A j \in Loaders(l)' : j \in Loaders(l) /\ ask'[j] = ask[j]
      BY <2>2, <2>4 DEF AskMoved, Loaders
    <3> QED
      BY <2>1, <3>1, AnswersKept
  <2> QED
    BY <2>3, <2>4
<1>10. ASSUME NEW k \in Asks, Bind(k) \/ Revoke(k)
       PROVE  Answered(l)'
  <2>1. Answered(l)
    BY <1>2, <1>10 DEF Bind, Revoke
  <2> QED
    BY <1>10, <2>1, BindAnswers, RevokeAnswers
<1> QED
  BY <1>4, <1>5, <1>6, <1>7, <1>8, <1>9, <1>10 DEF LinksNext

\* In every state what users were told of a link is what its row says, unless requests collided.
LEMMA LinksInvariant == LinksSpec => [](LinksTyped /\ LinksInv)
<1>1. LinksInit => LinksTyped /\ LinksInv
  <2> SUFFICES ASSUME LinksInit
               PROVE  LinksTyped /\ LinksInv
    OBVIOUS
  <2>1. /\ \A k \in Asks : ask[k].pc = "new" /\ ask[k].clears = {}
        /\ confirmed = {} /\ revoked = {} /\ collided = {}
    BY DEF LinksInit
  <2>2. \A k \in Asks : AskOK(k)
    BY <2>1 DEF AskOK
  <2>3. link \in [Links -> LinkRow]
    BY DEF LinksInit, LinkRow
  <2>4. ask \in [Asks -> Ask]
    BY DEF LinksInit, Ask
  <2>5. LinksTyped
    BY <2>1, <2>2, <2>3, <2>4 DEF LinksTyped
  <2>6. LinksInv
    BY <2>1 DEF LinksInv, Answered, Loaders
  <2> QED
    BY <2>5, <2>6
<1> QED
  BY <1>1, LinksTypedStep, LinksInvStep, PTL DEF LinksSpec

\* What users were told of a link holds unless two requests had loaded the row
\* together: one chat at most was told it is linked, a revoked link routes nothing,
\* and a chat that was told so is routed until a revocation or a new pairing.
THEOREM AnswersHoldProved == LinksSpec => []AnswersHold
<1>1. LinksTyped /\ LinksInv => AnswersHold
  <2> SUFFICES ASSUME LinksTyped, LinksInv, NEW l \in Links \ collided
               PROVE  /\ Cardinality({c \in Chats : <<l, c>> \in confirmed}) <= 1
                      /\ l \in revoked => link[l].status = "revoked"
                      /\ \A c \in Chats : <<l, c>> \in confirmed =>
                            \/ link[l].status = "linked" /\ link[l].chat = c
                            \/ link[l].status = "revoked"
    BY DEF AnswersHold
  <2>1. Answered(l)
    BY DEF LinksInv
  <2>2. Cardinality({c \in Chats : <<l, c>> \in confirmed}) <= 1
    <3> DEFINE told_c == {c \in Chats : <<l, c>> \in confirmed}
    <3>1. told_c \in SUBSET {link[l].chat}
      BY <2>1 DEF Answered
    <3>2. PICK one : one = {link[l].chat} /\ IsFiniteSet(one) /\ Cardinality(one) = 1
      BY FS_Singleton
    <3>3. Cardinality(told_c) <= 1
      <4> HIDE DEF told_c
      <4> QED
        BY <3>1, <3>2, FS_Subset
    <3> QED
      BY <3>3
  <2> QED
    BY <2>1, <2>2 DEF Answered
<1> QED
  BY <1>1, LinksInvariant, PTL

HIDE LinksAssumption

-----------------------------------------------------------------------------
(* The chat with the bot: refused turns push everything else out. *)

USE BotTalkAssumption

\* A refused turn leaves a message and a text, so the rows from the end alternate.
Alternating(d) == IF d % 2 = 0 THEN Text ELSE User

\* How many rows of the chat come after row i, those of the turn included.
After(i) == Len(history) + Len(saving) - i

\* The rows of the turns refused in a row stand at the end of the chat, and fill it
\* or are all of them there, unless the chat was reset.
RefusedRows ==
    /\ saving \in {<<>>, <<Text>>, <<User, Text>>}
    /\ \A i \in 1 .. Len(history) : After(i) < 2 * refused => history[i] = Alternating(After(i))
    /\ \/ Len(history) + Len(saving) >= 2 * refused
       \/ Len(history) = Keep
       \/ history = <<>> /\ saving = <<>>

RefusalInv ==
    /\ history \in Seq({history[i] : i \in DOMAIN history}) /\ Len(history) <= Keep
    /\ refused \in Nat /\ refused <= Keep \div 2
    /\ refused > 0 => RefusedRows

\* A sequence is one of its own rows.
LEMMA OwnRows ==
    ASSUME NEW S, NEW s \in Seq(S)
    PROVE  s \in Seq({s[i] : i \in DOMAIN s})
<1>1. s \in [1 .. Len(s) -> {s[i] : i \in DOMAIN s}] /\ Len(s) \in Nat
  OBVIOUS
<1> QED
  BY <1>1, SeqDef

\* The model takes a message that follows only whole refused turns.
LEMMA AcceptsPairs ==
    ASSUME NEW S, history \in Seq(S), Len(history) % 2 = 0,
           \A i \in 1 .. Len(history) : history[i] = Alternating(Len(history) - i)
    PROVE  Accepted(Append(history, User))
<1> DEFINE rows == Append(history, User)
<1>1. /\ DOMAIN rows = 1 .. Len(history) + 1 /\ Len(history) \in Nat
      /\ rows[Len(history) + 1] = User
      /\ \A i \in 1 .. Len(history) : rows[i] = history[i]
  OBVIOUS
<1>2. \A i \in DOMAIN rows : rows[i] \in {User, Text}
  BY <1>1 DEF Alternating
<1>3. rows[1] = User
  <2>1. CASE Len(history) = 0
    BY <2>1, <1>1
  <2>2. CASE Len(history) # 0
    <3>1. 1 \in 1 .. Len(history) /\ (Len(history) - 1) % 2 # 0
      BY <2>2, <1>1
    <3>2. history[1] = User
      BY <3>1 DEF Alternating
    <3> QED
      BY <3>1, <3>2, <1>1
  <2> QED
    BY <2>1, <2>2
<1> HIDE DEF rows
<1>4. \A i \in DOMAIN rows : rows[i].calls = 0 /\ rows[i] # Result
  BY <1>2 DEF User, Text, Result
<1>5. \A i \in DOMAIN rows : 1 .. rows[i].calls = {}
  BY <1>4
<1>6. Accepted(rows)
  BY <1>3, <1>4, <1>5 DEF Accepted
<1> QED
  BY <1>6 DEF rows

\* A turn: it is not refused once the refused ones fill the chat.
LEMMA TurnKeepsRefusals ==
    ASSUME RefusalInv, Turn
    PROVE  RefusalInv'
<1> DEFINE S == {history[i] : i \in DOMAIN history}
<1>1. /\ history \in Seq(S) /\ Len(history) \in Nat /\ Len(history) <= Keep /\ history' = history
      /\ saving = <<>> /\ refused \in Nat
  BY DEF RefusalInv, Turn
<1>2. CASE Accepted(Append(history, User))
  <2>1. refused' = 0
    BY <1>2 DEF Turn
  <2> QED
    BY <2>1, <1>1 DEF RefusalInv
<1>3. CASE ~ Accepted(Append(history, User))
  <2>1. saving' = <<User, Text>> /\ refused' = refused + 1
    BY <1>3 DEF Turn
  <2>2. refused' <= Keep \div 2
    <3> SUFFICES ASSUME ~ (refused + 1 <= Keep \div 2)
                 PROVE  FALSE
      BY <2>1
    <3>1. 2 * refused = Keep /\ refused > 0
      BY <1>1 DEF RefusalInv
    <3>2. RefusedRows
      BY <3>1 DEF RefusalInv
    <3>3. Len(history) = Keep \/ history = <<>>
      <4>1. Len(saving) = 0
        BY <1>1
      <4> QED
        BY <4>1, <3>1, <3>2, <1>1 DEF RefusedRows
    <3>4. Len(history) % 2 = 0
      <4>1. Keep % 2 = 0
        BY BotTalkAssumption
      <4>2. Len(history) = Keep \/ Len(history) = 0
        BY <3>3
      <4> QED
        BY <4>1, <4>2
    <3>5. \A i \in 1 .. Len(history) : history[i] = Alternating(Len(history) - i)
      <4>1. Len(history) <= 2 * refused
        BY <3>1, <1>1
      <4>2. \A i \in 1 .. Len(history) : After(i) = Len(history) - i
        <5>1. Len(saving) = 0
          BY <1>1
        <5> QED
          BY <5>1, <1>1 DEF After
      <4>3. \A i \in 1 .. Len(history) : After(i) < 2 * refused
        BY <4>1, <4>2, <1>1
      <4> QED
        BY <4>2, <4>3, <3>2 DEF RefusedRows
    <3> HIDE DEF S
    <3> QED
      BY <3>4, <3>5, <1>1, <1>3, AcceptsPairs
  <2>3. RefusedRows'
    <3>1. saving' \in {<<>>, <<Text>>, <<User, Text>>} /\ Len(saving') = 2 /\ Len(saving) = 0
      BY <2>1, <1>1
    <3>2. ASSUME NEW i \in 1 .. Len(history), After(i)' < 2 * refused'
          PROVE  history[i] = Alternating(After(i)')
      <4>1. After(i)' = After(i) + 2 /\ After(i) \in Nat
        BY <3>1, <1>1 DEF After
      <4>2. After(i) < 2 * refused /\ refused > 0
        BY <4>1, <3>2, <2>1, <1>1
      <4>3. history[i] = Alternating(After(i))
        BY <4>2 DEF RefusalInv, RefusedRows
      <4>4. (After(i) + 2) % 2 = After(i) % 2
        BY <4>1
      <4> QED
        BY <4>1, <4>3, <4>4 DEF Alternating
    <3>3. \/ Len(history') + Len(saving') >= 2 * refused'
          \/ Len(history') = Keep
      <4>1. CASE refused = 0
        BY <4>1, <3>1, <2>1, <1>1
      <4>2. CASE refused > 0
        <5>1. RefusedRows
          BY <4>2 DEF RefusalInv
        <5>2. history # <<>>
          <6> SUFFICES ASSUME history = <<>>
                       PROVE  FALSE
            OBVIOUS
          <6>1. Accepted(Append(history, User))
            <7> HIDE DEF S
            <7> QED
              BY <1>1, AcceptsPairs
          <6> QED
            BY <6>1, <1>3
        <5> QED
          BY <5>1, <5>2, <3>1, <2>1, <1>1 DEF RefusedRows
      <4> QED
        BY <4>1, <4>2, <1>1
    <3> QED
      BY <3>1, <3>2, <3>3, <1>1 DEF RefusedRows
  <2> QED
    BY <2>1, <2>2, <2>3, <1>1 DEF RefusalInv
<1> QED
  BY <1>2, <1>3

\* A row that is saved has as many rows after it as before.
LEMMA SaveKeepsRefusals ==
    ASSUME RefusalInv, Save
    PROVE  RefusalInv'
<1> DEFINE S == {history[i] : i \in DOMAIN history} \cup {Head(saving)}
           rows == Append(history, Head(saving))
<1>1. /\ history \in Seq(S) /\ Len(history) \in Nat /\ Len(history) <= Keep
      /\ refused \in Nat /\ refused' = refused /\ saving # <<>> /\ saving' = Tail(saving)
  <2>1. history \in Seq({history[i] : i \in DOMAIN history})
    BY DEF RefusalInv
  <2> QED
    BY <2>1 DEF RefusalInv, Save
<1>2. /\ rows \in Seq(S) /\ Len(rows) = Len(history) + 1
      /\ rows[Len(history) + 1] = Head(saving)
      /\ \A i \in 1 .. Len(history) : rows[i] = history[i]
  <2> HIDE DEF S
  <2>1. Head(saving) \in S
    BY DEF S
  <2> QED
    BY <2>1, <1>1
<1>3. history' = SubSeq(rows, IF Len(rows) > Keep THEN 2 ELSE 1, Len(rows))
  BY DEF Save
<1> HIDE DEF S, rows
<1>4. PICK cut \in {0, 1} : /\ cut = 1 <=> Len(history) = Keep
                            /\ history' = SubSeq(rows, cut + 1, Len(rows))
  <2>1. CASE Len(history) = Keep
    BY <2>1, <1>1, <1>2, <1>3
  <2>2. CASE Len(history) # Keep
    BY <2>2, <1>1, <1>2, <1>3
  <2> QED
    BY <2>1, <2>2
<1>5. /\ history' \in Seq(S) /\ Len(history') = Len(history) + 1 - cut
      /\ \A i \in 1 .. Len(history') : history'[i] = rows[i + cut]
  BY <1>1, <1>2, <1>4
<1>6. history' \in Seq({history'[i] : i \in DOMAIN history'})
  BY <1>5, OwnRows
<1>7. Len(history') <= Keep
  BY <1>1, <1>4, <1>5
<1>8. ASSUME refused > 0
      PROVE  RefusedRows'
  <2>1. RefusedRows
    BY <1>8 DEF RefusalInv
  <2>2. /\ saving' \in {<<>>, <<Text>>} /\ Len(saving) \in Nat /\ Len(saving') = Len(saving) - 1
        /\ Head(saving) = Alternating(Len(saving) - 1)
    <3>1. CASE saving = <<Text>>
      BY <3>1, <1>1 DEF Alternating
    <3>2. CASE saving = <<User, Text>>
      BY <3>2, <1>1 DEF Alternating
    <3> QED
      BY <3>1, <3>2, <2>1, <1>1 DEF RefusedRows
  <2>3. ASSUME NEW i \in 1 .. Len(history'), After(i)' < 2 * refused'
        PROVE  history'[i] = Alternating(After(i)')
    <3>1. After(i)' = After(i + cut) /\ i + cut \in 1 .. Len(history) + 1
      BY <2>2, <1>5, <1>1 DEF After
    <3>2. CASE i + cut \in 1 .. Len(history)
      BY <3>1, <3>2, <2>1, <2>3, <1>1, <1>2, <1>5 DEF RefusedRows
    <3>3. CASE i + cut = Len(history) + 1
      <4>1. After(Len(history) + 1) = Len(saving) - 1
        BY <2>2, <1>1 DEF After
      <4> QED
        BY <3>1, <3>3, <4>1, <2>2, <1>2, <1>5
    <3> QED
      BY <3>1, <3>2, <3>3, <1>1
  <2>4. Len(history') + Len(saving') >= 2 * refused' \/ Len(history') = Keep
    BY <2>1, <2>2, <1>1, <1>4, <1>5 DEF RefusedRows
  <2> QED
    BY <2>2, <2>3, <2>4 DEF RefusedRows
<1> QED
  BY <1>1, <1>6, <1>7, <1>8 DEF RefusalInv

\* However the rows were damaged and wherever the window cuts them, at most Keep / 2
\* turns in a row are refused by the model, for any window, tools and rounds.
THEOREM RefusalsEndProved == TalkSpec => []RefusalsEnd
<1>1. TalkInit => RefusalInv
  <2> SUFFICES ASSUME TalkInit
               PROVE  RefusalInv
    OBVIOUS
  <2>1. history = <<>> /\ refused = 0
    BY DEF TalkInit
  <2>2. <<>> \in Seq({})
    OBVIOUS
  <2>3. history \in Seq({history[i] : i \in DOMAIN history})
    BY <2>1, <2>2, OwnRows
  <2> QED
    BY <2>1, <2>3 DEF RefusalInv
<1>2. RefusalInv /\ [TalkNext]_talkVars => RefusalInv'
  <2> SUFFICES ASSUME RefusalInv, [TalkNext]_talkVars
               PROVE  RefusalInv'
    OBVIOUS
  <2>1. CASE Turn
    BY <2>1, TurnKeepsRefusals
  <2>2. CASE Save
    BY <2>2, SaveKeepsRefusals
  <2>3. CASE BrokenOff
    BY <2>3 DEF RefusalInv, BrokenOff
  <2>4. CASE Reset
    <3>1. history' = <<>> /\ saving' = <<>> /\ refused' = refused
      BY <2>4 DEF Reset
    <3>2. <<>> \in Seq({})
      OBVIOUS
    <3>3. history' \in Seq({history'[i] : i \in DOMAIN history'})
      BY <3>1, <3>2, OwnRows
    <3>4. RefusedRows'
      BY <3>1 DEF RefusedRows
    <3> QED
      BY <3>1, <3>3, <3>4 DEF RefusalInv
  <2>5. CASE UNCHANGED talkVars
    BY <2>5 DEF RefusalInv, RefusedRows, After, talkVars
  <2> QED
    BY <2>1, <2>2, <2>3, <2>4, <2>5 DEF TalkNext
<1>3. RefusalInv => RefusalsEnd
  BY DEF RefusalInv, RefusalsEnd
<1> QED
  BY <1>1, <1>2, <1>3, PTL DEF TalkSpec

HIDE BotTalkAssumption
==============================================================================

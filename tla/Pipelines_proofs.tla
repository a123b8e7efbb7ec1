-------------------------- MODULE Pipelines_proofs --------------------------
(***************************************************************************)
(* Proofs about modules TriageSource, Uploads, DraftDispatch and DevChat,  *)
(* for any events, items, processes, messages and bounds on the faults.    *)
(***************************************************************************)
EXTENDS TriageSource, Uploads, DraftDispatch, DevChat, TLAPS, FiniteSetTheorems,
        SequenceTheorems, WellFoundedInduction

-----------------------------------------------------------------------------
(* The triage daemon. *)

USE TriageAssumption

\* The file a batch was read from is one there was.
TriageTyped == TriageTypeOK /\ daemon.of \in 0 .. MaxRotations

\* Without a restart, what was dispatched is remembered until it is pushed out.
Remembered(e) ==
    e \notin forgotten => tried[e] <= 1 /\ (tried[e] = 1 => e \in Range(seen))

RepeatInv == restarts = 0 => \A e \in Events : Remembered(e)


\* Nothing is written or read at the start.
LEMMA TriageStarts == TriageInit => TriageTyped /\ RepeatInv
<1> SUFFICES ASSUME TriageInit
             PROVE  TriageTyped /\ RepeatInv
  OBVIOUS
<1>1. TriageTyped
  <2>1. /\ <<>> \in Seq(Events) /\ Len(<<>>) = 0
        /\ {MaxLines, Capacity, MaxRestarts, MaxRotations} \subseteq Nat
    OBVIOUS
  <2>2. /\ Polling \in [pc : {"polling", "working"}, batch : Seq(Events), upTo : Nat, of : Nat]
        /\ Polling.of = 0
    BY <2>1 DEF Polling
  <2>3. /\ [at |-> 0, of |-> 0] \in [at : Nat, of : 0 .. MaxRotations]
        /\ {0} \subseteq 0 .. MaxLines /\ {0} \subseteq 0 .. MaxRestarts
        /\ {0} \subseteq 0 .. MaxRotations /\ 0 <= Capacity
    BY <2>1
  <2>4. /\ file = <<>> /\ partial = FALSE /\ written = 0 /\ cursor = [at |-> 0, of |-> 0]
        /\ daemon = Polling /\ seen = <<>> /\ tried \in [Events -> Nat]
        /\ restarts = 0 /\ rotations = 0 /\ missed = FALSE /\ forgotten = {}
    BY DEF TriageInit
  <2> QED
    BY <2>1, <2>2, <2>3, <2>4 DEF TriageTyped, TriageTypeOK
<1>2. RepeatInv
  BY DEF TriageInit, RepeatInv, Remembered
<1> QED
  BY <1>1, <1>2

\* The batch that is left is of events.
LEMMA BatchTyped ==
    ASSUME TriageTyped, daemon.batch # <<>>, daemon' = [daemon EXCEPT !.batch = Tail(@)]
    PROVE  /\ Head(daemon.batch) \in Events
           /\ daemon' \in [pc : {"polling", "working"}, batch : Seq(Events), upTo : Nat, of : Nat]
           /\ daemon'.of \in 0 .. MaxRotations
<1>1. daemon \in [pc : {"polling", "working"}, batch : Seq(Events), upTo : Nat, of : Nat]
  BY DEF TriageTyped, TriageTypeOK
<1>2. Head(daemon.batch) \in Events /\ Tail(daemon.batch) \in Seq(Events)
  BY <1>1
<1>3. daemon' = [daemon EXCEPT !.batch = Tail(daemon.batch)]
  OBVIOUS
<1> QED
  BY <1>1, <1>2, <1>3 DEF TriageTyped

\* What is remembered, and for how long.
LEMMA SeenMoves ==
    ASSUME TriageTyped, NEW e \in Events, RecordSeen(e)
    PROVE  /\ seen' \in Seq(Events) /\ Len(seen') <= Capacity
           /\ forgotten \subseteq forgotten' /\ forgotten' \subseteq Events
           /\ e \in Range(seen')
           /\ \A d \in Range(seen) : d \in forgotten' \/ d \in Range(seen')
<1>1. /\ seen \in Seq(Events) /\ Len(seen) \in Nat /\ Len(seen) <= Capacity
      /\ forgotten \subseteq Events /\ Capacity \in Nat \ {0}
  BY DEF TriageTyped, TriageTypeOK
<1>2. CASE Len(seen) = Capacity
  <2>1. seen # <<>>
    BY <1>1, <1>2
  <2>2. /\ Head(seen) = seen[1] /\ Head(seen) \in Events
        /\ Tail(seen) \in Seq(Events) /\ Len(Tail(seen)) = Len(seen) - 1
        /\ \A i \in 1 .. Len(Tail(seen)) : Tail(seen)[i] = seen[i + 1]
    BY <1>1, <2>1
  <2>3. seen' = Append(Tail(seen), e) /\ forgotten' = forgotten \cup {Head(seen)}
    BY <1>2 DEF RecordSeen
  <2>4. /\ seen' \in Seq(Events) /\ Len(seen') = Len(seen)
        /\ seen'[Len(seen)] = e
        /\ \A i \in 1 .. Len(seen) - 1 : seen'[i] = seen[i + 1]
    BY <1>1, <2>2, <2>3
  <2>5. ASSUME NEW d \in Range(seen)
        PROVE  d \in forgotten' \/ d \in Range(seen')
    <3>1. PICK i \in 1 .. Len(seen) : d = seen[i]
      BY <1>1 DEF Range
    <3>2. CASE i = 1
      BY <3>1, <3>2, <2>2, <2>3
    <3>3. CASE i # 1
      <4>1. i - 1 \in 1 .. Len(seen) - 1 /\ i - 1 + 1 = i
        BY <3>1, <3>3, <1>1
      <4>2. seen'[i - 1] = d /\ i - 1 \in DOMAIN seen'
        BY <4>1, <3>1, <2>4, <1>1
      <4> QED
        BY <4>2 DEF Range
    <3> QED
      BY <3>2, <3>3
  <2>6. Len(seen) \in DOMAIN seen'
    BY <1>1, <2>1, <2>4
  <2> QED
    BY <1>1, <2>2, <2>3, <2>4, <2>5, <2>6 DEF Range
<1>3. CASE Len(seen) # Capacity
  <2>1. seen' = Append(seen, e) /\ forgotten' = forgotten
    BY <1>3 DEF RecordSeen
  <2>2. /\ seen' \in Seq(Events) /\ Len(seen') = Len(seen) + 1
        /\ seen'[Len(seen) + 1] = e
        /\ \A i \in 1 .. Len(seen) : seen'[i] = seen[i]
    BY <1>1, <2>1
  <2>3. Len(seen') <= Capacity /\ DOMAIN seen' = 1 .. Len(seen) + 1 /\ DOMAIN seen = 1 .. Len(seen)
    BY <1>1, <1>3, <2>2
  <2>4. e \in Range(seen')
    BY <1>1, <2>2, <2>3 DEF Range
  <2>5. \A d \in Range(seen) : d \in Range(seen')
    BY <1>1, <2>2, <2>3 DEF Range
  <2> QED
    BY <1>1, <2>1, <2>2, <2>3, <2>4, <2>5
<1> QED
  BY <1>2, <1>3

\* No step of the daemon or of the writer of its file leaves the types.
LEMMA TriageTypedStep ==
    ASSUME TriageTyped, [TriageNext]_triageVars
    PROVE  TriageTyped'
<1> USE DEF disk, history
<1>1. ASSUME NEW e \in Events, Append1(e)
      PROVE  TriageTyped'
  BY SMTT(30), <1>1 DEF Append1, TriageTyped, TriageTypeOK
<1>2. CASE EndLine
  BY <1>2 DEF EndLine, TriageTyped, TriageTypeOK
<1>3. CASE Rotate
  <2>1. rotations \in 0 .. MaxRotations /\ MaxRotations \in Nat
    BY DEF TriageTyped, TriageTypeOK
  <2>2. rotations' \in 0 .. MaxRotations
    BY <1>3, <2>1 DEF Rotate
  <2>3. /\ file' = <<>> /\ partial' = FALSE
        /\ UNCHANGED <<written, cursor, daemon, seen, tried, restarts, history>>
    BY <1>3 DEF Rotate
  <2>4. file' \in Seq(Events)
    BY <2>3, EmptySeq
  <2>5. partial' \in BOOLEAN
    BY <2>3
  <2> QED
    BY <2>2, <2>3, <2>4, <2>5 DEF TriageTyped, TriageTypeOK
<1>4. CASE Read
  <2> DEFINE from == IF Len(file) < cursor.at THEN 0 ELSE cursor.at
  <2>1. /\ file \in Seq(Events) /\ Len(file) \in Nat /\ Complete \in Int /\ Complete <= Len(file)
        /\ from \in Nat /\ rotations \in 0 .. MaxRotations /\ rotations \in Nat
    BY DEF TriageTyped, TriageTypeOK, Complete
  <2>2. Complete > from /\ daemon' = [pc |-> "working", batch |-> SubSeq(file, from + 1, Complete),
                                      upTo |-> Complete, of |-> rotations]
    BY <1>4 DEF Read
  <2> HIDE DEF from
  <2>3. SubSeq(file, from + 1, Complete) \in Seq(Events)
    BY <2>1
  <2>4. /\ daemon' \in [pc : {"polling", "working"}, batch : Seq(Events), upTo : Nat, of : Nat]
        /\ daemon'.of \in 0 .. MaxRotations
    BY <2>1, <2>2, <2>3
  <2>5. UNCHANGED <<disk, cursor, seen, tried, restarts, forgotten>> /\ missed' \in BOOLEAN
    BY <1>4 DEF Read, TriageTyped, TriageTypeOK
  <2> QED
    BY <2>4, <2>5 DEF TriageTyped, TriageTypeOK
<1>5. CASE Dispatch
  <2> DEFINE e == Head(daemon.batch)
  <2>1. /\ e \in Events
        /\ daemon' \in [pc : {"polling", "working"}, batch : Seq(Events), upTo : Nat, of : Nat]
        /\ daemon'.of \in 0 .. MaxRotations
    BY <1>5, BatchTyped DEF Dispatch
  <2>2. RecordSeen(e) /\ tried' = [tried EXCEPT ![e] = @ + 1]
    BY <1>5 DEF Dispatch
  <2>3. UNCHANGED <<disk, cursor, restarts, missed>>
    BY <1>5 DEF Dispatch
  <2> HIDE DEF e
  <2>4. tried' \in [Events -> Nat]
    <3>1. tried \in [Events -> Nat]
      BY DEF TriageTyped, TriageTypeOK
    <3> QED
      BY <2>1, <2>2, <3>1
  <2>5. seen' \in Seq(Events) /\ Len(seen') <= Capacity /\ forgotten' \subseteq Events
    BY <2>1, <2>2, SeenMoves
  <2> QED
    BY <2>1, <2>3, <2>4, <2>5 DEF TriageTyped, TriageTypeOK
<1>6. CASE Skip
  <2>1. /\ daemon' \in [pc : {"polling", "working"}, batch : Seq(Events), upTo : Nat, of : Nat]
        /\ daemon'.of \in 0 .. MaxRotations
    BY <1>6, BatchTyped DEF Skip
  <2> QED
    BY <1>6, <2>1 DEF Skip, TriageTyped, TriageTypeOK
<1>7. CASE WriteCursor
  BY <1>7 DEF WriteCursor, TriageTyped, TriageTypeOK, Polling
<1>8. CASE Restart
  BY SMTT(30), <1>8 DEF Restart, TriageTyped, TriageTypeOK, Polling
<1>9. CASE UNCHANGED triageVars
  BY <1>9 DEF triageVars, TriageTyped, TriageTypeOK
<1> QED
  BY <1>1, <1>2, <1>3, <1>4, <1>5, <1>6, <1>7, <1>8, <1>9 DEF TriageNext, Daemon

\* An event is dispatched when it is not remembered, and remembered then.
LEMMA RepeatStep ==
    ASSUME TriageTyped, RepeatInv, [TriageNext]_triageVars
    PROVE  RepeatInv'
<1> USE DEF disk, history
<1>1. CASE Dispatch
  <2> DEFINE d == Head(daemon.batch)
  <2>1. d \in Events
    BY <1>1, BatchTyped DEF Dispatch
  <2>2. RecordSeen(d) /\ tried' = [tried EXCEPT ![d] = @ + 1] /\ restarts' = restarts
    BY <1>1 DEF Dispatch
  <2> HIDE DEF d
  <2>3. tried \in [Events -> Nat]
    BY DEF TriageTyped, TriageTypeOK
  <2>4. d \notin Range(seen)
    BY <2>2 DEF RecordSeen
  <2>5. /\ forgotten \subseteq forgotten' /\ d \in Range(seen')
        /\ \A e \in Range(seen) : e \in forgotten' \/ e \in Range(seen')
    BY <2>1, <2>2, SeenMoves
  <2>6. ASSUME NEW e \in Events, restarts = 0, e \notin forgotten'
        PROVE  tried'[e] <= 1 /\ (tried'[e] = 1 => e \in Range(seen'))
    <3>1. tried[e] <= 1 /\ (tried[e] = 1 => e \in Range(seen)) /\ tried[e] \in Nat
      BY <2>6, <2>5, <2>3 DEF RepeatInv, Remembered
    <3>2. CASE e = d
      BY <3>1, <3>2, <2>2, <2>3, <2>4, <2>5
    <3>3. CASE e # d
      BY <3>1, <3>3, <2>2, <2>3, <2>5, <2>6
    <3> QED
      BY <3>2, <3>3
  <2> QED
    BY <2>2, <2>6 DEF RepeatInv, Remembered
<1>2. CASE Restart
  <2>1. restarts \in Nat /\ restarts' = restarts + 1
    BY <1>2 DEF Restart, TriageTyped, TriageTypeOK
  <2> QED
    BY <2>1 DEF RepeatInv
<1>3. CASE UNCHANGED <<restarts, tried, seen, forgotten>>
  BY <1>3 DEF RepeatInv, Remembered
<1>4. Dispatch \/ Restart \/ UNCHANGED <<restarts, tried, seen, forgotten>>
  BY DEF TriageNext, Daemon, Append1, EndLine, Rotate, Read, Skip, WriteCursor, triageVars
<1> QED
  BY <1>1, <1>2, <1>3, <1>4

\* The triage daemon dispatches an event again only after a restart, or when it was
\* pushed out of what the daemon remembers, whatever the capacity and the rotations.
THEOREM RepeatsHaveACauseProved == TriageSpec => []RepeatsHaveACause
<1>1. TriageTyped /\ RepeatInv => RepeatsHaveACause
  <2> SUFFICES ASSUME TriageTyped, RepeatInv, NEW e \in Events, tried[e] > 1, ~(restarts > 0)
               PROVE  e \in forgotten
    BY DEF RepeatsHaveACause
  <2>1. restarts = 0 /\ tried[e] \in Nat
    BY DEF TriageTyped, TriageTypeOK
  <2> QED
    BY <2>1 DEF RepeatInv, Remembered
<1>2. TriageTyped /\ RepeatInv /\ [TriageNext]_triageVars => (TriageTyped /\ RepeatInv)'
  BY TriageTypedStep, RepeatStep
<1> QED
  BY <1>1, <1>2, TriageStarts, PTL DEF TriageSpec

-----------------------------------------------------------------------------
(* The cursor of the triage daemon.  NothingIsSkipped speaks of the cursor that is
   on disk; the invariant follows the batch whose end it will be: the lines between
   the cursor and the rest of the batch have been tried, and the rest is still what
   the file says, unless the file is another one by now. *)

LinesTried(n) == \A i \in 1 .. n : tried[file[i]] > 0

CursorInv ==
    /\ cursor.of <= rotations
    /\ cursor.of = rotations =>
        cursor.at <= Complete /\ (missed \/ LinesTried(cursor.at))

\* How many lines of its file the daemon is done with, while it works on a batch.
Behind == daemon.upTo - Len(daemon.batch)

\* The file is the one the batch was read from.
Reading == daemon.pc = "working" /\ daemon.of = rotations

BatchInv ==
    /\ daemon.of <= rotations
    /\ Reading =>
        /\ Behind >= 0 /\ daemon.upTo <= Complete
        /\ \A k \in 1 .. Len(daemon.batch) : daemon.batch[k] = file[Behind + k]
        /\ missed \/ LinesTried(Behind)

\* What the daemon takes for known it has tried.
SeenTried == \A e \in Range(seen) : tried[e] > 0

SkipInv == CursorInv /\ BatchInv /\ SeenTried

\* Nothing is behind the cursor at the start.
LEMMA SkipStarts == TriageInit => SkipInv
<1> SUFFICES ASSUME TriageInit
             PROVE  SkipInv
  OBVIOUS
<1>1. CursorInv
  BY DEF TriageInit, CursorInv, Complete, LinesTried
<1>2. BatchInv
  BY DEF TriageInit, BatchInv, Reading, Polling
<1>3. SeenTried
  BY DEF TriageInit, SeenTried, Range
<1> QED
  BY <1>1, <1>2, <1>3 DEF SkipInv

\* The types the arithmetic on lines needs.
LEMMA LineTypes ==
    ASSUME TriageTyped
    PROVE  /\ file \in Seq(Events) /\ Len(file) \in Nat
           /\ Complete \in Int /\ Complete <= Len(file)
           /\ rotations \in Nat /\ cursor.at \in Nat /\ cursor.of \in Nat
           /\ daemon.batch \in Seq(Events) /\ Len(daemon.batch) \in Nat
           /\ daemon.upTo \in Nat /\ daemon.of \in Nat
           /\ Behind \in Int /\ Behind + Len(daemon.batch) = daemon.upTo
           /\ tried \in [Events -> Nat] /\ missed \in BOOLEAN
<1>1. /\ file \in Seq(Events) /\ Len(file) \in Nat
      /\ rotations \in Nat /\ cursor.at \in Nat /\ cursor.of \in Nat
      /\ daemon.batch \in Seq(Events) /\ Len(daemon.batch) \in Nat
      /\ daemon.upTo \in Nat /\ daemon.of \in Nat
      /\ tried \in [Events -> Nat] /\ missed \in BOOLEAN
  BY DEF TriageTyped, TriageTypeOK
<1>2. Complete \in Int /\ Complete <= Len(file)
  BY <1>1 DEF Complete
<1>3. Behind \in Int /\ Behind + Len(daemon.batch) = daemon.upTo
  BY <1>1 DEF Behind
<1> QED
  BY <1>1, <1>2, <1>3

\* The writer adds behind the complete lines, or makes a new file.
LEMMA WriterSkips ==
    ASSUME TriageTyped, SkipInv,
           (\E e \in Events : Append1(e)) \/ EndLine \/ Rotate
    PROVE  SkipInv'
<1> USE DEF history
<1>1. /\ cursor' = cursor /\ daemon' = daemon /\ seen' = seen /\ tried' = tried /\ missed' = missed
  BY DEF Append1, EndLine, Rotate
<1>2. SeenTried'
  BY <1>1 DEF SkipInv, SeenTried
<1>3. CASE Rotate
  <2>1. rotations' = rotations + 1
    BY <1>3 DEF Rotate
  <2>2. /\ rotations \in Nat /\ cursor.of \in Nat /\ daemon.of \in Nat
        /\ cursor.of <= rotations /\ daemon.of <= rotations
    BY LineTypes DEF SkipInv, CursorInv, BatchInv
  <2>3. /\ cursor'.of <= rotations' /\ cursor'.of # rotations'
        /\ daemon'.of <= rotations' /\ daemon'.of # rotations'
    BY <1>1, <2>1, <2>2
  <2>4. CursorInv'
    BY <2>3 DEF CursorInv
  <2>5. BatchInv'
    BY <2>3 DEF BatchInv, Reading
  <2> QED
    BY <1>2, <2>4, <2>5 DEF SkipInv
<1>4. CASE (\E e \in Events : Append1(e)) \/ EndLine
  <2>1. /\ rotations' = rotations /\ Complete' >= Complete
        /\ \A i \in 1 .. Len(file) : file'[i] = file[i]
    <3>1. ASSUME NEW e \in Events, Append1(e)
          PROVE  /\ rotations' = rotations /\ Complete' >= Complete
                 /\ \A i \in 1 .. Len(file) : file'[i] = file[i]
      <4>1. /\ file' = Append(file, e) /\ ~partial /\ partial' = TRUE /\ rotations' = rotations
        BY <3>1 DEF Append1
      <4>2. Len(file') = Len(file) + 1 /\ \A i \in 1 .. Len(file) : file'[i] = file[i]
        BY <4>1, LineTypes
      <4> QED
        BY <4>1, <4>2, LineTypes DEF Complete
    <3>2. CASE EndLine
      BY <3>2, LineTypes DEF EndLine, Complete
    <3> QED
      BY <1>4, <3>1, <3>2
  <2>2. Complete' \in Int
    <3>1. TriageTyped'
      BY <1>4, TriageTypedStep DEF TriageNext
    <3> QED
      BY <3>1 DEF TriageTyped, TriageTypeOK, Complete
  <2>3. ASSUME NEW n \in Int, n <= Complete, LinesTried(n)
        PROVE  LinesTried(n)'
    <3>1. \A i \in 1 .. n : file'[i] = file[i]
      BY <2>1, <2>3, LineTypes
    <3> QED
      BY <1>1, <2>3, <3>1 DEF LinesTried
  <2>4. CursorInv'
    BY <1>1, <2>1, <2>2, <2>3, LineTypes DEF SkipInv, CursorInv
  <2>5. Behind' = Behind /\ (Reading' => Reading) /\ daemon'.of <= rotations'
    BY <1>1, <2>1 DEF Behind, Reading, SkipInv, BatchInv
  <2>6. BatchInv'
    <3> SUFFICES ASSUME Reading
                 PROVE  /\ Behind >= 0 /\ daemon.upTo <= Complete'
                        /\ \A k \in 1 .. Len(daemon.batch) : daemon.batch[k] = file'[Behind + k]
                        /\ missed \/ LinesTried(Behind)'
      BY <1>1, <2>5 DEF BatchInv
    <3>1. /\ Behind >= 0 /\ daemon.upTo <= Complete
          /\ \A k \in 1 .. Len(daemon.batch) : daemon.batch[k] = file[Behind + k]
          /\ missed \/ LinesTried(Behind)
      BY DEF SkipInv, BatchInv
    <3>2. /\ Behind \in Int /\ Behind + Len(daemon.batch) = daemon.upTo /\ daemon.upTo \in Nat
          /\ Complete \in Int /\ Complete <= Len(file) /\ Len(file) \in Nat
          /\ Len(daemon.batch) \in Nat
      BY LineTypes
    <3> Behind <= Complete /\ daemon.upTo <= Len(file) /\ daemon.upTo <= Complete'
      BY <2>1, <2>2, <3>1, <3>2
    <3>3. ASSUME NEW k \in 1 .. Len(daemon.batch)
          PROVE  Behind + k \in 1 .. Len(file)
      BY <3>1, <3>2
    <3>4. missed \/ LinesTried(Behind)'
      <4>1. PICK n \in Int : n = Behind
        BY LineTypes
      <4>2. missed \/ LinesTried(n)'
        BY <2>3, <3>1, <3>2, <4>1
      <4> QED
        BY <2>5, <4>1, <4>2 DEF LinesTried
    <3>5. \A k \in 1 .. Len(daemon.batch) : daemon.batch[k] = file'[Behind + k]
      BY <2>1, <3>1, <3>3
    <3> QED
      BY <3>1, <3>2, <3>4, <3>5
  <2> QED
    BY <1>2, <2>4, <2>6 DEF SkipInv
<1> QED
  BY <1>3, <1>4

\* A batch begins where the cursor is, unless the file is a new one: then at its start,
\* or it has outgrown the cursor, which is missed.
LEMMA ReadSkips ==
    ASSUME TriageTyped, SkipInv, Read
    PROVE  SkipInv'
<1> DEFINE from == IF Len(file) < cursor.at THEN 0 ELSE cursor.at
<1>1. /\ Complete > from
      /\ daemon' = [pc |-> "working", batch |-> SubSeq(file, from + 1, Complete),
                    upTo |-> Complete, of |-> rotations]
      /\ missed' = (missed \/ (from > 0 /\ cursor.of # rotations))
      /\ UNCHANGED <<disk, cursor, seen, tried>>
  BY DEF Read
<1>2. /\ from \in Nat
      /\ from > 0 => from = cursor.at
      /\ cursor.of = rotations => from = cursor.at
  BY LineTypes DEF SkipInv, CursorInv
<1> HIDE DEF from
<1>3. UNCHANGED <<file, partial, rotations>> /\ Complete' = Complete
  BY <1>1 DEF disk, Complete
<1>4. CursorInv' /\ SeenTried'
  BY <1>1, <1>3 DEF SkipInv, CursorInv, SeenTried, LinesTried
<1>5. BatchInv'
  <2> file \in Seq(Events) /\ Len(file) \in Nat /\ Complete \in Int /\ Complete <= Len(file)
    BY LineTypes
  <2>1. PICK b : b = SubSeq(file, from + 1, Complete)
    OBVIOUS
  <2>2. Len(b) = Complete - from /\ \A k \in 1 .. Len(b) : b[k] = file[from + k]
    BY <1>1, <1>2, <2>1
  <2>3. /\ daemon'.batch = b /\ daemon'.upTo = Complete /\ daemon'.of = rotations
    BY <1>1, <2>1
  <2>4. Behind' = from
    BY <1>1, <1>2, <2>2, <2>3 DEF Behind
  <2>5. missed' \/ LinesTried(from)
    <3>1. CASE from = 0
      BY <3>1 DEF LinesTried
    <3>2. CASE from # 0 /\ cursor.of = rotations
      BY <1>1, <1>2, <3>2 DEF SkipInv, CursorInv
    <3>3. CASE from # 0 /\ cursor.of # rotations
      <4>1. from > 0
        BY <1>2, <3>3
      <4> QED
        BY <1>1, <3>3, <4>1
    <3> QED
      BY <3>1, <3>2, <3>3
  <2>6. missed' \/ LinesTried(Behind)'
    BY <1>1, <1>3, <2>4, <2>5 DEF LinesTried
  <2>7. daemon'.of <= rotations' /\ Behind' >= 0 /\ daemon'.upTo <= Complete'
    BY <1>2, <1>3, <2>3, <2>4, LineTypes
  <2>8. \A k \in 1 .. Len(daemon'.batch) : daemon'.batch[k] = file'[Behind' + k]
    BY <1>3, <2>2, <2>3, <2>4
  <2> QED
    BY <2>6, <2>7, <2>8 DEF BatchInv
<1> QED
  BY <1>4, <1>5 DEF SkipInv

\* The next line is tried, now or, if it is one the daemon remembers, before.
LEMMA LineDone ==
    ASSUME TriageTyped, SkipInv, daemon.pc = "working", daemon.batch # <<>>,
           daemon' = [daemon EXCEPT !.batch = Tail(@)],
           UNCHANGED <<disk, cursor, missed>>,
           tried' \in [Events -> Nat], \A e \in Events : tried[e] > 0 => tried'[e] > 0,
           tried'[Head(daemon.batch)] > 0
    PROVE  CursorInv' /\ BatchInv'
<1>1. UNCHANGED <<file, partial, rotations, cursor, missed>> /\ Complete' = Complete
  BY DEF disk, Complete
<1>2. ASSUME NEW n \in Int, n <= Complete, LinesTried(n)
      PROVE  LinesTried(n)'
  <2>1. \A i \in 1 .. n : file[i] \in Events
    BY <1>2, LineTypes
  <2> QED
    BY <1>1, <1>2, <2>1 DEF LinesTried
<1>3. CursorInv'
  BY <1>1, <1>2, LineTypes DEF SkipInv, CursorInv
<1>4. /\ daemon'.batch = Tail(daemon.batch) /\ daemon'.upTo = daemon.upTo
      /\ daemon'.of = daemon.of /\ daemon'.pc = "working"
  BY DEF TriageTyped, TriageTypeOK
<1>5. /\ Len(daemon'.batch) = Len(daemon.batch) - 1 /\ Len(daemon.batch) >= 1
      /\ \A k \in 1 .. Len(daemon'.batch) : daemon'.batch[k] = daemon.batch[k + 1]
      /\ Head(daemon.batch) = daemon.batch[1]
  <2>1. daemon.batch \in Seq(Events)
    BY LineTypes
  <2> QED
    BY <1>4, <2>1
<1>6. Behind' = Behind + 1
  BY <1>4, <1>5, LineTypes DEF Behind
<1>7. ASSUME Reading
      PROVE  /\ daemon.upTo <= Complete /\ Behind + 1 >= 0
             /\ \A k \in 1 .. Len(daemon'.batch) : daemon'.batch[k] = file[Behind + 1 + k]
             /\ missed \/ LinesTried(Behind)'
  <2>1. /\ Behind >= 0 /\ daemon.upTo <= Complete
        /\ \A k \in 1 .. Len(daemon.batch) : daemon.batch[k] = file[Behind + k]
        /\ missed \/ LinesTried(Behind)
    BY <1>7 DEF SkipInv, BatchInv
  <2>2. PICK n \in Nat : n = Behind
    BY <2>1, LineTypes
  <2>3. n + 1 <= Complete /\ file[n + 1] = Head(daemon.batch)
    <3>1. Behind + Len(daemon.batch) = daemon.upTo /\ Len(daemon.batch) \in Nat /\ Complete \in Int
          /\ daemon.upTo \in Nat
      BY LineTypes
    <3>2. 1 \in 1 .. Len(daemon.batch)
      BY <1>5, <3>1
    <3>3. n + Len(daemon.batch) <= Complete
      BY <2>1, <2>2, <3>1
    <3>4. n + 1 <= Complete
      BY <3>1, <3>2, <3>3
    <3>5. daemon.batch[1] = file[n + 1]
      BY <2>1, <2>2, <3>2
    <3> QED
      BY <1>5, <3>4, <3>5
  <2>4. missed \/ LinesTried(n)'
    BY <1>2, <2>1, <2>2, <2>3, LineTypes
  <2>5. tried'[file'[n + 1]] > 0
    BY <1>1, <2>3
  <2>6. missed \/ \A i \in 1 .. n + 1 : tried'[file'[i]] > 0
    BY <2>4, <2>5 DEF LinesTried
  <2>7. missed \/ LinesTried(Behind)'
    BY <1>6, <2>2, <2>6 DEF LinesTried
  <2>8. ASSUME NEW k \in 1 .. Len(daemon'.batch)
        PROVE  daemon'.batch[k] = file[n + 1 + k]
    <3>1. k + 1 \in 1 .. Len(daemon.batch) /\ n + (k + 1) = n + 1 + k
      <4>1. Len(daemon.batch) \in Nat
        BY LineTypes
      <4>2. PICK m \in Nat : m = Len(daemon.batch)
        BY <4>1
      <4>3. Len(daemon'.batch) = m - 1
        BY <1>5, <4>2
      <4>4. k \in 1 .. m - 1
        BY <2>8, <4>3
      <4>5. k \in Nat /\ 1 <= k /\ k <= m - 1
        BY <4>4
      <4>6. k + 1 \in 1 .. m
        BY <4>5
      <4>7. n + (k + 1) = n + 1 + k
        BY <4>5
      <4> QED
        BY <4>2, <4>6, <4>7
    <3> QED
      BY <1>5, <2>1, <2>2, <3>1
  <2> QED
    BY <2>1, <2>2, <2>7, <2>8
<1>8. BatchInv'
  BY <1>1, <1>4, <1>6, <1>7 DEF SkipInv, BatchInv, Reading
<1> QED
  BY <1>3, <1>8

\* No step of the daemon or of the writer leaves a line behind untried.
LEMMA SkipStep ==
    ASSUME TriageTyped, SkipInv, [TriageNext]_triageVars
    PROVE  SkipInv'
<1> USE DEF disk, history
<1>1. CASE (\E e \in Events : Append1(e)) \/ EndLine \/ Rotate
  BY <1>1, WriterSkips
<1>2. CASE Read
  BY <1>2, ReadSkips
<1>3. CASE Dispatch
  <2>1. PICK d : d = Head(daemon.batch)
    OBVIOUS
  <2>2. /\ d \in Events /\ RecordSeen(d) /\ tried' = [tried EXCEPT ![d] = @ + 1]
        /\ daemon.pc = "working" /\ daemon.batch # <<>>
        /\ daemon' = [daemon EXCEPT !.batch = Tail(@)] /\ UNCHANGED <<disk, cursor, missed>>
    BY <1>3, <2>1, BatchTyped DEF Dispatch
  <2>3. /\ tried' \in [Events -> Nat] /\ tried'[d] > 0
        /\ \A e \in Events : tried[e] > 0 => tried'[e] > 0
    <3>1. tried \in [Events -> Nat]
      BY LineTypes
    <3> QED
      BY <2>2, <3>1
  <2>4. CursorInv' /\ BatchInv'
    BY <2>1, <2>2, <2>3, LineDone
  <2>5. SeenTried'
    <3>1. seen' \in Seq(Events) /\ seen \in Seq(Events)
      BY <2>2, SeenMoves DEF TriageTyped, TriageTypeOK
    <3>2. seen' = Append(IF Len(seen) = Capacity THEN Tail(seen) ELSE seen, d)
      BY <2>2 DEF RecordSeen
    <3>3. \A e \in Range(seen') : e \in Events /\ (e = d \/ e \in Range(seen))
      <4>1. PICK rest : rest = IF Len(seen) = Capacity THEN Tail(seen) ELSE seen
        OBVIOUS
      <4>2. rest \in Seq(Events) /\ \A i \in 1 .. Len(rest) : rest[i] \in Range(seen)
        <5>1. CASE Len(seen) = Capacity
          BY <3>1, <4>1, <5>1 DEF Range
        <5>2. CASE Len(seen) # Capacity
          BY <3>1, <4>1, <5>2 DEF Range
        <5> QED
          BY <5>1, <5>2
      <4>3. /\ seen' = Append(rest, d) /\ Len(seen') = Len(rest) + 1
            /\ seen'[Len(rest) + 1] = d
            /\ \A i \in 1 .. Len(rest) : seen'[i] = rest[i]
        BY <2>2, <3>2, <4>1, <4>2
      <4>4. \A i \in 1 .. Len(seen') : i = Len(rest) + 1 \/ i \in 1 .. Len(rest)
        BY <4>2, <4>3
      <4> QED
        BY <3>1, <4>2, <4>3, <4>4 DEF Range
    <3> QED
      BY <2>3, <3>3 DEF SkipInv, SeenTried
  <2> QED
    BY <2>4, <2>5 DEF SkipInv
<1>4. CASE Skip
  <2>1. /\ daemon.pc = "working" /\ daemon.batch # <<>> /\ Head(daemon.batch) \in Range(seen)
        /\ daemon' = [daemon EXCEPT !.batch = Tail(@)]
        /\ UNCHANGED <<disk, cursor, seen, tried, missed>>
    BY <1>4 DEF Skip
  <2>2. tried[Head(daemon.batch)] > 0
    BY <2>1 DEF SkipInv, SeenTried
  <2>3. CursorInv' /\ BatchInv'
    BY <2>1, <2>2, LineDone, LineTypes
  <2> QED
    BY <2>1, <2>3 DEF SkipInv, SeenTried
<1>5. CASE WriteCursor
  <2>1. /\ daemon.pc = "working" /\ daemon.batch = <<>>
        /\ cursor' = [at |-> daemon.upTo, of |-> daemon.of] /\ daemon' = Polling
        /\ UNCHANGED <<disk, seen, tried, missed>>
    BY <1>5 DEF WriteCursor
  <2>2. Behind = daemon.upTo
    BY <2>1, LineTypes DEF Behind
  <2>3. Complete' = Complete
    BY <2>1 DEF Complete
  <2>4. CursorInv'
    BY <2>1, <2>2, <2>3 DEF SkipInv, BatchInv, Reading, CursorInv, LinesTried
  <2>5. BatchInv'
    BY <2>1, LineTypes DEF BatchInv, Reading, Polling
  <2> QED
    BY <2>1, <2>4, <2>5 DEF SkipInv, SeenTried
<1>6. CASE Restart
  <2>1. daemon' = Polling /\ seen' = <<>> /\ UNCHANGED <<disk, cursor, tried, missed>>
    BY <1>6 DEF Restart
  <2>2. SeenTried'
    BY <2>1 DEF SeenTried, Range
  <2>3. CursorInv'
    BY <2>1 DEF SkipInv, CursorInv, Complete, LinesTried
  <2>4. BatchInv'
    BY <2>1, LineTypes DEF BatchInv, Reading, Polling
  <2> QED
    BY <2>2, <2>3, <2>4 DEF SkipInv
<1>7. CASE UNCHANGED triageVars
  BY <1>7 DEF triageVars, SkipInv, CursorInv, BatchInv, Behind, Reading, SeenTried, Complete,
              LinesTried
<1> QED
  BY <1>1, <1>2, <1>3, <1>4, <1>5, <1>6, <1>7 DEF TriageNext, Daemon

\* The cursor never passes an event that was not dispatched, whatever restarts there
\* were between a batch and the write of the cursor, unless a new file had outgrown the
\* old cursor before the daemon looked.
THEOREM NothingIsSkippedProved == TriageSpec => []NothingIsSkipped
<1>1. ASSUME TriageTyped, CursorInv
      PROVE  NothingIsSkipped
  BY <1>1, LineTypes DEF CursorInv, LinesTried, NothingIsSkipped
<1>2. TriageTyped /\ SkipInv /\ [TriageNext]_triageVars => (TriageTyped /\ SkipInv)'
  BY TriageTypedStep, SkipStep
<1>3. TriageInit => TriageTyped /\ SkipInv
  BY TriageStarts, SkipStarts
<1>4. TriageTyped /\ SkipInv => NothingIsSkipped
  BY <1>1 DEF SkipInv
<1> QED
  BY <1>2, <1>3, <1>4, PTL DEF TriageSpec

HIDE TriageAssumption

-----------------------------------------------------------------------------
(* The drafting of contracts. *)

USE DraftAssumption

\* The processes that know a contract is drafted: what each may draft, it has.
Knowing(c) ==
    {d \in Drafters : c \in memory[d] \/ drafter[d] = [pc |-> "posted", of |-> c]}

DraftInv ==
    /\ \A d \in Drafters : drafter[d].pc = "running" => drafter[d].of \notin memory[d]
    /\ \A c \in Drafts : drafted[c] <= Cardinality(Knowing(c)) + lapses[c]

\* What a process knows to be drafted is in the file, or was lost from it.
FileKeeps == \A d \in Drafters : memory[d] \subseteq stateFile \cup unsaved

\* How the number of those who know follows the set of them.
LEMMA KnowingCounts ==
    ASSUME NEW S \in SUBSET Drafters, NEW T \in SUBSET Drafters
    PROVE  /\ Cardinality(S) \in Nat /\ Cardinality(T) \in Nat
           /\ S \subseteq T => Cardinality(S) <= Cardinality(T)
           /\ \A d \in T : d \notin S /\ S \subseteq T => Cardinality(S) + 1 <= Cardinality(T)
           /\ \A d : S \subseteq T \cup {d} => Cardinality(S) <= Cardinality(T) + 1
<1>1. IsFiniteSet(S) /\ IsFiniteSet(T)
  BY FS_Subset
<1>2. Cardinality(S) \in Nat /\ Cardinality(T) \in Nat
  BY <1>1, FS_CardinalityType
<1>3. S \subseteq T => Cardinality(S) <= Cardinality(T)
  BY <1>1, FS_Subset
<1>4. ASSUME NEW d \in T, d \notin S, S \subseteq T
      PROVE  Cardinality(S) + 1 <= Cardinality(T)
  <2>1. PICK more : more = S \cup {d} /\ Cardinality(more) = Cardinality(S) + 1
    BY <1>1, <1>4, FS_AddElement
  <2>2. more \subseteq T
    BY <1>4, <2>1
  <2> QED
    BY <1>1, <2>1, <2>2, FS_Subset
<1>5. ASSUME NEW d, S \subseteq T \cup {d}
      PROVE  Cardinality(S) <= Cardinality(T) + 1
  <2>1. PICK more : /\ more = T \cup {d} /\ IsFiniteSet(more)
                    /\ Cardinality(more) \in {Cardinality(T), Cardinality(T) + 1}
    <3>1. CASE d \in T
      <4>1. T \cup {d} = T
        BY <3>1
      <4> QED
        BY <1>1, <4>1
    <3>2. CASE d \notin T
      BY <3>2, <1>1, FS_AddElement
    <3> QED
      BY <3>1, <3>2
  <2>2. Cardinality(S) <= Cardinality(more)
    BY <1>5, <2>1, FS_Subset
  <2> QED
    BY <1>2, <2>1, <2>2
<1> QED
  BY <1>2, <1>3, <1>4, <1>5

\* No process has drafted anything at the start.
LEMMA DraftStarts == DraftInit => DraftTypeOK /\ DraftInv /\ FileKeeps
<1> SUFFICES ASSUME DraftInit
             PROVE  DraftTypeOK /\ DraftInv /\ FileKeeps
  OBVIOUS
<1>1. DraftTypeOK
  BY DEF DraftInit, DraftTypeOK
<1>2. ASSUME NEW c \in Drafts
      PROVE  drafted[c] <= Cardinality(Knowing(c)) + lapses[c]
  <2>1. Knowing(c) \in SUBSET Drafters
    BY DEF Knowing
  <2>2. Cardinality(Knowing(c)) \in Nat
    BY <2>1, KnowingCounts
  <2> QED
    BY <2>2 DEF DraftInit
<1>3. \A d \in Drafters : drafter[d].pc # "running"
  BY DEF DraftInit, Resting
<1> QED
  BY <1>1, <1>2, <1>3 DEF DraftInv, FileKeeps, DraftInit

\* Where a process goes.
LEMMA DrafterMoves ==
    ASSUME DraftTypeOK, NEW d \in Drafters
    PROVE  /\ drafter[d] = Resting \/ drafter[d] \in [pc : {"running", "posted"}, of : Drafts]
           /\ drafter[d].pc = "running" => /\ drafter[d].of \in Drafts
                                           /\ drafter[d] = [pc |-> "running", of |-> drafter[d].of]
           /\ drafter[d].pc = "posted"  => /\ drafter[d].of \in Drafts
                                           /\ drafter[d] = [pc |-> "posted", of |-> drafter[d].of]
           /\ PostDraft(d) =>
                drafter' = [drafter EXCEPT ![d] = [pc |-> "posted", of |-> drafter[d].of]]
<1>1. drafter[d] = Resting \/ drafter[d] \in [pc : {"running", "posted"}, of : Drafts]
  BY DEF DraftTypeOK
<1>2. Resting.pc = "idle"
  BY DEF Resting
<1>3. ASSUME drafter[d].pc \in {"running", "posted"}
      PROVE  /\ drafter[d].of \in Drafts
             /\ drafter[d] = [pc |-> drafter[d].pc, of |-> drafter[d].of]
             /\ [drafter[d] EXCEPT !.pc = "posted"] = [pc |-> "posted", of |-> drafter[d].of]
  <2>1. drafter[d] \in [pc : {"running", "posted"}, of : Drafts]
    BY <1>1, <1>2, <1>3
  <2> QED
    BY <2>1
<1>4. PostDraft(d) => drafter' = [drafter EXCEPT ![d] = [drafter[d] EXCEPT !.pc = "posted"]]
  BY DEF PostDraft
<1>5. PostDraft(d) => drafter[d].pc = "running"
  BY DEF PostDraft
<1>6. PostDraft(d) => drafter' = [drafter EXCEPT ![d] = [pc |-> "posted", of |-> drafter[d].of]]
  BY <1>3, <1>4, <1>5
<1> QED
  BY <1>1, <1>3, <1>6

\* No step of a drafting process leaves the types.
LEMMA DraftTypedStep ==
    ASSUME DraftTypeOK, [DraftNext]_draftVars
    PROVE  DraftTypeOK'
<1>1. ASSUME NEW c \in Drafts,
             CreateDraft(c) \/ CancelDraft(c) \/ RequestDraft(c) \/ ApproveDraft(c) \/ RejectDraft(c)
      PROVE  DraftTypeOK'
  <2>1. /\ row' \in [Drafts -> [status : {"absent", "drafting", "drafted", "failed"},
                                approved : BOOLEAN]]
    <3>1. row[c] \in [status : {"absent", "drafting", "drafted", "failed"}, approved : BOOLEAN]
      BY DEF DraftTypeOK
    <3>2. \A s \in {"drafting", "failed"} :
             [row[c] EXCEPT !.status = s]
                 \in [status : {"absent", "drafting", "drafted", "failed"}, approved : BOOLEAN]
      BY <3>1
    <3>3. PICK new : /\ new \in [status : {"absent", "drafting", "drafted", "failed"}, approved : BOOLEAN]
                     /\ row' = [row EXCEPT ![c] = new] \/ row' = row
      BY <1>1, <3>1, <3>2 DEF CreateDraft, CancelDraft, RequestDraft, ApproveDraft, RejectDraft
    <3> QED
      BY <3>3 DEF DraftTypeOK
  <2>2. marked' \subseteq Drafts
    BY <1>1 DEF DraftTypeOK, CreateDraft, CancelDraft, RequestDraft, ApproveDraft, RejectDraft
  <2>3. awaiting' \in [Drafts -> Nat]
    BY <1>1 DEF DraftTypeOK, CreateDraft, CancelDraft, RequestDraft, ApproveDraft, RejectDraft
  <2>4. UNCHANGED <<stateFile, memory, drafter, drafted, unsaved, lapses>>
    BY <1>1 DEF CreateDraft, CancelDraft, RequestDraft, ApproveDraft, RejectDraft
  <2> QED
    BY <2>1, <2>2, <2>3, <2>4 DEF DraftTypeOK
<1>2. ASSUME NEW d \in Drafters, NEW c \in Drafts,
             ForgetMarker(d, c) \/ AlreadyDrafted(d, c) \/ TakeDraft(d, c)
      PROVE  DraftTypeOK'
  <2>1. [pc |-> "running", of |-> c] \in [pc : {"running", "posted"}, of : Drafts]
    OBVIOUS
  <2>2. CASE ForgetMarker(d, c)
    BY <2>2 DEF ForgetMarker, DraftTypeOK
  <2>3. CASE AlreadyDrafted(d, c)
    BY <2>3 DEF AlreadyDrafted, Remember, KeepTrack, DraftTypeOK
  <2>4. CASE TakeDraft(d, c)
    BY <2>1, <2>4 DEF TakeDraft, DraftTypeOK
  <2> QED
    BY <1>2, <2>2, <2>3, <2>4
<1>3. ASSUME NEW d \in Drafters, PostDraft(d)
      PROVE  DraftTypeOK'
  <2>1. drafter[d].pc = "running" /\ drafter[d].of \in Drafts
    BY <1>3, DrafterMoves DEF PostDraft
  <2>2. drafter' = [drafter EXCEPT ![d] = [pc |-> "posted", of |-> drafter[d].of]]
    BY <1>3, DrafterMoves
  <2>3. PICK c \in Drafts : c = drafter[d].of
    BY <2>1
  <2>4. drafter' \in [Drafters -> {Resting} \cup [pc : {"running", "posted"}, of : Drafts]]
    <3>1. [pc |-> "posted", of |-> c] \in [pc : {"running", "posted"}, of : Drafts]
      OBVIOUS
    <3> QED
      BY <2>2, <2>3, <3>1 DEF DraftTypeOK
  <2>5. drafted' \in [Drafts -> Nat] /\ awaiting' \in [Drafts -> Nat]
    BY <1>3, <2>3 DEF PostDraft, FileItem, DraftTypeOK
  <2> QED
    BY <1>3, <2>4, <2>5 DEF PostDraft, DraftTypeOK
<1>4. ASSUME NEW d \in Drafters, DraftFails(d)
      PROVE  DraftTypeOK'
  <2>1. drafter[d].of \in Drafts
    BY <1>4, DrafterMoves DEF DraftFails
  <2>2. PICK c \in Drafts : c = drafter[d].of
    BY <2>1
  <2>3. lapses' \in [Drafts -> Nat]
    BY <1>4, <2>2 DEF DraftFails, Lapse, DraftTypeOK
  <2>4. drafted' \in [Drafts -> Nat] /\ awaiting' \in [Drafts -> Nat]
    BY <1>4, <2>2 DEF DraftFails, FileItem, DraftTypeOK
  <2>5. stateFile' \subseteq Drafts /\ unsaved' \subseteq Drafts
    BY <1>4 DEF DraftFails, KeepTrack, DraftTypeOK
  <2>6. drafter' \in [Drafters -> {Resting} \cup [pc : {"running", "posted"}, of : Drafts]]
        /\ UNCHANGED <<row, marked, memory>>
    BY <1>4 DEF DraftFails, DraftTypeOK
  <2> QED
    BY <2>3, <2>4, <2>5, <2>6 DEF DraftTypeOK
<1>5. ASSUME NEW d \in Drafters, RecordDraft(d)
      PROVE  DraftTypeOK'
  <2>1. drafter[d].of \in Drafts
    BY <1>5, DrafterMoves DEF RecordDraft
  <2> QED
    BY <1>5, <2>1 DEF RecordDraft, Remember, KeepTrack, DraftTypeOK
<1>6. ASSUME NEW d \in Drafters, SaveFails(d)
      PROVE  DraftTypeOK'
  <2>1. drafter[d].of \in Drafts
    BY <1>6, DrafterMoves DEF SaveFails
  <2> QED
    BY <1>6, <2>1 DEF SaveFails, DraftTypeOK
<1>7. ASSUME NEW d \in Drafters, DrafterRestarts(d)
      PROVE  DraftTypeOK'
  BY <1>7 DEF DrafterRestarts, Lapse, DraftTypeOK
<1>8. CASE UNCHANGED draftVars
  BY <1>8 DEF draftVars, DraftTypeOK
<1> QED
  BY <1>1, <1>2, <1>3, <1>4, <1>5, <1>6, <1>7, <1>8 DEF DraftNext, DrafterWorks

\* What leaves the file is noted, and a restart knows what the file holds.
LEMMA FileKeepsStep ==
    ASSUME DraftTypeOK, FileKeeps, [DraftNext]_draftVars
    PROVE  FileKeeps'
<1>1. DOMAIN memory = Drafters
  BY DEF DraftTypeOK
<1>2. ASSUME UNCHANGED <<memory, stateFile, unsaved>>
      PROVE  FileKeeps'
  BY <1>2 DEF FileKeeps
<1>3. ASSUME NEW d \in Drafters, NEW c, Remember(d, c), KeepTrack
      PROVE  FileKeeps'
  BY <1>1, <1>3 DEF FileKeeps, Remember, KeepTrack
<1>4. ASSUME NEW c \in Drafts,
             CreateDraft(c) \/ CancelDraft(c) \/ RequestDraft(c) \/ ApproveDraft(c) \/ RejectDraft(c)
      PROVE  FileKeeps'
  BY <1>2, <1>4 DEF CreateDraft, CancelDraft, RequestDraft, ApproveDraft, RejectDraft
<1>5. ASSUME NEW d \in Drafters, DrafterWorks(d)
      PROVE  FileKeeps'
  <2>1. CASE \E c \in Drafts : ForgetMarker(d, c) \/ TakeDraft(d, c)
    BY <1>2, <2>1 DEF ForgetMarker, TakeDraft
  <2>2. CASE \E c \in Drafts : AlreadyDrafted(d, c)
    BY <1>3, <2>2 DEF AlreadyDrafted
  <2>3. CASE PostDraft(d)
    BY <1>2, <2>3 DEF PostDraft
  <2>4. CASE RecordDraft(d)
    BY <1>3, <2>4 DEF RecordDraft
  <2> QED
    BY <1>5, <2>1, <2>2, <2>3, <2>4 DEF DrafterWorks
<1>6. ASSUME NEW d \in Drafters, DraftFails(d)
      PROVE  FileKeeps'
  BY <1>6 DEF FileKeeps, DraftFails, KeepTrack
<1>7. ASSUME NEW d \in Drafters, SaveFails(d)
      PROVE  FileKeeps'
  BY <1>1, <1>7 DEF FileKeeps, SaveFails
<1>8. ASSUME NEW d \in Drafters, DrafterRestarts(d)
      PROVE  FileKeeps'
  BY <1>1, <1>8 DEF FileKeeps, DrafterRestarts
<1> QED
  BY <1>2, <1>4, <1>5, <1>6, <1>7, <1>8 DEF DraftNext, draftVars

\* A post makes one process more know of the draft, unless its answer is lost; a process
\* that restarts forgets only what the file does not hold.
LEMMA DraftInvStep ==
    ASSUME DraftTypeOK, DraftTypeOK', DraftInv, FileKeeps, [DraftNext]_draftVars
    PROVE  DraftInv'
<1>1. /\ \A c \in Drafts : Knowing(c) \in SUBSET Drafters /\ Knowing(c)' \in SUBSET Drafters
      /\ \A c \in Drafts : /\ lapses[c] \in Nat /\ lapses'[c] \in Nat
                          /\ drafted[c] \in Nat /\ drafted'[c] \in Nat
  BY DEF Knowing, DraftTypeOK
<1>2. ASSUME \A c \in Drafts : Knowing(c) \subseteq Knowing(c)' /\ drafted'[c] = drafted[c],
             lapses' = lapses
      PROVE  \A c \in Drafts : drafted'[c] <= Cardinality(Knowing(c)') + lapses'[c]
  <2> SUFFICES ASSUME NEW c \in Drafts
               PROVE  drafted'[c] <= Cardinality(Knowing(c)') + lapses'[c]
    OBVIOUS
  <2>1. PICK old, new : old = Knowing(c) /\ new = Knowing(c)'
    OBVIOUS
  <2>2. Cardinality(old) <= Cardinality(new) /\ Cardinality(old) \in Nat /\ Cardinality(new) \in Nat
    BY <1>1, <1>2, <2>1, KnowingCounts
  <2>3. drafted[c] <= Cardinality(old) + lapses[c]
    BY <2>1 DEF DraftInv
  <2> QED
    BY <1>1, <1>2, <2>1, <2>2, <2>3
<1>3. ASSUME NEW c \in Drafts,
             CreateDraft(c) \/ CancelDraft(c) \/ RequestDraft(c) \/ ApproveDraft(c) \/ RejectDraft(c)
      PROVE  DraftInv'
  <2>1. UNCHANGED <<memory, drafter, drafted, lapses>>
    BY <1>3 DEF CreateDraft, CancelDraft, RequestDraft, ApproveDraft, RejectDraft
  <2> QED
    BY <2>1 DEF DraftInv, Knowing
<1>4. ASSUME NEW d \in Drafters, NEW c \in Drafts,
             ForgetMarker(d, c) \/ AlreadyDrafted(d, c) \/ TakeDraft(d, c)
      PROVE  DraftInv'
  <2>1. CASE ForgetMarker(d, c)
    <3>1. UNCHANGED <<memory, drafter, drafted, lapses>>
      BY <2>1 DEF ForgetMarker
    <3> QED
      BY <3>1 DEF DraftInv, Knowing
  <2>2. CASE AlreadyDrafted(d, c)
    <3>1. /\ drafter[d] = Resting /\ UNCHANGED <<drafter, drafted, lapses>>
          /\ memory' = [memory EXCEPT ![d] = memory[d] \cup {c}] /\ memory \in [Drafters -> SUBSET Drafts]
      BY <2>2 DEF AlreadyDrafted, Remember, DraftTypeOK
    <3>2. \A x \in Drafts : Knowing(x) \subseteq Knowing(x)'
      BY <3>1 DEF Knowing
    <3>3. \A x \in Drafters : drafter'[x].pc = "running" => drafter'[x].of \notin memory'[x]
      <4>1. drafter[d].pc # "running"
        BY <3>1 DEF Resting
      <4> QED
        BY <3>1, <4>1 DEF DraftInv
    <3> QED
      BY <3>1, <3>2, <3>3, <1>1, <1>2 DEF DraftInv
  <2>3. CASE TakeDraft(d, c)
    <3>1. /\ drafter[d] = Resting /\ UNCHANGED <<memory, drafted, lapses>>
          /\ drafter' = [drafter EXCEPT ![d] = [pc |-> "running", of |-> c]]
          /\ c \notin memory[d] /\ DOMAIN drafter = Drafters
      BY <2>3 DEF TakeDraft, DraftTypeOK
    <3>2. \A x \in Drafts : drafter[d] # [pc |-> "posted", of |-> x]
      BY <3>1 DEF Resting
    <3>3. \A x \in Drafts : Knowing(x) \subseteq Knowing(x)'
      BY <3>1, <3>2 DEF Knowing
    <3>4. \A x \in Drafters : drafter'[x].pc = "running" => drafter'[x].of \notin memory'[x]
      BY <3>1 DEF DraftInv
    <3> QED
      BY <3>1, <3>3, <3>4, <1>1, <1>2 DEF DraftInv
  <2> QED
    BY <1>4, <2>1, <2>2, <2>3
<1>5. ASSUME NEW d \in Drafters, PostDraft(d)
      PROVE  DraftInv'
  <2> DEFINE c == drafter[d].of
  <2>1. /\ drafter[d].pc = "running" /\ c \in Drafts /\ drafter[d] = [pc |-> "running", of |-> c]
        /\ drafter' = [drafter EXCEPT ![d] = [pc |-> "posted", of |-> c]]
        /\ DOMAIN drafter = Drafters /\ DOMAIN drafted = Drafts
        /\ drafted' = [drafted EXCEPT ![c] = @ + 1] /\ UNCHANGED <<memory, lapses>>
    BY <1>5, DrafterMoves DEF PostDraft, FileItem, DraftTypeOK
  <2>2. c \notin memory[d]
    BY <2>1 DEF DraftInv
  <2> HIDE DEF c
  <2>3. PICK k : k = c
    OBVIOUS
  <2>4. \A x \in Drafts : Knowing(x) \subseteq Knowing(x)'
    BY <2>1 DEF Knowing
  <2>5. k \in Drafts /\ d \notin Knowing(k) /\ d \in Knowing(k)'
    BY <2>1, <2>2, <2>3 DEF Knowing
  <2>6. ASSUME NEW x \in Drafts
        PROVE  drafted'[x] <= Cardinality(Knowing(x)') + lapses'[x]
    <3>1. PICK old, new : old = Knowing(x) /\ new = Knowing(x)'
      OBVIOUS
    <3>2. /\ Cardinality(old) <= Cardinality(new) /\ Cardinality(old) \in Nat
          /\ Cardinality(new) \in Nat
          /\ x = k => Cardinality(old) + 1 <= Cardinality(new)
      BY <1>1, <2>4, <2>5, <3>1, KnowingCounts
    <3>3. drafted[x] <= Cardinality(old) + lapses[x]
      BY <3>1 DEF DraftInv
    <3>4. drafted'[x] = IF x = k THEN drafted[x] + 1 ELSE drafted[x]
      BY <2>1, <2>3
    <3> QED
      BY <1>1, <2>1, <3>1, <3>2, <3>3, <3>4
  <2>7. \A x \in Drafters : drafter'[x].pc = "running" => drafter'[x].of \notin memory'[x]
    BY <2>1 DEF DraftInv
  <2> QED
    BY <2>6, <2>7 DEF DraftInv
<1>6. ASSUME NEW d \in Drafters, DraftFails(d)
      PROVE  DraftInv'
  <2>1. /\ drafter[d].pc = "running" /\ drafter' = [drafter EXCEPT ![d] = Resting]
        /\ DOMAIN drafter = Drafters /\ memory' = memory
    BY <1>6 DEF DraftFails, DraftTypeOK
  <2>2. \A x \in Drafts : \/ drafted'[x] = drafted[x] /\ lapses'[x] = lapses[x]
                          \/ drafted'[x] = drafted[x] + 1 /\ lapses'[x] = lapses[x] + 1
    BY <1>6, <1>1 DEF DraftFails, FileItem, Lapse, DraftTypeOK
  <2>3. \A x \in Drafts : Knowing(x) \subseteq Knowing(x)'
    BY <2>1 DEF Knowing
  <2>4. ASSUME NEW x \in Drafts
        PROVE  drafted'[x] <= Cardinality(Knowing(x)') + lapses'[x]
    <3>1. PICK old, new : old = Knowing(x) /\ new = Knowing(x)'
      OBVIOUS
    <3>2. Cardinality(old) <= Cardinality(new) /\ Cardinality(old) \in Nat /\ Cardinality(new) \in Nat
      BY <1>1, <2>3, <3>1, KnowingCounts
    <3>3. drafted[x] <= Cardinality(old) + lapses[x]
      BY <3>1 DEF DraftInv
    <3> QED
      BY <1>1, <2>1, <2>2, <3>1, <3>2, <3>3
  <2>5. \A x \in Drafters : drafter'[x].pc = "running" => drafter'[x].of \notin memory'[x]
    BY <2>1 DEF DraftInv, Resting
  <2> QED
    BY <2>4, <2>5 DEF DraftInv
<1>7. ASSUME NEW d \in Drafters, RecordDraft(d) \/ SaveFails(d)
      PROVE  DraftInv'
  <2> DEFINE c == drafter[d].of
  <2>1. /\ drafter[d].pc = "posted" /\ drafter' = [drafter EXCEPT ![d] = Resting]
        /\ DOMAIN drafter = Drafters /\ drafted' = drafted /\ lapses' = lapses
        /\ memory' = [memory EXCEPT ![d] = memory[d] \cup {c}] /\ DOMAIN memory = Drafters
    BY <1>7 DEF RecordDraft, Remember, SaveFails, DraftTypeOK
  <2>2. drafter[d] = [pc |-> "posted", of |-> c]
    BY <2>1, DrafterMoves
  <2>3. \A x \in Drafts : drafter[d] = [pc |-> "posted", of |-> x] => x = c
    BY <2>2
  <2> HIDE DEF c
  <2>4. \A x \in Drafts : Knowing(x) \subseteq Knowing(x)'
    BY <2>1, <2>3 DEF Knowing
  <2>5. \A x \in Drafters : drafter'[x].pc = "running" => drafter'[x].of \notin memory'[x]
    BY <2>1 DEF DraftInv, Resting
  <2> QED
    BY <2>1, <2>4, <2>5, <1>1, <1>2 DEF DraftInv
<1>8. ASSUME NEW d \in Drafters, DrafterRestarts(d)
      PROVE  DraftInv'
  <2>1. /\ drafter' = [drafter EXCEPT ![d] = Resting] /\ memory' = [memory EXCEPT ![d] = stateFile]
        /\ DOMAIN drafter = Drafters /\ DOMAIN memory = Drafters /\ drafted' = drafted
        /\ lapses' = [c \in Drafts |-> IF c \in Forgets(d) THEN lapses[c] + 1 ELSE lapses[c]]
    BY <1>8 DEF DrafterRestarts, Lapse, DraftTypeOK
  <2>2. \A x \in Drafts : Knowing(x) \subseteq Knowing(x)' \cup {d}
    BY <2>1 DEF Knowing
  <2>3. ASSUME NEW x \in Drafts, x \notin Forgets(d)
        PROVE  Knowing(x) \subseteq Knowing(x)'
    <3>1. d \in Knowing(x) => x \in stateFile
      BY <2>3 DEF Knowing, Forgets, FileKeeps
    <3> QED
      BY <2>1, <3>1 DEF Knowing
  <2>4. ASSUME NEW x \in Drafts
        PROVE  drafted'[x] <= Cardinality(Knowing(x)') + lapses'[x]
    <3>1. PICK old, new : old = Knowing(x) /\ new = Knowing(x)'
      OBVIOUS
    <3>2. /\ Cardinality(old) <= Cardinality(new) + 1
          /\ x \notin Forgets(d) => Cardinality(old) <= Cardinality(new)
          /\ Cardinality(old) \in Nat /\ Cardinality(new) \in Nat
      BY <1>1, <2>2, <2>3, <3>1, KnowingCounts
    <3>3. drafted[x] <= Cardinality(old) + lapses[x]
      BY <3>1 DEF DraftInv
    <3>4. lapses'[x] = IF x \in Forgets(d) THEN lapses[x] + 1 ELSE lapses[x]
      BY <2>1
    <3> QED
      BY <1>1, <2>1, <3>1, <3>2, <3>3, <3>4
  <2>5. \A x \in Drafters : drafter'[x].pc = "running" => drafter'[x].of \notin memory'[x]
    BY <2>1 DEF DraftInv, Resting
  <2> QED
    BY <2>4, <2>5 DEF DraftInv
<1>9. CASE UNCHANGED draftVars
  BY <1>9 DEF draftVars, DraftInv, Knowing
<1> QED
  BY <1>3, <1>4, <1>5, <1>6, <1>7, <1>8, <1>9 DEF DraftNext, DrafterWorks

\* A contract is drafted once by each process, and once more only for a draft lost sight
\* of: a lost answer, a stop between post and save, or a restart from a file that lost it.
THEOREM DraftsAreAccountedForProved == DraftSpec => []DraftsAreAccountedFor
<1>1. DraftTypeOK /\ DraftInv => DraftsAreAccountedFor
  <2> SUFFICES ASSUME DraftTypeOK, DraftInv, NEW c \in Drafts
               PROVE  drafted[c] <= Cardinality(Drafters) + lapses[c]
    BY DEF DraftsAreAccountedFor
  <2>1. PICK knowing : knowing = Knowing(c) /\ knowing \in SUBSET Drafters
    BY DEF Knowing
  <2>2. Cardinality(knowing) <= Cardinality(Drafters) /\ Cardinality(knowing) \in Nat
        /\ Cardinality(Drafters) \in Nat
    BY <2>1, KnowingCounts
  <2>3. drafted[c] <= Cardinality(knowing) + lapses[c]
    BY <2>1 DEF DraftInv
  <2> QED
    BY <2>2, <2>3 DEF DraftTypeOK
<1>2. DraftTypeOK /\ DraftInv /\ FileKeeps /\ [DraftNext]_draftVars
        => (DraftTypeOK /\ DraftInv /\ FileKeeps)'
  BY DraftTypedStep, DraftInvStep, FileKeepsStep
<1> QED
  BY <1>1, <1>2, DraftStarts, PTL DEF DraftSpec

HIDE DraftAssumption

-----------------------------------------------------------------------------
(* Uploads. *)

USE UploadsAssumption

Item == [stage : Stages, basis : 0 .. MaxItems, state : {"open", "executed", "rejected"}]

UploadsTyped == UploadsTypeOK /\ items \in Seq(Item)

\* A stamp is the number of an approved item of its stage.
StampsExecuted == \A s \in Stages : upload.stamp[s] = 0 \/ upload.stamp[s] \in Executed(s)

\* Only a stamped estimate has the status its second daemon polls for.
EstimatingIsStamped ==
    kind = "estimate" /\ upload.status = "estimating" => upload.stamp[1] # 0

\* What the second agent works from, or has worked from, was approved, and the upload
\* was stamped before it began.
Rests(basis) == basis \in Executed(1) /\ upload.stamp[1] # 0

SecondRests ==
    /\ \A i \in DOMAIN items : items[i].stage = 2 => Rests(items[i].basis)
    /\ job[2].pc = "ready" => Rests(job[2].basis)

\* Without a fault the first agent's item is posted once, and recorded.
PostedOnce ==
    failures = 0 =>
        /\ \A i, j \in DOMAIN items : items[i].stage = 1 /\ items[j].stage = 1 => i = j
        /\ (\E i \in DOMAIN items : items[i].stage = 1)
               => \/ job[1].pc = "posted"
                  \/ job[1].row = "done" /\ job[1].pc = "idle"

UploadsInv == StampsExecuted /\ EstimatingIsStamped /\ SecondRests /\ PostedOnce
\* An upload begins without items, stamps and claims.
LEMMA UploadsStart == UploadsInit => UploadsTyped /\ UploadsInv
<1> SUFFICES ASSUME UploadsInit
             PROVE  UploadsTyped /\ UploadsInv
  OBVIOUS
<1>1. /\ items = <<>> /\ items \in Seq(Item) /\ Len(items) = 0 /\ DOMAIN items = {}
      /\ failures = 0 /\ kind \in {"contract", "estimate"}
      /\ upload = [status |-> IF kind = "contract" THEN "uploaded" ELSE "queued",
                   text |-> "pending", stamp |-> [s \in Stages |-> 0]]
      /\ job = [s \in Stages |-> Idle]
  BY EmptySeq DEF UploadsInit
<1>2. upload.stamp = [s \in Stages |-> 0] /\ upload.status \in {"uploaded", "queued"}
  BY <1>1
<1>3. \A s \in Stages : job[s].pc = "idle"
  BY <1>1 DEF Idle
<1>4. UploadsTypeOK
  <2>1. Idle \in [row : {"none", "claimed", "error", "done"},
                  pc : {"idle", "claimed", "ready", "posted", "failed"}, basis : 0 .. MaxItems]
    BY DEF Idle
  <2>2. [s \in Stages |-> 0] \in [Stages -> 0 .. MaxItems]
    OBVIOUS
  <2>3. upload \in [status : {"uploaded", "queued", "extracting", "extracted", "failed",
                              "classifying", "estimating", "reviewed", "done"},
                    text : {"pending", "ok", "failed"}, stamp : [Stages -> 0 .. MaxItems]]
    BY <1>1, <2>2
  <2>4. task = "scheduled" /\ marker \in [Stages -> BOOLEAN]
    BY DEF UploadsInit
  <2> QED
    BY <1>1, <2>1, <2>3, <2>4 DEF UploadsTypeOK
<1>5. UploadsInv
  BY <1>1, <1>2, <1>3 DEF UploadsInv, StampsExecuted, EstimatingIsStamped, SecondRests, PostedOnce,
                          Stages
<1> QED
  BY <1>1, <1>4, <1>5 DEF UploadsTyped

-----------------------------------------------------------------------------
(* What a step does to the daemons, to the upload and to the items. *)

JobRec == [row : {"none", "claimed", "error", "done"},
           pc : {"idle", "claimed", "ready", "posted", "failed"}, basis : 0 .. MaxItems]

UploadRec == [status : {"uploaded", "queued", "extracting", "extracted", "failed",
                        "classifying", "estimating", "reviewed", "done"},
              text : {"pending", "ok", "failed"}, stamp : [Stages -> 0 .. MaxItems]]

\* The daemon of a stage is in new, the other one where it was.
JobGoes(s, pc, new) ==
    /\ job' \in [Stages -> JobRec] /\ job'[s] = new /\ new.pc = pc
    /\ \A r \in Stages \ {s} : job'[r] = job[r]

\* A change of one claim is a move of its daemon, the other claim stays.
LEMMA JobChanges ==
    ASSUME UploadsTyped, NEW s \in Stages, NEW new \in JobRec, job' = [job EXCEPT ![s] = new]
    PROVE  JobGoes(s, new.pc, new)
BY DEF JobGoes, UploadsTyped, UploadsTypeOK, JobRec

\* Where the steps of a daemon lead.
LEMMA JobSteps ==
    ASSUME UploadsTyped, NEW s \in Stages
    PROVE  /\ Claim(s) => \E new \in JobRec : JobGoes(s, "claimed", new)
           /\ Done(s) => \E new \in JobRec : JobGoes(s, "idle", new) /\ new.row = "done"
           /\ NotReady(s) => \E new \in JobRec : JobGoes(s, "idle", new)
           /\ FetchFailed(s) => \E new \in JobRec : JobGoes(s, "idle", new)
           /\ RecordFailed(s) => \E new \in JobRec : JobGoes(s, "idle", new)
           /\ DaemonDies(s) => \E new \in JobRec : JobGoes(s, "idle", new)
           /\ Take(s) => \E new \in JobRec : /\ JobGoes(s, IF upload.text = "ok" THEN "ready"
                                                                              ELSE "failed", new)
                                             /\ new.basis = upload.stamp[1]
           /\ Post(s) => \E new \in JobRec : JobGoes(s, "posted", new)
           /\ RunFails(s) => \E new \in JobRec : JobGoes(s, "failed", new)
<1>1. /\ job[s] \in JobRec /\ job \in [Stages -> JobRec] /\ Idle \in JobRec
      /\ upload.stamp[1] \in 0 .. MaxItems
  <2>1. job \in [Stages -> JobRec] /\ upload \in UploadRec /\ 1 \in Stages
    BY DEF UploadsTyped, UploadsTypeOK, JobRec, UploadRec, Stages
  <2>2. Idle \in JobRec
    BY DEF Idle, JobRec
  <2> QED
    BY <2>1, <2>2 DEF UploadRec
<1>2. ASSUME Claim(s)
      PROVE  \E new \in JobRec : JobGoes(s, "claimed", new)
  <2>1. PICK status \in {"claimed", "done"}, pc \in {"claimed", "idle"} :
            status = "claimed" /\ pc = "claimed"
    OBVIOUS
  <2>2. PICK new : new = [Idle EXCEPT !.row = status, !.pc = pc]
    OBVIOUS
  <2>3. new \in JobRec /\ new.pc = pc
    BY <1>1, <2>2 DEF JobRec
  <2>4. job' = [job EXCEPT ![s] = new]
    BY <1>2, <2>1, <2>2 DEF Claim
  <2> QED
    BY <2>1, <2>3, <2>4, JobChanges
<1>3. ASSUME Done(s)
      PROVE  \E new \in JobRec : JobGoes(s, "idle", new) /\ new.row = "done"
  <2> DEFINE new == [Idle EXCEPT !.row = "done"]
  <2>1. new \in JobRec /\ new.pc = "idle" /\ new.row = "done"
    BY DEF JobRec, Idle
  <2>2. job' = [job EXCEPT ![s] = new]
    BY <1>3 DEF Done
  <2> HIDE DEF new
  <2> QED
    BY <2>1, <2>2, JobChanges
<1>4. ASSUME NotReady(s) \/ FetchFailed(s)
      PROVE  \E new \in JobRec : JobGoes(s, "idle", new)
  <2>1. job' = [job EXCEPT ![s] = Idle] /\ Idle.pc = "idle"
    BY <1>4 DEF NotReady, FetchFailed, Idle
  <2> QED
    BY <1>1, <2>1, JobChanges
<1>5. ASSUME RecordFailed(s) \/ DaemonDies(s)
      PROVE  \E new \in JobRec : JobGoes(s, "idle", new)
  <2>1. \A status \in {"error", "claimed"} :
           [Idle EXCEPT !.row = status] \in JobRec /\ [Idle EXCEPT !.row = status].pc = "idle"
    BY DEF JobRec, Idle
  <2>2. PICK status \in {"error", "claimed"} :
            job' = [job EXCEPT ![s] = [Idle EXCEPT !.row = status]]
    BY <1>5 DEF RecordFailed, DaemonDies
  <2>3. PICK new : new = [Idle EXCEPT !.row = status]
    OBVIOUS
  <2> QED
    BY <2>1, <2>2, <2>3, JobChanges
<1>6. ASSUME NEW pc \in {"ready", "posted", "failed"}
      PROVE  [job[s] EXCEPT !.pc = pc] \in JobRec /\ [job[s] EXCEPT !.pc = pc].pc = pc
  BY <1>1 DEF JobRec
<1>7. ASSUME Take(s)
      PROVE  \E new \in JobRec : /\ JobGoes(s, IF upload.text = "ok" THEN "ready" ELSE "failed", new)
                                 /\ new.basis = upload.stamp[1]
  <2>1. PICK pc \in {"ready", "posted", "failed"}, basis \in 0 .. MaxItems :
            pc = (IF upload.text = "ok" THEN "ready" ELSE "failed") /\ basis = upload.stamp[1]
    BY <1>1
  <2>2. job' = [job EXCEPT ![s] = [job[s] EXCEPT !.pc = pc, !.basis = basis]]
    BY <1>1, <1>7, <2>1 DEF Take
  <2>3. PICK new : new = [job[s] EXCEPT !.pc = pc, !.basis = basis]
    OBVIOUS
  <2>4. new \in JobRec /\ new.pc = pc /\ new.basis = basis
    BY <1>1, <2>3 DEF JobRec
  <2>5. job' = [job EXCEPT ![s] = new]
    BY <2>2, <2>3
  <2>6. JobGoes(s, new.pc, new)
    BY <2>4, <2>5, JobChanges
  <2> QED
    BY <2>1, <2>4, <2>6
<1>8. ASSUME NEW pc \in {"ready", "posted", "failed"}, job' = [job EXCEPT ![s].pc = pc]
      PROVE  \E new \in JobRec : JobGoes(s, pc, new)
  <2>1. PICK new : new = [job[s] EXCEPT !.pc = pc]
    OBVIOUS
  <2>2. job' = [job EXCEPT ![s] = new] /\ new \in JobRec /\ new.pc = pc
    BY <1>1, <1>6, <1>8, <2>1
  <2> QED
    BY <2>2, JobChanges
<1>9. /\ Post(s) => \E new \in JobRec : JobGoes(s, "posted", new)
      /\ RunFails(s) => \E new \in JobRec : JobGoes(s, "failed", new)
  BY <1>8 DEF Post, RunFails
<1> QED
  BY <1>2, <1>3, <1>4, <1>5, <1>7, <1>9

\* The rows of the upload as a step leaves them: only an approval stamps it.
LEMMA UploadChanges ==
    ASSUME UploadsTyped, [UploadsNext]_uploadVars
    PROVE  /\ upload' \in UploadRec /\ kind' = kind
           /\ \/ /\ upload'.stamp = upload.stamp
                 /\ upload'.status = "estimating" =>
                        upload.status = "estimating" \/ upload.stamp[1] # 0
              \/ \E i \in DOMAIN items :
                    /\ Approve(i) /\ upload'.status # "estimating"
                    /\ upload'.stamp = [upload.stamp EXCEPT ![items[i].stage] = i]
<1>1. upload \in UploadRec /\ upload.stamp \in [Stages -> 0 .. MaxItems]
  BY DEF UploadsTyped, UploadsTypeOK, UploadRec
<1>2. ASSUME NEW status \in {"uploaded", "queued", "extracting", "extracted", "failed", "estimating"},
             NEW new, new = [upload EXCEPT !.status = status]
      PROVE  new \in UploadRec /\ new.status = status /\ new.stamp = upload.stamp
  BY <1>1, <1>2 DEF UploadRec
<1>3. CASE TaskStarts \/ Cancel \/ StartUpload
  <2>1. PICK status \in {"extracting", "failed", "estimating"} :
            /\ upload' = [upload EXCEPT !.status = status] /\ kind' = kind
            /\ status = "estimating" => upload.stamp[1] # 0
    BY <1>3 DEF TaskStarts, Cancel, StartUpload
  <2>2. upload' \in UploadRec /\ upload'.status = status /\ upload'.stamp = upload.stamp
    BY <1>2, <2>1
  <2> QED
    BY <2>1, <2>2
<1>4. CASE TaskEnds
  <2>1. PICK status \in {"extracted", "queued", "failed"}, text \in {"ok", "failed"} :
            upload' = [upload EXCEPT !.text = text, !.status = status] /\ kind' = kind
    BY <1>4 DEF TaskEnds
  <2>2. upload' \in UploadRec /\ upload'.status = status /\ upload'.stamp = upload.stamp
    BY <1>1, <2>1 DEF UploadRec
  <2> QED
    BY <2>1, <2>2
<1>7. ASSUME NEW i \in DOMAIN items, Approve(i)
      PROVE  /\ upload' \in UploadRec /\ kind' = kind
             /\ upload'.status # "estimating"
             /\ upload'.stamp = [upload.stamp EXCEPT ![items[i].stage] = i]
  <2>1. PICK s \in Stages : s = items[i].stage
    BY DEF UploadsTyped, UploadsTypeOK
  <2>2. PICK status \in {"extracted", "reviewed", "classifying", "done"} :
            status = IF kind = "contract" THEN IF s = 1 THEN "extracted"  ELSE "reviewed"
                                          ELSE IF s = 1 THEN "classifying" ELSE "done"
    OBVIOUS
  <2>3. PICK stamp : stamp = [upload.stamp EXCEPT ![s] = i]
    OBVIOUS
  <2>4. upload' = [upload EXCEPT !.stamp = stamp, !.status = status]
    BY <1>1, <1>7, <2>1, <2>2, <2>3 DEF Approve
  <2>5. stamp \in [Stages -> 0 .. MaxItems]
    <3>1. i \in 0 .. MaxItems
      BY DEF UploadsTyped, UploadsTypeOK
    <3> QED
      BY <1>1, <2>3, <3>1
  <2>6. upload' \in UploadRec /\ upload'.status = status /\ upload'.stamp = stamp
    BY <1>1, <2>4, <2>5 DEF UploadRec
  <2> QED
    BY <1>7, <2>1, <2>2, <2>3, <2>6 DEF Approve
<1>8. \/ \E i \in DOMAIN items : Approve(i)
      \/ TaskStarts \/ TaskEnds \/ Cancel \/ StartUpload
      \/ UNCHANGED <<upload, kind>>
  BY DEF UploadsNext, Task, Tick, ApiRestarts, Request, Claim, DropMarker, AlreadyStamped, Done,
         NotReady, Take, Post, RecordDone, RecordFailed, FetchFailed, RunFails, DaemonDies,
         ApproveWithoutHook, Reject, uploadVars
<1> QED
  BY <1>1, <1>3, <1>4, <1>7, <1>8

\* The items as a step leaves them: one may be posted, open, and one decided.
ItemsKept ==
    \A j \in DOMAIN items :
        /\ j \in DOMAIN items'
        /\ items'[j].stage = items[j].stage /\ items'[j].basis = items[j].basis
        /\ items[j].state = "executed" => items'[j].state = "executed"

NewItem(s, j) ==
    /\ At(s, "ready") /\ (Post(s) \/ RunFails(s))
    /\ j \notin DOMAIN items /\ j \in DOMAIN items'
    /\ items'[j].stage = s /\ items'[j].basis = job[s].basis
    /\ \A k \in DOMAIN items' : k = j \/ k \in DOMAIN items

\* What a daemon posts is one new item of its stage, on the basis it works from.
LEMMA PostedItem ==
    ASSUME UploadsTyped, NEW s \in Stages, Posted(s), At(s, "ready"), Post(s) \/ RunFails(s)
    PROVE  /\ items' \in Seq(Item) /\ Len(items') <= MaxItems
           /\ ItemsKept /\ \E j \in DOMAIN items' : NewItem(s, j)
<1>1. /\ items \in Seq(Item) /\ Len(items) \in Nat /\ DOMAIN items = 1 .. Len(items)
      /\ job[s].basis \in 0 .. MaxItems
  BY DEF UploadsTyped, UploadsTypeOK
<1>2. PICK new : new = [stage |-> s, basis |-> job[s].basis, state |-> "open"]
  OBVIOUS
<1>3. new \in Item /\ new.stage = s /\ new.basis = job[s].basis
  BY <1>1, <1>2 DEF Item
<1>4. items' = Append(items, new) /\ Len(items) < MaxItems
  BY <1>2 DEF Posted
<1>5. /\ items' \in Seq(Item) /\ Len(items') = Len(items) + 1 /\ DOMAIN items' = 1 .. Len(items) + 1
      /\ items'[Len(items) + 1] = new
      /\ \A j \in 1 .. Len(items) : items'[j] = items[j]
  BY <1>1, <1>3, <1>4
<1>6. ItemsKept
  BY <1>1, <1>5 DEF ItemsKept
<1>7. NewItem(s, Len(items) + 1)
  <2>1. Len(items) + 1 \notin DOMAIN items /\ Len(items) + 1 \in DOMAIN items'
    BY <1>1, <1>5
  <2>2. \A k \in DOMAIN items' : k = Len(items) + 1 \/ k \in DOMAIN items
    BY <1>1, <1>5
  <2> QED
    BY <2>1, <2>2, <1>3, <1>5 DEF NewItem
<1>8. Len(items') <= MaxItems /\ Len(items) + 1 \in DOMAIN items'
  BY <1>1, <1>4, <1>5
<1> QED
  BY <1>5, <1>6, <1>7, <1>8

\* A decision changes the state of its item alone.
LEMMA DecidedItem ==
    ASSUME UploadsTyped, NEW i \in DOMAIN items, NEW state \in {"executed", "rejected"},
           Decide(i, state)
    PROVE  /\ items' \in Seq(Item) /\ Len(items') = Len(items) /\ DOMAIN items' = DOMAIN items
           /\ ItemsKept /\ items'[i].stage = items[i].stage /\ items'[i].state = state
<1>1. /\ items \in Seq(Item) /\ Len(items) \in Nat /\ DOMAIN items = 1 .. Len(items)
      /\ items[i] \in Item
  BY DEF UploadsTyped
<1>2. PICK new : new = [items[i] EXCEPT !.state = state]
  OBVIOUS
<1>3. /\ new \in Item /\ new.stage = items[i].stage /\ new.basis = items[i].basis
      /\ new.state = state
  BY <1>1, <1>2 DEF Item
<1>4. items' = [items EXCEPT ![i] = new] /\ items[i].state = "open"
  BY <1>2 DEF Decide
<1>5. /\ items' \in Seq(Item) /\ Len(items') = Len(items)
      /\ \A j \in 1 .. Len(items) : items'[j] = IF j = i THEN new ELSE items[j]
  BY <1>1, <1>3, <1>4, ExceptSeq
<1>6. DOMAIN items' = DOMAIN items
  BY <1>1, <1>4
<1>7. ItemsKept
  BY <1>1, <1>3, <1>4, <1>5, <1>6 DEF ItemsKept
<1> QED
  BY <1>1, <1>3, <1>5, <1>6, <1>7

\* What any step may do to the items: keep what is executed, add one of a daemon, decide one.
LEMMA ItemChanges ==
    ASSUME UploadsTyped, [UploadsNext]_uploadVars
    PROVE  /\ items' \in Seq(Item) /\ Len(items') <= MaxItems /\ ItemsKept
           /\ DOMAIN items' = DOMAIN items \/ \E s \in Stages, j \in DOMAIN items' : NewItem(s, j)
           /\ \A i \in DOMAIN items : Approve(i) =>
                 items'[i].state = "executed" /\ items'[i].stage = items[i].stage
<1>1. items \in Seq(Item) /\ Len(items) <= MaxItems
  BY DEF UploadsTyped, UploadsTypeOK
<1>2. ASSUME NEW i \in DOMAIN items, Approve(i) \/ ApproveWithoutHook(i) \/ Reject(i)
      PROVE  /\ items' \in Seq(Item) /\ Len(items') <= MaxItems /\ ItemsKept
             /\ DOMAIN items' = DOMAIN items
             /\ Approve(i) => items'[i].state = "executed" /\ items'[i].stage = items[i].stage
  <2>1. CASE Decide(i, "executed")
    BY <1>1, <2>1, DecidedItem
  <2>2. CASE Decide(i, "rejected") /\ ~ Approve(i)
    BY <1>1, <2>2, DecidedItem
  <2> QED
    BY <1>2, <2>1, <2>2 DEF Approve, ApproveWithoutHook, Reject
<1>3. ASSUME NEW s \in Stages, (Post(s) \/ RunFails(s)) /\ Posted(s) /\ At(s, "ready")
      PROVE  /\ items' \in Seq(Item) /\ Len(items') <= MaxItems /\ ItemsKept
             /\ \E j \in DOMAIN items' : NewItem(s, j)
  BY <1>3, PostedItem
<1>4. CASE items' = items
  BY <1>1, <1>2, <1>4 DEF ItemsKept
<1>5. \/ items' = items
      \/ \E i \in DOMAIN items : Approve(i) \/ ApproveWithoutHook(i) \/ Reject(i)
      \/ \E s \in Stages : (Post(s) \/ RunFails(s)) /\ Posted(s) /\ At(s, "ready")
  BY DEF UploadsNext, Task, TaskStarts, TaskEnds, Cancel, StartUpload, Tick, ApiRestarts, Request,
         Claim, DropMarker, AlreadyStamped, Done, NotReady, Take, Post, RecordDone, RecordFailed,
         FetchFailed, RunFails, DaemonDies, uploadVars
<1> QED
  BY <1>2, <1>3, <1>4, <1>5

\* No step of an upload leaves the types.
LEMMA UploadsTypedStep ==
    ASSUME UploadsTyped, [UploadsNext]_uploadVars
    PROVE  UploadsTyped'
<1>1. upload' \in UploadRec /\ kind' = kind
  BY UploadChanges
<1>2. items' \in Seq(Item) /\ Len(items') <= MaxItems
  BY ItemChanges
<1>3. \A i \in DOMAIN items' : items'[i].stage \in Stages /\ items'[i].basis \in 0 .. MaxItems
  <2>1. \A i \in DOMAIN items' : items'[i] \in Item
    BY <1>2
  <2> QED
    BY <2>1 DEF Item
<1>4. job' \in [Stages -> JobRec]
  <2>1. CASE \E s \in Stages : Claim(s) \/ Done(s) \/ NotReady(s) \/ FetchFailed(s) \/ RecordFailed(s)
                               \/ DaemonDies(s) \/ Take(s) \/ Post(s) \/ RunFails(s)
    BY <2>1, JobSteps DEF JobGoes
  <2>2. CASE job' = job
    BY <2>2 DEF UploadsTyped, UploadsTypeOK, JobRec
  <2>3. \/ \E s \in Stages : Claim(s) \/ Done(s) \/ NotReady(s) \/ FetchFailed(s) \/ RecordFailed(s)
                               \/ DaemonDies(s) \/ Take(s) \/ Post(s) \/ RunFails(s)
        \/ job' = job
    BY DEF UploadsNext, Task, TaskStarts, TaskEnds, Cancel, StartUpload, Tick, ApiRestarts, Request,
           DropMarker, AlreadyStamped, RecordDone, Approve, ApproveWithoutHook, Reject, uploadVars
  <2> QED
    BY <2>1, <2>2, <2>3
<1>5. task' \in {"scheduled", "reading", "over", "lost"}
  BY DEF UploadsTyped, UploadsTypeOK, UploadsNext, Task, TaskStarts, TaskEnds, Cancel, StartUpload,
         Tick, ApiRestarts, Request, Claim, DropMarker, AlreadyStamped, Done, NotReady, Take, Post,
         RecordDone, RecordFailed, FetchFailed, RunFails, DaemonDies, Approve, ApproveWithoutHook,
         Reject, uploadVars
<1>6. marker' \in [Stages -> BOOLEAN]
  <2>1. marker \in [Stages -> BOOLEAN]
    BY DEF UploadsTyped, UploadsTypeOK
  <2>2. \/ marker' = marker
        \/ \E s \in Stages, b \in BOOLEAN : marker' = [marker EXCEPT ![s] = b]
    BY DEF UploadsNext, Task, TaskStarts, TaskEnds, Cancel, StartUpload, Tick, ApiRestarts, Request,
           Claim, DropMarker, AlreadyStamped, Done, NotReady, Take, Post, RecordDone, RecordFailed,
           FetchFailed, RunFails, DaemonDies, Approve, ApproveWithoutHook, Reject, uploadVars
  <2> QED
    BY <2>1, <2>2
<1>7. failures' \in 0 .. MaxFaults
  <2>1. failures \in 0 .. MaxFaults
    BY DEF UploadsTyped, UploadsTypeOK
  <2>2. failures' = failures \/ Mishap
    BY DEF UploadsNext, Task, TaskStarts, TaskEnds, Cancel, StartUpload, Tick, ApiRestarts, Request,
           Claim, DropMarker, AlreadyStamped, Done, NotReady, Take, Post, RecordDone, RecordFailed,
           FetchFailed, RunFails, DaemonDies, Approve, ApproveWithoutHook, Reject, uploadVars
  <2> QED
    BY <2>1, <2>2 DEF Mishap
<1> QED
  BY <1>1, <1>2, <1>3, <1>4, <1>5, <1>6, <1>7
  DEF UploadsTyped, UploadsTypeOK, UploadRec, JobRec

-----------------------------------------------------------------------------
\* The four parts of the invariant.

\* While items are kept, those that are executed stay so.
LEMMA ExecutedKept ==
    ASSUME ItemsKept, NEW s
    PROVE  Executed(s) \subseteq Executed(s)'
BY DEF ItemsKept, Executed

\* A stamp stays the number of an executed item, and the second agent waits for a stamp.
LEMMA StampsStep ==
    ASSUME UploadsTyped, StampsExecuted, EstimatingIsStamped, [UploadsNext]_uploadVars
    PROVE  /\ StampsExecuted' /\ EstimatingIsStamped'
           /\ upload.stamp[1] # 0 => upload'.stamp[1] # 0
<1>1. upload.stamp \in [Stages -> 0 .. MaxItems] /\ 1 \in Stages
  BY DEF UploadsTyped, UploadsTypeOK, Stages
<1>2. ItemsKept /\ kind' = kind
  BY ItemChanges, UploadChanges
<1>3. \A s \in Stages : Executed(s) \subseteq Executed(s)'
  BY <1>2, ExecutedKept
<1>4. CASE /\ upload'.stamp = upload.stamp
           /\ upload'.status = "estimating" => upload.status = "estimating" \/ upload.stamp[1] # 0
  BY <1>2, <1>3, <1>4 DEF StampsExecuted, EstimatingIsStamped
<1>5. ASSUME NEW i \in DOMAIN items, Approve(i), upload'.status # "estimating",
             upload'.stamp = [upload.stamp EXCEPT ![items[i].stage] = i]
      PROVE  /\ StampsExecuted' /\ EstimatingIsStamped'
             /\ upload.stamp[1] # 0 => upload'.stamp[1] # 0
  <2>1. PICK s \in Stages : s = items[i].stage
    BY DEF UploadsTyped, UploadsTypeOK
  <2>2. i \in Executed(s)' /\ i # 0
    <3>1. items'[i].state = "executed" /\ items'[i].stage = s /\ i \in DOMAIN items'
      BY <1>2, <1>5, <2>1, ItemChanges DEF ItemsKept
    <3>2. i # 0
      BY DEF UploadsTyped
    <3> QED
      BY <3>1, <3>2 DEF Executed
  <2>3. \A r \in Stages : upload'.stamp[r] = IF r = s THEN i ELSE upload.stamp[r]
    BY <1>1, <1>5, <2>1
  <2> QED
    BY <1>1, <1>3, <1>5, <2>2, <2>3 DEF StampsExecuted, EstimatingIsStamped
<1> QED
  BY <1>4, <1>5, UploadChanges

\* Where the daemon of a stage may go, and when.
JobMoved(s) ==
    \/ job'[s] = job[s]
    \/ Claim(s) /\ job'[s].pc = "claimed"
    \/ Done(s) /\ job'[s].pc = "idle" /\ job'[s].row = "done"
    \/ (NotReady(s) \/ RecordFailed(s)) /\ job'[s].pc = "idle"
    \/ /\ Take(s) /\ job'[s].pc \in {"ready", "failed"}
       /\ job'[s].basis = upload.stamp[1]
    \/ Post(s) /\ job'[s].pc = "posted"
    \/ Mishap /\ job'[s].pc # "ready"

\* Where any step leads the claim and the daemon of a stage.
LEMMA JobMoves ==
    ASSUME UploadsTyped, [UploadsNext]_uploadVars, NEW s \in Stages
    PROVE  JobMoved(s)
<1>1. ASSUME NEW r \in Stages, NEW pc, NEW new, JobGoes(r, pc, new)
      PROVE  /\ r # s => job'[s] = job[s]
             /\ r = s => job'[s] = new /\ job'[s].pc = pc
  BY <1>1 DEF JobGoes
<1>2. ASSUME NEW r \in Stages, Claim(r)
      PROVE  JobMoved(s)
  BY <1>1, <1>2, JobSteps DEF JobMoved
<1>3. ASSUME NEW r \in Stages, Done(r)
      PROVE  JobMoved(s)
  <2>1. PICK new \in JobRec : JobGoes(r, "idle", new) /\ new.row = "done"
    BY <1>3, JobSteps
  <2> QED
    BY <1>1, <1>3, <2>1 DEF JobMoved
<1>4. ASSUME NEW r \in Stages, NotReady(r) \/ RecordFailed(r)
      PROVE  JobMoved(s)
  <2>1. PICK new \in JobRec : JobGoes(r, "idle", new)
    BY <1>4, JobSteps
  <2> QED
    BY <1>1, <1>4, <2>1 DEF JobMoved
<1>5. ASSUME NEW r \in Stages, Take(r)
      PROVE  JobMoved(s)
  <2>1. PICK new \in JobRec : /\ JobGoes(r, IF upload.text = "ok" THEN "ready" ELSE "failed", new)
                              /\ new.basis = upload.stamp[1]
    BY <1>5, JobSteps
  <2> QED
    BY <1>1, <1>5, <2>1 DEF JobMoved
<1>6. ASSUME NEW r \in Stages, Post(r)
      PROVE  JobMoved(s)
  <2>1. PICK new \in JobRec : JobGoes(r, "posted", new)
    BY <1>6, JobSteps
  <2> QED
    BY <1>1, <1>6, <2>1 DEF JobMoved
<1>7. ASSUME NEW r \in Stages, FetchFailed(r) \/ DaemonDies(r) \/ RunFails(r)
      PROVE  JobMoved(s)
  <2>1. Mishap
    BY <1>7 DEF FetchFailed, DaemonDies, RunFails
  <2>2. PICK pc \in {"idle", "failed"}, new \in JobRec : JobGoes(r, pc, new)
    BY <1>7, JobSteps
  <2> QED
    BY <1>1, <2>1, <2>2 DEF JobMoved
<1>8. CASE job' = job
  BY <1>8 DEF JobMoved
<1>9. \/ \E r \in Stages : Claim(r) \/ Done(r) \/ NotReady(r) \/ FetchFailed(r) \/ RecordFailed(r)
                           \/ DaemonDies(r) \/ Take(r) \/ Post(r) \/ RunFails(r)
      \/ job' = job
  BY DEF UploadsNext, Task, TaskStarts, TaskEnds, Cancel, StartUpload, Tick, ApiRestarts, Request,
         DropMarker, AlreadyStamped, RecordDone, Approve, ApproveWithoutHook, Reject, uploadVars
<1> QED
  BY <1>2, <1>3, <1>4, <1>5, <1>6, <1>7, <1>8, <1>9

\* What the second agent works from stays an executed item of the first.
LEMMA SecondRestsStep ==
    ASSUME UploadsTyped, StampsExecuted, EstimatingIsStamped, SecondRests, [UploadsNext]_uploadVars
    PROVE  SecondRests'
<1>1. 1 \in Stages /\ 2 \in Stages
  BY DEF Stages
<1>2. ASSUME NEW b, Rests(b)
      PROVE  b \in Executed(1)' /\ upload'.stamp[1] # 0
  <2>1. Executed(1) \subseteq Executed(1)'
    BY ItemChanges, ExecutedKept
  <2> QED
    BY <1>2, <2>1, StampsStep DEF Rests
<1>3. ASSUME NEW i \in DOMAIN items', items'[i].stage = 2
      PROVE  items'[i].basis \in Executed(1)' /\ upload'.stamp[1] # 0
  <2>1. CASE i \in DOMAIN items
    <3>1. items[i].stage = 2 /\ items'[i].basis = items[i].basis
      BY <1>3, <2>1, ItemChanges DEF ItemsKept
    <3>2. Rests(items[i].basis)
      BY <2>1, <3>1 DEF SecondRests
    <3> QED
      BY <1>2, <3>1, <3>2
  <2>2. CASE i \notin DOMAIN items
    <3>1. PICK s \in Stages, j \in DOMAIN items' : NewItem(s, j)
      BY <2>2, ItemChanges
    <3>2. j = i
      BY <2>2, <3>1 DEF NewItem
    <3>3. s = 2 /\ items'[i].basis = job[2].basis /\ job[2].pc = "ready"
      BY <1>3, <3>1, <3>2 DEF NewItem, At
    <3>4. Rests(job[2].basis)
      BY <3>3 DEF SecondRests
    <3> QED
      BY <1>2, <3>3, <3>4
  <2> QED
    BY <2>1, <2>2
<1>4. ASSUME job'[2].pc = "ready"
      PROVE  job'[2].basis \in Executed(1)' /\ upload'.stamp[1] # 0
  <2>1. CASE job'[2] = job[2]
    <3>1. Rests(job[2].basis)
      BY <1>4, <2>1 DEF SecondRests
    <3> QED
      BY <1>2, <2>1, <3>1
  <2>2. CASE Take(2) /\ job'[2].basis = upload.stamp[1]
    <3>1. upload.stamp[1] # 0
      <4>1. CASE kind = "contract"
        BY <2>2, <4>1 DEF Take, Ready
      <4>2. CASE kind # "contract"
        <5>1. kind = "estimate"
          BY <4>2 DEF UploadsTyped, UploadsTypeOK
        <5> QED
          BY <2>2, <4>2, <5>1 DEF Take, Ready, Polled, EstimatingIsStamped
      <4> QED
        BY <4>1, <4>2
    <3>2. Rests(upload.stamp[1])
      BY <1>1, <3>1 DEF Rests, StampsExecuted
    <3> QED
      BY <1>2, <2>2, <3>2
  <2> QED
    BY <1>1, <1>4, <2>1, <2>2, JobMoves DEF JobMoved
<1> QED
  BY <1>3, <1>4 DEF SecondRests, Rests

\* A daemon posts once for a basis, unless something failed since.
LEMMA PostedOnceStep ==
    ASSUME UploadsTyped, PostedOnce, [UploadsNext]_uploadVars
    PROVE  PostedOnce'
<1> SUFFICES ASSUME failures' = 0
             PROVE  PostedOnce'
  BY DEF PostedOnce
<1>1. failures = 0 /\ ~ Mishap
  <2>1. failures \in Nat
    BY DEF UploadsTyped, UploadsTypeOK
  <2>2. failures' = failures \/ Mishap
    BY DEF UploadsNext, Task, TaskStarts, TaskEnds, Cancel, StartUpload,
           Tick, ApiRestarts, Request, Claim, DropMarker, AlreadyStamped, Done, NotReady, Take, Post,
           RecordDone, RecordFailed, FetchFailed, RunFails, DaemonDies, Approve, ApproveWithoutHook,
           Reject, uploadVars
  <2> QED
    BY <2>1, <2>2 DEF Mishap
<1>2. 1 \in Stages
  BY DEF Stages
<1>3. /\ \A i, j \in DOMAIN items : items[i].stage = 1 /\ items[j].stage = 1 => i = j
      /\ (\E i \in DOMAIN items : items[i].stage = 1) =>
            \/ job[1].pc = "posted"
            \/ job[1].row = "done" /\ job[1].pc = "idle"
  BY <1>1 DEF PostedOnce
<1>4. CASE \A j \in DOMAIN items' : items'[j].stage = 1 => j \in DOMAIN items
  <2>1. \A j \in DOMAIN items' : items'[j].stage = 1 => j \in DOMAIN items /\ items[j].stage = 1
    BY <1>4, ItemChanges DEF ItemsKept
  <2>2. ASSUME \/ job[1].pc = "posted"
               \/ job[1].row = "done" /\ job[1].pc = "idle"
        PROVE  \/ job'[1].pc = "posted"
               \/ job'[1].row = "done" /\ job'[1].pc = "idle"
    <3>1. JobMoved(1)
      BY <1>2, JobMoves
    <3>2. ~ Claim(1)
      BY <2>2 DEF Claim, Free, At
    <3>3. ~ NotReady(1) /\ ~ RecordFailed(1) /\ ~ Take(1)
      BY <2>2 DEF NotReady, RecordFailed, Take, At
    <3> QED
      BY <2>2, <3>1, <3>2, <3>3, <1>1 DEF JobMoved
  <2> QED
    BY <1>3, <2>1, <2>2 DEF PostedOnce
<1>5. ASSUME NEW k \in DOMAIN items', items'[k].stage = 1, k \notin DOMAIN items
      PROVE  PostedOnce'
  <2>1. PICK s \in Stages, j \in DOMAIN items' : NewItem(s, j)
    BY <1>5, ItemChanges
  <2>2. j = k /\ s = 1
    BY <1>5, <2>1 DEF NewItem
  <2>3. job[1].pc = "ready" /\ Post(1)
    BY <1>1, <2>1, <2>2 DEF NewItem, At, RunFails
  <2>4. \A i \in DOMAIN items : items[i].stage # 1
    BY <1>3, <2>3
  <2>5. \A i \in DOMAIN items' : items'[i].stage = 1 => i = k
    BY <2>1, <2>2, <2>4, ItemChanges DEF NewItem, ItemsKept
  <2>6. job'[1].pc = "posted"
    <3>1. PICK new \in JobRec : JobGoes(1, "posted", new)
      BY <1>2, <2>3, JobSteps
    <3> QED
      BY <3>1 DEF JobGoes
  <2> QED
    BY <2>5, <2>6 DEF PostedOnce
<1> QED
  BY <1>4, <1>5

\* The stamps, the daemons and the items agree in every state.
LEMMA UploadsInvariant == UploadsSpec => [](UploadsTyped /\ UploadsInv)
<1>1. UploadsTyped /\ UploadsInv /\ [UploadsNext]_uploadVars => (UploadsTyped /\ UploadsInv)'
  BY UploadsTypedStep, StampsStep, SecondRestsStep, PostedOnceStep DEF UploadsInv
<1> QED
  BY <1>1, UploadsStart, PTL DEF UploadsSpec

\* The second agent works from what a person approved, on contracts and on estimates,
\* whatever restarts, crashes, cancellations and failed hooks there are.
THEOREM SecondWorksFromApprovedProved == UploadsSpec => []SecondWorksFromApproved
<1>1. UploadsTyped /\ UploadsInv => SecondWorksFromApproved
  BY DEF UploadsInv, SecondRests, Rests, SecondWorksFromApproved
<1> QED
  BY <1>1, UploadsInvariant, PTL

\* An approved review or estimate rests on what the upload carries, unless a fault made
\* the first agent post twice and a person approved both of its results.
THEOREM ResultRestsOnStampProved == UploadsSpec => []ResultRestsOnStamp
<1>1. UploadsTyped /\ UploadsInv => ResultRestsOnStamp
  <2> SUFFICES ASSUME UploadsTyped, UploadsInv, upload.stamp[2] # 0,
                      items[upload.stamp[2]].basis # upload.stamp[1]
               PROVE  \E i, j \in Executed(1) : i # j /\ failures > 0
    BY DEF ResultRestsOnStamp
  <2>1. PICK two : two = upload.stamp[2] /\ two \in Executed(2)
    BY DEF UploadsInv, StampsExecuted, Stages
  <2>2. two \in DOMAIN items /\ items[two].stage = 2
    BY <2>1 DEF Executed
  <2>3. items[two].basis \in Executed(1) /\ upload.stamp[1] # 0
    BY <2>2 DEF UploadsInv, SecondRests, Rests
  <2>4. upload.stamp[1] \in Executed(1)
    BY <2>3 DEF UploadsInv, StampsExecuted, Stages
  <2>5. failures # 0
    BY <2>1, <2>3, <2>4 DEF UploadsInv, PostedOnce, Executed
  <2>6. failures > 0
    BY <2>5 DEF UploadsTyped, UploadsTypeOK
  <2> QED
    BY <2>1, <2>3, <2>4, <2>6
<1> QED
  BY <1>1, UploadsInvariant, PTL

HIDE UploadsAssumption

-----------------------------------------------------------------------------
(* The developers' chat. *)

USE ChatAssumption

Active(t) == work[t] \in {"queued", "running"}

\* What is cancelled was sent, and a request that is past its file has left it.
CancelsAreOfSent ==
    /\ \A t \in Messages : t \in stops \/ cancel[t] # "none" => work[t] \notin {"none", "checked"}
    /\ \A t \in Messages : cancel[t] \in {"filed", "frees", "keeps"} => t \in stops

\* A reply that is open has its row.
OpenAreSent == \A t \in OpenReplies : \E i \in DOMAIN sent : sent[i] = t

\* A report that is to close another's reply has one of the causes of RepliesAreTheirOwn.
PicksHaveACause ==
    \A t \in Messages :
        report[t].pick \notin {Nothing, t} =>
            stops \ {report[t].pick} # {} \/ raced \/ chatFaults > 0

\* While nothing raced or failed, and what is cancelled is still open, the thread is busy
\* with one task, whose reply is the open one and which one handler works on.
Quiet == stops \subseteq OpenReplies /\ ~raced /\ chatFaults = 0

Reported(t) == report[t].stage # "none"

OneAtATimeInThread ==
    /\ \A t \in Messages : Active(t) => busy
    /\ \A t, u \in Messages : Active(t) /\ Active(u) => t = u
    /\ \A t \in Messages : work[t] = "checked" => ~busy
    /\ \A t \in Messages : reply[t].status = "queued" <=> Active(t)
    /\ \A s \in Slots : handler[s] # "unused" => Active(s[1])
    /\ \A s, r \in Slots :
          handler[s] # "unused" /\ handler[r] # "unused" /\ s[1] = r[1] => s = r
    /\ \A t \in Messages : Reported(t) =>
          /\ <<t, report[t].by>> \in Slots /\ Reporting(<<t, report[t].by>>)
          /\ report[t].by # 0 /\ report[t].pick = t

ChatInv ==
    /\ CancelsAreOfSent /\ OpenAreSent /\ PicksHaveACause
    /\ Quiet => OneAtATimeInThread
    /\ RepliesAreTheirOwn

\* A set of numbers up to n has a last one: the numbers of the set from i on are fewest
\* for the last i, and inclusion of finite sets is well founded.
LEMMA LastOfSome ==
    ASSUME NEW n \in Nat, NEW I \in SUBSET (1 .. n), I # {}
    PROVE  \E i \in I : \A j \in I : j <= i
<1> DEFINE from(i) == {k \in I : k >= i}
           Froms   == {from(i) : i \in I}
<1>1. IsFiniteSet(1 .. n)
  BY FS_Interval
<1>2. IsWellFoundedOn(StrictSubsetOrdering(1 .. n), SUBSET (1 .. n))
  BY <1>1, FS_StrictSubsetOrderingWellFounded, FS_FiniteSubsetsOfFinite
<1>3. Froms \subseteq SUBSET (1 .. n) /\ Froms # {}
  <2>1. \A i \in I : from(i) \subseteq 1 .. n
    OBVIOUS
  <2>2. PICK i \in I : TRUE
    OBVIOUS
  <2>3. from(i) \in Froms
    OBVIOUS
  <2> HIDE DEF from
  <2> QED
    BY <2>1, <2>3
<1>4. PICK x \in Froms : \A y \in Froms : ~ (<<y, x>> \in StrictSubsetOrdering(1 .. n))
  <2> HIDE DEF Froms
  <2> QED
    BY <1>2, <1>3, WFMin
<1>5. PICK i \in I : x = from(i)
  BY <1>4
<1>6. ASSUME NEW j \in I, ~ (j <= i)
      PROVE  FALSE
  <2>1. j > i /\ j \in Nat /\ i \in Nat
    <3>1. j \in 1 .. n /\ i \in 1 .. n
      OBVIOUS
    <3> QED
      BY <1>6, <3>1
  <2>2. from(j) \subseteq from(i) /\ i \in from(i) /\ i \notin from(j)
    <3>1. \A k \in I : k \in 1 .. n
      OBVIOUS
    <3>2. ASSUME NEW k \in I, k >= j
          PROVE  k >= i
      <4>1. k \in 1 .. n
        BY <3>1
      <4> QED
        BY <4>1, <3>2, <2>1
    <3>3. i >= i /\ ~ (i >= j)
      BY <2>1
    <3> QED
      BY <3>2, <3>3
  <2>3. from(j) \in SUBSET (1 .. n) /\ from(i) \in SUBSET (1 .. n) /\ from(j) # from(i)
    BY <2>2
  <2>4. <<from(j), from(i)>> \in StrictSubsetOrdering(1 .. n)
    <3> HIDE DEF from
    <3> QED
      BY <2>2, <2>3 DEF StrictSubsetOrdering
  <2> QED
    BY <1>4, <1>5, <2>4
<1> QED
  BY <1>6

Work    == {"none", "checked", "queued", "running", "ended"}
Reply   == [status : {"none", "queued", "closed"}, of : {Nothing} \cup Messages]
Handler == {"unused", "listed", "waiting", "reporting", "excusing"}
Reports == [stage : {"none", "picked", "loaded"}, by : Nat, pick : {Nothing} \cup Messages,
            frees : BOOLEAN]
Cancels == {"none", "checked", "filed", "frees", "keeps"}

\* The types of the chat, with the sets of values named.
LEMMA ChatTypes ==
    ChatTypeOK <=>
      /\ work \in [Messages -> Work] /\ reply \in [Messages -> Reply]
      /\ handler \in [Slots -> Handler] /\ sent \in Seq(Messages)
      /\ report \in [Messages -> Reports] /\ cancel \in [Messages -> Cancels]
      /\ busy \in BOOLEAN /\ raced \in BOOLEAN /\ doubled \in BOOLEAN
      /\ briefs \subseteq Messages /\ results \subseteq Messages /\ stops \subseteq Messages
      /\ bridge \in {Nothing} \cup Messages /\ chatFaults \in 0 .. MaxChatFaults
BY DEF ChatTypeOK, Work, Reply, Handler, Reports, Cancels

\* No message is sent at the start.
LEMMA ChatStarts == ChatInit => ChatTypeOK /\ ChatInv
<1> SUFFICES ASSUME ChatInit
             PROVE  ChatTypeOK /\ ChatInv
  OBVIOUS
<1>1. /\ busy = FALSE /\ sent = <<>> /\ bridge = Nothing /\ chatFaults = 0
      /\ raced = FALSE /\ doubled = FALSE
      /\ work = [t \in Messages |-> "none"]
      /\ reply = [t \in Messages |-> [status |-> "none", of |-> Nothing]]
      /\ handler = [s \in Slots |-> "unused"]
      /\ briefs = {} /\ results = {} /\ stops = {}
      /\ report = [t \in Messages |-> NoReport] /\ cancel = [t \in Messages |-> "none"]
  BY DEF ChatInit
<1>2. ChatTypeOK
  <2>1. sent \in Seq(Messages)
    BY <1>1, EmptySeq
  <2>2. chatFaults \in 0 .. MaxChatFaults
    BY <1>1
  <2>3. NoReport \in Reports
    BY DEF NoReport, Reports, Nothing
  <2>4. [status |-> "none", of |-> Nothing] \in Reply
    BY DEF Reply
  <2>5. "none" \in Work /\ "unused" \in Handler /\ "none" \in Cancels
    BY DEF Work, Handler, Cancels
  <2> HIDE DEF NoReport
  <2> QED
    BY <1>1, <2>1, <2>2, <2>3, <2>4, <2>5, ChatTypes
<1>3. \A t \in Messages : /\ work[t] = "none" /\ reply[t].status = "none" /\ reply[t].of = Nothing
                          /\ cancel[t] = "none" /\ report[t].stage = "none"
                          /\ report[t].pick = Nothing
  BY <1>1 DEF NoReport
<1>4. \A s \in Slots : handler[s] = "unused"
  BY <1>1
<1> QED
  BY <1>1, <1>2, <1>3, <1>4
  DEF ChatInv, CancelsAreOfSent, OpenAreSent, OpenReplies, PicksHaveACause, OneAtATimeInThread,
      Active, Reported, RepliesAreTheirOwn

-----------------------------------------------------------------------------
(* What the steps of the chat do. *)

\* A slot is a message and the number of one of its handlers.
LEMMA SlotIs ==
    ASSUME NEW s \in Slots
    PROVE  s = <<s[1], s[2]>> /\ s[1] \in Messages /\ s[2] \in 1 .. MaxHandlers[s[1]]
           /\ s[2] \in Nat /\ s[2] # 0
<1>1. s = <<s[1], s[2]>> /\ s[1] \in Messages /\ s[2] \in 1 .. MaxHandlers[s[1]]
  BY DEF Slots
<1>2. MaxHandlers[s[1]] \in Nat
  BY <1>1 DEF Messages
<1> QED
  BY <1>1, <1>2

\* The newest open reply is open: there is a newest, if there is any.
LEMMA NewestIsOpen ==
    ASSUME ChatTypeOK, OpenAreSent, OpenReplies # {}
    PROVE  sent[Newest] \in OpenReplies
<1> DEFINE New(i) == sent[i] \in OpenReplies /\ \A j \in i + 1 .. Len(sent) : sent[j] \notin OpenReplies
           I == {i \in 1 .. Len(sent) : sent[i] \in OpenReplies}
<1>1. Len(sent) \in Nat /\ DOMAIN sent = 1 .. Len(sent)
  BY ChatTypes
<1>2. I # {} /\ I \in SUBSET (1 .. Len(sent))
  BY <1>1 DEF OpenAreSent
<1>3. PICK i \in I : \A j \in I : j <= i
  <2> HIDE DEF I
  <2> QED
    BY <1>1, <1>2, LastOfSome
<1>4. i \in DOMAIN sent /\ New(i)
  BY <1>1, <1>3
<1>5. Newest = CHOOSE k \in DOMAIN sent : New(k)
  BY DEF Newest
<1>6. New(Newest)
  <2> HIDE DEF New
  <2> QED
    BY <1>4, <1>5
<1> QED
  BY <1>6

\* A report that starts picks an open reply, if there is any.
LEMMA ReportPicks ==
    ASSUME ChatTypeOK, OpenAreSent, NEW s \in Slots, StartReport(s)
    PROVE  \E new \in Reports :
              /\ report' = [report EXCEPT ![s[1]] = new]
              /\ new.stage = "picked" /\ new.by = s[2]
              /\ \/ OpenReplies = {} /\ new.pick = Nothing
                 \/ new.pick \in OpenReplies
<1>1. PICK new : new = [stage |-> "picked", by |-> s[2], frees |-> FALSE,
                        pick |-> IF OpenReplies = {} THEN Nothing ELSE sent[Newest]]
  OBVIOUS
<1>2. s[2] \in Nat /\ OpenReplies \subseteq Messages
  BY SlotIs DEF OpenReplies
<1>3. \/ OpenReplies = {} /\ new.pick = Nothing
      \/ new.pick \in OpenReplies
  BY <1>1, NewestIsOpen
<1>4. new \in Reports /\ new.stage = "picked" /\ new.by = s[2]
  BY <1>1, <1>2, <1>3 DEF Reports
<1>5. report' = [report EXCEPT ![s[1]] = new]
  BY <1>1 DEF StartReport
<1> QED
  BY <1>3, <1>4, <1>5

\* A report that has loaded the thread differs from before in its stage.
LEMMA Loaded ==
    ASSUME NEW r \in Reports, NEW b \in BOOLEAN, NEW new,
           new = [r EXCEPT !.stage = "loaded", !.frees = b]
    PROVE  new \in Reports /\ new.stage = "loaded" /\ new.by = r.by /\ new.pick = r.pick
<1>1. new = [stage |-> "loaded", by |-> r.by, pick |-> r.pick, frees |-> b]
  BY DEF Reports
<1> QED
  BY <1>1 DEF Reports

\* A request that has not come, one whose answer nobody waits for, and one that has loaded.
LEMMA ReportsChange ==
    ASSUME ChatTypeOK, NEW t \in Messages
    PROVE  /\ NoReport \in Reports /\ NoReport.pick = Nothing /\ NoReport.stage = "none"
           /\ [report[t] EXCEPT !.by = 0] \in Reports
           /\ [report[t] EXCEPT !.by = 0].pick = report[t].pick
           /\ LoadThread(t) =>
                 /\ report' \in [Messages -> Reports]
                 /\ \A u \in Messages : /\ report'[u].by = report[u].by
                                        /\ report'[u].pick = report[u].pick
                                        /\ report'[u].stage = "none" <=> report[u].stage = "none"
<1>1. report \in [Messages -> Reports] /\ busy \in BOOLEAN
  BY ChatTypes
<1>2. LoadThread(t) =>
         /\ report' \in [Messages -> Reports]
         /\ \A u \in Messages : /\ report'[u].by = report[u].by
                                /\ report'[u].pick = report[u].pick
                                /\ report'[u].stage = "none" <=> report[u].stage = "none"
  <2> SUFFICES ASSUME LoadThread(t)
               PROVE  /\ report' \in [Messages -> Reports]
                      /\ \A u \in Messages : /\ report'[u].by = report[u].by
                                             /\ report'[u].pick = report[u].pick
                                             /\ report'[u].stage = "none" <=> report[u].stage = "none"
    OBVIOUS
  <2>1. PICK new : new = [report[t] EXCEPT !.stage = "loaded", !.frees = busy]
    OBVIOUS
  <2>2. /\ new \in Reports /\ new.stage = "loaded"
        /\ new.by = report[t].by /\ new.pick = report[t].pick
    BY <1>1, <2>1, Loaded
  <2>3. report' = [report EXCEPT ![t] = new] /\ report[t].stage = "picked"
    BY <2>1 DEF LoadThread
  <2> QED
    BY <1>1, <2>2, <2>3
<1>3. NoReport \in Reports /\ NoReport.pick = Nothing /\ NoReport.stage = "none"
  BY DEF NoReport, Reports
<1>4. /\ [report[t] EXCEPT !.by = 0] \in Reports
      /\ [report[t] EXCEPT !.by = 0].pick = report[t].pick
  BY <1>1 DEF Reports
<1> QED
  BY <1>2, <1>3, <1>4

\* A report closes the reply it picked, and no other changes.
LEMMA ReportCloses ==
    ASSUME ChatTypeOK, NEW t \in Messages, FinishReport(t)
    PROVE  /\ work' = [work EXCEPT ![t] = "ended"]
           /\ reply' \in [Messages -> Reply]
           /\ \A u \in Messages :
                 IF u = report[t].pick THEN reply'[u].status = "closed" /\ reply'[u].of = t
                                       ELSE reply'[u] = reply[u]
           /\ report' = [report EXCEPT ![t] = NoReport]
           /\ busy' \in BOOLEAN /\ doubled' \in BOOLEAN
<1>1. /\ report[t].pick \in {Nothing} \cup Messages /\ report[t].frees \in BOOLEAN
      /\ reply \in [Messages -> Reply]
  BY ChatTypes DEF Reports
<1>2. PICK new : new = [status |-> "closed", of |-> t]
  OBVIOUS
<1>3. new \in Reply /\ new.status = "closed" /\ new.of = t
  BY <1>2 DEF Reply
<1>4. reply' = IF report[t].pick = Nothing THEN reply ELSE [reply EXCEPT ![report[t].pick] = new]
  BY <1>2 DEF FinishReport
<1>5. Nothing \notin Messages
  BY DEF Nothing, Messages
<1>6. /\ work' = [work EXCEPT ![t] = "ended"] /\ report' = [report EXCEPT ![t] = NoReport]
      /\ busy' \in BOOLEAN /\ doubled' \in BOOLEAN
  BY DEF FinishReport
<1>7. reply' \in [Messages -> Reply]
  BY <1>1, <1>3, <1>4
<1>8. \A u \in Messages :
         IF u = report[t].pick THEN reply'[u].status = "closed" /\ reply'[u].of = t
                               ELSE reply'[u] = reply[u]
  BY <1>1, <1>3, <1>4, <1>5
<1> QED
  BY <1>6, <1>7, <1>8

\* A cancellation closes what is open, and says of no reply whose report closed it.
LEMMA CancelCloses ==
    ASSUME ChatTypeOK, NEW t \in Messages, CancelClose(t)
    PROVE  /\ work' = [work EXCEPT ![t] = "ended"] /\ reply' \in [Messages -> Reply]
           /\ \A u \in Messages : reply'[u].status # "queued" /\ reply'[u].of = reply[u].of
<1>1. reply \in [Messages -> Reply]
  BY ChatTypes
<1>2. \A u \in Messages : /\ [reply[u] EXCEPT !.status = "closed"] \in Reply
                          /\ [reply[u] EXCEPT !.status = "closed"].status = "closed"
                          /\ [reply[u] EXCEPT !.status = "closed"].of = reply[u].of
  BY <1>1 DEF Reply
<1>3. /\ work' = [work EXCEPT ![t] = "ended"]
      /\ reply' = [u \in Messages |->
             IF u \in OpenReplies THEN [reply[u] EXCEPT !.status = "closed"] ELSE reply[u]]
  BY DEF CancelClose
<1> QED
  BY <1>1, <1>2, <1>3 DEF OpenReplies

\* A message that is sent opens its reply.
LEMMA SendOpens ==
    ASSUME ChatTypeOK, NEW t \in Messages, SendMessage(t)
    PROVE  /\ reply' \in [Messages -> Reply]
           /\ reply'[t].status = "queued" /\ \A u \in Messages \ {t} : reply'[u] = reply[u]
           /\ \A u \in Messages : reply'[u].of = reply[u].of
<1>1. reply \in [Messages -> Reply]
  BY ChatTypes
<1>2. PICK new : new = [reply[t] EXCEPT !.status = "queued"]
  OBVIOUS
<1>3. new \in Reply /\ new.status = "queued" /\ new.of = reply[t].of
  BY <1>1, <1>2 DEF Reply
<1>4. reply' = [reply EXCEPT ![t] = new]
  BY <1>1, <1>2 DEF SendMessage
<1> QED
  BY <1>1, <1>3, <1>4

\* A poll adds a handler for each queued task, and for one that has a handler only when
\* that handler's call is slow.
LEMMA PollAdds ==
    ASSUME ChatTypeOK, PollTasks
    PROVE  /\ UNCHANGED <<thread, directory, bridge, requests>>
           /\ handler' \in [Slots -> Handler]
           /\ \A s \in Slots : handler'[s] # handler[s] =>
                 work[s[1]] = "queued" /\ handler'[s] = "listed"
           /\ \A s, r \in Slots :
                 handler'[s] # handler[s] /\ handler'[r] # handler[r] /\ s[1] = r[1] => s = r
           /\ \/ ChatFault
              \/ /\ chatFaults' = chatFaults
                 /\ \A s \in Slots : work[s[1]] = "queued" => handler[s] = "unused"
<1> DEFINE queued  == {t \in Messages : work[t] = "queued"}
           slot(t) == CHOOSE n \in 1 .. MaxHandlers[t] :
                          handler[<<t, n>>] = "unused" /\ \A m \in 1 .. n - 1 : handler[<<t, m>>] # "unused"
           new     == "listed"
<1>1. /\ handler' = [s \in Slots |-> IF s[1] \in queued /\ s[2] = slot(s[1]) THEN new ELSE handler[s]]
      /\ IF \E t \in queued : Handled(t) THEN ChatFault ELSE UNCHANGED chatFaults
      /\ UNCHANGED <<thread, directory, bridge, requests>>
  BY DEF PollTasks
<1>2. new \in Handler /\ new = "listed"
  BY DEF Handler
<1> HIDE DEF slot, new
<1>3. handler' \in [Slots -> Handler]
  BY <1>1, <1>2, ChatTypes
<1>4. ASSUME NEW s \in Slots, handler'[s] # handler[s]
      PROVE  s[1] \in queued /\ s[2] = slot(s[1]) /\ handler'[s] = new
  BY <1>1, <1>4
<1>5. ASSUME NEW s \in Slots, NEW r \in Slots, handler'[s] # handler[s], handler'[r] # handler[r],
             s[1] = r[1]
      PROVE  s = r
  <2>1. s[2] = slot(s[1]) /\ r[2] = slot(r[1])
    BY <1>4, <1>5
  <2>2. s[2] = r[2]
    BY <1>5, <2>1
  <2>3. s = <<s[1], s[2]>> /\ r = <<r[1], r[2]>>
    BY SlotIs
  <2> QED
    BY <1>5, <2>2, <2>3
<1>6. ASSUME \A t \in queued : ~ Handled(t)
      PROVE  /\ chatFaults' = chatFaults
             /\ \A s \in Slots : work[s[1]] = "queued" => handler[s] = "unused"
  <2>1. ASSUME NEW s \in Slots, work[s[1]] = "queued"
        PROVE  handler[s] = "unused"
    <3>1. s = <<s[1], s[2]>> /\ s[1] \in queued /\ s[2] \in 1 .. MaxHandlers[s[1]]
      BY <2>1, SlotIs
    <3>2. handler[<<s[1], s[2]>>] = "unused"
      BY <1>6, <3>1 DEF Handled
    <3> QED
      BY <3>1, <3>2
  <2> QED
    BY <1>1, <1>6, <2>1
<1>7. ASSUME ~ \A t \in queued : ~ Handled(t)
      PROVE  ChatFault
  BY <1>1, <1>7
<1>8. \A s \in Slots : handler'[s] # handler[s] =>
          work[s[1]] = "queued" /\ handler'[s] = "listed"
  <2> SUFFICES ASSUME NEW s \in Slots, handler'[s] # handler[s]
               PROVE  work[s[1]] = "queued" /\ handler'[s] = "listed"
    OBVIOUS
  <2>1. s[1] \in queued /\ handler'[s] = new
    BY <1>4
  <2> QED
    BY <1>2, <2>1
<1>9. UNCHANGED <<thread, directory, bridge, requests>>
  BY <1>1
<1>10. \/ ChatFault
       \/ /\ chatFaults' = chatFaults
          /\ \A s \in Slots : work[s[1]] = "queued" => handler[s] = "unused"
  BY <1>6, <1>7
<1>11. \A s, r \in Slots :
           handler'[s] # handler[s] /\ handler'[r] # handler[r] /\ s[1] = r[1] => s = r
  BY <1>5
<1> QED
  BY <1>3, <1>8, <1>9, <1>10, <1>11

-----------------------------------------------------------------------------
(* The invariant, a part at a time. *)

\* No step of the chat, its worker or its bridge leaves the types.
LEMMA ChatTypedStep ==
    ASSUME ChatTypeOK, OpenAreSent, [ChatNext]_chatVars
    PROVE  ChatTypeOK'
<1> USE DEF thread, directory, requests
<1>1. /\ work \in [Messages -> Work] /\ reply \in [Messages -> Reply]
      /\ handler \in [Slots -> Handler] /\ sent \in Seq(Messages)
      /\ report \in [Messages -> Reports] /\ cancel \in [Messages -> Cancels]
      /\ busy \in BOOLEAN /\ raced \in BOOLEAN /\ doubled \in BOOLEAN
      /\ briefs \subseteq Messages /\ results \subseteq Messages /\ stops \subseteq Messages
      /\ bridge \in {Nothing} \cup Messages /\ chatFaults \in 0 .. MaxChatFaults
  BY ChatTypes
<1>2. /\ \A new \in {"checked", "queued", "running", "ended"} : new \in Work
      /\ \A new \in {"unused", "listed", "waiting", "reporting", "excusing"} : new \in Handler
      /\ \A new \in {"none", "checked", "filed", "frees", "keeps"} : new \in Cancels
      /\ \A s \in Slots : s[1] \in Messages
  BY SlotIs DEF Work, Handler, Cancels
<1>3. ChatFault => chatFaults' \in 0 .. MaxChatFaults
  BY <1>1 DEF ChatFault
<1>4. ASSUME /\ work' \in [Messages -> Work] /\ reply' \in [Messages -> Reply]
             /\ handler' \in [Slots -> Handler] /\ sent' \in Seq(Messages)
             /\ report' \in [Messages -> Reports] /\ cancel' \in [Messages -> Cancels]
             /\ busy' \in BOOLEAN /\ raced' \in BOOLEAN /\ doubled' \in BOOLEAN
             /\ briefs' \subseteq Messages /\ results' \subseteq Messages /\ stops' \subseteq Messages
             /\ bridge' \in {Nothing} \cup Messages /\ chatFaults' \in 0 .. MaxChatFaults
      PROVE  ChatTypeOK'
  BY <1>4 DEF ChatTypeOK, Work, Reply, Handler, Reports, Cancels
<1> HIDE DEF Work, Reply, Handler, Reports, Cancels
<1>5. ASSUME NEW t \in Messages, CheckThread(t)
      PROVE  ChatTypeOK'
  BY <1>1, <1>2, <1>4, <1>5 DEF CheckThread
<1>6. ASSUME NEW t \in Messages, SendMessage(t)
      PROVE  ChatTypeOK'
  <2>1. reply' \in [Messages -> Reply]
    BY <1>6, SendOpens
  <2>2. work' \in [Messages -> Work]
    BY <1>1, <1>2, <1>6 DEF SendMessage
  <2>3. sent' \in Seq(Messages)
    BY <1>1, <1>6, AppendProperties DEF SendMessage
  <2>4. raced' \in BOOLEAN
    BY <1>6 DEF SendMessage
  <2>5. /\ busy' \in BOOLEAN
        /\ UNCHANGED <<handler, directory, bridge, chatFaults, requests, doubled>>
    BY <1>6 DEF SendMessage
  <2> QED
    BY <1>1, <1>4, <2>1, <2>2, <2>3, <2>4, <2>5
<1>7. ASSUME NEW t \in Messages, PickUp(t)
      PROVE  ChatTypeOK'
  <2>1. results' \subseteq Messages /\ briefs' \subseteq Messages /\ bridge' \in {Nothing} \cup Messages
    BY <1>1, <1>7 DEF PickUp
  <2> QED
    BY <1>1, <1>4, <1>7, <2>1 DEF PickUp
<1>8. ASSUME NEW t \in Messages, CancelCheck(t) \/ CancelFile(t) \/ CancelLoad(t)
      PROVE  ChatTypeOK'
  <2>1. /\ \E new \in Cancels : cancel' = [cancel EXCEPT ![t] = new]
        /\ stops' \subseteq Messages
        /\ UNCHANGED <<thread, handler, briefs, results, bridge, chatFaults, report>>
    BY <1>1, <1>2, <1>8 DEF CancelCheck, CancelFile, CancelLoad
  <2>2. cancel' \in [Messages -> Cancels]
    BY <1>1, <2>1
  <2> QED
    BY <1>1, <1>4, <2>1, <2>2
<1>9. ASSUME NEW t \in Messages, CancelClose(t)
      PROVE  ChatTypeOK'
  <2>1. /\ work' = [work EXCEPT ![t] = "ended"] /\ reply' \in [Messages -> Reply]
    BY <1>9, CancelCloses
  <2>2. work' \in [Messages -> Work] /\ busy' \in BOOLEAN /\ cancel' \in [Messages -> Cancels]
    BY <1>1, <1>2, <1>9, <2>1 DEF CancelClose
  <2>3. UNCHANGED <<sent, handler, directory, bridge, chatFaults, report, raced, doubled>>
    BY <1>9 DEF CancelClose
  <2> QED
    BY <1>1, <1>4, <2>1, <2>2, <2>3
<1>10. ASSUME NEW t \in Messages, LoadThread(t)
       PROVE  ChatTypeOK'
  <2>1. report' \in [Messages -> Reports]
    BY <1>10, ReportsChange
  <2> QED
    BY <1>1, <1>4, <1>10, <2>1 DEF LoadThread
<1>11. ASSUME NEW t \in Messages, FinishReport(t)
       PROVE  ChatTypeOK'
  <2>1. /\ work' = [work EXCEPT ![t] = "ended"] /\ reply' \in [Messages -> Reply]
        /\ report' = [report EXCEPT ![t] = NoReport] /\ busy' \in BOOLEAN /\ doubled' \in BOOLEAN
    BY <1>11, ReportCloses
  <2>2. NoReport \in Reports
    BY ReportsChange
  <2>3. work' \in [Messages -> Work] /\ report' \in [Messages -> Reports]
    BY <1>1, <1>2, <2>1, <2>2
  <2>4. handler' \in [Slots -> Handler]
    BY <1>1, <1>2, <1>11 DEF FinishReport
  <2>5. UNCHANGED <<sent, directory, bridge, chatFaults, cancel, raced>>
    BY <1>11 DEF FinishReport
  <2> QED
    BY <1>1, <1>4, <2>1, <2>3, <2>4, <2>5
<1>12. ASSUME NEW t \in Messages, RequestDies(t)
       PROVE  ChatTypeOK'
  <2>1. NoReport \in Reports
    BY ReportsChange
  <2>2. report' \in [Messages -> Reports] /\ cancel' \in [Messages -> Cancels]
    BY <1>1, <1>2, <1>12, <2>1 DEF RequestDies
  <2> QED
    BY <1>1, <1>3, <1>4, <1>12, <2>2 DEF RequestDies
<1>13. CASE PollTasks
  <2>1. /\ UNCHANGED <<thread, directory, bridge, requests>>
        /\ handler' \in [Slots -> Handler]
        /\ ChatFault \/ chatFaults' = chatFaults
    BY <1>13, PollAdds
  <2> QED
    BY <1>1, <1>3, <1>4, <2>1
<1>14. CASE WorkerDies
  <2>1. handler' \in [Slots -> Handler]
    BY <1>2, <1>14 DEF WorkerDies
  <2>2. report' \in [Messages -> Reports]
    <3>1. \A t \in Messages : [report[t] EXCEPT !.by = 0] \in Reports
      BY ReportsChange
    <3> QED
      BY <1>14, <3>1 DEF WorkerDies
  <2> QED
    BY <1>1, <1>3, <1>4, <1>14, <2>1, <2>2 DEF WorkerDies
<1>15. CASE AgentEnds
  <2>1. results' \subseteq Messages /\ briefs' \subseteq Messages
    BY <1>1, <1>15 DEF AgentEnds
  <2> QED
    BY <1>1, <1>4, <1>15, <2>1 DEF AgentEnds
<1>16. CASE BridgeDies
  BY <1>1, <1>4, <1>16 DEF BridgeDies
<1>17. ASSUME NEW s \in Slots, MarkRunning(s)
       PROVE  ChatTypeOK'
  <2>1. handler' \in [Slots -> Handler]
    BY <1>1, <1>2, <1>17 DEF MarkRunning, Goto
  <2>2. work' \in [Messages -> Work] /\ briefs' \subseteq Messages
    BY <1>1, <1>2, <1>17 DEF MarkRunning, SetRunning
  <2> QED
    BY <1>1, <1>4, <1>17, <2>1, <2>2 DEF MarkRunning
<1>18. ASSUME NEW s \in Slots, MarkFails(s)
       PROVE  ChatTypeOK'
  <2>1. handler' \in [Slots -> Handler]
    BY <1>1, <1>2, <1>18 DEF MarkFails, Goto
  <2>2. work' \in [Messages -> Work]
    BY <1>1, <1>2, <1>18 DEF MarkFails, SetRunning
  <2> QED
    BY <1>1, <1>3, <1>4, <1>18, <2>1, <2>2 DEF MarkFails
<1>19. ASSUME NEW s \in Slots, WaitForResult(s)
       PROVE  ChatTypeOK'
  <2>1. handler' \in [Slots -> Handler]
    BY <1>1, <1>2, <1>19 DEF WaitForResult, Goto
  <2> QED
    BY <1>1, <1>4, <1>19, <2>1 DEF WaitForResult
<1>20. ASSUME NEW s \in Slots, StartReport(s)
       PROVE  ChatTypeOK'
  <2>1. \E new \in Reports : report' = [report EXCEPT ![s[1]] = new]
    BY <1>20, ReportPicks
  <2>2. report' \in [Messages -> Reports]
    BY <1>1, <2>1
  <2> QED
    BY <1>1, <1>4, <1>20, <2>2 DEF StartReport
<1>21. ASSUME NEW s \in Slots, ReportFails(s)
       PROVE  ChatTypeOK'
  <2>1. NoReport \in Reports /\ [report[s[1]] EXCEPT !.by = 0] \in Reports
    BY <1>2, ReportsChange
  <2>2. report' \in [Messages -> Reports]
    BY <1>1, <1>21, <2>1 DEF ReportFails
  <2>3. handler' \in [Slots -> Handler]
    BY <1>1, <1>2, <1>21 DEF ReportFails, Goto
  <2> QED
    BY <1>1, <1>3, <1>4, <1>21, <2>2, <2>3 DEF ReportFails
<1>22. CASE UNCHANGED chatVars
  BY <1>1, <1>4, <1>22 DEF chatVars
<1> QED
  BY <1>5, <1>6, <1>7, <1>8, <1>9, <1>10, <1>11, <1>12, <1>13, <1>14, <1>15, <1>16, <1>17, <1>18,
     <1>19, <1>20, <1>21, <1>22 DEF ChatNext, Handle, Serve

\* What is cancelled was sent.
LEMMA CancelsStep ==
    ASSUME ChatTypeOK, CancelsAreOfSent, [ChatNext]_chatVars
    PROVE  CancelsAreOfSent'
<1> USE DEF thread, directory, requests
<1>1. work \in [Messages -> Work] /\ cancel \in [Messages -> Cancels] /\ stops \subseteq Messages
  BY ChatTypes
<1>2. ASSUME NEW t \in Messages, NEW new,
             work' = [work EXCEPT ![t] = new],
             new \notin {"none", "checked"} \/ (t \notin stops /\ cancel[t] = "none"),
             stops' = stops, cancel' = cancel \/ cancel' = [cancel EXCEPT ![t] = "none"]
      PROVE  CancelsAreOfSent'
  BY <1>1, <1>2 DEF CancelsAreOfSent
<1>3. ASSUME NEW t \in Messages, NEW new,
             work' = work, cancel' = [cancel EXCEPT ![t] = new], stops \subseteq stops',
             stops' \subseteq stops \cup {t},
             new # "none" \/ t \in stops' => work[t] \notin {"none", "checked"},
             new \in {"filed", "frees", "keeps"} => t \in stops'
      PROVE  CancelsAreOfSent'
  BY <1>1, <1>3 DEF CancelsAreOfSent
<1>4. CASE UNCHANGED <<work, cancel, stops>>
  BY <1>4 DEF CancelsAreOfSent
<1>5. ASSUME NEW t \in Messages, CheckThread(t) \/ SendMessage(t)
      PROVE  CancelsAreOfSent'
  <2>1. t \notin stops /\ cancel[t] = "none"
    BY <1>5 DEF CheckThread, SendMessage, CancelsAreOfSent
  <2> QED
    BY <1>2, <1>5, <2>1 DEF CheckThread, SendMessage
<1>6. ASSUME NEW t \in Messages, CancelCheck(t) \/ CancelFile(t) \/ CancelLoad(t)
      PROVE  CancelsAreOfSent'
  <2>1. work[t] \notin {"none", "checked"}
    BY <1>6 DEF CancelCheck, CancelFile, CancelLoad, CancelsAreOfSent
  <2>2. CASE CancelCheck(t)
    BY <1>3, <2>1, <2>2 DEF CancelCheck
  <2>3. CASE CancelFile(t)
    BY <1>3, <2>1, <2>3 DEF CancelFile
  <2>4. CASE CancelLoad(t)
    <3>1. t \in stops
      BY <2>4 DEF CancelLoad, CancelsAreOfSent
    <3> QED
      BY <1>3, <2>1, <2>4, <3>1 DEF CancelLoad
  <2> QED
    BY <1>6, <2>2, <2>3, <2>4
<1>7. ASSUME NEW t \in Messages, CancelClose(t) \/ FinishReport(t)
      PROVE  CancelsAreOfSent'
  BY <1>2, <1>7 DEF CancelClose, FinishReport
<1>8. ASSUME NEW t \in Messages, RequestDies(t)
      PROVE  CancelsAreOfSent'
  BY <1>1, <1>8 DEF RequestDies, CancelsAreOfSent
<1>9. ASSUME NEW s \in Slots, MarkRunning(s) \/ MarkFails(s)
      PROVE  CancelsAreOfSent'
  <2>1. s[1] \in Messages
    BY SlotIs
  <2>2. \/ work' = [work EXCEPT ![s[1]] = "running"]
        \/ work' = work
    BY <1>9 DEF MarkRunning, MarkFails, SetRunning
  <2>3. UNCHANGED <<cancel, stops>>
    BY <1>9 DEF MarkRunning, MarkFails
  <2> QED
    BY <1>2, <1>4, <2>1, <2>2, <2>3
<1>10. \/ \E t \in Messages : CheckThread(t) \/ SendMessage(t)
       \/ \E t \in Messages : CancelCheck(t) \/ CancelFile(t) \/ CancelLoad(t)
       \/ \E t \in Messages : CancelClose(t) \/ FinishReport(t)
       \/ \E t \in Messages : RequestDies(t)
       \/ \E s \in Slots : MarkRunning(s) \/ MarkFails(s)
       \/ UNCHANGED <<work, cancel, stops>>
  BY DEF ChatNext, Handle, Serve, PickUp, PollTasks, WorkerDies, AgentEnds, BridgeDies, WaitForResult,
         StartReport, ReportFails, LoadThread, chatVars
<1> QED
  BY <1>4, <1>5, <1>6, <1>7, <1>8, <1>9, <1>10

\* An open reply has its row.
LEMMA OpenStep ==
    ASSUME ChatTypeOK, OpenAreSent, [ChatNext]_chatVars
    PROVE  OpenAreSent'
<1> USE DEF thread, directory, requests
<1>1. reply \in [Messages -> Reply] /\ sent \in Seq(Messages)
  BY ChatTypes
<1>2. ASSUME sent' = sent, OpenReplies' \subseteq OpenReplies
      PROVE  OpenAreSent'
  BY <1>2 DEF OpenAreSent
<1>3. ASSUME NEW t \in Messages, SendMessage(t)
      PROVE  OpenAreSent'
  <2>1. sent' = Append(sent, t) /\ \A u \in OpenReplies' : u = t \/ u \in OpenReplies
    BY <1>3, SendOpens DEF SendMessage, OpenReplies
  <2>2. /\ DOMAIN sent = 1 .. Len(sent) /\ DOMAIN sent' = 1 .. Len(sent) + 1 /\ Len(sent) \in Nat
        /\ sent'[Len(sent) + 1] = t /\ \A i \in DOMAIN sent : sent'[i] = sent[i]
    BY <1>1, <2>1
  <2>3. /\ Len(sent) + 1 \in DOMAIN sent'
        /\ \A i \in DOMAIN sent : i \in DOMAIN sent'
    BY <2>2
  <2> QED
    BY <2>1, <2>2, <2>3 DEF OpenAreSent
<1>4. ASSUME NEW t \in Messages, CancelClose(t)
      PROVE  OpenAreSent'
  <2>1. OpenReplies' = {} /\ sent' = sent
    BY <1>4, CancelCloses DEF OpenReplies, CancelClose
  <2> QED
    BY <1>2, <2>1
<1>5. ASSUME NEW t \in Messages, FinishReport(t)
      PROVE  OpenAreSent'
  <2>1. OpenReplies' \subseteq OpenReplies /\ sent' = sent
    BY <1>5, ReportCloses DEF OpenReplies, FinishReport
  <2> QED
    BY <1>2, <2>1
<1>6. CASE UNCHANGED <<reply, sent>>
  BY <1>2, <1>6 DEF OpenReplies
<1>7. \/ \E t \in Messages : SendMessage(t) \/ CancelClose(t) \/ FinishReport(t)
      \/ UNCHANGED <<reply, sent>>
  <2>1. PollTasks => UNCHANGED <<reply, sent>>
    BY PollAdds
  <2> QED
    BY <2>1 DEF ChatNext, CheckThread, Handle, Serve, PickUp, WorkerDies, AgentEnds, BridgeDies,
       WaitForResult, MarkRunning, MarkFails, StartReport, ReportFails, LoadThread, RequestDies,
       CancelCheck, CancelFile, CancelLoad, chatVars
<1> QED
  BY <1>3, <1>4, <1>5, <1>6, <1>7

\* What a chat leaves behind stays: a cancellation, a race and a fault.
LEMMA HistoryStays ==
    ASSUME ChatTypeOK, [ChatNext]_chatVars
    PROVE  /\ stops \subseteq stops' /\ (raced => raced') /\ (chatFaults > 0 => chatFaults' > 0)
           /\ chatFaults' = 0 => chatFaults = 0 /\ ~ChatFault
<1> USE DEF thread, directory, requests
<1>1. chatFaults \in Nat
  BY ChatTypes
<1>2. stops \subseteq stops'
  BY DEF ChatNext, CheckThread, SendMessage, Handle, Serve, PickUp, PollTasks, WorkerDies, AgentEnds,
         BridgeDies, WaitForResult, MarkRunning, MarkFails, StartReport, ReportFails, LoadThread,
         FinishReport, RequestDies, CancelCheck, CancelFile, CancelLoad, CancelClose, chatVars
<1>3. raced => raced'
  <2>1. \A t \in Messages : SendMessage(t) => (raced => raced')
    BY DEF SendMessage
  <2>2. (\E t \in Messages : SendMessage(t)) \/ raced' = raced
    BY DEF ChatNext, CheckThread, Handle, Serve, PickUp, PollTasks, WorkerDies, AgentEnds,
         BridgeDies, WaitForResult, MarkRunning, MarkFails, StartReport, ReportFails, LoadThread,
         FinishReport, RequestDies, CancelCheck, CancelFile, CancelLoad, CancelClose, chatVars
  <2> QED
    BY <2>1, <2>2
<1>4. ChatFault \/ chatFaults' = chatFaults
  <2>1. PollTasks => ChatFault \/ chatFaults' = chatFaults
    BY PollAdds
  <2> QED
    BY <2>1 DEF ChatNext, CheckThread, SendMessage, Handle, Serve, PickUp, WorkerDies, AgentEnds,
         BridgeDies, WaitForResult, MarkRunning, MarkFails, StartReport, ReportFails, LoadThread,
         FinishReport, RequestDies, CancelCheck, CancelFile, CancelLoad, CancelClose, chatVars
<1> QED
  BY <1>1, <1>2, <1>3, <1>4 DEF ChatFault

\* A thread that is quiet was quiet before.
LEMMA QuietBefore ==
    ASSUME ChatTypeOK, CancelsAreOfSent, [ChatNext]_chatVars, Quiet'
    PROVE  Quiet
<1> USE DEF thread, directory, requests
<1>1. stops \subseteq stops' /\ ~raced /\ chatFaults = 0 /\ stops' \subseteq OpenReplies'
  BY HistoryStays DEF Quiet
<1>2. ASSUME NEW t \in stops, t \notin OpenReplies
      PROVE  FALSE
  <2>1. t \in Messages /\ work[t] \notin {"none", "checked"}
    BY <1>2, ChatTypes DEF CancelsAreOfSent
  <2>2. reply[t].status # "queued" /\ reply'[t].status = "queued"
    BY <1>1, <1>2, <2>1 DEF OpenReplies
  <2>3. ASSUME NEW u \in Messages, SendMessage(u)
        PROVE  FALSE
    <3>1. u # t
      BY <2>1, <2>3 DEF SendMessage
    <3> QED
      BY <2>1, <2>2, <2>3, <3>1, SendOpens
  <2>4. ASSUME NEW u \in Messages, CancelClose(u)
        PROVE  FALSE
    BY <2>1, <2>2, <2>4, CancelCloses
  <2>5. ASSUME NEW u \in Messages, FinishReport(u)
        PROVE  FALSE
    BY <2>1, <2>2, <2>5, ReportCloses
  <2>6. reply' # reply
    BY <2>2
  <2>7. \E u \in Messages : SendMessage(u) \/ CancelClose(u) \/ FinishReport(u)
    BY <2>6 DEF ChatNext, CheckThread, Handle, Serve, PickUp, PollTasks, WorkerDies, AgentEnds,
       BridgeDies, WaitForResult, MarkRunning, MarkFails, StartReport, ReportFails, LoadThread,
       RequestDies, CancelCheck, CancelFile, CancelLoad, chatVars
  <2> QED
    BY <2>3, <2>4, <2>5, <2>7
<1> QED
  BY <1>1, <1>2 DEF Quiet

\* A report that picks another's reply has a cause: the two tasks are active at a time.
LEMMA PicksStep ==
    ASSUME ChatTypeOK, ChatInv, [ChatNext]_chatVars
    PROVE  PicksHaveACause'
<1> USE DEF thread, directory, requests
<1>1. /\ report \in [Messages -> Reports] /\ chatFaults \in Nat
      /\ OpenAreSent /\ PicksHaveACause /\ stops \subseteq Messages
  BY ChatTypes DEF ChatInv
<1>2. stops \subseteq stops' /\ (raced => raced') /\ (chatFaults > 0 => chatFaults' > 0)
  BY HistoryStays
<1>3. ASSUME \A t \in Messages : report'[t].pick \in {Nothing, report[t].pick}
      PROVE  PicksHaveACause'
  <2> SUFFICES ASSUME NEW t \in Messages, report'[t].pick \notin {Nothing, t}
               PROVE  stops' \ {report'[t].pick} # {} \/ raced' \/ chatFaults' > 0
    BY DEF PicksHaveACause
  <2>1. report'[t].pick = report[t].pick
    BY <1>3
  <2>2. stops \ {report[t].pick} # {} \/ raced \/ chatFaults > 0
    BY <1>1, <2>1 DEF PicksHaveACause
  <2> QED
    BY <1>2, <2>1, <2>2
<1>4. ASSUME NEW s \in Slots, StartReport(s)
      PROVE  PicksHaveACause'
  <2>1. s[1] \in Messages /\ handler[s] # "unused" /\ Nothing \notin Messages
    BY <1>4, SlotIs DEF StartReport, Reporting, Nothing, Messages
  <2>2. PICK new \in Reports :
           /\ report' = [report EXCEPT ![s[1]] = new]
           /\ \/ OpenReplies = {} /\ new.pick = Nothing
              \/ new.pick \in OpenReplies
    BY <1>1, <1>4, ReportPicks
  <2>3. /\ report'[s[1]].pick = new.pick
        /\ \A t \in Messages \ {s[1]} : report'[t].pick = report[t].pick
    BY <1>1, <2>1, <2>2
  <2>4. CASE new.pick \in {Nothing, s[1]}
    <3> SUFFICES ASSUME NEW t \in Messages, report'[t].pick \notin {Nothing, t}
                 PROVE  stops' \ {report'[t].pick} # {} \/ raced' \/ chatFaults' > 0
      BY DEF PicksHaveACause
    <3>1. t # s[1] /\ report'[t].pick = report[t].pick
      BY <2>3, <2>4
    <3>2. stops \ {report[t].pick} # {} \/ raced \/ chatFaults > 0
      BY <1>1, <3>1 DEF PicksHaveACause
    <3> QED
      BY <1>2, <3>1, <3>2
  <2>5. CASE new.pick \notin {Nothing, s[1]}
    <3>1. new.pick \in OpenReplies /\ new.pick \in Messages /\ reply[new.pick].status = "queued"
      BY <2>2, <2>5 DEF OpenReplies
    <3>2. ASSUME stops \subseteq {new.pick}, ~raced, chatFaults = 0
          PROVE  FALSE
      <4>1. OneAtATimeInThread
        BY <3>1, <3>2 DEF ChatInv, Quiet
      <4>2. Active(s[1]) /\ Active(new.pick)
        BY <2>1, <3>1, <4>1 DEF OneAtATimeInThread
      <4> QED
        BY <2>1, <2>5, <3>1, <4>1, <4>2 DEF OneAtATimeInThread
    <3>3. stops \ {new.pick} # {} \/ raced \/ chatFaults > 0
      BY <1>1, <3>2
    <3> SUFFICES ASSUME NEW t \in Messages, report'[t].pick \notin {Nothing, t}
                 PROVE  stops' \ {report'[t].pick} # {} \/ raced' \/ chatFaults' > 0
      BY DEF PicksHaveACause
    <3>4. CASE t = s[1]
      BY <1>2, <2>3, <3>3, <3>4
    <3>5. CASE t # s[1]
      <4>1. report'[t].pick = report[t].pick
        BY <2>3, <3>5
      <4>2. stops \ {report[t].pick} # {} \/ raced \/ chatFaults > 0
        BY <1>1, <4>1 DEF PicksHaveACause
      <4> QED
        BY <1>2, <4>1, <4>2
    <3> QED
      BY <3>4, <3>5
  <2> QED
    BY <2>4, <2>5
<1>5. ASSUME NEW t \in Messages, LoadThread(t) \/ FinishReport(t) \/ RequestDies(t)
      PROVE  \A u \in Messages : report'[u].pick \in {Nothing, report[u].pick}
  BY <1>1, <1>5, ReportsChange DEF FinishReport, RequestDies
<1>6. ASSUME WorkerDies \/ \E s \in Slots : ReportFails(s)
      PROVE  \A u \in Messages : report'[u].pick \in {Nothing, report[u].pick}
  <2>1. CASE WorkerDies
    BY <2>1, ReportsChange DEF WorkerDies
  <2>2. ASSUME NEW s \in Slots, ReportFails(s)
        PROVE  \A u \in Messages : report'[u].pick \in {Nothing, report[u].pick}
    <3>1. s[1] \in Messages
      BY SlotIs
    <3>2. /\ NoReport.pick = Nothing
          /\ [report[s[1]] EXCEPT !.by = 0].pick = report[s[1]].pick
      BY <3>1, ReportsChange
    <3>3. \/ report' = report
          \/ \E r \in {NoReport, [report[s[1]] EXCEPT !.by = 0]} :
                report' = [report EXCEPT ![s[1]] = r]
      BY <2>2 DEF ReportFails
    <3> QED
      BY <1>1, <3>1, <3>2, <3>3
  <2> QED
    BY <1>6, <2>1, <2>2
<1>7. \/ \E s \in Slots : StartReport(s)
      \/ \E t \in Messages : LoadThread(t) \/ FinishReport(t) \/ RequestDies(t)
      \/ WorkerDies \/ \E s \in Slots : ReportFails(s)
      \/ report' = report
  BY DEF ChatNext, CheckThread, SendMessage, Handle, Serve, PickUp, PollTasks, AgentEnds,
     BridgeDies, WaitForResult, MarkRunning, MarkFails, CancelCheck, CancelFile, CancelLoad,
     CancelClose, chatVars
<1> QED
  BY <1>3, <1>4, <1>5, <1>6, <1>7

\* While nothing races or fails, and what is cancelled is still open, the thread stays with
\* one task at a time.
LEMMA OneAtATimeStep ==
    ASSUME ChatTypeOK, ChatInv, [ChatNext]_chatVars, Quiet'
    PROVE  OneAtATimeInThread'
<1> USE DEF thread, directory, requests
<1>1. /\ work \in [Messages -> Work] /\ reply \in [Messages -> Reply]
      /\ handler \in [Slots -> Handler] /\ report \in [Messages -> Reports]
      /\ OpenAreSent /\ CancelsAreOfSent
  BY ChatTypes DEF ChatInv
<1>2. stops' \subseteq OpenReplies' /\ ~raced' /\ chatFaults' = 0 /\ Quiet /\ ~ ChatFault
  BY <1>1, HistoryStays, QuietBefore DEF Quiet
<1>3. /\ \A t \in Messages : Active(t) => busy
      /\ \A t, u \in Messages : Active(t) /\ Active(u) => t = u
      /\ \A t \in Messages : work[t] = "checked" => ~busy
      /\ \A t \in Messages : reply[t].status = "queued" <=> Active(t)
      /\ \A s \in Slots : handler[s] # "unused" => Active(s[1])
      /\ \A s, r \in Slots :
            handler[s] # "unused" /\ handler[r] # "unused" /\ s[1] = r[1] => s = r
      /\ \A t \in Messages : Reported(t) =>
            /\ <<t, report[t].by>> \in Slots /\ Reporting(<<t, report[t].by>>)
            /\ report[t].by # 0 /\ report[t].pick = t
  BY <1>2 DEF ChatInv, OneAtATimeInThread
<1>4. \A s \in Slots : s[1] \in Messages
  BY SlotIs
<1>5. \A s \in Slots : Reporting(s) => handler[s] # "unused"
  BY DEF Reporting
<1>6. ASSUME busy' = busy, reply' = reply,
             \A t \in Messages : /\ work'[t] \in {"queued", "running"} <=> Active(t)
                                 /\ work'[t] = "checked" => work[t] = "checked",
             \A s \in Slots : /\ handler'[s] # "unused" => handler[s] # "unused"
                              /\ Reporting(s) => handler'[s] \in {"reporting", "excusing"},
             \A t \in Messages : /\ report'[t].stage = "none" <=> report[t].stage = "none"
                                 /\ report'[t].by = report[t].by /\ report'[t].pick = report[t].pick
      PROVE  OneAtATimeInThread'
  <2>1. \A t \in Messages : Reported(t)' =>
            /\ <<t, report'[t].by>> \in Slots
            /\ handler'[<<t, report'[t].by>>] \in {"reporting", "excusing"}
            /\ report'[t].by # 0 /\ report'[t].pick = t
    BY <1>3, <1>6 DEF Reported
  <2>2. /\ \A t \in Messages : Active(t)' => busy'
        /\ \A t, u \in Messages : Active(t)' /\ Active(u)' => t = u
        /\ \A t \in Messages : work'[t] = "checked" => ~busy'
        /\ \A t \in Messages : reply'[t].status = "queued" <=> Active(t)'
        /\ \A s \in Slots : handler'[s] # "unused" => Active(s[1])'
        /\ \A s, r \in Slots :
              handler'[s] # "unused" /\ handler'[r] # "unused" /\ s[1] = r[1] => s = r
    BY <1>3, <1>4, <1>6 DEF Active
  <2> QED
    BY <2>1, <2>2 DEF OneAtATimeInThread, Reporting
\* A thread nobody works on.
<1>7. ASSUME \A u \in Messages : ~ Active(u)
      PROVE  /\ \A s \in Slots : handler[s] = "unused"
             /\ \A u \in Messages : report[u].stage = "none"
  BY ZenonT(40), <1>3, <1>4, <1>5, <1>7 DEF Reported
<1>8. ASSUME NEW t \in Messages, CheckThread(t)
      PROVE  OneAtATimeInThread'
  <2>1. ~ busy /\ \A u \in Messages : ~ Active(u)
    BY <1>3, <1>8 DEF CheckThread
  <2>2. busy' = busy /\ reply' = reply /\ handler' = handler /\ report' = report
    BY <1>8 DEF CheckThread
  <2>3. \A u \in Messages : work'[u] \notin {"queued", "running"}
    BY <1>1, <1>8, <2>1 DEF CheckThread, Active
  <2>4. /\ \A s \in Slots : handler'[s] = "unused"
        /\ \A u \in Messages : report'[u].stage = "none"
    BY <1>7, <2>1, <2>2
  <2> QED
    BY <1>3, <2>1, <2>2, <2>3, <2>4 DEF OneAtATimeInThread, Active, Reported
<1>9. ASSUME NEW t \in Messages, SendMessage(t)
      PROVE  OneAtATimeInThread'
  <2>1. work[t] = "checked" /\ \A u \in Messages : ~ Active(u)
    BY <1>3, <1>9 DEF SendMessage
  <2>2. \A u \in Messages \ {t} : work[u] # "checked"
    BY <1>2, <1>9 DEF SendMessage
  <2>3. busy' /\ handler' = handler /\ report' = report
    BY <1>9 DEF SendMessage
  <2>4. work'[t] = "queued" /\ \A u \in Messages \ {t} : work'[u] = work[u]
    BY <1>1, <1>9 DEF SendMessage
  <2>5. reply'[t].status = "queued" /\ \A u \in Messages \ {t} : reply'[u] = reply[u]
    BY <1>9, SendOpens
  <2>6. /\ \A s \in Slots : handler'[s] = "unused"
        /\ \A u \in Messages : report'[u].stage = "none"
    BY <1>7, <2>1, <2>3
  <2>7. \A u \in Messages : work'[u] \in {"queued", "running"} <=> u = t
    BY <2>1, <2>4 DEF Active
  <2>8. \A u \in Messages : reply'[u].status = "queued" <=> u = t
    BY <1>3, <2>1, <2>5
  <2>9. \A u \in Messages : work'[u] # "checked"
    BY <2>2, <2>4
  <2> QED
    BY <2>3, <2>6, <2>7, <2>8, <2>9 DEF OneAtATimeInThread, Active, Reported
<1>10. ASSUME NEW t \in Messages, CancelClose(t)
       PROVE  FALSE
  <2>1. t \in stops' /\ t \in stops
    BY <1>1, <1>10 DEF CancelClose, CancelsAreOfSent
  <2>2. t \notin OpenReplies'
    BY <1>10, CancelCloses DEF OpenReplies
  <2> QED
    BY <1>2, <2>1, <2>2
<1>11. CASE PollTasks
  <2>1. /\ busy' = busy /\ work' = work /\ reply' = reply /\ report' = report
        /\ \A s \in Slots : handler'[s] # handler[s] => work[s[1]] = "queued"
        /\ \A s, r \in Slots :
              handler'[s] # handler[s] /\ handler'[r] # handler[r] /\ s[1] = r[1] => s = r
        /\ \A s \in Slots : work[s[1]] = "queued" => handler[s] = "unused"
    BY <1>2, <1>11, PollAdds
  <2>2. \A s \in Slots : handler'[s] # "unused" => Active(s[1])
    BY <1>3, <2>1 DEF Active
  <2>3. ASSUME NEW s \in Slots, NEW r \in Slots, handler'[s] # "unused", handler'[r] # "unused",
               s[1] = r[1]
        PROVE  s = r
    <3>1. CASE work[s[1]] = "queued"
      BY <2>1, <2>3, <3>1
    <3>2. CASE work[s[1]] # "queued"
      BY <1>3, <2>1, <2>3, <3>2
    <3> QED
      BY <3>1, <3>2
  <2>4. \A s \in Slots : Reporting(s) => handler'[s] \in {"reporting", "excusing"}
    BY <1>5, <2>1 DEF Reporting
  <2>5. \A t \in Messages : Reported(t)' =>
            /\ <<t, report'[t].by>> \in Slots
            /\ handler'[<<t, report'[t].by>>] \in {"reporting", "excusing"}
            /\ report'[t].by # 0 /\ report'[t].pick = t
    BY <1>3, <2>1, <2>4 DEF Reported
  <2> QED
    BY <1>3, <2>1, <2>2, <2>3, <2>5 DEF OneAtATimeInThread, Active, Reporting
<1>12. ASSUME NEW s \in Slots, MarkRunning(s)
       PROVE  OneAtATimeInThread'
  <2>1. handler[s] = "listed" /\ s[1] \in Messages
    BY <1>4, <1>12 DEF MarkRunning
  <2>2. /\ busy' = busy /\ reply' = reply /\ report' = report
        /\ work' = [work EXCEPT ![s[1]] = "running"] /\ handler' = [handler EXCEPT ![s] = "waiting"]
    BY <1>12 DEF MarkRunning, SetRunning, Goto
  <2>3. Active(s[1])
    BY <1>3, <2>1
  <2>4. \A t \in Messages : /\ work'[t] \in {"queued", "running"} <=> Active(t)
                            /\ work'[t] = "checked" => work[t] = "checked"
    BY <1>1, <2>1, <2>2, <2>3 DEF Active
  <2>5. \A r \in Slots : /\ handler'[r] # "unused" => handler[r] # "unused"
                         /\ Reporting(r) => handler'[r] \in {"reporting", "excusing"}
    BY <1>1, <2>1, <2>2 DEF Reporting
  <2> QED
    BY <1>6, <2>2, <2>4, <2>5
<1>13. ASSUME NEW s \in Slots, WaitForResult(s)
       PROVE  OneAtATimeInThread'
  <2>1. handler[s] = "waiting" /\ handler' = [handler EXCEPT ![s] = "reporting"]
        /\ UNCHANGED <<thread, report>>
    BY <1>13 DEF WaitForResult, Goto
  <2>2. \A r \in Slots : /\ handler'[r] # "unused" => handler[r] # "unused"
                         /\ Reporting(r) => handler'[r] \in {"reporting", "excusing"}
    BY <1>1, <2>1 DEF Reporting
  <2> QED
    BY <1>6, <2>1, <2>2 DEF Active
<1>14. ASSUME NEW s \in Slots, StartReport(s)
       PROVE  OneAtATimeInThread'
  <2>1. s[1] \in Messages /\ Reporting(s) /\ s = <<s[1], s[2]>> /\ s[2] # 0
    BY <1>14, SlotIs DEF StartReport
  <2>2. busy' = busy /\ work' = work /\ reply' = reply /\ handler' = handler
    BY <1>14 DEF StartReport
  <2>3. PICK new \in Reports :
           /\ report' = [report EXCEPT ![s[1]] = new] /\ new.by = s[2]
           /\ \/ OpenReplies = {} /\ new.pick = Nothing
              \/ new.pick \in OpenReplies
    BY <1>1, <1>14, ReportPicks
  <2>4. OpenReplies = {s[1]}
    BY <1>3, <1>5, <2>1 DEF OpenReplies
  <2>5. /\ report'[s[1]].by = s[2] /\ report'[s[1]].pick = s[1]
        /\ \A t \in Messages \ {s[1]} : report'[t] = report[t]
    BY <1>1, <2>1, <2>3, <2>4
  <2>6. \A t \in Messages : Reported(t)' =>
            /\ <<t, report'[t].by>> \in Slots
            /\ Reporting(<<t, report'[t].by>>)
            /\ report'[t].by # 0 /\ report'[t].pick = t
    <3> SUFFICES ASSUME NEW t \in Messages, Reported(t)'
                 PROVE  /\ <<t, report'[t].by>> \in Slots
                        /\ Reporting(<<t, report'[t].by>>)
                        /\ report'[t].by # 0 /\ report'[t].pick = t
      OBVIOUS
    <3>1. CASE t = s[1]
      BY <2>1, <2>5, <3>1
    <3>2. CASE t # s[1]
      <4>1. report'[t] = report[t] /\ Reported(t)
        BY <2>5, <3>2 DEF Reported
      <4> QED
        BY <1>3, <4>1
    <3> QED
      BY <3>1, <3>2
  <2>7. \A t \in Messages : Reported(t)' =>
            /\ <<t, report'[t].by>> \in Slots
            /\ Reporting(<<t, report[t].by>>)'
            /\ report'[t].by # 0 /\ report'[t].pick = t
    BY <2>2, <2>6 DEF Reporting
  <2> QED
    BY <1>3, <2>2, <2>7 DEF OneAtATimeInThread, Active
<1>15. ASSUME NEW t \in Messages, FinishReport(t)
       PROVE  OneAtATimeInThread'
  <2> DEFINE by == report[t].by
  <2>1. Reported(t)
    BY <1>15 DEF FinishReport, Reported
  <2>2. /\ <<t, by>> \in Slots /\ Reporting(<<t, by>>) /\ by # 0 /\ report[t].pick = t
    BY <1>3, <2>1
  <2>3. Active(t) /\ \A u \in Messages \ {t} : ~ Active(u)
    <3>1. handler[<<t, by>>] # "unused" /\ <<t, by>>[1] = t
      BY <1>5, <2>2
    <3> QED
      BY <1>3, <2>2, <3>1
  <2>4. /\ work' = [work EXCEPT ![t] = "ended"] /\ report' = [report EXCEPT ![t] = NoReport]
        /\ reply'[t].status = "closed" /\ \A u \in Messages \ {t} : reply'[u] = reply[u]
        /\ NoReport.stage = "none"
    BY ZenonT(40), <1>15, <2>2, ReportCloses, ReportsChange
  <2>5. \A u \in Messages : work'[u] \notin {"queued", "running", "checked"}
    BY <1>1, <1>3, <2>3, <2>4 DEF Active
  <2>6. \A u \in Messages : reply'[u].status # "queued"
    BY <1>3, <2>3, <2>4
  <2>7. handler' = [handler EXCEPT ![<<t, by>>] = "unused"]
    BY <1>15, <2>2 DEF FinishReport
  <2>8. \A r \in Slots : handler'[r] = "unused"
    <3> SUFFICES ASSUME NEW r \in Slots, r # <<t, by>>
                 PROVE  handler[r] = "unused"
      BY <1>1, <2>2, <2>7
    <3>1. handler[r] # "unused" => r[1] = t
      BY <1>3, <1>4, <2>3
    <3>2. <<t, by>>[1] = t /\ handler[<<t, by>>] # "unused"
      BY <1>5, <2>2
    <3> QED
      BY <1>3, <2>2, <3>1, <3>2
  <2>9. \A u \in Messages : ~ Reported(u)'
    <3> SUFFICES ASSUME NEW u \in Messages \ {t}
                 PROVE  ~ Reported(u)
      BY <1>1, <2>4 DEF Reported
    <3>1. ASSUME Reported(u)
          PROVE  FALSE
      <4>1. <<u, report[u].by>> \in Slots /\ handler[<<u, report[u].by>>] # "unused"
        BY <1>3, <1>5, <3>1
      <4>2. Active(<<u, report[u].by>>[1])
        BY <1>3, <4>1
      <4> QED
        BY <2>3, <4>2
    <3> QED
      BY <3>1
  <2> QED
    BY <2>5, <2>6, <2>8, <2>9 DEF OneAtATimeInThread, Active
<1>16. ASSUME NEW t \in Messages, LoadThread(t)
       PROVE  OneAtATimeInThread'
  <2>1. UNCHANGED <<thread, handler>>
    BY <1>16 DEF LoadThread
  <2> QED
    BY <1>6, <1>16, <2>1, ReportsChange DEF Active, Reporting
<1>17. ~ WorkerDies
  BY <1>2 DEF WorkerDies
<1>18. ASSUME NEW s \in Slots
       PROVE  ~ MarkFails(s) /\ ~ ReportFails(s)
  BY <1>2 DEF MarkFails, ReportFails
<1>19. ASSUME NEW t \in Messages
       PROVE  ~ RequestDies(t)
  BY <1>2 DEF RequestDies
<1>20. CASE UNCHANGED <<busy, work, reply, handler, report>>
  BY <1>6, <1>20 DEF Active, Reporting
<1>21. ASSUME \/ \E t \in Messages : PickUp(t) \/ CancelCheck(t) \/ CancelFile(t) \/ CancelLoad(t)
              \/ AgentEnds \/ BridgeDies \/ UNCHANGED chatVars
       PROVE  UNCHANGED <<busy, work, reply, handler, report>>
  BY <1>21 DEF PickUp, CancelCheck, CancelFile, CancelLoad, AgentEnds, BridgeDies, chatVars
<1> QED
  BY <1>8, <1>9, <1>10, <1>11, <1>12, <1>13, <1>14, <1>15, <1>16, <1>17, <1>18, <1>19, <1>20, <1>21
  DEF ChatNext, Handle, Serve

\* A reply shows another's report only for one of the causes.
LEMMA RepliesStep ==
    ASSUME ChatTypeOK, ChatInv, [ChatNext]_chatVars
    PROVE  RepliesAreTheirOwn'
<1> USE DEF thread, directory, requests
<1>1. RepliesAreTheirOwn /\ PicksHaveACause
  BY DEF ChatInv
<1>2. stops \subseteq stops' /\ (raced => raced') /\ (chatFaults > 0 => chatFaults' > 0)
  BY HistoryStays
<1>3. ASSUME NEW t \in Messages, reply'[t].of = reply[t].of, reply'[t].of \notin {Nothing, t}
      PROVE  stops' \ {t} # {} \/ raced' \/ chatFaults' > 0
  BY <1>1, <1>2, <1>3 DEF RepliesAreTheirOwn
<1>4. CASE \A t \in Messages : reply'[t].of = reply[t].of
  BY <1>3, <1>4 DEF RepliesAreTheirOwn
<1>5. ASSUME NEW t \in Messages, FinishReport(t)
      PROVE  RepliesAreTheirOwn'
  <2> SUFFICES ASSUME NEW u \in Messages, reply'[u].of \notin {Nothing, u}
               PROVE  stops' \ {u} # {} \/ raced' \/ chatFaults' > 0
    BY DEF RepliesAreTheirOwn
  <2>1. CASE u = report[t].pick
    <3>1. reply'[u].of = t /\ u # Nothing
      BY <1>5, <2>1, ReportCloses DEF Nothing, Messages
    <3>2. stops \ {u} # {} \/ raced \/ chatFaults > 0
      BY <1>1, <2>1, <3>1 DEF PicksHaveACause
    <3> QED
      BY <1>2, <3>2
  <2>2. CASE u # report[t].pick
    <3>1. reply'[u] = reply[u]
      BY <1>5, <2>2, ReportCloses
    <3> QED
      BY <1>3, <3>1
  <2> QED
    BY <2>1, <2>2
<1>6. ASSUME NEW t \in Messages, SendMessage(t) \/ CancelClose(t)
      PROVE  \A u \in Messages : reply'[u].of = reply[u].of
  BY <1>6, SendOpens, CancelCloses
<1>7. \/ \E t \in Messages : SendMessage(t) \/ CancelClose(t)
      \/ \E t \in Messages : FinishReport(t)
      \/ reply' = reply
  BY DEF ChatNext, CheckThread, Handle, Serve, PickUp, PollTasks, WorkerDies, AgentEnds, BridgeDies,
     WaitForResult, MarkRunning, MarkFails, StartReport, ReportFails, LoadThread, RequestDies,
     CancelCheck, CancelFile, CancelLoad, chatVars
<1> QED
  BY <1>4, <1>5, <1>6, <1>7

\* A reply of the developers' chat shows what came of its own message, unless a task was
\* cancelled, two messages raced or a call of the worker went wrong: of worker_complete_task,
\* which closes the newest open reply of the thread, however its requests overlap.
THEOREM RepliesAreTheirOwnProved == ChatSpec => []RepliesAreTheirOwn
<1>1. ChatInit => ChatTypeOK /\ ChatInv
  BY ChatStarts
<1>2. ChatTypeOK /\ ChatInv /\ [ChatNext]_chatVars => ChatTypeOK' /\ ChatInv'
  <2> SUFFICES ASSUME ChatTypeOK, ChatInv, [ChatNext]_chatVars
               PROVE  ChatTypeOK' /\ ChatInv'
    OBVIOUS
  <2>1. CancelsAreOfSent /\ OpenAreSent
    BY DEF ChatInv
  <2>2. ChatTypeOK' /\ CancelsAreOfSent' /\ OpenAreSent'
    BY <2>1, ChatTypedStep, CancelsStep, OpenStep
  <2>3. PicksHaveACause' /\ RepliesAreTheirOwn'
    BY PicksStep, RepliesStep
  <2>4. Quiet' => OneAtATimeInThread'
    BY OneAtATimeStep
  <2> QED
    BY <2>2, <2>3, <2>4 DEF ChatInv
<1>3. ChatTypeOK /\ ChatInv => RepliesAreTheirOwn
  BY DEF ChatInv
<1> QED
  BY <1>1, <1>2, <1>3, PTL DEF ChatSpec

HIDE ChatAssumption
=============================================================================

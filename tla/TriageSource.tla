---------------------------- MODULE TriageSource ----------------------------
(***************************************************************************)
(* The triage daemon on its file of events.  It reads the complete lines   *)
(* behind its cursor, dispatches the events it has not seen lately, and    *)
(* writes the cursor after the batch.  What it has seen lives in memory.   *)
(***************************************************************************)
EXTENDS Naturals, Sequences, FiniteSets, SequencesExt

CONSTANTS
    Events,      \* event ids; a writer may write one twice
    MaxLines,    \* bound on the lines written
    Capacity,    \* dedupe_capacity
    MaxRestarts, MaxRotations

ASSUME TriageAssumption ==
    /\ Capacity \in Nat \ {0}
    /\ {MaxLines, MaxRestarts, MaxRotations} \subseteq Nat

VARIABLES
    file,       \* the event of each line, the last of which may be half written
    partial,
    written,    \* the number of lines ever written
    cursor,     \* the offset, in lines, next to the file
    daemon,     \* where it is, its batch, the offset behind it
    seen,       \* the ids it remembers, oldest first
    tried,      \* how often each event was dispatched
    restarts, rotations,
    missed,     \* history: a new file had outgrown the old cursor before it was read
    forgotten   \* history: ids pushed out of seen

triageVars == <<file, partial, written, cursor, daemon, seen, tried, restarts, rotations,
                missed, forgotten>>
disk    == <<file, partial, written, rotations>>
history == <<missed, forgotten>>

Polling == [pc |-> "polling", batch |-> <<>>, upTo |-> 0, of |-> 0]

TriageInit ==
    /\ file = <<>> /\ partial = FALSE /\ written = 0 /\ cursor = [at |-> 0, of |-> 0]
    /\ daemon = Polling /\ seen = <<>>
    /\ tried = [e \in Events |-> 0]
    /\ restarts = 0 /\ rotations = 0
    /\ missed = FALSE /\ forgotten = {}

Complete == IF partial THEN Len(file) - 1 ELSE Len(file)

-----------------------------------------------------------------------------
\* The writer of the file: a line may be seen before its end is written, and the file
\* may be rotated or truncated.
Append1(e) ==
    /\ written < MaxLines /\ written' = written + 1
    /\ ~partial /\ partial' = TRUE
    /\ file' = Append(file, e)
    /\ UNCHANGED <<cursor, daemon, seen, tried, restarts, rotations, history>>

EndLine ==
    /\ partial /\ partial' = FALSE
    /\ UNCHANGED <<file, written, rotations, cursor, daemon, seen, tried, restarts, history>>

Rotate ==
    /\ rotations < MaxRotations /\ rotations' = rotations + 1
    /\ file' = <<>> /\ partial' = FALSE
    /\ UNCHANGED <<written, cursor, daemon, seen, tried, restarts, history>>

-----------------------------------------------------------------------------
\* Faulty variant: a file that became shorter is taken for one without new lines.
ReadBehindCursor ==
    /\ daemon.pc = "polling" /\ Complete > cursor.at
    /\ daemon' = [pc |-> "working", batch |-> SubSeq(file, cursor.at + 1, Complete),
                  upTo |-> Complete, of |-> rotations]
    /\ missed' = (missed \/ (cursor.at > 0 /\ cursor.of # rotations))
    /\ UNCHANGED <<disk, cursor, seen, tried, restarts, forgotten>>

\* _read_new_records: a file shorter than the cursor is read from its start.
Read ==
    LET from == IF Len(file) < cursor.at THEN 0 ELSE cursor.at
    IN  /\ daemon.pc = "polling" /\ Complete > from
        /\ daemon' = [pc |-> "working", batch |-> SubSeq(file, from + 1, Complete),
                      upTo |-> Complete, of |-> rotations]
        /\ missed' = (missed \/ (from > 0 /\ cursor.of # rotations))
        /\ UNCHANGED <<disk, cursor, seen, tried, restarts, forgotten>>

\* Faulty variant: an id that is seen is not remembered.
RecordNothing(e) ==
    e \notin Range(seen) /\ UNCHANGED <<seen, forgotten>>

\* _record_seen: new to it, and remembered in place of the oldest
RecordSeen(e) ==
    /\ e \notin Range(seen)
    /\ seen' = Append(IF Len(seen) = Capacity THEN Tail(seen) ELSE seen, e)
    /\ forgotten' = IF Len(seen) = Capacity THEN forgotten \cup {Head(seen)} ELSE forgotten

\* The next event of the batch is dispatched; whether its chain files an item or
\* fails, it is not tried again.
Dispatch ==
    /\ daemon.pc = "working" /\ daemon.batch # <<>>
    /\ LET e == Head(daemon.batch)
       IN  /\ RecordSeen(e)
           /\ tried' = [tried EXCEPT ![e] = @ + 1]
    /\ daemon' = [daemon EXCEPT !.batch = Tail(@)]
    /\ UNCHANGED <<disk, cursor, restarts, missed>>

Skip ==
    /\ daemon.pc = "working" /\ daemon.batch # <<>> /\ Head(daemon.batch) \in Range(seen)
    /\ daemon' = [daemon EXCEPT !.batch = Tail(@)]
    /\ UNCHANGED <<disk, cursor, seen, tried, restarts, history>>

\* _write_cursor, by a rename.  of says which file it counts: the daemon does not know.
WriteCursor ==
    /\ daemon.pc = "working" /\ daemon.batch = <<>>
    /\ cursor' = [at |-> daemon.upTo, of |-> daemon.of]
    /\ daemon' = Polling
    /\ UNCHANGED <<disk, seen, tried, restarts, history>>

\* The daemon is stopped, which leaves its loop between two events, or dies, after
\* which it starts with what is on disk.
Restart ==
    /\ restarts < MaxRestarts /\ restarts' = restarts + 1
    /\ daemon' = Polling /\ seen' = <<>>
    /\ UNCHANGED <<disk, cursor, tried, history>>

Daemon == Read \/ Dispatch \/ Skip \/ WriteCursor

TriageNext == (\E e \in Events : Append1(e)) \/ EndLine \/ Rotate \/ Daemon \/ Restart

TriageSpec     == TriageInit /\ [][TriageNext]_triageVars
TriageFairSpec == TriageSpec /\ WF_triageVars(Daemon)

-----------------------------------------------------------------------------
TriageTypeOK ==
    /\ file \in Seq(Events) /\ partial \in BOOLEAN /\ written \in 0 .. MaxLines
    /\ cursor \in [at : Nat, of : 0 .. MaxRotations]
    /\ daemon \in [pc : {"polling", "working"}, batch : Seq(Events), upTo : Nat, of : Nat]
    /\ seen \in Seq(Events) /\ Len(seen) <= Capacity
    /\ tried \in [Events -> Nat]
    /\ restarts \in 0 .. MaxRestarts /\ rotations \in 0 .. MaxRotations
    /\ missed \in BOOLEAN /\ forgotten \subseteq Events

\* No event behind the cursor is skipped: each was dispatched, whatever restarts there
\* were, unless a new file had outgrown the old cursor before the daemon looked.
NothingIsSkipped ==
    ~missed /\ cursor.of = rotations =>
        \A i \in 1 .. Len(file) : i <= cursor.at => tried[file[i]] > 0

\* An event is dispatched again only after a restart, or when so many others came that
\* it was forgotten.
RepeatsHaveACause ==
    \A e \in Events : tried[e] > 1 => restarts > 0 \/ e \in forgotten

\* A new file has at least the length the cursor remembers of the old one: its first
\* lines look as if they had been read.
Outgrown == cursor.of # rotations /\ cursor.at > 0 /\ Len(file) >= cursor.at

\* What is written, and stays in the file, is dispatched in the end, across restarts and
\* a rotation the daemon can see.
WrittenIsDispatched ==
    \A e \in Events : (e \in Range(SubSeq(file, 1, Complete)))
                        ~> (tried[e] > 0 \/ e \notin Range(file) \/ missed \/ Outgrown)
=============================================================================

---------------------------- MODULE DraftDispatch ----------------------------
(***************************************************************************)
(* The drafting of contracts, the one dispatch daemon that has no claims:  *)
(* each process remembers what it drafted, loads that memory from a file   *)
(* when it starts and writes the whole of it back after every draft.  The  *)
(* other daemons do the same where no database is configured.              *)
(***************************************************************************)
EXTENDS Naturals, FiniteSets

CONSTANTS
    Drafters,      \* processes, over one state file
    Drafts,        \* contracts a person asks to be drafted
    MaxLapses      \* bound on the times a draft of one contract is lost sight of

ASSUME DraftAssumption == IsFiniteSet(Drafters) /\ MaxLapses \in Nat

VARIABLES
    row,         \* the contract's status, and whether it has an approved draft
    marked,      \* contracts with a marker file
    stateFile,   \* the drafts recorded in the file
    memory,      \* what each process believes that file to say
    drafter,     \* what each process is doing, and on which contract
    drafted,     \* how many items were posted for each contract
    awaiting,    \* how many of them wait for a decision
    unsaved,     \* drafts the file had and lost, or never got for a failed save
    lapses       \* how often a process lost sight of a draft of each contract

draftVars == <<row, marked, stateFile, memory, drafter, drafted, awaiting, unsaved, lapses>>

Resting == [pc |-> "idle"]

DraftInit ==
    /\ row = [c \in Drafts |-> [status |-> "absent", approved |-> FALSE]]
    /\ marked = {} /\ stateFile = {}
    /\ memory = [d \in Drafters |-> {}]
    /\ drafter = [d \in Drafters |-> Resting]
    /\ drafted = [c \in Drafts |-> 0] /\ awaiting = [c \in Drafts |-> 0]
    /\ unsaved = {} /\ lapses = [c \in Drafts |-> 0]

\* Drafts C are lost sight of; MaxLapses bounds how often that happens to one.
Lapse(C) ==
    /\ \A c \in C : lapses[c] < MaxLapses
    /\ lapses' = [c \in Drafts |-> IF c \in C THEN lapses[c] + 1 ELSE lapses[c]]

\* What a write of the file, if there is one, leaves out that was in it.
KeepTrack == unsaved' = (unsaved \cup (stateFile \ stateFile')) \ stateFile'

-----------------------------------------------------------------------------
\* create_draft_request, for a new draft and for a redraft of another.
CreateDraft(c) ==
    /\ row[c].status = "absent"
    /\ row' = [row EXCEPT ![c].status = "drafting"]
    /\ marked' = marked \cup {c}
    /\ UNCHANGED <<stateFile, memory, drafter, drafted, awaiting, unsaved, lapses>>

CancelDraft(c) ==
    /\ row[c].status \in {"drafting", "drafted"}
    /\ row' = [row EXCEPT ![c].status = "failed"]
    /\ UNCHANGED <<marked, stateFile, memory, drafter, drafted, awaiting, unsaved, lapses>>

RequestDraft(c) ==
    /\ row[c].status \in {"drafting", "failed"}
    /\ marked' = marked \cup {c}
    /\ UNCHANGED <<row, stateFile, memory, drafter, drafted, awaiting, unsaved, lapses>>

-----------------------------------------------------------------------------
\* Faulty variant: what is drafted is remembered and never saved.
RememberUntilRestart(d, c) ==
    /\ memory' = [memory EXCEPT ![d] = @ \cup {c}]
    /\ UNCHANGED stateFile

\* _record_success: the process remembers the draft and saves its memory over the file.
Remember(d, c) ==
    /\ memory' = [memory EXCEPT ![d] = @ \cup {c}]
    /\ stateFile' = memory'[d]

Listed(c) == row[c].status = "drafting" \/ c \in marked

ForgetMarker(d, c) ==
    /\ drafter[d] = Resting
    /\ c \in marked /\ c \in memory[d]
    /\ marked' = marked \ {c}
    /\ UNCHANGED <<row, stateFile, memory, drafter, drafted, awaiting, unsaved, lapses>>

\* _tick fetches the contract; one that is not drafting is left where it is.
AlreadyDrafted(d, c) ==
    /\ drafter[d] = Resting /\ Listed(c) /\ c \notin memory[d]
    /\ row[c].approved
    /\ Remember(d, c) /\ KeepTrack /\ marked' = marked \ {c}
    /\ UNCHANGED <<row, drafter, drafted, awaiting, lapses>>

TakeDraft(d, c) ==
    /\ drafter[d] = Resting /\ Listed(c) /\ c \notin memory[d]
    /\ ~row[c].approved /\ row[c].status = "drafting"
    /\ drafter' = [drafter EXCEPT ![d] = [pc |-> "running", of |-> c]]
    /\ UNCHANGED <<row, marked, stateFile, memory, drafted, awaiting, unsaved, lapses>>

FileItem(c) ==
    /\ drafted' = [drafted EXCEPT ![c] = @ + 1]
    /\ awaiting' = [awaiting EXCEPT ![c] = @ + 1]

PostDraft(d) ==
    /\ drafter[d].pc = "running" /\ FileItem(drafter[d].of)
    /\ drafter' = [drafter EXCEPT ![d].pc = "posted"]
    /\ UNCHANGED <<row, marked, stateFile, memory, unsaved, lapses>>

\* The run or the post fails, with the item filed or not.  The error is written with
\* all the process remembers, if the file can be written, and its backoff passes.
DraftFails(d) ==
    /\ drafter[d].pc = "running"
    /\ \/ FileItem(drafter[d].of) /\ Lapse({drafter[d].of})
       \/ UNCHANGED <<drafted, awaiting, lapses>>
    /\ stateFile' \in {memory[d], stateFile} /\ KeepTrack
    /\ drafter' = [drafter EXCEPT ![d] = Resting]
    /\ UNCHANGED <<row, marked, memory>>

RecordDraft(d) ==
    /\ drafter[d].pc = "posted"
    /\ Remember(d, drafter[d].of) /\ KeepTrack /\ marked' = marked \ {drafter[d].of}
    /\ drafter' = [drafter EXCEPT ![d] = Resting]
    /\ UNCHANGED <<row, drafted, awaiting, lapses>>

\* The file cannot be written: the process remembers, and the marker stays.
SaveFails(d) ==
    /\ drafter[d].pc = "posted"
    /\ memory' = [memory EXCEPT ![d] = @ \cup {drafter[d].of}]
    /\ unsaved' = unsaved \cup ({drafter[d].of} \ stateFile)
    /\ drafter' = [drafter EXCEPT ![d] = Resting]
    /\ UNCHANGED <<row, marked, stateFile, drafted, awaiting, lapses>>

\* What a process that stops now does not find again in the file: the draft it posted
\* and had no time to save, and those whose record was saved over or never written.
Forgets(d) ==
    {c \in Drafts : \/ drafter[d] = [pc |-> "posted", of |-> c]
                    \/ c \in memory[d] /\ c \in unsaved}

\* The process dies, or is stopped and started, at any moment: it loads the file.
DrafterRestarts(d) ==
    /\ Lapse(Forgets(d))
    /\ memory' = [memory EXCEPT ![d] = stateFile]
    /\ drafter' = [drafter EXCEPT ![d] = Resting]
    /\ UNCHANGED <<row, marked, stateFile, drafted, awaiting, unsaved>>

-----------------------------------------------------------------------------
\* on_draft_approved, whatever the status is by then.
ApproveDraft(c) ==
    /\ awaiting[c] > 0
    /\ awaiting' = [awaiting EXCEPT ![c] = @ - 1]
    /\ row' = [row EXCEPT ![c] = [status |-> "drafted", approved |-> TRUE]]
    /\ UNCHANGED <<marked, stateFile, memory, drafter, drafted, unsaved, lapses>>

RejectDraft(c) ==
    /\ awaiting[c] > 0
    /\ awaiting' = [awaiting EXCEPT ![c] = @ - 1]
    /\ UNCHANGED <<row, marked, stateFile, memory, drafter, drafted, unsaved, lapses>>

DrafterWorks(d) ==
    \/ \E c \in Drafts : ForgetMarker(d, c) \/ AlreadyDrafted(d, c) \/ TakeDraft(d, c)
    \/ PostDraft(d) \/ RecordDraft(d)

DraftNext ==
    \/ \E c \in Drafts : \/ CreateDraft(c) \/ CancelDraft(c) \/ RequestDraft(c)
                         \/ ApproveDraft(c) \/ RejectDraft(c)
    \/ \E d \in Drafters : DrafterWorks(d) \/ DraftFails(d) \/ SaveFails(d) \/ DrafterRestarts(d)

DraftSpec == DraftInit /\ [][DraftNext]_draftVars

-----------------------------------------------------------------------------
DraftTypeOK ==
    /\ row \in [Drafts -> [status : {"absent", "drafting", "drafted", "failed"},
                           approved : BOOLEAN]]
    /\ marked \subseteq Drafts /\ stateFile \subseteq Drafts
    /\ memory \in [Drafters -> SUBSET Drafts]
    /\ drafter \in [Drafters -> {Resting} \cup [pc : {"running", "posted"}, of : Drafts]]
    /\ drafted \in [Drafts -> Nat] /\ awaiting \in [Drafts -> Nat]
    /\ unsaved \subseteq Drafts /\ lapses \in [Drafts -> Nat]

\* A contract is drafted once by each process, however often the process restarts, and
\* once more only for each time one lost sight of a draft: the answer to its post was
\* lost, it stopped between the post and the save, or it restarted from a file in which
\* the draft was saved over by another process or never saved for an error.
DraftsAreAccountedFor ==
    \A c \in Drafts : drafted[c] <= Cardinality(Drafters) + lapses[c]
=============================================================================

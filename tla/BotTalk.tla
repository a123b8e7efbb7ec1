------------------------------ MODULE BotTalk ------------------------------
(***************************************************************************)
(* A chat with the Telegram bot.  A message, typed or spoken, is sent to   *)
(* the model behind the last rows of the chat; the rows of the turn are    *)
(* then saved one by one.  The window over the rows may begin inside a     *)
(* turn, a turn may be saved in part, and an answer that was cut off       *)
(* leaves calls of tools without results: the model API refuses each of    *)
(* these.  Updates are handled one after the other, and chats share        *)
(* nothing, so there is one chat, and no turn overlaps another.            *)
(***************************************************************************)
EXTENDS Naturals, Sequences, SequencesExt

CONSTANTS
    Keep,       \* rows that are sent along, DEFAULT_KEEP
    MaxRounds,  \* rounds of tool calls in a turn, MAX_ITERATIONS
    MaxCalled   \* tools called in a round

ASSUME BotTalkAssumption ==
    /\ Keep \in Nat \ {0} /\ Keep % 2 = 0
    /\ {MaxRounds, MaxCalled} \subseteq Nat \ {0}

VARIABLES
    history,   \* the last Keep rows of conversations
    saving,    \* rows of the turn that are not saved yet
    refused    \* history: turns the API refused since one was answered or broken off

talkVars == <<history, saving, refused>>

\* A row is of the user, a text of the assistant, its calls of n tools, or one result.
Calling == 1 .. MaxCalled
User    == [kind |-> "user", calls |-> 0]
Text    == [kind |-> "text", calls |-> 0]
Result  == [kind |-> "result", calls |-> 0]
Call(n) == [kind |-> "call", calls |-> n]

TalkInit == history = <<>> /\ saving = <<>> /\ refused = 0

\* What the API takes: a conversation the user begins, in which calls of n tools are
\* followed by their n results, and a result by nothing but its calls is preceded.
Accepted(rows) ==
    /\ rows[1] = User
    /\ \A i \in DOMAIN rows :
          /\ \A k \in 1 .. rows[i].calls : i + k \in DOMAIN rows /\ rows[i + k] = Result
          /\ rows[i] = Result => \E k \in 1 .. i - 1 : rows[k].calls >= i - k

\* A round: calls and their results.  Every tool answers, if only with an error.
Round(n) == <<Call(n)>> \o [k \in 1 .. n |-> Result]

\* What a turn leaves after the message: whole rounds, then a text (an answer, or the
\* error of a call that failed), nothing (an empty answer), or calls that were cut off
\* at the limit of tokens, with the text beside them if any; after the last round
\* that is allowed, a text.
Ends == {<<>>, <<Text>>} \cup UNION {{<<Call(n)>>, <<Call(n), Text>>} : n \in Calling}
Rounds(ns) == FlattenSeq([i \in DOMAIN ns |-> Round(ns[i])])
Answers ==
    LET SomeRounds == UNION {[1 .. m -> Calling] : m \in 0 .. MaxRounds - 1}
    IN  {Rounds(ns) \o end : ns \in SomeRounds, end \in Ends}
        \cup {Append(Rounds(ns), Text) : ns \in [1 .. MaxRounds -> Calling]}

-----------------------------------------------------------------------------
\* Faulty variant: nothing of a refused turn is saved.
TurnSavesAnswers ==
    /\ saving = <<>>
    /\ IF Accepted(Append(history, User))
         THEN /\ \E answer \in Answers : saving' = <<User>> \o answer
              /\ refused' = 0
         ELSE /\ refused < Keep
              /\ refused' = refused + 1 /\ UNCHANGED saving
    /\ UNCHANGED history

\* process_nl_message, process_voice_message: a call the API refuses does not raise,
\* its error is the text of the answer and is saved with the message.
Turn ==
    /\ saving = <<>>
    /\ IF Accepted(Append(history, User))
         THEN /\ \E answer \in Answers : saving' = <<User>> \o answer
              /\ refused' = 0
         ELSE /\ saving' = <<User, Text>>
              /\ refused' = refused + 1
    /\ UNCHANGED history

\* append: each row in a transaction of its own.
Save ==
    LET rows == Append(history, Head(saving))
    IN  /\ saving # <<>>
        /\ history' = SubSeq(rows, IF Len(rows) > Keep THEN 2 ELSE 1, Len(rows))
        /\ saving' = Tail(saving)
        /\ UNCHANGED refused

\* The database fails to take a row, or the bot dies: the rest is not saved.
BrokenOff ==
    /\ saving # <<>>
    /\ saving' = <<>> /\ refused' = 0
    /\ UNCHANGED history

\* cmd_reset
Reset ==
    /\ saving = <<>> /\ history # <<>>
    /\ history' = <<>>
    /\ UNCHANGED <<saving, refused>>

TalkNext == Turn \/ Save \/ BrokenOff \/ Reset

TalkSpec == TalkInit /\ [][TalkNext]_talkVars

-----------------------------------------------------------------------------
TalkTypeOK ==
    LET Row == {User, Text, Result} \cup {Call(n) : n \in Calling}
    IN  /\ history \in Seq(Row) /\ Len(history) <= Keep
        /\ saving \in Seq(Row) /\ refused \in Nat

\* However the rows were damaged, and wherever the window cuts them, a chat talks
\* itself free: the turns that are refused are saved as a message and a text each, and
\* at most Keep / 2 of them push everything else out of the window.
RefusalsEnd == refused <= Keep \div 2
=============================================================================

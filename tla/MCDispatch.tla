----------------------------- MODULE MCDispatch -----------------------------
(***************************************************************************)
(* The two that poll the API for what is to be done: a behavior is one of  *)
(* the replicas of a dispatch daemon, or of the developers' chat, whose    *)
(* worker has one handler at a time for each of two messages.              *)
(***************************************************************************)
EXTENDS DispatchStore, DevChat

VARIABLE part

MCHandlers == <<1, 1>>

allVars == <<part, vars, chatVars>>

\* Nothing is left to dispatch while the chat goes on.
AllDone ==
    /\ upload = [status |-> "done", package |-> TRUE] /\ row = NoRow
    /\ open = 0 /\ posted = 0 /\ marker = FALSE /\ faults = 0
    /\ worker = [w \in Workers |-> [pc |-> "idle", fresh |-> FALSE]]

DispatchInit ==
    /\ ChatInit
    /\ \/ part = "daemon" /\ Init
       \/ part = "chat" /\ AllDone

\* Each part moves alone, and is scheduled as its own specification says.
InDaemon(A) == part = "daemon" /\ A /\ UNCHANGED <<part, chatVars>>
InChat(A)   == part = "chat"   /\ A /\ UNCHANGED <<part, vars>>

DispatchNext == InDaemon(Next) \/ InChat(ChatNext)

DispatchSpec ==
    /\ DispatchInit /\ [][DispatchNext]_allVars
    /\ \A w \in Workers : WF_allVars(InDaemon(Work(w)))
    /\ WF_allVars(InDaemon(LeaseExpires)) /\ WF_allVars(InDaemon(RetryAfterPasses))
    /\ WF_allVars(InChat(PollTasks))
    /\ \A s \in Slots : WF_allVars(InChat(Handle(s)))
    /\ \A t \in Messages : WF_allVars(InChat(Serve(t)))
=============================================================================

---------------------------- MODULE MCPipelines -----------------------------
(***************************************************************************)
(* The daemons: a behavior is one of the triage daemon's, of an upload's,  *)
(* or of the drafting of contracts.                                        *)
(***************************************************************************)
EXTENDS TriageSource, Uploads, DraftDispatch

VARIABLE part

pipelineVars == <<part, triageVars, uploadVars, draftVars>>

PipelinesInit ==
    /\ part \in {"triage", "uploads", "drafts"}
    /\ TriageInit /\ UploadsInit /\ DraftInit
    /\ part # "uploads" => kind = "contract"

\* Each part moves alone, and is scheduled as its own specification says.
InTriage(A)  == part = "triage"  /\ A /\ UNCHANGED <<part, uploadVars, draftVars>>
InUploads(A) == part = "uploads" /\ A /\ UNCHANGED <<part, triageVars, draftVars>>
InDrafts(A)  == part = "drafts"  /\ A /\ UNCHANGED <<part, triageVars, uploadVars>>

PipelinesNext ==
    \/ InTriage(TriageNext) \/ InUploads(UploadsNext) \/ InDrafts(DraftNext)

PipelinesSpec ==
    /\ PipelinesInit /\ [][PipelinesNext]_pipelineVars
    /\ WF_pipelineVars(InTriage(Daemon))
    /\ WF_pipelineVars(InUploads(Task))
    /\ \A s \in Stages : WF_pipelineVars(InUploads(Tick(s)))
=============================================================================

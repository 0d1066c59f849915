------------------------- MODULE LocalStateProjector -------------------------
(***************************************************************************)
(* The projector on its own: any lifecycle observation of any Workflow ID  *)
(* may be projected at any time, repeated, and in any order (a caller may  *)
(* hold an observation while others are applied, or apply it twice).       *)
(***************************************************************************)
EXTENDS WorkflowIndex

VARIABLE last       \* the last observation applied and what project returned

projectorVars == <<index, last>>

NoProjection == [outcome |-> "None"]

ProjectorInit == IndexInit /\ last = NoProjection

\* One call of LocalStateProjector::project.
Apply(o) ==
    \E out \in Outcomes :
        /\ Project(o, out)
        /\ last' = [obs |-> o, outcome |-> out]

ProjectorNext == \E o \in Observation : Apply(o)

ProjectorSpec == ProjectorInit /\ [][ProjectorNext]_projectorVars

-----------------------------------------------------------------------------
\* The table is well formed and project answered from its own vocabulary.
ProjectorTypeOK ==
    /\ IndexTypeOK
    /\ last \in [obs : Observation, outcome : Outcomes] \cup {NoProjection}

\* Replaying the observation that was applied last changes nothing and is
\* reported as already applied: a caller that lost the answer may repeat the
\* call (project, the AlreadyApplied arms).
ReplayIsIdempotent ==
    [][(last.outcome = "Applied" /\ last'.obs = last.obs)
         => last'.outcome = "AlreadyApplied" /\ UNCHANGED index]_projectorVars
=============================================================================

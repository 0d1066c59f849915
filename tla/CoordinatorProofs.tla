-------------------------- MODULE CoordinatorProofs --------------------------
(***************************************************************************)
(* Proofs about the workflow_index projector, about the coordinator's      *)
(* start and reconciliation, and about the local state database they keep  *)
(* their rows in, for every set of Workflow IDs, issues, callers, facts,   *)
(* runs and start times, any number of processes and any mix of supported  *)
(* schema versions.                                                        *)
(*                                                                         *)
(* What a projection does to the table goes through one lemma,             *)
(* ProjectShape: whatever is projected, the table is unchanged or exactly  *)
(* one row is inserted, advanced or refined.  Replays need one more fact,  *)
(* LastOK: the row of the observation applied last still says what that    *)
(* observation said.                                                       *)
(*                                                                         *)
(* The coordinator's invariant CInv relates four pieces of state.  A chain *)
(* of runs is closed in order (ChainOK); an answered request has a chain   *)
(* (StartOK); what a reconciler described, possibly long ago, is a run of  *)
(* the chain, and the last one if it was described closed (ReconOK); the   *)
(* same holds of what a row records (RowOK).  Temporal's steps preserve    *)
(* the last two because a chain only grows (ChainStep) and a closed one    *)
(* does not even grow; a projection carries ReconOK into RowOK.            *)
(***************************************************************************)
EXTENDS Coordinator, LocalStateProjector, LocalStateDatabase, SequenceTheorems, TLAPS

-----------------------------------------------------------------------------
(* The projector. *)

\* A new row: an active one only when its issue has no active row.
Inserts(w, row) ==
    /\ index[w] = NoRow
    /\ row.status = ActiveStatus => ActiveRows(row.facts.issue) = {}

\* An active row of the same facts follows its chain, or closes.
Advances(w, row) ==
    /\ index[w] \in Row
    /\ index[w].status = ActiveStatus
    /\ row.facts = index[w].facts
    /\ row.run = index[w].run => row.started = index[w].started
    /\ row.run # index[w].run => row.started > index[w].started

\* An unclassified terminal row gets its classification.
Refines(w, row) ==
    /\ index[w] \in Row
    /\ index[w].status = "ClosedUnknown"
    /\ row.facts = index[w].facts
    /\ row.run = index[w].run
    /\ row.started = index[w].started
    /\ row.status \in TerminalStatuses

\* The only ways a step may touch the table.
Touches(w, row) ==
    /\ Write(w, row)
    /\ Inserts(w, row) \/ Advances(w, row) \/ Refines(w, row)

-----------------------------------------------------------------------------
(* Facts about rows.                                                       *)

\* NoRow is not a row, and a typed row has typed fields with natural start
\* times (the columns workflow_index_row decodes).
LEMMA RowFacts ==
    ASSUME IndexTypeOK, NEW w \in WorkflowIds
    PROVE  /\ index[w] = NoRow \/ index[w] \in Row
           /\ index[w] \in Row => index[w] # NoRow
           /\ index[w] # NoRow => /\ index[w].status # "Absent"
                                  /\ index[w].started \in Nat
  <1>1. index[w] = NoRow \/ index[w] \in Row
    BY DEF IndexTypeOK
  <1>2. NoRow.status = "Absent"
    BY DEF NoRow
  <1>3. \A r \in Row : r.status \in TerminalStatuses \cup {ActiveStatus} /\ r.started \in Times
    BY DEF Row
  <1>4. "Absent" \notin TerminalStatuses \cup {ActiveStatus}
    BY DEF TerminalStatuses, ActiveStatus
  <1> QED
    BY <1>1, <1>2, <1>3, <1>4, ProjectorAssumption

\* described_row builds a well-typed row with the observation's own identity.
LEMMA DescribedRowType ==
    ASSUME NEW o \in OpenObservation \cup ClosedObservation,
           NEW status \in TerminalStatuses \cup {ActiveStatus},
           NEW outcome \in TerminalOutcomes \cup {NoOutcome}
    PROVE  /\ DescribedRow(o, status, outcome) \in Row
           /\ DescribedRow(o, status, outcome).facts = o.facts
           /\ DescribedRow(o, status, outcome).run = o.run
           /\ DescribedRow(o, status, outcome).started = o.started
           /\ DescribedRow(o, status, outcome).status = status
  BY DEF DescribedRow, Row, OpenObservation, ClosedObservation

\* terminal_projection always yields a terminal status.
LEMMA TerminalStatusType ==
    \A close : TerminalStatus(close) \in TerminalStatuses
  BY DEF TerminalStatus, TerminalStatuses

\* The active status, the terminal statuses and the absent row are distinct
\* (WorkflowIndexStatus::is_active).
LEMMA StatusesDiffer ==
    /\ ActiveStatus \notin TerminalStatuses
    /\ "ClosedUnknown" \in TerminalStatuses
  BY DEF ActiveStatus, TerminalStatuses

-----------------------------------------------------------------------------
(* The shape of a projection.                                              *)

\* What applying DescribeOpen may do to the table: nothing, insert an active row
\* for a free issue, or advance an active row to a later run.
LEMMA OpenShape ==
    ASSUME IndexTypeOK, NEW o \in OpenObservation, NEW out, DescribeOpen(o, out)
    PROVE  UNCHANGED index \/ \E row \in Row : Touches(o.wid, row)
  <1> DEFINE new == DescribedRow(o, ActiveStatus, NoOutcome)
  <1>1. o.wid \in WorkflowIds /\ o.started \in Nat
    BY ProjectorAssumption DEF OpenObservation
  <1>2. /\ new \in Row /\ new.facts = o.facts /\ new.run = o.run
        /\ new.started = o.started /\ new.status = ActiveStatus
    BY DescribedRowType
  <1> HIDE DEF new
  <1>3. CASE InsertOpen(o, out)
    <2>1. CASE UNCHANGED index
      BY <2>1
    <2>2. CASE ActiveRows(o.facts.issue) = {} /\ Write(o.wid, new)
      BY <1>2, <1>3, <2>2 DEF InsertOpen, Touches, Inserts
    <2> QED
      BY <1>3, <2>1, <2>2 DEF InsertOpen, new
  <1>4. CASE IdentityConflict(o, out)
    BY <1>4 DEF IdentityConflict
  <1>5. CASE AdvanceOpen(o, out)
    <2>1. CASE UNCHANGED index
      BY <2>1
    <2>2. CASE /\ index[o.wid].status = ActiveStatus
               /\ index[o.wid].run # o.run
               /\ o.started > index[o.wid].started
               /\ Write(o.wid, new)
      <3>1. index[o.wid] \in Row /\ index[o.wid].facts = o.facts
        BY <1>1, <1>5, RowFacts DEF AdvanceOpen, Confirmed
      <3>2. Advances(o.wid, new)
        BY <1>2, <2>2, <3>1 DEF Advances
      <3> QED
        BY <1>2, <2>2, <3>2 DEF Touches
    <2> QED
      BY <1>5, <2>1, <2>2 DEF AdvanceOpen, new
  <1> QED
    BY <1>3, <1>4, <1>5 DEF DescribeOpen

\* What applying DescribeClosed may do: nothing, insert a terminal row, close an
\* active row, or refine an unclassified one.
LEMMA ClosedShape ==
    ASSUME IndexTypeOK, NEW o \in ClosedObservation, NEW out, DescribeClosed(o, out)
    PROVE  UNCHANGED index \/ \E row \in Row : Touches(o.wid, row)
  <1> DEFINE status == TerminalStatus(o.close)
             new    == DescribedRow(o, status, o.close)
             old    == index[o.wid]
  <1>1. o.wid \in WorkflowIds /\ o.started \in Nat
    BY ProjectorAssumption DEF ClosedObservation
  <1>2. o.close \in TerminalOutcomes
    BY ProjectorAssumption DEF ClosedObservation, TerminalOutcomes
  <1>3. status \in TerminalStatuses /\ status # ActiveStatus
    BY TerminalStatusType, StatusesDiffer
  <1> HIDE DEF status
  <1>4. /\ new \in Row /\ new.facts = o.facts /\ new.run = o.run
        /\ new.started = o.started /\ new.status = status
    BY <1>2, <1>3, DescribedRowType
  <1> HIDE DEF new
  <1>5. CASE InsertClosed(o, out)
    BY <1>3, <1>4, <1>5 DEF InsertClosed, Touches, Inserts, new, status
  <1>6. CASE IdentityConflict(o, out)
    BY <1>6 DEF IdentityConflict
  <1>7. CASE AdvanceClosed(o, out)
    <2>1. old \in Row /\ old.facts = o.facts /\ old.started \in Nat
      BY <1>1, <1>7, RowFacts DEF AdvanceClosed, Confirmed
    <2>2. CASE UNCHANGED index
      BY <2>2
    <2>3. CASE ~ClosedIsStale(o) /\ old.status = ActiveStatus /\ Write(o.wid, new)
      <3>1. old.run = o.run => old.started = o.started
        BY <2>3 DEF ClosedIsStale
      <3>2. old.run # o.run => o.started > old.started
        BY <1>1, <2>1, <2>3 DEF ClosedIsStale
      <3>3. Advances(o.wid, new)
        BY <1>4, <2>1, <2>3, <3>1, <3>2 DEF Advances
      <3> QED
        BY <1>4, <2>3, <3>3 DEF Touches
    <2>4. CASE /\ old.status = "ClosedUnknown"
               /\ Write(o.wid, [old EXCEPT !.status = status, !.outcome = o.close])
      <3> DEFINE refined == [old EXCEPT !.status = status, !.outcome = o.close]
      <3>1. /\ refined \in Row /\ refined.facts = old.facts
            /\ refined.run = old.run /\ refined.started = old.started
            /\ refined.status = status
        BY <1>2, <1>3, <2>1 DEF Row
      <3>2. Refines(o.wid, refined)
        BY <1>3, <2>1, <2>4, <3>1 DEF Refines
      <3> QED
        BY <2>4, <3>1, <3>2 DEF Touches
    <2> QED
      BY <1>7, <2>2, <2>3, <2>4 DEF AdvanceClosed, new, status
  <1> QED
    BY <1>5, <1>6, <1>7 DEF DescribeClosed

\* Every call of project is one of the shapes of OpenShape and ClosedShape: the
\* start response and the definitive start failure write nothing.
LEMMA ProjectShape ==
    ASSUME IndexTypeOK, NEW o \in Observation, NEW out, Project(o, out)
    PROVE  /\ o.wid \in WorkflowIds
           /\ UNCHANGED index \/ \E row \in Row : Touches(o.wid, row)
  <1>1. o.wid \in WorkflowIds
    BY DEF Observation, OpenObservation, ClosedObservation, StartObservation
  <1>2. CASE o.kind = "DescribeOpen" /\ DescribeOpen(o, out)
    <2>1. o \in OpenObservation
      BY <1>2 DEF Observation, OpenObservation, ClosedObservation, StartObservation
    <2> QED
      BY <1>1, <1>2, <2>1, OpenShape
  <1>3. CASE o.kind = "DescribeClosed" /\ DescribeClosed(o, out)
    <2>1. o \in ClosedObservation
      BY <1>3 DEF Observation, OpenObservation, ClosedObservation, StartObservation
    <2> QED
      BY <1>1, <1>3, <2>1, ClosedShape
  <1>4. CASE StartResponse(o, out) \/ DefinitiveStartFailure(o, out)
    BY <1>1, <1>4 DEF StartResponse, DefinitiveStartFailure, IdentityConflict
  <1> QED
    BY <1>2, <1>3, <1>4 DEF Project

-----------------------------------------------------------------------------
(* What every projection preserves.                                        *)

\* project keeps the table well typed.
LEMMA ProjectType ==
    ASSUME IndexTypeOK, NEW o \in Observation, NEW out, Project(o, out)
    PROVE  IndexTypeOK'
  <1>1. CASE UNCHANGED index
    BY <1>1 DEF IndexTypeOK
  <1>2. ASSUME NEW row \in Row, Touches(o.wid, row)
        PROVE  IndexTypeOK'
    BY <1>2, ProjectShape DEF Touches, Write, IndexTypeOK
  <1> QED
    BY <1>1, <1>2, ProjectShape

\* The one delicate case of exclusivity is an insert: an active row comes in
\* only when the issue has none.  An advanced row was active before and keeps
\* its facts; a refined row is not active.
LEMMA ProjectExclusive ==
    ASSUME IndexTypeOK, OneActivePerIssue,
           NEW o \in Observation, NEW out, Project(o, out)
    PROVE  OneActivePerIssue'
  <1>1. CASE UNCHANGED index
    BY <1>1 DEF OneActivePerIssue
  <1>2. ASSUME NEW row \in Row, Touches(o.wid, row)
        PROVE  OneActivePerIssue'
    <2> DEFINE w == o.wid
    <2>1. /\ w \in WorkflowIds
          /\ index'[w] = row
          /\ \A v \in WorkflowIds \ {w} : index'[v] = index[v]
      BY <1>2, ProjectShape DEF Touches, Write, IndexTypeOK
    <2> HIDE DEF w
    <2> SUFFICES ASSUME NEW v \in WorkflowIds, v # w,
                        index[v].status = ActiveStatus,
                        row.status = ActiveStatus,
                        index[v].facts.issue = row.facts.issue
                 PROVE  FALSE
      BY <2>1 DEF OneActivePerIssue
    <2>2. CASE Inserts(w, row)
      BY <2>2 DEF Inserts, ActiveRows
    <2>3. CASE Advances(w, row)
      BY <2>1, <2>3 DEF Advances, OneActivePerIssue
    <2>4. CASE Refines(w, row)
      BY <2>4, StatusesDiffer DEF Refines
    <2> QED
      BY <1>2, <2>2, <2>3, <2>4 DEF Touches, w
  <1> QED
    BY <1>1, <1>2, ProjectShape

\* project moves every stored row forward only (RowStep).
LEMMA ProjectAdvances ==
    ASSUME IndexTypeOK, NEW o \in Observation, NEW out, Project(o, out),
           NEW w \in WorkflowIds
    PROVE  RowStep(w)
  <1>1. CASE index'[w] = index[w]
    <2>1. index[w] # NoRow => index[w].status \in TerminalStatuses \cup {ActiveStatus}
      BY RowFacts DEF Row
    <2> QED
      BY <1>1, <2>1 DEF RowStep
  <1>2. ASSUME NEW row \in Row, Touches(o.wid, row), w = o.wid
        PROVE  RowStep(w)
    <2>1. index'[w] = row
      BY <1>2, ProjectShape DEF Touches, Write, IndexTypeOK
    <2>2. /\ row # NoRow
          /\ index[w] # NoRow => index[w] \in Row
      BY RowFacts DEF NoRow, Row, TerminalStatuses, ActiveStatus
    <2>3. CASE Inserts(w, row)
      BY <2>3 DEF Inserts, RowStep
    <2>4. CASE Advances(w, row)
      BY <2>1, <2>2, <2>4, StatusesDiffer DEF Advances, RowStep
    <2>5. CASE Refines(w, row)
      BY <2>1, <2>2, <2>5 DEF Refines, RowStep
    <2> QED
      BY <1>2, <2>3, <2>4, <2>5 DEF Touches
  <1>3. ASSUME NEW row \in Row, Touches(o.wid, row), w # o.wid
        PROVE  index'[w] = index[w]
    BY <1>3, ProjectShape DEF Touches, Write, IndexTypeOK
  <1> QED
    BY <1>1, <1>2, <1>3, ProjectShape

-----------------------------------------------------------------------------
(* The projector on its own.                                               *)

\* One call of project keeps the table and its answer well typed.
LEMMA ApplyType ==
    ASSUME ProjectorTypeOK, NEW o \in Observation, Apply(o)
    PROVE  ProjectorTypeOK'
  BY ProjectType DEF ProjectorTypeOK, Apply

\* The table and the last result stay well typed.
THEOREM TypeCorrect == ProjectorSpec => []ProjectorTypeOK
  <1>1. ProjectorInit => ProjectorTypeOK
    BY DEF ProjectorInit, IndexInit, ProjectorTypeOK, IndexTypeOK
  <1>2. ProjectorTypeOK /\ [ProjectorNext]_projectorVars => ProjectorTypeOK'
    BY ApplyType DEF ProjectorNext, projectorVars, ProjectorTypeOK, IndexTypeOK
  <1> QED
    BY <1>1, <1>2, PTL DEF ProjectorSpec

\* Two Workflow IDs of one issue are never both projected as running, whatever
\* observations are projected, repeated or reordered (project and the partial
\* unique index uq_workflow_index_active_issue).
THEOREM Exclusive == ProjectorSpec => []OneActivePerIssue
  <1> DEFINE Inv == ProjectorTypeOK /\ OneActivePerIssue
  <1>1. ProjectorInit => OneActivePerIssue
    BY DEF ProjectorInit, IndexInit, OneActivePerIssue, NoRow, ActiveStatus
  <1>2. Inv /\ [ProjectorNext]_projectorVars => OneActivePerIssue'
    <2> SUFFICES ASSUME ProjectorTypeOK, OneActivePerIssue, [ProjectorNext]_projectorVars
                 PROVE  OneActivePerIssue'
      OBVIOUS
    <2>1. ASSUME NEW o \in Observation, Apply(o)
          PROVE  OneActivePerIssue'
      BY <2>1, ProjectExclusive DEF ProjectorTypeOK, Apply
    <2>2. CASE UNCHANGED projectorVars
      BY <2>2 DEF projectorVars, OneActivePerIssue
    <2> QED
      BY <2>1, <2>2 DEF ProjectorNext
  <1> QED
    BY <1>1, <1>2, TypeCorrect, PTL DEF ProjectorSpec

\* Stored rows only move forward: facts are immutable, the run locator moves
\* only to a later start time, a terminal row never reopens and is reclassified
\* only out of "unclassified" (project, both Describe arms).
THEOREM Monotone == ProjectorSpec => RowsOnlyAdvance
  <1>1. ProjectorTypeOK /\ [ProjectorNext]_projectorVars => [\A w \in WorkflowIds : RowStep(w)]_index
    <2> SUFFICES ASSUME ProjectorTypeOK, [ProjectorNext]_projectorVars, index' # index,
                        NEW w \in WorkflowIds
                 PROVE  RowStep(w)
      OBVIOUS
    <2>1. PICK o \in Observation : Apply(o)
      BY DEF ProjectorNext, projectorVars
    <2> QED
      BY <2>1, ProjectAdvances DEF ProjectorTypeOK, Apply
  <1> QED
    BY <1>1, TypeCorrect, PTL DEF ProjectorSpec, RowsOnlyAdvance

-----------------------------------------------------------------------------
(* Replays.                                                                *)

\* The stored row says what a Describe said: the same activation, the same run
\* and start, and the status and outcome that Describe stands for.
Recorded(o) ==
    /\ index[o.wid] \in Row
    /\ index[o.wid].facts = o.facts
    /\ index[o.wid].run = o.run
    /\ index[o.wid].started = o.started
    /\ \/ /\ o.kind = "DescribeOpen"
          /\ index[o.wid].status = ActiveStatus
       \/ /\ o.kind = "DescribeClosed"
          /\ index[o.wid].status = TerminalStatus(o.close)
          /\ index[o.wid].outcome = o.close

\* An applied observation is recorded until the next one is projected.
LastOK ==
    last.outcome = "Applied" => last.obs \in Observation /\ Recorded(last.obs)

\* Only a Describe is ever applied, and then the row of its Workflow ID records
\* it (project, the insert, advance and refine arms).
LEMMA AppliedIsRecorded ==
    ASSUME IndexTypeOK, NEW o \in Observation, Project(o, "Applied")
    PROVE  Recorded(o)'
  <1>1. o.wid \in WorkflowIds
    BY ProjectShape
  <1>2. \A row : Write(o.wid, row) => index'[o.wid] = row
    BY <1>1 DEF Write, IndexTypeOK
  <1>3. CASE o.kind = "DescribeOpen" /\ DescribeOpen(o, "Applied")
    <2>1. o \in OpenObservation
      BY <1>3 DEF Observation, OpenObservation, ClosedObservation, StartObservation
    <2> DEFINE new == DescribedRow(o, ActiveStatus, NoOutcome)
    <2>2. /\ new \in Row /\ new.facts = o.facts /\ new.run = o.run
          /\ new.started = o.started /\ new.status = ActiveStatus
      BY <2>1, DescribedRowType
    <2> HIDE DEF new
    <2>3. Write(o.wid, new)
      BY <1>3 DEF DescribeOpen, InsertOpen, IdentityConflict, AdvanceOpen, new
    <2> QED
      BY <1>2, <1>3, <2>2, <2>3 DEF Recorded
  <1>4. CASE o.kind = "DescribeClosed" /\ DescribeClosed(o, "Applied")
    <2>1. o \in ClosedObservation /\ o.close \in TerminalOutcomes
      BY <1>4, ProjectorAssumption
      DEF Observation, OpenObservation, ClosedObservation, StartObservation, TerminalOutcomes
    <2> DEFINE status == TerminalStatus(o.close)
               new    == DescribedRow(o, status, o.close)
               old    == index[o.wid]
               finer  == [old EXCEPT !.status = status, !.outcome = o.close]
    <2>2. status \in TerminalStatuses
      BY TerminalStatusType
    <2> HIDE DEF status
    <2>3. /\ new \in Row /\ new.facts = o.facts /\ new.run = o.run
          /\ new.started = o.started /\ new.status = status /\ new.outcome = o.close
      BY <2>1, <2>2, DescribedRowType DEF DescribedRow
    <2> HIDE DEF new
    <2>4. CASE Write(o.wid, new)
      BY <1>2, <1>4, <2>3, <2>4 DEF Recorded, status
    <2>5. CASE /\ Confirmed(o) /\ ~ClosedIsStale(o)
               /\ old.status = "ClosedUnknown" /\ Write(o.wid, finer)
      <3>1. old \in Row /\ old.facts = o.facts
        BY <1>1, <2>5, RowFacts DEF Confirmed
      <3>2. old.run = o.run /\ old.started = o.started
        BY <2>5, StatusesDiffer DEF ClosedIsStale
      <3>3. /\ finer \in Row /\ finer.facts = o.facts /\ finer.run = o.run
            /\ finer.started = o.started /\ finer.status = status /\ finer.outcome = o.close
        BY <2>1, <2>2, <3>1, <3>2 DEF Row
      <3> HIDE DEF finer
      <3> QED
        BY <1>2, <1>4, <2>5, <3>3 DEF Recorded, status
    <2> QED
      BY <1>4, <2>4, <2>5
      DEF DescribeClosed, InsertClosed, IdentityConflict, AdvanceClosed, new, status
  <1> QED
    BY <1>3, <1>4 DEF Project, StartResponse, DefinitiveStartFailure, IdentityConflict

\* Projecting a recorded Describe again is reported as already applied and
\* writes nothing (project, the AlreadyApplied arms).
LEMMA RecordedIsReplayed ==
    ASSUME IndexTypeOK, NEW o \in Observation, NEW out, Recorded(o), Project(o, out)
    PROVE  out = "AlreadyApplied" /\ UNCHANGED index
  <1>1. o.wid \in WorkflowIds
    BY ProjectShape
  <1>2. index[o.wid] # NoRow
    BY <1>1, RowFacts DEF Recorded
  <1>3. CASE o.kind = "DescribeOpen" /\ DescribeOpen(o, out)
    BY <1>2, <1>3 DEF Recorded, DescribeOpen, InsertOpen, IdentityConflict, AdvanceOpen
  <1>4. CASE o.kind = "DescribeClosed" /\ DescribeClosed(o, out)
    <2>1. TerminalStatus(o.close) \in TerminalStatuses
      BY TerminalStatusType
    <2>2. ~ClosedIsStale(o)
      BY DEF Recorded, ClosedIsStale
    <2>3. AdvanceClosed(o, out)
      BY <1>2, <1>4 DEF Recorded, DescribeClosed, InsertClosed, IdentityConflict
    <2>4. /\ index[o.wid].status = TerminalStatus(o.close)
          /\ index[o.wid].outcome = o.close
      BY <1>4 DEF Recorded
    <2> QED
      BY <2>1, <2>2, <2>3, <2>4, StatusesDiffer DEF AdvanceClosed
  <1> QED
    BY <1>3, <1>4 DEF Project, Recorded

\* Replaying the observation applied last changes nothing and is reported as
\* already applied, so a caller that lost the answer may repeat the call.
THEOREM ReplaySafe == ProjectorSpec => ReplayIsIdempotent
  <1>1. ProjectorInit => LastOK
    BY DEF ProjectorInit, NoProjection, LastOK
  <1>2. ProjectorTypeOK /\ LastOK /\ [ProjectorNext]_projectorVars => LastOK'
    <2> SUFFICES ASSUME ProjectorTypeOK, LastOK, [ProjectorNext]_projectorVars
                 PROVE  LastOK'
      OBVIOUS
    <2>1. ASSUME NEW o \in Observation, Apply(o)
          PROVE  LastOK'
      <3>1. PICK out \in Outcomes : Project(o, out) /\ last' = [obs |-> o, outcome |-> out]
        BY <2>1 DEF Apply
      <3>2. last'.obs = o /\ last'.outcome = out
        BY <3>1
      <3>3. CASE out = "Applied"
        <4>1. Recorded(o)'
          BY <3>1, <3>3, AppliedIsRecorded DEF ProjectorTypeOK
        <4> QED
          BY <3>2, <4>1 DEF LastOK, Recorded
      <3> QED
        BY <3>2, <3>3 DEF LastOK
    <2>2. CASE UNCHANGED projectorVars
      BY <2>2 DEF projectorVars, LastOK, Recorded
    <2> QED
      BY <2>1, <2>2 DEF ProjectorNext
  <1>3. /\ ProjectorTypeOK
        /\ LastOK
        /\ [ProjectorNext]_projectorVars
        => [(last.outcome = "Applied" /\ last'.obs = last.obs)
              => last'.outcome = "AlreadyApplied" /\ UNCHANGED index]_projectorVars
    <2> SUFFICES ASSUME ProjectorTypeOK, LastOK, [ProjectorNext]_projectorVars,
                        projectorVars' # projectorVars,
                        last.outcome = "Applied", last'.obs = last.obs
                 PROVE  last'.outcome = "AlreadyApplied" /\ UNCHANGED index
      OBVIOUS
    <2>1. PICK o \in Observation : Apply(o)
      BY DEF ProjectorNext
    <2>2. PICK out \in Outcomes : Project(o, out) /\ last' = [obs |-> o, outcome |-> out]
      BY <2>1 DEF Apply
    <2>3. last'.outcome = out /\ last.obs = o
      BY <2>2
    <2>4. Recorded(o)
      BY <2>3 DEF LastOK
    <2> QED
      BY <2>2, <2>3, <2>4, RecordedIsReplayed DEF ProjectorTypeOK
  <1> QED
    BY <1>1, <1>2, <1>3, TypeCorrect, PTL DEF ProjectorSpec, ReplayIsIdempotent

-----------------------------------------------------------------------------
(* The coordinator. *)

\* Every run but the last continued as new, the last one never did, and start
\* times follow the order of the runs and Temporal's clock.
ChainOK(w) ==
    /\ Len(temporal[w]) <= MaxRuns
    /\ \A n \in 1..Len(temporal[w]) :
          /\ temporal[w][n].status = "ContinuedAsNew" <=> n < Len(temporal[w])
          /\ temporal[w][n].started <= clock
    /\ \A m, n \in 1..Len(temporal[w]) :
          m < n => temporal[w][m].started <= temporal[w][n].started

\* A request the server executed, or refused as a duplicate, has a chain of
\* runs.  An invocation fails only after its answer or before its request, as
\* malformed exactly when the server has such a chain.
Seen == {"executed", "duplicate"}
StartOK(s) ==
    /\ (start[s].pc # "unused" /\ start[s].request \in Seen)
          => temporal[BuildWorkflowId(start[s].act)] # <<>>
    /\ start[s].pc = "failed" =>
          IF start[s].evidence = "Malformed" THEN start[s].request \in Seen
          ELSE start[s].request \notin {"flying", "executed"}

\* A closed chain: its last run has a close status.
Closed(w) == temporal[w] # <<>> /\ ~IsOpen(w)

\* n is a run of the chain of w, started when recorded; a recorded close is the
\* close of the whole chain.
RunOf(w, n, started) ==
    n \in 1..Len(temporal[w]) /\ started = temporal[w][n].started
ClosedAt(w, n, status) ==
    n = Len(temporal[w]) /\ Closed(w) /\ status = temporal[w][n].status

\* What a reconciler in progress has described.
ReconOK(r) ==
    recon[r].pc # "idle" =>
        LET w == BuildWorkflowId(recon[r].act) IN
        /\ RunOf(w, recon[r].run, recon[r].started)
        /\ recon[r].status \in OpenStatuses \cup CloseStatuses
        /\ recon[r].status \in CloseStatuses =>
              ClosedAt(w, recon[r].run, recon[r].status)

\* What a stored row records; the facts name an issue with the number that is
\* part of the Workflow ID.
RowOK(w) ==
    index[w] # NoRow =>
        /\ RunOf(w, index[w].run, index[w].started)
        /\ index[w].facts.issue \in Issues
        /\ index[w].facts.issue[2] = w.number
        /\ index[w].status # ActiveStatus =>
              /\ index[w].status = TerminalStatus(index[w].outcome)
              /\ ClosedAt(w, index[w].run, index[w].outcome)

CInv ==
    /\ TypeOK
    /\ \A w \in WorkflowIds : ChainOK(w) /\ RowOK(w)
    /\ \A s \in Starts : StartOK(s)
    /\ \A r \in Reconcilers : ReconOK(r)
    /\ OneExecutionPerActivation
    /\ OneActivePerIssue

-----------------------------------------------------------------------------
(* Temporal's side: chains only grow.                                      *)

\* A chain keeps its runs and their start times, and a closed one is final.
ChainStep(w) ==
    /\ Len(temporal[w]) <= Len(temporal'[w])
    /\ \A n \in 1..Len(temporal[w]) :
          temporal'[w][n].started = temporal[w][n].started
    /\ Closed(w) => temporal'[w] = temporal[w]

\* One step of the server: the chain of w becomes "new", the clock becomes t.
Becomes(w, new, t) ==
    /\ temporal' = [temporal EXCEPT ![w] = new]
    /\ clock' = t

ServerOK ==
    /\ temporal' \in [WorkflowIds -> Seq(RunRecord)]
    /\ clock' \in Times
    /\ \A w \in WorkflowIds : ChainOK(w)' /\ ChainStep(w)

\* The statuses a run may have while open, closed and continued are distinct
\* (CoordinatorTemporalStatus), and no close is unclassified.
LEMMA RunStatusesDiffer ==
    /\ OpenStatuses \cap CloseStatuses = {}
    /\ "ContinuedAsNew" \notin OpenStatuses \cup CloseStatuses
    /\ Unclassified \notin CloseStatuses
    /\ CloseStatuses \subseteq TerminalOutcomes
  BY ProjectorAssumption
     DEF OpenStatuses, KnownCloseStatuses, Unclassified, TerminalOutcomes

\* The elements of a chain are run records with natural start times.
LEMMA ChainFacts ==
    ASSUME TypeOK, NEW w \in WorkflowIds
    PROVE  /\ temporal[w] \in Seq(RunRecord)
           /\ Len(temporal[w]) \in Nat
           /\ temporal[w] # <<>> => Len(temporal[w]) \in 1..Len(temporal[w])
           /\ \A n \in 1..Len(temporal[w]) :
                 /\ temporal[w][n] \in RunRecord
                 /\ temporal[w][n].started \in Nat
                 /\ temporal[w][n].status \in RunStatuses
  <1>1. temporal[w] \in Seq(RunRecord)
    BY DEF TypeOK
  <1>2. Len(temporal[w]) \in Nat
    BY <1>1, LenProperties
  <1>3. temporal[w] # <<>> => Len(temporal[w]) \in 1..Len(temporal[w])
    BY <1>1, EmptySeq
  <1>4. \A n \in 1..Len(temporal[w]) : temporal[w][n] \in RunRecord
    BY <1>1, ElementOfSeq
  <1> QED
    BY <1>1, <1>2, <1>3, <1>4, ProjectorAssumption DEF RunRecord

\* Setting the status of the current run changes that status and nothing else.
LEMMA SetStatusFacts ==
    ASSUME TypeOK, NEW w \in WorkflowIds, IsOpen(w), NEW st \in RunStatuses
    PROVE  /\ SetStatus(w, st) \in Seq(RunRecord)
           /\ Len(SetStatus(w, st)) = Len(temporal[w])
           /\ \A n \in 1..Len(temporal[w]) :
                 /\ SetStatus(w, st)[n].started = temporal[w][n].started
                 /\ SetStatus(w, st)[n].status =
                       IF n = Len(temporal[w]) THEN st ELSE temporal[w][n].status
  <1> DEFINE k == Len(temporal[w])
             e == [temporal[w][k] EXCEPT !.status = st]
  <1>1. k \in 1..k /\ temporal[w] \in Seq(RunRecord) /\ temporal[w][k] \in RunRecord
    BY ChainFacts DEF IsOpen
  <1>2. e \in RunRecord /\ e.started = temporal[w][k].started /\ e.status = st
    BY <1>1 DEF RunRecord
  <1>3. SetStatus(w, st) = [temporal[w] EXCEPT ![k] = e]
    BY DEF SetStatus, Current
  <1> HIDE DEF e
  <1>4. /\ [temporal[w] EXCEPT ![k] = e] \in Seq(RunRecord)
        /\ Len([temporal[w] EXCEPT ![k] = e]) = k
        /\ \A j \in 1..k : [temporal[w] EXCEPT ![k] = e][j] =
                               IF j = k THEN e ELSE temporal[w][j]
    BY <1>1, <1>2, ExceptSeq
  <1> QED
    BY <1>2, <1>3, <1>4

\* If the chain of an execution that is not closed becomes a well formed,
\* longer or equally long one with the same start times, every chain is well
\* formed and has only grown.
LEMMA ServerStep ==
    ASSUME CInv, NEW w \in WorkflowIds, ~Closed(w),
           NEW new \in Seq(RunRecord), NEW t \in Times, clock <= t,
           Becomes(w, new, t),
           Len(temporal[w]) <= Len(new), Len(new) <= MaxRuns,
           \A n \in 1..Len(temporal[w]) : new[n].started = temporal[w][n].started,
           \A n \in 1..Len(new) :
              /\ new[n].status = "ContinuedAsNew" <=> n < Len(new)
              /\ new[n].started <= t,
           \A m, n \in 1..Len(new) : m < n => new[m].started <= new[n].started
    PROVE  ServerOK
  <1>1. /\ temporal \in [WorkflowIds -> Seq(RunRecord)]
        /\ clock \in Nat /\ t \in Nat
    BY ProjectorAssumption DEF CInv, TypeOK
  <1>2. /\ temporal'[w] = new /\ clock' = t
        /\ \A v \in WorkflowIds \ {w} : temporal'[v] = temporal[v]
        /\ temporal' \in [WorkflowIds -> Seq(RunRecord)]
    BY <1>1 DEF Becomes
  <1>3. ChainOK(w)' /\ ChainStep(w)
    BY <1>1, <1>2 DEF ChainOK, ChainStep
  <1>4. ASSUME NEW v \in WorkflowIds, v # w
        PROVE  ChainOK(v)' /\ ChainStep(v)
    <2>1. temporal'[v] = temporal[v]
      BY <1>2, <1>4
    <2>2. ChainOK(v) /\ Len(temporal[v]) \in Nat
      BY ChainFacts DEF CInv
    <2>3. \A n \in 1..Len(temporal[v]) : temporal[v][n].started \in Nat
      BY ChainFacts DEF CInv
    <2>4. ChainStep(v)
      BY <2>1, <2>2 DEF ChainStep
    <2>5. \A n \in 1..Len(temporal[v]) : temporal[v][n].started <= t
      BY <1>1, <2>2, <2>3 DEF ChainOK
    <2>6. ChainOK(v)'
      BY <1>2, <2>1, <2>2, <2>5 DEF ChainOK
    <2> QED
      BY <2>4, <2>6
  <1> QED
    BY <1>2, <1>3, <1>4 DEF ServerOK

\* The first run of a Workflow ID and the next run of a chain that continues as
\* new (external: the server behind client.rs).
LEMMA NewRunStep ==
    ASSUME CInv, NEW w \in WorkflowIds, ~Closed(w),
           Len(temporal[w]) < MaxRuns,
           NEW prior \in Seq(RunRecord), NewRun(w, prior),
           Len(prior) = Len(temporal[w]),
           \A n \in 1..Len(temporal[w]) :
              /\ prior[n].started = temporal[w][n].started
              /\ prior[n].status = "ContinuedAsNew"
    PROVE  ServerOK /\ temporal'[w] # <<>> /\ \A v \in WorkflowIds \ {w} : temporal'[v] = temporal[v]
  <1> PICK t \in {clock, clock + 1} \cap Times :
         /\ clock' = t
         /\ temporal' = [temporal EXCEPT ![w] =
                           Append(prior, [started |-> t, status |-> "Running"])]
    BY DEF NewRun
  <1> DEFINE run == [started |-> t, status |-> "Running"]
             new == Append(prior, run)
             k   == Len(temporal[w])
  <1>1. run \in RunRecord /\ run.started = t /\ run.status = "Running"
    BY DEF RunRecord, RunStatuses, OpenStatuses
  <1>2. /\ TypeOK /\ ChainOK(w) /\ k \in Nat
        /\ clock \in Nat /\ t \in Nat /\ clock <= t /\ MaxRuns \in Nat
        /\ \A n \in 1..k : temporal[w][n].started \in Nat
    <2>1. TypeOK /\ ChainOK(w)
      BY DEF CInv
    <2>2. clock \in Nat /\ t \in Nat /\ MaxRuns \in Nat
      BY <2>1, ProjectorAssumption, CoordinatorAssumption DEF TypeOK
    <2>3. clock <= t
      BY <2>2
    <2> QED
      BY <2>1, <2>2, <2>3, ChainFacts
  <1> HIDE DEF run
  <1>3. /\ new \in Seq(RunRecord)
        /\ new # <<>>
        /\ Len(new) = k + 1
        /\ \A n \in 1..k : new[n] = prior[n]
        /\ new[k + 1] = run
    BY <1>1, AppendProperties
  <1>4. Becomes(w, new, t)
    BY DEF Becomes, run
  <1> HIDE DEF new, k
  <1>5. \A n \in 1..Len(new) :
           /\ new[n].status = "ContinuedAsNew" <=> n < Len(new)
           /\ new[n].started <= t
    <2> SUFFICES ASSUME NEW n \in 1..Len(new)
                 PROVE  /\ new[n].status = "ContinuedAsNew" <=> n < Len(new)
                        /\ new[n].started <= t
      OBVIOUS
    <2>1. CASE n = k + 1
      BY <1>1, <1>2, <1>3, <2>1
    <2>2. CASE n \in 1..k
      <3>1. new[n] = prior[n] /\ n < Len(new)
        BY <1>2, <1>3, <2>2
      <3>2. /\ prior[n].status = "ContinuedAsNew"
            /\ prior[n].started = temporal[w][n].started
        BY <2>2 DEF k
      <3>3. prior[n].started <= clock /\ prior[n].started \in Nat
        BY <1>2, <2>2, <3>2 DEF ChainOK, k
      <3> QED
        BY <1>2, <3>1, <3>2, <3>3
    <2> QED
      BY <1>2, <1>3, <2>1, <2>2
  <1>6. \A m, n \in 1..Len(new) : m < n => new[m].started <= new[n].started
    <2> SUFFICES ASSUME NEW m \in 1..Len(new), NEW n \in 1..Len(new), m < n
                 PROVE  new[m].started <= new[n].started
      OBVIOUS
    <2>1. m \in 1..k
      BY <1>2, <1>3
    <2>2. CASE n = k + 1
      BY <1>1, <1>3, <1>5, <2>2
    <2>3. CASE n \in 1..k
      BY <1>2, <1>3, <2>1, <2>3 DEF ChainOK, k
    <2> QED
      BY <1>2, <1>3, <2>2, <2>3
  <1>7. /\ k <= Len(new) /\ Len(new) <= MaxRuns
        /\ \A n \in 1..k : new[n].started = temporal[w][n].started
    BY <1>2, <1>3 DEF k
  <1>8. ServerOK
    BY <1>2, <1>3, <1>4, <1>5, <1>6, <1>7, ServerStep DEF k
  <1> QED
    BY <1>2, <1>3, <1>4, <1>8 DEF Becomes, TypeOK

\* Closing or pausing the current run.
LEMMA SetStatusStep ==
    ASSUME CInv, NEW w \in WorkflowIds, IsOpen(w),
           NEW st \in OpenStatuses \cup CloseStatuses,
           temporal' = [temporal EXCEPT ![w] = SetStatus(w, st)],
           UNCHANGED clock
    PROVE  ServerOK
  <1> DEFINE new == SetStatus(w, st)
             k   == Len(temporal[w])
  <1>1. /\ TypeOK /\ ChainOK(w) /\ k \in Nat
        /\ clock \in Times /\ clock \in Nat
    BY ChainFacts, ProjectorAssumption DEF CInv, TypeOK
  <1>2. st \in RunStatuses /\ st # "ContinuedAsNew"
    BY RunStatusesDiffer DEF RunStatuses
  <1>3. /\ new \in Seq(RunRecord) /\ Len(new) = k
        /\ \A n \in 1..k :
              /\ new[n].started = temporal[w][n].started
              /\ new[n].status = IF n = k THEN st ELSE temporal[w][n].status
    BY <1>1, <1>2, SetStatusFacts
  <1>4. Becomes(w, new, clock) /\ ~Closed(w)
    BY DEF Becomes, Closed
  <1> HIDE DEF new
  <1>5. /\ \A n \in 1..Len(new) :
              /\ new[n].status = "ContinuedAsNew" <=> n < Len(new)
              /\ new[n].started <= clock
        /\ \A m, n \in 1..Len(new) : m < n => new[m].started <= new[n].started
    BY <1>1, <1>2, <1>3 DEF ChainOK
  <1>6. k <= Len(new) /\ Len(new) <= MaxRuns /\ clock <= clock
    BY <1>1, <1>3 DEF ChainOK
  <1> HIDE DEF k
  <1> QED
    BY <1>1, <1>3, <1>4, <1>5, <1>6, ServerStep DEF k

\* What a reconciler described and what a row records survives every step of
\* the server.
LEMMA GrowthKeeps ==
    ASSUME CInv, ServerOK, NEW w \in WorkflowIds, NEW n, NEW started,
           RunOf(w, n, started)
    PROVE  /\ RunOf(w, n, started)'
           /\ \A status : ClosedAt(w, n, status) => ClosedAt(w, n, status)'
  <1>1. /\ Len(temporal[w]) \in Nat /\ Len(temporal'[w]) \in Nat
        /\ ChainStep(w)
    BY ChainFacts, LenProperties DEF CInv, ServerOK
  <1>2. RunOf(w, n, started)'
    BY <1>1 DEF RunOf, ChainStep
  <1>3. ASSUME NEW status, ClosedAt(w, n, status)
        PROVE  ClosedAt(w, n, status)'
    BY <1>1, <1>3 DEF ClosedAt, Closed, ChainStep, IsOpen, Current
  <1> QED
    BY <1>2, <1>3

-----------------------------------------------------------------------------
(* The steps that leave the index alone.                                   *)

\* An activation names a Workflow ID (build_workflow_id).
LEMMA StartTyped ==
    ASSUME TypeOK, NEW s \in Starts, start[s].pc # "unused"
    PROVE  /\ start[s] \in StartRecord
           /\ start[s].act \in Activation
           /\ BuildWorkflowId(start[s].act) \in WorkflowIds
  BY CoordinatorAssumption DEF TypeOK, StartRecord, NoStart

\* A reconciler in progress holds an activation and a typed description.
LEMMA ReconTyped ==
    ASSUME TypeOK, NEW r \in Reconcilers, recon[r].pc # "idle"
    PROVE  /\ recon[r].pc \in {"described", "bound"}
           /\ recon[r].act \in Activation
           /\ BuildWorkflowId(recon[r].act) \in WorkflowIds
           /\ recon[r].run \in Runs
           /\ recon[r].started \in Times
           /\ recon[r].status \in RunStatuses
  BY CoordinatorAssumption DEF TypeOK, ReconRecord

\* The executed requests and what they started survive any step that executes
\* none: requests never become "executed" on the client's side.
ExecutesNone ==
    \A s \in Starts :
        (start'[s].pc # "unused" /\ start'[s].request = "executed") =>
            /\ start[s].pc # "unused" /\ start[s].request = "executed"
            /\ start'[s].act = start[s].act

\* What callers do - evaluate, begin, take an answer, give up, crash - preserves
\* the invariant as long as it executes nothing and fails nothing executed.
LEMMA ClientKeeps ==
    ASSUME CInv, UNCHANGED <<tracker, temporal, clock, recon, index>>,
           activations' \subseteq Activation,
           start' \in [Starts -> StartRecord \cup {NoStart}],
           ExecutesNone, \A s \in Starts : StartOK(s)'
    PROVE  CInv'
  <1>1. TypeOK'
    BY DEF CInv, TypeOK, IndexTypeOK
  <1>2. \A w \in WorkflowIds : ChainOK(w)' /\ RowOK(w)'
    BY DEF CInv, ChainOK, RowOK, RunOf, ClosedAt, Closed, IsOpen, Current
  <1>3. \A r \in Reconcilers : ReconOK(r)'
    BY DEF CInv, ReconOK, RunOf, ClosedAt, Closed, IsOpen, Current
  <1>4. OneExecutionPerActivation'
    BY DEF CInv, OneExecutionPerActivation, ExecutesNone
  <1>5. OneActivePerIssue'
    BY DEF CInv, OneActivePerIssue
  <1> QED
    BY <1>1, <1>2, <1>3, <1>4, <1>5 DEF CInv

\* A step of the server preserves the invariant, given what it does to the
\* requests.
LEMMA ServerKeeps ==
    ASSUME CInv, ServerOK, UNCHANGED <<tracker, activations, recon, index>>,
           start' \in [Starts -> StartRecord \cup {NoStart}],
           \A s \in Starts : StartOK(s)',
           OneExecutionPerActivation'
    PROVE  CInv'
  <1>1. TypeOK'
    BY DEF CInv, ServerOK, TypeOK, IndexTypeOK
  <1>2. ASSUME NEW w \in WorkflowIds
        PROVE  ChainOK(w)' /\ RowOK(w)'
    <2>1. RowOK(w) /\ ChainOK(w)'
      BY DEF CInv, ServerOK
    <2>2. CASE index[w] = NoRow
      BY <2>1, <2>2 DEF RowOK
    <2>3. CASE index[w] # NoRow
      <3>1. /\ RunOf(w, index[w].run, index[w].started)'
            /\ \A status : ClosedAt(w, index[w].run, status)
                             => ClosedAt(w, index[w].run, status)'
        BY <2>1, <2>3, GrowthKeeps DEF RowOK
      <3> QED
        BY <2>1, <3>1 DEF RowOK
    <2> QED
      BY <2>2, <2>3
  <1>3. ASSUME NEW r \in Reconcilers, recon[r].pc # "idle"
        PROVE  ReconOK(r)'
    <2> DEFINE w == BuildWorkflowId(recon[r].act)
    <2>1. w \in WorkflowIds /\ ReconOK(r)
      BY <1>3, ReconTyped DEF CInv
    <2>2. /\ RunOf(w, recon[r].run, recon[r].started)'
          /\ \A status : ClosedAt(w, recon[r].run, status)
                           => ClosedAt(w, recon[r].run, status)'
      BY <1>3, <2>1, GrowthKeeps DEF ReconOK
    <2> QED
      BY <2>1, <2>2 DEF ReconOK
  <1>4. \A r \in Reconcilers : ReconOK(r)'
    BY <1>3 DEF ReconOK
  <1>5. OneActivePerIssue'
    BY DEF CInv, OneActivePerIssue
  <1> QED
    BY <1>1, <1>2, <1>4, <1>5 DEF CInv

\* ContinueAsNew, CloseRun and PauseRun leave the requests alone.
LEMMA RunKeeps ==
    ASSUME CInv, ServerOK, UNCHANGED <<tracker, activations, start, recon, index>>
    PROVE  CInv'
  <1>1. start' \in [Starts -> StartRecord \cup {NoStart}]
    BY DEF CInv, TypeOK
  <1>2. ASSUME NEW s \in Starts, start[s].pc # "unused",
               start[s].request \in Seen
        PROVE  temporal'[BuildWorkflowId(start[s].act)] # <<>>
    <2> DEFINE w == BuildWorkflowId(start[s].act)
    <2>1. w \in WorkflowIds /\ temporal[w] # <<>>
      BY <1>2, StartTyped DEF CInv, StartOK
    <2>2. /\ Len(temporal[w]) >= 1
          /\ Len(temporal'[w]) >= Len(temporal[w])
          /\ Len(temporal[w]) \in Nat
      BY <2>1, ChainFacts DEF CInv, ServerOK, ChainStep
    <2> QED
      BY <2>1, <2>2, EmptySeq
  <1>3. \A s \in Starts : StartOK(s)'
    BY <1>2 DEF StartOK, CInv
  <1>4. OneExecutionPerActivation'
    BY DEF CInv, OneExecutionPerActivation
  <1> QED
    BY <1>1, <1>3, <1>4, ServerKeeps

\* Continue-as-new preserves the invariant.
LEMMA ContinueAsNewKeeps ==
    ASSUME CInv, NEW w \in WorkflowIds, ContinueAsNew(w)
    PROVE  CInv' /\ ServerOK
  <1> DEFINE prior == SetStatus(w, "ContinuedAsNew")
  <1>1. TypeOK /\ ChainOK(w) /\ IsOpen(w) /\ ~Closed(w)
    BY DEF CInv, ContinueAsNew, Closed
  <1>2. /\ prior \in Seq(RunRecord) /\ Len(prior) = Len(temporal[w])
        /\ \A n \in 1..Len(temporal[w]) :
              /\ prior[n].started = temporal[w][n].started
              /\ prior[n].status = IF n = Len(temporal[w]) THEN "ContinuedAsNew"
                                                           ELSE temporal[w][n].status
    BY <1>1, SetStatusFacts DEF RunStatuses
  <1>3. \A n \in 1..Len(temporal[w]) : prior[n].status = "ContinuedAsNew"
    BY <1>1, <1>2, ChainFacts DEF ChainOK
  <1>4. NewRun(w, prior) /\ Len(temporal[w]) < MaxRuns
    BY DEF ContinueAsNew, Current
  <1> HIDE DEF prior
  <1>5. ServerOK
    BY <1>1, <1>2, <1>3, <1>4, NewRunStep
  <1> QED
    BY <1>5, RunKeeps DEF ContinueAsNew

\* Closing and pausing the current run preserve the invariant.
LEMMA SetStatusKeeps ==
    ASSUME CInv, NEW w \in WorkflowIds,
           \/ \E c \in CloseStatuses : CloseRun(w, c)
           \/ PauseRun(w)
    PROVE  CInv' /\ ServerOK
  <1>1. PICK st \in OpenStatuses \cup CloseStatuses :
           /\ IsOpen(w)
           /\ temporal' = [temporal EXCEPT ![w] = SetStatus(w, st)]
           /\ UNCHANGED <<tracker, activations, clock, start, recon, index>>
    BY DEF CloseRun, PauseRun, OpenStatuses
  <1>2. ServerOK
    BY <1>1, SetStatusStep
  <1> QED
    BY <1>1, <1>2, RunKeeps

\* Executing a request: RejectDuplicate with Fail starts an empty chain or
\* nothing, so no second request of a Workflow ID is ever executed.
LEMMA ServerExecutesKeeps ==
    ASSUME CInv, NEW s \in Starts, ServerExecutes(s)
    PROVE  /\ CInv'
           /\ \/ UNCHANGED <<temporal, index>>
              \/ ServerOK /\ UNCHANGED index
  <1> DEFINE w == BuildWorkflowId(start[s].act)
  <1>1. /\ start[s].pc # "unused" /\ start[s].request = "flying"
        /\ UNCHANGED <<tracker, activations, recon, index>>
        /\ TypeOK /\ OneExecutionPerActivation
        /\ \A q \in Starts : StartOK(q)
    BY DEF ServerExecutes, CInv
  <1>2. start[s] \in StartRecord /\ w \in WorkflowIds /\ start[s].pc # "failed"
    BY <1>1, StartTyped DEF StartOK, Seen
  <1>3. PICK request \in {"executed", "duplicate", "rejected"} :
           /\ start' = [start EXCEPT ![s].request = request]
           /\ IF request = "executed"
                THEN MayStart(w) /\ NewRun(w, temporal[w])
                ELSE UNCHANGED <<temporal, clock>>
           /\ request = "duplicate" => ~MayStart(w)
    BY DEF ServerExecutes
  <1>4. /\ start' \in [Starts -> StartRecord \cup {NoStart}]
        /\ start'[s] = [start[s] EXCEPT !.request = request]
        /\ \A q \in Starts \ {s} : start'[q] = start[q]
    BY <1>1, <1>2, <1>3 DEF TypeOK, StartRecord
  <1>5. /\ start'[s].pc = start[s].pc /\ start'[s].act = start[s].act
        /\ start'[s].request = request
    BY <1>2, <1>4 DEF StartRecord
  <1>7. CASE request # "executed"
    <2>1. ExecutesNone
      BY <1>4, <1>5, <1>7 DEF ExecutesNone
    <2>2. UNCHANGED <<tracker, temporal, clock, recon, index>> /\ activations' \subseteq Activation
      BY <1>1, <1>3, <1>7 DEF TypeOK
    <2>3. \A q \in Starts : StartOK(q)'
      BY <1>1, <1>2, <1>3, <1>4, <1>5, <1>7 DEF StartOK, Seen, MayStart
    <2> QED
      BY <1>4, <2>1, <2>2, <2>3, ClientKeeps
  <1>8. CASE request = "executed"
    <2>1. MayStart(w) /\ NewRun(w, temporal[w])
      BY <1>3, <1>8
    <2>2. /\ temporal[w] \in Seq(RunRecord) /\ Len(temporal[w]) = 0
          /\ ~Closed(w) /\ 0 < MaxRuns
      BY <1>1, <1>2, <2>1, ChainFacts, EmptySeq, CoordinatorAssumption
         DEF MayStart, Closed
    <2>3. /\ ServerOK /\ temporal'[w] # <<>>
          /\ \A v \in WorkflowIds \ {w} : temporal'[v] = temporal[v]
      BY <1>2, <2>1, <2>2, NewRunStep
    <2>4. ASSUME NEW q \in Starts, q # s,
                 start[q].pc # "unused", start[q].request \in Seen
          PROVE  BuildWorkflowId(start[q].act) \in WorkflowIds \ {w}
      <3>1. /\ BuildWorkflowId(start[q].act) \in WorkflowIds
            /\ temporal[BuildWorkflowId(start[q].act)] # <<>>
        BY <1>1, <2>4, StartTyped DEF StartOK
      <3> QED
        BY <2>1, <3>1 DEF MayStart
    <2>5. StartOK(s)'
      BY <1>2, <1>5, <2>3 DEF StartOK
    <2>6. ASSUME NEW q \in Starts, q # s
          PROVE  StartOK(q)'
      <3>1. start'[q] = start[q] /\ StartOK(q)
        BY <1>1, <1>4, <2>6
      <3> QED
        BY <2>3, <2>4, <2>6, <3>1 DEF StartOK
    <2>7. OneExecutionPerActivation'
      <3> SUFFICES ASSUME NEW q1 \in Starts, NEW q2 \in Starts, q1 # q2,
                          start'[q1].pc # "unused", start'[q2].pc # "unused",
                          BuildWorkflowId(start'[q1].act) = BuildWorkflowId(start'[q2].act),
                          start'[q1].request = "executed",
                          start'[q2].request = "executed"
                   PROVE  FALSE
        BY DEF OneExecutionPerActivation
      <3>1. CASE q1 = s
        <4>1. start'[q2] = start[q2] /\ BuildWorkflowId(start'[q1].act) = w
          BY <1>4, <1>5, <3>1
        <4> QED
          BY <2>4, <3>1, <4>1 DEF Seen
      <3>2. CASE q2 = s
        <4>1. start'[q1] = start[q1] /\ BuildWorkflowId(start'[q2].act) = w
          BY <1>4, <1>5, <3>2
        <4> QED
          BY <2>4, <3>2, <4>1 DEF Seen
      <3>3. CASE q1 # s /\ q2 # s
        <4>1. start'[q1] = start[q1] /\ start'[q2] = start[q2]
          BY <1>4, <3>3
        <4> QED
          BY <1>1, <4>1 DEF OneExecutionPerActivation
      <3> QED
        BY <3>1, <3>2, <3>3
    <2> QED
      BY <1>1, <1>4, <2>3, <2>5, <2>6, <2>7, ServerKeeps
  <1> QED
    BY <1>3, <1>7, <1>8

\* The invocation s becomes c; its request is a new one or as before, and what
\* it reports as a failure is true of the request.
Progress(s, c) ==
    /\ start' = [start EXCEPT ![s] = c]
    /\ c.request \in Seen =>
          /\ start[s].pc # "unused" /\ start[s].request = c.request
          /\ c.act = start[s].act
    /\ c.pc = "failed" =>
          IF c.evidence = "Malformed" THEN c.request \in Seen
          ELSE c.request \notin {"flying", "executed"}

\* The start invocation's own steps: begin, an answer, a transport error, the
\* Describe and a crash.
LEMMA StartStepKeeps ==
    ASSUME CInv, NEW s \in Starts,
           \/ \E a \in activations : BeginStart(s, a)
           \/ StartAnswered(s) \/ StartRpcError(s) \/ StartDescribe(s) \/ StartCrash(s)
    PROVE  CInv'
  <1>1. /\ TypeOK /\ \A q \in Starts : StartOK(q)
        /\ UNCHANGED <<tracker, activations, temporal, clock, recon, index>>
    BY DEF CInv, BeginStart, StartAnswered, StartRpcError, StartDescribe, StartCrash
  <1>2. \E c \in StartRecord : Progress(s, c)
    <2>1. ASSUME NEW a \in activations, BeginStart(s, a)
          PROVE  \E c \in StartRecord : Progress(s, c)
      <3>1. PICK connected \in BOOLEAN :
               start' = [start EXCEPT ![s] =
                     [pc |-> IF connected THEN "sent" ELSE "failed",
                      act |-> a,
                      request |-> IF connected THEN "flying" ELSE "none",
                      evidence |-> "None", run |-> NoRun]]
        BY <2>1 DEF BeginStart
      <3> DEFINE c == [pc |-> IF connected THEN "sent" ELSE "failed",
                       act |-> a,
                       request |-> IF connected THEN "flying" ELSE "none",
                       evidence |-> "None", run |-> NoRun]
      <3>2. c \in StartRecord
        BY <1>1 DEF StartRecord, TypeOK
      <3> QED
        BY <3>1, <3>2 DEF Progress, Seen
    <2> DEFINE w == BuildWorkflowId(start[s].act)
               With(pc, evidence, run) ==
                  [start[s] EXCEPT !.pc = pc, !.evidence = evidence, !.run = run]
    <2>2. ASSUME start[s].pc \in {"sent", "started"}
          PROVE  start[s] \in StartRecord /\ w \in WorkflowIds
      BY <1>1, <2>2, StartTyped
    <2>3. ASSUME start[s].pc \in {"sent", "started"},
                 NEW pc \in {"started", "over"},
                 NEW evidence \in {"None", "Accepted", "AlreadyStarted", "Indeterminate"},
                 NEW run \in Runs \cup {NoRun},
                 start' = [start EXCEPT ![s].pc = pc, ![s].evidence = evidence,
                                        ![s].run = run]
          PROVE  \E c \in StartRecord : Progress(s, c)
      <3>1. /\ With(pc, evidence, run) \in StartRecord
            /\ With(pc, evidence, run).request = start[s].request
            /\ With(pc, evidence, run).act = start[s].act
            /\ With(pc, evidence, run).pc = pc
        BY <2>2, <2>3 DEF StartRecord
      <3>2. start' = [start EXCEPT ![s] = With(pc, evidence, run)]
        BY <2>3
      <3> HIDE DEF With
      <3>3. Progress(s, With(pc, evidence, run))
        BY <2>3, <3>1, <3>2 DEF Progress
      <3> QED
        BY <3>1, <3>3
    <2>4. ASSUME start[s].pc = "sent",
                 NEW kind \in {"Malformed", "Rejected"}, Failed(s, kind),
                 start[s].request \in IF kind = "Malformed" THEN Seen ELSE {"rejected"}
          PROVE  \E c \in StartRecord : Progress(s, c)
      <3> DEFINE c == [start[s] EXCEPT !.pc = "failed", !.evidence = kind]
      <3>1. /\ c \in StartRecord /\ c.request = start[s].request /\ c.pc = "failed"
            /\ c.evidence = kind /\ c.act = start[s].act
        BY <2>2, <2>4 DEF StartRecord
      <3>2. start' = [start EXCEPT ![s] = c]
        BY <2>4 DEF Failed
      <3> HIDE DEF c
      <3> QED
        BY <2>4, <3>1, <3>2 DEF Progress, Seen
    <2>5. CASE StartAnswered(s)
      <3>1. 1 \in Runs
        BY CoordinatorAssumption
      <3>2. start[s].pc = "sent" => Current(w) \in Runs \cup {NoRun}
        <4> SUFFICES ASSUME start[s].pc = "sent"
                     PROVE  Current(w) \in Runs \cup {NoRun}
          OBVIOUS
        <4>1. w \in WorkflowIds
          BY <2>2
        <4>2. Len(temporal[w]) \in Nat /\ Len(temporal[w]) <= MaxRuns
          BY <1>1, <4>1, ChainFacts DEF CInv, ChainOK
        <4> QED
          BY <4>2, CoordinatorAssumption DEF Current, NoRun
      <3> QED
        BY <2>3, <2>4, <2>5, <3>1, <3>2 DEF StartAnswered, AnswerEvidence, Started, Seen
    <2>6. CASE StartRpcError(s)
      <3>1. \A code \in TransportCodes : StartRpcIsIndeterminate(code)
        BY DEF TransportCodes, StartRpcIsIndeterminate
      <3> QED
        BY <2>3, <2>6, <3>1 DEF StartRpcError, Started
    <2>7. CASE StartDescribe(s) \/ StartCrash(s)
      BY <2>3, <2>7 DEF StartDescribe, StartCrash, Over
    <2> QED
      BY <2>1, <2>5, <2>6, <2>7
  <1>3. PICK c \in StartRecord : Progress(s, c)
    BY <1>2
  <1>4. /\ start' \in [Starts -> StartRecord \cup {NoStart}]
        /\ start'[s] = c
        /\ \A q \in Starts \ {s} : start'[q] = start[q]
    BY <1>1, <1>3 DEF TypeOK, Progress
  <1>5. ExecutesNone /\ \A q \in Starts : StartOK(q)'
    BY <1>1, <1>3, <1>4 DEF ExecutesNone, StartOK, Progress, Seen
  <1> QED
    BY <1>1, <1>4, <1>5, ClientKeeps DEF TypeOK

-----------------------------------------------------------------------------
(* Reconciliation.                                                         *)

\* ReconcileDescribe, ReadBinding and ReconcilerCrash, and a projection that did
\* not reach the projector: one reconciler moves, the index does not.
LEMMA ReconKeeps ==
    ASSUME CInv, NEW r \in Reconcilers, NEW c \in ReconRecord,
           recon' = [recon EXCEPT ![r] = c],
           UNCHANGED <<tracker, activations, temporal, clock, start, index>>,
           ReconOK(r)'
    PROVE  CInv'
  <1>1. /\ TypeOK
        /\ recon' \in [Reconcilers -> ReconRecord]
        /\ \A q \in Reconcilers \ {r} : recon'[q] = recon[q]
    BY DEF CInv, TypeOK
  <1>2. TypeOK'
    BY <1>1 DEF TypeOK, IndexTypeOK
  <1>3. \A w \in WorkflowIds : ChainOK(w)' /\ RowOK(w)'
    BY DEF CInv, ChainOK, RowOK, RunOf, ClosedAt, Closed, IsOpen, Current
  <1>4. \A s \in Starts : StartOK(s)'
    BY DEF CInv, StartOK
  <1>5. ASSUME NEW q \in Reconcilers, q # r
        PROVE  ReconOK(q)'
    <2>1. recon'[q] = recon[q] /\ ReconOK(q)
      BY <1>1, <1>5 DEF CInv
    <2> QED
      BY <2>1 DEF ReconOK, RunOf, ClosedAt, Closed, IsOpen, Current
  <1>6. OneExecutionPerActivation' /\ OneActivePerIssue'
    BY DEF CInv, OneExecutionPerActivation, OneActivePerIssue
  <1> QED
    BY <1>2, <1>3, <1>4, <1>5, <1>6 DEF CInv

\* A reconciler that returns is idle and keeps its typed outcome.
LEMMA IdleIsRecord ==
    \A out \in ReconOutcomes : Idle(out) \in ReconRecord /\ Idle(out).pc = "idle"
                               /\ Idle(out).outcome = out
  BY DEF Idle, ReconRecord

\* Describe without a Run ID records the current run: it is never one that
\* continued as new, and described closed it is the close of the whole chain.
LEMMA DescribeKeeps ==
    ASSUME CInv, NEW r \in Reconcilers, NEW a \in activations,
           ReconcileDescribe(r, a)
    PROVE  CInv'
  <1> DEFINE w == BuildWorkflowId(a)
             n == Current(w)
             c == [pc |-> "described", act |-> a, run |-> n,
                   started |-> temporal[w][n].started,
                   status |-> temporal[w][n].status]
  <1>1. /\ TypeOK /\ a \in Activation /\ w \in WorkflowIds
        /\ UNCHANGED <<tracker, activations, temporal, clock, start, index>>
    BY CoordinatorAssumption DEF CInv, TypeOK, ReconcileDescribe
  <1>2. CASE recon' = [recon EXCEPT ![r] = Idle("NoWrite")]
    <2>1. Idle("NoWrite") \in ReconRecord /\ Idle("NoWrite").pc = "idle"
      BY IdleIsRecord DEF ReconOutcomes
    <2>2. ReconOK(r)'
      BY <1>1, <1>2, <2>1 DEF ReconOK, TypeOK
    <2> QED
      BY <1>1, <1>2, <2>1, <2>2, ReconKeeps
  <1>3. CASE temporal[w] # <<>> /\ recon' = [recon EXCEPT ![r] = c]
    <2>1. /\ n \in 1..Len(temporal[w]) /\ n = Len(temporal[w]) /\ n \in Nat
          /\ n <= MaxRuns
          /\ temporal[w][n] \in RunRecord
          /\ temporal[w][n].status # "ContinuedAsNew"
      BY <1>1, <1>3, ChainFacts DEF Current, CInv, ChainOK
    <2>2. /\ temporal[w][n].started \in Times
          /\ temporal[w][n].status \in OpenStatuses \cup CloseStatuses
          /\ temporal[w][n].status \in RunStatuses
      BY <2>1 DEF RunRecord, RunStatuses
    <2>3. n \in Runs
      BY <2>1, CoordinatorAssumption
    <2> HIDE DEF n
    <2>4. c \in ReconRecord /\ c.pc # "idle"
      BY <1>1, <2>2, <2>3 DEF ReconRecord
    <2>5. recon'[r] = c /\ UNCHANGED temporal
      BY <1>1, <1>3 DEF TypeOK
    <2>6. temporal[w][n].status \in CloseStatuses =>
             ClosedAt(w, n, temporal[w][n].status)
      BY <1>3, <2>1, RunStatusesDiffer DEF ClosedAt, Closed, IsOpen, n
    <2>7. RunOf(w, n, temporal[w][n].started)
      BY <2>1 DEF RunOf
    <2>8. /\ c.act = a /\ c.run = n
          /\ c.started = temporal[w][n].started
          /\ c.status = temporal[w][n].status
      OBVIOUS
    <2> HIDE DEF c
    <2>9. ReconOK(r)'
      <3>1. /\ BuildWorkflowId(recon'[r].act) = w /\ recon'[r].run = n
            /\ recon'[r].started = temporal[w][n].started
            /\ recon'[r].status = temporal[w][n].status
        BY <2>5, <2>8
      <3> HIDE DEF w
      <3> QED
        BY <2>2, <2>5, <2>6, <2>7, <3>1 DEF ReconOK, RunOf, ClosedAt, Closed, IsOpen, Current
    <2> QED
      BY <1>1, <1>3, <2>4, <2>9, ReconKeeps
  <1> QED
    BY <1>2, <1>3 DEF ReconcileDescribe, DescribeTarget

\* Reading the binding and giving up keep the description or drop it.
LEMMA ReconMoveKeeps ==
    ASSUME CInv, NEW r \in Reconcilers,
           ReadBinding(r) \/ ReconcilerCrash(r)
    PROVE  CInv'
  <1>1. /\ recon[r].pc # "idle" /\ TypeOK /\ ReconOK(r)
        /\ UNCHANGED <<tracker, activations, temporal, clock, start, index>>
        /\ recon \in [Reconcilers -> ReconRecord]
    BY DEF ReadBinding, ReconcilerCrash, CInv, TypeOK
  <1>2. CASE recon' = [recon EXCEPT ![r] = Idle("NoWrite")]
    <2>1. Idle("NoWrite") \in ReconRecord /\ Idle("NoWrite").pc = "idle"
      BY IdleIsRecord DEF ReconOutcomes
    <2>2. ReconOK(r)'
      BY <1>1, <1>2, <2>1 DEF ReconOK
    <2> QED
      BY <1>1, <1>2, <2>1, <2>2, ReconKeeps
  <1>3. CASE recon' = [recon EXCEPT ![r].pc = "bound"]
    <2> DEFINE c == [recon[r] EXCEPT !.pc = "bound"]
    <2>1. /\ c \in ReconRecord
          /\ c.act = recon[r].act /\ c.run = recon[r].run
          /\ c.started = recon[r].started /\ c.status = recon[r].status
      BY <1>1 DEF ReconRecord
    <2>2. recon' = [recon EXCEPT ![r] = c] /\ recon'[r] = c
      BY <1>1, <1>3
    <2> HIDE DEF c
    <2>3. ReconOK(r)'
      BY <1>1, <2>1, <2>2 DEF ReconOK, RunOf, ClosedAt, Closed, IsOpen, Current
    <2> QED
      BY <1>1, <2>1, <2>2, <2>3, ReconKeeps
  <1> QED
    BY <1>2, <1>3 DEF ReadBinding, ReconcilerCrash

\* A close of a chain is one of Temporal's close statuses; the row it is recorded
\* in is terminal, and not "unclassified".
LEMMA CloseFacts ==
    ASSUME CInv, NEW w \in WorkflowIds, NEW n, NEW status, ClosedAt(w, n, status)
    PROVE  /\ status \in CloseStatuses
           /\ TerminalStatus(status) \in TerminalStatuses \ {"ClosedUnknown"}
  <1>1. /\ n \in 1..Len(temporal[w]) /\ n = Len(temporal[w])
        /\ status = temporal[w][n].status
        /\ status \in RunStatuses
        /\ status # "ContinuedAsNew"
        /\ status \notin OpenStatuses
    BY ChainFacts DEF ClosedAt, Closed, IsOpen, Current, CInv, ChainOK
  <1>2. status \in CloseStatuses
    BY <1>1 DEF RunStatuses
  <1> QED
    BY <1>2, ProjectorAssumption
       DEF TerminalStatus, TerminalStatuses, KnownCloseStatuses, Unclassified

\* A stored row is typed and never "unclassified".
LEMMA StoredRow ==
    ASSUME CInv, NEW w \in WorkflowIds, index[w] # NoRow
    PROVE  index[w] \in Row /\ RowOK(w) /\ index[w].status # "ClosedUnknown"
  <1>1. index[w] \in Row /\ RowOK(w)
    BY RowFacts DEF CInv, TypeOK
  <1> QED
    BY <1>1, CloseFacts DEF RowOK, ActiveStatus

\* lifecycle_observation describes what the reconciler saw.
LEMMA ObservationFacts ==
    ASSUME CInv, NEW r \in Reconcilers, recon[r].pc = "bound"
    PROVE  LET o == LifecycleObservation(r) IN
           /\ o \in Observation
           /\ o.wid = BuildWorkflowId(recon[r].act)
           /\ o.facts = StartFacts(RuntimeOf[r], recon[r].act)
           /\ o.run = recon[r].run /\ o.started = recon[r].started
           /\ recon[r].status \in OpenStatuses =>
                 o.kind = "DescribeOpen" /\ o \in OpenObservation
           /\ recon[r].status \in CloseStatuses =>
                 /\ o.kind = "DescribeClosed" /\ o.close = recon[r].status
                 /\ o \in ClosedObservation
  <1> DEFINE c == recon[r]
             w == BuildWorkflowId(c.act)
             f == StartFacts(RuntimeOf[r], c.act)
  <1>1. /\ c.act \in Activation /\ w \in WorkflowIds /\ c.run \in Runs
        /\ c.started \in Times
        /\ c.status \in OpenStatuses \cup CloseStatuses
    BY ReconTyped DEF CInv, ReconOK
  <1>2. f \in Facts
    BY <1>1, CoordinatorAssumption
  <1> HIDE DEF w, f
  <1>3. CASE c.status \in OpenStatuses
    <2>1. LifecycleObservation(r) =
             [kind |-> "DescribeOpen", wid |-> w, facts |-> f,
              run |-> c.run, started |-> c.started]
      BY <1>3 DEF LifecycleObservation, StatusIsOpen, OpenStatuses, w, f
    <2>2. c.status \notin CloseStatuses
      BY <1>3, RunStatusesDiffer
    <2> HIDE DEF c
    <2>3. LifecycleObservation(r) \in OpenObservation
      BY <1>1, <1>2, <2>1 DEF OpenObservation
    <2> QED
      BY <1>3, <2>1, <2>2, <2>3 DEF Observation, w, f, c
  <1>4. CASE c.status \in CloseStatuses
    <2>1. c.status \notin OpenStatuses /\ c.status # "ContinuedAsNew"
      BY <1>4, RunStatusesDiffer
    <2>2. LifecycleObservation(r) =
             [kind |-> "DescribeClosed", wid |-> w, facts |-> f,
              run |-> c.run, started |-> c.started, close |-> c.status]
      BY <2>1 DEF LifecycleObservation, StatusIsOpen, OpenStatuses, w, f
    <2> HIDE DEF c
    <2>3. LifecycleObservation(r) \in ClosedObservation
      BY <1>1, <1>2, <1>4, <2>2 DEF ClosedObservation
    <2> QED
      BY <1>4, <2>1, <2>2, <2>3 DEF Observation, w, f, c
  <1> QED
    BY <1>1, <1>3, <1>4

\* The row that a projection by r writes.
RecordedRow(r) ==
    LET o == LifecycleObservation(r) IN
    IF recon[r].status \in OpenStatuses
      THEN DescribedRow(o, ActiveStatus, NoOutcome)
      ELSE DescribedRow(o, TerminalStatus(recon[r].status), recon[r].status)

\* A projection changes nothing or writes the described row: a new one, or over
\* an active row of the same activation.
LEMMA ProjectRecords ==
    ASSUME CInv, NEW r \in Reconcilers, recon[r].pc = "bound",
           NEW out \in Outcomes, Project(LifecycleObservation(r), out),
           index' # index
    PROVE  LET w == BuildWorkflowId(recon[r].act) IN
           /\ w \in WorkflowIds
           /\ RecordedRow(r) \in Row
           /\ Write(w, RecordedRow(r))
           /\ Inserts(w, RecordedRow(r)) \/ Advances(w, RecordedRow(r))
  <1> DEFINE o == LifecycleObservation(r)
             w == BuildWorkflowId(recon[r].act)
  <1>1. /\ o \in Observation /\ o.wid = w
        /\ recon[r].status \in OpenStatuses =>
              o.kind = "DescribeOpen" /\ o \in OpenObservation
        /\ recon[r].status \in CloseStatuses =>
              o.kind = "DescribeClosed" /\ o.close = recon[r].status
        /\ recon[r].status \in OpenStatuses \cup CloseStatuses
        /\ TypeOK /\ IndexTypeOK /\ w \in WorkflowIds
    BY ObservationFacts, ReconTyped DEF CInv, TypeOK, ReconOK
  <1>2. PICK row \in Row : Touches(w, row)
    BY <1>1, ProjectShape
  <1>3. index'[w] = row
    BY <1>1, <1>2 DEF Touches, Write, IndexTypeOK
  <1>4. index[w] # NoRow => index[w] \in Row /\ index[w].status # "ClosedUnknown"
    BY <1>1, StoredRow
  <1>5. Inserts(w, row) \/ Advances(w, row)
    BY <1>2, <1>4, RowFacts, <1>1 DEF Touches, Refines
  <1>6. row = RecordedRow(r)
    <2> HIDE DEF o, w
    <2>1. CASE recon[r].status \in OpenStatuses
      <3>1. o.kind = "DescribeOpen" /\ Project(o, out)
        BY <1>1, <2>1 DEF o
      <3>2. DescribeOpen(o, out)
        BY <3>1 DEF Project
      <3>3. Write(o.wid, DescribedRow(o, ActiveStatus, NoOutcome))
        BY <3>2 DEF DescribeOpen, InsertOpen, IdentityConflict, AdvanceOpen
      <3>4. index'[w] = DescribedRow(o, ActiveStatus, NoOutcome)
        BY <1>1, <3>3 DEF Write, IndexTypeOK
      <3> QED
        BY <1>3, <2>1, <3>4 DEF RecordedRow, o
    <2>2. CASE recon[r].status \in CloseStatuses
      <3>1. o.kind = "DescribeClosed" /\ Project(o, out) /\ o.close = recon[r].status
        BY <1>1, <2>2 DEF o
      <3>2. DescribeClosed(o, out)
        BY <3>1 DEF Project
      <3>3. CASE Write(o.wid, DescribedRow(o, TerminalStatus(o.close), o.close))
        <4>1. index'[w] = DescribedRow(o, TerminalStatus(o.close), o.close)
          BY <1>1, <3>3 DEF Write, IndexTypeOK
        <4> QED
          BY <1>3, <2>2, <3>1, <4>1, RunStatusesDiffer DEF RecordedRow, o
      <3>4. CASE Confirmed(o) /\ index[o.wid].status = "ClosedUnknown"
        BY <1>1, <1>4, <3>4 DEF Confirmed
      <3> QED
        BY <3>2, <3>3, <3>4 DEF DescribeClosed, InsertClosed, IdentityConflict, AdvanceClosed
    <2> QED
      BY <1>1, <2>1, <2>2
  <1> QED
    BY <1>1, <1>2, <1>5, <1>6 DEF Touches

\* The recorded row holds what was described, open or closed.
LEMMA RecordedFacts ==
    ASSUME CInv, NEW r \in Reconcilers, recon[r].pc = "bound"
    PROVE  LET row == RecordedRow(r) IN
           /\ row.facts.issue = recon[r].act.issue
           /\ row.run = recon[r].run /\ row.started = recon[r].started
           /\ recon[r].status \in OpenStatuses => row.status = ActiveStatus
           /\ recon[r].status \in CloseStatuses =>
                 /\ row.status = TerminalStatus(recon[r].status)
                 /\ row.outcome = recon[r].status
                 /\ row.status # ActiveStatus
  <1> DEFINE o == LifecycleObservation(r)
  <1>1. /\ o.facts = StartFacts(RuntimeOf[r], recon[r].act)
        /\ o.run = recon[r].run /\ o.started = recon[r].started
        /\ recon[r].status \in OpenStatuses \cup CloseStatuses
    BY ObservationFacts DEF CInv, ReconOK
  <1>2. recon[r].status \in CloseStatuses => recon[r].status \notin OpenStatuses
    BY RunStatusesDiffer
  <1>3. TerminalStatus(recon[r].status) # ActiveStatus
    BY TerminalStatusType, StatusesDiffer
  <1> HIDE DEF o
  <1> QED
    BY <1>1, <1>2, <1>3 DEF RecordedRow, DescribedRow, StartFacts, o

\* Projecting a description, however old, preserves the invariant: the row of
\* another workflow is untouched, and the written row is right about its chain
\* because the description still is (reconcile_current_execution).
LEMMA ProjectKeeps ==
    ASSUME CInv, NEW r \in Reconcilers, ReconcileProject(r)
    PROVE  CInv'
  <1>0. PICK w \in WorkflowIds : w = BuildWorkflowId(recon[r].act)
    BY ReconTyped DEF ReconcileProject, CInv
  <1>1. /\ recon[r].pc = "bound" /\ TypeOK /\ IndexTypeOK /\ OneActivePerIssue
        /\ UNCHANGED <<tracker, activations, temporal, clock, start>>
        /\ recon \in [Reconcilers -> ReconRecord]
    BY DEF ReconcileProject, CInv, TypeOK
  <1>2. PICK out \in ReconOutcomes :
           /\ recon' = [recon EXCEPT ![r] = Idle(out)]
           /\ \/ UNCHANGED index
              \/ out \in Outcomes /\ Project(LifecycleObservation(r), out)
    BY DEF ReconcileProject, ReconOutcomes
  <1>3. Idle(out) \in ReconRecord /\ Idle(out).pc = "idle"
    BY <1>2, IdleIsRecord
  <1>4. ReconOK(r)'
    BY <1>1, <1>2, <1>3 DEF ReconOK
  <1>5. CASE UNCHANGED index
    BY <1>1, <1>2, <1>3, <1>4, <1>5, ReconKeeps
  <1>6. CASE index' # index
    <2>1. out \in Outcomes /\ Project(LifecycleObservation(r), out)
      BY <1>2, <1>6
    <2>2. LifecycleObservation(r) \in Observation
      BY <1>1, ObservationFacts
    <2>3. IndexTypeOK' /\ OneActivePerIssue'
      BY <1>1, <2>1, <2>2, ProjectType, ProjectExclusive
    <2>4. /\ w \in WorkflowIds
          /\ RecordedRow(r) \in Row
          /\ Write(w, RecordedRow(r))
      BY <1>0, <1>1, <1>6, <2>1, ProjectRecords
    <2>5. /\ index'[w] = RecordedRow(r)
          /\ \A v \in WorkflowIds \ {w} : index'[v] = index[v]
      BY <1>1, <2>4 DEF Write, IndexTypeOK
    <2>6. TypeOK'
      BY <1>1, <1>2, <1>3, <2>3 DEF TypeOK
    <2>7. /\ RecordedRow(r).facts.issue \in Issues
          /\ RecordedRow(r).facts.issue[2] = w.number
          /\ RecordedRow(r).run = recon[r].run
          /\ RecordedRow(r).started = recon[r].started
      BY <1>0, <1>1, RecordedFacts, ReconTyped DEF BuildWorkflowId, Activation
    <2>8. /\ RunOf(w, recon[r].run, recon[r].started)
          /\ recon[r].status \in OpenStatuses \cup CloseStatuses
          /\ recon[r].status \in CloseStatuses => ClosedAt(w, recon[r].run, recon[r].status)
      BY <1>0, <1>1 DEF CInv, ReconOK
    <2>9. RowOK(w)'
      <3> DEFINE row == RecordedRow(r)
      <3>1. UNCHANGED temporal /\ index'[w] = row
        BY <1>1, <2>5
      <3>2. /\ recon[r].status \in OpenStatuses => row.status = ActiveStatus
            /\ recon[r].status \in CloseStatuses =>
                  /\ row.status = TerminalStatus(recon[r].status)
                  /\ row.outcome = recon[r].status
        BY <1>1, RecordedFacts
      <3> HIDE DEF row
      <3>3. row.run \in 1..Len(temporal[w]) /\ row.started = temporal[w][row.run].started
        BY <2>7, <2>8 DEF RunOf, row
      <3>4. row.status # ActiveStatus =>
               /\ row.status = TerminalStatus(row.outcome)
               /\ row.run = Len(temporal[w]) /\ Closed(w)
               /\ row.outcome = temporal[w][row.run].status
        BY <2>7, <2>8, <3>2 DEF ClosedAt, row
      <3> QED
        BY <2>7, <3>1, <3>3, <3>4
           DEF RowOK, RunOf, ClosedAt, Closed, IsOpen, Current, row
    <2>10. ASSUME NEW v \in WorkflowIds, v # w
           PROVE  RowOK(v)'
      <3>1. index'[v] = index[v] /\ RowOK(v) /\ UNCHANGED temporal
        BY <1>1, <2>5, <2>10 DEF CInv
      <3> QED
        BY <3>1 DEF RowOK, RunOf, ClosedAt, Closed, IsOpen, Current
    <2>11. \A v \in WorkflowIds : ChainOK(v)'
      BY <1>1 DEF CInv, ChainOK
    <2>12. \A s \in Starts : StartOK(s)'
      BY <1>1 DEF CInv, StartOK
    <2>13. ASSUME NEW q \in Reconcilers, q # r
           PROVE  ReconOK(q)'
      <3>1. recon'[q] = recon[q] /\ ReconOK(q) /\ UNCHANGED temporal
        BY <1>1, <1>2, <2>13 DEF CInv
      <3> QED
        BY <3>1 DEF ReconOK, RunOf, ClosedAt, Closed, IsOpen, Current
    <2>14. OneExecutionPerActivation'
      BY <1>1 DEF CInv, OneExecutionPerActivation
    <2> QED
      BY <1>4, <2>3, <2>6, <2>9, <2>10, <2>11, <2>12, <2>13, <2>14 DEF CInv
  <1> QED
    BY <1>5, <1>6

-----------------------------------------------------------------------------
(* The invariant.                                                          *)

\* Before any request or reconciliation the invariant holds trivially.
LEMMA InitCInv == Init => CInv
  <1> SUFFICES ASSUME Init
               PROVE  CInv
    OBVIOUS
  <1>1. \A w \in WorkflowIds :
           temporal[w] = <<>> /\ Len(temporal[w]) = 0 /\ index[w] = NoRow
    BY EmptySeq DEF Init, IndexInit
  <1>2. TypeOK
    <2>1. tracker \in [Issues -> Snapshot]
      BY CoordinatorAssumption DEF Init, Snapshot, Revisions
    <2>2. recon \in [Reconcilers -> ReconRecord]
      BY IdleIsRecord DEF Init, ReconOutcomes
    <2> QED
      BY <2>1, <2>2, EmptySeq DEF Init, TypeOK, IndexInit, IndexTypeOK
  <1>3. \A w \in WorkflowIds : ChainOK(w) /\ RowOK(w)
    <2> SUFFICES ASSUME NEW w \in WorkflowIds
                 PROVE  ChainOK(w) /\ RowOK(w)
      OBVIOUS
    <2>1. 0 <= MaxRuns /\ 1..Len(temporal[w]) = {}
      BY <1>1, CoordinatorAssumption
    <2> QED
      BY <1>1, <2>1 DEF ChainOK, RowOK
  <1>4. (\A s \in Starts : StartOK(s)) /\ OneExecutionPerActivation
    BY DEF Init, NoStart, StartOK, OneExecutionPerActivation
  <1>5. \A r \in Reconcilers : ReconOK(r)
    BY DEF Init, Idle, ReconOK
  <1>6. OneActivePerIssue
    BY <1>1 DEF OneActivePerIssue, NoRow, ActiveStatus
  <1> QED
    BY <1>2, <1>3, <1>4, <1>5, <1>6 DEF CInv

\* Every action of callers, server, reconcilers and tracker preserves CInv.
LEMMA NextCInv == CInv /\ [Next]_vars => CInv'
  <1> SUFFICES ASSUME CInv, [Next]_vars
               PROVE  CInv'
    OBVIOUS
  <1>1. ASSUME NEW i \in Issues, NEW state \in ObservedStates, MoveTracker(i, state)
        PROVE  CInv'
    <2>1. tracker' \in [Issues -> Snapshot]
      <3>1. tracker[i].revision + 1 \in Revisions /\ tracker \in [Issues -> Snapshot]
        BY <1>1, CoordinatorAssumption DEF MoveTracker, CInv, TypeOK, Snapshot, Revisions
      <3> QED
        BY <1>1, <3>1 DEF MoveTracker, Snapshot
    <2>2. UNCHANGED <<activations, temporal, clock, start, recon, index>>
      BY <1>1 DEF MoveTracker
    <2>3. TypeOK'
      BY <2>1, <2>2 DEF CInv, TypeOK, IndexTypeOK
    <2>4. /\ \A w \in WorkflowIds : ChainOK(w)' /\ RowOK(w)'
          /\ \A s \in Starts : StartOK(s)'
          /\ \A r \in Reconcilers : ReconOK(r)'
      BY <2>2 DEF CInv, ChainOK, RowOK, StartOK, ReconOK, RunOf, ClosedAt, Closed,
                  IsOpen, Current
    <2>5. OneExecutionPerActivation' /\ OneActivePerIssue'
      BY <2>2 DEF CInv, OneExecutionPerActivation,
                  OneActivePerIssue
    <2> QED
      BY <2>3, <2>4, <2>5 DEF CInv
  <1>2. ASSUME NEW req \in Request, Evaluate(req)
        PROVE  CInv'
    <2>1. UNCHANGED <<tracker, temporal, clock, start, recon, index>>
      BY <1>2 DEF Evaluate
    <2>2. req.issue \in Issues /\ req.episode \in Episodes /\ req.source \in Sources
      BY DEF Request
    <2>3. tracker[req.issue] \in Snapshot
      BY <2>2 DEF CInv, TypeOK
    <2>4. activations' \subseteq Activation
      BY <1>2, <2>2, <2>3 DEF Evaluate, Activation, Snapshot, CInv, TypeOK
    <2>5. ExecutesNone /\ \A s \in Starts : StartOK(s)'
      BY <2>1 DEF ExecutesNone, CInv, StartOK
    <2>6. start' \in [Starts -> StartRecord \cup {NoStart}]
      BY <2>1 DEF CInv, TypeOK
    <2> QED
      BY <2>1, <2>4, <2>5, <2>6, ClientKeeps
  <1>3. CASE UNCHANGED vars
    <2>1. UNCHANGED <<tracker, temporal, clock, start, recon, index, activations>>
      BY <1>3 DEF vars
    <2>2. ExecutesNone /\ \A s \in Starts : StartOK(s)'
      BY <2>1 DEF ExecutesNone, CInv, StartOK
    <2>3. start' \in [Starts -> StartRecord \cup {NoStart}] /\ activations' \subseteq Activation
      BY <2>1 DEF CInv, TypeOK
    <2> QED
      BY <2>1, <2>2, <2>3, ClientKeeps
  <1> QED
    BY <1>1, <1>2, <1>3, ContinueAsNewKeeps, SetStatusKeeps, StartStepKeeps,
       ServerExecutesKeeps, DescribeKeeps, ReconMoveKeeps, ProjectKeeps DEF Next

\* CInv is an invariant of the coordinator with the projector.
LEMMA Invariance == Spec => []CInv
  BY InitCInv, NextCInv, PTL DEF Spec

\* Callers hold only activations of executable observations, invocations are in
\* a known phase, and every stored row is well formed.
THEOREM CoordinatorTypeCorrect == Spec => []TypeOK
  BY Invariance, PTL DEF CInv

\* A local row is terminal only when Temporal's whole chain is closed, and then
\* it names the last run and its classification, however Describes,
\* continue-as-new and projections interleave (reconcile_current_execution,
\* lifecycle_observation).
THEOREM TerminalRowsAreFinal == Spec => []TerminalRowMeansClosedChain
  <1>1. CInv => TerminalRowMeansClosedChain
    <2> SUFFICES ASSUME CInv, NEW w \in WorkflowIds,
                        index[w].status \in TerminalStatuses
                 PROVE  /\ index[w].run = Current(w)
                        /\ index[w].outcome = temporal[w][Current(w)].status
                        /\ ~IsOpen(w)
      BY DEF TerminalRowMeansClosedChain
    <2>1. index[w] # NoRow /\ index[w].status # ActiveStatus
      BY StatusesDiffer DEF NoRow, TerminalStatuses
    <2> QED
      BY <2>1 DEF CInv, RowOK, ClosedAt, Closed, Current
  <1> QED
    BY <1>1, Invariance, PTL

\* A Workflow ID is started once: of all the requests made for it, however many
\* and however late they are executed, at most one was executed (RejectDuplicate
\* with Fail in client.rs).
THEOREM StartedOnce == Spec => []OneExecutionPerActivation
  BY Invariance, PTL DEF CInv

\* An invocation that ends in an error says the truth: with malformed evidence
\* Temporal has an execution of the Workflow ID, with any other error this
\* invocation started nothing and never will (start_rpc_is_indeterminate,
\* normalize_start).
THEOREM FailuresAreTruthful == Spec => []FailureIsTruthful
  <1>1. CInv => FailureIsTruthful
    BY DEF CInv, StartOK, Seen, FailureIsTruthful
  <1> QED
    BY <1>1, Invariance, PTL

-----------------------------------------------------------------------------
(* Fresh evidence is applied.                                              *)

\* A description that is still current when it is projected is not stale: an
\* active row is advanced or confirmed, and a terminal row, being right about
\* the chain, is the one the description stands for.
LEMMA FreshIsNotStale ==
    ASSUME CInv, NEW r \in Reconcilers, FreshEvidence(r),
           Project(LifecycleObservation(r), "StaleObservation")
    PROVE  FALSE
  <1> DEFINE o == LifecycleObservation(r)
             w == BuildWorkflowId(recon[r].act)
             row == index[w]
  <1>1. /\ recon[r].pc = "bound" /\ recon[r].run = Len(temporal[w])
        /\ recon[r].status = temporal[w][recon[r].run].status
        /\ w \in WorkflowIds
        /\ RunOf(w, recon[r].run, recon[r].started)
        /\ recon[r].status \in OpenStatuses \cup CloseStatuses
    BY ReconTyped DEF FreshEvidence, Current, CInv, ReconOK
  <1>2. /\ o.wid = w /\ o.run = recon[r].run /\ o.started = recon[r].started
        /\ recon[r].status \in OpenStatuses => o.kind = "DescribeOpen"
        /\ recon[r].status \in CloseStatuses =>
              o.kind = "DescribeClosed" /\ o.close = recon[r].status
    BY <1>1, ObservationFacts
  <1>3. row # NoRow =>
           /\ row \in Row /\ row.status # "ClosedUnknown"
           /\ row.started \in Nat
           /\ RunOf(w, row.run, row.started)
           /\ row.run = recon[r].run \/ recon[r].started > row.started
           /\ row.run = recon[r].run => row.started = recon[r].started
           /\ row.status # ActiveStatus =>
                 /\ row.run = recon[r].run /\ row.outcome = recon[r].status
                 /\ row.status = TerminalStatus(row.outcome)
                 /\ recon[r].status \in CloseStatuses
    <2> SUFFICES ASSUME row # NoRow PROVE <1>3!2
      OBVIOUS
    <2>1. row \in Row /\ RowOK(w) /\ row.status # "ClosedUnknown"
      BY <1>1, StoredRow
    <2>2. row.started \in Nat
      BY <1>1, RowFacts DEF CInv, TypeOK
    <2>3. RunOf(w, row.run, row.started)
      BY <2>1 DEF RowOK
    <2>4. row.status # ActiveStatus =>
             row.status = TerminalStatus(row.outcome) /\ ClosedAt(w, row.run, row.outcome)
      BY <2>1 DEF RowOK
    <2>5. row.status # ActiveStatus => row.outcome \in CloseStatuses
      BY <1>1, <2>4, CloseFacts
    <2>6. row.run = recon[r].run \/ recon[r].started > row.started
      BY <1>1 DEF FreshEvidence, RunOf
    <2> HIDE DEF row, w
    <2> QED
      BY <1>1, <2>1, <2>2, <2>3, <2>4, <2>5, <2>6 DEF RunOf, ClosedAt
  <1>4. recon[r].started \in Nat
    BY <1>1, ReconTyped, ProjectorAssumption DEF CInv
  <1>5. row.status = ActiveStatus \/ row.status \in TerminalStatuses \/ row = NoRow
    BY <1>3 DEF Row
  <1> HIDE DEF o, w, row
  <1>6. CASE recon[r].status \in OpenStatuses
    <2>1. DescribeOpen(o, "StaleObservation")
      BY <1>2, <1>6 DEF Project, o
    <2>2. recon[r].status \notin CloseStatuses
      BY <1>6, RunStatusesDiffer
    <2>3. AdvanceOpen(o, "StaleObservation")
      BY <2>1 DEF DescribeOpen, InsertOpen, IdentityConflict
    <2>4. row # NoRow /\ row.status = ActiveStatus
      BY <1>2, <1>3, <2>2, <2>3 DEF AdvanceOpen, Confirmed, row
    <2> QED
      BY <1>2, <1>3, <1>4, <2>3, <2>4 DEF AdvanceOpen, row
  <1>7. CASE recon[r].status \in CloseStatuses
    <2>1. DescribeClosed(o, "StaleObservation")
      BY <1>2, <1>7 DEF Project, o
    <2>2. AdvanceClosed(o, "StaleObservation")
      BY <2>1 DEF DescribeClosed, InsertClosed, IdentityConflict
    <2>3. row # NoRow
      BY <1>2, <2>2 DEF AdvanceClosed, Confirmed, row
    <2>4. ~ClosedIsStale(o)
      BY <1>2, <1>3, <1>4, <2>3 DEF ClosedIsStale, row
    <2> QED
      BY <1>2, <1>3, <1>7, <2>2, <2>3, <2>4, StatusesDiffer DEF AdvanceClosed, row
  <1> QED
    BY <1>1, <1>6, <1>7

\* A reconciliation whose description is still current when it projects is
\* never turned away as stale, unless the stored and the described run started
\* at the same instant (project, both Describe arms).
THEOREM FreshEvidenceCounts == Spec => FreshEvidenceIsApplied
  <1>1. CInv /\ [Next]_vars =>
           [\A r \in Reconcilers :
               (FreshEvidence(r) /\ recon'[r].pc = "idle")
                  => recon'[r].outcome # "StaleObservation"]_vars
    <2> SUFFICES ASSUME CInv, Next, NEW r \in Reconcilers, FreshEvidence(r),
                        recon'[r].pc = "idle"
                 PROVE  recon'[r].outcome # "StaleObservation"
      OBVIOUS
    <2>1. recon[r].pc = "bound" /\ recon \in [Reconcilers -> ReconRecord]
      BY DEF FreshEvidence, CInv, TypeOK
    <2>2. ASSUME NEW q \in Reconcilers, NEW c, recon' = [recon EXCEPT ![q] = c]
          PROVE  q = r /\ recon'[r] = c
      BY <2>1, <2>2
    <2>3. CASE ReconcileProject(r)
      <3>1. ASSUME NEW out, recon' = [recon EXCEPT ![r] = Idle(out)]
            PROVE  recon'[r].outcome = out
        BY <2>1, <3>1 DEF Idle
      <3> QED
        BY <2>3, <3>1, FreshIsNotStale DEF ReconcileProject
    <2>4. CASE ReconcilerCrash(r)
      <3>1. recon'[r] = Idle("NoWrite")
        BY <2>1, <2>4 DEF ReconcilerCrash
      <3> QED
        BY <3>1 DEF Idle
    <2>5. ASSUME NEW q \in Reconcilers,
                 \/ \E a \in activations : ReconcileDescribe(q, a)
                 \/ ReadBinding(q)
          PROVE  FALSE
      <3>1. q # r
        BY <2>1, <2>5 DEF ReconcileDescribe, ReadBinding
      <3>2. recon'[r] = recon[r]
        BY <2>1, <2>5, <3>1 DEF ReconcileDescribe, ReadBinding
      <3> QED
        BY <2>1, <3>2
    <2>6. ASSUME NEW q \in Reconcilers, q # r, ReconcileProject(q) \/ ReconcilerCrash(q)
          PROVE  FALSE
      <3>1. recon'[r] = recon[r]
        BY <2>1, <2>6 DEF ReconcileProject, ReconcilerCrash
      <3> QED
        BY <2>1, <3>1
    <2>7. UNCHANGED recon => FALSE
      BY <2>1
    <2> QED
      BY <2>3, <2>4, <2>5, <2>6, <2>7
         DEF Next, MoveTracker, Evaluate, ContinueAsNew, CloseRun, PauseRun, BeginStart,
             ServerExecutes, StartAnswered, StartRpcError, StartDescribe, StartCrash
  <1> QED
    BY <1>1, Invariance, PTL DEF Spec, FreshEvidenceIsApplied

-----------------------------------------------------------------------------
(* The refinement of ExecutionView.                                        *)

chainView == [w \in WorkflowIds |-> ChainPoint(w)]
indexView == [w \in WorkflowIds |-> ViewPoint(w)]

\* Record updates of a point of a chain (the "run" and "closed" of ChainPoint).
LEMMA PointUpdate ==
    ASSUME NEW n, NEW p, p = [run |-> n, closed |-> FALSE], NEW q
    PROVE  /\ q = [p EXCEPT !.run = p.run + 1] => q = [run |-> n + 1, closed |-> FALSE]
           /\ q = [p EXCEPT !.closed = TRUE] => q = [run |-> n, closed |-> TRUE]
  <1>1. ASSUME q = [p EXCEPT !.run = p.run + 1]
        PROVE  q = [run |-> n + 1, closed |-> FALSE]
    BY <1>1
  <1>2. ASSUME q = [p EXCEPT !.closed = TRUE]
        PROVE  q = [run |-> n, closed |-> TRUE]
    BY <1>2
  <1> QED
    BY <1>1, <1>2

\* The server's steps grow one chain and leave the view alone.
LEMMA ServerRefines ==
    ASSUME CInv, NEW w \in WorkflowIds, ~Closed(w),
           NEW new \in Seq(RunRecord),
           temporal' = [temporal EXCEPT ![w] = new], UNCHANGED index,
           \/ /\ Len(new) = Len(temporal[w]) + 1
              /\ new[Len(new)].status \in OpenStatuses
           \/ /\ temporal[w] # <<>> /\ Len(new) = Len(temporal[w])
              /\ new[Len(new)].status \in OpenStatuses \cup CloseStatuses
    PROVE  View!Next \/ UNCHANGED <<chainView, indexView>>
  <1>1. /\ temporal'[w] = new
        /\ \A v \in WorkflowIds \ {w} : temporal'[v] = temporal[v]
        /\ Len(temporal[w]) \in Nat /\ Len(new) \in Nat
        /\ temporal[w] # <<>> => Len(temporal[w]) > 0
        /\ Len(new) > 0 => new # <<>>
    <2>1. /\ temporal'[w] = new
          /\ \A v \in WorkflowIds \ {w} : temporal'[v] = temporal[v]
      BY DEF CInv, TypeOK
    <2> QED
      BY <2>1, ChainFacts, LenProperties, EmptySeq DEF CInv
  <1>2. UNCHANGED indexView
    BY DEF indexView, ViewPoint
  <1>3. \A v \in WorkflowIds \ {w} : ChainPoint(v)' = ChainPoint(v)
    BY <1>1 DEF ChainPoint, IsOpen, Current
  <1>4. /\ ChainPoint(w).run = Len(temporal[w]) /\ ChainPoint(w).closed = FALSE
        /\ ChainPoint(w) = [run |-> Len(temporal[w]), closed |-> FALSE]
    BY DEF ChainPoint, Closed, Current
  <1>5. ChainPoint(w)' = [run |-> Len(new), closed |-> new # <<>> /\ new[Len(new)].status \notin OpenStatuses]
    BY <1>1 DEF ChainPoint, IsOpen, Current
  <1>6. /\ chainView[w] = ChainPoint(w)
        /\ chainView \in [WorkflowIds -> {ChainPoint(v) : v \in WorkflowIds}]
    BY DEF chainView
  <1>7. chainView' = [chainView EXCEPT ![w] = ChainPoint(w)']
    BY <1>3 DEF chainView
  <1>8. chainView[w] = [run |-> Len(temporal[w]), closed |-> FALSE]
    BY <1>4, <1>6
  <1>9. CASE Len(new) = Len(temporal[w]) + 1 /\ new[Len(new)].status \in OpenStatuses
    <2>1. ChainPoint(w)' = [run |-> Len(temporal[w]) + 1, closed |-> FALSE]
      BY <1>1, <1>5, <1>9
    <2>2. chainView' = [chainView EXCEPT ![w].run = chainView[w].run + 1]
      <3>1. [chainView[w] EXCEPT !.run = chainView[w].run + 1]
               = [run |-> Len(temporal[w]) + 1, closed |-> FALSE]
        BY <1>8, PointUpdate
      <3> QED
        BY <1>7, <2>1, <3>1
    <2>3. View!Grow(w)
      BY <1>2, <1>4, <1>6, <2>2 DEF View!Grow, chainView, indexView
    <2> QED
      BY <2>3 DEF View!Next
  <1>10. CASE /\ temporal[w] # <<>> /\ Len(new) = Len(temporal[w])
              /\ new[Len(new)].status \in OpenStatuses
    <2>1. ChainPoint(w)' = ChainPoint(w)
      BY <1>1, <1>4, <1>5, <1>10
    <2> QED
      BY <1>2, <1>3, <2>1 DEF chainView
  <1>11. CASE /\ temporal[w] # <<>> /\ Len(new) = Len(temporal[w])
              /\ new[Len(new)].status \in CloseStatuses
    <2>1. ChainPoint(w)' = [run |-> Len(temporal[w]), closed |-> TRUE]
      BY <1>1, <1>5, <1>11, RunStatusesDiffer
    <2>2. chainView' = [chainView EXCEPT ![w].closed = TRUE]
      <3>1. [chainView[w] EXCEPT !.closed = TRUE]
               = [run |-> Len(temporal[w]), closed |-> TRUE]
        BY <1>8, PointUpdate
      <3> QED
        BY <1>7, <2>1, <3>1
    <2>3. View!Grow(w)
      BY <1>1, <1>2, <1>4, <1>6, <1>11, <2>2 DEF View!Grow, chainView, indexView
    <2> QED
      BY <2>3 DEF View!Next
  <1> QED
    BY <1>9, <1>10, <1>11

\* What the view shows of a row.
LEMMA ViewFacts ==
    ASSUME NEW w \in WorkflowIds
    PROVE  IF index[w] = NoRow
             THEN ViewPoint(w).run = 0 /\ ~ViewPoint(w).closed
             ELSE /\ ViewPoint(w).run = index[w].run
                  /\ ViewPoint(w).closed <=> index[w].status # ActiveStatus
  BY DEF ViewPoint

\* A repository is tracked by one backend, so that the number that is part of a
\* Workflow ID (build_workflow_id) names one issue.
NumbersIdentifyIssues == \A i, j \in Issues : i[2] = j[2] => i = j

\* A projection is a catch-up of the view: a first row, or a row of a later run
\* or of the close of the recorded one.  The issue of a first open row is free
\* because the projector found no active row of it, and rows that agree on the
\* number agree on the issue.
LEMMA ProjectRefines ==
    ASSUME NumbersIdentifyIssues, CInv, NEW r \in Reconcilers, ReconcileProject(r),
           index' # index
    PROVE  View!Next \/ UNCHANGED <<chainView, indexView>>
  <1>0. PICK w \in WorkflowIds : w = BuildWorkflowId(recon[r].act)
    BY ReconTyped DEF ReconcileProject, CInv
  <1> DEFINE row == RecordedRow(r)
             old == index[w]
  <1> PICK point : point = [run |-> row.run, closed |-> row.status # ActiveStatus]
    OBVIOUS
  <1>1. /\ recon[r].pc = "bound" /\ UNCHANGED temporal /\ IndexTypeOK /\ TypeOK
        /\ \A v \in WorkflowIds : index[v] # NoRow =>
              RowOK(v) /\ index[v] \in Row /\ index[v].status # "ClosedUnknown"
    BY StoredRow DEF ReconcileProject, CInv, TypeOK
  <1>2. PICK out \in Outcomes : Project(LifecycleObservation(r), out)
    BY DEF ReconcileProject
  <1>3. /\ row \in Row
        /\ index' = [index EXCEPT ![w] = row]
        /\ Inserts(w, row) \/ Advances(w, row)
    BY <1>0, <1>1, <1>2, ProjectRecords DEF Write
  <1>4. /\ index'[w] = row
        /\ \A v \in WorkflowIds \ {w} : index'[v] = index[v]
    BY <1>1, <1>3 DEF IndexTypeOK
  <1>5. /\ row.run \in 1..Len(temporal[w])
        /\ row.started = temporal[w][row.run].started
        /\ row.facts.issue \in Issues /\ row.facts.issue[2] = w.number
        /\ row.status # ActiveStatus => row.run = Len(temporal[w]) /\ Closed(w)
        /\ row # NoRow
    <2>1. row # NoRow
      BY <1>1, <1>3 DEF NoRow, Row, TerminalStatuses, ActiveStatus
    <2>2. /\ row.facts.issue = recon[r].act.issue /\ row.run = recon[r].run
          /\ row.started = recon[r].started
          /\ recon[r].status \in OpenStatuses => row.status = ActiveStatus
      BY <1>1, RecordedFacts
    <2>3. recon[r].act.issue \in Issues /\ recon[r].act.issue[2] = w.number
      BY <1>0, <1>1, ReconTyped DEF BuildWorkflowId, Activation
    <2>4. /\ RunOf(w, recon[r].run, recon[r].started)
          /\ recon[r].status \in OpenStatuses \cup CloseStatuses
          /\ recon[r].status \in CloseStatuses => ClosedAt(w, recon[r].run, recon[r].status)
      BY <1>0, <1>1 DEF CInv, ReconOK
    <2> HIDE DEF row
    <2> QED
      BY <2>1, <2>2, <2>3, <2>4 DEF RunOf, ClosedAt
  <1>6. Len(temporal[w]) \in Nat /\ ChainOK(w)
        /\ \A n \in 1..Len(temporal[w]) : temporal[w][n].started \in Nat
    BY <1>1, ChainFacts DEF CInv
  <1>7. temporal[w] # <<>>
    <2>1. Len(temporal[w]) > 0
      BY <1>5, <1>6
    <2> QED
      BY <2>1, EmptySeq
  <1> HIDE DEF row
  <1>8. /\ point.run = row.run /\ (point.closed <=> row.status # ActiveStatus)
        /\ (row.status # ActiveStatus) \in BOOLEAN
    OBVIOUS
  <1>9. /\ UNCHANGED chainView
        /\ chainView[w] = [run |-> Len(temporal[w]), closed |-> Closed(w)]
        /\ chainView[w].run = Len(temporal[w]) /\ (chainView[w].closed <=> Closed(w))
    BY <1>1, <1>7 DEF chainView, ChainPoint, Closed, IsOpen, Current
  <1>10. /\ indexView[w] = ViewPoint(w)
         /\ \A v \in WorkflowIds : indexView[v] = ViewPoint(v)
         /\ ViewPoint(w)' = point
         /\ indexView' = [indexView EXCEPT ![w] = point]
    <2>1. ViewPoint(w)' = point
      BY <1>4, <1>5 DEF ViewPoint
    <2>2. \A v \in WorkflowIds \ {w} : ViewPoint(v)' = ViewPoint(v)
      BY <1>4 DEF ViewPoint
    <2> QED
      BY <2>1, <2>2 DEF indexView
  <1>11. point.closed => point = chainView[w]
    BY <1>5, <1>9
  <1>12. point = chainView[w] \/ View!Before(point, chainView[w])
    <2>1. CASE row.status # ActiveStatus
      BY <1>11, <2>1
    <2>2. CASE row.status = ActiveStatus /\ row.run = Len(temporal[w]) /\ ~Closed(w)
      <3>1. point = [run |-> Len(temporal[w]), closed |-> FALSE]
        BY <2>2
      <3>2. chainView[w] = [run |-> Len(temporal[w]), closed |-> FALSE]
        BY <1>9, <2>2 DEF Closed
      <3> QED
        BY <3>1, <3>2
    <2>3. CASE /\ row.status = ActiveStatus
               /\ row.run # Len(temporal[w]) \/ Closed(w)
      <3>1. /\ ~point.closed
            /\ \/ point.run < chainView[w].run
               \/ point.run = chainView[w].run /\ chainView[w].closed
        BY <1>5, <1>6, <1>9, <1>8, <2>3
      <3> QED
        BY <3>1 DEF View!Before
    <2> QED
      BY <2>1, <2>2, <2>3
  <1>13. \E n \in 0..chainView[w].run, c \in BOOLEAN : point = [run |-> n, closed |-> c]
    <2>1. row.run \in 0..chainView[w].run
      BY <1>5, <1>6, <1>9
    <2>2. (row.status # ActiveStatus) \in BOOLEAN
      OBVIOUS
    <2> QED
      BY <2>1, <2>2
  <1>14. CASE Inserts(w, row)
    <2>1. indexView[w] = [run |-> 0, closed |-> FALSE]
      BY <1>10, <1>14 DEF Inserts, ViewPoint
    <2>2. View!Before(indexView[w], point)
      BY <1>5, <1>6, <2>1 DEF View!Before
    <2>3. ASSUME ~point.closed, NEW v \in WorkflowIds \ {w}, SameIssue(v, w),
                 indexView[v].run > 0, ~indexView[v].closed
          PROVE  FALSE
      <3>1. index[v] # NoRow /\ index[v].status = ActiveStatus
        BY <1>10, <2>3, ViewFacts
      <3>2. index[v].facts.issue \in Issues /\ index[v].facts.issue[2] = v.number
        BY <1>1, <3>1 DEF RowOK
      <3>3. index[v].facts.issue = row.facts.issue
        BY <1>5, <2>3, <3>2 DEF NumbersIdentifyIssues, SameIssue
      <3> QED
        BY <1>14, <2>3, <3>1, <3>3 DEF Inserts, ActiveRows
    <2>4. View!CatchUp(w, point)
      BY <1>9, <1>10, <1>11, <1>12, <2>1, <2>2, <2>3
         DEF View!CatchUp, View!IsOpenView, chainView, indexView
    <2> QED
      BY <1>13, <2>4 DEF View!Next, chainView
  <1>15. CASE Advances(w, row)
    <2>1. /\ old \in Row /\ old # NoRow /\ old.status = ActiveStatus
          /\ old.run \in 1..Len(temporal[w])
          /\ old.started = temporal[w][old.run].started
      BY <1>1, <1>15, RowFacts DEF Advances, RowOK, RunOf
    <2> HIDE DEF old
    <2>2. indexView[w] = [run |-> old.run, closed |-> FALSE]
      BY <1>10, <2>1 DEF ViewPoint, old
    <2>3. old.run <= row.run
      <3>1. row.run # old.run => row.started > old.started
        BY <1>15 DEF Advances, old
      <3>2. ~(row.run < old.run)
        BY <1>5, <1>6, <2>1, <3>1 DEF ChainOK
      <3> QED
        BY <1>5, <1>6, <2>1, <3>2
    <2>4. CASE row.run = old.run /\ row.status = ActiveStatus
      <3>1. point = indexView[w]
        BY <2>2, <2>4
      <3> QED
        BY <1>9, <1>10, <3>1 DEF indexView
    <2>5. CASE row.run # old.run \/ row.status # ActiveStatus
      <3>1. View!Before(indexView[w], point)
        BY <1>5, <1>6, <2>1, <2>2, <2>3, <2>5, <1>8 DEF View!Before
      <3>2. indexView[w] # [run |-> 0, closed |-> FALSE]
        BY <2>1, <2>2, <1>6
      <3>3. View!CatchUp(w, point)
        BY <1>9, <1>10, <1>11, <1>12, <2>2, <3>1, <3>2
           DEF View!CatchUp, View!Empty, chainView, indexView
      <3> QED
        BY <1>13, <3>3 DEF View!Next, chainView
    <2> QED
      BY <2>4, <2>5
  <1> QED
    BY <1>3, <1>14, <1>15

\* A first run and a continue-as-new append an open run.
LEMMA NewRunRefines ==
    ASSUME CInv, NEW w \in WorkflowIds, ~Closed(w), UNCHANGED index,
           NEW prior \in Seq(RunRecord), Len(prior) = Len(temporal[w]),
           NewRun(w, prior)
    PROVE  View!Next \/ UNCHANGED <<chainView, indexView>>
  <1> PICK t \in Times :
         temporal' = [temporal EXCEPT ![w] =
                        Append(prior, [started |-> t, status |-> "Running"])]
    BY DEF NewRun
  <1> DEFINE run == [started |-> t, status |-> "Running"]
             new == Append(prior, run)
  <1>1. run \in RunRecord /\ run.status \in OpenStatuses
    BY DEF RunRecord, RunStatuses, OpenStatuses
  <1> HIDE DEF run
  <1>2. /\ new \in Seq(RunRecord)
        /\ Len(new) = Len(temporal[w]) + 1 /\ new[Len(new)] = run
    BY <1>1, AppendProperties
  <1>3. temporal' = [temporal EXCEPT ![w] = new]
    BY DEF run
  <1> HIDE DEF new
  <1> QED
    BY <1>1, <1>2, <1>3, ServerRefines

\* Closing or pausing the current run sets its status.
LEMMA SetStatusRefines ==
    ASSUME CInv, NEW w \in WorkflowIds, IsOpen(w), UNCHANGED index,
           NEW st \in OpenStatuses \cup CloseStatuses,
           temporal' = [temporal EXCEPT ![w] = SetStatus(w, st)]
    PROVE  View!Next \/ UNCHANGED <<chainView, indexView>>
  <1> DEFINE new == SetStatus(w, st)
  <1>1. /\ TypeOK /\ st \in RunStatuses /\ temporal[w] # <<>> /\ ~Closed(w)
        /\ Len(temporal[w]) \in 1..Len(temporal[w])
    BY ChainFacts DEF CInv, RunStatuses, IsOpen, Closed
  <1>2. /\ new \in Seq(RunRecord) /\ Len(new) = Len(temporal[w])
        /\ new[Len(new)].status = st
    BY <1>1, SetStatusFacts
  <1> HIDE DEF new
  <1>3. temporal' = [temporal EXCEPT ![w] = new]
    BY DEF new
  <1> QED
    BY <1>1, <1>2, <1>3, ServerRefines

\* Without a run or a row both sides of the mapping are empty.
LEMMA InitRefines == Init => View!Init
  <1> SUFFICES ASSUME Init PROVE View!Init
    OBVIOUS
  <1>1. ASSUME NEW w \in WorkflowIds
        PROVE  /\ ChainPoint(w) = [run |-> 0, closed |-> FALSE]
               /\ ViewPoint(w) = [run |-> 0, closed |-> FALSE]
    BY EmptySeq DEF Init, IndexInit, ChainPoint, ViewPoint, Current, IsOpen
  <1> QED
    BY <1>1 DEF View!Init, View!Empty

\* Every step of the coordinator maps to a step of ExecutionView or a stutter.
LEMMA NextRefines ==
    ASSUME NumbersIdentifyIssues, CInv, [Next]_vars
    PROVE  View!Next \/ UNCHANGED <<chainView, indexView>>
  <1>1. CASE UNCHANGED <<temporal, index>>
    BY <1>1 DEF chainView, indexView, ChainPoint, ViewPoint, IsOpen, Current
  <1>2. ASSUME NEW w \in WorkflowIds, ContinueAsNew(w)
        PROVE  View!Next \/ UNCHANGED <<chainView, indexView>>
    <2>1. IsOpen(w) /\ ~Closed(w) /\ UNCHANGED index /\ TypeOK
      BY <1>2 DEF ContinueAsNew, Closed, CInv
    <2>2. /\ SetStatus(w, "ContinuedAsNew") \in Seq(RunRecord)
          /\ Len(SetStatus(w, "ContinuedAsNew")) = Len(temporal[w])
      BY <2>1, SetStatusFacts DEF RunStatuses
    <2>3. NewRun(w, SetStatus(w, "ContinuedAsNew"))
      BY <1>2 DEF ContinueAsNew
    <2> QED
      BY <2>1, <2>2, <2>3, NewRunRefines
  <1>3. ASSUME NEW w \in WorkflowIds,
               (\E c \in CloseStatuses : CloseRun(w, c)) \/ PauseRun(w)
        PROVE  View!Next \/ UNCHANGED <<chainView, indexView>>
    <2>1. PICK st \in OpenStatuses \cup CloseStatuses :
             /\ IsOpen(w) /\ UNCHANGED index
             /\ temporal' = [temporal EXCEPT ![w] = SetStatus(w, st)]
      BY <1>3 DEF CloseRun, PauseRun, OpenStatuses
    <2> QED
      BY <2>1, SetStatusRefines
  <1>4. ASSUME NEW s \in Starts, ServerExecutes(s)
        PROVE  View!Next \/ UNCHANGED <<chainView, indexView>>
    <2> DEFINE w == BuildWorkflowId(start[s].act)
    <2>1. CASE MayStart(w) /\ NewRun(w, temporal[w])
      <3>1. w \in WorkflowIds /\ ~Closed(w) /\ UNCHANGED index
        BY <1>4, <2>1, StartTyped DEF ServerExecutes, MayStart, Closed, CInv
      <3>2. temporal[w] \in Seq(RunRecord)
        BY <3>1 DEF CInv, TypeOK
      <3> QED
        BY <2>1, <3>1, <3>2, NewRunRefines
    <2>2. CASE UNCHANGED <<temporal, index>>
      BY <1>1, <2>2
    <2> QED
      BY <1>4, <2>1, <2>2 DEF ServerExecutes
  <1>5. ASSUME NEW r \in Reconcilers, ReconcileProject(r)
        PROVE  View!Next \/ UNCHANGED <<chainView, indexView>>
    <2>1. CASE index' # index
      BY <1>5, <2>1, ProjectRefines
    <2>2. CASE index' = index
      BY <1>1, <1>5, <2>2 DEF ReconcileProject
    <2> QED
      BY <2>1, <2>2
  <1>6. CASE \/ \E i \in Issues, state \in ObservedStates : MoveTracker(i, state)
             \/ \E req \in Request : Evaluate(req)
             \/ UNCHANGED vars
    BY <1>1, <1>6 DEF MoveTracker, Evaluate, vars
  <1>7. CASE \/ \E s \in Starts, a \in activations : BeginStart(s, a)
             \/ \E s \in Starts : \/ StartAnswered(s) \/ StartRpcError(s)
                                  \/ StartDescribe(s) \/ StartCrash(s)
    BY <1>1, <1>7 DEF BeginStart, StartAnswered, StartRpcError, StartDescribe, StartCrash
  <1>8. CASE \/ \E r \in Reconcilers, a \in activations : ReconcileDescribe(r, a)
             \/ \E r \in Reconcilers : ReadBinding(r) \/ ReconcilerCrash(r)
    BY <1>1, <1>8 DEF ReconcileDescribe, ReadBinding, ReconcilerCrash
  <1> QED
    BY <1>2, <1>3, <1>4, <1>5, <1>6, <1>7, <1>8 DEF Next

\* Seen through its rows, the repaired index is a lagging, never-regressing
\* view of the Temporal chains, exclusive per issue: the coordinator with the
\* projector (reconcile_current_execution, project) implements ExecutionView,
\* for every repository whose issue numbers identify its issues.
THEOREM CoordinatorImplementsView ==
    ASSUME NumbersIdentifyIssues
    PROVE  Spec => ImplementsExecutionView
  <1>1. CInv /\ [Next]_vars => [View!Next]_<<chainView, indexView>>
    BY NextRefines
  <1> QED
    BY <1>1, InitRefines, Invariance, PTL
       DEF Spec, ImplementsExecutionView, View!Spec, chainView, indexView

-----------------------------------------------------------------------------
(* The local state database. *)

\* Who is inside a transaction holds the lock and still has a migration to run.
Locking ==
    \A p \in Processes :
        call[p].stage = "locked" => lock = p /\ call[p].next <= Supported[p]

\* The committed file is at a migration boundary: its objects are exactly those
\* of its version, and a file with foreign objects has no version.
Boundary ==
    /\ db.schema = 1..db.version
    /\ db.foreign => db.version = 0

\* The file is never behind what a call knows of it, and nobody is past the
\* journal switch unless it took place.
CallProgress ==
    \A p \in Processes :
        /\ call[p].stage = "journal" => call[p].observed <= db.version
        /\ call[p].stage \in {"open", "journal"} => call[p].next = 1
        /\ call[p].stage \in {"migrate", "locked"} =>
              db.wal /\ call[p].next <= db.version + 1
        /\ call[p].stage = "Ok" => db.wal /\ Supported[p] <= db.version
        /\ call[p].stage # "Migration"

\* The inductive invariant.  OkMeansUsable and NoMigrationRace need CallProgress,
\* because the decision under the lock depends on what the call had seen before
\* it; type correctness needs Locking, because only BEGIN IMMEDIATE checks that
\* a migration is left.
DatabaseInv == DatabaseTypeOK /\ Locking /\ Boundary /\ CallProgress

\* What a call does to its own record keeps it well typed.
LEMMA EndType ==
    ASSUME DatabaseTypeOK, NEW p \in Processes, NEW result \in Stages \cup Finals,
           End(p, result)
    PROVE  /\ call' \in [Processes -> Call]
           /\ \A q \in Processes : /\ call'[q].tries = call[q].tries
                                   /\ call'[q].next = call[q].next
                                   /\ q # p => call'[q] = call[q]
           /\ call'[p].stage = result
  BY DEF DatabaseTypeOK, End, Call

\* What one migration does to the file.
LEMMA MigratedFacts ==
    ASSUME NEW d \in Database, NEW n \in Nat
    PROVE  /\ Migrated(d, n) \in Database
           /\ Migrated(d, n).version = n
           /\ Migrated(d, n).schema = d.schema \cup {n}
           /\ d.wal => Migrated(d, n).wal
           /\ Migrated(d, n).foreign => d.foreign
  <1>1. d.schema \cup {n} \in SUBSET Nat
    BY DEF Database
  <1>2. /\ Migrated(d, n) \in Database
        /\ Migrated(d, n).version = n
        /\ Migrated(d, n).schema = d.schema \cup {n}
    BY <1>1 DEF Database, Migrated
  <1>3. d.wal => Migrated(d, n).wal
    BY DEF Database, Migrated
  <1>4. Migrated(d, n).foreign => d.foreign
    BY DEF Database, Migrated
  <1> QED
    BY <1>2, <1>3, <1>4

\* The migration decided under the lock is the next one, or one that another
\* process has committed: neither a gap nor a second application.
LEMMA DecisionUnderLock ==
    ASSUME DatabaseInv, NEW p \in Processes, RunMigration(p)
    PROVE  /\ lock' = NoHolder
           /\ \/ /\ End(p, "UnversionedSchemaConflict")
                 /\ UNCHANGED db
              \/ /\ NextMigration(p)
                 /\ db.version >= call[p].next
                 /\ UNCHANGED db
              \/ /\ NextMigration(p)
                 /\ call[p].next = db.version + 1
                 /\ ~(db.version = 0 /\ HasApplicationSchema(db))
                 /\ db' = Migrated(db, call[p].next)
  <1>1. /\ call[p].next <= db.version + 1
        /\ call[p].next \in Nat /\ db.version \in Nat
        /\ db.schema = 1..db.version
    BY DEF RunMigration, DatabaseInv, CallProgress, Boundary, DatabaseTypeOK, Call, Database
  <1>2. UnderLock(p) # "gap"
    BY <1>1 DEF UnderLock
  <1>3. UnderLock(p) = "apply" => call[p].next \notin db.schema
    BY <1>1 DEF UnderLock
  <1>4. /\ UnderLock(p) = "skip" => db.version >= call[p].next
        /\ UnderLock(p) = "apply" =>
              /\ ~(db.version = 0 /\ HasApplicationSchema(db))
              /\ call[p].next = db.version + 1
    BY <1>1 DEF UnderLock
  <1> QED
    BY <1>2, <1>3, <1>4 DEF RunMigration

\* The invariant holds of a new file and fresh calls.
LEMMA InvInit == DatabaseInit => DatabaseInv
  <1> SUFFICES ASSUME DatabaseInit PROVE DatabaseInv
    OBVIOUS
  <1>1. DatabaseTypeOK
    BY DatabaseAssumption
    DEF DatabaseInit, DatabaseTypeOK, NewFile, Database, NewCall, Call, Stages
  <1>2. Locking /\ CallProgress
    BY DEF DatabaseInit, Locking, CallProgress, NewCall
  <1>3. Boundary
    BY DEF DatabaseInit, Boundary, NewFile
  <1> QED
    BY <1>1, <1>2, <1>3 DEF DatabaseInv

\* A step that leaves the file alone and gives one call a final result keeps
\* the invariant, provided the result is neither "Ok" nor "Migration".
LEMMA EndKeepsInv ==
    ASSUME DatabaseInv, NEW p \in Processes,
           NEW result \in Finals \ {"Ok", "Migration"}, End(p, result),
           UNCHANGED db,
           lock' = lock \/ (lock = p /\ lock' = NoHolder)
    PROVE  DatabaseInv'
  <1>1. /\ call' \in [Processes -> Call]
        /\ call'[p].stage = result
        /\ \A q \in Processes : /\ call'[q].tries = call[q].tries
                                /\ call'[q].next = call[q].next
                                /\ q # p => call'[q] = call[q]
    BY EndType DEF DatabaseInv
  <1>2. DatabaseTypeOK'
    BY <1>1 DEF DatabaseInv, DatabaseTypeOK
  <1>3. result \notin {"open", "journal", "migrate", "locked", "Ok", "Migration"}
    BY DEF Finals
  <1>4. Locking'
    BY <1>1, <1>3 DEF DatabaseInv, Locking
  <1>5. Boundary'
    BY DEF DatabaseInv, Boundary
  <1>6. CallProgress'
    BY <1>1, <1>3 DEF DatabaseInv, CallProgress
  <1> QED
    BY <1>2, <1>4, <1>5, <1>6 DEF DatabaseInv

\* Every step keeps the invariant.
LEMMA InvStep == DatabaseInv /\ [DatabaseNext]_databaseVars => DatabaseInv'
  <1> SUFFICES ASSUME DatabaseInv, [DatabaseNext]_databaseVars PROVE DatabaseInv'
    OBVIOUS
  <1> USE DatabaseAssumption
  <1>1. ASSUME NEW p \in Processes, Inspect(p) PROVE DatabaseInv'
    <2>1. CASE \E r \in {"UnsupportedSchemaVersion", "UnversionedSchemaConflict",
                         "DatabaseBusy"} : End(p, r)
      BY <1>1, <2>1, EndKeepsInv DEF Inspect, Finals
    <2>2. CASE call' = [call EXCEPT ![p].stage = "journal",
                                    ![p].observed = db.version]
      <3>1. DatabaseTypeOK'
        BY <1>1, <2>2 DEF DatabaseInv, Inspect, DatabaseTypeOK, Database, Call, Stages
      <3>2. Locking' /\ Boundary' /\ CallProgress'
        BY <1>1, <2>2
        DEF DatabaseInv, Inspect, DatabaseTypeOK, Database, Call, Locking, Boundary, CallProgress
      <3> QED
        BY <3>1, <3>2 DEF DatabaseInv
    <2> QED
      BY <1>1, <2>1, <2>2 DEF Inspect
  <1>2. ASSUME NEW p \in Processes, JournalIsWal(p) PROVE DatabaseInv'
    <2>1. /\ db' = [db EXCEPT !.wal = TRUE] /\ lock' = lock
          /\ \/ call[p].observed = Supported[p] /\ End(p, "Ok")
             \/ End(p, "migrate")
          /\ call[p].stage = "journal"
      BY <1>2 DEF JournalIsWal
    <2>2. /\ db' \in Database /\ db'.wal /\ db'.version = db.version
          /\ db'.schema = db.schema /\ db'.foreign = db.foreign
      BY <2>1 DEF DatabaseInv, DatabaseTypeOK, Database
    <2>3. /\ call' \in [Processes -> Call]
          /\ \A q \in Processes : /\ call'[q].tries = call[q].tries
                                  /\ call'[q].next = call[q].next
                                  /\ q # p => call'[q] = call[q]
          /\ \/ call[p].observed = Supported[p] /\ call'[p].stage = "Ok"
             \/ call'[p].stage = "migrate"
      BY <2>1, EndType DEF DatabaseInv, Finals, Stages
    <2>4. call[p].next <= db.version + 1
      BY <2>1 DEF DatabaseInv, CallProgress, DatabaseTypeOK, Database
    <2>5. DatabaseTypeOK'
      BY <2>1, <2>2, <2>3 DEF DatabaseInv, DatabaseTypeOK
    <2>6. Locking' /\ Boundary'
      BY <2>1, <2>2, <2>3 DEF DatabaseInv, Locking, Boundary
    <2>7. CallProgress'
      <3> SUFFICES ASSUME NEW q \in Processes
                   PROVE  /\ call'[q].stage = "journal" =>
                                call'[q].observed <= db'.version
                          /\ call'[q].stage \in {"open", "journal"} =>
                                call'[q].next = 1
                          /\ call'[q].stage \in {"migrate", "locked"} =>
                                db'.wal /\ call'[q].next <= db'.version + 1
                          /\ call'[q].stage = "Ok" =>
                                db'.wal /\ Supported[q] <= db'.version
                          /\ call'[q].stage # "Migration"
        BY DEF CallProgress
      <3>1. call[p].observed <= db.version
        BY <2>1 DEF DatabaseInv, CallProgress
      <3>2. CASE q # p
        BY <2>2, <2>3, <3>2 DEF DatabaseInv, CallProgress
      <3>3. CASE q = p
        BY <2>2, <2>3, <3>1, <3>3, <2>4
      <3> QED
        BY <3>2, <3>3
    <2> QED
      BY <2>5, <2>6, <2>7 DEF DatabaseInv
  <1>3. ASSUME NEW p \in Processes, JournalIsBusy(p) PROVE DatabaseInv'
    <2>1. CASE call[p].tries < MaxTries
      <3>1. DatabaseTypeOK'
        BY <1>3, <2>1 DEF DatabaseInv, JournalIsBusy, DatabaseTypeOK, Call
      <3>2. /\ UNCHANGED <<db, lock>>
            /\ \A q \in Processes : /\ call'[q].stage = call[q].stage
                                    /\ call'[q].observed = call[q].observed
                                    /\ call'[q].next = call[q].next
        BY <1>3, <2>1 DEF DatabaseInv, JournalIsBusy, DatabaseTypeOK, Call
      <3>3. Locking' /\ Boundary' /\ CallProgress'
        BY <3>2 DEF DatabaseInv, Locking, Boundary, CallProgress
      <3> QED
        BY <3>1, <3>3 DEF DatabaseInv
    <2>2. CASE ~(call[p].tries < MaxTries)
      BY <1>3, <2>2, EndKeepsInv DEF JournalIsBusy, Finals
    <2> QED
      BY <2>1, <2>2
  <1>4. ASSUME NEW p \in Processes, BeginImmediate(p) PROVE DatabaseInv'
    <2>1. CASE End(p, "DatabaseBusy") /\ UNCHANGED lock
      BY <1>4, <2>1, EndKeepsInv DEF BeginImmediate, Finals
    <2>2. CASE lock = NoHolder /\ lock' = p /\ End(p, "locked")
      <3>1. /\ call' \in [Processes -> Call]
            /\ \A q \in Processes : /\ call'[q].tries = call[q].tries
                                    /\ call'[q].next = call[q].next
                                    /\ q # p => call'[q] = call[q]
            /\ call'[p].stage = "locked"
        BY <2>2, EndType DEF DatabaseInv, Stages
      <3>2. DatabaseTypeOK'
        BY <1>4, <2>2, <3>1 DEF DatabaseInv, BeginImmediate, DatabaseTypeOK
      <3>3. \A q \in Processes : q # p => call[q].stage # "locked" \/ q = NoHolder
        BY <2>2 DEF DatabaseInv, Locking
      <3>4. Locking'
        BY <1>4, <2>2, <3>1, <3>3 DEF DatabaseInv, BeginImmediate, Locking, NoHolder
      <3>5. Boundary' /\ CallProgress'
        BY <1>4, <3>1 DEF DatabaseInv, BeginImmediate, Boundary, CallProgress
      <3> QED
        BY <3>2, <3>4, <3>5 DEF DatabaseInv
    <2> QED
      BY <1>4, <2>1, <2>2 DEF BeginImmediate
  <1>5. ASSUME NEW p \in Processes, RunMigration(p) PROVE DatabaseInv'
    <2> DEFINE n == call[p].next
    <2>1. CASE End(p, "UnversionedSchemaConflict") /\ UNCHANGED db
      BY <1>5, <2>1, DecisionUnderLock, EndKeepsInv DEF RunMigration, Finals
    <2>2. CASE /\ NextMigration(p)
               /\ \/ db.version >= n /\ UNCHANGED db
                  \/ /\ n = db.version + 1
                     /\ ~(db.version = 0 /\ HasApplicationSchema(db))
                     /\ db' = Migrated(db, n)
      <3>1. /\ call[p].stage = "locked" /\ lock = p /\ lock' = NoHolder
            /\ n \in Nat /\ n <= Supported[p] /\ db.version \in Nat
        BY <1>5, DatabaseAssumption
        DEF RunMigration, DatabaseInv, Locking, DatabaseTypeOK, Call, Database
      <3>2. /\ call' \in [Processes -> Call]
            /\ \A q \in Processes : /\ call'[q].tries = call[q].tries
                                    /\ q # p => call'[q] = call[q]
            /\ call'[p].stage = "migrate" /\ call'[p].next = n + 1
        BY <2>2, <3>1 DEF NextMigration, DatabaseInv, DatabaseTypeOK, Call, Stages
      <3>3. /\ Migrated(db, n) \in Database
            /\ Migrated(db, n).version = n
            /\ Migrated(db, n).schema = db.schema \cup {n}
            /\ db.wal => Migrated(db, n).wal
            /\ Migrated(db, n).foreign => db.foreign
        BY <3>1, MigratedFacts DEF DatabaseInv, DatabaseTypeOK
      <3>4. /\ db' \in Database
            /\ db'.version >= db.version /\ db'.version >= n
            /\ db.wal => db'.wal
            /\ db'.foreign => db.foreign
        <4>1. CASE UNCHANGED db /\ db.version >= n
          BY <3>1, <4>1 DEF DatabaseInv, DatabaseTypeOK
        <4>2. CASE n = db.version + 1 /\ db' = Migrated(db, n)
          BY <3>1, <3>3, <4>2
        <4> QED
          BY <2>2, <4>1, <4>2
      <3>5. DatabaseTypeOK'
        BY <3>1, <3>2, <3>4 DEF DatabaseInv, DatabaseTypeOK
      <3>6. Locking'
        BY <3>1, <3>2 DEF DatabaseInv, Locking
      <3>7. Boundary'
        <4>1. CASE UNCHANGED db
          BY <4>1 DEF DatabaseInv, Boundary
        <4>2. CASE /\ n = db.version + 1
                   /\ ~(db.version = 0 /\ HasApplicationSchema(db))
                   /\ db' = Migrated(db, n)
          <5>1. ~db.foreign
            BY <4>2 DEF DatabaseInv, Boundary, HasApplicationSchema
          <5>2. db'.schema = 1..(db.version + 1) /\ db'.version = db.version + 1
            <6>1. db'.schema = db.schema \cup {db.version + 1}
              BY <3>3, <4>2
            <6>2. db.schema = 1..db.version
              BY DEF DatabaseInv, Boundary
            <6>3. 1..(db.version + 1) = (1..db.version) \cup {db.version + 1}
              BY <3>1
            <6>4. db'.version = db.version + 1
              BY <3>3, <4>2
            <6> QED
              BY <6>1, <6>2, <6>3, <6>4
          <5> QED
            BY <3>4, <5>1, <5>2 DEF Boundary
        <4> QED
          BY <2>2, <4>1, <4>2
      <3>8. CallProgress'
        BY <3>1, <3>2, <3>4 DEF DatabaseInv, CallProgress, DatabaseTypeOK, Call, Database
      <3> QED
        BY <3>5, <3>6, <3>7, <3>8 DEF DatabaseInv
    <2> QED
      BY <1>5, <2>1, <2>2, DecisionUnderLock
  <1>6. ASSUME NEW p \in Processes, Confirm(p) PROVE DatabaseInv'
    <2>1. CASE End(p, "PostMigrationReadback")
      BY <1>6, <2>1, EndKeepsInv DEF Confirm, Finals
    <2>2. CASE db.version = Supported[p] /\ End(p, "Ok")
      <3>1. /\ call' \in [Processes -> Call]
            /\ \A q \in Processes : /\ call'[q].tries = call[q].tries
                                    /\ call'[q].next = call[q].next
                                    /\ q # p => call'[q] = call[q]
            /\ call'[p].stage = "Ok"
        BY <2>2, EndType DEF DatabaseInv, Finals
      <3>2. DatabaseTypeOK'
        BY <1>6, <3>1 DEF DatabaseInv, Confirm, DatabaseTypeOK
      <3>3. Locking' /\ Boundary'
        BY <1>6, <3>1 DEF DatabaseInv, Confirm, Locking, Boundary
      <3>4. CallProgress'
        BY <1>6, <2>2, <3>1 DEF DatabaseInv, Confirm, CallProgress, DatabaseTypeOK, Database
      <3> QED
        BY <3>2, <3>3, <3>4 DEF DatabaseInv
    <2> QED
      BY <1>6, <2>1, <2>2 DEF Confirm
  <1>7. ASSUME NEW p \in Processes, Crash(p) PROVE DatabaseInv'
    BY <1>7, EndKeepsInv DEF Crash, Finals
  <1>8. CASE ForeignSchema
    <2>1. db' = [db EXCEPT !.foreign = TRUE] /\ db.version = 0
      BY <1>8 DEF ForeignSchema
    <2>2. /\ db' \in Database /\ db'.version = 0 /\ db'.schema = db.schema
          /\ db'.wal = db.wal
      BY <2>1 DEF DatabaseInv, DatabaseTypeOK, Database
    <2> QED
      BY <1>8, <2>1, <2>2
      DEF ForeignSchema, DatabaseInv, DatabaseTypeOK, Locking, Boundary, CallProgress
  <1>9. CASE UNCHANGED databaseVars
    BY <1>9 DEF databaseVars, DatabaseInv, DatabaseTypeOK, Locking, Boundary, CallProgress
  <1> QED
    BY <1>1, <1>2, <1>3, <1>4, <1>5, <1>6, <1>7, <1>8, <1>9 DEF DatabaseNext, Step

\* Every reachable state satisfies the inductive invariant.
LEMMA Invariant == DatabaseSpec => []DatabaseInv
  BY InvInit, InvStep, PTL DEF DatabaseSpec

-----------------------------------------------------------------------------
(* What the invariant says of initialize.                                  *)

\* The file, the lock and the calls stay well typed, and no call retries the
\* journal switch beyond its budget or runs past its last migration.
THEOREM DatabaseTypeCorrect == DatabaseSpec => []DatabaseTypeOK
  BY Invariant, PTL DEF DatabaseInv

\* Objects that some other program created in an unversioned file are never
\* adopted by a migration (apply_migrations inspects again under the lock).
THEOREM ForeignNeverAdopted == DatabaseSpec => []ForeignSchemaIsNeverAdopted
  <1>1. DatabaseInv => ForeignSchemaIsNeverAdopted
    BY DEF DatabaseInv, Boundary, ForeignSchemaIsNeverAdopted, DatabaseTypeOK, Database
  <1> QED
    BY Invariant, <1>1, PTL

\* However migrations and crashes interleave, the committed file is complete
\* for its version (apply_migrations: objects and user_version in one commit).
THEOREM CompleteForItsVersion == DatabaseSpec => []NeverIncomplete
  <1>1. DatabaseInv => NeverIncomplete
    <2> SUFFICES ASSUME DatabaseInv PROVE NeverIncomplete
      OBVIOUS
    <2>1. db.schema = 1..db.version /\ db.version \in Nat
      BY DEF DatabaseInv, Boundary, DatabaseTypeOK, Database
    <2>2. ASSUME NEW v \in 1..db.version
          PROVE  Health(db, v) # "IncompleteCurrentSchema"
      BY <2>1, <2>2 DEF Health
    <2> QED
      BY <2>1, <2>2 DEF NeverIncomplete
  <1> QED
    BY Invariant, <1>1, PTL

\* A call of initialize that returned Ok left a file its binary can use.
THEOREM OkIsUsable == DatabaseSpec => []OkMeansUsable
  <1>1. DatabaseInv => OkMeansUsable
    BY DatabaseAssumption
    DEF DatabaseInv, Boundary, CallProgress, DatabaseTypeOK, Database, OkMeansUsable
  <1> QED
    BY Invariant, <1>1, PTL

\* No race between processes surfaces as a failed migration.
THEOREM NoRaceFails == DatabaseSpec => []NoMigrationRace
  <1>1. DatabaseInv => NoMigrationRace
    BY DEF DatabaseInv, CallProgress, NoMigrationRace
  <1> QED
    BY Invariant, <1>1, PTL

=============================================================================

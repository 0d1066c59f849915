---------------------------- MODULE WorkflowIndex ----------------------------
(***************************************************************************)
(* The workflow_index table of the local-state database and the projector  *)
(* that writes it (symphony/local_state/projector.rs).                     *)
(*                                                                         *)
(* A row is a machine-local summary of one Temporal Workflow ID.  The      *)
(* projector is the only writer; every observation is applied inside one   *)
(* BEGIN IMMEDIATE transaction, so an application is one atomic step.      *)
(*                                                                         *)
(* Abstractions.  The immutable activation facts of a row are one record   *)
(* "facts" (compared as a whole, as same_immutable_start_facts does field  *)
(* by field); only its field "issue" (repo_id + issue_ref) is looked into. *)
(* RFC 3339 timestamps are natural numbers.  Columns that no decision      *)
(* reads (current_state, active_step, waiting_kind, last_progress_at,      *)
(* freshness, updated_at) are left out.                                    *)
(***************************************************************************)
EXTENDS Naturals

CONSTANTS
    WorkflowIds,     \* Symphony's semantic Temporal Workflow IDs
    Facts,           \* immutable activation facts; each has a field "issue"
    Runs,            \* Temporal Run IDs (no order is ever used)
    Times,           \* Describe-backed start times
    CloseStatuses    \* close classifications Temporal may supply

KnownCloseStatuses ==
    {"Completed", "Failed", "Cancelled", "Terminated", "TimedOut"}

ASSUME ProjectorAssumption ==
    /\ Times \subseteq Nat
    /\ CloseStatuses \subseteq KnownCloseStatuses

VARIABLE index       \* workflow_index: workflow_id -> row or NoRow

-----------------------------------------------------------------------------
(* Rows and observations.                                                  *)

ActiveStatus == "Running"
TerminalStatuses == {"Completed", "Failed", "ClosedUnknown"}
Unclassified == "ClosedUnknown"      \* a close without a supported status
NoOutcome == "NoOutcome"
TerminalOutcomes == KnownCloseStatuses \cup {Unclassified}

Row == [facts   : Facts,
        run     : Runs,
        started : Times,
        status  : TerminalStatuses \cup {ActiveStatus},
        outcome : TerminalOutcomes \cup {NoOutcome}]

\* No row is stored for the Workflow ID.
NoRow == [status |-> "Absent"]

\* One caller-supplied lifecycle observation, by kind.
OpenObservation ==
    [kind : {"DescribeOpen"}, wid : WorkflowIds, facts : Facts,
     run : Runs, started : Times]
ClosedObservation ==
    [kind : {"DescribeClosed"}, wid : WorkflowIds, facts : Facts,
     run : Runs, started : Times, close : CloseStatuses \cup {Unclassified}]
StartObservation ==
    [kind : {"StartResponse"}, wid : WorkflowIds, facts : Facts, run : Runs]
    \cup [kind : {"DefinitiveStartFailure"}, wid : WorkflowIds, facts : Facts]

Observation == OpenObservation \cup ClosedObservation \cup StartObservation

Outcomes == {"Applied", "AlreadyApplied", "StaleObservation",
             "WorkflowIdentityConflict", "ActiveProjectionConflict",
             "DescribeRequired", "StartFailureNotProjected"}

\* terminal_projection: every known close but success is a failure, and an
\* unclassified close has a status of its own.
TerminalStatus(close) ==
    CASE close = "Completed"  -> "Completed"
      [] close = Unclassified -> "ClosedUnknown"
      [] OTHER                -> "Failed"

\* load_active_workflow, and the partial unique index it reads: the stored
\* active rows of an issue, whatever runtime wrote them.
ActiveRows(issue) ==
    {w \in WorkflowIds : /\ index[w].status = ActiveStatus
                         /\ index[w].facts.issue = issue}

\* Mutant of DescribedRow: the outcome column is not bound.
DescribedRowWithoutOutcome(o, status, outcome) ==
    [facts |-> o.facts, run |-> o.run, started |-> o.started,
     status |-> status, outcome |-> NoOutcome]

\* described_row: the row an authoritative Describe stands for.
DescribedRow(o, status, outcome) ==
    [facts |-> o.facts, run |-> o.run, started |-> o.started,
     status |-> status, outcome |-> outcome]

\* insert_workflow and update_material_projection.
Write(w, row) == index' = [index EXCEPT ![w] = row]

-----------------------------------------------------------------------------
(* Applying one observation: "out" is the outcome returned to the caller.  *)

\* Mutant of InsertOpen: the partial unique index is missing.
InsertOpenUnguarded(o, out) ==
    /\ index[o.wid] = NoRow
    /\ Write(o.wid, DescribedRow(o, ActiveStatus, NoOutcome))
    /\ out = "Applied"

\* DescribeOpen without a row: the insert meets the unique index on active
\* rows and turns a violation into a typed conflict.
InsertOpen(o, out) ==
    /\ index[o.wid] = NoRow
    /\ \/ /\ ActiveRows(o.facts.issue) = {}
          /\ Write(o.wid, DescribedRow(o, ActiveStatus, NoOutcome))
          /\ out = "Applied"
       \/ /\ ActiveRows(o.facts.issue) # {}
          /\ UNCHANGED index
          /\ out = "ActiveProjectionConflict"

\* same_immutable_start_facts failed for a stored row: nothing is written.
IdentityConflict(o, out) ==
    /\ index[o.wid] # NoRow
    /\ index[o.wid].facts # o.facts
    /\ UNCHANGED index
    /\ out = "WorkflowIdentityConflict"

\* The stored row was written for the same activation.
Confirmed(o) == index[o.wid] # NoRow /\ index[o.wid].facts = o.facts

\* Mutant of AdvanceOpen: the start times are not compared.
AdvanceOpenUnordered(o, out) ==
    /\ Confirmed(o)
    /\ index[o.wid].status = ActiveStatus
    /\ Write(o.wid, DescribedRow(o, ActiveStatus, NoOutcome))
    /\ out = "Applied"

\* DescribeOpen on a stored row: only an active row moves, and only to a Run
\* that Temporal says started later.
AdvanceOpen(o, out) ==
    LET row == index[o.wid] IN
    /\ Confirmed(o)
    /\ \/ /\ row.status # ActiveStatus
          /\ UNCHANGED index
          /\ out = "StaleObservation"
       \/ /\ row.status = ActiveStatus
          /\ row.run = o.run
          /\ UNCHANGED index
          /\ out = IF row.started = o.started THEN "AlreadyApplied"
                                              ELSE "StaleObservation"
       \/ /\ row.status = ActiveStatus
          /\ row.run # o.run
          /\ o.started <= row.started
          /\ UNCHANGED index
          /\ out = "StaleObservation"
       \/ /\ row.status = ActiveStatus
          /\ row.run # o.run
          /\ o.started > row.started
          /\ Write(o.wid, DescribedRow(o, ActiveStatus, NoOutcome))
          /\ out = "Applied"

DescribeOpen(o, out) ==
    \/ InsertOpen(o, out)
    \/ IdentityConflict(o, out)
    \/ AdvanceOpen(o, out)

\* DescribeClosed without a row inserts the terminal row directly; the active
\* index does not apply to it.
InsertClosed(o, out) ==
    /\ index[o.wid] = NoRow
    /\ Write(o.wid, DescribedRow(o, TerminalStatus(o.close), o.close))
    /\ out = "Applied"

\* Mutants of ClosedIsStale: another run is never stale; another run always is.
ClosedIsStaleSameRunOnly(o) ==
    index[o.wid].run = o.run /\ index[o.wid].started # o.started
ClosedIsStaleOtherRun(o) ==
    index[o.wid].run # o.run \/ index[o.wid].started # o.started

\* The closed Describe contradicts the stored run or is older than it.
ClosedIsStale(o) ==
    LET row == index[o.wid] IN
    IF row.run = o.run
      THEN row.started # o.started
      ELSE row.status # ActiveStatus \/ o.started <= row.started

\* DescribeClosed on a stored row: an active row closes, an unclassified close
\* is refined, any other terminal row is only confirmed.
AdvanceClosed(o, out) ==
    LET row    == index[o.wid]
        status == TerminalStatus(o.close)
    IN
    /\ Confirmed(o)
    /\ \/ /\ ClosedIsStale(o)
          /\ UNCHANGED index
          /\ out = "StaleObservation"
       \/ /\ ~ClosedIsStale(o)
          /\ row.status = ActiveStatus
          /\ Write(o.wid, DescribedRow(o, status, o.close))
          /\ out = "Applied"
       \/ /\ ~ClosedIsStale(o)
          /\ row.status \in TerminalStatuses
          /\ row.status = status /\ row.outcome = o.close
          /\ UNCHANGED index
          /\ out = "AlreadyApplied"
       \/ /\ ~ClosedIsStale(o)
          /\ row.status = "ClosedUnknown"
          /\ status # "ClosedUnknown"
          /\ Write(o.wid, [row EXCEPT !.status = status, !.outcome = o.close])
          /\ out = "Applied"
       \/ /\ ~ClosedIsStale(o)
          /\ row.status \in TerminalStatuses \ {"ClosedUnknown"}
          /\ ~(row.status = status /\ row.outcome = o.close)
          /\ UNCHANGED index
          /\ out = "StaleObservation"

DescribeClosed(o, out) ==
    \/ InsertClosed(o, out)
    \/ IdentityConflict(o, out)
    \/ AdvanceClosed(o, out)

\* A start response has no start time: it may confirm a run, never write one.
StartResponse(o, out) ==
    \/ IdentityConflict(o, out)
    \/ /\ index[o.wid] = NoRow \/ Confirmed(o)
       /\ UNCHANGED index
       /\ out = IF Confirmed(o) /\ index[o.wid].run = o.run
                  THEN "AlreadyApplied" ELSE "DescribeRequired"

\* A definitive start failure is returned, never stored.
DefinitiveStartFailure(o, out) ==
    \/ IdentityConflict(o, out)
    \/ /\ index[o.wid] = NoRow \/ Confirmed(o)
       /\ UNCHANGED index
       /\ out = "StartFailureNotProjected"

\* LocalStateProjector::project.
Project(o, out) ==
    \/ o.kind = "DescribeOpen"           /\ DescribeOpen(o, out)
    \/ o.kind = "DescribeClosed"         /\ DescribeClosed(o, out)
    \/ o.kind = "StartResponse"          /\ StartResponse(o, out)
    \/ o.kind = "DefinitiveStartFailure" /\ DefinitiveStartFailure(o, out)

IndexInit == index = [w \in WorkflowIds |-> NoRow]

-----------------------------------------------------------------------------
(* What the table promises, whatever observations arrive in what order.    *)

\* Every stored row is complete: a known status and, once terminal, an outcome
\* of the close vocabulary.
IndexTypeOK == index \in [WorkflowIds -> Row \cup {NoRow}]

\* At most one active row per repository issue, across runtimes
\* (uq_workflow_index_active_issue): no order of inserts, replacements and
\* closes may leave two Workflow IDs of an issue both projected as running.
OneActivePerIssue ==
    \A v, w \in WorkflowIds :
        (/\ index[v].status = ActiveStatus
         /\ index[w].status = ActiveStatus
         /\ index[v].facts.issue = index[w].facts.issue) => v = w

\* What one step may do to the row of w: a stored row is never deleted and
\* keeps its activation facts; a terminal row keeps its run and start time and
\* changes classification only out of "unclassified"; the run locator moves
\* only to a later start time.
RowStep(w) ==
    LET old == index[w]
        new == index'[w]
    IN old # NoRow =>
        /\ new # NoRow
        /\ new.facts = old.facts
        /\ old.status \in TerminalStatuses =>
              /\ new.run = old.run /\ new.started = old.started
              /\ new.status \in TerminalStatuses
              /\ old.status # "ClosedUnknown" =>
                    new.status = old.status /\ new.outcome = old.outcome
        /\ new.run # old.run => new.started > old.started
        /\ new.run = old.run => new.started = old.started

\* Rows only move forward: see RowStep.
RowsOnlyAdvance == [][\A w \in WorkflowIds : RowStep(w)]_index
=============================================================================

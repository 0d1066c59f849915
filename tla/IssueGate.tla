------------------------------ MODULE IssueGate ------------------------------
(***************************************************************************)
(* The Issue Quality Gate (src/quality_gate.rs, src/commands/gate.rs): the *)
(* deterministic safety check of a candidate, the optional semantic        *)
(* evaluator with its strict structured answer, and the dependency         *)
(* preflight.  Only what decides the result is kept: whether lists are     *)
(* empty, never what they say.                                             *)
(***************************************************************************)

Kinds == {"Ready", "ReadyWithAssumptions", "NeedToClarify", "TooBroad", "Blocked",
          "DuplicateAlreadyCovered"}

Modes == {"disabled", "advisory", "required"}

\* titled; the faults of the body, none or some of the four the code names; seed: 40
\* characters or more, with an Issue Goal or an Issue Context section.
Candidate ==
    [titled : BOOLEAN, bodyFaults : SUBSET {"empty", "oversized", "nul", "liquid"},
     seed : BOOLEAN, assigned : BOOLEAN, blockersResolved : BOOLEAN]

\* What the evaluator's command came back with.  ran: it was configured, started,
\* exited with success in time; wellFormed: a JSON object with the four fields and
\* no other, each of its type; the other fields then say what it contains.
Answer ==
    [ran : BOOLEAN, wellFormed : BOOLEAN, kind : Kinds, missing : BOOLEAN,
     assumptions : BOOLEAN]

Dispatchable(kind) == kind \in {"Ready", "ReadyWithAssumptions"}

-----------------------------------------------------------------------------
EvaluateIssue(c) == IF c.titled /\ c.bodyFaults = {} THEN "Ready" ELSE "NeedToClarify"

\* A result that contradicts itself is refused like one that cannot be read.
Coherent(a) ==
    /\ a.kind = "Ready" => ~a.missing /\ ~a.assumptions
    /\ a.kind = "ReadyWithAssumptions" => ~a.missing /\ a.assumptions
    /\ ~Dispatchable(a.kind) => a.missing

Accepted(a) == a.ran /\ a.wellFormed /\ Coherent(a)

LlmGate(mode, deterministic, a) ==
    IF ~Dispatchable(deterministic) \/ mode \in {"disabled", "advisory"} THEN deterministic
    ELSE IF Accepted(a) THEN a.kind
    ELSE "NeedToClarify"

DependencyPreflight(c) ==
    IF ~Dispatchable(EvaluateIssue(c)) THEN EvaluateIssue(c)
    ELSE IF c.blockersResolved THEN "Ready"
    ELSE "Blocked"

\* A live tracker refuses a candidate without assignee before the evaluator runs.
EvaluateForCurrentSource(mode, live, c, a) ==
    IF live /\ ~c.assigned THEN "NeedToClarify"
    ELSE LET decision == LlmGate(mode, EvaluateIssue(c), a)
         IN  IF Dispatchable(decision) /\ ~Dispatchable(DependencyPreflight(c))
             THEN DependencyPreflight(c)
             ELSE decision

GateTargetState(kind) ==
    IF kind \in {"NeedToClarify", "TooBroad"} THEN "NeedToClarify"
    ELSE IF kind = "Blocked" THEN "NeedHumanInput"
    ELSE IF kind = "DuplicateAlreadyCovered" THEN "Done"
    ELSE "Todo"

\* A Backlog seed passes a lighter gate: a title and a body worth keeping.
BacklogSeed(c) == IF c.titled /\ c.seed THEN "Ready" ELSE "NeedToClarify"

=============================================================================

------------------------ MODULE MCLocalStateProjector ------------------------
(* Two Workflow IDs of one issue, two sets of activation facts (another     *)
(* runtime), two runs and two start times.                                  *)
EXTENDS LocalStateProjector, TLC

CONSTANTS w1, w2, r1, r2

MCFacts == [runtime : {"A", "B"}, issue : {"issue"}]
MCTimes == 1..2

\* Workflow IDs and Run IDs are never ordered or named by the projector.
MCSymmetry == Permutations({w1, w2}) \cup Permutations({r1, r2})
=============================================================================

---------------------------- MODULE MCCoordinator ----------------------------
(* Instances of Coordinator for TLC.                                        *)
EXTENDS Coordinator, TLC

CONSTANTS MaxTime, src, s1, s2, r1, r2

MCIssues == {<<"github", 1>>}
MCRuntimeOf == [r \in Reconcilers |-> "A"]
MCWorkflowIds == {BuildWorkflowId(a) : a \in Activation}
MCFacts == {StartFacts("A", a) : a \in Activation}
MCRuns == 1..MaxRuns
MCTimes == 1..MaxTime

\* Invocations of one kind differ in nothing but their name.
MCSymmetry == Permutations(Starts) \cup Permutations(Reconcilers)
=============================================================================

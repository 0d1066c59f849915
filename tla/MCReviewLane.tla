----------------------------- MODULE MCReviewLane -----------------------------
(* Reviewers for the Review lane: one that finds nothing, one that finds    *)
(* nothing and commits to the worktree, and one that passes what it found   *)
(* wanting.                                                                 *)
EXTENDS ReviewLane

Clean == [ends |-> "delivered", wellFormed |-> TRUE, result |-> "pass", findings |-> {},
          says |-> {}, touched |-> "none"]
MCAnswers == {Clean, [Clean EXCEPT !.touched = "committed"],
              [Clean EXCEPT !.findings = {"confirmed", "needs_context"}]}
=============================================================================

--------------------------- MODULE CanonicalCheckout ---------------------------
(***************************************************************************)
(* The canonical checkout of a repository: the working tree in which the    *)
(* lanes run.  Before a process writes anything it inspects the checkout,   *)
(* moves known droppings to a quarantine, fetches and fast-forwards the     *)
(* base branch.  Every git command is a step of its own, and several        *)
(* processes refresh the same checkout.  Revisions of the base branch are   *)
(* numbers.                                                                 *)
(***************************************************************************)
EXTENDS Naturals

CONSTANTS
  Procs,    \* the processes that refresh
  MaxBase   \* bound on revisions of the base branch

VARIABLES
  base,      \* the base branch: on the remote, as last fetched, checked out
  checkout,  \* what else is true of the working tree
  refresh    \* per process, the step it is at

checkoutVars == <<base, checkout, refresh>>

Base == [remote : 0..MaxBase, tracking : 0..MaxBase, head : 0..MaxBase, ahead : BOOLEAN]

\* droppings are untracked files of a known kind, strange is any other.
Checkout == [on : {"base", "other", "detached"}, tracked : BOOLEAN,
             droppings : {"none", "here", "quarantined"}, strange : BOOLEAN]
Steps == {"idle", "migrate", "fetch", "compare", "merge", "enforce", "fresh", "blocked"}

CheckoutInit ==
  /\ base = [remote |-> 1, tracking |-> 0, head |-> 0, ahead |-> FALSE]
  /\ checkout = [on |-> "base", tracked |-> FALSE, droppings |-> "here", strange |-> FALSE]
  /\ refresh = [p \in Procs |-> "idle"]

\* Attached to the base branch, no changed file, no unknown untracked file.
CleanEnough == checkout.on = "base" /\ ~checkout.tracked /\ ~checkout.strange

Refreshing(p, step) == refresh[p] = step
Then(p, step) == refresh' = [refresh EXCEPT ![p] = step]

Inspect(p) ==
  /\ Refreshing(p, "idle")
  /\ Then(p, IF CleanEnough THEN "migrate" ELSE "blocked")
  /\ UNCHANGED <<base, checkout>>

Migrate(p, ok) ==
  /\ Refreshing(p, "migrate")
  /\ IF ok
     THEN /\ checkout' = [checkout EXCEPT !.droppings = IF @ = "here" THEN "quarantined" ELSE @]
          /\ Then(p, "fetch")
     ELSE Then(p, "blocked") /\ UNCHANGED checkout
  /\ UNCHANGED base

\* Mutant of Fetch: the last fetch is good enough.
MutFetchNothing(p, ok) ==
  /\ Refreshing(p, "fetch")
  /\ Then(p, IF ok THEN "compare" ELSE "blocked")
  /\ UNCHANGED <<base, checkout>>

Fetch(p, ok) ==
  /\ Refreshing(p, "fetch")
  /\ IF ok THEN base' = [base EXCEPT !.tracking = base.remote] /\ Then(p, "compare")
           ELSE UNCHANGED base /\ Then(p, "blocked")
  /\ UNCHANGED checkout

\* A second inspection, and the question whether a fast-forward is possible.
Compare(p) ==
  /\ Refreshing(p, "compare")
  /\ Then(p, IF ~CleanEnough \/ base.ahead THEN "blocked"
             ELSE IF base.head = base.tracking THEN "fresh" ELSE "merge")
  /\ UNCHANGED <<base, checkout>>

\* `git merge --ff-only' takes the upstream as it is now, and refuses one
\* that would overwrite local changes or is no descendant.
Merge(p) ==
  /\ Refreshing(p, "merge")
  /\ IF base.ahead \/ checkout.tracked \/ checkout.on # "base"
     THEN Then(p, "blocked") /\ UNCHANGED base
     ELSE Then(p, "enforce") /\ base' = [base EXCEPT !.head = base.tracking]
  /\ UNCHANGED checkout

Enforce(p) ==
  /\ Refreshing(p, "enforce")
  /\ LET ok == CleanEnough /\ base.head = base.tracking /\ ~base.ahead IN
     /\ Then(p, IF ok THEN "fresh" ELSE "blocked")
     /\ checkout' = IF ok /\ checkout.droppings = "here"
                    THEN [checkout EXCEPT !.droppings = "quarantined"] ELSE checkout
  /\ UNCHANGED base

RefreshStep(p) ==
  \/ Inspect(p) \/ Migrate(p, TRUE) \/ Fetch(p, TRUE) \/ Compare(p) \/ Merge(p) \/ Enforce(p)
RefreshFails(p) == Migrate(p, FALSE) \/ Fetch(p, FALSE)

\* What people and other machines do to the repository.
RemoteMoves ==
  /\ base.remote < MaxBase
  /\ base' = [base EXCEPT !.remote = @ + 1]
  /\ UNCHANGED <<checkout, refresh>>

PersonEdits ==
  /\ \/ checkout' = [checkout EXCEPT !.tracked = TRUE] /\ UNCHANGED base
     \/ checkout' = [checkout EXCEPT !.strange = TRUE] /\ UNCHANGED base
     \/ checkout' = [checkout EXCEPT !.on = "other"] /\ UNCHANGED base
     \/ checkout.on = "base" /\ base' = [base EXCEPT !.ahead = TRUE] /\ UNCHANGED checkout
  /\ UNCHANGED refresh
=============================================================================

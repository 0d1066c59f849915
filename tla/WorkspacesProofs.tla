--------------------------- MODULE WorkspacesProofs ---------------------------
(***************************************************************************)
(* Proofs about Workspaces: the hand-off of verified work, the branches of *)
(* other issues and the start from a refreshed base branch, for every      *)
(* backend, role and history, and any number of faults, edits and commits. *)
(*                                                                         *)
(* The inductive invariant WInv says what each step of a run may rely on   *)
(* while commands, people and orphaned agents use the same repository:     *)
(* which revision the canonical checkout has reached (Fresh), that the     *)
(* worktrees of git stay apart (Trees), and what of the run is settled and *)
(* cannot be changed behind its back without a trace (Settled, Verified).  *)
(***************************************************************************)
EXTENDS Workspaces, FiniteSetTheorems, TLAPS

-----------------------------------------------------------------------------
(* The inductive invariant. *)

RunRecord ==
  [pc : Steps_, since : 0..MaxBase, path : Paths, branch : Branches \cup {"none"},
   touched : BOOLEAN, event : {"Claimed", "Resumed"}, seen : [ref : Ref \cup {NoRef}, dirty : BOOLEAN]]

Command ==
  [pc : {"refresh", "ensure", "remove"}] \cup [pc : {"note"}, path : Paths]

\* Type correctness, with the run and the workspace command.
Typed ==
  /\ TypeOK
  /\ run = Idle \/ run \in RunRecord
  /\ cmd = Idle \/ cmd \in Command

\* A worktree is on a branch that exists, is registered, and shares its branch
\* with no other.
Trees ==
  \A p \in Paths :
    /\ wt[p].there => wt[p].reg
    /\ wt[p].on # "detached" => wt[p].reg /\ local[wt[p].on] # NoRef
    /\ \A q \in Paths : wt[p].on = wt[q].on => p = q \/ wt[p].on = "detached"

\* A pull request has a remote branch.
Published == \A b \in Branches : prs[b] # NoPr => remote[b] # NoRef

\* The canonical checkout follows the remote, and a run that has fetched, or
\* merged, has seen the remote as it was when the run began, or newer.
Fresh ==
  /\ base.head <= base.tracking /\ base.tracking <= base.remote
  /\ run # Idle =>
       /\ run.since <= base.remote
       /\ At("refresh") /\ refresh["loop"] \in {"compare", "merge", "enforce", "fresh"}
            => run.since <= base.tracking
       /\ At("refresh") /\ refresh["loop"] \in {"enforce", "fresh"} => run.since <= base.head
       /\ run.pc \in {"plan", "preflight", "prepare"} => run.since <= base.head

\* A planned run has a branch that names no other issue; once it is pushed and
\* published the remote branch and the pull request stay.
Settled ==
  run # Idle =>
    /\ run.pc \notin {"refresh", "plan"} => run.branch \in Branches \ {"foreign"}
    /\ run.pc \in {"publish", "link", "ready", "over"} => remote[run.branch] # NoRef
    /\ run.pc \in {"link", "ready", "over"} => prs[run.branch] # NoPr /\ prs[run.branch].closes
    /\ run.pc \in {"ready", "over"} => prs[run.branch].linked

\* Unless somebody touched the run's worktree or pull request, it is on the
\* run's branch, what was verified is what the branch holds, and what was
\* pushed is what was verified.
Verified ==
  run # Idle /\ ~run.touched =>
    /\ run.pc \in {"claim", "own", "work", "commit", "verify", "check", "parent", "push",
                   "publish", "link", "ready", "over"}
         => wt[run.path].there /\ wt[run.path].on = run.branch
    /\ run.pc \in {"check", "parent", "push", "publish", "link", "ready", "over"}
         => run.seen.ref = local[run.branch] /\ (run.seen.dirty => wt[run.path].dirty)
    /\ run.pc \in {"parent", "push", "publish", "link", "ready", "over"} => ~wt[run.path].dirty
    /\ run.pc \in {"publish", "link", "ready", "over"} => remote[run.branch] = local[run.branch]
    /\ run.pc = "over" => ~prs[run.branch].draft

WInv == Typed /\ Trees /\ Published /\ Fresh /\ Settled /\ Verified

-----------------------------------------------------------------------------
(* Values. *)

\* A branch, a pull request and a run are told apart from their absence.
LEMMA Absent ==
  /\ \A r \in Ref : r # NoRef
  /\ \A r \in Pr : r # NoPr
  /\ \A r \in RunRecord : r # Idle
<1>1. \A r \in Ref : DOMAIN r # DOMAIN NoRef
  BY DEF Ref, NoRef
<1>2. \A r \in Pr : DOMAIN r # DOMAIN NoPr
  BY DEF Pr, NoPr
<1>3. \A r \in RunRecord : r.pc # Idle.pc
  BY DEF RunRecord, Idle, Steps_
<1> QED
  BY <1>1, <1>2, <1>3

\* A chosen element is one of the set.
LEMMA SoleIsIn ==
  ASSUME NEW S, S # {}
  PROVE  Sole(S) \in S
BY DEF Sole

\* A set of one element is not empty; among the branches, a set of at most one
\* element that has not one is empty.
LEMMA Sizes ==
  /\ \A S : Cardinality(S) = 1 => S # {}
  /\ \A S \in SUBSET Branches : Cardinality(S) # 1 /\ ~(Cardinality(S) > 1) => S = {}
<1>1. \A S : Cardinality(S) = 1 => S # {}
  BY FS_EmptySet
<1>2. IsFiniteSet(Branches)
  <2>1. Branches = {"issue"} \cup {"topic"} \cup {"foreign"} \cup {"integration"}
    BY DEF Branches
  <2> QED
    BY <2>1, FS_Singleton, FS_Union
<1>3. ASSUME NEW S \in SUBSET Branches, Cardinality(S) # 1, ~(Cardinality(S) > 1)
      PROVE  S = {}
  <2>1. IsFiniteSet(S)
    BY <1>2, FS_Subset
  <2>2. Cardinality(S) \in Nat
    BY <2>1, FS_CardinalityType
  <2>3. Cardinality(S) = 0
    BY <2>2, <1>3
  <2> QED
    BY <2>1, <2>3, FS_EmptySet
<1> QED
  BY <1>1, <1>3

\* A worktree that was found is a path (git_handoff.rs:181).
LEMMA CanonicalIsPath ==
  Canonical # "none" => Canonical \in Paths
<1>1. Cardinality(Strong) = 1 => Sole(Strong) \in Strong
  BY Sizes, SoleIsIn
<1>2. Cardinality(Candidates) = 1 => Sole(Candidates) \in Candidates
  BY Sizes, SoleIsIn
<1>3. Strong \subseteq Paths /\ Candidates \subseteq Paths
  BY DEF Strong, Candidates
<1> QED
  BY <1>1, <1>2, <1>3 DEF Canonical

\* The branch of a candidate is a branch, or none.
LEMMA CandidateBranchType ==
  ASSUME TypeOK, NEW p \in Paths
  PROVE  CandidateBranch(p) \in Branches \cup {"detached"}
<1>1. rec.path = p => rec.branch \in Branches \cup {"detached"}
  BY DEF TypeOK, NoRec, Paths
<1>2. wt[p].on \in Branches \cup {"detached"}
  BY DEF TypeOK, Tree
<1> QED
  BY <1>1, <1>2 DEF CandidateBranch

\* A plan, if there is one, is a branch that names no other issue.
LEMMA PlanNamesNoOther ==
  ASSUME NEW state
  PROVE  PlanBranch(state) = "bad" \/ PlanBranch(state) \in Branches \ {"foreign"}
<1>1. PlannedBranch \in Branches \ {"foreign"}
  BY DEF PlannedBranch, Branches
<1>2. ASSUME Cardinality(Open(Linked)) = 1
      PROVE  (CHOOSE b \in Open(Linked) : TRUE) \in Branches
  <2>1. Open(Linked) # {}
    BY <1>2, Sizes
  <2>2. Open(Linked) \subseteq Branches
    BY DEF Open, Linked
  <2> QED
    BY <2>1, <2>2
<1>3. IssueOf("foreign") = "other"
  BY DEF IssueOf
<1>4. CASE state # "Rework" \/ Linked = {}
  BY <1>1, <1>4 DEF PlanBranch
<1>5. CASE ~(state # "Rework" \/ Linked = {})
  <2>1. CASE Cardinality(Open(Linked)) # 1
    BY <1>5, <2>1 DEF PlanBranch
  <2>2. CASE Cardinality(Open(Linked)) = 1
    <3>1. PICK head : head = CHOOSE b \in Open(Linked) : TRUE
      OBVIOUS
    <3>2. PlanBranch(state) = IF IssueOf(head) = "other" THEN "bad" ELSE head
      BY <1>5, <2>2, <3>1 DEF PlanBranch
    <3> QED
      BY <1>2, <1>3, <2>2, <3>1, <3>2
  <2> QED
    BY <2>1, <2>2
<1> QED
  BY <1>4, <1>5

\* Nor is a worktree that belongs to such a plan on a branch of another issue.
LEMMA BelongingNamesNoOther ==
  ASSUME NEW p, NEW planned \in Branches \ {"foreign"}, NEW b \in Branches,
         BelongsTo(p, b, planned)
  PROVE  b # "foreign"
BY DEF BelongsTo, IssueOf

-----------------------------------------------------------------------------
(* What planning and the preflight lead to. *)

\* The run stops, or goes on to prepare a worktree whose branch names no other
\* issue.
Prepares ==
  \/ run' = Idle
  \/ \E p \in Paths : \E b \in Branches \ {"foreign"} :
       run' = [run EXCEPT !.pc = "prepare", !.path = p, !.branch = b]

Plans == [path : Paths, branch : Branches \ {"foreign"}]

\* What leaves the tracker alone or puts the issue before a person.
Escalates ==
  store' = store /\ (issue' = issue \/ issue' = [issue EXCEPT !.state = "NeedHumanInput"])

\* The launch of a planned worktree, or of the one that was found in its place
\* (lanes/main_loop/handoff.rs:347).
LEMMA LaunchShape ==
  ASSUME TypeOK, NEW mode, NEW planned \in Plans, Launch(mode, planned)
  PROVE  Prepares /\ Escalates
<1> DEFINE live == {p \in Candidates : wt[p].there}
           strong == live \cap Strong
           pool == IF strong # {} THEN strong ELSE live
<1>1. pool \subseteq Paths
  BY DEF Candidates
<1>2. pool # {} => Sole(pool) \in Paths
  BY <1>1, SoleIsIn
<1>3. planned.path \in Paths /\ planned.branch \in Branches \ {"foreign"}
  BY DEF Plans
<1>4. PICK p : p = Sole(pool)
  OBVIOUS
<1>5. PICK b : b = CandidateBranch(p)
  OBVIOUS
<1>6. \/ Blocked
      \/ /\ run' = [run EXCEPT !.pc = "prepare", !.path = planned.path, !.branch = planned.branch]
         /\ UNCHANGED <<issue, store>>
      \/ /\ pool # {} /\ b # "detached" /\ BelongsTo(p, b, planned.branch)
         /\ run' = [run EXCEPT !.pc = "prepare", !.path = p, !.branch = b]
         /\ UNCHANGED <<issue, store>>
  BY <1>4, <1>5 DEF Launch
<1> HIDE DEF pool
<1>7. CASE Blocked
  BY <1>7 DEF Blocked, Prepares, Escalates
<1>8. CASE /\ run' = [run EXCEPT !.pc = "prepare", !.path = planned.path, !.branch = planned.branch]
           /\ UNCHANGED <<issue, store>>
  BY <1>3, <1>8 DEF Prepares, Escalates
<1>9. CASE /\ pool # {} /\ b # "detached" /\ BelongsTo(p, b, planned.branch)
           /\ run' = [run EXCEPT !.pc = "prepare", !.path = p, !.branch = b]
           /\ UNCHANGED <<issue, store>>
  <2>1. p \in Paths
    BY <1>2, <1>4, <1>9
  <2>2. b \in Branches
    BY <1>5, <1>9, <2>1, CandidateBranchType
  <2>3. b # "foreign"
    BY <1>3, <1>9, <2>2, BelongingNamesNoOther
  <2> QED
    BY <1>9, <2>1, <2>2, <2>3 DEF Prepares, Escalates
<1> QED
  BY <1>6, <1>7, <1>8, <1>9

\* The same, with the recovery of a resumed run in front
\* (run_loop_apply_recovery_handoff).
LEMMA PreflightShape ==
  ASSUME Typed, Settled, Preflight
  PROVE  Prepares /\ Escalates
<1>1. run \in RunRecord /\ run.path \in Paths /\ run.branch \in Branches \ {"foreign"}
  <2>1. run # Idle /\ run.pc = "preflight"
    BY DEF Preflight, At, Idle
  <2> QED
    BY <2>1 DEF Typed, RunRecord, Settled
<1>2. TypeOK
  BY DEF Typed
<1>3. ASSUME NEW p \in Paths, NEW b \in Branches \ {"foreign"}, NEW mode,
             Launch(mode, [path |-> p, branch |-> b])
      PROVE  Prepares /\ Escalates
  <2>1. [path |-> p, branch |-> b] \in Plans
    BY DEF Plans
  <2> QED
    BY <1>2, <1>3, <2>1, LaunchShape
<1>4. ASSUME LoopError PROVE Prepares /\ Escalates
  BY <1>4 DEF LoopError, Prepares, Escalates
<1>5. PICK stored : stored = IF Recovers THEN store.path ELSE "none"
  OBVIOUS
<1>6. stored # "none" => stored \in Paths
  BY <1>2, <1>5 DEF TypeOK, Recovers, NoStore
<1>7. \/ Launch("fresh", [path |-> run.path, branch |-> run.branch])
      \/ LoopError
      \/ /\ stored # "none" /\ wt[stored].on # "detached"
         /\ BelongsTo(stored, wt[stored].on, run.branch)
         /\ Launch("recovery", [path |-> stored, branch |-> wt[stored].on])
      \/ /\ Canonical # "none" /\ CandidateBranch(Canonical) # "detached"
         /\ BelongsTo(Canonical, CandidateBranch(Canonical), run.branch)
         /\ Launch("recovery", [path |-> Canonical, branch |-> CandidateBranch(Canonical)])
  BY <1>5 DEF Preflight
<1>8. CASE Launch("fresh", [path |-> run.path, branch |-> run.branch])
  BY <1>1, <1>3, <1>8
<1>9. CASE /\ stored # "none" /\ wt[stored].on # "detached"
           /\ BelongsTo(stored, wt[stored].on, run.branch)
           /\ Launch("recovery", [path |-> stored, branch |-> wt[stored].on])
  <2>1. wt[stored].on \in Branches
    BY <1>2, <1>6, <1>9 DEF TypeOK, Tree
  <2>2. wt[stored].on # "foreign"
    BY <1>1, <1>9, <2>1, BelongingNamesNoOther
  <2> QED
    BY <1>3, <1>6, <1>9, <2>1, <2>2
<1>10. CASE /\ Canonical # "none" /\ CandidateBranch(Canonical) # "detached"
            /\ BelongsTo(Canonical, CandidateBranch(Canonical), run.branch)
            /\ Launch("recovery", [path |-> Canonical, branch |-> CandidateBranch(Canonical)])
  <2>1. Canonical \in Paths
    BY <1>10, CanonicalIsPath
  <2>2. CandidateBranch(Canonical) \in Branches
    BY <1>2, <1>10, <2>1, CandidateBranchType
  <2>3. CandidateBranch(Canonical) # "foreign"
    BY <1>1, <1>10, <2>2, BelongingNamesNoOther
  <2> QED
    BY <1>3, <1>10, <2>1, <2>2, <2>3
<1> QED
  BY <1>4, <1>7, <1>8, <1>9, <1>10

\* A plan is stopped, or made for a path and a branch that names no other issue
\* (handoff.rs:659).
LEMMA PlanShape ==
  ASSUME Typed, Plan
  PROVE  /\ Escalates
         /\ \/ run' = Idle
            \/ \E p \in Paths : \E b \in Branches \ {"foreign"} :
                 run' = [run EXCEPT !.pc = "preflight", !.branch = b, !.path = p]
<1>1. PICK b : b = PlanBranch(issue.state)
  OBVIOUS
<1>2. b = "bad" \/ b \in Branches \ {"foreign"}
  BY <1>1, PlanNamesNoOther
<1>3. PICK reuse : reuse = (issue.state = "Rework" /\ Canonical # "none" /\ CandidateBranch(Canonical) = b)
  OBVIOUS
<1>4. PICK p : p = IF reuse THEN Canonical ELSE "own"
  OBVIOUS
<1>5. p \in Paths
  BY <1>3, <1>4, CanonicalIsPath DEF Paths
<1>6. \/ LoopError
      \/ Blocked
      \/ /\ b # "bad"
         /\ run' = [run EXCEPT !.pc = "preflight", !.branch = b, !.path = p]
         /\ UNCHANGED <<issue, store>>
  BY <1>1, <1>3, <1>4 DEF Plan
<1> QED
  BY <1>2, <1>5, <1>6 DEF LoopError, Blocked, Escalates

-----------------------------------------------------------------------------
(* Type correctness. *)

\* Steps of a refresh keep the canonical checkout well formed.
LEMMA RefreshTyped ==
  ASSUME TypeOK, NEW p \in Procs, RefreshStep(p) \/ RefreshFails(p)
  PROVE  base' \in Base /\ checkout' \in Checkout /\ refresh' \in [Procs -> Steps]
<1>1. base \in Base /\ checkout \in Checkout /\ refresh \in [Procs -> Steps]
  BY DEF TypeOK
<1>2. CASE Inspect(p)
  BY <1>1, <1>2 DEF Inspect, Then, Steps
<1>3. ASSUME NEW ok \in BOOLEAN, Migrate(p, ok)
      PROVE  base' \in Base /\ checkout' \in Checkout /\ refresh' \in [Procs -> Steps]
  BY <1>1, <1>3 DEF Migrate, Then, Steps, Checkout
<1>4. ASSUME NEW ok \in BOOLEAN, Fetch(p, ok)
      PROVE  base' \in Base /\ checkout' \in Checkout /\ refresh' \in [Procs -> Steps]
  BY <1>1, <1>4 DEF Fetch, Then, Steps, Base
<1>5. CASE Compare(p)
  BY <1>1, <1>5 DEF Compare, Then, Steps
<1>6. CASE Merge(p)
  BY <1>1, <1>6 DEF Merge, Then, Steps, Base
<1>7. CASE Enforce(p)
  BY <1>1, <1>7 DEF Enforce, Then, Steps, Checkout
<1> QED
  BY <1>2, <1>3, <1>4, <1>5, <1>6, <1>7 DEF RefreshStep, RefreshFails

\* Steps that only move the run, the command, the refresh or the tracker.
LEMMA QuietTyped ==
  ASSUME Typed, UNCHANGED <<host, git>>,
         base' \in Base, checkout' \in Checkout, refresh' \in [Procs -> Steps],
         issue' \in [state : States, hints : SUBSET Paths, strong : BOOLEAN],
         rec' \in [path : Paths, branch : Branches \cup {"detached"}] \cup {NoRec},
         store' \in [event : {"Claimed", "Resumed", "Failed"}, attempt : 1..MaxTurns,
                     path : Paths \cup {"none"}] \cup {NoStore},
         run' = Idle \/ run' \in RunRecord,
         cmd' = Idle \/ cmd' \in Command,
         orphan' \in Paths \cup {"none"},
         faults' \in 0..MaxFaults, edits' \in 0..MaxEdits
  PROVE  Typed'
<1>1. run' = Idle \/ run'.pc \in Steps_
  BY DEF RunRecord
<1> QED
  BY <1>1 DEF Typed, TypeOK, git

\* A run that is not idle has its fields.
LEMMA RunFields ==
  ASSUME Typed, run.pc # "idle"
  PROVE  /\ run \in RunRecord /\ run # Idle
         /\ run.pc \in Steps_ /\ run.since \in 0..MaxBase /\ run.path \in Paths
         /\ run.branch \in Branches \cup {"none"} /\ run.touched \in BOOLEAN
         /\ run.seen \in [ref : Ref \cup {NoRef}, dirty : BOOLEAN]
<1>1. run # Idle
  BY DEF Idle
<1> QED
  BY <1>1 DEF Typed, RunRecord

\* So has its next step.
LEMMA RunStep ==
  ASSUME Typed, run.pc # "idle", NEW pc \in Steps_, Goto(pc)
  PROVE  run' \in RunRecord
BY RunFields DEF Goto, RunRecord

\* A fault or an edit that is counted stays within its bound.
LEMMA CountersTyped ==
  /\ MaxFaults \in Nat /\ MaxEdits \in Nat /\ MaxBase \in Nat \ {0} /\ MaxTurns \in Nat \ {0}
  /\ MaxWork \in Nat \ {0}
  /\ Typed /\ Fault => faults' \in 0..MaxFaults
  /\ Typed /\ Edit => edits' \in 0..MaxEdits
<1>1. /\ MaxFaults \in Nat /\ MaxEdits \in Nat /\ MaxBase \in Nat \ {0} /\ MaxTurns \in Nat \ {0}
      /\ MaxWork \in Nat \ {0}
  BY WorkspacesAssumption
<1> QED
  BY <1>1 DEF Typed, TypeOK, Fault, Edit

\* The loop and the command are the processes.
LEMMA LoopProcs == "loop" \in Procs /\ "cmd" \in Procs
BY WorkspacesAssumption

\* The steps of the loop up to the claim, and those that end a run.
LEMMA LoopTyped ==
  ASSUME Typed, Settled,
         \/ Begin \/ LoopRefresh \/ LoopRefreshFails \/ Refreshed \/ Plan \/ Preflight \/ Claim
         \/ Own \/ Gone \/ Verify \/ Check \/ StepFails \/ HandOver \/ Failed \/ Crash
  PROVE  Typed'
<1> USE LoopProcs DEF At
<1>1. TypeOK
  BY DEF Typed
<1>2. CASE Begin
  <2>1. run' \in RunRecord
    BY <1>1, <1>2 DEF Begin, RunRecord, TypeOK, Base, Steps_, Paths
  <2> QED
    BY <1>1, <1>2, <2>1, QuietTyped DEF Begin, Typed, TypeOK, checkoutVars, known, budgets
<1>3. CASE LoopRefresh
  BY <1>1, <1>3, RefreshTyped, QuietTyped DEF LoopRefresh, Typed, TypeOK, known, budgets
<1>4. CASE LoopRefreshFails
  BY <1>1, <1>4, RefreshTyped, CountersTyped, QuietTyped DEF LoopRefreshFails, Typed, TypeOK, known
<1>5. CASE Refreshed
  <2>1. run' = Idle \/ run' \in RunRecord
    BY <1>5, RunStep DEF Refreshed, Steps_
  <2>2. refresh' \in [Procs -> Steps]
    BY <1>1, <1>5 DEF Refreshed, Then, TypeOK, Steps
  <2>3. store' = store \/ store' = NoStore
    BY <1>5 DEF Refreshed
  <2> QED
    BY <1>1, <1>5, <2>1, <2>2, <2>3, QuietTyped DEF Refreshed, Typed, TypeOK, budgets
<1>6. CASE Plan \/ Preflight
  <2>1. run.pc # "idle"
    BY <1>6 DEF Plan, Preflight
  <2>2. \A p \in Paths : \A b \in Branches \ {"foreign"} : \A pc \in Steps_ :
          [run EXCEPT !.pc = pc, !.path = p, !.branch = b] \in RunRecord
    BY <2>1, RunFields DEF RunRecord
  <2>3. run' = Idle \/ run' \in RunRecord
    <3>1. CASE Plan
      <4>1. \A p \in Paths : \A b \in Branches \ {"foreign"} :
              [run EXCEPT !.pc = "preflight", !.branch = b, !.path = p] \in RunRecord
        BY <2>1, RunFields DEF RunRecord, Steps_
      <4> QED
        BY <3>1, <4>1, PlanShape
    <3>2. CASE Preflight
      BY <3>2, <2>2, PreflightShape DEF Prepares, Steps_
    <3> QED
      BY <1>6, <3>1, <3>2
  <2>4. Escalates
    BY <1>6, PlanShape, PreflightShape
  <2>5. issue' \in [state : States, hints : SUBSET Paths, strong : BOOLEAN] /\ store' = store
    BY <1>1, <2>4 DEF Escalates, TypeOK, States
  <2> QED
    BY <1>1, <1>6, <2>3, <2>5, QuietTyped DEF Plan, Preflight, Typed, TypeOK, checkoutVars, budgets
<1>7. CASE Claim
  <2>1. run.pc # "idle"
    BY <1>7 DEF Claim
  <2>2. \A e \in {"Claimed", "Resumed"} : [run EXCEPT !.pc = "own", !.event = e] \in RunRecord
    BY <2>1, RunFields DEF RunRecord, Steps_
  <2>3. run' = Idle \/ run' \in RunRecord
    BY <1>7, <2>2 DEF Claim, LoopError
  <2>4. issue' \in [state : States, hints : SUBSET Paths, strong : BOOLEAN] /\ store' = store
    BY <1>1, <1>7 DEF Claim, LoopError, TypeOK, States
  <2> QED
    BY <1>1, <1>7, <2>3, <2>4, QuietTyped DEF Claim, Typed, TypeOK, checkoutVars, budgets
<1>8. CASE Own
  <2>1. run \in RunRecord /\ run' \in RunRecord /\ run.event \in {"Claimed", "Resumed"}
    BY <1>8, RunFields, RunStep DEF Own, Steps_, RunRecord
  <2>2. rec' \in [path : Paths, branch : Branches \cup {"detached"}] \cup {NoRec}
    BY <1>1, <1>8, <2>1 DEF Own, TypeOK, Tree, RunRecord
  <2>3. store' \in [event : {"Claimed", "Resumed", "Failed"}, attempt : 1..MaxTurns,
                    path : Paths \cup {"none"}] \cup {NoStore}
    <3>1. CASE store = NoStore
      BY <1>8, <2>1, <3>1, CountersTyped DEF Own
    <3>2. CASE store # NoStore
      <4>1. store.attempt \in 1..MaxTurns /\ store.path \in Paths \cup {"none"}
        BY <1>1, <3>2 DEF TypeOK
      <4> QED
        BY <1>8, <2>1, <3>2, <4>1, CountersTyped DEF Own
    <3> QED
      BY <3>1, <3>2
  <2> QED
    BY <1>1, <1>8, <2>1, <2>2, <2>3, QuietTyped DEF Own, Typed, TypeOK, checkoutVars, budgets
<1>9. CASE Gone \/ Check
  <2>1. run.pc # "idle"
    BY <1>9 DEF Gone, Check
  <2>2. run' \in RunRecord
    BY <1>9, <2>1, RunStep DEF Gone, Check, Steps_
  <2> QED
    BY <1>1, <1>9, <2>2, QuietTyped DEF Gone, Check, Typed, TypeOK, checkoutVars, known, budgets
<1>10. CASE Verify
  <2>1. run.pc # "idle"
    BY <1>10 DEF Verify
  <2>2. Contents(run.path) \in [ref : Ref \cup {NoRef}, dirty : BOOLEAN]
    BY <1>1, <2>1, RunFields DEF Contents, Head, TypeOK, Tree
  <2>3. run' \in RunRecord
    BY <1>10, <2>1, <2>2, RunFields DEF Verify, RunRecord, Steps_
  <2> QED
    BY <1>1, <1>10, <2>3, QuietTyped DEF Verify, Typed, TypeOK, checkoutVars, known, budgets
<1>11. CASE StepFails
  <2>1. run.pc # "idle"
    BY <1>11 DEF StepFails
  <2>2. run' \in RunRecord
    BY <1>11, <2>1, RunStep DEF StepFails, Steps_
  <2> QED
    BY <1>1, <1>11, <2>2, QuietTyped, CountersTyped DEF StepFails, Typed, TypeOK, checkoutVars, known
<1>12. CASE HandOver \/ Failed
  <2>1. run.path \in Paths
    BY <1>12, RunFields DEF HandOver, Failed
  <2>2. issue' \in [state : States, hints : SUBSET Paths, strong : BOOLEAN]
    <3>1. Noted \in [state : States, hints : SUBSET Paths, strong : BOOLEAN]
      BY <1>1, <2>1 DEF Noted, TypeOK
    <3>2. \A s \in States :
            [Noted EXCEPT !.state = s] \in [state : States, hints : SUBSET Paths, strong : BOOLEAN]
      BY <3>1
    <3>3. "AgentReview" \in States /\ "NeedHumanInput" \in States
      BY DEF States
    <3> QED
      BY <1>12, <3>1, <3>2, <3>3 DEF HandOver, Failed
  <2>3. store' \in [event : {"Claimed", "Resumed", "Failed"}, attempt : 1..MaxTurns,
                    path : Paths \cup {"none"}] \cup {NoStore}
    BY <1>1, <1>12, <2>1 DEF HandOver, Failed, TypeOK
  <2> QED
    BY <1>1, <1>12, <2>2, <2>3, QuietTyped
    DEF HandOver, Failed, Typed, TypeOK, checkoutVars, budgets
<1>13. CASE Crash
  <2>1. orphan' \in Paths \cup {"none"}
    BY <1>1, <1>13, RunFields DEF Crash, TypeOK
  <2>2. refresh' \in [Procs -> Steps]
    BY <1>1, <1>13 DEF Crash, Then, TypeOK, Steps
  <2> QED
    BY <1>1, <1>13, <2>1, <2>2, QuietTyped, CountersTyped DEF Crash, Typed, TypeOK, known
<1> QED
  BY <1>2, <1>3, <1>4, <1>5, <1>6, <1>7, <1>8, <1>9, <1>10, <1>11, <1>12, <1>13

\* The steps of other processes and of people that leave git alone.
LEMMA OthersTyped ==
  ASSUME Typed,
         \/ \E what \in {"ensure", "clean"} : StartCommand(what)
         \/ \E p \in Paths : StartAdopt(p)
         \/ CommandRefresh \/ Note
         \/ \E to \in States : MoveIssue(to)
         \/ EditCheckout \/ OthersMerge
  PROVE  Typed'
<1> USE LoopProcs
<1>1. TypeOK
  BY DEF Typed
<1>2. ASSUME NEW what \in {"ensure", "clean"}, StartCommand(what) PROVE Typed'
  <2>1. cmd' \in Command
    BY <1>2 DEF StartCommand, Command
  <2> QED
    BY <1>1, <1>2, <2>1, QuietTyped, CountersTyped
    DEF StartCommand, Typed, TypeOK, checkoutVars, known
<1>3. ASSUME NEW p \in Paths, StartAdopt(p) PROVE Typed'
  <2>1. cmd' \in Command
    BY <1>3 DEF StartAdopt, Command
  <2> QED
    BY <1>1, <1>3, <2>1, QuietTyped, CountersTyped
    DEF StartAdopt, Typed, TypeOK, checkoutVars, known
<1>4. CASE CommandRefresh
  <2>1. CASE refresh["cmd"] \in {"fresh", "blocked"}
    <3>1. cmd' = Idle \/ cmd' \in Command
      BY <1>4, <2>1 DEF CommandRefresh, Command
    <3>2. refresh' \in [Procs -> Steps]
      BY <1>1, <1>4, <2>1 DEF CommandRefresh, Then, TypeOK, Steps
    <3> QED
      BY <1>1, <1>4, <2>1, <3>1, <3>2, QuietTyped DEF CommandRefresh, Typed, TypeOK, known, budgets
  <2>2. CASE refresh["cmd"] \notin {"fresh", "blocked"}
    <3>1. base' \in Base /\ checkout' \in Checkout /\ refresh' \in [Procs -> Steps]
      BY <1>1, <1>4, <2>2, RefreshTyped DEF CommandRefresh
    <3> QED
      BY <1>1, <1>4, <2>2, <3>1, QuietTyped DEF CommandRefresh, Typed, TypeOK, known, budgets
  <2> QED
    BY <2>1, <2>2
<1>5. CASE Note
  <2>1. cmd.path \in Paths
    BY <1>5 DEF Note, Typed, Command, Idle
  <2>2. issue' \in [state : States, hints : SUBSET Paths, strong : BOOLEAN]
    BY <1>1, <1>5, <2>1 DEF Note, TypeOK
  <2> QED
    BY <1>1, <1>5, <2>2, QuietTyped DEF Note, Typed, TypeOK, checkoutVars, budgets
<1>6. ASSUME NEW to \in States, MoveIssue(to) PROVE Typed'
  <2>1. issue' \in [state : States, hints : SUBSET Paths, strong : BOOLEAN]
    BY <1>1, <1>6 DEF MoveIssue, TypeOK
  <2> QED
    BY <1>1, <1>6, <2>1, QuietTyped, CountersTyped DEF MoveIssue, Typed, TypeOK, checkoutVars
<1>7. CASE EditCheckout \/ OthersMerge
  <2>1. base' \in Base /\ checkout' \in Checkout /\ refresh' \in [Procs -> Steps]
    <3>1. CASE PersonEdits
      BY <1>1, <3>1 DEF PersonEdits, TypeOK, Base, Checkout
    <3>2. CASE RemoteMoves
      BY <1>1, <3>2, CountersTyped DEF RemoteMoves, TypeOK, Base
    <3> QED
      BY <1>7, <3>1, <3>2 DEF EditCheckout, OthersMerge
  <2> QED
    BY <1>1, <1>7, <2>1, QuietTyped, CountersTyped DEF EditCheckout, OthersMerge, Typed, TypeOK, known
<1> QED
  BY <1>2, <1>3, <1>4, <1>5, <1>6, <1>7

\* The type of git's state.
GitTyped ==
  /\ wt \in [Paths -> Tree]
  /\ local \in [Branches -> Ref \cup {NoRef}] /\ remote \in [Branches -> Ref \cup {NoRef}]
  /\ prs \in [Branches -> Pr \cup {NoPr}]

\* Steps that change git, the run, and at most a counter, the orphan and the
\* workspace command.
LEMMA GitStepTyped ==
  ASSUME Typed, UNCHANGED <<checkoutVars, host, known>>, GitTyped',
         run' = Idle \/ run' \in RunRecord,
         cmd' = Idle \/ cmd' \in Command,
         orphan' \in Paths \cup {"none"},
         faults' \in 0..MaxFaults, edits' \in 0..MaxEdits
  PROVE  Typed'
<1>1. run' = Idle \/ run'.pc \in Steps_
  BY DEF RunRecord
<1> QED
  BY <1>1 DEF Typed, TypeOK, GitTyped, checkoutVars, known

\* A branch with one commit more is a branch.
LEMMA Commits ==
  ASSUME GitTyped, NEW b \in Branches, local[b] # NoRef, local[b].work < MaxWork
  PROVE  /\ [local EXCEPT ![b].work = @ + 1] \in [Branches -> Ref \cup {NoRef}]
         /\ [local EXCEPT ![b].work = @ + 1][b] # NoRef
         /\ \A c \in Branches \ {b} : [local EXCEPT ![b].work = @ + 1][c] = local[c]
<1>1. local[b] \in Ref
  BY DEF GitTyped
<1>2. [local[b] EXCEPT !.work = @ + 1] \in Ref
  BY <1>1, CountersTyped DEF Ref
<1>3. PICK new \in Ref : new = [local[b] EXCEPT !.work = @ + 1]
  BY <1>2
<1>4. [local EXCEPT ![b].work = @ + 1] = [local EXCEPT ![b] = new]
  BY <1>3
<1>5. new # NoRef
  BY Absent
<1> QED
  BY <1>4, <1>5 DEF GitTyped

\* What a writer in a worktree does: nothing to worktrees but for the files of
\* that one, and one commit to its branch at most.
WritesIn(p) ==
  /\ wt' \in [Paths -> Tree] /\ local' \in [Branches -> Ref \cup {NoRef}]
  /\ \A q \in Paths : /\ wt'[q].there = wt[q].there /\ wt'[q].reg = wt[q].reg
                      /\ wt'[q].on = wt[q].on
                      /\ q # p => wt'[q] = wt[q]
  /\ \A b \in Branches : /\ local[b] # NoRef => local'[b] # NoRef
                         /\ b # wt[p].on => local'[b] = local[b]

\* That is what an agent does (agent.rs), whoever waits for it.
LEMMA WritesShape ==
  ASSUME GitTyped, Trees, NEW p \in Paths, NEW how, Writes(p, how)
  PROVE  WritesIn(p)
<1> USE DEF WritesIn
<1>1. CASE UNCHANGED <<wt, local>>
  BY <1>1 DEF GitTyped
<1>2. CASE wt' = [wt EXCEPT ![p].dirty = TRUE] /\ UNCHANGED local
  BY <1>2 DEF GitTyped, Tree
<1>3. CASE /\ wt[p].on # "detached" /\ local[wt[p].on].work < MaxWork
           /\ local' = [local EXCEPT ![wt[p].on].work = @ + 1] /\ UNCHANGED wt
  <2>1. wt[p].on \in Branches /\ local[wt[p].on] # NoRef
    BY <1>3 DEF GitTyped, Tree, Trees
  <2>2. PICK b \in Branches : b = wt[p].on
    BY <2>1
  <2> QED
    BY <1>3, <2>1, <2>2, Commits DEF GitTyped
<1> QED
  BY <1>1, <1>2, <1>3 DEF Writes

\* And what the loop does when it commits or verifies (git_handoff.rs,
\* live_handoff.rs:30-170).
LEMMA CommitShape ==
  ASSUME Typed, Trees, Commit \/ VerifyLeavesFiles
  PROVE  run.path \in Paths /\ WritesIn(run.path)
<1> USE DEF At, WritesIn
<1>1. PICK p \in Paths : p = run.path
  BY RunFields DEF Commit, VerifyLeavesFiles
<1>2. GitTyped
  BY DEF Typed, TypeOK, GitTyped
<1>3. CASE UNCHANGED <<wt, local>>
  BY <1>1, <1>2, <1>3 DEF GitTyped
<1>4. ASSUME NEW d \in BOOLEAN, wt' = [wt EXCEPT ![p].dirty = d]
      PROVE  /\ wt' \in [Paths -> Tree]
             /\ \A q \in Paths : /\ wt'[q].there = wt[q].there /\ wt'[q].reg = wt[q].reg
                                 /\ wt'[q].on = wt[q].on
                                 /\ q # p => wt'[q] = wt[q]
  BY <1>2, <1>4 DEF GitTyped, Tree
<1>5. CASE VerifyLeavesFiles
  BY <1>1, <1>2, <1>4, <1>5 DEF VerifyLeavesFiles, GitTyped
<1>6. CASE Commit /\ wt[p].dirty /\ wt[p].on = "detached"
  BY <1>1, <1>2, <1>4, <1>6 DEF Commit, GitTyped
<1>7. CASE Commit /\ wt[p].dirty /\ wt[p].on # "detached"
  <2>1. wt[p].on \in Branches /\ local[wt[p].on] # NoRef
    BY <1>2, <1>7 DEF GitTyped, Tree, Trees
  <2>2. PICK b \in Branches : b = wt[p].on
    BY <2>1
  <2>3. local' = [local EXCEPT ![b].work = @ + 1] /\ local[b].work < MaxWork
    BY <1>1, <1>7, <2>2 DEF Commit
  <2>4. wt' = [wt EXCEPT ![p].dirty = FALSE]
    BY <1>1, <1>7 DEF Commit
  <2> QED
    BY <1>1, <1>2, <1>4, <2>1, <2>2, <2>3, <2>4, Commits
<1>8. CASE Commit /\ ~wt[p].dirty
  BY <1>1, <1>3, <1>8 DEF Commit
<1> QED
  BY <1>5, <1>6, <1>7, <1>8

\* `git worktree add' makes a registered worktree of a branch that exists then,
\* and leaves every other branch and worktree alone.
AddsTree(p, b) ==
  /\ ~wt[p].reg /\ ~CheckedOut(b)
  /\ wt' = Added(p, b)
  /\ local' \in [Branches -> Ref \cup {NoRef}] /\ local'[b] # NoRef
  /\ \A c \in Branches : local[c] # NoRef => local'[c] = local[c]

\* The base a branch can be made of is a branch.
LEMMA BaseIsRef ==
  /\ Typed => [from |-> base.head, work |-> 0, line |-> "here"] \in Ref
  /\ \A r \in Ref : [r EXCEPT !.work = 0] \in Ref
BY CountersTyped DEF Typed, TypeOK, Base, Ref

\* The branches of a run, with a new integration branch and a new branch of the
\* issue (git_handoff.rs:181).
LEMMA NewBranches ==
  ASSUME Typed, NEW b \in Branches
  PROVE  /\ WithParent \in [Branches -> Ref \cup {NoRef}]
         /\ \A c \in Branches : local[c] # NoRef => WithParent[c] = local[c]
         /\ WithBranch(WithParent, b) \in [Branches -> Ref \cup {NoRef}]
         /\ WithBranch(WithParent, b)[b] # NoRef
         /\ \A c \in Branches : local[c] # NoRef => WithBranch(WithParent, b)[c] = local[c]
<1>1. local \in [Branches -> Ref \cup {NoRef}]
  BY DEF Typed, TypeOK
<1>2. PICK fresh \in Ref : fresh = [from |-> base.head, work |-> 0, line |-> "here"]
  BY BaseIsRef
<1>3. PICK refs : refs = WithParent
  OBVIOUS
<1>4. /\ refs \in [Branches -> Ref \cup {NoRef}]
      /\ \A c \in Branches : local[c] # NoRef => refs[c] = local[c]
      /\ host.role = "sub" => refs["integration"] \in Ref
  <2>1. "integration" \in Branches
    BY DEF Branches
  <2>2. WithParent = IF host.role = "sub" /\ local["integration"] = NoRef
                     THEN [local EXCEPT !["integration"] = fresh] ELSE local
    BY <1>2 DEF WithParent
  <2> QED
    BY <1>1, <1>3, <2>1, <2>2
<1>5. BaseRef(refs) \in Ref
  BY <1>2, <1>4 DEF BaseRef
<1>6. PICK new \in Ref : new = [BaseRef(refs) EXCEPT !.work = 0]
  BY <1>5, BaseIsRef
<1>7. WithBranch(refs, b) = IF refs[b] # NoRef THEN refs ELSE [refs EXCEPT ![b] = new]
  BY <1>6 DEF WithBranch
<1>8. new # NoRef
  BY Absent
<1> QED
  BY <1>3, <1>4, <1>7, <1>8

\* Preparing a worktree takes the one that is on the branch, makes it, or stops.
LEMMA PrepareShape ==
  ASSUME Typed, Settled, Prepare
  PROVE  LET p == run.path  b == run.branch IN
         /\ p \in Paths /\ b \in Branches
         /\ \/ /\ UNCHANGED <<wt, local>>
               /\ run' = Idle \/ (Goto("claim") /\ wt[p].there /\ wt[p].on = b)
            \/ AddsTree(p, b) /\ Goto("claim") /\ local' = WithBranch(WithParent, b)
            \/ /\ run' = Idle /\ UNCHANGED wt /\ local' = WithParent
               /\ local' \in [Branches -> Ref \cup {NoRef}]
               /\ \A c \in Branches : local[c] # NoRef => local'[c] = local[c]
<1>1. PICK p \in Paths, b \in Branches : p = run.path /\ b = run.branch
  BY RunFields DEF Prepare, At, Settled
<1>2. \/ UNCHANGED <<wt, local>> /\ (run' = Idle \/ (Goto("claim") /\ wt[p].there /\ wt[p].on = b))
      \/ /\ CanAdd(p, b) /\ Goto("claim") /\ wt' = Added(p, b) /\ local' = WithBranch(WithParent, b)
      \/ run' = Idle /\ local' = WithParent /\ UNCHANGED wt
  BY <1>1 DEF Prepare
<1> QED
  BY <1>1, <1>2, NewBranches DEF AddsTree, CanAdd

\* So does `workspace ensure', at the path the plan derives.
LEMMA EnsureShape ==
  ASSUME Typed, Published, Ensure
  PROVE  /\ cmd' = Idle \/ cmd' \in Command
         /\ \/ UNCHANGED <<wt, local>>
            \/ \E b \in Branches : AddsTree("own", b)
<1>1. PICK b : b = EnsureBranch
  OBVIOUS
<1>2. \/ cmd' = Idle /\ UNCHANGED <<wt, local>>
      \/ /\ Canonical # "none" /\ cmd' = [pc |-> "note", path |-> Canonical]
         /\ UNCHANGED <<wt, local>>
      \/ /\ PlanBranch(issue.state) # "bad" /\ ~(Cardinality(Linked) > 1)
         /\ CanAdd("own", b)
         /\ ~(host.role = "sub" /\ local["integration"] = NoRef /\ Linked = {})
         /\ local' = WithFetched(b) /\ wt' = Added("own", b)
         /\ cmd' = Idle \/ cmd' = [pc |-> "note", path |-> "own"]
  BY <1>1 DEF Ensure
<1>3. CASE cmd' = Idle /\ UNCHANGED <<wt, local>>
  BY <1>3
<1>4. CASE /\ Canonical # "none" /\ cmd' = [pc |-> "note", path |-> Canonical]
           /\ UNCHANGED <<wt, local>>
  BY <1>4, CanonicalIsPath DEF Command
<1>5. CASE /\ PlanBranch(issue.state) # "bad" /\ ~(Cardinality(Linked) > 1)
           /\ CanAdd("own", b)
           /\ ~(host.role = "sub" /\ local["integration"] = NoRef /\ Linked = {})
           /\ local' = WithFetched(b) /\ wt' = Added("own", b)
           /\ cmd' = Idle \/ cmd' = [pc |-> "note", path |-> "own"]
  <2>1. cmd' = Idle \/ cmd' \in Command
    BY <1>5 DEF Command, Paths
  <2>2. local \in [Branches -> Ref \cup {NoRef}] /\ remote \in [Branches -> Ref \cup {NoRef}]
    BY DEF Typed, TypeOK
  <2>3. ASSUME Cardinality(Linked) = 1
        PROVE  b = Sole(Linked) /\ b \in Branches /\ remote[b] \in Ref
    <3>1. b = Sole(Linked)
      BY <1>1, <2>3 DEF EnsureBranch
    <3>2. b \in Linked
      BY <2>3, <3>1, Sizes, SoleIsIn
    <3>3. b \in Branches /\ prs[b] # NoPr
      BY <3>2 DEF Linked
    <3> QED
      BY <2>2, <3>1, <3>3 DEF Published
  <2>4. ASSUME Cardinality(Linked) # 1
        PROVE  b \in Branches /\ BaseRef(local) \in Ref
    <3>1. Linked = {}
      BY <1>5, <2>4, Sizes DEF Linked
    <3>2. b \in Branches
      BY <1>1, <1>5, <2>4, PlanNamesNoOther DEF EnsureBranch
    <3>3. host.role = "sub" => local["integration"] \in Ref
      BY <1>5, <2>2, <3>1 DEF Branches
    <3> QED
      BY <3>2, <3>3, BaseIsRef DEF BaseRef
  <2>5. PICK new \in Ref : new = IF Cardinality(Linked) = 1 THEN remote[Sole(Linked)] ELSE BaseRef(local)
    BY <2>3, <2>4
  <2>6. local' = IF local[b] # NoRef THEN local ELSE [local EXCEPT ![b] = new]
    BY <1>5, <2>5 DEF WithFetched
  <2>7. b \in Branches /\ new # NoRef
    BY <2>3, <2>4, Absent
  <2>8. AddsTree("own", b)
    BY <1>5, <2>2, <2>6, <2>7 DEF AddsTree, CanAdd
  <2> QED
    BY <2>1, <2>7, <2>8
<1> QED
  BY <1>2, <1>3, <1>4, <1>5

\* A person changes one worktree, and makes a branch that is not there yet.
LEMMA EditTreeShape ==
  ASSUME Typed, Trees, NEW p \in Paths, EditTree(p)
  PROVE  /\ wt' \in [Paths -> Tree] /\ local' \in [Branches -> Ref \cup {NoRef}]
         /\ \A q \in Paths : q # p => wt'[q] = wt[q]
         /\ \A c \in Branches : local[c] # NoRef => local'[c] = local[c]
         /\ wt'[p].there => wt'[p].reg
         /\ \/ wt'[p].on = wt[p].on /\ wt'[p].reg = wt[p].reg
            \/ wt'[p].on = "detached"
            \/ /\ wt'[p].on \in Branches /\ ~CheckedOut(wt'[p].on)
               /\ wt'[p].reg /\ local'[wt'[p].on] # NoRef
<1>1. wt \in [Paths -> Tree] /\ local \in [Branches -> Ref \cup {NoRef}]
  BY DEF Typed, TypeOK
<1>2. ASSUME NEW b \in {"topic", "foreign"}, ~CheckedOut(b),
             wt' = [wt EXCEPT ![p] = [there |-> TRUE, reg |-> TRUE, on |-> b, dirty |-> @.dirty]],
             local' = IF local[b] = NoRef
                      THEN [local EXCEPT ![b] = [from |-> base.head, work |-> 1, line |-> "here"]]
                      ELSE local
      PROVE  /\ wt' \in [Paths -> Tree] /\ local' \in [Branches -> Ref \cup {NoRef}]
             /\ \A q \in Paths : q # p => wt'[q] = wt[q]
             /\ \A c \in Branches : local[c] # NoRef => local'[c] = local[c]
             /\ wt'[p].there => wt'[p].reg
             /\ wt'[p].on = b /\ b \in Branches /\ wt'[p].reg /\ local'[b] # NoRef
  <2>1. PICK new \in Ref : new = [from |-> base.head, work |-> 1, line |-> "here"]
    <3>1. base.head \in 0..MaxBase /\ 1 \in 0..MaxWork
      BY CountersTyped DEF Typed, TypeOK, Base
    <3>2. [from |-> base.head, work |-> 1, line |-> "here"] \in Ref
      BY <3>1 DEF Ref
    <3> QED
      BY <3>2
  <2>2. local' = IF local[b] = NoRef THEN [local EXCEPT ![b] = new] ELSE local
    BY <1>2, <2>1
  <2>3. new # NoRef /\ b \in Branches
    BY Absent DEF Branches
  <2>4. [there |-> TRUE, reg |-> TRUE, on |-> b, dirty |-> wt[p].dirty] \in Tree
    BY <1>1, <2>3 DEF Tree
  <2> QED
    BY <1>1, <1>2, <2>2, <2>3, <2>4
<1>3. CASE wt[p].there /\ wt' = [wt EXCEPT ![p].on = "detached"] /\ UNCHANGED local
  BY <1>1, <1>3 DEF Tree, Trees
<1>4. CASE wt[p].there /\ wt' = [wt EXCEPT ![p].dirty = TRUE] /\ UNCHANGED local
  BY <1>1, <1>4 DEF Tree, Trees
<1> QED
  BY <1>2, <1>3, <1>4 DEF EditTree

\* A touched run is still a run.
LEMMA TouchTyped ==
  ASSUME Typed, NEW p, Touch(p)
  PROVE  /\ run' = Idle \/ run' \in RunRecord
         /\ run' = run \/ (run # Idle /\ run' = [run EXCEPT !.touched = TRUE])
BY DEF Touch, Typed, RunRecord

\* The steps that change worktrees and branches keep every type, keep the
\* worktrees apart and never lose a branch.
LEMMA TreeSteps ==
  ASSUME Typed, Trees, Published, Settled,
         \/ Prepare
         \/ \E how \in {"nothing", "dirty", "commit"} : Agent(how) \/ AgentFails(how) \/ OrphanWrites(how)
         \/ Commit \/ VerifyLeavesFiles
         \/ Ensure \/ Remove
         \/ \E p \in Paths : EditTree(p)
  PROVE  Typed' /\ Trees' /\ UNCHANGED <<remote, prs>>
<1> USE DEF At
<1>1. TypeOK /\ GitTyped
  BY DEF Typed, TypeOK, GitTyped
<1>2. ASSUME NEW p \in Paths, WritesIn(p)
      PROVE  Trees'
  BY <1>1, <1>2 DEF WritesIn, Trees, GitTyped, Tree
<1>3. ASSUME NEW p \in Paths, NEW b \in Branches, AddsTree(p, b)
      PROVE  Trees' /\ wt' \in [Paths -> Tree] /\ local' \in [Branches -> Ref \cup {NoRef}]
  <2>1. /\ wt'[p].there /\ wt'[p].reg /\ wt'[p].on = b
        /\ \A q \in Paths : q # p => wt'[q] = wt[q]
        /\ wt' \in [Paths -> Tree]
    BY <1>1, <1>3 DEF AddsTree, Added, GitTyped, Tree
  <2>2. \A q \in Paths : q # p => wt[q].on # b
    BY <1>3 DEF AddsTree, CheckedOut, Trees, Branches
  <2>3. \A q \in Paths : wt[q].on # "detached" => local'[wt[q].on] # NoRef
    BY <1>1, <1>3 DEF AddsTree, Trees, GitTyped, Tree
  <2> QED
    BY <1>3, <2>1, <2>2, <2>3 DEF AddsTree, Trees
<1>4. CASE Prepare
  <2>1. PICK p \in Paths, b \in Branches : p = run.path /\ b = run.branch
    BY <1>4, PrepareShape
  <2>2. Trees' /\ wt' \in [Paths -> Tree] /\ local' \in [Branches -> Ref \cup {NoRef}]
    <3>1. CASE UNCHANGED <<wt, local>>
      BY <1>1, <3>1 DEF Trees, GitTyped
    <3>2. CASE AddsTree(p, b)
      BY <1>3, <3>2
    <3>3. CASE /\ UNCHANGED wt
               /\ local' \in [Branches -> Ref \cup {NoRef}]
               /\ \A c \in Branches : local[c] # NoRef => local'[c] = local[c]
      BY <1>1, <3>3 DEF Trees, GitTyped, Tree
    <3> QED
      BY <1>4, <2>1, <3>1, <3>2, <3>3, PrepareShape
  <2>3. run' = Idle \/ run' \in RunRecord
    <3>1. run' = Idle \/ Goto("claim")
      BY <1>4, PrepareShape
    <3>2. run.pc # "idle"
      BY <1>4 DEF Prepare
    <3> QED
      BY <3>1, <3>2, RunStep DEF Steps_
  <2>4. Typed'
    BY <1>1, <1>4, <2>2, <2>3, GitStepTyped DEF Prepare, GitTyped, Typed, TypeOK, budgets
  <2> QED
    BY <1>4, <2>2, <2>4 DEF Prepare
<1>5. ASSUME NEW how \in {"nothing", "dirty", "commit"}, Agent(how) \/ AgentFails(how)
      PROVE  Typed' /\ Trees' /\ UNCHANGED <<remote, prs>>
  <2>1. run.pc # "idle" /\ run.path \in Paths
    BY <1>5, RunFields DEF Agent, AgentFails
  <2>2. WritesIn(run.path)
    BY <1>1, <1>5, <2>1, WritesShape DEF Agent, AgentFails
  <2>3. run' \in RunRecord
    BY <1>5, <2>1, RunStep DEF Agent, AgentFails, Steps_
  <2>4. faults' \in 0..MaxFaults /\ edits' \in 0..MaxEdits
    BY <1>1, <1>5, CountersTyped DEF Agent, AgentFails, TypeOK, budgets
  <2>5. UNCHANGED <<checkoutVars, host, remote, prs, known, orphan, cmd>>
    BY <1>5 DEF Agent, AgentFails
  <2>6. GitTyped'
    BY <1>1, <2>2, <2>5 DEF GitTyped, WritesIn
  <2>7. Typed'
    BY <1>1, <2>3, <2>4, <2>5, <2>6, GitStepTyped DEF Typed, TypeOK
  <2> QED
    BY <1>2, <2>1, <2>2, <2>5, <2>7
<1>6. ASSUME NEW how \in {"nothing", "dirty", "commit"}, OrphanWrites(how)
      PROVE  Typed' /\ Trees' /\ UNCHANGED <<remote, prs>>
  <2>1. orphan \in Paths
    BY <1>1, <1>6 DEF OrphanWrites, TypeOK
  <2>2. WritesIn(orphan)
    BY <1>1, <1>6, <2>1, WritesShape DEF OrphanWrites
  <2>3. run' = Idle \/ run' \in RunRecord
    BY <1>6, TouchTyped DEF OrphanWrites
  <2>4. UNCHANGED <<checkoutVars, host, remote, prs, known, cmd, budgets>> /\ orphan' = "none"
    BY <1>6 DEF OrphanWrites
  <2>5. GitTyped'
    BY <1>1, <2>2, <2>4 DEF GitTyped, WritesIn
  <2>6. Typed'
    BY <1>1, <2>3, <2>4, <2>5, GitStepTyped DEF Typed, TypeOK, budgets
  <2> QED
    BY <1>2, <2>1, <2>2, <2>4, <2>6
<1>7. CASE Commit \/ VerifyLeavesFiles
  <2>1. run.pc # "idle" /\ run.path \in Paths /\ WritesIn(run.path)
    BY <1>7, CommitShape DEF Commit, VerifyLeavesFiles
  <2>2. run' \in RunRecord
    <3>1. CASE Commit
      BY <2>1, <3>1, RunStep DEF Commit, Steps_
    <3>2. CASE VerifyLeavesFiles
      <4>1. Contents(run.path) \in [ref : Ref \cup {NoRef}, dirty : BOOLEAN]
        BY <1>1, <2>1 DEF Contents, Head, GitTyped, Tree
      <4> QED
        BY <2>1, <3>2, <4>1, RunFields DEF VerifyLeavesFiles, RunRecord, Steps_
    <3> QED
      BY <1>7, <3>1, <3>2
  <2>3. faults' \in 0..MaxFaults /\ edits' \in 0..MaxEdits
    BY <1>1, <1>7, CountersTyped DEF Commit, VerifyLeavesFiles, TypeOK, budgets
  <2>4. UNCHANGED <<checkoutVars, host, remote, prs, known, orphan, cmd>>
    BY <1>7 DEF Commit, VerifyLeavesFiles
  <2>5. GitTyped'
    BY <1>1, <2>1, <2>4 DEF GitTyped, WritesIn
  <2>6. Typed'
    BY <1>1, <2>2, <2>3, <2>4, <2>5, GitStepTyped DEF Typed, TypeOK
  <2> QED
    BY <1>2, <2>1, <2>4, <2>6
<1>8. CASE Ensure
  <2>1. "own" \in Paths
    BY DEF Paths
  <2>2. Trees' /\ wt' \in [Paths -> Tree] /\ local' \in [Branches -> Ref \cup {NoRef}]
    <3>1. CASE UNCHANGED <<wt, local>>
      BY <1>1, <3>1 DEF Trees, GitTyped
    <3>2. CASE \E b \in Branches : AddsTree("own", b)
      BY <1>3, <2>1, <3>2
    <3> QED
      BY <1>8, <3>1, <3>2, EnsureShape
  <2>3. cmd' = Idle \/ cmd' \in Command
    BY <1>8, EnsureShape
  <2>4. UNCHANGED <<checkoutVars, host, remote, prs, known, run, orphan, budgets>>
    BY <1>8 DEF Ensure
  <2>5. Typed'
    BY <1>1, <2>2, <2>3, <2>4, GitStepTyped DEF GitTyped, Typed, TypeOK, budgets
  <2> QED
    BY <2>2, <2>4, <2>5
<1>9. CASE Remove
  <2>1. /\ wt' \in [Paths -> Tree]
        /\ \A p \in Paths : /\ wt'[p].on = wt[p].on /\ wt'[p].reg = wt[p].reg
                            /\ wt'[p].there => wt[p].there
    BY <1>1, <1>9 DEF Remove, GitTyped, Tree, Paths
  <2>2. UNCHANGED <<checkoutVars, host, local, remote, prs, known, orphan, budgets>> /\ cmd' = Idle
    BY <1>9 DEF Remove
  <2>3. Trees'
    BY <2>1, <2>2 DEF Trees
  <2>4. run' = Idle \/ run' \in RunRecord
    BY <1>9, TouchTyped DEF Remove
  <2>5. GitTyped'
    BY <1>1, <2>1, <2>2 DEF GitTyped
  <2>6. Typed'
    BY <1>1, <2>2, <2>4, <2>5, GitStepTyped DEF Typed, TypeOK, budgets
  <2> QED
    BY <2>2, <2>3, <2>6
<1>10. ASSUME NEW p \in Paths, EditTree(p)
      PROVE  Typed' /\ Trees' /\ UNCHANGED <<remote, prs>>
  <2>1. UNCHANGED <<checkoutVars, host, remote, prs, known, orphan, cmd, faults>>
    BY <1>10 DEF EditTree
  <2>2. edits' \in 0..MaxEdits
    BY <1>10, CountersTyped DEF EditTree
  <2>3. run' = Idle \/ run' \in RunRecord
    BY <1>10, TouchTyped DEF EditTree
  <2>4. GitTyped'
    BY <1>1, <1>10, <2>1, EditTreeShape DEF GitTyped
  <2>5. Typed'
    BY <1>1, <2>1, <2>2, <2>3, <2>4, GitStepTyped DEF Typed, TypeOK
  <2>6. \A q \in Paths : wt[q].on # "detached" => local'[wt[q].on] # NoRef
    BY <1>1, <1>10, EditTreeShape DEF Trees, GitTyped, Tree
  <2>7. /\ \A q \in Paths : q # p => wt'[q] = wt[q]
        /\ wt'[p].there => wt'[p].reg
        /\ \/ wt'[p].on = wt[p].on /\ wt'[p].reg = wt[p].reg
           \/ wt'[p].on = "detached"
           \/ /\ ~CheckedOut(wt'[p].on)
              /\ wt'[p].reg /\ local'[wt'[p].on] # NoRef
    BY <1>10, EditTreeShape
  <2>8. Trees'
    <3>1. CASE wt'[p].on = wt[p].on /\ wt'[p].reg = wt[p].reg
      BY <2>6, <2>7, <3>1 DEF Trees
    <3>2. CASE wt'[p].on = "detached"
      BY <2>6, <2>7, <3>2 DEF Trees
    <3>3. CASE ~CheckedOut(wt'[p].on) /\ wt'[p].reg /\ local'[wt'[p].on] # NoRef
      <4>1. \A q \in Paths : wt[q].on = wt'[p].on => wt[q].on = "detached"
        BY <3>3 DEF CheckedOut, Trees
      <4> QED
        BY <2>6, <2>7, <3>3, <4>1 DEF Trees
    <3> QED
      BY <2>7, <3>1, <3>2, <3>3
  <2> QED
    BY <2>1, <2>5, <2>8
<1> QED
  BY <1>4, <1>5, <1>6, <1>7, <1>8, <1>9, <1>10

\* The steps that change remote branches and pull requests keep every type and
\* never take back a branch that was pushed.
LEMMA RemoteSteps ==
  ASSUME Typed, Published, Settled,
         \/ PushParent \/ Push \/ Publish \/ Link \/ Ready
         \/ \E b \in Branches : EditPr(b)
  PROVE  Typed' /\ Published' /\ UNCHANGED <<wt, local>>
<1> USE DEF At
<1>1. TypeOK /\ GitTyped
  BY DEF Typed, TypeOK, GitTyped
<1>2. ASSUME UNCHANGED <<checkoutVars, host, known, orphan, cmd>>, GitTyped',
             run' \in RunRecord \/ run' = Idle, UNCHANGED budgets \/ (Edit /\ UNCHANGED faults)
      PROVE  Typed'
  <2>1. faults' \in 0..MaxFaults /\ edits' \in 0..MaxEdits
    BY <1>1, <1>2, CountersTyped DEF TypeOK, budgets
  <2> QED
    BY <1>1, <1>2, <2>1, GitStepTyped DEF Typed, TypeOK
<1>3. CASE PushParent \/ Push
  <2>1. run' \in RunRecord
    <3>1. run.pc # "idle"
      BY <1>3 DEF PushParent, Push
    <3>2. Goto("push") \/ Goto("publish") \/ Goto("failed")
      BY <1>3 DEF PushParent, Push
    <3> QED
      BY <3>1, <3>2, RunStep DEF Steps_
  <2>2. /\ remote' \in [Branches -> Ref \cup {NoRef}]
        /\ \A b \in Branches : remote[b] # NoRef => remote'[b] # NoRef
    <3>1. CASE PushParent
      BY <1>1, <3>1 DEF PushParent, GitTyped, Branches
    <3>2. CASE Push
      <4>1. PICK b \in Branches : b = run.branch
        BY <3>2, RunFields DEF Push, Settled
      <4>2. \/ remote' = remote
            \/ local[b] # NoRef /\ remote' = [remote EXCEPT ![b] = local[b]]
        BY <3>2, <4>1 DEF Push
      <4> QED
        BY <1>1, <4>2 DEF GitTyped
    <3> QED
      BY <1>3, <3>1, <3>2
  <2>3. UNCHANGED <<checkoutVars, host, wt, local, prs, known, orphan, cmd, budgets>>
    BY <1>3 DEF PushParent, Push
  <2>4. GitTyped'
    BY <1>1, <2>2, <2>3 DEF GitTyped
  <2>5. Published'
    BY <2>2, <2>3 DEF Published
  <2> QED
    BY <1>2, <2>1, <2>3, <2>4, <2>5
<1>4. CASE Publish \/ Link \/ Ready
  <2>1. PICK b \in Branches : b = run.branch
    BY <1>4, RunFields DEF Publish, Link, Ready, Settled
  <2>2. run' \in RunRecord
    <3>1. run.pc # "idle"
      BY <1>4 DEF Publish, Link, Ready
    <3>2. Goto("link") \/ Goto("ready") \/ Goto("over")
      BY <1>4 DEF Publish, Link, Ready
    <3> QED
      BY <3>1, <3>2, RunStep DEF Steps_
  <2>3. remote[b] # NoRef
    BY <1>4, <2>1, RunFields DEF Publish, Link, Ready, Settled
  <2>4. prs' \in [Branches -> Pr \cup {NoPr}]
    <3>1. CASE Publish
      <4>1. (IF prs[b] # NoPr THEN [prs[b] EXCEPT !.closes = TRUE]
             ELSE [open |-> TRUE, draft |-> FALSE, linked |-> FALSE, closes |-> TRUE]) \in Pr
        BY <1>1 DEF GitTyped, Pr
      <4> QED
        BY <1>1, <2>1, <3>1, <4>1 DEF Publish, GitTyped
    <3>2. CASE Link \/ Ready
      <4>1. prs[b] \in Pr
        BY <1>1, <2>1, <3>2, RunFields DEF Link, Ready, Settled, GitTyped
      <4>2. [prs[b] EXCEPT !.linked = TRUE] \in Pr /\ [prs[b] EXCEPT !.draft = FALSE] \in Pr
        BY <4>1 DEF Pr
      <4> QED
        BY <1>1, <2>1, <3>2, <4>2 DEF Link, Ready, GitTyped
    <3> QED
      BY <1>4, <3>1, <3>2
  <2>5. UNCHANGED <<checkoutVars, host, wt, local, remote, known, orphan, cmd, budgets>>
    BY <1>4 DEF Publish, Link, Ready
  <2>6. \A c \in Branches : c # b => prs'[c] = prs[c]
    BY <1>1, <1>4, <2>1 DEF Publish, Link, Ready, GitTyped
  <2>7. GitTyped'
    BY <1>1, <2>4, <2>5 DEF GitTyped
  <2>8. Published'
    BY <2>3, <2>5, <2>6 DEF Published
  <2> QED
    BY <1>2, <2>2, <2>5, <2>7, <2>8
<1>5. ASSUME NEW b \in Branches, EditPr(b)
      PROVE  Typed' /\ Published' /\ UNCHANGED <<wt, local>>
  <2>1. prs[b] \in Pr
    BY <1>1, <1>5 DEF EditPr, GitTyped
  <2>2. [prs[b] EXCEPT !.open = FALSE] \in Pr /\ [prs[b] EXCEPT !.draft = TRUE] \in Pr
    BY <2>1 DEF Pr
  <2>3. prs' \in [Branches -> Pr \cup {NoPr}]
    BY <1>1, <1>5, <2>2 DEF EditPr, GitTyped
  <2>4. run' \in RunRecord \/ run' = Idle
    BY <1>5 DEF EditPr, Typed, RunRecord
  <2>5. UNCHANGED <<checkoutVars, host, wt, local, remote, known, orphan, cmd, faults>> /\ Edit
    BY <1>5 DEF EditPr
  <2>6. GitTyped'
    BY <1>1, <2>3, <2>5 DEF GitTyped
  <2>7. \A c \in Branches : prs'[c] # NoPr => prs[c] # NoPr
    BY <1>1, <1>5 DEF EditPr, GitTyped
  <2>8. Published'
    BY <2>5, <2>7 DEF Published
  <2> QED
    BY <1>2, <2>4, <2>5, <2>6, <2>8
<1> QED
  BY <1>3, <1>4, <1>5

-----------------------------------------------------------------------------
(* The refresh of the canonical checkout. *)

\* The steps of a run that leave the canonical checkout alone.
KeepsSince ==
  \/ run' = Idle
  \/ run' = run
  \/ /\ run \in RunRecord /\ run' \in RunRecord /\ run'.since = run.since
     /\ \/ run'.pc = run.pc
        \/ run'.pc \notin {"refresh", "plan", "preflight", "prepare"}
        \/ run.pc \in {"plan", "preflight"} /\ run'.pc \in {"preflight", "prepare"}

\* Whatever one process does to the checkout, head, tracking branch and remote
\* only move forward, and the other process stays where it is
\* (canonical_checkout.rs:271).
LEMMA CheckoutMoves ==
  ASSUME Typed, Fresh, NEW p \in Procs,
         RefreshStep(p) \/ RefreshFails(p) \/ PersonEdits \/ RemoteMoves
  PROVE  /\ base'.head <= base'.tracking /\ base'.tracking <= base'.remote
         /\ base.head <= base'.head /\ base.tracking <= base'.tracking
         /\ base.remote <= base'.remote
         /\ \A q \in Procs : q # p => refresh'[q] = refresh[q]
<1>1. /\ base \in Base /\ refresh \in [Procs -> Steps]
      /\ base.head \in Nat /\ base.tracking \in Nat /\ base.remote \in Nat
      /\ base.head <= base.tracking /\ base.tracking <= base.remote
  BY CountersTyped DEF Typed, TypeOK, Base, Fresh
<1>2. CASE UNCHANGED base
  <2>1. \A q \in Procs : q # p => refresh'[q] = refresh[q]
    BY <1>1 DEF RefreshStep, RefreshFails, PersonEdits, RemoteMoves, Inspect, Migrate, Fetch,
                Compare, Merge, Enforce, Then
  <2> QED
    BY <1>1, <1>2, <2>1
<1>3. ASSUME NEW ok \in BOOLEAN, Fetch(p, ok), base' # base
      PROVE  base' = [base EXCEPT !.tracking = base.remote] /\ Then(p, "compare")
  BY <1>3 DEF Fetch
<1>4. CASE Merge(p) /\ base' # base
  <2>1. base' = [base EXCEPT !.head = base.tracking] /\ Then(p, "enforce")
    BY <1>4 DEF Merge
  <2> QED
    BY <1>1, <2>1 DEF Then, Base
<1>5. CASE PersonEdits
  BY <1>1, <1>5 DEF PersonEdits, Base
<1>6. CASE RemoteMoves
  BY <1>1, <1>6 DEF RemoteMoves, Base
<1>7. CASE \E ok \in BOOLEAN : Fetch(p, ok) /\ base' # base
  <2>1. base' = [base EXCEPT !.tracking = base.remote] /\ Then(p, "compare")
    BY <1>3, <1>7
  <2> QED
    BY <1>1, <2>1 DEF Then, Base
<1> QED
  BY <1>2, <1>4, <1>5, <1>6, <1>7 DEF RefreshStep, RefreshFails, Inspect, Migrate, Compare, Enforce

\* A step of the loop's own refresh reaches what it claims to have reached.
LEMMA LoopRefreshes ==
  ASSUME Typed, Fresh, RefreshStep("loop") \/ RefreshFails("loop")
  PROVE  /\ refresh'["loop"] = "compare" => base'.tracking = base.remote
         /\ refresh'["loop"] \in {"merge", "enforce", "fresh"} =>
              refresh["loop"] \in {"compare", "merge", "enforce"}
         /\ refresh'["loop"] \in {"enforce", "fresh"} =>
              base'.head = base.tracking \/ (refresh["loop"] = "enforce" /\ base' = base)
<1>1. base \in Base /\ refresh \in [Procs -> Steps] /\ "loop" \in Procs
  BY LoopProcs DEF Typed, TypeOK
<1>2. \A step \in Steps : Then("loop", step) => refresh'["loop"] = step
  BY <1>1 DEF Then
<1>3. CASE Inspect("loop")
  BY <1>1, <1>2, <1>3 DEF Inspect, Steps
<1>4. ASSUME NEW ok \in BOOLEAN, Migrate("loop", ok)
      PROVE  refresh'["loop"] \in {"fetch", "blocked"}
  BY <1>1, <1>2, <1>4 DEF Migrate, Steps
<1>5. CASE Fetch("loop", TRUE)
  BY <1>1, <1>2, <1>5 DEF Fetch, Steps, Base
<1>6. CASE Fetch("loop", FALSE)
  BY <1>1, <1>2, <1>6 DEF Fetch, Steps, Base
<1>7. CASE Compare("loop")
  BY <1>1, <1>2, <1>7 DEF Compare, Steps, Refreshing
<1>8. CASE Merge("loop")
  BY <1>1, <1>2, <1>8 DEF Merge, Steps, Refreshing, Base
<1>9. CASE Enforce("loop")
  BY <1>1, <1>2, <1>9 DEF Enforce, Steps, Refreshing
<1> QED
  BY <1>3, <1>4, <1>5, <1>6, <1>7, <1>8, <1>9 DEF RefreshStep, RefreshFails

\* The steps that refresh.
LEMMA RefreshKeepsFresh ==
  ASSUME Typed, Typed', Fresh,
         \/ Begin \/ LoopRefresh \/ LoopRefreshFails \/ Refreshed \/ CommandRefresh
         \/ EditCheckout \/ OthersMerge
  PROVE  Fresh'
<1> USE LoopProcs DEF At
<1>1. /\ base.head \in Nat /\ base.tracking \in Nat /\ base.remote \in Nat
      /\ base'.head \in Nat /\ base'.tracking \in Nat /\ base'.remote \in Nat
      /\ refresh \in [Procs -> Steps]
  BY CountersTyped DEF Typed, TypeOK, Base
<1>2. run # Idle => run.since \in Nat
  BY CountersTyped DEF Typed, RunRecord
<1>3. CASE Begin
  <2>1. run'.pc = "refresh" /\ run'.since = base.remote /\ refresh["loop"] = "idle"
    BY <1>3 DEF Begin, Refreshing
  <2> QED
    BY <1>1, <1>3, <2>1 DEF Begin, Fresh, checkoutVars
<1>4. CASE LoopRefresh \/ LoopRefreshFails
  <2>1. run' = run /\ run.pc = "refresh" /\ run # Idle
    BY <1>4 DEF LoopRefresh, LoopRefreshFails, Idle
  <2>2. RefreshStep("loop") \/ RefreshFails("loop")
    BY <1>4 DEF LoopRefresh, LoopRefreshFails
  <2>3. /\ base'.head <= base'.tracking /\ base'.tracking <= base'.remote
        /\ base.head <= base'.head /\ base.tracking <= base'.tracking
        /\ base.remote <= base'.remote
    BY <2>2, CheckoutMoves
  <2>4. /\ refresh'["loop"] = "compare" => base'.tracking = base.remote
        /\ refresh'["loop"] \in {"merge", "enforce", "fresh"} =>
             refresh["loop"] \in {"compare", "merge", "enforce"}
        /\ refresh'["loop"] \in {"enforce", "fresh"} =>
             base'.head = base.tracking \/ (refresh["loop"] = "enforce" /\ base' = base)
    BY <2>2, LoopRefreshes
  <2>5. refresh'["loop"] \in {"compare", "merge", "enforce", "fresh"} => run.since <= base'.tracking
    BY <1>1, <1>2, <2>1, <2>3, <2>4 DEF Fresh
  <2>6. refresh'["loop"] \in {"enforce", "fresh"} => run.since <= base'.head
    BY <1>1, <1>2, <2>1, <2>3, <2>4 DEF Fresh
  <2>7. run.since <= base'.remote
    BY <1>1, <1>2, <2>1, <2>3 DEF Fresh
  <2> QED
    BY <2>1, <2>3, <2>5, <2>6, <2>7 DEF Fresh
<1>5. CASE Refreshed
  <2>1. base' = base
    BY <1>5 DEF Refreshed
  <2>2. CASE run' = Idle
    BY <2>1, <2>2 DEF Fresh
  <2>3. CASE run' # Idle
    <3>1. refresh["loop"] = "fresh" /\ Goto("plan") /\ run.pc = "refresh"
      BY <1>5, <2>3 DEF Refreshed, Refreshing
    <3>2. run \in RunRecord /\ run # Idle
      BY <3>1, RunFields
    <3>3. run'.pc = "plan" /\ run'.since = run.since
      BY <3>1, <3>2 DEF Goto, RunRecord
    <3> QED
      BY <2>1, <3>1, <3>2, <3>3 DEF Fresh
  <2> QED
    BY <2>2, <2>3
<1>6. CASE CommandRefresh \/ EditCheckout \/ OthersMerge
  <2>1. run' = run
    BY <1>6 DEF CommandRefresh, EditCheckout, OthersMerge
  <2>2. /\ base'.head <= base'.tracking /\ base'.tracking <= base'.remote
        /\ base.head <= base'.head /\ base.tracking <= base'.tracking
        /\ base.remote <= base'.remote
        /\ refresh'["loop"] = refresh["loop"]
    <3>1. CASE RefreshStep("cmd") \/ PersonEdits \/ RemoteMoves
      BY <3>1, CheckoutMoves
    <3>2. CASE UNCHANGED base /\ Then("cmd", "idle")
      BY <1>1, <3>2 DEF Then, Fresh
    <3> QED
      BY <1>6, <3>1, <3>2 DEF CommandRefresh, EditCheckout, OthersMerge
  <2> QED
    BY <1>1, <1>2, <2>1, <2>2 DEF Fresh
<1> QED
  BY <1>3, <1>4, <1>5, <1>6

\* All others.
LEMMA OthersKeepFresh ==
  ASSUME Fresh, UNCHANGED base, KeepsSince, UNCHANGED refresh \/ run' = Idle
  PROVE  Fresh'
<1>1. CASE run' = Idle
  BY <1>1 DEF Fresh
<1>2. CASE run' = run
  BY <1>2 DEF Fresh, At
<1>3. CASE /\ run \in RunRecord /\ run' \in RunRecord /\ run'.since = run.since
           /\ \/ run'.pc = run.pc
              \/ run'.pc \notin {"refresh", "plan", "preflight", "prepare"}
              \/ run.pc \in {"plan", "preflight"} /\ run'.pc \in {"preflight", "prepare"}
  <2>1. run # Idle
    BY <1>3, Absent
  <2>2. CASE UNCHANGED refresh
    BY <1>3, <2>1, <2>2 DEF Fresh, At
  <2> QED
    BY <1>1, <2>2
<1> QED
  BY <1>1, <1>2, <1>3 DEF KeepsSince

-----------------------------------------------------------------------------
(* The run. *)

\* A step of the run to another program counter.
LEMMA GotoFields ==
  ASSUME run \in RunRecord, NEW pc, Goto(pc)
  PROVE  /\ run'.pc = pc /\ run'.since = run.since /\ run'.path = run.path
         /\ run'.branch = run.branch /\ run'.touched = run.touched /\ run'.seen = run.seen
BY DEF Goto, RunRecord

\* Before the branch is planned, and when the run has failed, little is settled.
LEMMA EarlyRuns ==
  /\ run' = Idle => Settled' /\ Verified'
  /\ run'.pc \in {"refresh", "plan"} => Settled' /\ Verified'
  /\ run'.pc \in {"preflight", "prepare", "failed"} /\ run'.branch \in Branches \ {"foreign"}
        => Settled' /\ Verified'
<1>1. run' = Idle => Settled' /\ Verified'
  BY DEF Settled, Verified
<1>2. run'.pc \in {"refresh", "plan"} => Settled' /\ Verified'
  BY DEF Settled, Verified
<1>3. run'.pc \in {"preflight", "prepare", "failed"} /\ run'.branch \in Branches \ {"foreign"}
        => Settled' /\ Verified'
  BY DEF Settled, Verified
<1> QED
  BY <1>1, <1>2, <1>3

\* Steps that leave git alone.
LEMMA QuietRuns ==
  ASSUME Typed, Trees, Settled, Verified, UNCHANGED git,
         \/ Begin \/ Refreshed \/ Plan \/ Preflight \/ Claim \/ Own \/ Gone \/ Verify \/ Check
         \/ StepFails \/ HandOver \/ Failed \/ Crash
         \/ UNCHANGED run
  PROVE  Settled' /\ Verified' /\ (KeepsSince \/ Begin \/ Refreshed)
<1> USE DEF At
<1>1. CASE Begin
  BY <1>1, EarlyRuns DEF Begin
<1>2. CASE run' = Idle
  BY <1>2, EarlyRuns DEF KeepsSince
<1>3. CASE UNCHANGED run
  BY <1>3 DEF Settled, Verified, KeepsSince, git
<1>4. CASE Refreshed
  <2>1. CASE Goto("plan")
    <3>1. run \in RunRecord
      BY <1>4, RunFields DEF Refreshed
    <3> QED
      BY <1>4, <2>1, <3>1, GotoFields, EarlyRuns
  <2> QED
    BY <1>2, <1>4, <2>1 DEF Refreshed
<1>5. CASE Plan
  <2>1. run \in RunRecord /\ run.pc = "plan"
    BY <1>5, RunFields DEF Plan
  <2>2. ASSUME NEW p \in Paths, NEW b \in Branches \ {"foreign"},
               run' = [run EXCEPT !.pc = "preflight", !.branch = b, !.path = p]
        PROVE  Settled' /\ Verified' /\ KeepsSince
    <3>1. run' \in RunRecord /\ run'.pc = "preflight" /\ run'.branch = b /\ run'.since = run.since
      BY <2>1, <2>2 DEF RunRecord, Steps_
    <3> QED
      BY <2>1, <3>1, EarlyRuns DEF KeepsSince
  <2> QED
    BY <1>2, <1>5, <2>2, PlanShape
<1>6. CASE Preflight
  <2>1. run \in RunRecord /\ run.pc = "preflight"
    BY <1>6, RunFields DEF Preflight
  <2>2. ASSUME NEW p \in Paths, NEW b \in Branches \ {"foreign"},
               run' = [run EXCEPT !.pc = "prepare", !.path = p, !.branch = b]
        PROVE  Settled' /\ Verified' /\ KeepsSince
    <3>1. run' \in RunRecord /\ run'.pc = "prepare" /\ run'.branch = b /\ run'.since = run.since
      BY <2>1, <2>2 DEF RunRecord, Steps_
    <3> QED
      BY <2>1, <3>1, EarlyRuns DEF KeepsSince
  <2> QED
    BY <1>2, <1>6, <2>2, PreflightShape DEF Prepares
<1>7. CASE Goto("failed") /\ run.pc \notin {"idle", "refresh", "plan"}
  <2>1. run \in RunRecord /\ run # Idle
    BY <1>7, RunFields
  <2>2. run' \in RunRecord
    BY <1>7, RunStep DEF Steps_
  <2> QED
    BY <1>7, <2>1, <2>2, GotoFields, EarlyRuns DEF KeepsSince, Settled
<1>8. CASE Own
  <2>1. run \in RunRecord /\ run # Idle /\ run.pc = "own" /\ run' \in RunRecord /\ Goto("work")
    BY <1>8, RunFields, RunStep DEF Own, Steps_
  <2>2. Settled'
    BY <2>1, GotoFields DEF Settled
  <2>3. Verified'
    BY <2>1, GotoFields DEF Verified, git
  <2> QED
    BY <2>1, <2>2, <2>3, GotoFields DEF KeepsSince
<1>9. CASE Claim /\ run' # Idle
  <2>1. run \in RunRecord /\ run # Idle /\ run.pc = "claim"
    BY <1>9, RunFields DEF Claim
  <2>2. PICK e \in {"Claimed", "Resumed"} : run' = [run EXCEPT !.pc = "own", !.event = e]
    BY <1>9 DEF Claim, LoopError
  <2>3. /\ run' \in RunRecord /\ run'.pc = "own" /\ run'.since = run.since
        /\ run'.path = run.path /\ run'.branch = run.branch /\ run'.touched = run.touched
    BY <2>1, <2>2 DEF RunRecord, Steps_
  <2>4. Settled'
    BY <2>1, <2>3 DEF Settled
  <2>5. Verified'
    BY <2>1, <2>3 DEF Verified, git
  <2> QED
    BY <2>1, <2>3, <2>4, <2>5 DEF KeepsSince
<1>10. CASE Verify
  <2>1. run \in RunRecord /\ run # Idle /\ run.pc = "verify" /\ run.path \in Paths
    BY <1>10, RunFields DEF Verify
  <2>2. Contents(run.path) \in [ref : Ref \cup {NoRef}, dirty : BOOLEAN]
    BY <2>1 DEF Contents, Head, Typed, TypeOK, Tree
  <2>3. /\ run' \in RunRecord /\ run'.pc = "check" /\ run'.since = run.since
        /\ run'.path = run.path /\ run'.branch = run.branch /\ run'.touched = run.touched
        /\ run'.seen = Contents(run.path)
    BY <1>10, <2>1, <2>2 DEF Verify, RunRecord, Steps_
  <2>4. Settled'
    BY <2>1, <2>3 DEF Settled
  <2>5. ASSUME ~run.touched
        PROVE  /\ wt[run.path].there /\ wt[run.path].on = run.branch
               /\ Contents(run.path).ref = local[run.branch]
               /\ Contents(run.path).dirty = wt[run.path].dirty
    <3>1. wt[run.path].there /\ wt[run.path].on = run.branch /\ run.branch \in Branches
      BY <2>1, <2>5 DEF Verified, Settled
    <3>2. run.branch # "detached"
      BY <3>1 DEF Branches
    <3> QED
      BY <3>1, <3>2 DEF Contents, Head
  <2>6. Verified'
    BY <2>3, <2>5 DEF Verified, git
  <2> QED
    BY <2>1, <2>3, <2>4, <2>6 DEF KeepsSince
<1>11. CASE Check /\ Goto("parent")
  <2>1. run \in RunRecord /\ run # Idle /\ run.pc = "check" /\ run' \in RunRecord
    BY <1>11, RunFields, RunStep DEF Check, Steps_
  <2>2. ~wt[run.path].dirty
    <3>1. ~Publishable => Goto("failed")
      BY <1>11 DEF Check
    <3>2. ~Goto("failed")
      BY <1>11, <2>1 DEF Goto, RunRecord
    <3> QED
      BY <3>1, <3>2 DEF Publishable
  <2>3. Settled'
    BY <1>11, <2>1, GotoFields DEF Settled
  <2>4. Verified'
    BY <1>11, <2>1, <2>2, GotoFields DEF Verified, git
  <2> QED
    BY <1>11, <2>1, <2>3, <2>4, GotoFields DEF KeepsSince
<1> QED
  BY <1>1, <1>2, <1>3, <1>4, <1>5, <1>6, <1>7, <1>8, <1>9, <1>10, <1>11
  DEF Claim, LoopError, Gone, Check, StepFails, HandOver, Failed, Crash

\* The steps at which a run depends on its worktree.
InTree == {"claim", "own", "work", "commit", "verify", "check", "parent", "push", "publish", "link",
           "ready", "over"}

\* What others do to worktrees and branches disturbs a run only with a trace.
LEMMA Undisturbed ==
  ASSUME Typed, Settled, Verified, UNCHANGED <<remote, prs>>,
         run' = run \/ (run # Idle /\ run' = [run EXCEPT !.touched = TRUE]),
         run' = run /\ run # Idle /\ ~run.touched /\ run.pc \in InTree
            => wt'[run.path] = wt[run.path] /\ local'[run.branch] = local[run.branch]
  PROVE  Settled' /\ Verified' /\ KeepsSince
<1>1. CASE run' = run
  <2>1. Settled'
    BY <1>1 DEF Settled
  <2>2. Verified'
    <3>1. CASE run # Idle /\ ~run.touched /\ run.pc \in InTree
      BY <1>1, <3>1 DEF Verified, InTree
    <3>2. CASE ~(run # Idle /\ ~run.touched /\ run.pc \in InTree)
      BY <1>1, <3>2 DEF Verified, InTree
    <3> QED
      BY <3>1, <3>2
  <2> QED
    BY <1>1, <2>1, <2>2 DEF KeepsSince
<1>2. CASE run # Idle /\ run' = [run EXCEPT !.touched = TRUE]
  <2>1. run \in RunRecord
    BY <1>2 DEF Typed
  <2>2. /\ run' \in RunRecord /\ run'.pc = run.pc /\ run'.since = run.since
        /\ run'.branch = run.branch /\ run'.touched
    BY <1>2, <2>1 DEF RunRecord
  <2>3. Settled'
    BY <1>2, <2>2 DEF Settled
  <2>4. Verified'
    BY <2>2 DEF Verified
  <2> QED
    BY <2>1, <2>2, <2>3, <2>4 DEF KeepsSince
<1> QED
  BY <1>1, <1>2

\* A run in its worktree: the worktree is registered, and the branch it is on
\* exists and is no other worktree's.
LEMMA OwnTree ==
  ASSUME Typed, Trees, Settled, Verified, run # Idle, ~run.touched, run.pc \in InTree
  PROVE  /\ run.path \in Paths /\ run.branch \in Branches
         /\ wt[run.path].there /\ wt[run.path].reg /\ wt[run.path].on = run.branch
         /\ local[run.branch] # NoRef
         /\ \A q \in Paths : q # run.path => wt[q].on # run.branch
<1>1. run.path \in Paths /\ run.branch \in Branches
  BY DEF Typed, RunRecord, Settled, InTree
<1>2. wt[run.path].there /\ wt[run.path].on = run.branch
  BY DEF Verified, InTree
<1>3. run.branch # "detached"
  BY <1>1 DEF Branches
<1> QED
  BY <1>1, <1>2, <1>3 DEF Trees

\* Steps of others in worktrees.
LEMMA OthersInTrees ==
  ASSUME Typed, Trees, Published, Settled, Verified,
         \/ \E how \in {"nothing", "dirty", "commit"} : OrphanWrites(how)
         \/ Ensure \/ Remove
         \/ \E p \in Paths : EditTree(p)
  PROVE  Settled' /\ Verified' /\ KeepsSince
<1>1. GitTyped
  BY DEF Typed, TypeOK, GitTyped
<1>2. ASSUME NEW how \in {"nothing", "dirty", "commit"}, OrphanWrites(how)
      PROVE  Settled' /\ Verified' /\ KeepsSince
  <2>1. PICK p \in Paths : p = orphan
    BY <1>2 DEF OrphanWrites, Typed, TypeOK
  <2>2. WritesIn(p)
    BY <1>1, <1>2, <2>1, WritesShape DEF OrphanWrites
  <2>3. Touch(p)
    BY <1>2, <2>1 DEF OrphanWrites
  <2>4. ASSUME run' = run, run # Idle, ~run.touched, run.pc \in InTree
        PROVE  wt'[run.path] = wt[run.path] /\ local'[run.branch] = local[run.branch]
    <3>1. run.path # p
      <4>1. run \in RunRecord
        BY <2>4 DEF Typed
      <4>2. [run EXCEPT !.touched = TRUE].touched
        BY <4>1 DEF RunRecord
      <4> QED
        BY <2>3, <2>4, <4>2 DEF Touch
    <3> QED
      BY <2>2, <2>4, <3>1, OwnTree DEF WritesIn
  <2> QED
    BY <1>2, <2>3, <2>4, TouchTyped, Undisturbed DEF OrphanWrites
<1>3. CASE Ensure
  <2>1. ASSUME run # Idle, ~run.touched, run.pc \in InTree
        PROVE  wt'[run.path] = wt[run.path] /\ local'[run.branch] = local[run.branch]
    <3>1. CASE UNCHANGED <<wt, local>>
      BY <3>1
    <3>2. ASSUME NEW b \in Branches, AddsTree("own", b)
          PROVE  wt'[run.path] = wt[run.path] /\ local'[run.branch] = local[run.branch]
      <4>1. run.path # "own"
        BY <2>1, <3>2, OwnTree DEF AddsTree
      <4> QED
        BY <1>1, <2>1, <3>2, <4>1, OwnTree DEF AddsTree, Added, GitTyped
    <3> QED
      BY <1>3, <3>1, <3>2, EnsureShape
  <2> QED
    BY <1>3, <2>1, Undisturbed DEF Ensure
<1>4. CASE Remove
  <2>1. ASSUME run' = run, run # Idle, ~run.touched, run.pc \in InTree
        PROVE  wt'[run.path] = wt[run.path] /\ local'[run.branch] = local[run.branch]
    <3>1. run.path # "own"
      <4>1. run \in RunRecord
        BY <2>1 DEF Typed
      <4>2. [run EXCEPT !.touched = TRUE].touched
        BY <4>1 DEF RunRecord
      <4> QED
        BY <1>4, <2>1, <4>2 DEF Remove, Touch
    <3> QED
      BY <1>1, <1>4, <2>1, <3>1, OwnTree DEF Remove, GitTyped
  <2> QED
    BY <1>4, <2>1, TouchTyped, Undisturbed DEF Remove
<1>5. ASSUME NEW p \in Paths, EditTree(p)
      PROVE  Settled' /\ Verified' /\ KeepsSince
  <2>1. ASSUME run' = run, run # Idle, ~run.touched, run.pc \in InTree
        PROVE  wt'[run.path] = wt[run.path] /\ local'[run.branch] = local[run.branch]
    <3>1. run.path # p
      <4>1. run \in RunRecord
        BY <2>1 DEF Typed
      <4>2. [run EXCEPT !.touched = TRUE].touched
        BY <4>1 DEF RunRecord
      <4> QED
        BY <1>5, <2>1, <4>2 DEF EditTree, Touch
    <3> QED
      BY <1>5, <2>1, <3>1, OwnTree, EditTreeShape
  <2> QED
    BY <1>5, <2>1, TouchTyped, Undisturbed DEF EditTree
<1> QED
  BY <1>2, <1>3, <1>4, <1>5

\* Steps of the run in its worktree.
LEMMA RunInTree ==
  ASSUME Typed, Trees, Settled, Verified,
         \/ Prepare
         \/ \E how \in {"nothing", "dirty", "commit"} : Agent(how) \/ AgentFails(how)
         \/ Commit \/ VerifyLeavesFiles
  PROVE  Settled' /\ Verified' /\ KeepsSince
<1> USE DEF At
<1>1. GitTyped
  BY DEF Typed, TypeOK, GitTyped
<1>2. run \in RunRecord /\ run # Idle /\ run.path \in Paths /\ run.branch \in Branches \ {"foreign"}
  BY RunFields DEF Prepare, Agent, AgentFails, Commit, VerifyLeavesFiles, Settled
<1>3. CASE Prepare
  <2>1. CASE run' = Idle
    BY <2>1, EarlyRuns DEF KeepsSince
  <2>2. CASE Goto("claim")
    <3>1. wt'[run.path].there /\ wt'[run.path].on = run.branch
      <4>1. CASE UNCHANGED <<wt, local>> /\ wt[run.path].there /\ wt[run.path].on = run.branch
        BY <4>1
      <4>2. CASE AddsTree(run.path, run.branch)
        BY <1>1, <1>2, <4>2 DEF AddsTree, Added, GitTyped
      <4>3. run' # Idle
        BY <1>2, <2>2, GotoFields DEF Idle
      <4> QED
        BY <1>3, <4>1, <4>2, <4>3, PrepareShape
    <3>2. run' \in RunRecord
      BY <1>3, <2>2, RunStep DEF Prepare, Steps_
    <3>3. Settled'
      BY <1>2, <2>2, GotoFields DEF Settled
    <3>4. Verified'
      BY <1>2, <2>2, <3>1, GotoFields DEF Verified
    <3> QED
      BY <1>2, <2>2, <3>2, <3>3, <3>4, GotoFields DEF KeepsSince
  <2> QED
    BY <1>3, <2>1, <2>2 DEF Prepare
<1>4. CASE Goto("failed") /\ run.pc # "idle"
  BY <1>2, <1>4, GotoFields, RunStep, EarlyRuns DEF KeepsSince, Steps_
<1>5. ASSUME NEW pc \in {"commit", "verify"}, Goto(pc), run.pc \in {"work", "commit"},
             WritesIn(run.path)
      PROVE  Settled' /\ Verified' /\ KeepsSince
  <2>1. run' \in RunRecord
    BY <1>5, RunStep DEF Steps_
  <2>2. Settled'
    BY <1>2, <1>5, GotoFields DEF Settled
  <2>3. Verified'
    BY <1>2, <1>5, GotoFields DEF Verified, WritesIn
  <2> QED
    BY <1>2, <1>5, <2>1, <2>2, <2>3, GotoFields DEF KeepsSince
<1>6. ASSUME NEW how \in {"nothing", "dirty", "commit"}, Agent(how)
      PROVE  Settled' /\ Verified' /\ KeepsSince
  BY <1>1, <1>2, <1>5, <1>6, WritesShape DEF Agent
<1>7. ASSUME NEW how \in {"nothing", "dirty", "commit"}, AgentFails(how)
      PROVE  Settled' /\ Verified' /\ KeepsSince
  BY <1>4, <1>7 DEF AgentFails
<1>8. CASE Commit
  BY <1>5, <1>8, CommitShape DEF Commit
<1>9. CASE VerifyLeavesFiles
  <2>1. Contents(run.path) \in [ref : Ref \cup {NoRef}, dirty : BOOLEAN]
    BY <1>1, <1>2 DEF Contents, Head, GitTyped, Tree
  <2>2. /\ run' \in RunRecord /\ run'.pc = "check" /\ run'.since = run.since
        /\ run'.path = run.path /\ run'.branch = run.branch /\ run'.touched = run.touched
        /\ run'.seen = Contents(run.path)
    BY <1>2, <1>9, <2>1 DEF VerifyLeavesFiles, RunRecord, Steps_
  <2>3. Settled'
    BY <1>2, <2>2 DEF Settled
  <2>4. ASSUME ~run.touched
        PROVE  /\ wt'[run.path].there /\ wt'[run.path].on = run.branch /\ wt'[run.path].dirty
               /\ Contents(run.path).ref = local'[run.branch]
    <3>1. wt[run.path].there /\ wt[run.path].on = run.branch
      BY <1>2, <1>9, <2>4 DEF VerifyLeavesFiles, Verified
    <3>2. run.branch # "detached"
      BY <1>2 DEF Branches
    <3>3. /\ wt'[run.path].there = wt[run.path].there /\ wt'[run.path].on = wt[run.path].on
          /\ wt'[run.path].dirty /\ local' = local
      BY <1>1, <1>2, <1>9 DEF VerifyLeavesFiles, GitTyped, Tree
    <3> QED
      BY <3>1, <3>2, <3>3 DEF Contents, Head
  <2>5. Verified'
    BY <2>2, <2>4 DEF Verified
  <2> QED
    BY <1>2, <2>2, <2>3, <2>5 DEF KeepsSince
<1> QED
  BY <1>3, <1>6, <1>7, <1>8, <1>9

\* Steps at the remote.
LEMMA RunAtRemote ==
  ASSUME Typed, Trees, Published, Settled, Verified,
         \/ PushParent \/ Push \/ Publish \/ Link \/ Ready
         \/ \E b \in Branches : EditPr(b)
  PROVE  Settled' /\ Verified' /\ KeepsSince
<1> USE DEF At
<1>1. GitTyped
  BY DEF Typed, TypeOK, GitTyped
<1>2. ASSUME PushParent \/ Push \/ Publish \/ Link \/ Ready
      PROVE  /\ run \in RunRecord /\ run # Idle /\ run.pc # "idle"
             /\ run.path \in Paths /\ run.branch \in Branches \ {"foreign"}
  BY <1>2, RunFields DEF PushParent, Push, Publish, Link, Ready, Settled
<1>3. ASSUME Goto("failed"), PushParent \/ Push \/ Publish \/ Link \/ Ready
      PROVE  Settled' /\ Verified' /\ KeepsSince
  BY <1>2, <1>3, GotoFields, RunStep, EarlyRuns DEF KeepsSince, Steps_
<1>4. ASSUME NEW pc \in {"push", "publish", "link", "ready", "over"}, Goto(pc),
             PushParent \/ Push \/ Publish \/ Link \/ Ready
      PROVE  KeepsSince
  BY <1>2, <1>4, GotoFields, RunStep DEF KeepsSince, Steps_
<1>5. CASE PushParent
  <2>1. CASE Goto("push")
    <3>1. Settled'
      BY <1>5, <1>2, <2>1, GotoFields DEF Settled
    <3>2. Verified'
      BY <1>5, <1>2, <2>1, GotoFields DEF Verified, PushParent
    <3> QED
      BY <1>5, <1>4, <2>1, <3>1, <3>2
  <2> QED
    BY <1>5, <1>3, <2>1 DEF PushParent
<1>6. CASE Push
  <2>1. CASE Goto("publish") /\ local[run.branch] # NoRef
             /\ remote' = [remote EXCEPT ![run.branch] = local[run.branch]]
    <3>1. remote'[run.branch] = local[run.branch]
      BY <1>1, <1>6, <1>2, <2>1 DEF GitTyped
    <3>2. Settled'
      BY <1>6, <1>2, <2>1, <3>1, GotoFields DEF Settled, Push
    <3>3. Verified'
      BY <1>6, <1>2, <2>1, <3>1, GotoFields DEF Verified, Push
    <3> QED
      BY <1>6, <1>4, <2>1, <3>2, <3>3
  <2> QED
    BY <1>6, <1>3, <2>1 DEF Push
<1>7. CASE Publish
  <2>1. prs'[run.branch] \in Pr /\ prs'[run.branch].closes
    <3>1. PICK new : new = IF prs[run.branch] # NoPr THEN [prs[run.branch] EXCEPT !.closes = TRUE]
                           ELSE [open |-> TRUE, draft |-> FALSE, linked |-> FALSE, closes |-> TRUE]
      OBVIOUS
    <3>2. new \in Pr /\ new.closes
      BY <1>1, <1>7, <1>2, <3>1 DEF GitTyped, Pr
    <3>3. prs' = [prs EXCEPT ![run.branch] = new]
      BY <1>7, <3>1 DEF Publish
    <3> QED
      BY <1>1, <1>7, <1>2, <3>2, <3>3 DEF GitTyped
  <2>2. Settled'
    <3>1. run.pc = "publish" /\ remote' = remote /\ Goto("link")
      BY <1>7 DEF Publish
    <3>2. remote[run.branch] # NoRef /\ prs'[run.branch] # NoPr
      BY <1>7, <1>2, <2>1, <3>1, Absent DEF Settled
    <3>3. run'.pc = "link" /\ run'.branch = run.branch
      BY <1>7, <1>2, <3>1, GotoFields
    <3> QED
      BY <1>7, <1>2, <2>1, <3>1, <3>2, <3>3 DEF Settled
  <2>3. Verified'
    BY <1>7, <1>2, GotoFields DEF Verified, Publish
  <2> QED
    BY <1>7, <1>4, <2>2, <2>3 DEF Publish
<1>8. CASE Link
  <2>1. /\ prs'[run.branch] \in Pr /\ prs'[run.branch].linked
        /\ prs'[run.branch].closes = prs[run.branch].closes
    BY <1>1, <1>8, <1>2 DEF Link, Settled, GitTyped, Pr
  <2>2. Settled'
    BY <1>8, <1>2, <2>1, GotoFields, Absent DEF Settled, Link
  <2>3. Verified'
    BY <1>8, <1>2, GotoFields DEF Verified, Link
  <2> QED
    BY <1>8, <1>4, <2>2, <2>3 DEF Link
<1>9. CASE Ready
  <2>1. /\ prs'[run.branch] \in Pr /\ ~prs'[run.branch].draft
        /\ prs'[run.branch].linked = prs[run.branch].linked
        /\ prs'[run.branch].closes = prs[run.branch].closes
    BY <1>1, <1>9, <1>2 DEF Ready, Settled, GitTyped, Pr
  <2>2. Settled'
    BY <1>9, <1>2, <2>1, GotoFields, Absent DEF Settled, Ready
  <2>3. Verified'
    BY <1>9, <1>2, <2>1, GotoFields DEF Verified, Ready
  <2> QED
    BY <1>9, <1>4, <2>2, <2>3 DEF Ready
<1>10. ASSUME NEW b \in Branches, EditPr(b)
      PROVE  Settled' /\ Verified' /\ KeepsSince
  <2>1. CASE run = Idle
    BY <1>10, <2>1, EarlyRuns DEF EditPr, KeepsSince
  <2>2. CASE run # Idle
    <3>1. run \in RunRecord
      BY <2>2 DEF Typed
    <3>2. /\ run' \in RunRecord /\ run'.pc = run.pc /\ run'.since = run.since
          /\ run'.branch = run.branch /\ run'.touched
      BY <1>10, <2>2, <3>1 DEF EditPr, RunRecord
    <3>3. prs[b] \in Pr
      BY <1>1, <1>10 DEF EditPr, GitTyped
    <3>4. \A c \in Branches : prs[c] # NoPr =>
            prs'[c] # NoPr /\ prs'[c].closes = prs[c].closes /\ prs'[c].linked = prs[c].linked
      <4>1. PICK new \in Pr : /\ prs' = [prs EXCEPT ![b] = new]
                              /\ new.closes = prs[b].closes /\ new.linked = prs[b].linked
        BY <1>10, <3>3 DEF EditPr, Pr
      <4> QED
        BY <1>1, <4>1, Absent DEF GitTyped
    <3>5. UNCHANGED remote
      BY <1>10 DEF EditPr
    <3>6. Settled'
      BY <2>2, <3>2, <3>4, <3>5 DEF Settled
    <3>7. Verified'
      BY <3>2 DEF Verified
    <3> QED
      BY <3>1, <3>2, <3>6, <3>7 DEF KeepsSince
  <2> QED
    BY <2>1, <2>2
<1> QED
  BY <1>5, <1>6, <1>7, <1>8, <1>9, <1>10

-----------------------------------------------------------------------------
(* Theorems. *)

\* Every initial state, whatever came before the run, satisfies the invariant.
LEMMA InitWInv == Init => WInv
<1> SUFFICES ASSUME Init PROVE WInv
  OBVIOUS
<1> USE CountersTyped, LoopProcs
<1>1. PICK case \in Cases :
        LET past == case.past
            head == IF past = "done" THEN "issue" ELSE past
            ref(line) == [b \in Branches |-> IF b = head THEN [from |-> 0, work |-> 1, line |-> line]
                                             ELSE NoRef]
        IN /\ host = [backend |-> case.backend, role |-> case.role]
           /\ issue = [state |-> IF past = "none" THEN "Todo"
                                ELSE IF past = "done" THEN "Done" ELSE "Rework",
                       hints |-> IF past = "done" THEN {"own"} ELSE {}, strong |-> FALSE]
           /\ remote = ref(IF past = "done" THEN "here" ELSE "fetched")
           /\ local = IF past = "done" THEN ref("here") ELSE [b \in Branches |-> NoRef]
           /\ wt = [p \in Paths |->
                      IF past = "done" /\ p = "own"
                      THEN [there |-> TRUE, reg |-> TRUE, on |-> "issue", dirty |-> FALSE] ELSE NoTree]
           /\ prs = [b \in Branches |->
                       IF b = head THEN [open |-> past # "done", draft |-> FALSE, linked |-> TRUE,
                                         closes |-> TRUE]
                       ELSE NoPr]
  BY DEF Init
<1>2. case \in [backend : {"codex", "claude"}, role : {"single", "sub", "parent"},
                past : {"none", "topic", "foreign", "done"}]
  BY <1>1, WorkspacesAssumption
<1>3. PICK head : head = IF case.past = "done" THEN "issue" ELSE case.past
  OBVIOUS
<1>4. base \in Base /\ checkout \in Checkout /\ refresh \in [Procs -> Steps]
  BY DEF Init, CheckoutInit, Base, Checkout, Steps
<1>5. host \in [backend : {"codex", "claude"}, role : {"single", "sub", "parent"}]
  BY <1>1, <1>2
<1>6. issue \in [state : States, hints : SUBSET Paths, strong : BOOLEAN]
  BY <1>1, <1>2 DEF States, Paths
<1>7. \A line \in {"here", "fetched"} : [from |-> 0, work |-> 1, line |-> line] \in Ref
  BY DEF Ref
<1>8. local \in [Branches -> Ref \cup {NoRef}] /\ remote \in [Branches -> Ref \cup {NoRef}]
  BY <1>1, <1>2, <1>7
<1>9. wt \in [Paths -> Tree]
  BY <1>1 DEF Tree, NoTree, Branches
<1>10. prs \in [Branches -> Pr \cup {NoPr}]
  BY <1>1 DEF Pr
<1>11. TypeOK
  <2>1. rec = NoRec /\ store = NoStore /\ run = Idle /\ orphan = "none"
    BY DEF Init
  <2>2. faults \in 0..MaxFaults /\ edits \in 0..MaxEdits
    BY DEF Init
  <2> QED
    BY <1>4, <1>5, <1>6, <1>8, <1>9, <1>10, <2>1, <2>2 DEF TypeOK
<1>12. Trees
  <2>1. CASE case.past = "done"
    <3>1. /\ wt["own"] = [there |-> TRUE, reg |-> TRUE, on |-> "issue", dirty |-> FALSE]
          /\ wt["extra"] = NoTree
      BY <1>1, <2>1 DEF Paths
    <3>2. local["issue"] # NoRef
      BY <1>1, <1>7, <2>1, Absent DEF Branches
    <3> QED
      BY <3>1, <3>2 DEF Trees, Paths, NoTree
  <2>2. CASE case.past # "done"
    BY <1>1, <2>2 DEF Trees, NoTree
  <2> QED
    BY <2>1, <2>2
<1>13. Published
  BY <1>1, <1>7, Absent DEF Published
<1>14. Fresh /\ Settled /\ Verified
  BY DEF Fresh, Settled, Verified, Init, CheckoutInit
<1> QED
  BY <1>11, <1>12, <1>13, <1>14 DEF WInv, Typed, Init

\* Every step keeps it.
LEMMA NextWInv == WInv /\ [Next]_vars => WInv'
<1> SUFFICES ASSUME WInv, [Next]_vars PROVE WInv'
  OBVIOUS
<1> USE DEF WInv
<1>1. CASE \/ Prepare
           \/ \E how \in {"nothing", "dirty", "commit"} : Agent(how) \/ AgentFails(how)
           \/ Commit \/ VerifyLeavesFiles
  <2>1. Typed' /\ Trees' /\ UNCHANGED <<remote, prs>>
    BY <1>1, TreeSteps
  <2>2. Settled' /\ Verified' /\ KeepsSince
    BY <1>1, RunInTree
  <2>3. UNCHANGED checkoutVars
    BY <1>1 DEF Prepare, Agent, AgentFails, Commit, VerifyLeavesFiles
  <2> QED
    BY <2>1, <2>2, <2>3, OthersKeepFresh DEF Published, checkoutVars
<1>2. CASE \/ \E how \in {"nothing", "dirty", "commit"} : OrphanWrites(how)
           \/ Ensure \/ Remove
           \/ \E p \in Paths : EditTree(p)
  <2>1. Typed' /\ Trees' /\ UNCHANGED <<remote, prs>>
    BY <1>2, TreeSteps
  <2>2. Settled' /\ Verified' /\ KeepsSince
    BY <1>2, OthersInTrees
  <2>3. UNCHANGED checkoutVars
    BY <1>2 DEF OrphanWrites, Ensure, Remove, EditTree
  <2> QED
    BY <2>1, <2>2, <2>3, OthersKeepFresh DEF Published, checkoutVars
<1>3. CASE \/ PushParent \/ Push \/ Publish \/ Link \/ Ready
           \/ \E b \in Branches : EditPr(b)
  <2>1. Typed' /\ Published' /\ UNCHANGED <<wt, local>>
    BY <1>3, RemoteSteps
  <2>2. Settled' /\ Verified' /\ KeepsSince
    BY <1>3, RunAtRemote
  <2>3. UNCHANGED checkoutVars
    BY <1>3 DEF PushParent, Push, Publish, Link, Ready, EditPr
  <2> QED
    BY <2>1, <2>2, <2>3, OthersKeepFresh DEF Trees, checkoutVars
<1>4. CASE \/ Begin \/ LoopRefresh \/ LoopRefreshFails \/ Refreshed \/ Plan \/ Preflight \/ Claim
           \/ Own \/ Gone \/ Verify \/ Check \/ StepFails \/ HandOver \/ Failed \/ Crash
  <2>1. Typed'
    BY <1>4, LoopTyped
  <2>2. UNCHANGED git
    BY <1>4 DEF Begin, LoopRefresh, LoopRefreshFails, Refreshed, Plan, Preflight, Claim, Own, Gone,
                Verify, Check, StepFails, HandOver, Failed, Crash
  <2>3. Settled' /\ Verified' /\ (KeepsSince \/ Begin \/ Refreshed)
    BY <1>4, <2>2, QuietRuns DEF LoopRefresh, LoopRefreshFails
  <2>4. Trees' /\ Published'
    BY <2>2 DEF Trees, Published, git
  <2>5. CASE Begin \/ LoopRefresh \/ LoopRefreshFails \/ Refreshed
    BY <2>1, <2>3, <2>4, <2>5, RefreshKeepsFresh
  <2>6. CASE \/ Plan \/ Preflight \/ Claim \/ Own \/ Gone \/ Verify \/ Check
             \/ StepFails \/ HandOver \/ Failed \/ Crash
    <3>1. UNCHANGED base /\ (UNCHANGED refresh \/ run' = Idle)
      BY <2>6 DEF Plan, Preflight, Claim, Own, Gone, Verify, Check, StepFails, HandOver, Failed, Crash,
                  checkoutVars
    <3>2. CASE KeepsSince
      BY <2>1, <2>3, <2>4, <3>1, <3>2, OthersKeepFresh
    <3> QED
      BY <2>1, <2>3, <2>4, <2>5, <3>2
  <2> QED
    BY <1>4, <2>5, <2>6
<1>5. CASE \/ \E what \in {"ensure", "clean"} : StartCommand(what)
           \/ \E p \in Paths : StartAdopt(p)
           \/ CommandRefresh \/ Note
           \/ \E to \in States : MoveIssue(to)
           \/ EditCheckout \/ OthersMerge
  <2>1. Typed'
    BY <1>5, OthersTyped
  <2>2. UNCHANGED <<git, run>>
    BY <1>5 DEF StartCommand, StartAdopt, CommandRefresh, Note, MoveIssue, EditCheckout, OthersMerge
  <2>3. Settled' /\ Verified'
    BY <2>2, QuietRuns
  <2>4. Trees' /\ Published'
    BY <2>2 DEF Trees, Published, git
  <2>5. CASE CommandRefresh \/ EditCheckout \/ OthersMerge
    BY <2>1, <2>3, <2>4, <2>5, RefreshKeepsFresh
  <2>6. CASE \/ \E what \in {"ensure", "clean"} : StartCommand(what)
             \/ \E p \in Paths : StartAdopt(p)
             \/ Note
             \/ \E to \in States : MoveIssue(to)
    <3>1. UNCHANGED checkoutVars
      BY <2>6 DEF StartCommand, StartAdopt, Note, MoveIssue
    <3> QED
      BY <2>1, <2>2, <2>3, <2>4, <3>1, OthersKeepFresh DEF KeepsSince, checkoutVars
  <2> QED
    BY <1>5, <2>5, <2>6
<1>6. CASE UNCHANGED vars
  BY <1>6 DEF vars, checkoutVars, git, known, budgets, Typed, TypeOK, Trees, Published, Fresh,
              Settled, Verified, At
<1> QED
  BY <1>1, <1>2, <1>3, <1>4, <1>5, <1>6 DEF Next, LoopStep, CommandStep

\* The invariant holds throughout: across crashes, commands and people at work
\* in the worktrees (git_handoff.rs, canonical_checkout.rs).
LEMMA WorkspacesInvariant == Spec => []WInv
BY InitWInv, NextWInv, PTL DEF Spec

\* Worktrees, branches, pull requests, records and the run stay well formed.
THEOREM WorkspacesTypeCorrect == Spec => []TypeOK
<1>1. WInv => TypeOK
  BY DEF WInv, Typed
<1> QED
  BY <1>1, WorkspacesInvariant, PTL

\* However crashes, failed attempts, recovered and adopted worktrees, commands
\* and people interleave, what reaches Agent Review is what the verification
\* saw, unless somebody wrote to the worktree or the pull request during the
\* run (live_handoff.rs:30-170).
THEOREM HandOverIsVerified == Spec => HandedOverIsVerified
<1>1. WInv /\ HandOver /\ ~run.touched =>
        /\ run.seen = [ref |-> remote[run.branch], dirty |-> FALSE]
        /\ prs[run.branch].linked /\ ~prs[run.branch].draft /\ prs[run.branch].closes
  <2> SUFFICES ASSUME WInv, HandOver, ~run.touched
               PROVE  /\ run.seen = [ref |-> remote[run.branch], dirty |-> FALSE]
                      /\ prs[run.branch].linked /\ ~prs[run.branch].draft /\ prs[run.branch].closes
    OBVIOUS
  <2>1. run.pc = "over" /\ run # Idle
    BY DEF HandOver, At, Idle
  <2>2. run.seen \in [ref : Ref \cup {NoRef}, dirty : BOOLEAN]
    BY <2>1, RunFields DEF WInv
  <2>3. run.seen.ref = remote[run.branch] /\ ~run.seen.dirty
    BY <2>1 DEF WInv, Verified
  <2>4. prs[run.branch].linked /\ ~prs[run.branch].draft /\ prs[run.branch].closes
    BY <2>1 DEF WInv, Verified, Settled
  <2> QED
    BY <2>2, <2>3, <2>4
<1>2. WInv /\ [Next]_vars =>
        [HandOver /\ ~run.touched =>
           /\ run.seen = [ref |-> remote[run.branch], dirty |-> FALSE]
           /\ prs[run.branch].linked /\ ~prs[run.branch].draft /\ prs[run.branch].closes]_vars
  BY <1>1
<1> QED
  BY <1>2, WorkspacesInvariant, PTL DEF Spec, HandedOverIsVerified

\* No step of the loop changes the remote branch or the pull request of another
\* issue, whichever worktrees, records, hints and pull requests lead it there
\* (lanes/main_loop/handoff.rs:347, handoff.rs:659).
THEOREM ForeignBranchesAreSafe == Spec => ForeignBranchIsSafe
<1>1. WInv /\ LoopStep => UNCHANGED <<remote["foreign"], prs["foreign"]>>
  <2> SUFFICES ASSUME WInv, LoopStep PROVE UNCHANGED <<remote["foreign"], prs["foreign"]>>
    OBVIOUS
  <2> USE DEF At
  <2>1. /\ remote \in [Branches -> Ref \cup {NoRef}] /\ prs \in [Branches -> Pr \cup {NoPr}]
        /\ "foreign" \in Branches /\ "integration" \in Branches
    BY DEF WInv, Typed, TypeOK, Branches
  <2>2. CASE PushParent
    BY <2>1, <2>2 DEF PushParent
  <2>3. CASE Push \/ Publish \/ Link \/ Ready
    <3>1. run.branch \in Branches \ {"foreign"}
      BY <2>3, RunFields DEF WInv, Settled, Push, Publish, Link, Ready
    <3> QED
      BY <2>1, <2>3, <3>1 DEF Push, Publish, Link, Ready
  <2>4. CASE UNCHANGED <<remote, prs>>
    BY <2>4
  <2> QED
    BY <2>2, <2>3, <2>4 DEF LoopStep, Begin, LoopRefresh, Refreshed, Plan, Preflight, Prepare,
      Claim, Own, Agent, Gone, Commit, Verify, Check, HandOver, Failed, git
<1>2. WInv /\ [Next]_vars => [LoopStep => UNCHANGED <<remote["foreign"], prs["foreign"]>>]_vars
  BY <1>1
<1> QED
  BY <1>2, WorkspacesInvariant, PTL DEF Spec, ForeignBranchIsSafe

\* A branch the loop creates starts from the base branch as the remote had it
\* when the iteration began, or newer, however the loop, the workspace command
\* and people use the canonical checkout (canonical_checkout.rs:271,
\* git_handoff.rs:181).
THEOREM StartsAreFresh == Spec => FreshStart
<1>1. WInv /\ Prepare /\ host.role # "sub" =>
        \A b \in Branches : local[b] = NoRef /\ local'[b] # NoRef => local'[b].from >= run.since
  <2> SUFFICES ASSUME WInv, Prepare, host.role # "sub", NEW c \in Branches,
                      local[c] = NoRef, local'[c] # NoRef
               PROVE  local'[c].from >= run.since
    OBVIOUS
  <2>1. PICK b \in Branches : b = run.branch
    BY PrepareShape DEF WInv
  <2>2. WithParent = local /\ local \in [Branches -> Ref \cup {NoRef}]
    BY DEF WithParent, WInv, Typed, TypeOK
  <2>3. PICK new : new = [from |-> base.head, work |-> 0, line |-> "here"]
    OBVIOUS
  <2>4. [BaseRef(local) EXCEPT !.work = 0] = new
    BY <2>3 DEF BaseRef
  <2>5. local' = local \/ local' = WithBranch(local, b)
    BY <2>1, <2>2, PrepareShape DEF WInv
  <2>6. local' = local \/ local' = [local EXCEPT ![b] = new]
    BY <2>4, <2>5 DEF WithBranch
  <2>7. local'[c].from = base.head
    BY <2>2, <2>3, <2>6
  <2>8. run.since <= base.head
    BY DEF WInv, Fresh, Prepare, At, Idle
  <2>9. base.head \in Nat /\ run.since \in Nat
    BY RunFields, CountersTyped DEF WInv, Typed, TypeOK, Base, Prepare, At
  <2> QED
    BY <2>7, <2>8, <2>9
<1>2. WInv /\ [Next]_vars =>
        [Prepare /\ host.role # "sub" =>
           \A b \in Branches : local[b] = NoRef /\ local'[b] # NoRef => local'[b].from >= run.since]_vars
  BY <1>1
<1> QED
  BY <1>2, WorkspacesInvariant, PTL DEF Spec, FreshStart
=============================================================================

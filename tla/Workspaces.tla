------------------------------ MODULE Workspaces ------------------------------
(***************************************************************************)
(* The worktrees, branches and pull requests of one issue, on a GitHub      *)
(* project.  The Main loop (with --recover) refreshes the canonical         *)
(* checkout, plans a branch, finds or makes a worktree, lets an agent work  *)
(* in it, and then commits, verifies, pushes and hands over a pull request. *)
(* Each git or gh command is a step.  Workspace commands and people use the *)
(* same repository without any lock.                                        *)
(*                                                                          *)
(* "own" is the path the plan derives from issue number and title; "extra"  *)
(* is a path that only contains the words of the title.  The branch "issue" *)
(* is the planned one, "topic" names no issue, "foreign" names another one. *)
(* The last step of a hand-off is one step here; MainLane takes it apart.   *)
(***************************************************************************)
EXTENDS CanonicalCheckout, FiniteSets

CONSTANTS
  Cases,      \* backends, places of the issue among sub-issues and what came before
  MaxTurns,   \* agent.max_turns
  MaxWork,    \* bound on commits of a branch
  MaxFaults,  \* bound on failures and crashes
  MaxEdits    \* bound on commands and edits from outside

ASSUME WorkspacesAssumption ==
  /\ Procs = {"loop", "cmd"}
  /\ Cases \subseteq [backend : {"codex", "claude"}, role : {"single", "sub", "parent"},
                      past : {"none", "topic", "foreign", "done"}]
  /\ {MaxBase, MaxTurns, MaxWork} \subseteq Nat \ {0} /\ {MaxFaults, MaxEdits} \subseteq Nat

VARIABLES
  host,     \* the backend of this host and the issue's role
  issue,    \* tracker state and the workpad's mention of paths
  wt,       \* per path, the worktree as directory and as git's registration
  local,    \* per branch, the commits of the local branch
  remote,   \* per branch, the commits of the remote branch
  prs,      \* per head branch, its pull request
  rec,      \* the session record of the issue
  store,    \* the runtime state of the issue
  run,      \* the loop's run
  orphan,   \* the path an agent of a crashed loop still writes to
  cmd,      \* the workspace command
  faults, edits

git == <<wt, local, remote, prs>>
known == <<issue, rec, store>>
budgets == <<faults, edits>>
vars == <<checkoutVars, host, git, known, run, orphan, cmd, budgets>>

-----------------------------------------------------------------------------
(* State *)

Paths == {"own", "extra"}
Branches == {"issue", "topic", "foreign", "integration"}
States == {"Todo", "InProgress", "Rework", "AgentReview", "NeedHumanInput", "Done"}

\* A branch: the base revision it starts from and the commits on top, of this
\* host's making or fetched from an earlier pull request.
NoRef == [work |-> 0]
Ref == [from : 0..MaxBase, work : 0..MaxWork, line : {"here", "fetched"}]
NoPr == [open |-> FALSE]
Pr == [open : BOOLEAN, draft : BOOLEAN, linked : BOOLEAN, closes : BOOLEAN]
NoTree == [there |-> FALSE, reg |-> FALSE, on |-> "detached", dirty |-> FALSE]
Tree == [there : BOOLEAN, reg : BOOLEAN, on : Branches \cup {"detached"}, dirty : BOOLEAN]
NoRec == [path |-> "none"]
NoStore == [event |-> "none"]
Idle == [pc |-> "idle"]
Steps_ == {"refresh", "plan", "preflight", "prepare", "claim", "own", "work", "commit", "verify",
           "check", "parent", "push", "publish", "link", "ready", "over", "failed"}

\* What git does in a worktree.
Head(p) == IF wt[p].on = "detached" THEN NoRef ELSE local[wt[p].on]
Contents(p) == [ref |-> Head(p), dirty |-> wt[p].dirty]
CheckedOut(b) == \E p \in Paths : wt[p].reg /\ wt[p].on = b

\* Type invariant: branches, worktrees, pull requests and the run have their
\* shape.
TypeOK ==
  /\ base \in Base /\ checkout \in Checkout /\ refresh \in [Procs -> Steps]
  /\ host \in [backend : {"codex", "claude"}, role : {"single", "sub", "parent"}]
  /\ issue \in [state : States, hints : SUBSET Paths, strong : BOOLEAN]
  /\ wt \in [Paths -> Tree]
  /\ local \in [Branches -> Ref \cup {NoRef}] /\ remote \in [Branches -> Ref \cup {NoRef}]
  /\ prs \in [Branches -> Pr \cup {NoPr}]
  /\ rec \in [path : Paths, branch : Branches \cup {"detached"}] \cup {NoRec}
  /\ store \in [event : {"Claimed", "Resumed", "Failed"}, attempt : 1..MaxTurns,
                path : Paths \cup {"none"}] \cup {NoStore}
  /\ run = Idle \/ run.pc \in Steps_
  /\ orphan \in Paths \cup {"none"}
  /\ faults \in 0..MaxFaults /\ edits \in 0..MaxEdits

\* An earlier hand-off left a pull request, whose branch only the remote has,
\* or the issue is done and its worktree still there.
Init ==
  /\ CheckoutInit
  /\ \E case \in Cases :
       LET past == case.past
           head == IF past = "done" THEN "issue" ELSE past
           ref(line) == [b \in Branches |-> IF b = head THEN [from |-> 0, work |-> 1, line |-> line]
                                            ELSE NoRef]
       IN /\ host = [backend |-> case.backend, role |-> case.role]
          /\ issue = [state |-> IF past = "none" THEN "Todo"
                               ELSE IF past = "done" THEN "Done" ELSE "Rework",
                      hints |-> IF past = "done" THEN {"own"} ELSE {}, strong |-> FALSE]
          /\ remote = ref(IF past = "done" THEN "here" ELSE "fetched")
          /\ local = IF past = "done" THEN ref("here") ELSE [b \in Branches |-> NoRef]
          /\ wt = [p \in Paths |->
                     IF past = "done" /\ p = "own"
                     THEN [there |-> TRUE, reg |-> TRUE, on |-> "issue", dirty |-> FALSE] ELSE NoTree]
          /\ prs = [b \in Branches |->
                      IF b = head THEN [open |-> past # "done", draft |-> FALSE, linked |-> TRUE,
                                        closes |-> TRUE]
                      ELSE NoPr]
  /\ rec = NoRec /\ store = NoStore /\ run = Idle /\ orphan = "none"
  /\ cmd = Idle /\ faults = 0 /\ edits = 0

At(pc) == run.pc = pc
Goto(pc) == run' = [run EXCEPT !.pc = pc]
Fault == faults < MaxFaults /\ faults' = faults + 1

-----------------------------------------------------------------------------
(* Planning *)

\* The issue a branch names; the integration branch of a sub-issue names the
\* parent.
IssueOf(b) ==
  IF b = "issue" \/ (b = "integration" /\ host.role = "parent") THEN "this"
  ELSE IF b = "topic" THEN "none" ELSE "other"

Linked == {b \in Branches : prs[b] # NoPr /\ prs[b].linked}
Open(S) == {b \in S : prs[b].open}

PlannedBranch == IF host.role = "parent" THEN "integration" ELSE "issue"

\* Rework continues the one open pull request, whose branch must not name
\* another issue; "bad" is a plan that cannot be made.
PlanBranch(state) ==
  IF state # "Rework" \/ Linked = {} THEN PlannedBranch
  ELSE IF Cardinality(Open(Linked)) # 1 THEN "bad"
  ELSE LET head == CHOOSE b \in Open(Linked) : TRUE IN
       IF IssueOf(head) = "other" THEN "bad" ELSE head

\* Discovery.  A worktree counts by its path or its branch, a session record
\* and an adopted path in the workpad count without one.
StronglyNamed(p) == p = "own" \/ IssueOf(wt[p].on) = "this" \/ wt[p].on \in Linked
Candidates == {p \in Paths : rec.path = p \/ p \in issue.hints \/ wt[p].reg}
Strong == {p \in Candidates : \/ rec.path = p
                              \/ p \in issue.hints /\ issue.strong
                              \/ wt[p].reg /\ StronglyNamed(p)}

\* The branch of a session record goes before the one git reports.
CandidateBranch(p) ==
  IF rec.path = p THEN rec.branch ELSE IF wt[p].reg THEN wt[p].on ELSE "detached"

Sole(S) == CHOOSE p \in S : TRUE
Canonical ==
  IF Cardinality(Strong) = 1 THEN Sole(Strong)
  ELSE IF Strong = {} /\ Cardinality(Candidates) = 1 THEN Sole(Candidates) ELSE "none"

\* Mutant of BelongsTo: any worktree that was found is used.
MutBelongsToAny(p, b, planned) == TRUE

\* The branch, or else the path, names the issue; or the plan asks for it.
BelongsTo(p, b, planned) ==
  \/ b = planned
  \/ IssueOf(b) = "this"
  \/ IssueOf(b) = "none" /\ p = "own"

-----------------------------------------------------------------------------
(* One iteration of the loop, up to the claim *)

Begin ==
  /\ At("idle") /\ Refreshing("loop", "idle")
  /\ \/ issue.state \in {"Todo", "Rework"}
     \/ issue.state = "InProgress" /\ store # NoStore
  /\ run' = [pc |-> "refresh", since |-> base.remote, path |-> "own",
             branch |-> "none", touched |-> FALSE, event |-> "Claimed",
             seen |-> [ref |-> NoRef, dirty |-> FALSE]]
  /\ UNCHANGED <<checkoutVars, host, git, known, orphan, cmd, budgets>>

LoopRefresh ==
  /\ At("refresh") /\ RefreshStep("loop")
  /\ UNCHANGED <<host, git, known, run, orphan, cmd, budgets>>

LoopRefreshFails ==
  /\ At("refresh") /\ RefreshFails("loop") /\ Fault
  /\ UNCHANGED <<host, git, known, run, orphan, cmd, edits>>

\* The resume preflight: the state of an issue that is not In Progress is
\* archived, unless its worktree is dirty, which stops the loop.
StaleAndDirty ==
  /\ store # NoStore /\ issue.state # "InProgress"
  /\ store.path # "none" /\ wt[store.path].there /\ wt[store.path].dirty

Refreshed ==
  /\ At("refresh") /\ refresh["loop"] \in {"fresh", "blocked"}
  /\ IF Refreshing("loop", "fresh") /\ ~StaleAndDirty
     THEN /\ Goto("plan")
          /\ store' = IF issue.state = "InProgress" THEN store ELSE NoStore
     ELSE run' = Idle /\ UNCHANGED store
  /\ Then("loop", "idle")
  /\ UNCHANGED <<base, checkout, host, git, issue, rec, orphan, cmd, budgets>>

\* The iteration ends with an error and leaves the tracker as it is.
LoopError == run' = Idle /\ UNCHANGED <<issue, store>>

\* Mutant of Blocked: what cannot be launched is only logged.
MutBlockedQuietly == run' = Idle /\ UNCHANGED <<issue, store>>

\* handle_run_loop_handoff_failure.  The runtime state stays.
Blocked ==
  /\ run' = Idle
  /\ issue' = [issue EXCEPT !.state = "NeedHumanInput"]
  /\ UNCHANGED store

Plan ==
  /\ At("plan")
  /\ LET b == PlanBranch(issue.state)
         reuse == issue.state = "Rework" /\ Canonical # "none" /\ CandidateBranch(Canonical) = b
     IN IF issue.state \notin {"Todo", "Rework", "InProgress"} THEN LoopError
        ELSE IF b = "bad" THEN Blocked
        ELSE /\ run' = [run EXCEPT !.pc = "preflight", !.branch = b,
                                   !.path = IF reuse THEN Canonical ELSE "own"]
             /\ UNCHANGED <<issue, store>>
  /\ UNCHANGED <<checkoutVars, host, git, rec, orphan, cmd, budgets>>

\* run_loop_apply_recovery_handoff, only for states of a resumed run.
Recovers == store # NoStore /\ store.event = "Resumed"

\* The preflight proper: of what was found the one that exists.
Launch(mode, planned) ==
  LET live == {p \in Candidates : wt[p].there}
      strong == live \cap Strong
      pool == IF strong # {} THEN strong ELSE live
      p == Sole(pool)
      b == CandidateBranch(p)
  IN IF Cardinality(pool) > 1 THEN Blocked
     ELSE IF pool = {} THEN /\ run' = [run EXCEPT !.pc = "prepare", !.path = planned.path,
                                                  !.branch = planned.branch]
                            /\ UNCHANGED <<issue, store>>
     ELSE IF \/ b = "detached" \/ ~BelongsTo(p, b, planned.branch)
             \/ mode = "fresh" /\ wt[p].dirty
     THEN Blocked
     ELSE run' = [run EXCEPT !.pc = "prepare", !.path = p, !.branch = b] /\ UNCHANGED <<issue, store>>

Preflight ==
  /\ At("preflight")
  /\ LET plan(p, b) == [path |-> p, branch |-> b]
         stored == IF Recovers THEN store.path ELSE "none"
     IN IF ~Recovers THEN Launch("fresh", plan(run.path, run.branch))
        ELSE IF stored # "none" /\ ~wt[stored].there THEN LoopError
        ELSE IF stored # "none" /\ wt[stored].on # "detached"
        THEN IF BelongsTo(stored, wt[stored].on, run.branch)
             THEN Launch("recovery", plan(stored, wt[stored].on)) ELSE LoopError
        ELSE IF Canonical = "none" \/ CandidateBranch(Canonical) = "detached"
        THEN Launch("fresh", plan(run.path, run.branch))
        ELSE IF BelongsTo(Canonical, CandidateBranch(Canonical), run.branch)
        THEN Launch("recovery", plan(Canonical, CandidateBranch(Canonical))) ELSE LoopError
  /\ UNCHANGED <<checkoutVars, host, git, rec, orphan, cmd, budgets>>

\* `git worktree add' of an existing or a new branch.  It refuses a path that
\* is registered though gone, and a branch that another worktree has.
CanAdd(p, b) == ~wt[p].reg /\ ~CheckedOut(b)
Added(p, b) == [wt EXCEPT ![p] = [there |-> TRUE, reg |-> TRUE, on |-> b, dirty |-> FALSE]]

\* The pull request's base branch, in the local repository.
BaseRef(refs) ==
  IF host.role = "sub" THEN refs["integration"] ELSE [from |-> base.head, work |-> 0, line |-> "here"]

\* The integration branch of a sub-issue is made from the base branch once.
WithParent ==
  IF host.role = "sub" /\ local["integration"] = NoRef
  THEN [local EXCEPT !["integration"] = [from |-> base.head, work |-> 0, line |-> "here"]]
  ELSE local

WithBranch(refs, b) ==
  IF refs[b] # NoRef THEN refs ELSE [refs EXCEPT ![b] = [BaseRef(refs) EXCEPT !.work = 0]]

Prepare ==
  /\ At("prepare")
  /\ LET p == run.path  b == run.branch IN
     IF wt[p].there
     THEN /\ IF wt[p].on = b THEN Goto("claim") ELSE run' = Idle
          /\ UNCHANGED <<wt, local>>
     ELSE IF CanAdd(p, b)
     THEN Goto("claim") /\ wt' = Added(p, b) /\ local' = WithBranch(WithParent, b)
     ELSE run' = Idle /\ local' = WithParent /\ UNCHANGED wt
  /\ UNCHANGED <<checkoutVars, host, remote, prs, known, orphan, cmd, budgets>>

\* The tracker is read again; the claim takes the issue In Progress.
Claim ==
  /\ At("claim")
  /\ IF issue.state \notin {"Todo", "Rework", "InProgress"} THEN LoopError
     ELSE /\ run' = [run EXCEPT !.pc = "own", !.event = IF issue.state = "InProgress"
                                                       THEN "Resumed" ELSE "Claimed"]
          /\ issue' = [issue EXCEPT !.state = "InProgress"]
          /\ UNCHANGED store
  /\ UNCHANGED <<checkoutVars, host, git, rec, orphan, cmd, budgets>>

\* The runtime state is saved, and the agent is started.
Own ==
  /\ At("own") /\ Goto("work")
  /\ store' = [event |-> run.event,
               attempt |-> IF store = NoStore THEN 1
                           ELSE IF store.attempt = MaxTurns THEN MaxTurns
                           ELSE store.attempt + 1,
               path |-> IF store = NoStore THEN "none" ELSE store.path]
  /\ rec' = IF host.backend = "claude"
            THEN [path |-> run.path, branch |-> wt[run.path].on] ELSE rec
  /\ UNCHANGED <<checkoutVars, host, git, issue, orphan, cmd, budgets>>

-----------------------------------------------------------------------------
(* The agent and the hand-off *)

Writes(p, how) ==
  /\ wt[p].there
  /\ \/ how = "nothing" /\ UNCHANGED <<wt, local>>
     \/ how = "dirty" /\ wt' = [wt EXCEPT ![p].dirty = TRUE] /\ UNCHANGED local
     \/ /\ how = "commit" /\ host.backend = "claude"
        /\ wt[p].on # "detached" /\ local[wt[p].on].work < MaxWork
        /\ local' = [local EXCEPT ![wt[p].on].work = @ + 1] /\ UNCHANGED wt

Agent(how) ==
  /\ At("work") /\ Writes(run.path, how)
  /\ Goto(IF host.backend = "codex" THEN "commit" ELSE "verify")
  /\ UNCHANGED <<checkoutVars, host, remote, prs, known, orphan, cmd, budgets>>

AgentFails(how) ==
  /\ At("work") /\ Writes(run.path, how) /\ Fault /\ Goto("failed")
  /\ UNCHANGED <<checkoutVars, host, remote, prs, known, orphan, cmd, edits>>

\* Every command runs in the worktree and fails when the directory is gone.
Gone ==
  /\ run.pc \in {"work", "commit", "verify", "check", "parent", "push", "publish", "ready"}
  /\ ~wt[run.path].there /\ Goto("failed")
  /\ UNCHANGED <<checkoutVars, host, git, known, orphan, cmd, budgets>>

In == wt[run.path].there

\* commit_issue_worktree_changes: the loop commits for codex.
Commit ==
  /\ At("commit") /\ In /\ Goto("verify")
  /\ IF wt[run.path].dirty
     THEN /\ wt' = [wt EXCEPT ![run.path].dirty = FALSE]
          /\ IF wt[run.path].on = "detached" THEN UNCHANGED local
             ELSE /\ local[wt[run.path].on].work < MaxWork
                  /\ local' = [local EXCEPT ![wt[run.path].on].work = @ + 1]
     ELSE UNCHANGED <<wt, local>>
  /\ UNCHANGED <<checkoutVars, host, remote, prs, known, orphan, cmd, budgets>>

\* The verification commands see the directory as it is, and may leave files.
Verify ==
  /\ At("verify") /\ In
  /\ run' = [run EXCEPT !.pc = "check", !.seen = Contents(run.path)]
  /\ UNCHANGED <<checkoutVars, host, git, known, orphan, cmd, budgets>>

VerifyLeavesFiles ==
  /\ At("verify") /\ In /\ Fault
  /\ run' = [run EXCEPT !.pc = "check", !.seen = Contents(run.path)]
  /\ wt' = [wt EXCEPT ![run.path].dirty = TRUE]
  /\ UNCHANGED <<checkoutVars, host, local, remote, prs, known, orphan, cmd, edits>>

\* Mutant of Publishable: uncommitted changes do not matter.
MutPublishableDirty == Head(run.path).work > 0

\* ensure_publishable_branch: a clean tree and commits ahead of the base.
Publishable == ~wt[run.path].dirty /\ Head(run.path).work > 0

Check ==
  /\ At("check") /\ In
  /\ Goto(IF Publishable THEN "parent" ELSE "failed")
  /\ UNCHANGED <<checkoutVars, host, git, known, orphan, cmd, budgets>>

PushParent ==
  /\ At("parent") /\ In
  /\ IF host.role # "sub" \/ remote["integration"] # NoRef THEN Goto("push") /\ UNCHANGED remote
     ELSE IF local["integration"] = NoRef THEN Goto("failed") /\ UNCHANGED remote
     ELSE Goto("push") /\ remote' = [remote EXCEPT !["integration"] = local["integration"]]
  /\ UNCHANGED <<checkoutVars, host, wt, local, prs, known, orphan, cmd, budgets>>

\* A push that would drop commits of the remote branch is refused.
FastForward(new, old) == old = NoRef \/ (new.line = old.line /\ new.work >= old.work)

Push ==
  /\ At("push") /\ In
  /\ LET b == run.branch IN
     IF local[b] = NoRef \/ ~FastForward(local[b], remote[b])
     THEN Goto("failed") /\ UNCHANGED remote
     ELSE Goto("publish") /\ remote' = [remote EXCEPT ![b] = local[b]]
  /\ UNCHANGED <<checkoutVars, host, wt, local, prs, known, orphan, cmd, budgets>>

\* `gh pr view' finds a pull request of the branch, open or closed; its body
\* is made to close the issue.  Otherwise one is created.
Publish ==
  /\ At("publish") /\ In /\ Goto("link")
  /\ prs' = [prs EXCEPT ![run.branch] =
               IF @ # NoPr THEN [@ EXCEPT !.closes = TRUE]
               ELSE [open |-> TRUE, draft |-> FALSE, linked |-> FALSE, closes |-> TRUE]]
  /\ UNCHANGED <<checkoutVars, host, wt, local, remote, known, orphan, cmd, budgets>>

Link ==
  /\ At("link") /\ Goto("ready")
  /\ prs' = [prs EXCEPT ![run.branch].linked = TRUE]
  /\ UNCHANGED <<checkoutVars, host, wt, local, remote, known, orphan, cmd, budgets>>

Ready ==
  /\ At("ready") /\ In /\ Goto("over")
  /\ prs' = [prs EXCEPT ![run.branch].draft = FALSE]
  /\ UNCHANGED <<checkoutVars, host, wt, local, remote, known, orphan, cmd, budgets>>

\* A command of the hand-off fails: git or gh, the verification, the tracker.
StepFails ==
  /\ run.pc \in {"commit", "verify", "parent", "push", "publish", "link", "ready"}
  /\ Fault /\ Goto("failed")
  /\ UNCHANGED <<checkoutVars, host, git, known, orphan, cmd, edits>>

Noted == [issue EXCEPT !.hints = @ \cup {run.path}]

HandOver ==
  /\ At("over") /\ run' = Idle
  /\ issue' = [Noted EXCEPT !.state = "AgentReview"]
  /\ store' = NoStore
  /\ UNCHANGED <<checkoutVars, host, git, rec, orphan, cmd, budgets>>

\* complete_failed_run: another attempt, or a person.
Failed ==
  /\ At("failed") /\ run' = Idle
  /\ IF store # NoStore /\ store.attempt < MaxTurns
     THEN /\ store' = [store EXCEPT !.event = "Failed", !.path = run.path]
          /\ issue' = Noted
     ELSE store' = NoStore /\ issue' = [Noted EXCEPT !.state = "NeedHumanInput"]
  /\ UNCHANGED <<checkoutVars, host, git, rec, orphan, cmd, budgets>>

\* The loop dies; the agent it was waiting for may live on.
Crash ==
  /\ ~At("idle") /\ Fault
  /\ run' = Idle /\ orphan' = (IF At("work") THEN run.path ELSE orphan)
  /\ Then("loop", "idle")
  /\ UNCHANGED <<base, checkout, host, git, known, cmd, edits>>

\* The run is told apart from what others do to its worktree meanwhile.
Touch(p) == run' = IF run # Idle /\ run.path = p THEN [run EXCEPT !.touched = TRUE] ELSE run

OrphanWrites(how) ==
  /\ orphan # "none" /\ Writes(orphan, how) /\ Touch(orphan)
  /\ orphan' = "none"
  /\ UNCHANGED <<checkoutVars, host, remote, prs, known, cmd, budgets>>

-----------------------------------------------------------------------------
(* Workspace commands *)

Edit == edits < MaxEdits /\ edits' = edits + 1

StartCommand(what) ==
  /\ cmd = Idle /\ Edit
  /\ \/ what = "ensure" /\ cmd' = [pc |-> "refresh"]
     \/ what = "clean" /\ issue.state = "Done" /\ wt["own"].there /\ cmd' = [pc |-> "remove"]
  /\ UNCHANGED <<checkoutVars, host, git, known, run, orphan, faults>>

\* workspace adopt: a registered worktree on a branch of the issue.
StartAdopt(p) ==
  /\ cmd = Idle /\ Edit
  /\ wt[p].reg /\ wt[p].on # "detached" /\ (IssueOf(wt[p].on) = "this" \/ wt[p].on \in Linked)
  /\ cmd' = [pc |-> "note", path |-> p]
  /\ UNCHANGED <<checkoutVars, host, git, known, run, orphan, faults>>

CommandRefresh ==
  /\ cmd # Idle /\ cmd.pc = "refresh"
  /\ IF refresh["cmd"] \in {"fresh", "blocked"}
     THEN /\ cmd' = IF Refreshing("cmd", "fresh") THEN [pc |-> "ensure"] ELSE Idle
          /\ Then("cmd", "idle") /\ UNCHANGED <<base, checkout>>
     ELSE RefreshStep("cmd") /\ UNCHANGED cmd
  /\ UNCHANGED <<host, git, known, run, orphan, budgets>>

\* workspace ensure reuses a clean candidate or makes the worktree, of the
\* head of the only linked pull request (fetched when it is not local) or
\* else of the planned branch.
EnsureBranch == IF Cardinality(Linked) = 1 THEN Sole(Linked) ELSE PlanBranch(issue.state)

WithFetched(b) ==
  IF local[b] # NoRef THEN local
  ELSE IF Cardinality(Linked) = 1 THEN [local EXCEPT ![b] = remote[Sole(Linked)]]
  ELSE [local EXCEPT ![b] = BaseRef(local)]

Ensure ==
  /\ cmd.pc = "ensure"
  /\ LET b == EnsureBranch
         add == CanAdd("own", b) /\ ~(host.role = "sub" /\ local["integration"] = NoRef /\ Linked = {})
         stop == cmd' = Idle /\ UNCHANGED <<wt, local>>
         clean(p) == wt[p].there /\ ~wt[p].dirty /\ CandidateBranch(p) # "detached"
     IN IF Cardinality(Strong) > 1 THEN stop
        ELSE IF Canonical # "none"
        THEN IF clean(Canonical)
             THEN cmd' = [pc |-> "note", path |-> Canonical] /\ UNCHANGED <<wt, local>> ELSE stop
        ELSE IF PlanBranch(issue.state) = "bad" \/ Cardinality(Linked) > 1 \/ wt["own"].there \/ ~add
        THEN stop
        ELSE /\ local' = WithFetched(b) /\ wt' = Added("own", b)
             /\ cmd' = IF IssueOf(b) = "this" \/ b \in Linked
                       THEN [pc |-> "note", path |-> "own"] ELSE Idle
  /\ UNCHANGED <<checkoutVars, host, remote, prs, known, run, orphan, budgets>>

\* The workpad names the path, and from now on every path in it is strong.
Note ==
  /\ cmd.pc = "note" /\ cmd' = Idle
  /\ issue' = [issue EXCEPT !.hints = @ \cup {cmd.path}, !.strong = TRUE]
  /\ UNCHANGED <<checkoutVars, host, git, rec, store, run, orphan, budgets>>

\* cleanup_workspaces removes the directory it listed; git is not told.
Remove ==
  /\ cmd.pc = "remove" /\ cmd' = Idle
  /\ wt' = [wt EXCEPT !["own"].there = FALSE, !["own"].dirty = FALSE]
  /\ Touch("own")
  /\ UNCHANGED <<checkoutVars, host, local, remote, prs, known, orphan, budgets>>

-----------------------------------------------------------------------------
(* People *)

\* Review sends an issue back or finishes it; a person answers.
MoveIssue(to) ==
  /\ Edit
  /\ \/ issue.state = "AgentReview" /\ to \in {"Rework", "Done"}
     \/ issue.state = "NeedHumanInput" /\ to \in {"Todo", "Rework"}
     \/ issue.state = "Done" /\ to = "Todo"
  /\ issue' = [issue EXCEPT !.state = to]
  /\ UNCHANGED <<checkoutVars, host, git, rec, store, run, orphan, cmd, faults>>

\* Somebody works in a worktree: another branch, changed files, or a second
\* worktree.
EditTree(p) ==
  /\ Edit /\ Touch(p) /\ wt[p].reg = wt[p].there
  /\ \/ \E b \in {"topic", "foreign"} :
          /\ ~CheckedOut(b)
          /\ wt' = [wt EXCEPT ![p] = [there |-> TRUE, reg |-> TRUE, on |-> b, dirty |-> @.dirty]]
          /\ local' = IF local[b] = NoRef
                      THEN [local EXCEPT ![b] = [from |-> base.head, work |-> 1, line |-> "here"]]
                      ELSE local
     \/ wt[p].there /\ wt' = [wt EXCEPT ![p].on = "detached"] /\ UNCHANGED local
     \/ wt[p].there /\ wt' = [wt EXCEPT ![p].dirty = TRUE] /\ UNCHANGED local
  /\ UNCHANGED <<checkoutVars, host, remote, prs, known, orphan, cmd, faults>>

EditPr(b) ==
  /\ Edit /\ prs[b] # NoPr
  /\ \/ prs' = [prs EXCEPT ![b].open = FALSE]
     \/ prs' = [prs EXCEPT ![b].draft = TRUE]
  /\ run' = IF run = Idle THEN run ELSE [run EXCEPT !.touched = TRUE]
  /\ UNCHANGED <<checkoutVars, host, wt, local, remote, known, orphan, cmd, faults>>

EditCheckout ==
  /\ Edit /\ PersonEdits
  /\ UNCHANGED <<host, git, known, run, orphan, cmd, faults>>

OthersMerge ==
  /\ Edit /\ RemoteMoves
  /\ UNCHANGED <<host, git, known, run, orphan, cmd, faults>>

-----------------------------------------------------------------------------
(* Specification *)

LoopStep ==
  \/ Begin \/ LoopRefresh \/ Refreshed \/ Plan \/ Preflight \/ Prepare \/ Claim \/ Own
  \/ \E how \in {"nothing", "dirty", "commit"} : Agent(how)
  \/ Gone \/ Commit \/ Verify \/ Check \/ PushParent \/ Push \/ Publish \/ Link \/ Ready
  \/ HandOver \/ Failed

CommandStep == CommandRefresh \/ Ensure \/ Note \/ Remove

Next ==
  \/ LoopStep \/ CommandStep
  \/ LoopRefreshFails \/ VerifyLeavesFiles \/ StepFails \/ Crash
  \/ \E how \in {"nothing", "dirty", "commit"} : AgentFails(how) \/ OrphanWrites(how)
  \/ \E what \in {"ensure", "clean"} : StartCommand(what)
  \/ \E p \in Paths : StartAdopt(p) \/ EditTree(p)
  \/ \E to \in States : MoveIssue(to)
  \/ \E b \in Branches : EditPr(b)
  \/ EditCheckout \/ OthersMerge

\* The loop is restarted by its supervisor and goes on; the commands and
\* people owe nothing.
Spec == Init /\ [][Next]_vars /\ WF_vars(LoopStep)

-----------------------------------------------------------------------------
(* Properties *)

\* What reaches Agent Review is what the verification saw: the pull request
\* is linked, ready and closes the issue, and its remote branch holds just
\* the commits that were in the worktree when the commands of
\* run_handoff_verification ran -- after crashes, failed attempts, recovered
\* and adopted worktrees, unless somebody else wrote to the worktree or the
\* pull request during the run (live_handoff.rs:30-170).
HandedOverIsVerified ==
  [][HandOver /\ ~run.touched =>
       /\ run.seen = [ref |-> remote[run.branch], dirty |-> FALSE]
       /\ prs[run.branch].linked /\ ~prs[run.branch].draft /\ prs[run.branch].closes]_vars

\* The loop never writes to a branch that names another issue, whichever
\* worktrees, records, hints and pull requests lead it there: that branch is
\* not pushed and its pull request not touched (lanes/main_loop/handoff.rs:347,
\* handoff.rs:659).
ForeignBranchIsSafe ==
  [][LoopStep => UNCHANGED <<remote["foreign"], prs["foreign"]>>]_vars

\* A branch the loop creates for an issue of its own starts from the base
\* branch as the remote had it when the iteration began, or newer: the
\* refresh of the canonical checkout is not skipped, not overtaken and not
\* undone (canonical_checkout.rs:271, git_handoff.rs:181).
FreshStart ==
  [][Prepare /\ host.role # "sub" =>
       \A b \in Branches : local[b] = NoRef /\ local'[b] # NoRef => local'[b].from >= run.since]_vars

\* The loop died between the move to In Progress and the save of the runtime
\* state: nobody takes the issue up.
Stranded == At("idle") /\ issue.state = "InProgress" /\ store = NoStore

\* An issue In Progress does not stay there: a dirty or ambiguous worktree, a
\* refused push, or a crash once its runtime state is saved, ends in another
\* attempt and these in Agent Review or with a person.  What may keep it there
\* is a crash before that save (write_candidate.rs 338, 475), somebody's
\* interference, or a check that bars the loop from it, which is MainLane's
\* matter (lanes/main_loop/failure.rs:52).
InProgressEnds ==
  (issue.state = "InProgress" /\ edits = 0)
     ~> (issue.state # "InProgress" \/ edits > 0 \/ Stranded)
=============================================================================

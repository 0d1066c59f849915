------------------------------ MODULE IssueForge ------------------------------
(***************************************************************************)
(* The tracker commands that write issues: forge create, promote and       *)
(* rework (src/commands/forge), the quality gate command, the direct       *)
(* project writes, the doctor's repairs and the completion of a merged     *)
(* issue, each a script of tracker calls that a fault or a crash may cut   *)
(* short anywhere, run one after the other or at the same time.            *)
(***************************************************************************)
EXTENDS Doctor, IssueGate

CONSTANTS Budgets,    \* the instances: initial issues, commands per client, faults
          Commands,   \* the commands the instances name
          GateMode    \* the configured mode of the semantic evaluator

CommandKinds == {"create", "promote", "rework", "upsert", "set state", "comment", "release",
                 "complete", "gate", "auto-fix", "repair"}

\* Commands come with what the command line gives them, on numbered issues; at the start
\* no issue is a forged one, and a status is one of the Project's.
ASSUME ForgeAssumption ==
    /\ PageSize \in Nat
    /\ \A n \in DOMAIN Commands :
          /\ n \in Nat \ {NoPlan}
          /\ Commands[n].kind \in CommandKinds
          /\ Commands[n].to \in States
          /\ Commands[n].asg \in Logins \cup {Nobody}
          /\ Commands[n].rel.blockers \in Seq(Nat)
    /\ \A b \in Budgets :
          /\ b \in [issues : {b.issues}, cmds : [Clients -> Seq(DOMAIN Commands)],
                    parallel : BOOLEAN, faults : Nat, crashes : Nat, moves : Nat,
                    ctx : {b.ctx}]
          /\ b.issues \in Seq(ToSet(b.issues))
          /\ \A i \in DOMAIN b.issues :
                /\ DOMAIN b.issues[i] = DOMAIN NewIssue(b.issues[i].title, NoPlan)
                /\ b.issues[i].plan = NoPlan
                /\ b.issues[i].comments \in Seq(ToSet(b.issues[i].comments))
                /\ b.issues[i].item \in States \cup {"none", "nostatus"}

vars == <<issues, client, budget>>

Cmd(c) == Commands[client[c].cmd]

NoRelations == [blockers |-> <<>>, parent |-> 0]

HasRelations(cmd) == cmd.rel # NoRelations

-----------------------------------------------------------------------------
(* Validation before the first write.                                      *)

\* Blockers of a plan are taken as Done: the gate does not hold them against it.
PlanIsDispatchable(cmd, assigned) ==
    LET c == [cmd.candidate EXCEPT !.assigned = assigned, !.blockersResolved = TRUE]
    IN  Dispatchable(EvaluateForCurrentSource(GateMode, TRUE, c, cmd.answer))

CreateIsValid(cmd) ==
    IF cmd.to = "Todo" THEN cmd.asg # Nobody /\ PlanIsDispatchable(cmd, TRUE)
    ELSE Dispatchable(BacklogSeed(cmd.candidate))

-----------------------------------------------------------------------------
(* Scripts.                                                                *)

RelationCalls(i, rel) ==
    [k \in DOMAIN rel.blockers |->
        Call("add relationship", i, [rel |-> "blocked by", other |-> rel.blockers[k]])]
      \o (IF rel.parent = 0 THEN <<>>
          ELSE <<Call("add relationship", i, [rel |-> "subissue of", other |-> rel.parent]),
                 Call("parent evidence", rel.parent, 0)>>)

\* Mutant of Stage: the issue enters the Project in the requested state at once.
MutStage(cmd) == cmd.to

\* With relationships to make first, an issue for Todo waits in Backlog.
Stage(cmd) == IF cmd.to = "Todo" /\ HasRelations(cmd) THEN "Backlog" ELSE cmd.to

\* Mutant of CreateScript: the issue is assigned only once it is on the Project.
MutCreateScript(n, cmd) ==
    <<Call("duplicate check", 0, cmd.title),
      Call("create", 0, [title |-> cmd.title, plan |-> n]),
      Call("add item", 0, 0),
      Call("write status", 0, [to |-> Stage(cmd), rest |-> FALSE])>>
      \o (IF cmd.asg # Nobody THEN <<Call("assign", 0, cmd.asg)>> ELSE <<>>)
      \o (IF cmd.field THEN <<Call("set field", 0, 0)>> ELSE <<>>)
      \o RelationCalls(0, cmd.rel)
      \o (IF Stage(cmd) # cmd.to THEN <<Call("set state", 0, cmd.to)>> ELSE <<>>)
      \o <<Call("require", 0, cmd.to)>>

CreateScript(n, cmd) ==
    <<Call("duplicate check", 0, cmd.title),
      Call("create", 0, [title |-> cmd.title, plan |-> n])>>
      \o (IF cmd.asg # Nobody THEN <<Call("assign", 0, cmd.asg)>> ELSE <<>>)
      \o <<Call("add item", 0, 0),
           Call("write status", 0, [to |-> Stage(cmd), rest |-> FALSE])>>
      \o (IF cmd.field THEN <<Call("set field", 0, 0)>> ELSE <<>>)
      \o RelationCalls(0, cmd.rel)
      \o (IF Stage(cmd) # cmd.to THEN <<Call("set state", 0, cmd.to)>> ELSE <<>>)
      \o <<Call("require", 0, cmd.to)>>

PromoteScript(n, cmd) ==
    <<Call("promote preflight", cmd.i, 0),
      Call("edit", cmd.i, [title |-> cmd.title, plan |-> n]),
      Call("read back title", cmd.i, cmd.title)>>
      \o RelationCalls(cmd.i, cmd.rel)
      \o <<Call("comment", cmd.i, "promotion note"),
           Call("set state", cmd.i, "Todo"),
           Call("require", cmd.i, "Todo"),
           Call("read back title", cmd.i, cmd.title)>>

ReworkScript(n, cmd) ==
    <<Call("rework preflight", cmd.i, 0),
      Call("edit", cmd.i, [title |-> cmd.title, plan |-> n]),
      Call("read back body", cmd.i, cmd.title),
      Call("comment", cmd.i, "rework note"),
      Call("set state", cmd.i, "Rework"),
      Call("require", cmd.i, "Rework")>>

\* The commands that only write: a workpad, a status, a comment or a PR link, a
\* Project field; and the merge lane's completion of an issue, Done and then closed.
DirectScript(cmd) ==
    CASE cmd.kind = "upsert"    -> <<Call("upsert", cmd.i, cmd.note)>>
      [] cmd.kind = "set state" -> <<Call("set state", cmd.i, cmd.to)>>
      [] cmd.kind = "comment"   -> <<Call("comment", cmd.i, cmd.note)>>
      [] cmd.kind = "release"   -> <<Call("forget claim", cmd.i, 0)>>
      [] cmd.kind = "complete"  -> <<Call("set state", cmd.i, "Done"),
                                     Call("close", cmd.i, 0)>>
      [] cmd.kind = "gate"      -> <<Call("gate", cmd.i, 0)>>
      [] cmd.kind = "auto-fix"  -> <<Call("auto-fix", cmd.i, 0)>>
      [] cmd.kind = "repair"    -> <<Call("repair", cmd.i, cmd.note)>>

Script(n) ==
    LET cmd == Commands[n]
    IN  CASE cmd.kind = "create"  -> IF CreateIsValid(cmd) THEN CreateScript(n, cmd) ELSE <<>>
          [] cmd.kind = "promote" -> PromoteScript(n, cmd)
          [] cmd.kind = "rework"  -> ReworkScript(n, cmd)
          [] OTHER                -> DirectScript(cmd)

-----------------------------------------------------------------------------
(* Steps that only these commands take.                                    *)

\* An operator runs the next command of this client; commands overlap only where the
\* instance says so.  A command refused by its validation makes no call.
Begin(c) ==
    /\ ~Running(c)
    /\ budget.parallel \/ \A d \in Clients : ~Running(d)
    /\ budget.cmds[c] # <<>>
    /\ LET n == Head(budget.cmds[c])
       IN  client' = [client EXCEPT ![c] =
                        [Idle EXCEPT !.cmd = n, !.todo = Script(n),
                                     !.out = IF Script(n) = <<>> THEN "error" ELSE "running"]]
    /\ budget' = [budget EXCEPT !.cmds[c] = Tail(@)]
    /\ UNCHANGED issues

\* The Project is listed with the login that `gh api user` gives; when that call fails
\* the list is filtered without one, and nothing is reported.
CheckAs(c, login) ==
    client' = IF Scannable /\ ~DuplicateTitle(Now(c).x, login)
              THEN [Continue(c, <<>>) EXCEPT ![c].login = login]
              ELSE Stop(c)

DuplicateCheck(c) ==
    /\ At(c, "duplicate check")
    /\ \/ CheckAs(c, "self") /\ UNCHANGED budget
       \/ CheckAs(c, Nobody) /\ SpendFault
    /\ UNCHANGED issues

ParentNote == <<Entry("Shea Symphony Workpad", <<Section(BranchSection, "topology")>>)>>

\* The parent's workpad is written only when the branch is not recorded yet.
ParentEvidence(c) ==
    /\ At(c, "parent evidence")
    /\ client' = IF ~Readable(Num(c)) THEN Continue(c, <<>>)
                 ELSE IF HasBranchEvidence(Num(c)) THEN Continue(c, <<>>)
                 ELSE Continue(c, <<Call("upsert", Num(c), ParentNote)>>)
    /\ UNCHANGED <<issues, budget>>

PromotePreflight(c) ==
    /\ At(c, "promote preflight")
    /\ client' = IF /\ Resolves(c) /\ issues[Num(c)].item = "Backlog"
                    /\ PlanIsDispatchable(Cmd(c), issues[Num(c)].asg # Nobody)
                 THEN Continue(c, <<>>)
                 ELSE Stop(c)
    /\ UNCHANGED <<issues, budget>>

ReadBackTitle(c) ==
    /\ At(c, "read back title")
    /\ client' = IF Resolves(c) /\ issues[Num(c)].title = Now(c).x THEN Continue(c, <<>>)
                 ELSE Stop(c)
    /\ UNCHANGED <<issues, budget>>

\* An unfinished claim of any lane stops a rework; a diagnostic comment is its only
\* effect, and the command fails once it is written.
ReworkPreflight(c) ==
    /\ At(c, "rework preflight")
    /\ client' =
         IF ~Resolves(c) \/ issues[Num(c)].item # "HumanReview" THEN Stop(c)
         ELSE IF issues[Num(c)].claim \notin {"none", "terminal"}
         THEN [client EXCEPT ![c].todo = <<Call("comment", Num(c), "rework blocker"),
                                           Call("give up", Num(c), 0)>>]
         ELSE IF PlanIsDispatchable(Cmd(c), issues[Num(c)].asg # Nobody) THEN Continue(c, <<>>)
         ELSE Stop(c)
    /\ UNCHANGED <<issues, budget>>

GiveUp(c) == At(c, "give up") /\ client' = Stop(c) /\ UNCHANGED <<issues, budget>>

\* The description read back must be the new body, with nothing attached to it.
ReadBackBody(c) ==
    /\ At(c, "read back body")
    /\ client' = IF /\ Resolves(c) /\ issues[Num(c)].title = Now(c).x
                    /\ DescriptionIsBody(Num(c))
                 THEN Continue(c, <<>>)
                 ELSE Stop(c)
    /\ UNCHANGED <<issues, budget>>

GateNote == <<Entry("Shea Symphony Workpad", <<Section("Quality Gate", "gate")>>)>>

QualityGate(c) ==
    /\ At(c, "gate")
    /\ LET i    == Num(c)
           cand == [Cmd(c).candidate EXCEPT
                      !.assigned = issues[i].asg # Nobody,
                      !.blockersResolved =
                          \A b \in issues[i].blockers : issues[b].item = "Done"]
           kind == EvaluateForCurrentSource(GateMode, TRUE, cand, Cmd(c).answer)
       IN  client' = IF ~Resolves(c) THEN Stop(c)
                     ELSE Continue(c, <<Call("upsert", i, GateNote)>>
                              \o (IF Dispatchable(kind) THEN <<>>
                                  ELSE <<Call("set state", i, GateTargetState(kind))>>))
    /\ UNCHANGED <<issues, budget>>

\* An operator moves an item on the board while commands run.
Move(i) ==
    /\ budget.parallel /\ budget.moves > 0
    /\ Readable(i)
    /\ \E s \in {"HumanReview", "Merging"} \ {issues[i].item} : issues' = WriteStatus(i, s)
    /\ budget' = [budget EXCEPT !.moves = @ - 1]
    /\ UNCHANGED client

-----------------------------------------------------------------------------
Init ==
    /\ budget \in Budgets
    /\ issues = budget.issues
    /\ client = [c \in Clients |-> Idle]

Next ==
    \/ \E c \in Clients :
        \/ Begin(c) \/ TrackerStep(c)
        \/ DuplicateCheck(c) \/ ParentEvidence(c)
        \/ PromotePreflight(c) \/ ReadBackTitle(c)
        \/ ReworkPreflight(c) \/ GiveUp(c) \/ ReadBackBody(c)
        \/ QualityGate(c)
        \/ AutoFix(c, budget.ctx) \/ Repair(c)
    \/ \E i \in DOMAIN issues : Move(i)

Spec == Init /\ [][Next]_vars

-----------------------------------------------------------------------------
(* Properties.                                                             *)

Planned(i) == issues[i].plan # NoPlan

\* A forged issue in Todo is what its plan says, however often calls failed, lost
\* their answer or were repeated, and wherever an earlier command of the same plan
\* died: it is assigned and dispatchable, its Project field is set if it was staged in
\* Backlog (one created in Todo gets it only later), its blockers and its parent are
\* linked, and its parent names the integration branch that its work
\* must target (forge/create.rs:171-215, forge.rs:236-322).  Only an overlapping
\* upsert may lose the parent's entry.
DispatchableIsComplete ==
    \A i \in DOMAIN issues :
        (Planned(i) /\ issues[i].item = "Todo") =>
            LET cmd == Commands[issues[i].plan]
            IN  /\ issues[i].asg # Nobody
                /\ PlanIsDispatchable(cmd, issues[i].asg # Nobody)
                /\ (cmd.kind = "create" /\ cmd.field /\ HasRelations(cmd)) => issues[i].field
                /\ ToSet(cmd.rel.blockers) \subseteq issues[i].blockers
                /\ cmd.rel.parent # 0 =>
                       /\ issues[i].parent = cmd.rel.parent
                       /\ HasBranchEvidence(cmd.rel.parent) \/ budget.parallel

\* Created by a plan with an assignee, and not rewritten since by a promotion or a rework.
Forged(i) ==
    /\ Planned(i)
    /\ Commands[issues[i].plan].kind = "create"
    /\ Commands[issues[i].plan].asg # Nobody

\* An operator who runs the same forge create again after any failure, lost answer or
\* crash ends up with one Project item of that title, wherever the assignee of the first
\* was one the later check lists issues of: the check sees what an earlier run left,
\* because an issue reaches the Project only after its assignee is set, and because an
\* item left without Status stops every later check (forge/create.rs:138-148, 171;
\* client.rs:208-234; project_v2.rs:122-128).  An assignee that is neither the operator
\* nor configured, or the operator in a check whose `gh api user` failed, hides the
\* first item, and only then is there a second (tracker.rs:231-246, 336-359).
OneItemPerTitle ==
    ~budget.parallel =>
        \A i, j \in DOMAIN issues :
            (/\ i < j /\ issues[i].title = issues[j].title
             /\ issues[i].item # "none" /\ issues[j].item # "none"
             /\ Forged(i) /\ Forged(j))
              => Commands[issues[i].plan].asg \notin Allowed(issues[j].login)

\* A doctor run that reports success leaves no issue in Human Review without review
\* evidence, of several candidates as of one, whatever calls failed, lost their answer or
\* were repeated on the way; only others at work meanwhile can bring one back
\* (commands/doctor/repair.rs:19-83, 248-312; cli.rs:58-86).
RepairIsComplete ==
    [][~budget.parallel =>
          \A c \in Clients :
              (Running(c) /\ client'[c].out = "ok" /\ Cmd(c).kind = "auto-fix") =>
                  \A i \in DOMAIN issues :
                      "human_review_missing_review_evidence" \notin Audit(i, budget.ctx)']_vars

\* As long as upserts do not overlap, the workpad shows one text of every section
\* written to it, under the one canonical heading: the text written last, or one that
\* was there and begins with it, which the merge takes for the same (existing.contains).
\* A merge never drops a section it was not given, never keeps a stale copy, and a
\* repeated or half-done upsert changes nothing more (workpad.rs:9-114; the contract of
\* workpad.upsert).
OnlyRacesLoseText ==
    ~budget.parallel =>
        \A i \in DOMAIN issues :
            /\ \A p \in issues[i].last :
                   \E t \in SectionTexts(WorkpadBody(i), p[1], p[2]) :
                       /\ SectionTexts(WorkpadBody(i), p[1], p[2]) = {t}
                       /\ TextBegins(p[3], t)
            /\ issues[i].last # {} => CanonicalCount(WorkpadBody(i)) <= 1

=============================================================================

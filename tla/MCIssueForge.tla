----------------------------- MODULE MCIssueForge -----------------------------
(* The commands and the instances for IssueForge: each instance asks about one   *)
(* group of commands, one after the other or at the same time.                   *)
EXTENDS IssueForge

CONSTANTS textA, textB

MCBegins == {<<textA, textB>>}

Good == [titled |-> TRUE, bodyFaults |-> {}, seed |-> TRUE, assigned |-> TRUE,
         blockersResolved |-> TRUE]

Vague == [Good EXCEPT !.bodyFaults = {"empty"}]

Yes == [ran |-> TRUE, wellFormed |-> TRUE, kind |-> "Ready", missing |-> FALSE,
        assumptions |-> FALSE]

Duplicate == [Yes EXCEPT !.kind = "DuplicateAlreadyCovered", !.missing = TRUE]

Plain == [kind |-> "set state", title |-> 0, to |-> "Todo", asg |-> "self",
          rel |-> NoRelations, field |-> FALSE, candidate |-> Good, answer |-> Yes,
          i |-> 1, note |-> <<>>]

Forge(title, to, rel) == [Plain EXCEPT !.kind = "create", !.title = title, !.to = to,
                                       !.rel = rel]

Related12 == [blockers |-> <<2>>, parent |-> 1]

Work(h, k, t) == Entry(h, <<Section(k, t)>>)

Owned(o) == <<Entry("Runtime", <<[Section("Owner", "owner") EXCEPT !.own = o]>>)>>

Adopted(o) == <<Entry("Workpad", <<[Section("Adoption", "adopted") EXCEPT !.adopt = o]>>)>>

Upserts(note) == [Plain EXCEPT !.kind = "upsert", !.note = note]

MCCommands == <<
    \* forge create, under parent 1 with blocker 2, without relations, and refused
    [Forge("t", "Todo", Related12) EXCEPT !.field = TRUE],                    \* 1
    Forge("u", "Todo", [blockers |-> <<>>, parent |-> 1]),                    \* 2
    [Forge("v", "Backlog", NoRelations) EXCEPT !.asg = Nobody],                \* 3
    [Forge("w", "Todo", NoRelations) EXCEPT !.candidate = Vague],             \* 4
    \* workpad upserts
    Upserts(<<Work("Shea Symphony Workpad", "Plan", textA)>>), \* 5
    Upserts(<<Work("Workpad", "Plan", textB), Work("Review", "Verdict", textA)>>), \* 6
    Upserts(Owned(textA)), \* 7
    Upserts(Adopted(textB)), \* 8
    Upserts(<<Work("Review", "Verdict", textB), Work(NoHeading, "Log", textA)>>), \* 9
    \* promote, rework, gate
    [Forge("t", "Todo", Related12) EXCEPT !.kind = "promote", !.i = 3],       \* 10
    [Plain EXCEPT !.kind = "rework", !.title = "r"],                          \* 11
    [Plain EXCEPT !.kind = "gate"],                                           \* 12
    [Plain EXCEPT !.kind = "gate", !.answer = Duplicate],                     \* 13
    \* doctor and direct writes
    [Plain EXCEPT !.kind = "auto-fix"],                                       \* 14
    [Plain EXCEPT !.kind = "repair", !.note = "escalate"],                    \* 15
    [Plain EXCEPT !.kind = "repair", !.note = "mark ready"],                  \* 16
    [Plain EXCEPT !.kind = "complete"],                                       \* 17
    [Plain EXCEPT !.kind = "comment", !.note = "plain note"],                 \* 18
    [Plain EXCEPT !.kind = "set state", !.to = "AgentReview"],                \* 19
    [Plain EXCEPT !.kind = "release"],                                        \* 20
    [Forge("z", "Todo", NoRelations) EXCEPT !.field = TRUE],                  \* 21
    \* an assignee the configuration names, and one it does not
    [Forge("a", "Todo", NoRelations) EXCEPT !.asg = "additional"],            \* 22
    [Forge("o", "Backlog", NoRelations) EXCEPT !.asg = "other"]>>             \* 23

On(title, state) == [NewIssue(title, NoPlan) EXCEPT !.item = state, !.asg = "self"]

CONSTANTS c1, c2

None == [runtime |-> {}, registered |-> {}, sessions |-> {}]

Busy == [runtime |-> {[issue |-> 1, stale |-> TRUE, workspace |-> TRUE, otherBranch |-> TRUE,
                       session |-> "missing"]},
         registered |-> {}, sessions |-> {[issue |-> 1, status |-> "stale"]}]

Budget(is, a, b, parallel, faults, crashes) ==
    [issues |-> is, cmds |-> (c1 :> a @@ c2 :> b), parallel |-> parallel, faults |-> faults,
     crashes |-> crashes, moves |-> 0, ctx |-> None]

Parent == On("parent", "InProgress")
Blocker == On("blocker", "Todo")
Reviewed(s) == [On("x", s) EXCEPT !.pr = "draft", !.claim = "active"]

MCBudgets == {
    Budget(<<Parent, Blocker>>, <<1, 1>>, <<>>, FALSE, 2, 1),
    Budget(<<Parent, Blocker>>, <<1, 3, 4>>, <<21, 2>>, FALSE, 1, 1),
    Budget(<<Parent>>, <<22, 23>>, <<22, 23>>, FALSE, 2, 1),
    Budget(<<Parent, Blocker>>, <<1>>, <<2>>, TRUE, 1, 1),
    Budget(<<Parent>>, <<5, 6, 7, 7>>, <<8, 9, 8>>, FALSE, 2, 0),
    Budget(<<Parent>>, <<5, 7>>, <<6, 9>>, TRUE, 2, 1),
    Budget(<<Parent, Blocker, On("idea", "Backlog")>>, <<10, 10>>, <<>>, FALSE, 2, 1),
    Budget(<<On("x", "HumanReview")>>, <<11, 11>>, <<5>>, FALSE, 1, 1),
    Budget(<<Reviewed("HumanReview")>>, <<11, 20, 11>>, <<>>, FALSE, 1, 0),
    Budget(<<On("x", "Todo")>>, <<12, 13>>, <<18>>, TRUE, 1, 0),
    Budget(<<On("x", "HumanReview"), On("y", "HumanReview")>>, <<14>>, <<14>>, FALSE, 2, 1),
    [Budget(<<Reviewed("HumanReview")>>, <<14, 16>>, <<15, 19>>, TRUE, 1, 0)
        EXCEPT !.moves = 1, !.ctx = Busy],
    Budget(<<On("x", "Merging")>>, <<17, 17>>, <<17>>, TRUE, 2, 2)}

===============================================================================

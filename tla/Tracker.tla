------------------------------- MODULE Tracker -------------------------------
(***************************************************************************)
(* The GitHub Project v2 tracker as the program's client drives it         *)
(* (src/tracker/github): issues with their Project item, comments and      *)
(* native relationships on GitHub's side, and on the program's side        *)
(* commands that are sequences of `gh` calls.  A call may fail, or take    *)
(* effect and lose its answer; JSON calls, mutations among them, are then  *)
(* tried a second time (cli.rs:58-86).  A command reads, decides from what *)
(* it read, and writes later, while other commands do the same.            *)
(***************************************************************************)
EXTENDS Naturals, FiniteSets, Workpad

CONSTANTS Clients,    \* processes that run tracker commands
          PageSize    \* comments an upsert looks through for the workpad marker

States == {"Backlog", "Todo", "NeedToClarify", "InProgress", "AgentReview", "HumanReview",
           "Rework", "Merging", "NeedHumanInput", "Done"}

NoPlan == 0

\* Whose login an issue is assigned to, seen from the process: the one `gh` is signed in
\* with, one of the configured additional assignees, or some other.  Of several assignees
\* the issue keeps the one named first here.
Nobody == "nobody"
Logins == {"self", "additional", "other"}

VARIABLES issues,     \* the issues of the repository, in order of creation
          client,     \* per client, the command it runs
          budget      \* what may still happen: commands, faults, crashes, moves

\* An issue as created: not on the Project, nothing attached.  says is what else its
\* text states (see Remarks in Doctor.tla).  plan, login and last are history: the forge
\* command that wrote the content, the login its duplicate check knew, and the workpad
\* sections written to it last.
NewIssue(t, plan) ==
    [title |-> t, edited |-> FALSE, asg |-> Nobody, item |-> "none", closed |-> FALSE,
     field |-> FALSE, claim |-> "none", pr |-> "none", base |-> "parent", passed |-> FALSE,
     says |-> {}, comments |-> <<>>, blockers |-> {}, parent |-> 0, plan |-> plan,
     login |-> Nobody, last |-> {}]

\* A comment: the workpad (it carries the marker), a superseded duplicate, or a note.
Comment(kind, body) == [kind |-> kind, body |-> body]

\* One gh call still to be made: on issue i, 0 standing for the issue this command
\* created, which is known by its node id and not by number.
Call(op, i, x) == [op |-> op, i |-> i, x |-> x]

\* login is what `gh api user` answered the last time the command listed the Project.
Idle == [cmd |-> 0, todo |-> <<>>, tries |-> 0, issue |-> 0, login |-> Nobody, out |-> "idle"]

Running(c) == client[c].out = "running"

At(c, op) == Running(c) /\ Head(client[c].todo).op = op

Now(c) == Head(client[c].todo)

Num(c) == IF Now(c).i = 0 THEN client[c].issue ELSE Now(c).i

-----------------------------------------------------------------------------
(* Reads.                                                                  *)

\* An item without Status is an error of the read, not an item to be skipped; an
\* issue that is no item of the Project is not found.
Readable(i) == i \in DOMAIN issues /\ issues[i].item \in States

\* A scan of the Project converts every item, and fails with the first it cannot.
Scannable == \A i \in DOMAIN issues : issues[i].item # "nostatus"

\* A number is read by itself; a node id is looked for in a scan of the Project.
Resolves(c) == Readable(Num(c)) /\ (Now(c).i = 0 => Scannable)

\* Listed issues pass the assignee filter: it drops an issue nobody is assigned to, one
\* assigned to others, and, when the own login could not be read, the own issues.
Allowed(login) == {login, "additional"} \ {Nobody}

Listed(i, login) == issues[i].item \in States /\ issues[i].asg \in Allowed(login)

DuplicateTitle(t, login) ==
    \E i \in DOMAIN issues : Listed(i, login) /\ issues[i].title = t

\* The numbers of a set in increasing order.
InOrder(S) ==
    [k \in 1..Cardinality(S) |-> CHOOSE m \in S : Cardinality({j \in S : j <= m}) = k]

MarkedIn(i, n) == {k \in 1..n : issues[i].comments[k].kind = "workpad"}

WorkpadComments(i) ==
    InOrder(MarkedIn(i, IF Len(issues[i].comments) < PageSize THEN Len(issues[i].comments)
                        ELSE PageSize))

\* The comment every reader takes for the workpad, 0 when there is none.
CanonicalComment(i) ==
    LET marked == MarkedIn(i, Len(issues[i].comments))
    IN  IF marked = {} THEN 0 ELSE Min(marked)

WorkpadBody(i) ==
    IF CanonicalComment(i) = 0 THEN <<>> ELSE issues[i].comments[CanonicalComment(i)].body

\* Notes whose heading is one of the timeline headings.
TimelineKinds == {"doctor note", "rework note"}

\* The description a reader gets is the body alone only when nothing is attached:
\* the workpad and the timeline comments are appended to it.
DescriptionIsBody(i) ==
    /\ CanonicalComment(i) = 0
    /\ \A k \in DOMAIN issues[i].comments : issues[i].comments[k].kind \notin TimelineKinds

BranchSection == "Parent Topology"

\* The parent integration branch is named in the workpad.
HasBranchEvidence(i) ==
    \E k \in DOMAIN WorkpadBody(i) :
        \E j \in DOMAIN WorkpadBody(i)[k].secs : WorkpadBody(i)[k].secs[j].key = BranchSection

Related(i, rel, other) ==
    IF rel = "blocked by" THEN other \in issues[i].blockers ELSE issues[i].parent = other

-----------------------------------------------------------------------------
(* What a write does on GitHub's side.                                     *)

\* The sections an upsert writes, as <<heading, key, text>>.
Pieces(note) ==
    UNION {LET e == note[n]
           IN  IF IsCanonical(e)
               THEN {<<"Shea Symphony Workpad", s.key, s.text>> : s \in ToSet(e.secs)}
               ELSE IF e.h2 = NoHeading THEN {}
               ELSE {<<e.h2, e.secs[1].key, e.secs[1].text>>} : n \in DOMAIN note}

Remember(last, note) ==
    {p \in last : \A q \in Pieces(note) : <<p[1], p[2]>> # <<q[1], q[2]>>} \cup Pieces(note)

CreateIssue(x, login) ==
    Append(issues, [NewIssue(x.title, x.plan) EXCEPT !.login = login])

AssignIssue(i, who) == [issues EXCEPT ![i].asg = who]

\* Adding an issue that is an item already answers with that item.
AddItem(i) == [issues EXCEPT ![i].item = IF @ = "none" THEN "nostatus" ELSE @]

WriteStatus(i, s) == [issues EXCEPT ![i].item = s]

WriteField(i) == [issues EXCEPT ![i].field = TRUE]

ClearField(i) == [issues EXCEPT ![i].claim = "none"]

AddComment(i, kind) == [issues EXCEPT ![i].comments = Append(@, Comment(kind, <<>>))]

AddWorkpad(i, note) ==
    [issues EXCEPT ![i].comments = Append(@, Comment("workpad", note)),
                   ![i].last = Remember(@, note)]

UpdateWorkpad(i, x) ==
    [issues EXCEPT ![i].comments[x.n] = Comment("workpad", x.body),
                   ![i].last = Remember(@, x.note)]

Supersede(i, n) == [issues EXCEPT ![i].comments[n] = Comment("superseded", <<>>)]

EditContent(i, x) ==
    [issues EXCEPT ![i].title = x.title, ![i].edited = TRUE, ![i].plan = x.plan]

Relate(i, x) ==
    IF x.rel = "blocked by"
    THEN [issues EXCEPT ![i].blockers = @ \cup {x.other}]
    ELSE [issues EXCEPT ![i].parent = x.other]

CloseIssue(i) == [issues EXCEPT ![i].closed = TRUE]

MarkReady(i) == [issues EXCEPT ![i].pr = "ready"]

Effect(c) ==
    LET i == Num(c)
        x == Now(c).x
    IN  CASE Now(c).op = "create"       -> CreateIssue(x, client[c].login)
          [] Now(c).op = "assign"       -> AssignIssue(i, x)
          [] Now(c).op = "add item"     -> AddItem(i)
          [] Now(c).op = "write status" -> WriteStatus(i, x.to)
          [] Now(c).op = "write field"  -> WriteField(i)
          [] Now(c).op = "clear field"  -> ClearField(i)
          [] Now(c).op = "add comment"  -> AddComment(i, x)
          [] Now(c).op = "add workpad"  -> AddWorkpad(i, x)
          [] Now(c).op = "update workpad" -> UpdateWorkpad(i, x)
          [] Now(c).op = "supersede"    -> Supersede(i, x)
          [] Now(c).op = "edit"         -> EditContent(i, x)
          [] Now(c).op = "relate"       -> Relate(i, x)
          [] Now(c).op = "close issue"  -> CloseIssue(i)
          [] Now(c).op = "mark ready"   -> MarkReady(i)

Writes == {"create", "assign", "add item", "write status", "write field", "clear field",
           "add comment", "add workpad", "update workpad", "supersede", "edit", "relate",
           "close issue", "mark ready"}

\* `gh issue edit` and the relationship calls run once, as does `gh pr ready`; every
\* other write is a JSON call with two attempts; a Project field of an item found by a
\* scan is written through REST first and then, the attempts spent, through GraphQL.
Attempts(call) ==
    IF call.op \in {"assign", "edit", "relate", "mark ready"} THEN 1
    ELSE IF call.op = "write status" /\ call.x.rest THEN 4
    ELSE IF call.op \in {"write field", "clear field"} /\ call.i = 0 THEN 4
    ELSE 2

-----------------------------------------------------------------------------
(* Steps of a command.                                                     *)

Continue(c, calls) ==
    LET todo == calls \o Tail(client[c].todo)
    IN  [client EXCEPT ![c].todo = todo, ![c].tries = 0,
                       ![c].out = IF todo = <<>> THEN "ok" ELSE "running"]

Stop(c) == [client EXCEPT ![c].todo = <<>>, ![c].tries = 0, ![c].out = "error"]

SpendFault == budget.faults > 0 /\ budget' = [budget EXCEPT !.faults = @ - 1]

\* A write whose answer arrives.
Write(c) ==
    /\ Running(c) /\ Now(c).op \in Writes
    /\ issues' = Effect(c)
    /\ client' = IF Now(c).op = "create"
                 THEN [Continue(c, <<>>) EXCEPT ![c].issue = Len(issues')]
                 ELSE Continue(c, <<>>)
    /\ UNCHANGED budget

\* The kinds of failure that are tried again.
Retryable == {"network", "transient backend", "rate limit"}

Retry(c, n) == [client EXCEPT ![c].tries = n]

\* The attempts made once this one has failed: a failure of another kind ends the
\* attempts of its transport, and only GraphQL, which REST falls back to, is the last.
Tried(c, kind) ==
    IF kind \in Retryable THEN client[c].tries + 1
    ELSE IF client[c].tries < 2 THEN 2 ELSE 4

AfterFailure(c, kind) ==
    IF Tried(c, kind) < Attempts(Now(c)) THEN Retry(c, Tried(c, kind)) ELSE Stop(c)

\* The call times out after it took effect (a timeout counts as a network failure).
WriteLost(c) ==
    /\ Running(c) /\ Now(c).op \in Writes
    /\ SpendFault
    /\ issues' = Effect(c)
    /\ client' = AfterFailure(c, "network")

WriteFails(c) ==
    /\ Running(c) /\ Now(c).op \in Writes
    /\ SpendFault
    /\ \E kind \in {"network", "auth"} : client' = AfterFailure(c, kind)
    /\ UNCHANGED issues

\* A read that fails on every attempt.
ReadFails(c) ==
    /\ Running(c) /\ Now(c).op \notin Writes
    /\ SpendFault
    /\ client' = Stop(c)
    /\ UNCHANGED issues

\* The process dies between two calls.
Crash(c) ==
    /\ Running(c) /\ budget.crashes > 0
    /\ budget' = [budget EXCEPT !.crashes = @ - 1]
    /\ client' = [client EXCEPT ![c].todo = <<>>, ![c].tries = 0, ![c].out = "crashed"]
    /\ UNCHANGED issues

-----------------------------------------------------------------------------
(* Operations of the client: what each reads first, and what it then writes. *)

\* set_state: nothing is written when the status is right already.
SetState(c) ==
    /\ At(c, "set state")
    /\ client' = IF ~Resolves(c) THEN Stop(c)
                 ELSE IF issues[Num(c)].item = Now(c).x THEN Continue(c, <<>>)
                 ELSE Continue(c, <<Call("write status", Now(c).i,
                                         [to |-> Now(c).x, rest |-> Now(c).i = 0])>>)
    /\ UNCHANGED <<issues, budget>>

\* upsert_workpad: the body written is the one read, merged with the note; marked
\* comments after the first lose their marker.
UpsertCalls(i, note, marked) ==
    (IF marked = <<>>
     THEN <<Call("add workpad", i, note)>>
     ELSE <<Call("update workpad", i,
                 [n |-> Head(marked), note |-> note,
                  body |-> MergeBody(issues[i].comments[Head(marked)].body, note)])>>)
      \o [k \in 1..(IF marked = <<>> THEN 0 ELSE Len(marked) - 1) |->
              Call("supersede", i, marked[k + 1])]

Upsert(c) ==
    /\ At(c, "upsert")
    /\ client' = IF Resolves(c)
                 THEN Continue(c, UpsertCalls(Num(c), Now(c).x, WorkpadComments(Num(c))))
                 ELSE Stop(c)
    /\ UNCHANGED <<issues, budget>>

\* add_issue_comment, set_project_field, clear_project_field, link_pull_request
\* (a comment too): resolve the issue, then write.
ResolveThenWrite(c) ==
    /\ Running(c) /\ Now(c).op \in {"comment", "set field", "forget claim"}
    /\ client' =
         IF ~Resolves(c) THEN Stop(c)
         ELSE Continue(c, <<Call(CASE Now(c).op = "comment"   -> "add comment"
                                   [] Now(c).op = "set field" -> "write field"
                                   [] OTHER                   -> "clear field",
                                 Now(c).i, Now(c).x)>>)
    /\ UNCHANGED <<issues, budget>>

\* add_blocked_by_relationship and add_subissue_relationship: a relationship that is
\* there already is not written again, and one that was written is read back.
AddRelationship(c) ==
    /\ At(c, "add relationship")
    /\ client' =
         IF ~Resolves(c) \/ ~Readable(Now(c).x.other) THEN Stop(c)
         ELSE IF Related(Num(c), Now(c).x.rel, Now(c).x.other) THEN Continue(c, <<>>)
         ELSE Continue(c, <<Call("relate", Now(c).i, Now(c).x),
                            Call("verify relationship", Now(c).i, Now(c).x)>>)
    /\ UNCHANGED <<issues, budget>>

VerifyRelationship(c) ==
    /\ At(c, "verify relationship")
    /\ client' = IF Resolves(c) /\ Related(Num(c), Now(c).x.rel, Now(c).x.other)
                 THEN Continue(c, <<>>)
                 ELSE Stop(c)
    /\ UNCHANGED <<issues, budget>>

\* close_issue: a closed issue is left alone.
Close(c) ==
    /\ At(c, "close")
    /\ client' = IF ~Resolves(c) THEN Stop(c)
                 ELSE IF issues[Num(c)].closed THEN Continue(c, <<>>)
                 ELSE Continue(c, <<Call("close issue", Now(c).i, 0)>>)
    /\ UNCHANGED <<issues, budget>>

\* get_issue, in a command that goes on only when the issue is in state x.
Require(c) ==
    /\ At(c, "require")
    /\ client' = IF Resolves(c) /\ issues[Num(c)].item = Now(c).x
                 THEN Continue(c, <<>>)
                 ELSE Stop(c)
    /\ UNCHANGED <<issues, budget>>

TrackerStep(c) ==
    \/ Write(c) \/ WriteLost(c) \/ WriteFails(c) \/ ReadFails(c) \/ Crash(c)
    \/ SetState(c) \/ Upsert(c) \/ ResolveThenWrite(c)
    \/ AddRelationship(c) \/ VerifyRelationship(c) \/ Close(c) \/ Require(c)

=============================================================================

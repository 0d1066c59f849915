--------------------------- MODULE MergeLaneProofs ---------------------------
(***************************************************************************)
(* Proofs about the Merge lane, for every set of issues and workers and    *)
(* every pull request it may meet.                                         *)
(*                                                                         *)
(* A tick decides once and acts in several calls, so the invariant says    *)
(* what the decision it carries still stands for (TickOK): a completing    *)
(* decision that has reached the evidence comment is about a pull request  *)
(* that landed, the markers the tick read are still on the issue, and from *)
(* the comment on there is evidence that names the target.  Nothing else   *)
(* undoes this, because a merge is final and comments are never removed    *)
(* (Monotone).                                                             *)
(***************************************************************************)
EXTENDS MergeLane, TLAPS

\* The comments of an issue by marker, and the issue as the tracker keeps it.
MarkBags == UNION {[M -> Nat \ {0}] : M \in SUBSET Marker}
Row == [state : TrackerStates, claim : Claim, closed : BOOLEAN, posted : MarkBags]

Types ==
  /\ tracker \in [Issues -> Row]
  /\ pr \in [Issues -> Status]
  /\ late \subseteq Issues
  /\ wt \in [Issues -> Worktree]
  /\ tick \in [Workers -> Tick \cup {NoTick}]
  /\ runs \in Nat
  /\ moves \in 0..MaxMoves /\ changes \in 0..MaxChanges
  /\ faults \in 0..MaxFaults /\ unread \in 0..MaxUnread

\* A tick that has inspected the pull request carries a decision.
Repairing == {"update", "repair", "agent", "agentRun"}
Concluding == {"comment", "terminal", "route", "close"}
Decided == Repairing \cup {"merge"} \cup Concluding

\* What a tick's decision stands for, as far as it has come.
TickOK(w) ==
  tick[w] # NoTick =>
    LET t == tick[w] IN
    /\ t.seen.marks \subseteq DOMAIN tracker[t.issue].posted
    /\ t.pc \in Decided => t.kind \in Kinds /\ (Completes(t.kind) <=> t.to = "Done")
    /\ t.pc \in Repairing => ~Completes(t.kind)
    /\ t.pc \in Concluding /\ Completes(t.kind) => pr[t.issue].life = "merged"
    /\ t.pc \in {"terminal", "close"} => Completes(t.kind)
    /\ t.pc = "route" => t.to # "none"
    /\ t.pc \in {"terminal", "route"} =>
         \E m \in DOMAIN tracker[t.issue].posted : m.to = t.to

IInv == Types /\ \A w \in Workers : TickOK(w)

\* A merge is final and a comment stays.
Monotone ==
  \A i \in Issues :
    /\ pr[i].life = "merged" => pr'[i].life = "merged"
    /\ DOMAIN tracker[i].posted \subseteq DOMAIN tracker'[i].posted

TicksElsewhere(w) == \A v \in Workers : v # w => tick'[v] = tick[v]

Ticks == [Workers -> Tick \cup {NoTick}]

-----------------------------------------------------------------------------
(* The parts a step is made of *)

\* A tick is not mistaken for its absence.
LEMMA TickFacts ==
  ASSUME Types, NEW w \in Workers
  PROVE  /\ tick[w] # NoTick => tick[w] \in Tick
         /\ \A pc \in Pcs : At(w, pc) => tick[w] \in Tick /\ tick[w] # NoTick
         /\ tick[w] # NoTick => tick[w].issue \in Issues
         /\ tick[w] # NoTick => tick[w].seen \in Snapshot
  <1>1. tick[w] \in Tick \cup {NoTick}
    BY DEF Types
  <1>2. NoTick.pc = "none"
    BY DEF NoTick
  <1>3. \A pc \in Pcs : At(w, pc) => tick[w] # NoTick
    BY <1>2 DEF At, Pcs
  <1> QED
    BY <1>1, <1>3 DEF Tick

\* A tick goes on with what it knows.
LEMMA GotoStep ==
  ASSUME Types, NEW w \in Workers, NEW pc \in Pcs, tick[w] \in Tick, Goto(w, pc)
  PROVE  /\ tick' \in Ticks /\ TicksElsewhere(w)
         /\ tick'[w] = [tick[w] EXCEPT !.pc = pc]
         /\ tick'[w] \in Tick /\ tick'[w].pc = pc
         /\ tick'[w].issue = tick[w].issue /\ tick'[w].seen = tick[w].seen
         /\ tick'[w].kind = tick[w].kind /\ tick'[w].to = tick[w].to
  <1>1. tick \in Ticks
    BY DEF Types, Ticks
  <1>2. PICK t : t = [tick[w] EXCEPT !.pc = pc]
    OBVIOUS
  <1>3. /\ t \in Tick /\ t.pc = pc /\ t.issue = tick[w].issue /\ t.seen = tick[w].seen
        /\ t.kind = tick[w].kind /\ t.to = tick[w].to
    BY <1>2 DEF Tick
  <1>4. tick' = [tick EXCEPT ![w] = t]
    BY <1>2 DEF Goto
  <1>5. tick' \in Ticks /\ TicksElsewhere(w) /\ tick'[w] = t
    BY <1>1, <1>3, <1>4 DEF Ticks, TicksElsewhere
  <1> QED
    BY <1>2, <1>3, <1>5

\* A tick goes on with a decision.
LEMMA ResolveStep ==
  ASSUME Types, NEW w \in Workers, NEW pc \in Pcs, NEW kind \in Kinds, NEW to \in Targets,
         tick[w] \in Tick, Resolve(w, pc, kind, to)
  PROVE  /\ tick' \in Ticks /\ TicksElsewhere(w)
         /\ tick'[w] \in Tick /\ tick'[w].pc = pc
         /\ tick'[w].issue = tick[w].issue /\ tick'[w].seen = tick[w].seen
         /\ tick'[w].kind = kind /\ tick'[w].to = to
  <1>1. tick \in Ticks
    BY DEF Types, Ticks
  <1>2. PICK t : t = [tick[w] EXCEPT !.pc = pc, !.kind = kind, !.to = to]
    OBVIOUS
  <1>3. /\ t \in Tick /\ t.pc = pc /\ t.issue = tick[w].issue /\ t.seen = tick[w].seen
        /\ t.kind = kind /\ t.to = to
    BY <1>2 DEF Tick
  <1>4. tick' = [tick EXCEPT ![w] = t]
    BY <1>1, <1>2 DEF Resolve, Ticks
  <1>5. tick' \in Ticks /\ TicksElsewhere(w) /\ tick'[w] = t
    BY <1>1, <1>3, <1>4 DEF Ticks, TicksElsewhere
  <1> QED
    BY <1>3, <1>5

\* A tick ends.
LEMMA EndStep ==
  ASSUME Types, NEW w \in Workers, End(w)
  PROVE  tick' \in Ticks /\ TicksElsewhere(w) /\ tick'[w] = NoTick /\ TickOK(w)'
  <1>1. tick \in Ticks
    BY DEF Types, Ticks
  <1>2. tick' \in Ticks /\ TicksElsewhere(w) /\ tick'[w] = NoTick
    BY <1>1 DEF End, Ticks, TicksElsewhere
  <1> QED
    BY <1>2 DEF TickOK

\* One more comment: its marker is on the issue, and the others stay.
LEMMA OneMoreMark ==
  ASSUME NEW B \in MarkBags, NEW m \in Marker
  PROVE  /\ BagAdd(B, m) \in MarkBags
         /\ DOMAIN BagAdd(B, m) = DOMAIN B \cup {m}
  <1>1. PICK M \in SUBSET Marker : B \in [M -> Nat \ {0}]
    BY DEF MarkBags
  <1>2. CASE m \in M
    <2>1. BagAdd(B, m) \in [M -> Nat \ {0}]
      BY <1>1, <1>2 DEF BagAdd
    <2> QED
      BY <1>1, <1>2, <2>1 DEF MarkBags
  <1>3. CASE m \notin M
    <2>1. BagAdd(B, m) \in [M \cup {m} -> Nat \ {0}]
      BY <1>1, <1>3 DEF BagAdd
    <2>2. M \cup {m} \in SUBSET Marker
      OBVIOUS
    <2> QED
      BY <1>1, <1>3, <2>1, <2>2 DEF MarkBags
  <1> QED
    BY <1>2, <1>3

\* One field of one issue is written; the comments are never fewer.
LEMMA TrackerWrites ==
  ASSUME Types, NEW i \in Issues
  PROVE  /\ \A s \in TrackerStates : tracker' = [tracker EXCEPT ![i].state = s] =>
              /\ tracker' \in [Issues -> Row]
              /\ \A j \in Issues : /\ tracker'[j].posted = tracker[j].posted
                                   /\ tracker'[j].closed = tracker[j].closed
                                   /\ j # i => tracker'[j].state = tracker[j].state
              /\ tracker'[i].state = s
         /\ \A c \in Claim : tracker' = [tracker EXCEPT ![i].claim = c] =>
              /\ tracker' \in [Issues -> Row]
              /\ \A j \in Issues : /\ tracker'[j].posted = tracker[j].posted
                                   /\ tracker'[j].closed = tracker[j].closed
                                   /\ tracker'[j].state = tracker[j].state
         /\ tracker' = [tracker EXCEPT ![i].closed = TRUE] =>
              /\ tracker' \in [Issues -> Row]
              /\ \A j \in Issues : /\ tracker'[j].posted = tracker[j].posted
                                   /\ j # i => tracker'[j].closed = tracker[j].closed
                                   /\ tracker'[j].state = tracker[j].state
         /\ \A B \in MarkBags : tracker' = [tracker EXCEPT ![i].posted = B] =>
              /\ tracker' \in [Issues -> Row]
              /\ \A j \in Issues : /\ j # i => tracker'[j].posted = tracker[j].posted
                                   /\ tracker'[j].closed = tracker[j].closed
                                   /\ tracker'[j].state = tracker[j].state
              /\ tracker'[i].posted = B
  <1>1. tracker \in [Issues -> Row]
    BY DEF Types
  <1>2. ASSUME NEW s \in TrackerStates, tracker' = [tracker EXCEPT ![i].state = s]
        PROVE  /\ tracker' \in [Issues -> Row]
               /\ \A j \in Issues \ {i} : tracker'[j] = tracker[j]
               /\ tracker'[i].state = s
               /\ tracker'[i].closed = tracker[i].closed
               /\ tracker'[i].posted = tracker[i].posted
    <2>1. PICK r : r = [tracker[i] EXCEPT !.state = s]
      OBVIOUS
    <2>2. /\ r \in Row
          /\ r.state = s
          /\ r.closed = tracker[i].closed
          /\ r.posted = tracker[i].posted
      BY <1>1, <2>1 DEF Row
    <2>3. tracker' = [tracker EXCEPT ![i] = r]
      BY <1>2, <2>1
    <2> QED
      BY <1>1, <2>2, <2>3
  <1>3. ASSUME NEW c \in Claim, tracker' = [tracker EXCEPT ![i].claim = c]
        PROVE  /\ tracker' \in [Issues -> Row]
               /\ \A j \in Issues \ {i} : tracker'[j] = tracker[j]
               /\ tracker'[i].state = tracker[i].state
               /\ tracker'[i].closed = tracker[i].closed
               /\ tracker'[i].posted = tracker[i].posted
    <2>1. PICK r : r = [tracker[i] EXCEPT !.claim = c]
      OBVIOUS
    <2>2. /\ r \in Row
          /\ r.state = tracker[i].state
          /\ r.closed = tracker[i].closed
          /\ r.posted = tracker[i].posted
      BY <1>1, <2>1 DEF Row
    <2>3. tracker' = [tracker EXCEPT ![i] = r]
      BY <1>3, <2>1
    <2> QED
      BY <1>1, <2>2, <2>3
  <1>4. ASSUME tracker' = [tracker EXCEPT ![i].closed = TRUE]
        PROVE  /\ tracker' \in [Issues -> Row]
               /\ \A j \in Issues \ {i} : tracker'[j] = tracker[j]
               /\ tracker'[i].state = tracker[i].state
               /\ tracker'[i].closed = TRUE
               /\ tracker'[i].posted = tracker[i].posted
    <2>1. PICK r : r = [tracker[i] EXCEPT !.closed = TRUE]
      OBVIOUS
    <2>2. /\ r \in Row
          /\ r.state = tracker[i].state
          /\ r.closed = TRUE
          /\ r.posted = tracker[i].posted
      BY <1>1, <2>1 DEF Row
    <2>3. tracker' = [tracker EXCEPT ![i] = r]
      BY <1>4, <2>1
    <2> QED
      BY <1>1, <2>2, <2>3
  <1>5. ASSUME NEW B \in MarkBags, tracker' = [tracker EXCEPT ![i].posted = B]
        PROVE  /\ tracker' \in [Issues -> Row]
               /\ \A j \in Issues \ {i} : tracker'[j] = tracker[j]
               /\ tracker'[i].state = tracker[i].state
               /\ tracker'[i].closed = tracker[i].closed
               /\ tracker'[i].posted = B
    <2>1. PICK r : r = [tracker[i] EXCEPT !.posted = B]
      OBVIOUS
    <2>2. /\ r \in Row
          /\ r.state = tracker[i].state
          /\ r.closed = tracker[i].closed
          /\ r.posted = B
      BY <1>1, <2>1 DEF Row
    <2>3. tracker' = [tracker EXCEPT ![i] = r]
      BY <1>5, <2>1
    <2> QED
      BY <1>1, <2>2, <2>3
  <1> QED
    BY <1>2, <1>3, <1>4, <1>5

\* A merge that lands, and what it does to the other pull requests.
LEMMA LandedStep ==
  ASSUME Types, NEW i \in Issues, pr' \in Landed(i)
  PROVE  /\ pr' \in [Issues -> Status]
         /\ pr'[i].life = "merged"
         /\ \A j \in Issues : pr[j].life = "merged" => pr'[j].life = "merged"
  <1>1. pr \in [Issues -> Status]
    BY DEF Types
  <1>2. PICK m \in [Issues -> {"CLEAN", "BEHIND", "DIRTY", "UNKNOWN", "BLOCKED"}] :
          pr' = [j \in Issues |-> IF j = i THEN [pr[i] EXCEPT !.life = "merged"]
                     ELSE IF pr[j].life = "open" THEN [pr[j] EXCEPT !.merge = m[j]]
                     ELSE pr[j]]
    BY DEF Landed
  <1>3. [pr[i] EXCEPT !.life = "merged"] \in Status
    BY <1>1 DEF Status
  <1>4. \A j \in Issues : [pr[j] EXCEPT !.merge = m[j]] \in Status
    BY <1>1 DEF Status
  <1>5. pr' \in [Issues -> Status]
    BY <1>1, <1>2, <1>3, <1>4
  <1>6. [pr[i] EXCEPT !.life = "merged"].life = "merged"
    BY <1>1 DEF Status
  <1> QED
    BY <1>2, <1>5, <1>6

\* New commits on a branch do not change whether its pull request landed.
LEMMA RefreshedStep ==
  ASSUME Types, NEW i \in Issues, pr' \in Refreshed(i)
  PROVE  /\ pr' \in [Issues -> Status]
         /\ \A j \in Issues : pr'[j].life = pr[j].life
  <1>1. pr \in [Issues -> Status]
    BY DEF Types
  <1>2. CASE pr' = pr
    BY <1>1, <1>2
  <1>3. CASE pr' # pr
    <2>1. PICK m \in {"CLEAN", "UNKNOWN"}, c \in {"passed", "pending"} :
            pr' = [pr EXCEPT ![i].merge = m, ![i].checks = c]
      BY <1>3 DEF Refreshed
    <2>2. PICK f : f = [pr[i] EXCEPT !.merge = m, !.checks = c]
      OBVIOUS
    <2>3. f \in Status /\ f.life = pr[i].life
      BY <1>1, <2>2 DEF Status
    <2>4. pr' = [pr EXCEPT ![i] = f]
      BY <1>1, <2>1, <2>2
    <2> QED
      BY <1>1, <2>3, <2>4
  <1> QED
    BY <1>2, <1>3

\* A step that leaves a tick alone leaves it right.
LEMMA TickStays ==
  ASSUME IInv, Monotone, NEW v \in Workers, tick'[v] = tick[v]
  PROVE  TickOK(v)'
  <1> SUFFICES ASSUME tick[v] # NoTick
               PROVE  TickOK(v)'
    BY DEF TickOK
  <1>1. TickOK(v) /\ tick[v].issue \in Issues
    BY TickFacts DEF IInv
  <1> QED
    BY <1>1 DEF TickOK, Monotone

\* A step of worker w preserves the invariant if it leaves its own tick right.
LEMMA WorkerStep ==
  ASSUME IInv, NEW w \in Workers, Types', Monotone, TicksElsewhere(w), TickOK(w)'
  PROVE  IInv'
  <1>1. \A v \in Workers : v # w => TickOK(v)'
    BY TickStays DEF TicksElsewhere
  <1> QED
    BY <1>1 DEF IInv

\* So does a step of somebody else.
LEMMA OutsideStep ==
  ASSUME IInv, Types', Monotone, tick' = tick
  PROVE  IInv'
  <1>1. \A v \in Workers : TickOK(v)'
    BY TickStays
  <1> QED
    BY <1>1 DEF IInv

\* The budgets of a step that spends none.
LEMMA SameBudgets ==
  ASSUME Types, UNCHANGED budgets
  PROVE  /\ moves' \in 0..MaxMoves /\ changes' \in 0..MaxChanges
         /\ faults' \in 0..MaxFaults /\ unread' \in 0..MaxUnread
  BY DEF Types, budgets

\* A step that changes neither pull requests nor comments.
LEMMA SameIsMonotone ==
  ASSUME \A i \in Issues : pr'[i].life = pr[i].life,
         \A i \in Issues : tracker'[i].posted = tracker[i].posted
  PROVE  Monotone
  BY DEF Monotone

-----------------------------------------------------------------------------
(* Selection and claim *)

\* A tick that starts has read nothing.
LEMMA ScanPreserves ==
  ASSUME IInv, NEW w \in Workers, Scan(w)
  PROVE  IInv'
  <1>1. Types /\ UNCHANGED <<tracker, pr, late, wt, runs, budgets>>
    BY DEF IInv, Scan
  <1>2. PICK i \in Issues :
          tick' = [tick EXCEPT ![w] = [pc |-> "read", issue |-> i, seen |-> Unseen,
                                       run |-> 0, kind |-> "none", to |-> "none"]]
    <2>1. Selected(w) \subseteq Issues
      BY DEF Selected
    <2> QED
      BY <2>1 DEF Scan
  <1>3. PICK t : t = [pc |-> "read", issue |-> i, seen |-> Unseen,
                      run |-> 0, kind |-> "none", to |-> "none"]
    OBVIOUS
  <1>4. Unseen \in Snapshot /\ Unseen.marks = {}
    BY DEF Unseen, Snapshot, FirstClaim, Claim
  <1>5. t \in Tick /\ t.pc = "read" /\ t.seen.marks = {}
    BY <1>3, <1>4 DEF Tick, Pcs, Targets
  <1>6. tick \in Ticks
    BY <1>1 DEF Types, Ticks
  <1>7. tick' = [tick EXCEPT ![w] = t]
    BY <1>2, <1>3
  <1>8. tick' \in Ticks /\ TicksElsewhere(w) /\ tick'[w] = t
    BY <1>5, <1>6, <1>7 DEF Ticks, TicksElsewhere
  <1>9. TickOK(w)'
    BY <1>5, <1>8 DEF TickOK, Decided, Repairing, Concluding
  <1>10. Types' /\ Monotone
    BY <1>1, <1>8, SameBudgets DEF Types, Ticks, Monotone
  <1> QED
    BY <1>8, <1>9, <1>10, WorkerStep

\* The markers a tick remembers are those on the issue.
LEMMA ReadPreserves ==
  ASSUME IInv, NEW w \in Workers, Read(w)
  PROVE  IInv'
  <1>1. /\ Types /\ UNCHANGED <<tracker, pr, late, wt, runs, budgets>>
        /\ tick[w] \in Tick /\ tick[w] # NoTick /\ tick[w].issue \in Issues
    BY TickFacts DEF IInv, Read, Pcs
  <1>2. tick' \in Ticks /\ TicksElsewhere(w) /\ TickOK(w)'
    <2>1. CASE End(w)
      BY <1>1, <2>1, EndStep
    <2>2. CASE ~End(w)
      <3>1. PICK row \in Row : row = tracker[tick[w].issue]
        BY <1>1 DEF Types
      <3>2. PICK seen : seen = [claim |-> row.claim, marks |-> DOMAIN row.posted, closed |-> row.closed]
        OBVIOUS
      <3>3. DOMAIN row.posted \in SUBSET Marker
        <4>1. row.posted \in MarkBags
          BY DEF Row
        <4> QED
          BY <4>1 DEF MarkBags
      <3>4. seen \in Snapshot /\ seen.marks = DOMAIN row.posted
        BY <3>2, <3>3 DEF Snapshot, Row
      <3>5. PICK t : t = [tick[w] EXCEPT !.pc = "claim", !.seen = seen]
        OBVIOUS
      <3>6. t \in Tick /\ t.pc = "claim" /\ t.seen = seen /\ t.issue = tick[w].issue
        BY <1>1, <3>4, <3>5 DEF Tick, Pcs
      <3>7. tick' = [tick EXCEPT ![w].pc = "claim", ![w].seen = seen]
        BY <2>2, <3>1, <3>2 DEF Read
      <3>8. tick \in Ticks
        BY <1>1 DEF Types, Ticks
      <3>9. tick' = [tick EXCEPT ![w] = t]
        BY <3>5, <3>7, <3>8 DEF Ticks
      <3>10. tick' \in Ticks /\ TicksElsewhere(w) /\ tick'[w] = t
        BY <3>6, <3>8, <3>9 DEF Ticks, TicksElsewhere
      <3>11. TickOK(w)'
        BY <1>1, <3>1, <3>4, <3>6, <3>10 DEF TickOK, Decided, Repairing, Concluding
      <3> QED
        BY <3>10, <3>11
    <2> QED
      BY <2>1, <2>2
  <1>3. Types' /\ Monotone
    BY <1>1, <1>2, SameBudgets DEF Types, Ticks, Monotone
  <1> QED
    BY <1>2, <1>3, WorkerStep

\* The claim write leaves comments and pull requests alone.
LEMMA WriteClaimPreserves ==
  ASSUME IInv, NEW w \in Workers, WriteClaim(w)
  PROVE  IInv'
  <1>1. /\ Types /\ TickOK(w) /\ UNCHANGED <<pr, late, wt, budgets>>
        /\ tick[w] \in Tick /\ tick[w] # NoTick /\ tick[w].issue \in Issues
        /\ tick[w].seen \in Snapshot
    BY TickFacts DEF IInv, WriteClaim, Pcs
  <1>2. tick[w].seen.claim \in Claim /\ runs \in Nat
    BY <1>1 DEF Snapshot, Types
  <1>3. PICK run \in Nat :
          run = IF tick[w].seen.claim.as = "Active" THEN tick[w].seen.claim.run ELSE runs + 1
    BY <1>2 DEF Claim
  <1>4. PICK new \in Claim : new = [by |-> w, run |-> run, as |-> "Active"]
    BY DEF Claim
  <1>5. /\ tracker' = IF tick[w].seen.claim = new THEN tracker
                      ELSE [tracker EXCEPT ![tick[w].issue].claim = new]
        /\ runs' = IF tick[w].seen.claim.as = "Active" THEN runs ELSE runs + 1
        /\ tick' = [tick EXCEPT ![w].pc = "inspect", ![w].run = run]
    BY <1>3, <1>4 DEF WriteClaim
  <1>6. /\ tracker' \in [Issues -> Row]
        /\ \A j \in Issues : tracker'[j].posted = tracker[j].posted
    <2>1. CASE tracker' = tracker
      BY <1>1, <2>1 DEF Types
    <2>2. CASE tracker' = [tracker EXCEPT ![tick[w].issue].claim = new]
      BY <1>1, <2>2, TrackerWrites
    <2> QED
      BY <1>5, <2>1, <2>2
  <1>7. PICK t : t = [tick[w] EXCEPT !.pc = "inspect", !.run = run]
    OBVIOUS
  <1>8. t \in Tick /\ t.pc = "inspect" /\ t.seen = tick[w].seen /\ t.issue = tick[w].issue
    BY <1>1, <1>7 DEF Tick, Pcs
  <1>9. tick \in Ticks
    BY <1>1 DEF Types, Ticks
  <1>10. tick' = [tick EXCEPT ![w] = t]
    BY <1>5, <1>7, <1>9 DEF Ticks
  <1>11. tick' \in Ticks /\ TicksElsewhere(w) /\ tick'[w] = t
    BY <1>8, <1>9, <1>10 DEF Ticks, TicksElsewhere
  <1>12. TickOK(w)'
    BY <1>1, <1>6, <1>8, <1>11 DEF TickOK, Decided, Repairing, Concluding
  <1>13. Types' /\ Monotone
    BY <1>1, <1>2, <1>5, <1>6, <1>11, SameBudgets DEF Types, Ticks, Monotone
  <1> QED
    BY <1>11, <1>12, <1>13, WorkerStep

-----------------------------------------------------------------------------
(* The decision *)

\* A decision completes exactly when it goes to Done, and without a merge of its
\* own only for a pull request that has landed.
LEMMA DecisionFacts ==
  ASSUME NEW status \in Status, NEW read \in BOOLEAN
  PROVE  LET d == Decision(status, read) IN
         /\ d.kind \in Kinds /\ d.to \in Targets
         /\ Completes(d.kind) <=> d.to = "Done"
         /\ d.kind = "AlreadyMerged" => status.life = "merged"
  BY DEF Decision, Decide, Kinds, Targets, Completes

\* The first step about a decision.
LEMMA FirstStepFacts ==
  ASSUME NEW kind \in Kinds
  PROVE  /\ FirstStep(kind) \in {"update", "repair", "merge", "comment"}
         /\ FirstStep(kind) \in {"update", "repair"} => ~Completes(kind)
         /\ FirstStep(kind) = "comment" /\ Completes(kind) => kind = "AlreadyMerged"
  BY DEF FirstStep, Completes

\* The inspection leaves a decision that is right for the pull request as read.
LEMMA InspectPreserves ==
  ASSUME IInv, NEW w \in Workers, Inspect(w)
  PROVE  IInv'
  <1>1. /\ Types /\ TickOK(w)
        /\ UNCHANGED <<tracker, pr, late, wt, runs, moves, changes, faults>>
        /\ tick[w] \in Tick /\ tick[w] # NoTick /\ tick[w].issue \in Issues
    BY TickFacts DEF IInv, Inspect, Pcs
  <1>2. PICK read \in BOOLEAN :
          /\ ~read => unread < MaxUnread
          /\ unread' = IF read THEN unread ELSE unread + 1
          /\ Resolve(w, FirstStep(Decision(pr[tick[w].issue], read).kind),
                     Decision(pr[tick[w].issue], read).kind,
                     Decision(pr[tick[w].issue], read).to)
    BY DEF Inspect
  <1>3. PICK status \in Status : status = pr[tick[w].issue]
    BY <1>1 DEF Types
  <1>4. PICK kind \in Kinds, to \in Targets :
          kind = Decision(status, read).kind /\ to = Decision(status, read).to
    BY DecisionFacts
  <1>5. /\ Completes(kind) <=> to = "Done"
        /\ kind = "AlreadyMerged" => status.life = "merged"
    BY <1>4, DecisionFacts
  <1>6. PICK pc \in {"update", "repair", "merge", "comment"} : pc = FirstStep(kind)
    BY FirstStepFacts
  <1>7. Resolve(w, pc, kind, to)
    BY <1>2, <1>3, <1>4, <1>6
  <1>8. /\ tick' \in Ticks /\ TicksElsewhere(w)
        /\ tick'[w].pc = pc
        /\ tick'[w].issue = tick[w].issue /\ tick'[w].seen = tick[w].seen
        /\ tick'[w].kind = kind /\ tick'[w].to = to
    BY <1>1, <1>7, ResolveStep DEF Pcs
  <1>9. TickOK(w)'
    BY <1>1, <1>3, <1>5, <1>6, <1>8, FirstStepFacts
       DEF TickOK, Decided, Repairing, Concluding
  <1>10. unread' \in 0..MaxUnread
    BY <1>1, <1>2, MergeLaneAssumption DEF Types
  <1>11. Types' /\ Monotone
    BY <1>1, <1>8, <1>10 DEF Types, Ticks, Monotone
  <1> QED
    BY <1>8, <1>9, <1>11, WorkerStep

-----------------------------------------------------------------------------
(* Branch update and conflict repair *)

\* However a repair ends, its decision does not complete the issue.
LEMMA RepairTick ==
  ASSUME IInv, NEW w \in Workers, tick[w] \in Tick, tick[w] # NoTick,
         tick[w].pc \in Repairing, tracker' = tracker,
         \/ Goto(w, "comment") \/ Goto(w, "agent") \/ Goto(w, "agentRun")
         \/ GiveUp(w) \/ Retry(w) \/ End(w)
  PROVE  tick' \in Ticks /\ TicksElsewhere(w) /\ TickOK(w)'
  <1>1. Types /\ TickOK(w)
    BY DEF IInv
  <1>2. ASSUME NEW pc \in {"comment", "agent", "agentRun"}, Goto(w, pc)
        PROVE  tick' \in Ticks /\ TicksElsewhere(w) /\ TickOK(w)'
    <2>1. /\ tick' \in Ticks /\ TicksElsewhere(w)
          /\ tick'[w].pc = pc
          /\ tick'[w].issue = tick[w].issue /\ tick'[w].seen = tick[w].seen
          /\ tick'[w].kind = tick[w].kind /\ tick'[w].to = tick[w].to
      BY <1>1, <1>2, GotoStep DEF Pcs
    <2> QED
      BY <1>1, <2>1 DEF TickOK, Decided, Repairing, Concluding
  <1>3. ASSUME NEW to \in {"NeedHumanInput", "none"}, Resolve(w, "comment", "MergeDirty", to)
        PROVE  tick' \in Ticks /\ TicksElsewhere(w) /\ TickOK(w)'
    <2>1. /\ tick' \in Ticks /\ TicksElsewhere(w)
          /\ tick'[w].pc = "comment"
          /\ tick'[w].issue = tick[w].issue /\ tick'[w].seen = tick[w].seen
          /\ tick'[w].kind = "MergeDirty" /\ tick'[w].to = to
      BY <1>1, <1>3, ResolveStep DEF Pcs, Kinds, Targets
    <2> QED
      BY <1>1, <2>1 DEF TickOK, Decided, Repairing, Concluding, Completes, Kinds
  <1>4. CASE End(w)
    BY <1>1, <1>4, EndStep
  <1> QED
    BY <1>2, <1>3, <1>4 DEF GiveUp, Retry

\* A repair preserves the invariant if it does not undo a merge.
LEMMA RepairStep ==
  ASSUME IInv, NEW w \in Workers, tick[w] \in Tick, tick[w] # NoTick,
         tick[w].pc \in Repairing,
         \/ Goto(w, "comment") \/ Goto(w, "agent") \/ Goto(w, "agentRun")
         \/ GiveUp(w) \/ Retry(w) \/ End(w),
         pr' = pr \/ pr' \in Refreshed(tick[w].issue),
         wt' \in [Issues -> Worktree],
         UNCHANGED <<tracker, late, runs, budgets>>
  PROVE  IInv'
  <1>1. Types /\ tick[w].issue \in Issues
    BY TickFacts DEF IInv
  <1>2. tick' \in Ticks /\ TicksElsewhere(w) /\ TickOK(w)'
    BY RepairTick
  <1>3. pr' \in [Issues -> Status] /\ \A j \in Issues : pr'[j].life = pr[j].life
    BY <1>1, RefreshedStep DEF Types
  <1>4. Types'
    BY <1>1, <1>2, <1>3, SameBudgets DEF Types, Ticks
  <1>5. Monotone
    BY <1>3 DEF Monotone
  <1> QED
    BY <1>2, <1>4, <1>5, WorkerStep

\* The worktree of one issue changes.
LEMMA WorktreeWrites ==
  ASSUME Types, NEW i \in Issues
  PROVE  /\ \A t \in Worktree : wt' = [wt EXCEPT ![i] = t] =>
              /\ wt' \in [Issues -> Worktree] /\ wt'[i] = t
              /\ \A j \in Issues \ {i} : wt'[j] = wt[j]
         /\ Aborted(wt[i]) \in Worktree /\ Committed(wt[i]) \in Worktree
         /\ wt \in [Issues -> Worktree]
  <1>1. wt \in [Issues -> Worktree]
    BY DEF Types
  <1>2. PICK c \in Worktree : c = wt[i]
    BY <1>1
  <1>3. CASE c = {"absent"}
    <2>1. c \ Workers = c /\ c \ (Workers \cup {"stuck"}) = c
      BY <1>3, MergeLaneAssumption
    <2> QED
      BY <1>1, <1>2, <2>1 DEF Aborted, Committed
  <1>4. CASE c \in SUBSET (Workers \cup {"files", "stuck"})
    BY <1>1, <1>2, <1>4 DEF Aborted, Committed, Worktree
  <1> QED
    BY <1>2, <1>3, <1>4 DEF Worktree

\* gh pr update-branch refreshes an open pull request or gives up.
LEMMA UpdatePreserves ==
  ASSUME IInv, NEW w \in Workers, Update(w)
  PROVE  IInv'
  <1>1. /\ Types /\ UNCHANGED <<tracker, late, wt, runs, budgets>>
        /\ tick[w] \in Tick /\ tick[w] # NoTick /\ tick[w].pc \in Repairing
    BY TickFacts DEF IInv, Update, Pcs, At, Repairing
  <1>2. wt' \in [Issues -> Worktree]
    BY <1>1 DEF Types
  <1>3. \/ Goto(w, "comment") /\ pr' \in Refreshed(tick[w].issue)
        \/ GiveUp(w) /\ pr' = pr
    BY DEF Update, GiveUp
  <1> QED
    BY <1>1, <1>2, <1>3, RepairStep

\* The mechanical repair pushes, hands over to the agent or gives up.
LEMMA RepairPreserves ==
  ASSUME IInv, NEW w \in Workers, Repair(w)
  PROVE  IInv'
  <1>1. /\ Types /\ UNCHANGED <<tracker, late, runs, budgets>>
        /\ tick[w] \in Tick /\ tick[w] # NoTick /\ tick[w].pc \in Repairing
        /\ tick[w].issue \in Issues
    BY TickFacts DEF IInv, Repair, Pcs, At, Repairing
  <1>2. wt' = [wt EXCEPT ![tick[w].issue] = Aborted(wt[tick[w].issue])]
    BY DEF Repair
  <1>3. wt' \in [Issues -> Worktree]
    BY <1>1, <1>2, WorktreeWrites
  <1>4. /\ Goto(w, "comment") \/ Goto(w, "agent") \/ GiveUp(w) \/ End(w)
        /\ pr' = pr \/ pr' \in Refreshed(tick[w].issue)
    BY DEF Repair, Push
  <1> QED
    BY <1>1, <1>3, <1>4, RepairStep

\* The agent's merge is pushed, left in progress for the agent, or given up.
LEMMA AgentPreserves ==
  ASSUME IInv, NEW w \in Workers, Agent(w)
  PROVE  IInv'
  <1>1. /\ Types /\ UNCHANGED <<tracker, late, runs, budgets>>
        /\ tick[w] \in Tick /\ tick[w] # NoTick /\ tick[w].pc \in Repairing
        /\ tick[w].issue \in Issues
    BY TickFacts DEF IInv, Agent, Pcs, At, Repairing
  <1>2. wt' \in [Issues -> Worktree]
    <2>1. CASE wt' = wt
      BY <1>1, <2>1, WorktreeWrites
    <2>2. ASSUME NEW left \in SUBSET {"files", "stuck"},
                 wt' = [wt EXCEPT ![tick[w].issue] = {w} \cup left]
          PROVE  wt' \in [Issues -> Worktree]
      <3>1. {w} \cup left \in Worktree
        BY DEF Worktree
      <3> QED
        BY <1>1, <2>2, <3>1, WorktreeWrites
    <2> QED
      BY <2>1, <2>2 DEF Agent
  <1>3. /\ Goto(w, "comment") \/ Goto(w, "agentRun") \/ GiveUp(w)
        /\ pr' = pr \/ pr' \in Refreshed(tick[w].issue)
    BY DEF Agent, Push
  <1> QED
    BY <1>1, <1>2, <1>3, RepairStep

\* What the agent made of it is pushed, retried or given up, or left.
LEMMA AgentRunPreserves ==
  ASSUME IInv, NEW w \in Workers, AgentRun(w)
  PROVE  IInv'
  <1>1. /\ Types /\ UNCHANGED <<tracker, late, runs, budgets>>
        /\ tick[w] \in Tick /\ tick[w] # NoTick /\ tick[w].pc \in Repairing
        /\ tick[w].issue \in Issues
    BY TickFacts DEF IInv, AgentRun, Pcs, At, Repairing
  <1>2. \/ wt' = wt
        \/ wt' = [wt EXCEPT ![tick[w].issue] = Aborted(wt[tick[w].issue])]
        \/ wt' = [wt EXCEPT ![tick[w].issue] = Committed(wt[tick[w].issue])]
    BY DEF AgentRun
  <1>3. wt' \in [Issues -> Worktree]
    BY <1>1, <1>2, WorktreeWrites
  <1>4. /\ Goto(w, "comment") \/ GiveUp(w) \/ Retry(w) \/ End(w)
        /\ pr' = pr \/ pr' \in Refreshed(tick[w].issue)
    BY DEF AgentRun, Push
  <1> QED
    BY <1>1, <1>3, <1>4, RepairStep

-----------------------------------------------------------------------------
(* Landing, evidence and routing *)

\* A merge command lets its tick go on only with a pull request that landed.
LEMMA MergeCommandPreserves ==
  ASSUME IInv, NEW w \in Workers, MergeCommand(w)
  PROVE  IInv'
  <1>1. /\ Types /\ TickOK(w) /\ UNCHANGED <<tracker, wt, runs, moves, changes, unread>>
        /\ tick[w] \in Tick /\ tick[w] # NoTick /\ tick[w].issue \in Issues
        /\ tick[w].pc = "merge"
    BY TickFacts DEF IInv, MergeCommand, Pcs, At
  <1>2. /\ pr' \in [Issues -> Status]
        /\ \A j \in Issues : pr[j].life = "merged" => pr'[j].life = "merged"
    BY <1>1, LandedStep DEF MergeCommand, Types
  <1>3. late' \subseteq Issues /\ faults' \in 0..MaxFaults
    <2>1. late \subseteq Issues /\ faults \in 0..MaxFaults
      BY <1>1 DEF Types
    <2>2. CASE late' = late /\ faults' = faults
      BY <2>1, <2>2
    <2>3. CASE faults < MaxFaults /\ faults' = faults + 1 /\ late' \in {late, late \cup {tick[w].issue}}
      <3>1. faults' \in 0..MaxFaults
        BY <2>1, <2>3, MergeLaneAssumption
      <3>2. late' \subseteq Issues
        BY <1>1, <2>1, <2>3
      <3> QED
        BY <3>1, <3>2
    <2> QED
      BY <2>2, <2>3 DEF MergeCommand
  <1>4. tick' \in Ticks /\ TicksElsewhere(w) /\ TickOK(w)'
    <2>1. CASE End(w)
      BY <1>1, <2>1, EndStep
    <2>2. CASE ~End(w)
      <3>1. pr'[tick[w].issue].life = "merged" /\ Goto(w, "comment")
        BY <1>1, <2>2, LandedStep DEF MergeCommand
      <3>2. /\ tick' \in Ticks /\ TicksElsewhere(w)
            /\ tick'[w].pc = "comment"
            /\ tick'[w].issue = tick[w].issue /\ tick'[w].seen = tick[w].seen
            /\ tick'[w].kind = tick[w].kind /\ tick'[w].to = tick[w].to
        BY <1>1, <3>1, GotoStep DEF Pcs
      <3> QED
        BY <1>1, <3>1, <3>2 DEF TickOK, Decided, Repairing, Concluding
    <2> QED
      BY <2>1, <2>2
  <1>5. Types' /\ Monotone
    BY <1>1, <1>2, <1>3, <1>4 DEF Types, Ticks, Monotone
  <1> QED
    BY <1>4, <1>5, WorkerStep

\* Evidence with the target of the tick's decision is on the issue once its
\* comment was made, or was left out because its marker had been read.
LEMMA CommentMarks ==
  ASSUME IInv, NEW w \in Workers, Comment(w)
  PROVE  /\ tracker' \in [Issues -> Row]
         /\ \A j \in Issues : /\ DOMAIN tracker[j].posted \subseteq DOMAIN tracker'[j].posted
                              /\ tracker'[j].state = tracker[j].state
                              /\ tracker'[j].closed = tracker[j].closed
         /\ \E m \in DOMAIN tracker'[tick[w].issue].posted : m.to = tick[w].to
  <1>1. /\ Types /\ TickOK(w)
        /\ tick[w] \in Tick /\ tick[w] # NoTick /\ tick[w].issue \in Issues
        /\ tick[w].pc = "comment" /\ tick[w].seen \in Snapshot
    BY TickFacts DEF IInv, Comment, Pcs, At
  <1>2. PICK m : m = EvidenceMarker(tick[w])
    OBVIOUS
  <1>3. tick[w].to \in Targets /\ tick[w].seen.claim.run \in Nat
    BY <1>1 DEF Tick, Snapshot, Claim
  <1>4. m \in Marker /\ m.to = tick[w].to
    <2>1. tick[w].kind \in Kinds /\ (Completes(tick[w].kind) <=> tick[w].to = "Done")
      BY <1>1 DEF TickOK, Decided, Concluding
    <2> QED
      BY <1>2, <1>3, <2>1 DEF EvidenceMarker, Marker, Targets
  <1>5. CASE AlreadyPosted(tick[w])
    <2>1. tracker' = tracker
      BY <1>5 DEF Comment
    <2>2. m \in DOMAIN tracker[tick[w].issue].posted
      BY <1>1, <1>2, <1>5 DEF AlreadyPosted, TickOK
    <2> QED
      BY <1>1, <1>4, <2>1, <2>2 DEF Types
  <1>6. CASE ~AlreadyPosted(tick[w])
    <2>1. PICK B \in MarkBags : B = tracker[tick[w].issue].posted
      BY <1>1 DEF Types, Row
    <2>2. PICK C \in MarkBags : C = BagAdd(B, m) /\ DOMAIN C = DOMAIN B \cup {m}
      BY <1>4, OneMoreMark
    <2>3. tracker' = [tracker EXCEPT ![tick[w].issue].posted = C]
      BY <1>2, <1>6, <2>1, <2>2 DEF Comment
    <2>4. /\ tracker' \in [Issues -> Row]
          /\ \A j \in Issues : /\ j # tick[w].issue => tracker'[j].posted = tracker[j].posted
                               /\ tracker'[j].closed = tracker[j].closed
                               /\ tracker'[j].state = tracker[j].state
          /\ tracker'[tick[w].issue].posted = C
      BY <1>1, <2>3, TrackerWrites
    <2> QED
      BY <1>4, <2>1, <2>2, <2>4
  <1> QED
    BY <1>5, <1>6

\* The comment step goes on to the terminal claim, the route or the end.
LEMMA CommentPreserves ==
  ASSUME IInv, NEW w \in Workers, Comment(w)
  PROVE  IInv'
  <1>1. /\ Types /\ TickOK(w) /\ UNCHANGED <<pr, late, wt, runs, budgets>>
        /\ tick[w] \in Tick /\ tick[w] # NoTick /\ tick[w].issue \in Issues
        /\ tick[w].pc = "comment"
    BY TickFacts DEF IInv, Comment, Pcs, At
  <1>2. /\ tracker' \in [Issues -> Row]
        /\ \A j \in Issues : DOMAIN tracker[j].posted \subseteq DOMAIN tracker'[j].posted
        /\ \E m \in DOMAIN tracker'[tick[w].issue].posted : m.to = tick[w].to
    BY CommentMarks
  <1>3. tick' \in Ticks /\ TicksElsewhere(w) /\ TickOK(w)'
    <2>1. CASE AfterComment(tick[w]) = "none"
      BY <1>1, <2>1, EndStep DEF Comment
    <2>2. CASE AfterComment(tick[w]) # "none"
      <3>1. PICK pc \in {"terminal", "route"} :
              /\ pc = AfterComment(tick[w])
              /\ pc = "terminal" => tick[w].kind = "ReadyToMerge"
              /\ pc = "route" => tick[w].to # "none"
        BY <2>2 DEF AfterComment
      <3>2. /\ tick' \in Ticks /\ TicksElsewhere(w)
            /\ tick'[w].pc = pc
            /\ tick'[w].issue = tick[w].issue /\ tick'[w].seen = tick[w].seen
            /\ tick'[w].kind = tick[w].kind /\ tick'[w].to = tick[w].to
        BY <1>1, <2>2, <3>1, GotoStep DEF Comment, Pcs
      <3>3. tick'[w].seen.marks \subseteq DOMAIN tracker'[tick[w].issue].posted
        BY <1>1, <1>2, <3>2 DEF TickOK
      <3> QED
        BY <1>1, <1>2, <3>1, <3>2, <3>3
           DEF TickOK, Decided, Repairing, Concluding, Completes
    <2> QED
      BY <2>1, <2>2
  <1>4. Types' /\ Monotone
    BY <1>1, <1>2, <1>3, SameBudgets DEF Types, Ticks, Monotone
  <1> QED
    BY <1>3, <1>4, WorkerStep

\* The terminal claim leaves the evidence where it is.
LEMMA TerminalClaimPreserves ==
  ASSUME IInv, NEW w \in Workers, TerminalClaim(w)
  PROVE  IInv'
  <1>1. /\ Types /\ TickOK(w) /\ UNCHANGED <<pr, late, wt, runs, budgets>>
        /\ tick[w] \in Tick /\ tick[w] # NoTick /\ tick[w].issue \in Issues
        /\ tick[w].pc = "terminal" /\ Goto(w, "route")
    BY TickFacts DEF IInv, TerminalClaim, Pcs, At
  <1>2. PICK c \in Claim : c = [by |-> w, run |-> tick[w].run, as |-> "Done"]
    BY <1>1 DEF Claim, Tick
  <1>3. tracker' = [tracker EXCEPT ![tick[w].issue].claim = c]
    BY <1>2 DEF TerminalClaim
  <1>4. /\ tracker' \in [Issues -> Row]
        /\ \A j \in Issues : tracker'[j].posted = tracker[j].posted
    BY <1>1, <1>3, TrackerWrites
  <1>5. /\ tick' \in Ticks /\ TicksElsewhere(w)
        /\ tick'[w].pc = "route"
        /\ tick'[w].issue = tick[w].issue /\ tick'[w].seen = tick[w].seen
        /\ tick'[w].kind = tick[w].kind /\ tick'[w].to = tick[w].to
    BY <1>1, GotoStep DEF Pcs
  <1>6. TickOK(w)'
    BY <1>1, <1>4, <1>5 DEF TickOK, Decided, Repairing, Concluding
  <1>7. Types' /\ Monotone
    BY <1>1, <1>4, <1>5, SameBudgets DEF Types, Ticks, Monotone
  <1> QED
    BY <1>5, <1>6, <1>7, WorkerStep

\* The route writes a state of the tracker, and a completing tick goes on.
LEMMA RoutePreserves ==
  ASSUME IInv, NEW w \in Workers, Route(w)
  PROVE  IInv'
  <1>1. /\ Types /\ TickOK(w) /\ UNCHANGED <<pr, late, wt, runs, budgets>>
        /\ tick[w] \in Tick /\ tick[w] # NoTick /\ tick[w].issue \in Issues
        /\ tick[w].pc = "route"
    BY TickFacts DEF IInv, Route, Pcs, At
  <1>2. tick[w].to \in TrackerStates
    BY <1>1 DEF TickOK, Tick, Targets, TrackerStates
  <1>3. /\ tracker' \in [Issues -> Row]
        /\ \A j \in Issues : tracker'[j].posted = tracker[j].posted
    BY <1>1, <1>2, TrackerWrites DEF Route
  <1>4. tick' \in Ticks /\ TicksElsewhere(w) /\ TickOK(w)'
    <2>1. CASE End(w)
      BY <1>1, <2>1, EndStep
    <2>2. CASE ~End(w)
      <3>1. Completes(tick[w].kind) /\ Goto(w, "close")
        BY <2>2 DEF Route
      <3>2. /\ tick' \in Ticks /\ TicksElsewhere(w)
            /\ tick'[w].pc = "close"
            /\ tick'[w].issue = tick[w].issue /\ tick'[w].seen = tick[w].seen
            /\ tick'[w].kind = tick[w].kind /\ tick'[w].to = tick[w].to
        BY <1>1, <3>1, GotoStep DEF Pcs
      <3> QED
        BY <1>1, <1>3, <3>1, <3>2 DEF TickOK, Decided, Repairing, Concluding
    <2> QED
      BY <2>1, <2>2
  <1>5. Types' /\ Monotone
    BY <1>1, <1>3, <1>4, SameBudgets DEF Types, Ticks, Monotone
  <1> QED
    BY <1>4, <1>5, WorkerStep

\* The issue is closed and the tick ends.
LEMMA CloseIssuePreserves ==
  ASSUME IInv, NEW w \in Workers, CloseIssue(w)
  PROVE  IInv'
  <1>1. /\ Types /\ UNCHANGED <<pr, late, wt, runs, budgets>> /\ End(w)
        /\ tick[w].issue \in Issues
    BY TickFacts DEF IInv, CloseIssue, Pcs
  <1>2. /\ tracker' \in [Issues -> Row]
        /\ \A j \in Issues : tracker'[j].posted = tracker[j].posted
    <2>1. CASE tracker' = tracker
      BY <1>1, <2>1 DEF Types
    <2>2. CASE tracker' = [tracker EXCEPT ![tick[w].issue].closed = TRUE]
      BY <1>1, <2>2, TrackerWrites
    <2> QED
      BY <2>1, <2>2 DEF CloseIssue
  <1>3. tick' \in Ticks /\ TicksElsewhere(w) /\ TickOK(w)'
    BY <1>1, EndStep
  <1>4. Types' /\ Monotone
    BY <1>1, <1>2, <1>3, SameBudgets DEF Types, Ticks, Monotone
  <1> QED
    BY <1>3, <1>4, WorkerStep

\* A tick that ends early leaves everything else as it was.
LEMMA AbandonPreserves ==
  ASSUME IInv, NEW w \in Workers, Abandon(w)
  PROVE  IInv'
  <1>1. /\ Types /\ UNCHANGED <<tracker, pr, late, wt, runs, moves, changes, unread>>
        /\ End(w)
    BY DEF IInv, Abandon
  <1>2. faults' \in 0..MaxFaults
    BY <1>1, MergeLaneAssumption DEF Abandon, Types
  <1>3. tick' \in Ticks /\ TicksElsewhere(w) /\ TickOK(w)'
    BY <1>1, EndStep
  <1>4. Types' /\ Monotone
    BY <1>1, <1>2, <1>3 DEF Types, Ticks, Monotone
  <1> QED
    BY <1>3, <1>4, WorkerStep

-----------------------------------------------------------------------------
(* GitHub, the authors and the operator *)

\* A request that is executed late lands like any other.
LEMMA LateMergePreserves ==
  ASSUME IInv, NEW i \in Issues, LateMerge(i)
  PROVE  IInv'
  <1>1. Types /\ UNCHANGED <<tracker, wt, tick, runs, budgets>> /\ late' = late \ {i}
    BY DEF IInv, LateMerge
  <1>2. /\ pr' \in [Issues -> Status]
        /\ \A j \in Issues : pr[j].life = "merged" => pr'[j].life = "merged"
    BY <1>1, LandedStep DEF LateMerge, Types
  <1>3. Types' /\ Monotone
    BY <1>1, <1>2, SameBudgets DEF Types, Monotone
  <1> QED
    BY <1>1, <1>3, OutsideStep

\* Nobody changes a pull request that has landed.
LEMMA PrChangePreserves ==
  ASSUME IInv, NEW i \in Issues, PrChange(i)
  PROVE  IInv'
  <1>1. Types /\ UNCHANGED <<tracker, late, wt, tick, runs, moves, faults, unread>>
    BY DEF IInv, PrChange
  <1>2. PICK face \in Status : pr' = [pr EXCEPT ![i] = face]
    BY MergeLaneAssumption DEF PrChange
  <1>3. /\ pr' \in [Issues -> Status]
        /\ \A j \in Issues : pr[j].life = "merged" => pr'[j].life = "merged"
    BY <1>1, <1>2 DEF PrChange, Types
  <1>4. changes' \in 0..MaxChanges
    BY <1>1, MergeLaneAssumption DEF PrChange, Types
  <1>5. Types' /\ Monotone
    BY <1>1, <1>3, <1>4 DEF Types, Monotone
  <1> QED
    BY <1>1, <1>5, OutsideStep

\* An operator writes a state of the tracker.
LEMMA OperatorMovePreserves ==
  ASSUME IInv, NEW i \in Issues, OperatorMove(i)
  PROVE  IInv'
  <1>1. Types /\ UNCHANGED <<pr, late, wt, tick, runs, changes, faults, unread>>
    BY DEF IInv, OperatorMove
  <1>2. PICK s \in TrackerStates : tracker' = [tracker EXCEPT ![i].state = s]
    BY MergeLaneAssumption DEF OperatorMove
  <1>3. /\ tracker' \in [Issues -> Row]
        /\ \A j \in Issues : tracker'[j].posted = tracker[j].posted
    BY <1>1, <1>2, TrackerWrites
  <1>4. moves' \in 0..MaxMoves
    BY <1>1, MergeLaneAssumption DEF OperatorMove, Types
  <1>5. Types' /\ Monotone
    BY <1>1, <1>3, <1>4 DEF Types, Monotone
  <1> QED
    BY <1>1, <1>5, OutsideStep

-----------------------------------------------------------------------------
(* The invariant *)

\* A lane that starts has no tick and no comment.
LEMMA InitEstablishes == Init => IInv
  <1> SUFFICES ASSUME Init
               PROVE  IInv
    OBVIOUS
  <1>1. PICK owner \in [Issues -> Owners] :
          tracker = [i \in Issues |-> [state |-> "Merging", claim |-> FirstClaim(owner[i]),
                                       closed |-> FALSE, posted |-> EmptyBag]]
    BY DEF Init
  <1>2. EmptyBag \in MarkBags
    <2>1. EmptyBag \in [{} -> Nat \ {0}]
      BY DEF EmptyBag, SetToBag
    <2> QED
      BY <2>1 DEF MarkBags
  <1>3. \A i \in Issues : FirstClaim(owner[i]) \in Claim
    <2>1. \A i \in Issues : owner[i] \in {"nobody", "departed", "operator"}
      BY MergeLaneAssumption
    <2> QED
      BY <2>1 DEF FirstClaim, Claim
  <1>4. tracker \in [Issues -> Row]
    BY <1>1, <1>2, <1>3 DEF Row, TrackerStates
  <1>5. Types
    BY <1>4, MergeLaneAssumption DEF Init, Types
  <1>6. \A w \in Workers : TickOK(w)
    BY DEF Init, TickOK
  <1> QED
    BY <1>5, <1>6 DEF IInv

\* Every step of the lane and of its surroundings preserves the invariant.
LEMMA NextPreserves == IInv /\ [Next]_vars => IInv'
  <1> SUFFICES ASSUME IInv, [Next]_vars
               PROVE  IInv'
    OBVIOUS
  <1>1. ASSUME NEW w \in Workers, Scan(w) \/ Step(w) \/ Abandon(w)
        PROVE  IInv'
    BY <1>1, ScanPreserves, ReadPreserves, WriteClaimPreserves, InspectPreserves,
       UpdatePreserves, RepairPreserves, AgentPreserves, AgentRunPreserves,
       MergeCommandPreserves, CommentPreserves, TerminalClaimPreserves,
       RoutePreserves, CloseIssuePreserves, AbandonPreserves DEF Step
  <1>2. ASSUME NEW i \in Issues, LateMerge(i) \/ PrChange(i) \/ OperatorMove(i)
        PROVE  IInv'
    BY <1>2, LateMergePreserves, PrChangePreserves, OperatorMovePreserves
  <1>3. CASE UNCHANGED vars
    <2>1. Types' /\ Monotone
      BY <1>3 DEF IInv, Types, Monotone, vars
    <2> QED
      BY <1>3, <2>1, OutsideStep DEF vars
  <1> QED
    BY <1>1, <1>2, <1>3 DEF Next

\* The invariant holds in every state the lane reaches.
LEMMA Invariance == Spec => []IInv
  BY InitEstablishes, NextPreserves, PTL DEF Spec

\* A merge is final and a comment stays, whoever acts.
LEMMA NextIsMonotone == IInv /\ [Next]_vars => Monotone
  <1> SUFFICES ASSUME IInv, [Next]_vars
               PROVE  Monotone
    OBVIOUS
  <1>1. Types
    BY DEF IInv
  <1>2. \A j \in Issues : pr[j].life = "merged" => pr'[j].life = "merged"
    <2>1. CASE pr' = pr
      BY <2>1
    <2>2. ASSUME NEW i \in Issues, pr' \in Landed(i) \/ pr' \in Refreshed(i)
          PROVE  \A j \in Issues : pr[j].life = "merged" => pr'[j].life = "merged"
      BY <1>1, <2>2, LandedStep, RefreshedStep
    <2>3. ASSUME NEW i \in Issues, PrChange(i)
          PROVE  \A j \in Issues : pr[j].life = "merged" => pr'[j].life = "merged"
      BY <1>1, <2>3 DEF PrChange, Types
    <2>4. ASSUME NEW w \in Workers, Step(w)
          PROVE  pr' = pr \/ \E i \in Issues : pr' \in Landed(i) \/ pr' \in Refreshed(i)
      <3>1. tick[w].issue \in Issues
        BY <1>1, <2>4, TickFacts DEF Step, Read, WriteClaim, Inspect, Update, Repair, Agent,
           AgentRun, MergeCommand, Comment, TerminalClaim, Route, CloseIssue, Pcs
      <3> QED
        BY <2>4, <3>1 DEF Step, Read, WriteClaim, Inspect, Update, Repair, Agent,
           AgentRun, MergeCommand, Comment, TerminalClaim, Route, CloseIssue, Push
    <2>5. ASSUME NEW i \in Issues, LateMerge(i)
          PROVE  pr' = pr \/ pr' \in Landed(i)
      BY <2>5 DEF LateMerge
    <2> QED
      BY <2>1, <2>2, <2>3, <2>4, <2>5 DEF Next, Scan, Abandon, OperatorMove, vars
  <1>3. \A j \in Issues : DOMAIN tracker[j].posted \subseteq DOMAIN tracker'[j].posted
    <2>1. CASE tracker' = tracker
      BY <2>1
    <2>2. ASSUME NEW w \in Workers, WriteClaim(w) \/ TerminalClaim(w)
          PROVE  \A j \in Issues : tracker'[j].posted = tracker[j].posted
      <3>1. CASE tracker' = tracker
        BY <3>1
      <3>2. CASE tracker' # tracker
        <4>1. /\ tick[w] \in Tick /\ tick[w].issue \in Issues /\ runs \in Nat
              /\ tick[w].seen \in Snapshot
          BY <1>1, <2>2, TickFacts DEF WriteClaim, TerminalClaim, Pcs, Types
        <4>2. PICK c : tracker' = [tracker EXCEPT ![tick[w].issue].claim = c]
          BY <2>2, <3>2 DEF WriteClaim, TerminalClaim
        <4>3. tracker \in [Issues -> Row]
          BY <1>1 DEF Types
        <4> QED
          BY <4>1, <4>2, <4>3 DEF Row
      <3> QED
        BY <3>1, <3>2
    <2>3. ASSUME NEW w \in Workers, Comment(w)
          PROVE  \A j \in Issues : DOMAIN tracker[j].posted \subseteq DOMAIN tracker'[j].posted
      BY <2>3, CommentMarks
    <2>4. ASSUME NEW w \in Workers, Route(w) \/ CloseIssue(w)
          PROVE  \A j \in Issues : tracker'[j].posted = tracker[j].posted
      <3>1. tracker \in [Issues -> Row] /\ tick[w].issue \in Issues
        BY <1>1, <2>4, TickFacts DEF Route, CloseIssue, Pcs, Types
      <3> QED
        BY <2>4, <3>1 DEF Route, CloseIssue, Row
    <2>5. ASSUME NEW i \in Issues, OperatorMove(i)
          PROVE  \A j \in Issues : tracker'[j].posted = tracker[j].posted
      <3>1. tracker \in [Issues -> Row]
        BY <1>1 DEF Types
      <3> QED
        BY <2>5, <3>1 DEF OperatorMove, Row
    <2> QED
      BY <2>1, <2>2, <2>3, <2>4, <2>5 DEF Next, Scan, Step, Read, Inspect, Update, Repair,
         Agent, AgentRun, MergeCommand, Abandon, LateMerge, PrChange, vars
  <1> QED
    BY <1>2, <1>3 DEF Monotone

-----------------------------------------------------------------------------
(* The theorems *)

\* What an operator does by hand is not the lane's doing: here he only sends an
\* issue back to Merging or to Rework.
OperatorLeavesOutcomes == OperatorStates \subseteq {"Merging", "Rework"}

\* Every variable of the lane keeps its declared shape (merge_once_tick and the
\* calls it makes).
THEOREM MergeTypeCorrect == Spec => []TypeOK
  <1>1. ASSUME IInv
        PROVE  TypeOK
    <2>1. Types
      BY <1>1 DEF IInv
    <2>2. ASSUME NEW i \in Issues
          PROVE  /\ tracker[i].state \in TrackerStates
                 /\ tracker[i].claim \in Claim
                 /\ tracker[i].closed \in BOOLEAN
                 /\ IsABag(tracker[i].posted) /\ DOMAIN tracker[i].posted \subseteq Marker
      <3>1. PICK row \in Row : row = tracker[i]
        BY <2>1 DEF Types
      <3>2. row.posted \in MarkBags
        BY DEF Row
      <3>3. PICK M \in SUBSET Marker : row.posted \in [M -> Nat \ {0}]
        BY <3>2 DEF MarkBags
      <3>4. IsABag(row.posted) /\ DOMAIN row.posted \subseteq Marker
        BY <3>3 DEF IsABag
      <3> QED
        BY <3>1, <3>4 DEF Row
    <2>3. ASSUME NEW w \in Workers, tick[w] # NoTick
          PROVE  /\ DOMAIN tick[w] = {"pc", "issue", "seen", "run", "kind", "to"}
                 /\ tick[w].pc \in Pcs /\ tick[w].issue \in Issues
                 /\ tick[w].seen.claim \in Claim /\ tick[w].seen.marks \subseteq Marker
                 /\ tick[w].kind \in Kinds \cup {"none"} /\ tick[w].to \in Targets
      <3>1. tick[w] \in Tick /\ tick[w].seen \in Snapshot
        BY <2>1, <2>3, TickFacts
      <3> QED
        BY <3>1 DEF Tick, Snapshot
    <2> QED
      BY <2>1, <2>2, <2>3 DEF Types, TypeOK
  <1> QED
    BY <1>1, Invariance, PTL

\* Only a tick at its route, or an operator, writes an issue's state.
LEMMA StateWriters ==
  ASSUME IInv, [Next]_vars, NEW i \in Issues, tracker'[i].state # tracker[i].state
  PROVE  \/ \E w \in Workers : Route(w) /\ tick[w].issue = i /\ tracker'[i].state = tick[w].to
         \/ tracker'[i].state \in OperatorStates
  <1>1. Types /\ tracker \in [Issues -> Row]
    BY DEF IInv, Types
  <1>2. ASSUME NEW w \in Workers, WriteClaim(w) \/ TerminalClaim(w) \/ CloseIssue(w)
        PROVE  FALSE
    <2>1. tick[w].issue \in Issues
      BY <1>1, <1>2, TickFacts DEF WriteClaim, TerminalClaim, CloseIssue, Pcs
    <2>2. tracker' # tracker
      OBVIOUS
    <2>3. \/ \E c : tracker' = [tracker EXCEPT ![tick[w].issue].claim = c]
          \/ tracker' = [tracker EXCEPT ![tick[w].issue].closed = TRUE]
      BY <1>2, <2>2 DEF WriteClaim, TerminalClaim, CloseIssue
    <2>4. ASSUME NEW c, tracker' = [tracker EXCEPT ![tick[w].issue].claim = c]
          PROVE  FALSE
      BY <1>1, <2>1, <2>4 DEF Row
    <2>5. CASE tracker' = [tracker EXCEPT ![tick[w].issue].closed = TRUE]
      BY <1>1, <2>1, <2>5, TrackerWrites
    <2> QED
      BY <2>3, <2>4, <2>5
  <1>3. ASSUME NEW w \in Workers, Comment(w)
        PROVE  FALSE
    BY <1>3, CommentMarks
  <1>4. ASSUME NEW w \in Workers, Route(w)
        PROVE  tick[w].issue = i /\ tracker'[i].state = tick[w].to
    <2>1. tick[w].issue \in Issues
      BY <1>1, <1>4, TickFacts DEF Route, Pcs
    <2> QED
      BY <1>1, <1>4, <2>1 DEF Route, Row
  <1>5. ASSUME NEW k \in Issues, OperatorMove(k)
        PROVE  tracker'[i].state \in OperatorStates
    BY <1>1, <1>5 DEF OperatorMove, Row
  <1>6. tracker' # tracker
    OBVIOUS
  <1> QED
    BY <1>2, <1>3, <1>4, <1>5, <1>6 DEF Next, Scan, Step, Read, Inspect, Update, Repair,
       Agent, AgentRun, MergeCommand, Abandon, LateMerge, PrChange, vars

\* Only a tick that closes an issue closes it.
LEMMA Closers ==
  ASSUME IInv, [Next]_vars, NEW i \in Issues, tracker'[i].closed, ~tracker[i].closed
  PROVE  \E w \in Workers : CloseIssue(w) /\ tick[w].issue = i
  <1>1. Types /\ tracker \in [Issues -> Row]
    BY DEF IInv, Types
  <1>2. ASSUME NEW w \in Workers, WriteClaim(w) \/ TerminalClaim(w) \/ Route(w)
        PROVE  FALSE
    <2>1. tick[w].issue \in Issues
      BY <1>1, <1>2, TickFacts DEF WriteClaim, TerminalClaim, Route, Pcs
    <2>2. tracker' # tracker
      OBVIOUS
    <2>3. \/ \E c : tracker' = [tracker EXCEPT ![tick[w].issue].claim = c]
          \/ \E s : tracker' = [tracker EXCEPT ![tick[w].issue].state = s]
      BY <1>2, <2>2 DEF WriteClaim, TerminalClaim, Route
    <2> QED
      BY <1>1, <2>1, <2>3 DEF Row
  <1>3. ASSUME NEW w \in Workers, Comment(w)
        PROVE  FALSE
    BY <1>3, CommentMarks
  <1>4. ASSUME NEW w \in Workers, CloseIssue(w)
        PROVE  tick[w].issue = i
    <2>1. tick[w].issue \in Issues
      BY <1>1, <1>4, TickFacts DEF CloseIssue, Pcs
    <2> QED
      BY <1>1, <1>4, <2>1 DEF CloseIssue, Row
  <1>5. ASSUME NEW k \in Issues, OperatorMove(k)
        PROVE  FALSE
    BY <1>1, <1>5 DEF OperatorMove, Row
  <1>6. tracker' # tracker
    OBVIOUS
  <1> QED
    BY <1>2, <1>3, <1>4, <1>5, <1>6 DEF Next, Scan, Step, Read, Inspect, Update, Repair,
       Agent, AgentRun, MergeCommand, Abandon, LateMerge, PrChange, vars

\* An issue is Done or closed only when its pull request has landed, for any
\* number of loops, lost answers and late merges, as long as no operator moves
\* it to Done (record_done_merge_lane_completion, set_merge_state_with_recovery,
\* close_completed_issue).
THEOREM DoneIsLanded ==
  ASSUME OperatorLeavesOutcomes
  PROVE  Spec => []DoneMeansLanded
  <1>1. Init => DoneMeansLanded
    BY DEF Init, DoneMeansLanded
  <1>2. IInv /\ DoneMeansLanded /\ [Next]_vars => DoneMeansLanded'
    <2> SUFFICES ASSUME IInv, DoneMeansLanded, [Next]_vars, NEW i \in Issues,
                        tracker'[i].state = "Done" \/ tracker'[i].closed
                 PROVE  pr'[i].life = "merged"
      BY DEF DoneMeansLanded
    <2> SUFFICES pr[i].life = "merged"
      BY NextIsMonotone DEF Monotone
    <2>1. CASE tracker[i].state = "Done" \/ tracker[i].closed
      BY <2>1 DEF DoneMeansLanded
    <2>2. CASE tracker'[i].state = "Done" /\ tracker[i].state # "Done"
      <3>1. PICK w \in Workers : Route(w) /\ tick[w].issue = i /\ tick[w].to = "Done"
        BY <2>2, StateWriters DEF OperatorLeavesOutcomes
      <3>2. tick[w] # NoTick /\ tick[w].pc = "route" /\ TickOK(w)
        BY <3>1, TickFacts DEF Route, At, Pcs, IInv
      <3> QED
        BY <3>1, <3>2 DEF TickOK, Decided, Concluding
    <2>3. CASE tracker'[i].closed /\ ~tracker[i].closed
      <3>1. PICK w \in Workers : CloseIssue(w) /\ tick[w].issue = i
        BY <2>3, Closers
      <3>2. tick[w] # NoTick /\ tick[w].pc = "close" /\ TickOK(w)
        BY <3>1, TickFacts DEF CloseIssue, At, Pcs, IInv
      <3> QED
        BY <3>1, <3>2 DEF TickOK, Concluding
    <2> QED
      BY <2>1, <2>2, <2>3
  <1> QED
    BY <1>1, <1>2, Invariance, PTL DEF Spec

\* Evidence that names the target is on the issue before it is sent to Done or
\* to Need Human Input, although a tick may leave out its comment because of a
\* marker it read long before (record_merge_timeline_comment_with_recovery,
\* set_merge_state_with_recovery).
THEOREM EvidenceComesFirst ==
  ASSUME OperatorLeavesOutcomes
  PROVE  Spec => []EvidencePrecedesRouting
  <1>1. Init => EvidencePrecedesRouting
    BY DEF Init, EvidencePrecedesRouting
  <1>2. IInv /\ EvidencePrecedesRouting /\ [Next]_vars => EvidencePrecedesRouting'
    <2> SUFFICES ASSUME IInv, EvidencePrecedesRouting, [Next]_vars, NEW i \in Issues,
                        tracker'[i].state \in {"Done", "NeedHumanInput"}
                 PROVE  \E m \in DOMAIN tracker'[i].posted : m.to = tracker'[i].state
      BY DEF EvidencePrecedesRouting
    <2> SUFFICES \E m \in DOMAIN tracker[i].posted : m.to = tracker'[i].state
      BY NextIsMonotone DEF Monotone
    <2>1. CASE tracker'[i].state = tracker[i].state
      BY <2>1 DEF EvidencePrecedesRouting
    <2>2. CASE tracker'[i].state # tracker[i].state
      <3>1. PICK w \in Workers : /\ Route(w) /\ tick[w].issue = i
                                 /\ tracker'[i].state = tick[w].to
        BY <2>2, StateWriters DEF OperatorLeavesOutcomes
      <3>2. tick[w] # NoTick /\ tick[w].pc = "route" /\ TickOK(w)
        BY <3>1, TickFacts DEF Route, At, Pcs, IInv
      <3> QED
        BY <3>1, <3>2 DEF TickOK
    <2> QED
      BY <2>1, <2>2
  <1> QED
    BY <1>1, <1>2, Invariance, PTL DEF Spec

\* A tick that is about to hand the conflict to its agent has no merge of its
\* own in progress: the mechanical repair aborted the ones left before.
AgentStartsReleased ==
  \A w \in Workers :
    tick[w] # NoTick /\ At(w, "agent") => w \notin wt[tick[w].issue]

\* Only the loop itself begins a merge under its name, and then goes on to it.
LEMMA MergeBegins ==
  ASSUME IInv, [Next]_vars, NEW w \in Workers, NEW i \in Issues,
         w \in wt'[i], w \notin wt[i]
  PROVE  Agent(w) /\ Goto(w, "agentRun")
  <1>1. Types /\ wt \in [Issues -> Worktree]
    BY DEF IInv, Types
  <1>2. ASSUME NEW v \in Workers, Agent(v)
        PROVE  v = w /\ Goto(v, "agentRun")
    <2>1. tick[v].issue \in Issues
      BY <1>1, <1>2, TickFacts DEF Agent, Pcs
    <2>2. wt' # wt
      OBVIOUS
    <2>3. PICK left \in SUBSET {"files", "stuck"} :
            /\ wt' = [wt EXCEPT ![tick[v].issue] = {v} \cup left]
            /\ Goto(v, "agentRun")
      BY <1>2, <2>2 DEF Agent
    <2>4. wt'[i] = {v} \cup left
      BY <1>1, <2>1, <2>3
    <2>5. "files" # w /\ "stuck" # w
      BY MergeLaneAssumption
    <2> QED
      BY <2>3, <2>4, <2>5
  <1>3. ASSUME NEW v \in Workers, Repair(v) \/ AgentRun(v)
        PROVE  FALSE
    <2>1. tick[v].issue \in Issues
      BY <1>1, <1>3, TickFacts DEF Repair, AgentRun, Pcs
    <2>2. \/ wt' = wt
          \/ wt' = [wt EXCEPT ![tick[v].issue] = Aborted(wt[tick[v].issue])]
          \/ wt' = [wt EXCEPT ![tick[v].issue] = Committed(wt[tick[v].issue])]
      BY <1>3 DEF Repair, AgentRun
    <2> QED
      BY <1>1, <2>1, <2>2 DEF Aborted, Committed
  <1>4. wt' # wt
    OBVIOUS
  <1> QED
    BY <1>2, <1>3, <1>4 DEF Next, Scan, Step, Read, WriteClaim, Inspect, Update,
       MergeCommand, Comment, TerminalClaim, Route, CloseIssue, Abandon,
       LateMerge, PrChange, OperatorMove, vars

\* A tick moves on only by its own steps.
LEMMA OwnSteps ==
  ASSUME IInv, [Next]_vars, NEW w \in Workers, tick'[w] # tick[w]
  PROVE  Scan(w) \/ Step(w) \/ Abandon(w)
  <1>1. tick \in Ticks
    BY DEF IInv, Types, Ticks
  <1>2. ASSUME NEW v \in Workers, v # w, Scan(v) \/ Step(v) \/ Abandon(v)
        PROVE  tick'[w] = tick[w]
    BY <1>1, <1>2 DEF Scan, Step, Abandon, Read, WriteClaim, Inspect, Update, Repair,
       Agent, AgentRun, MergeCommand, Comment, TerminalClaim, Route, CloseIssue,
       Push, GiveUp, Retry, Resolve, Goto, End, Ticks
  <1>3. tick' # tick
    OBVIOUS
  <1> QED
    BY <1>2, <1>3 DEF Next, LateMerge, PrChange, OperatorMove, vars

\* What a step of the repair leaves of the loop's own merges.
LEMMA RepairReleases ==
  ASSUME IInv, NEW w \in Workers, tick[w].issue \in Issues
  PROVE  /\ Repair(w) \/ AgentRun(w) =>
              \/ w \notin wt'[tick[w].issue]
              \/ "stuck" \in wt'[tick[w].issue]
              \/ tick'[w] = NoTick
         /\ Repair(w) /\ Goto(w, "agent") => w \notin wt'[tick[w].issue]
  <1> DEFINE i == tick[w].issue
  <1>1. wt \in [Issues -> Worktree] /\ tick \in Ticks
    BY DEF IInv, Types, Ticks
  <1>2. /\ wt' = [wt EXCEPT ![i] = Aborted(wt[i])] => wt'[i] = Aborted(wt[i])
        /\ wt' = [wt EXCEPT ![i] = Committed(wt[i])] => wt'[i] = Committed(wt[i])
    BY <1>1
  <1>3. End(w) => tick'[w] = NoTick
    BY <1>1 DEF End, Ticks
  <1>4. w \notin Committed(wt[i])
    BY DEF Committed
  <1>5. w \in Aborted(wt[i]) => "stuck" \in Aborted(wt[i])
    BY DEF Aborted
  <1>6. Repair(w) => wt'[i] = Aborted(wt[i])
    BY <1>2 DEF Repair
  <1>7. AgentRun(w) => \/ wt'[i] = Aborted(wt[i]) \/ wt'[i] = Committed(wt[i])
                       \/ End(w)
    BY <1>2 DEF AgentRun
  <1>8. ASSUME Repair(w), Goto(w, "agent")
        PROVE  w \notin wt'[i]
    <2>1. At(w, "repair") /\ tick[w] \in Tick
      BY <1>8, TickFacts DEF IInv, Repair, Pcs
    <2>2. tick'[w].pc = "agent"
      BY <1>8, <2>1, GotoStep DEF IInv, Pcs
    <2>3. ~End(w)
      BY <1>3, <2>2 DEF NoTick
    <2>4. ~GiveUp(w)
      <3>1. GiveUp(w) => tick'[w].pc = "comment"
        BY <2>1, ResolveStep DEF IInv, GiveUp, Pcs, Kinds, Targets
      <3> QED
        BY <2>2, <3>1
    <2>5. Aborted(wt[i]) = {}
      BY <1>8, <2>3, <2>4 DEF Repair
    <2> QED
      BY <1>6, <1>8, <2>5
  <1> QED
    BY <1>3, <1>4, <1>5, <1>6, <1>7, <1>8

\* A step that brings a tick to the agent is the mechanical repair.
LEMMA AgentIsReached ==
  ASSUME IInv, NEW w \in Workers, Scan(w) \/ Step(w) \/ Abandon(w), tick'[w].pc = "agent"
  PROVE  Repair(w) /\ Goto(w, "agent") /\ tick'[w].issue = tick[w].issue
  <1>1. Types
    BY DEF IInv
  <1>2. tick \in Ticks
    BY <1>1 DEF Types, Ticks
  <1>3. ~End(w)
    BY <1>2 DEF End, Ticks, NoTick
  <1>4. ASSUME tick[w] \in Tick
        PROVE  ~GiveUp(w) /\ ~Retry(w) /\ \A pc \in Pcs : Goto(w, pc) => pc = "agent"
    <2>1. ~GiveUp(w)
      BY <1>1, <1>4, ResolveStep DEF GiveUp, Pcs, Kinds, Targets
    <2>2. ~Retry(w)
      BY <1>1, <1>4, ResolveStep DEF Retry, Pcs, Kinds, Targets
    <2>3. \A pc \in Pcs : Goto(w, pc) => pc = "agent"
      BY <1>1, <1>4, GotoStep
    <2> QED
      BY <2>1, <2>2, <2>3
  <1>5. ASSUME NEW pc \in Pcs, At(w, pc)
        PROVE  tick[w] \in Tick
    BY <1>1, <1>5, TickFacts
  <1>6. ~Scan(w) /\ ~Abandon(w)
    BY <1>2, <1>3 DEF Scan, Abandon, Ticks
  <1>7. ~Read(w) /\ ~WriteClaim(w)
    <2>1. ASSUME tick[w] \in Tick, NEW t, tick' = [tick EXCEPT ![w] = t], t.pc # "agent"
          PROVE  FALSE
      BY <1>2, <2>1 DEF Ticks
    <2>2. ASSUME Read(w)
          PROVE  FALSE
      <3>1. tick[w] \in Tick
        BY <1>5, <2>2 DEF Read, Pcs
      <3>2. PICK seen : tick' = [tick EXCEPT ![w].pc = "claim", ![w].seen = seen]
        BY <1>3, <2>2 DEF Read
      <3>3. PICK t : t = [tick[w] EXCEPT !.pc = "claim", !.seen = seen]
        OBVIOUS
      <3>4. t.pc = "claim"
        BY <3>1, <3>3 DEF Tick
      <3>5. tick' = [tick EXCEPT ![w] = t]
        BY <1>2, <3>2, <3>3 DEF Ticks
      <3> QED
        BY <2>1, <3>1, <3>4, <3>5
    <2>3. ASSUME WriteClaim(w)
          PROVE  FALSE
      <3>1. tick[w] \in Tick
        BY <1>5, <2>3 DEF WriteClaim, Pcs
      <3>2. PICK run : tick' = [tick EXCEPT ![w].pc = "inspect", ![w].run = run]
        BY <2>3 DEF WriteClaim
      <3>3. PICK t : t = [tick[w] EXCEPT !.pc = "inspect", !.run = run]
        OBVIOUS
      <3>4. t.pc = "inspect"
        BY <3>1, <3>3 DEF Tick
      <3>5. tick' = [tick EXCEPT ![w] = t]
        BY <1>2, <3>2, <3>3 DEF Ticks
      <3> QED
        BY <2>1, <3>1, <3>4, <3>5
    <2> QED
      BY <2>2, <2>3
  <1>8. ~Inspect(w)
    <2> SUFFICES ASSUME Inspect(w)
                 PROVE  FALSE
      OBVIOUS
    <2>1. tick[w] \in Tick
      BY <1>5 DEF Inspect, Pcs
    <2>2. PICK kind, to : Resolve(w, FirstStep(kind), kind, to)
      BY DEF Inspect
    <2>3. tick'[w].pc = FirstStep(kind)
      BY <1>2, <2>1, <2>2 DEF Resolve, Ticks, Tick
    <2> QED
      BY <2>3 DEF FirstStep
  <1>9. ~Update(w)
    BY <1>4, <1>5 DEF Update, GiveUp, Pcs
  <1>10. ~Agent(w) /\ ~AgentRun(w)
    BY <1>3, <1>4, <1>5 DEF Agent, AgentRun, Push, Pcs
  <1>11. ~MergeCommand(w)
    BY <1>3, <1>4, <1>5 DEF MergeCommand, Pcs
  <1>12. ~Comment(w)
    BY <1>3, <1>4, <1>5 DEF Comment, AfterComment, Pcs
  <1>13. ~TerminalClaim(w) /\ ~Route(w) /\ ~CloseIssue(w)
    BY <1>3, <1>4, <1>5 DEF TerminalClaim, Route, CloseIssue, Pcs
  <1>14. Repair(w)
    BY <1>6, <1>7, <1>8, <1>9, <1>10, <1>11, <1>12, <1>13 DEF Step
  <1>15. tick[w] \in Tick
    BY <1>5, <1>14 DEF Repair, Pcs
  <1>16. Goto(w, "agent")
    <2>1. \/ Goto(w, "comment") \/ Goto(w, "agent")
      BY <1>3, <1>4, <1>14, <1>15 DEF Repair, Push
    <2> QED
      BY <1>4, <1>15, <2>1 DEF Pcs
  <1>17. tick'[w].issue = tick[w].issue
    BY <1>1, <1>15, <1>16, GotoStep DEF Pcs
  <1> QED
    BY <1>14, <1>16, <1>17

\* No tick hands the conflict to its agent over a merge of its own.
LEMMA AgentsStartReleased ==
  IInv /\ AgentStartsReleased /\ [Next]_vars => AgentStartsReleased'
  <1> SUFFICES ASSUME IInv, AgentStartsReleased, [Next]_vars, NEW w \in Workers,
                      tick'[w] # NoTick, tick'[w].pc = "agent"
               PROVE  w \notin wt'[tick'[w].issue]
    BY DEF AgentStartsReleased, At
  <1>1. Types /\ tick \in Ticks
    BY DEF IInv, Types, Ticks
  <1>2. CASE tick'[w] = tick[w]
    <2>1. tick[w] # NoTick /\ At(w, "agent") /\ tick[w].issue \in Issues
      BY <1>1, <1>2, TickFacts DEF At
    <2>2. w \notin wt[tick[w].issue]
      BY <2>1 DEF AgentStartsReleased
    <2>3. ~Goto(w, "agentRun")
      <3>1. Goto(w, "agentRun") => tick'[w].pc = "agentRun"
        BY <1>1, <2>1, GotoStep, TickFacts DEF Pcs
      <3> QED
        BY <3>1
    <2> QED
      BY <1>2, <2>1, <2>2, <2>3, MergeBegins
  <1>3. CASE tick'[w] # tick[w]
    <2>1. Scan(w) \/ Step(w) \/ Abandon(w)
      BY <1>3, OwnSteps
    <2>2. Repair(w) /\ Goto(w, "agent") /\ tick'[w].issue = tick[w].issue
      BY <2>1, AgentIsReached
    <2>3. tick[w].issue \in Issues
      BY <1>1, <2>2, TickFacts DEF Repair, Pcs
    <2> QED
      BY <2>2, <2>3, RepairReleases
  <1> QED
    BY <1>2, <1>3

\* A conflict repair that reports its outcome leaves no merge of its loop in
\* progress, unless git refuses the abort: the code's error returns leave one,
\* and the loop's next repair ends it (run_merge_agent_conflict_repair,
\* repair_dirty_pull_request, abort_interrupted_merge_repair).
THEOREM WorktreesAreReleased == Spec => WorktreeIsReleased
  <1> DEFINE Released ==
        \A w \in Workers :
          LET i == tick[w].issue IN
          /\ tick[w].pc \in {"repair", "agent", "agentRun"} /\ tick'[w].pc = "comment"
          /\ w \in wt'[i]
          => "stuck" \in wt'[i]
  <1>1. Init => AgentStartsReleased
    BY DEF Init, AgentStartsReleased
  <1>2. IInv /\ AgentStartsReleased /\ [Next]_vars => [Released]_vars
    <2> SUFFICES ASSUME IInv, AgentStartsReleased, [Next]_vars, NEW w \in Workers,
                        tick[w].pc \in {"repair", "agent", "agentRun"},
                        tick'[w].pc = "comment",
                        w \in wt'[tick[w].issue]
                 PROVE  "stuck" \in wt'[tick[w].issue]
      OBVIOUS
    <2>1. /\ Types /\ tick[w] \in Tick /\ tick[w] # NoTick
          /\ tick[w].issue \in Issues
      BY TickFacts DEF IInv, At, Pcs
    <2>2. Step(w)
      <3>1. tick'[w] # tick[w]
        OBVIOUS
      <3>2. ~Abandon(w)
        BY <2>1 DEF Abandon, End, Types, NoTick
      <3>3. ~Scan(w)
        BY <2>1 DEF Scan
      <3> QED
        BY <3>1, <3>2, <3>3, OwnSteps
    <2>3. Repair(w) \/ Agent(w) \/ AgentRun(w)
      BY <2>2 DEF Step, Read, WriteClaim, Inspect, Update, MergeCommand, Comment,
         TerminalClaim, Route, CloseIssue, At
    <2>4. CASE Repair(w) \/ AgentRun(w)
      <3>1. tick'[w] # NoTick
        BY DEF NoTick
      <3> QED
        BY <2>1, <2>4, <3>1, RepairReleases
    <2>5. CASE Agent(w)
      <3>1. w \notin wt[tick[w].issue]
        BY <2>1, <2>5 DEF AgentStartsReleased, Agent
      <3>2. Goto(w, "agentRun")
        BY <2>1, <3>1, MergeBegins
      <3> QED
        BY <2>1, <3>2, GotoStep DEF Pcs
    <2> QED
      BY <2>3, <2>4, <2>5
  <1>3. Init => IInv
    BY InitEstablishes
  <1> QED
    BY <1>1, <1>2, <1>3, AgentsStartReleased, NextPreserves, PTL
       DEF Spec, WorktreeIsReleased
=============================================================================

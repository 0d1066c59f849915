---------------------------- MODULE ExecutionView ----------------------------
(***************************************************************************)
(* What the local index promises to its readers, without runs, clocks,     *)
(* requests or reconcilers: for every workflow an authoritative chain of   *)
(* executions that only grows, and a view of it that is empty at first and *)
(* then only catches up - it shows a point the chain has really been at,   *)
(* never goes back, and closes only when the chain has closed.  Open views *)
(* exclude each other among the workflows of one issue.                    *)
(***************************************************************************)
EXTENDS Naturals

CONSTANTS Workflows,      \* workflow identities
          Compete(_, _)   \* two workflows belong to the same issue

VARIABLES chain, view     \* workflow -> [run, closed]; run 0: nothing yet

Point == [run : Nat, closed : BOOLEAN]
Empty == [run |-> 0, closed |-> FALSE]

\* The order in which a chain passes its points.
Before(p, q) ==
    \/ p.run < q.run
    \/ p.run = q.run /\ ~p.closed /\ q.closed

Init ==
    /\ chain = [w \in Workflows |-> Empty]
    /\ view  = [w \in Workflows |-> Empty]

\* The authority starts, continues or closes an execution.
Grow(w) ==
    /\ ~chain[w].closed
    /\ \/ chain' = [chain EXCEPT ![w].run = chain[w].run + 1]
       \/ /\ chain[w].run > 0
          /\ chain' = [chain EXCEPT ![w].closed = TRUE]
    /\ UNCHANGED view

IsOpenView(w) == view[w].run > 0 /\ ~view[w].closed

\* The view catches up, partly or fully; a first open view needs its issue free.
CatchUp(w, point) ==
    /\ ~view[w].closed
    /\ Before(view[w], point)
    /\ point = chain[w] \/ Before(point, chain[w])
    /\ point.closed => point = chain[w]
    /\ (view[w] = Empty /\ ~point.closed) =>
          \A v \in Workflows \ {w} : Compete(v, w) => ~IsOpenView(v)
    /\ view' = [view EXCEPT ![w] = point]
    /\ UNCHANGED chain

Next == \E w \in Workflows :
            \/ Grow(w)
            \/ \E n \in 0..chain[w].run, c \in BOOLEAN :
                  CatchUp(w, [run |-> n, closed |-> c])

Spec == Init /\ [][Next]_<<chain, view>>
=============================================================================

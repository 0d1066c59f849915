--------------------------- MODULE SessionRegistry ---------------------------
(***************************************************************************)
(* The session registry: a file with one record per agent session, read     *)
(* and rewritten as a whole, and what its readers conclude from a record,   *)
(* the age of the record and the screen of a tmux session.                  *)
(***************************************************************************)
EXTENDS Naturals, Sequences

Statuses == {"Starting", "Running", "Waiting", "UsageLimited", "Failed", "Completed",
             "Recorded", "Stale", "Unknown"}

\* What the last lines of a pane, or of its log if the pane is silent, look
\* like: the first phrase of the code's list that they contain.
Screens == {"empty", "limit", "question", "finished", "error", "loading", "busy", "quiet"}

\* kind "manual" is the evidence of a manual claim.  agent is the process or
\* tmux session it stands for, old that it was not updated for
\* session_stale_after_ms.
Record(Agents, Runs) ==
  [name : {"thread", "pane", "claim"} \X Nat, kind : {"codex", "claude", "tmux", "manual"},
   agent : Agents, run : Runs, attempt : Nat, status : Statuses, old : BOOLEAN]

Newest(S) == CHOOSE k \in S : \A j \in S : j <= k

SaveRecord(reg, rec) ==
  LET same == {k \in DOMAIN reg : reg[k].name = rec.name} IN
  IF same = {} THEN Append(reg, rec) ELSE [k \in DOMAIN reg |-> IF k \in same THEN rec ELSE reg[k]]

UpdateStatus(reg, name, status) ==
  [k \in DOMAIN reg |-> IF reg[k].name = name
                        THEN [reg[k] EXCEPT !.status = status, !.old = FALSE] ELSE reg[k]]

\* Records of the issue that are still open are rewritten in a copy of the
\* registry, which is then saved as a whole.
Closing(reg, open, status) ==
  [k \in DOMAIN reg |-> IF k \in open THEN [reg[k] EXCEPT !.status = status, !.old = FALSE]
                                       ELSE reg[k]]

\* classify_session_output; a screen that says nothing has no status.
OutputStatus(screen) ==
  [empty |-> "Starting", limit |-> "UsageLimited", question |-> "Waiting",
   finished |-> "Completed", error |-> "Failed", loading |-> "Starting",
   busy |-> "Running", quiet |-> "none"][screen]

\* classify_session_record: a closed record, the screen, the age, and only
\* then what the record says.  "none" stands for backends without a screen.
Classify(rec, screen) ==
  IF rec.status \in {"Completed", "Recorded"} THEN rec.status
  ELSE IF screen \notin {"none", "quiet"} THEN OutputStatus(screen)
  ELSE IF rec.old /\ rec.status # "Failed" THEN "Stale"
  ELSE IF screen = "quiet" THEN "Unknown"
  ELSE rec.status

\* Mutant of CountsAsActive: an agent that waits for its usage limit is idle.
MutCountsAsActiveBusy(status) == status \in {"Starting", "Running", "Waiting"}

\* A question, a usage limit and an unknown screen count as a worker.
CountsAsActive(status) ==
  status \in {"Starting", "Running", "Waiting", "UsageLimited", "Unknown"}
Priority(status) ==
  [Starting |-> 1, Running |-> 0, Waiting |-> 2, UsageLimited |-> 3, Unknown |-> 4,
   Completed |-> 5, Recorded |-> 5, Failed |-> 5, Stale |-> 5, error |-> 5][status]

RegisteredMain(rec) == rec.kind # "manual"
=============================================================================

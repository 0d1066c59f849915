---------------------------- MODULE AgentBackends ----------------------------
(***************************************************************************)
(* The drivers of the coding agents.  A driver starts a process, reads what *)
(* it says until the run is over and reports events; texts are reduced to   *)
(* the kind of line they are.  Claude speaks stream-json, Codex JSON-RPC    *)
(* (its app server), tmux only takes keystrokes, and a plain subprocess     *)
(* only exits.                                                              *)
(***************************************************************************)
EXTENDS Naturals

Kinds == {"codex", "claude", "tmux", "subprocess"}
Structured == {"codex", "claude"}

\* ev: what has been reported.  "usage" and "stall" are failures whose text
\* speaks of a usage limit, or of a turn without events.
Events == {"started", "completed", "failed", "usage", "stall"}
FirstPhase == [codex |-> "initialize", claude |-> "fresh", tmux |-> "new", subprocess |-> "wait"]
Phases == {"initialize", "thread", "turn", "wait", "fresh", "open", "terminal",
           "new", "pipe", "record", "ready", "paste", "submit", "ended"}
Run == [kind : Kinds, phase : Phases, ev : SUBSET Events, resume : BOOLEAN]
Prepared(kind, resume) == [kind |-> kind, phase |-> FirstPhase[kind], ev |-> {}, resume |-> resume]

Report(r, phase, ev) == [r EXCEPT !.phase = phase, !.ev = @ \cup ev]
Fail(r, ev) == Report(r, "ended", {"failed"} \cup ev)

-----------------------------------------------------------------------------
(* Claude Code, stream-json *)

ClaudeFinals == {"success", "failure", "usage", "error"}
ClaudeLines == {"init", "message", "other", "foreign", "malformed"} \cup ClaudeFinals
ClaudeInputs == ClaudeLines \cup {"exit", "badExit", "timeout"}

\* A second initialization, another session, or anything but an
\* initialization, an error or an unknown event before the first one.
ClaudeOutOfOrder(r, line) ==
  \/ r.phase = "terminal"
  \/ line = "malformed"
  \/ r.phase = "fresh" /\ line \in {"message", "success", "failure", "usage"}
  \/ r.phase = "open" /\ line \in {"init", "foreign"}

ClaudeLine(r, line) ==
  IF ClaudeOutOfOrder(r, line) THEN Fail(r, {})
  ELSE IF line = "init" THEN Report(r, "open", {"started"})
  ELSE IF line = "success" THEN Report(r, "terminal", {"completed"})
  ELSE IF line = "usage" THEN Report(r, "terminal", {"failed", "usage"})
  ELSE IF line \in {"failure", "error"} THEN Report(r, "terminal", {"failed"})
  ELSE r

\* The end of the stream.  A timeout or a bad line kills the process group.
ClaudeEnd(r, exit) ==
  IF exit = "exit" /\ r.phase = "terminal" THEN [r EXCEPT !.phase = "ended"]
                                           ELSE Fail(r, {})

Claude(r, in) == IF in \in ClaudeLines THEN ClaudeLine(r, in) ELSE ClaudeEnd(r, in)

\* Success takes a completion and no failure at all.
ClaudeStatus(r) ==
  IF "completed" \in r.ev /\ "failed" \notin r.ev THEN "Completed"
  ELSE IF "usage" \in r.ev THEN "UsageLimited" ELSE "Failed"

-----------------------------------------------------------------------------
(* Codex app server, JSON-RPC *)

\* A turn that failed or was cancelled, a question for the operator, a
\* request of the server that nobody serves, a line that is no JSON.
FailClosed == {"failure", "usage", "cancelled", "inputRequired", "request", "malformed"}
AppServerInputs == FailClosed \cup
  {"response", "mismatch", "success", "notification", "exit", "timeout", "stall"}
NextPhase == [initialize |-> "thread", thread |-> "turn", turn |-> "wait"]

\* The answer to a request: an error, or another thread than the one to be
\* resumed, ends the run.
AwaitResponse(r, in) ==
  IF in = "response"
  THEN Report(r, NextPhase[r.phase], IF r.phase = "turn" THEN {"started"} ELSE {})
  ELSE IF in = "mismatch" THEN Fail(r, {})
  ELSE IF in = "success" THEN Report(r, r.phase, {"completed"})
  ELSE r

AwaitTerminal(r, in) ==
  IF in = "success" THEN Report(r, "ended", {"completed"})
  ELSE IF in = "stall" THEN Fail(r, {"stall"})
  ELSE r

AppServer(r, in) ==
  IF in \in FailClosed THEN Fail(r, {in} \cap {"usage"})
  ELSE IF in \in {"exit", "timeout"} THEN Fail(r, {})
  ELSE IF r.phase = "wait" THEN AwaitTerminal(r, in) ELSE AwaitResponse(r, in)

\* After the protocol the server is killed; one that had exited with an error
\* by itself adds a failure.
FinishAppServer(r, nonzero) ==
  IF nonzero /\ "failed" \notin r.ev THEN Fail(r, {}) ELSE r

\* Mutant of AppServerStatus: an unknown end is taken for a completion.
MutAppServerStatusHopeful(r) ==
  IF "usage" \in r.ev THEN "UsageLimited"
  ELSE IF "stall" \in r.ev \/ "completed" \in r.ev THEN "Completed" ELSE "Failed"

\* A completion counts even if a failure was reported as well.
AppServerStatus(r) ==
  IF "completed" \in r.ev THEN "Completed"
  ELSE IF "usage" \in r.ev THEN "UsageLimited" ELSE "Failed"

-----------------------------------------------------------------------------
(* tmux and plain subprocesses *)

\* new-session, pipe-pane, the registry record, readiness of the agent's
\* screen, paste of the prompt, Enter.  Nothing undoes an earlier step.
TmuxNext == [new |-> "pipe", pipe |-> "record", record |-> "ready", ready |-> "paste",
             paste |-> "submit", submit |-> "ended"]
Tmux(r, in) ==
  IF in # "ok" THEN Fail(r, {})
  ELSE Report(r, TmuxNext[r.phase], IF r.phase = "new" THEN {"started"} ELSE {})

Subprocess(r, in) ==
  IF in = "exit" THEN Report(r, "ended", {"started", "completed"})
                 ELSE Fail(r, {"started"} \cup ({in} \cap {"usage"}))

-----------------------------------------------------------------------------
(* All of them *)

Inputs(r) ==
  IF r.kind = "claude" THEN ClaudeInputs
  ELSE IF r.kind = "codex" THEN AppServerInputs
  ELSE IF r.kind = "tmux" THEN {"ok", "fail"} ELSE {"exit", "badExit", "usage", "timeout"}

Step(r, in) ==
  IF r.kind = "claude" THEN Claude(r, in)
  ELSE IF r.kind = "codex" THEN AppServer(r, in)
  ELSE IF r.kind = "tmux" THEN Tmux(r, in) ELSE Subprocess(r, in)

FinalStatus(r) == IF r.kind = "codex" THEN AppServerStatus(r) ELSE ClaudeStatus(r)

\* What the caller is told.  A tmux session that could be started is pending.
Summary(r) ==
  IF r.kind = "tmux" /\ "failed" \notin r.ev THEN "pending"
  ELSE IF "completed" \in r.ev /\ "failed" \notin r.ev THEN "success"
  ELSE IF "usage" \in r.ev THEN "usageLimit"
  ELSE IF "stall" \in r.ev THEN "stall" ELSE "failed"
=============================================================================

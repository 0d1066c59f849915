---------------------------- MODULE MCWorkspaces ----------------------------
(* Workspaces with the processes of one host.  Every backend, role and       *)
(* history occurs, though not in every combination.                          *)
EXTENDS Workspaces
MCProcs == {"loop", "cmd"}
MCCase(b, r, h) == [backend |-> b, role |-> r, past |-> h]
MCCases ==
  { MCCase("codex", "single", "foreign"), MCCase("codex", "single", "done"),
    MCCase("claude", "single", "none"), MCCase("claude", "parent", "topic"),
    MCCase("codex", "sub", "none") }
=============================================================================

---------------------------- MODULE Configuration ----------------------------
(***************************************************************************)
(* How the front matter of a workflow file becomes a RuntimeConfig, and    *)
(* what its validation requires before any lane runs.  A file is a partial *)
(* function from sections (nested ones under their dotted names) to keys   *)
(* and their values; a value of another type than the one asked for is     *)
(* taken for a missing one.  Options that no decision of the lanes reads   *)
(* (paths, labels, prompts) are left out.                                  *)
(***************************************************************************)
EXTENDS Integers

CONSTANTS AppServerCommands,        \* commands that launch the Codex app-server
          Trim(_), LowerCase(_)     \* str::trim and str::to_ascii_lowercase

U32 == 2^32
Second == 1000            \* durations are in milliseconds

-----------------------------------------------------------------------------
(* Reading values *)

\* A value is [type |-> "number", n |-> ...] if it is an integer of at most 64 bits,
\* [type |-> "text", t |-> ...] if it is a string, and of some other type if not.
Missing == [type |-> "missing"]

\* get_value: no such section, a section that is no mapping, or no such key.
GetValue(file, section, key) ==
  IF section \in DOMAIN file /\ key \in DOMAIN file[section]
  THEN file[section][key] ELSE Missing

\* get_u64 with its default: negative numbers, fractions and quoted numbers are
\* not u64 and silently give the default.
GetU64(v, default) == IF v.type = "number" /\ v.n \in Nat THEN v.n ELSE default

GetString(v, default) == IF v.type = "text" THEN v.t ELSE default

\* A text of blanks only, and require_present.
Blank(text) == text \in {"", " "}

AtLeastOne(n) == IF n = 0 THEN 1 ELSE n

\* resolve_command_token: "$NAME" stands for the variable if it is set; env maps
\* every such token to the value of its variable, "" for an unset one.
ResolveCommand(v, env, default) ==
  LET raw == GetString(v, "")
  IN  IF raw \in DOMAIN env THEN (IF env[raw] # "" THEN env[raw] ELSE raw)
      ELSE IF raw # "" THEN raw ELSE default

\* resolve_secret: a token of an unset variable gives no key at all, and only a
\* key that is not given falls back to the tracker's own variable.
ResolveSecret(v, env, fallback) ==
  LET raw == GetString(v, "")
  IN  IF raw \in DOMAIN env THEN env[raw]
      ELSE IF raw # "" THEN raw
      ELSE IF fallback \in DOMAIN env THEN env[fallback] ELSE ""

-----------------------------------------------------------------------------
(* from_workflow *)

\* The older name of a section counts only if the newer one is not there at all.
Renamed(file, new, old) == IF new \in DOMAIN file THEN new ELSE old

MainLaneSettings(file) ==
  LET main(key) == GetValue(file, Renamed(file, "main_lane", "agent"), key)
  IN  [maxConcurrent |-> GetU64(main("max_concurrent_agents"), 10),
       maxTurns      |-> GetU64(main("max_turns"), 20) % U32,
       maxBackoff    |-> GetU64(main("max_retry_backoff_ms"), 300 * Second),
       backend       |-> GetString(main("backend"),
                           GetString(GetValue(file, "backend", "kind"), "dry-run"))]

CodexCommand(file) ==
  GetString(GetValue(file, "codex", "command"), "codex app-server -c 'service_tier=fast'")
ClaudeCommand(file) == GetString(GetValue(file, "claude", "command"), "claude")

ReviewSettings(file, env) ==
  LET section == Renamed(file, "review_lane", "review")
      policy == IF section = "review_lane" THEN "review_lane.codex_turn_sandbox_policy"
                ELSE "review.codex_turn_sandbox_policy"
      review(key) == GetValue(file, section, key)
  IN  [backend       |-> GetString(review("backend"), "fake"),
       claudeCommand |-> ResolveCommand(review("claude_command"), env, ClaudeCommand(file)),
       codexCommand  |-> ResolveCommand(review("codex_command"), env, CodexCommand(file)),
       approval      |-> IF review("codex_approval_policy") = Missing THEN "never"
                         ELSE GetString(review("codex_approval_policy"), "none"),
       sandbox       |-> GetString(review("codex_thread_sandbox"), "read-only"),
       turnPolicy    |-> review("codex_turn_sandbox_policy"),
       turnType      |-> GetString(GetValue(file, policy, "type"), "none"),
       timeout       |-> GetU64(review("timeout_ms"), 600 * Second),
       maxWorkers    |-> AtLeastOne(GetU64(review("max_concurrent_workers"), 1))]

MergeSettings(file) ==
  [maxWorkers |-> AtLeastOne(GetU64(GetValue(file, "merge_lane", "max_concurrent_workers"), 1)),
   backend    |-> GetString(GetValue(file, "merge_lane", "agent_backend"), "codex")]

TmuxSettings(file) ==
  [agentCommand |-> GetString(GetValue(file, "tmux", "agent_command"), "codex"),
   prefix       |-> GetString(GetValue(file, "tmux", "session_prefix"), "shea")]

GateSettings(file) ==
  [mode    |-> GetString(GetValue(file, "quality_gate.llm", "mode"), "disabled"),
   command |-> GetString(GetValue(file, "quality_gate.llm", "command"), ""),
   timeout |-> GetU64(GetValue(file, "quality_gate.llm", "timeout_ms"), 120 * Second)]

TemporalSettings(file) ==
  LET queue(key, default) == GetString(GetValue(file, "temporal.task_queues", key), default)
      slots(key, default) == GetU64(GetValue(file, "temporal.worker", key), default)
  IN  [address   |-> GetString(GetValue(file, "temporal", "address"), "localhost:7233"),
       namespace |-> GetString(GetValue(file, "temporal", "namespace"), "default"),
       queues    |-> {queue("core", "symphony-core"), queue("agent", "symphony-agent"),
                      queue("local", "symphony-local")},
       core      |-> slots("core_concurrency", 3),
       agent     |-> slots("agent_concurrency", 3),
       local     |-> slots("local_concurrency", 8)]

\* parse_git: a blank branch is replaced by the default, not refused.
BaseBranch(file) ==
  LET raw == GetString(GetValue(file, "git", "base_branch"), "")
  IN  IF Blank(raw) THEN "main" ELSE raw

TrackerSettings(file, env) ==
  LET tracker(key) == GetString(GetValue(file, "tracker", key), "")
      kind == GetString(GetValue(file, "tracker", "kind"), "github_project_v2")
      key(variable) == ResolveSecret(GetValue(file, "tracker", "api_key"), env, variable)
  IN  [kind   |-> kind,
       apiKey |-> IF kind = "linear" THEN key("$LINEAR_API_KEY")
                  ELSE IF key("$GITHUB_TOKEN") # "" THEN key("$GITHUB_TOKEN")
                  ELSE ResolveSecret(Missing, env, "$GH_TOKEN"),
       owner  |-> tracker("owner"), repo |-> tracker("repo"),
       projectOwner |-> tracker("project_owner"),
       ownerType    |-> GetValue(file, "tracker", "project_owner_type"),
       numbered     |-> GetU64(GetValue(file, "tracker", "project_number"), -1) >= 0,
       slug         |-> tracker("project_slug"),
       fixture      |-> GetValue(file, "tracker", "fixture_path").type = "text"]

\* A per-host limit may be negative in the file; no limit is as good as a positive one.
PerHostLimit(file) ==
  LET v == GetValue(file, "worker", "max_concurrent_agents_per_host")
  IN  IF v.type = "number" THEN v.n ELSE 1

FromWorkflow(file, env) ==
  [tracker |-> TrackerSettings(file, env), main |-> MainLaneSettings(file),
   review |-> ReviewSettings(file, env), merge |-> MergeSettings(file),
   tmux |-> TmuxSettings(file), gate |-> GateSettings(file),
   temporal |-> TemporalSettings(file), base |-> BaseBranch(file),
   claude |-> ClaudeCommand(file),
   claudeTimeout |-> GetU64(GetValue(file, "claude", "turn_timeout_ms"), 3600 * Second),
   polling |-> GetU64(GetValue(file, "polling", "interval_ms"), 30 * Second),
   hooks |-> GetU64(GetValue(file, "hooks", "timeout_ms"), 60 * Second),
   verification |-> GetU64(GetValue(file, "verification", "timeout_ms"), 600 * Second),
   profile |-> GetU64(GetValue(file, "runtime_profile", "timeout_ms"), 10 * Second),
   perHost |-> PerHostLimit(file),
   stall |-> GetU64(GetValue(file, "codex", "stall_timeout_ms"), 300 * Second)]

-----------------------------------------------------------------------------
(* validate: every requirement, in place of the first that fails *)

BackendsAreKnown(c) ==
  /\ c.tracker.kind \in {"github_project_v2", "linear", "memory"}
  /\ c.main.backend \in {"dry-run", "codex", "claude-code", "tmux"}
  /\ c.main.backend = "tmux" => ~Blank(c.tmux.prefix) /\ ~Blank(c.tmux.agentCommand)
  /\ "claude-code" \in {c.main.backend, c.merge.backend} => ~Blank(c.claude)

ReadOnly(mode) == mode \in {"read-only", "readOnly"}

\* The reviewers: one that could write to the worktree is refused.  The sandbox is
\* trimmed for this comparison only; the type of the policy is compared as it is.
ReviewIsSafe(c) ==
  /\ c.review.backend \in {"fake", "gemini-cli", "agy-cli", "codex-app-server", "claude-code"}
  /\ c.review.backend = "claude-code" => ~Blank(c.review.claudeCommand)
  /\ c.review.backend = "codex-app-server" =>
       /\ ~Blank(c.review.codexCommand)
       /\ c.review.codexCommand \in AppServerCommands
       /\ c.review.approval = "never"
       /\ ReadOnly(Trim(c.review.sandbox))
       /\ c.review.turnPolicy # Missing => ReadOnly(c.review.turnType)

GateIsKnown(c) ==
  /\ c.gate.mode \in {"disabled", "advisory", "required"}
  /\ c.gate.mode = "required" => ~Blank(c.gate.command)

LimitsArePositive(c) ==
  /\ c.polling # 0 /\ c.hooks # 0 /\ c.perHost > 0
  /\ c.main.maxConcurrent # 0 /\ c.main.maxTurns # 0 /\ c.main.maxBackoff # 0
  /\ c.review.timeout # 0 /\ c.claudeTimeout # 0
  /\ c.review.maxWorkers # 0 /\ c.merge.maxWorkers # 0
  /\ c.gate.timeout # 0 /\ c.verification # 0 /\ c.profile # 0

TemporalIsNamed(c) ==
  /\ ~Blank(c.base) /\ ~Blank(c.temporal.address) /\ ~Blank(c.temporal.namespace)
  /\ \A q \in c.temporal.queues : ~Blank(q)
  /\ c.temporal.core # 0 /\ c.temporal.agent # 0 /\ c.temporal.local # 0

TrackerIsReachable(c) ==
  /\ c.tracker.kind = "github_project_v2" =>
       /\ ~Blank(c.tracker.owner) /\ ~Blank(c.tracker.repo) /\ ~Blank(c.tracker.projectOwner)
       /\ c.tracker.ownerType.type = "text" =>
            LowerCase(Trim(c.tracker.ownerType.t)) \in {"user", "organization"}
       /\ c.tracker.numbered
  /\ c.tracker.kind = "linear" =>
       /\ ~Blank(c.tracker.slug)
       /\ c.tracker.fixture \/ ~Blank(c.tracker.apiKey)

Validate(c) ==
  /\ BackendsAreKnown(c) /\ ReviewIsSafe(c) /\ GateIsKnown(c)
  /\ LimitsArePositive(c) /\ TemporalIsNamed(c) /\ TrackerIsReachable(c)
=============================================================================

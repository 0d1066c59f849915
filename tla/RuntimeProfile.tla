---------------------------- MODULE RuntimeProfile ----------------------------
(***************************************************************************)
(* The machine-local runtime profile: its validation, the readiness check  *)
(* in the worktree of an issue that precedes every Main claim, and the     *)
(* environment it lays over the one of a Main process.  The machine is a   *)
(* record of what the checks find: the profile file, the blobs of files,   *)
(* the answers of executables.  Texts and keys are records of what the     *)
(* validation looks at.                                                    *)
(***************************************************************************)
EXTENDS Configuration, FiniteSets, Sequences

CONSTANTS IdKey, SourceKey,     \* SHEA_SYMPHONY_RUNTIME_PROFILE_ID and _SOURCE
          SourceText            \* "repository:.shea/runtime-profile.json"

MaxEnvironmentEntries == 64
MaxRequirementSources == 64
MaxTools == 32
SchemaVersion == 1

-----------------------------------------------------------------------------
(* validate_runtime_profile: texts and keys *)

\* A text: its length, the length of what trim leaves, whether it has control
\* characters, and the strings of Credentials that its lower-case form contains.
ShortText(t, max) == t.trimmed # 0 /\ t.length <= max /\ ~t.control

\* An identifier is measured after trimming, and used untrimmed.
Identifier(t) == t.trimmed \in 1..128 /\ ~t.control

Credentials == {"token=", "password=", "secret=", "cookie=", "authorization="}
NonSecret(t, max) == t.length <= max /\ ~t.control /\ t.contains \cap Credentials = {}

\* A key: whether it is made of the characters of a name, its length, and its
\* upper-case form with the prefixes and the strings this contains.
ValidKey(k) == k.wellFormed /\ k.length \in 1..64

SensitiveNames == {"TOKEN", "SECRET", "PASSWORD", "PASSWD", "COOKIE", "CREDENTIAL",
                   "AUTHORIZATION", "API_KEY", "PRIVATE_KEY"}
Sensitive(k) == k.contains \cap SensitiveNames # {}

Injecting(k) ==
  \/ k.prefixes \cap {"LD_", "DYLD_", "GIT_CONFIG"} # {}
  \/ k.upper \in {"BASH_ENV", "ENV", "SHELLOPTS", "PROMPT_COMMAND", "PYTHONSTARTUP",
                  "NODE_OPTIONS", "RUBYOPT", "PERL5OPT", "JAVA_TOOL_OPTIONS"}

\* The program's own variables; this prefix is compared in upper case only.
Reserved(k) == k.ours

\* A path that stays inside of the repository.
InsideRepository(path) == path.parts # {} /\ path.parts \cap {"parent", "root", "prefix"} = {}

SafeProbe(args) ==
  Len(args) = 1 /\ args[1].text \in {"--version", "-V", "-v", "version", "-version"}

ValidSource(s) == InsideRepository(s.path) /\ s.digest

ValidTool(t) ==
  /\ Identifier(t.id) /\ t.absolute
  /\ ShortText(t.version, 256) /\ NonSecret(t.version, 256)
  /\ SafeProbe(t.args) /\ \A i \in DOMAIN t.args : NonSecret(t.args[i], 512)

ValidVariable(k, value) ==
  ValidKey(k) /\ ~Sensitive(k) /\ ~Injecting(k) /\ ~Reserved(k) /\ NonSecret(value, 4096)

ValidProfile(p) ==
  /\ p.schema = SchemaVersion
  /\ Identifier(p.id) /\ Identifier(p.repository) /\ ShortText(p.generated, 128)
  /\ Len(p.sources) \in 1..MaxRequirementSources /\ Len(p.tools) \in 1..MaxTools
  /\ Cardinality(DOMAIN p.environment) <= MaxEnvironmentEntries
  /\ \A i \in DOMAIN p.sources : ValidSource(p.sources[i])
  /\ \A i, j \in DOMAIN p.sources : i # j => p.sources[i].path # p.sources[j].path
  /\ \A i \in DOMAIN p.tools : ValidTool(p.tools[i])
  /\ \A i, j \in DOMAIN p.tools : i # j => p.tools[i].id # p.tools[j].id
  /\ \A k \in DOMAIN p.environment : ValidVariable(k, p.environment[k])

-----------------------------------------------------------------------------
(* load_runtime_profile and resolve_runtime_readiness *)

NoProfile == [id |-> "none"]
Failure(error) == [ok |-> FALSE, error |-> error, profile |-> NoProfile]
Success(profile) == [ok |-> TRUE, error |-> "none", profile |-> profile]

LoadRuntimeProfile(required, machine) ==
  CASE machine.file = "absent" -> IF required THEN Failure("missing") ELSE Success(NoProfile)
    [] machine.file = "unreadable" -> Failure("io")
    [] machine.file = "malformed" -> Failure("parse")
    [] machine.file = "profile" ->
         IF ValidProfile(machine.profile) THEN Success(machine.profile) ELSE Failure("invalid")

\* Only a tracker that names owner and repository binds a profile to a repository.
RepositoryMatches(p, tracker) ==
  tracker.owner # "" /\ tracker.repo # "" => p.repository.of = <<tracker.owner, tracker.repo>>

\* git hash-object finds the recorded content; a file that is not there has no blob.
SourceMatches(s, machine) == s.path \in DOMAIN machine.blobs /\ machine.blobs[s.path] = s.blob

\* run_tool_probe: the executable is there, it ends before a poll that follows the
\* timeout, it succeeds, and its output contains the recorded version.
ToolAnswers(t, machine) ==
  /\ t.executable \in DOMAIN machine.probes     \* a file that can be started
  /\ machine.probes[t.executable].inTime
  /\ machine.probes[t.executable].success
  /\ t.version.text \in machine.probes[t.executable].output

\* The stages in their order: no executable is run for the profile of another
\* repository or for one whose sources have changed.
Readiness(required, tracker, machine) ==
  LET loaded == LoadRuntimeProfile(required, machine)
      p == loaded.profile
  IN  IF ~loaded.ok \/ p = NoProfile THEN loaded
      ELSE IF ~RepositoryMatches(p, tracker) THEN Failure("repository")
      ELSE IF \E i \in DOMAIN p.sources : ~SourceMatches(p.sources[i], machine)
           THEN Failure("drift")
      ELSE IF \E i \in DOMAIN p.tools : ~ToolAnswers(p.tools[i], machine)
           THEN Failure("probe")
      ELSE loaded

\* The Main lane before its claim: a failure is put down in a local file and the
\* issue is left as it is; a file that cannot be written ends the tick.
BeforeClaim(readiness, writable) ==
  IF readiness.ok THEN "claim" ELSE IF writable THEN "skip" ELSE "error"

-----------------------------------------------------------------------------
(* apply_runtime_profile_environment *)

\* The overlay wins over the process, the identity of the profile over the overlay.
ApplyEnvironment(env, p) ==
  IF p = NoProfile THEN env
  ELSE [k \in DOMAIN env \cup DOMAIN p.environment \cup {IdKey, SourceKey} |->
          IF k = IdKey THEN p.id
          ELSE IF k = SourceKey THEN SourceText
          ELSE IF k \in DOMAIN p.environment THEN p.environment[k] ELSE env[k]]

\* execute_issue_once: the profile that readiness resolved, or else the file as it is
\* now, validated but not checked against the worktree.
AgentProfile(resolved, given, required, machine) ==
  IF resolved THEN Success(given) ELSE LoadRuntimeProfile(required, machine)

\* The App resolves readiness for a command that writes and only loads the profile
\* for the others; a failure of either means that the command is not run.
AppProfile(writes, required, tracker, machine) ==
  IF writes THEN Readiness(required, tracker, machine) ELSE LoadRuntimeProfile(required, machine)
=============================================================================

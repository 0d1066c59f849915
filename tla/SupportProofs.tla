---------------------------- MODULE SupportProofs ----------------------------
(***************************************************************************)
(* Proofs about what the lanes and the app rest on.  First what the pure   *)
(* decisions of the program guarantee, for every input: a validated        *)
(* configuration, a ready runtime profile and a loaded workflow to the     *)
(* lanes; a dispatchable gate decision to the main lane; and the anomalies *)
(* of `review status' to an operator.  Then the tracker commands, for any  *)
(* commands, issues, faults and crashes: a creation that is run again puts *)
(* no second item of its title on the Project, and what an interrupted     *)
(* command leaves half done is in the doctor's report.  The invariant      *)
(* follows a creation call by call until its issue is an item: up to then  *)
(* no other item of its title may appear, and its own must be assigned, so *)
(* that the next duplicate check lists it.                                 *)
(***************************************************************************)
EXTENDS IssueForge, RuntimeProfile, WorkflowFile, ReviewStatus, SequenceTheorems,
        FiniteSetTheorems, TLAPS

-----------------------------------------------------------------------------
(* Configuration, runtime profiles and workflow files.                     *)

\* A number that is read is a natural number, whatever the file holds (config.rs:1014).
LEMMA NumberIsRead ==
    ASSUME NEW v, NEW default \in Nat
    PROVE  GetU64(v, default) \in Nat
BY DEF GetU64

\* The parts of a configuration (config.rs:513-541).
LEMMA Parts ==
    ASSUME NEW file, NEW env
    PROVE  /\ FromWorkflow(file, env).tracker = TrackerSettings(file, env)
           /\ FromWorkflow(file, env).main = MainLaneSettings(file)
           /\ FromWorkflow(file, env).review = ReviewSettings(file, env)
           /\ FromWorkflow(file, env).merge = MergeSettings(file)
           /\ FromWorkflow(file, env).gate = GateSettings(file)
           /\ FromWorkflow(file, env).temporal = TemporalSettings(file)
           /\ FromWorkflow(file, env).base = BaseBranch(file)
           /\ FromWorkflow(file, env).perHost = PerHostLimit(file)
           /\ FromWorkflow(file, env).polling = GetU64(GetValue(file, "polling", "interval_ms"), 30 * Second)
BY DEF FromWorkflow

\* The remainder of a division by 2^32 fits into 32 bits.
LEMMA Truncation ==
    ASSUME NEW n \in Nat
    PROVE  n % U32 \in 0..(U32 - 1)
<1>1. U32 \in Nat \ {0}
  BY SMT DEF U32
<1> QED
  BY <1>1

\* The assumptions that the models of the lanes make about their constants hold for
\* every configuration that passed validation, although numbers of a wrong type fall
\* back to defaults, worker counts are raised to one and max_turns is cut to 32 bits:
\* a concurrency limit, a retry limit and worker counts of at least one, timeouts
\* that end, and a Codex reviewer only with a read-only sandbox
\* (config.rs:354-541, 543-727).
THEOREM ValidatedFitsLanes ==
    ASSUME NEW file, NEW env, Validate(FromWorkflow(file, env))
    PROVE  LET c == FromWorkflow(file, env) IN
           /\ c.main.maxConcurrent \in Nat \ {0}
           /\ c.main.maxTurns \in 1..(U32 - 1)
           /\ c.review.maxWorkers \in Nat \ {0} /\ c.merge.maxWorkers \in Nat \ {0}
           /\ c.review.timeout \in Nat \ {0} /\ c.polling \in Nat \ {0}
           /\ c.review.backend = "codex-app-server" =>
                ReadOnly(Trim(c.review.sandbox)) /\ c.review.approval = "never"
<1> DEFINE c == FromWorkflow(file, env)
           main == Renamed(file, "main_lane", "agent")
           review == Renamed(file, "review_lane", "review")
<1>1. 600 * Second \in Nat /\ 30 * Second \in Nat
  BY SMT DEF Second
<1>2. /\ GetU64(GetValue(file, main, "max_concurrent_agents"), 10) \in Nat
      /\ GetU64(GetValue(file, main, "max_turns"), 20) \in Nat
      /\ GetU64(GetValue(file, review, "timeout_ms"), 600 * Second) \in Nat
      /\ GetU64(GetValue(file, review, "max_concurrent_workers"), 1) \in Nat
      /\ GetU64(GetValue(file, "merge_lane", "max_concurrent_workers"), 1) \in Nat
      /\ GetU64(GetValue(file, "polling", "interval_ms"), 30 * Second) \in Nat
  BY <1>1, NumberIsRead
<1>3. LimitsArePositive(c) /\ ReviewIsSafe(c)
  BY DEF Validate
<1>4. /\ c.main = MainLaneSettings(file) /\ c.review = ReviewSettings(file, env)
      /\ c.merge = MergeSettings(file)
      /\ c.polling = GetU64(GetValue(file, "polling", "interval_ms"), 30 * Second)
  BY Parts
<1>5. c.main.maxConcurrent \in Nat \ {0}
  <2>1. MainLaneSettings(file).maxConcurrent = GetU64(GetValue(file, main, "max_concurrent_agents"), 10)
    BY DEF MainLaneSettings
  <2>2. c.main.maxConcurrent # 0
    BY <1>3 DEF LimitsArePositive
  <2> HIDE DEF c
  <2> QED
    BY <1>2, <1>4, <2>1, <2>2
<1>6. c.main.maxTurns \in 1..(U32 - 1)
  <2>1. MainLaneSettings(file).maxTurns = GetU64(GetValue(file, main, "max_turns"), 20) % U32
    BY DEF MainLaneSettings
  <2>2. c.main.maxTurns # 0
    BY <1>3 DEF LimitsArePositive
  <2> HIDE DEF c
  <2>3. c.main.maxTurns \in 0..(U32 - 1)
    BY <1>2, <1>4, <2>1, Truncation
  <2>4. U32 - 1 \in Int
    BY SMT DEF U32
  <2> QED
    BY <2>2, <2>3, <2>4
<1>7. c.review.maxWorkers \in Nat \ {0} /\ c.merge.maxWorkers \in Nat \ {0}
  <2>1. \A n \in Nat : AtLeastOne(n) \in Nat \ {0}
    BY DEF AtLeastOne
  <2>2. ReviewSettings(file, env).maxWorkers
          = AtLeastOne(GetU64(GetValue(file, review, "max_concurrent_workers"), 1))
    BY DEF ReviewSettings
  <2>3. MergeSettings(file).maxWorkers
          = AtLeastOne(GetU64(GetValue(file, "merge_lane", "max_concurrent_workers"), 1))
    BY DEF MergeSettings
  <2> HIDE DEF c
  <2> QED
    BY <1>2, <1>4, <2>1, <2>2, <2>3
<1>8. c.review.timeout \in Nat \ {0} /\ c.polling \in Nat \ {0}
  <2>1. ReviewSettings(file, env).timeout = GetU64(GetValue(file, review, "timeout_ms"), 600 * Second)
    BY DEF ReviewSettings
  <2>2. c.review.timeout # 0 /\ c.polling # 0
    BY <1>3 DEF LimitsArePositive
  <2> HIDE DEF c
  <2> QED
    BY <1>2, <1>4, <2>1, <2>2
<1>9. c.review.backend = "codex-app-server" =>
        ReadOnly(Trim(c.review.sandbox)) /\ c.review.approval = "never"
  BY <1>3 DEF ReviewIsSafe
<1> QED
  BY <1>5, <1>6, <1>7, <1>8, <1>9

\* Once a file has a main_lane section, nothing it still says under the older name
\* agent has any effect on the Main lane, not even on the keys main_lane leaves out
\* (config.rs:383).
THEOREM OldSectionIsIgnored ==
    ASSUME NEW file, NEW other,
           "main_lane" \in DOMAIN file, "main_lane" \in DOMAIN other,
           \A s : s # "agent" =>
             (s \in DOMAIN file <=> s \in DOMAIN other) /\ (s \in DOMAIN file => file[s] = other[s])
    PROVE  MainLaneSettings(file) = MainLaneSettings(other)
<1>1. Renamed(file, "main_lane", "agent") = "main_lane"
      /\ Renamed(other, "main_lane", "agent") = "main_lane"
  BY DEF Renamed
<1>2. \A key : /\ GetValue(file, "main_lane", key) = GetValue(other, "main_lane", key)
               /\ GetValue(file, "backend", key) = GetValue(other, "backend", key)
  BY DEF GetValue
<1> QED
  BY <1>1, <1>2 DEF MainLaneSettings

\* The defaults agree with the validation: a file that names the memory tracker and
\* no key of another section is valid (config.rs:354-541, 543-727).
THEOREM DefaultsAreValid ==
    ASSUME NEW file, NEW env, DOMAIN file = {"tracker"},
           "kind" \in DOMAIN file["tracker"],
           file["tracker"]["kind"] = [type |-> "text", t |-> "memory"]
    PROVE  Validate(FromWorkflow(file, env))
<1> DEFINE c == FromWorkflow(file, env)
<1>1. \A s, key : s # "tracker" => GetValue(file, s, key) = Missing
  BY DEF GetValue
<1>2. GetValue(file, "tracker", "kind") = [type |-> "text", t |-> "memory"]
  BY DEF GetValue
<1>3. /\ \A n : GetU64(Missing, n) = n
      /\ \A t : GetString(Missing, t) = t
      /\ Missing.type # "number"
  BY DEF GetU64, GetString, Missing
<1>4. Renamed(file, "main_lane", "agent") = "agent" /\ Renamed(file, "review_lane", "review") = "review"
  BY DEF Renamed
<1>5. /\ c.tracker = TrackerSettings(file, env) /\ c.main = MainLaneSettings(file)
      /\ c.review = ReviewSettings(file, env) /\ c.merge = MergeSettings(file)
      /\ c.gate = GateSettings(file) /\ c.temporal = TemporalSettings(file)
      /\ c.base = BaseBranch(file) /\ c.perHost = PerHostLimit(file)
      /\ c.polling = GetU64(GetValue(file, "polling", "interval_ms"), 30 * Second)
  BY Parts
<1>6. TrackerSettings(file, env).kind = "memory"
  <2>1. GetString([type |-> "text", t |-> "memory"], "github_project_v2") = "memory"
    BY DEF GetString
  <2> QED
    BY <1>2, <2>1 DEF TrackerSettings
<1>7. /\ MainLaneSettings(file).maxConcurrent = 10 /\ MainLaneSettings(file).maxTurns = 20
      /\ MainLaneSettings(file).maxBackoff = 300 * Second
      /\ MainLaneSettings(file).backend = "dry-run"
  <2>1. 20 % U32 = 20
    BY SMT DEF U32
  <2>2. \A key : GetValue(file, "agent", key) = Missing /\ GetValue(file, "backend", key) = Missing
    BY <1>1
  <2> QED
    BY <1>3, <1>4, <2>1, <2>2 DEF MainLaneSettings
<1>8. /\ ReviewSettings(file, env).backend = "fake" /\ ReviewSettings(file, env).timeout = 600 * Second
      /\ ReviewSettings(file, env).maxWorkers = 1
  <2>1. \A key : GetValue(file, "review", key) = Missing
    BY <1>1
  <2>2. AtLeastOne(1) = 1
    BY DEF AtLeastOne
  <2> QED
    BY <1>3, <1>4, <2>1, <2>2 DEF ReviewSettings
<1>9. /\ MergeSettings(file).maxWorkers = 1 /\ MergeSettings(file).backend = "codex"
      /\ GateSettings(file).mode = "disabled" /\ GateSettings(file).timeout = 120 * Second
  <2>1. \A key : /\ GetValue(file, "merge_lane", key) = Missing
                 /\ GetValue(file, "quality_gate.llm", key) = Missing
    BY <1>1
  <2>2. AtLeastOne(1) = 1
    BY DEF AtLeastOne
  <2> QED
    BY <1>3, <2>1, <2>2 DEF MergeSettings, GateSettings
<1>10. /\ c.polling = 30 * Second /\ c.hooks = 60 * Second /\ c.claudeTimeout = 3600 * Second
       /\ c.verification = 600 * Second /\ c.profile = 10 * Second
  <2>1. \A key : /\ GetValue(file, "polling", key) = Missing /\ GetValue(file, "hooks", key) = Missing
                 /\ GetValue(file, "claude", key) = Missing /\ GetValue(file, "verification", key) = Missing
                 /\ GetValue(file, "runtime_profile", key) = Missing
    BY <1>1
  <2> QED
    BY <1>3, <2>1 DEF FromWorkflow
<1>11. c.perHost = 1
  <2>1. GetValue(file, "worker", "max_concurrent_agents_per_host") = Missing
    BY <1>1
  <2> QED
    BY <1>3, <1>5, <2>1 DEF PerHostLimit
<1>12. c.base = "main"
  <2>1. GetValue(file, "git", "base_branch") = Missing
    BY <1>1
  <2>2. Blank("")
    BY DEF Blank
  <2>3. BaseBranch(file) = "main"
    BY <1>3, <2>1, <2>2 DEF BaseBranch
  <2> HIDE DEF c
  <2> QED
    BY <1>5, <2>3
<1>13. /\ TemporalSettings(file).address = "localhost:7233" /\ TemporalSettings(file).namespace = "default"
       /\ TemporalSettings(file).queues = {"symphony-core", "symphony-agent", "symphony-local"}
       /\ TemporalSettings(file).core = 3 /\ TemporalSettings(file).agent = 3 /\ TemporalSettings(file).local = 8
  <2>1. \A key : /\ GetValue(file, "temporal", key) = Missing
                 /\ GetValue(file, "temporal.task_queues", key) = Missing
                 /\ GetValue(file, "temporal.worker", key) = Missing
    BY <1>1
  <2> QED
    BY <1>3, <2>1 DEF TemporalSettings
<1> HIDE DEF c
<1>14. BackendsAreKnown(c)
  BY <1>5, <1>6, <1>7, <1>9 DEF BackendsAreKnown
<1>15. ReviewIsSafe(c)
  BY <1>5, <1>8 DEF ReviewIsSafe
<1>16. GateIsKnown(c)
  BY <1>5, <1>9 DEF GateIsKnown
<1>17. LimitsArePositive(c)
  BY <1>5, <1>7, <1>8, <1>9, <1>10, <1>11, SMT DEF LimitsArePositive, Second
<1>18. TemporalIsNamed(c)
  BY <1>5, <1>12, <1>13 DEF TemporalIsNamed, Blank
<1>19. TrackerIsReachable(c)
  BY <1>5, <1>6 DEF TrackerIsReachable
<1> QED
  BY <1>14, <1>15, <1>16, <1>17, <1>18, <1>19 DEF Validate, c

\* What is loaded is a valid profile or, if none is required, no profile
\* (runtime_profile.rs:146).
LEMMA LoadedIsValid ==
    ASSUME NEW required, NEW machine,
           machine.file \in {"absent", "unreadable", "malformed", "profile"},
           NEW loaded, loaded = LoadRuntimeProfile(required, machine), loaded.ok
    PROVE  \/ machine.file = "absent" /\ ~required /\ loaded.profile = NoProfile
           \/ /\ machine.file = "profile" /\ loaded.profile = machine.profile
              /\ ValidProfile(machine.profile)
BY DEF LoadRuntimeProfile, Failure, Success

\* The Main lane claims an issue only on a machine that it has looked at: with a valid
\* profile that is made for the repository of the tracker, whose every source has the
\* recorded content in the worktree and whose every tool answered with the recorded
\* version; or, unless a profile is required, where there is none at all. A file that
\* is unreadable, malformed or invalid is never taken for an optional one that is
\* missing (runtime_profile.rs:146-258, write_candidate.rs:217-246).
THEOREM ClaimIsVerified ==
    ASSUME NEW required, NEW tracker, NEW machine, NEW writable,
           machine.file \in {"absent", "unreadable", "malformed", "profile"},
           machine.profile # NoProfile,
           BeforeClaim(Readiness(required, tracker, machine), writable) = "claim"
    PROVE  \/ machine.file = "absent" /\ ~required
           \/ /\ machine.file = "profile"
              /\ ValidProfile(machine.profile)
              /\ RepositoryMatches(machine.profile, tracker)
              /\ \A i \in DOMAIN machine.profile.sources :
                   SourceMatches(machine.profile.sources[i], machine)
              /\ \A i \in DOMAIN machine.profile.tools :
                   ToolAnswers(machine.profile.tools[i], machine)
<1> DEFINE loaded == LoadRuntimeProfile(required, machine)
           ready == Readiness(required, tracker, machine)
<1>1. ready.ok
  BY DEF BeforeClaim
<1>2. \A e : ~Failure(e).ok
  BY DEF Failure
<1>3. loaded.ok /\ ready = loaded
  BY <1>1, <1>2 DEF Readiness
<1>4. CASE machine.file = "absent"
  BY <1>3, <1>4, LoadedIsValid
<1>5. CASE machine.file # "absent"
  <2>1. /\ machine.file = "profile" /\ loaded.profile = machine.profile
        /\ ValidProfile(machine.profile)
    BY <1>3, <1>5, LoadedIsValid
  <2> QED
    BY <1>1, <1>2, <1>3, <2>1 DEF Readiness
<1> QED
  BY <1>4, <1>5

\* Whatever a valid profile says, the variables of a process that name credentials,
\* that change how a process is started, or that are the program's own keep their
\* values, no such variable is added but the two that identify the profile, and these
\* always tell the profile that was applied (runtime_profile.rs:261, 417-431).
THEOREM OverlayIsConfined ==
    ASSUME NEW env, NEW p, ValidProfile(p), p # NoProfile, IdKey # SourceKey
    PROVE  /\ ApplyEnvironment(env, p)[IdKey] = p.id
           /\ ApplyEnvironment(env, p)[SourceKey] = SourceText
           /\ \A k \in DOMAIN ApplyEnvironment(env, p) \ {IdKey, SourceKey} :
                Sensitive(k) \/ Injecting(k) \/ Reserved(k) =>
                  k \in DOMAIN env /\ ApplyEnvironment(env, p)[k] = env[k]
<1> DEFINE keys == DOMAIN env \cup DOMAIN p.environment \cup {IdKey, SourceKey}
           result == ApplyEnvironment(env, p)
<1>1. result = [k \in keys |->
                  IF k = IdKey THEN p.id
                  ELSE IF k = SourceKey THEN SourceText
                  ELSE IF k \in DOMAIN p.environment THEN p.environment[k] ELSE env[k]]
  BY DEF ApplyEnvironment
<1>2. \A k \in DOMAIN p.environment : ~Sensitive(k) /\ ~Injecting(k) /\ ~Reserved(k)
  BY DEF ValidProfile, ValidVariable
<1> HIDE DEF result
<1>3. result[IdKey] = p.id /\ result[SourceKey] = SourceText
  BY <1>1
<1>4. ASSUME NEW k \in DOMAIN result \ {IdKey, SourceKey},
             Sensitive(k) \/ Injecting(k) \/ Reserved(k)
      PROVE  k \in DOMAIN env /\ result[k] = env[k]
  BY <1>1, <1>2, <1>4
<1> QED
  BY <1>3, <1>4 DEF result

\* A profile that is applied again, by a process that a Main process starts, changes
\* nothing (runtime_profile.rs:261-277).
THEOREM OverlayIsStable ==
    ASSUME NEW env, NEW p
    PROVE  ApplyEnvironment(ApplyEnvironment(env, p), p) = ApplyEnvironment(env, p)
<1> DEFINE result == ApplyEnvironment(env, p)
<1>1. CASE p = NoProfile
  BY <1>1 DEF ApplyEnvironment
<1>2. CASE p # NoProfile
  <2>1. DOMAIN result = DOMAIN env \cup DOMAIN p.environment \cup {IdKey, SourceKey}
    BY <1>2 DEF ApplyEnvironment
  <2>2. DOMAIN result \cup DOMAIN p.environment \cup {IdKey, SourceKey} = DOMAIN result
    BY <2>1
  <2>3. \A k \in DOMAIN result :
          /\ k = IdKey => result[k] = p.id
          /\ k = SourceKey /\ k # IdKey => result[k] = SourceText
          /\ k \in DOMAIN p.environment /\ k \notin {IdKey, SourceKey} => result[k] = p.environment[k]
    BY <1>2 DEF ApplyEnvironment
  <2>4. result = [k \in DOMAIN result |-> result[k]]
    BY <1>2 DEF ApplyEnvironment
  <2>5. ApplyEnvironment(result, p)
          = [k \in DOMAIN result |->
               IF k = IdKey THEN p.id
               ELSE IF k = SourceKey THEN SourceText
               ELSE IF k \in DOMAIN p.environment THEN p.environment[k] ELSE result[k]]
    BY <1>2, <2>2 DEF ApplyEnvironment
  <2> HIDE DEF result
  <2> QED
    BY <2>3, <2>4, <2>5 DEF result
<1> QED
  BY <1>1, <1>2

-----------------------------------------------------------------------------
(* Workflow files, also on a disk that changed since they were loaded *)

\* What is reached contains what was requested, is closed under dependencies and
\* is the least such set (resource_manifest.rs:213-240).
LEMMA ReachedIsLeast ==
    ASSUME NEW groups, NEW names, NEW requested \in SUBSET names,
           \A g \in DOMAIN groups : groups[g].depends \subseteq names
    PROVE  /\ requested \subseteq Reached(groups, names, requested)
           /\ Closed(groups, Reached(groups, names, requested))
           /\ \A set \in SUBSET names :
                 requested \subseteq set /\ Closed(groups, set)
                   => Reached(groups, names, requested) \subseteq set
BY DEF Reached, Closed

\* The closure of a workflow's resources holds the core group, every enabled group
\* and every dependency of one it holds, all of them declared and available, and
\* nothing more: it lies in every set of names with these (resource_manifest.rs:117-158,
\* 213-240).
THEOREM ClosureIsLeast ==
    ASSUME NEW manifest, NEW enabled, NEW disk, NEW repository,
           Resolve(manifest, enabled, disk, repository).ok
    PROVE  LET groups == Resolve(manifest, enabled, disk, repository).value.groups
               requested == {manifest.core} \cup enabled
           IN  /\ requested \subseteq groups /\ Closed(manifest.groups, groups)
               /\ \A g \in groups : g \in DOMAIN manifest.groups /\ manifest.groups[g].available
               /\ \A set \in SUBSET Names(manifest, requested) :
                     requested \subseteq set /\ Closed(manifest.groups, set) => groups \subseteq set
<1> DEFINE requested == {manifest.core} \cup enabled
           names == Names(manifest, requested)
           selected == Reached(manifest.groups, names, requested)
           resources == Resources(manifest, disk, repository, selected)
<1>1. requested \subseteq names
      /\ \A g \in DOMAIN manifest.groups : manifest.groups[g].depends \subseteq names
  BY DEF Names
<1>2. Resolvable(manifest.groups, names, requested) /\ resources.ok
  BY DEF Done, Failed, Resolve
<1>3. Resolve(manifest, enabled, disk, repository).value.groups = selected
  BY <1>2 DEF Done, Failed, Resolve
<1>4. /\ requested \subseteq selected /\ Closed(manifest.groups, selected)
      /\ \A set \in SUBSET names :
            requested \subseteq set /\ Closed(manifest.groups, set) => selected \subseteq set
  <2> HIDE DEF names, requested
  <2> QED BY <1>1, ReachedIsLeast
<1>5. \A g \in selected : g \in DOMAIN manifest.groups /\ manifest.groups[g].available
  BY <1>2 DEF Resolvable
<1> QED
  BY <1>3, <1>4, <1>5

\* Every resource of the closure is an entry of a selected group, lies in the
\* repository after its links are followed, is no part of the global setup skill,
\* and was not empty (resource_manifest.rs:162-199, 242-282).
THEOREM ResourcesAreConfined ==
    ASSUME NEW manifest, NEW enabled, NEW disk, NEW repository,
           Resolve(manifest, enabled, disk, repository).ok,
           NEW r \in Resolve(manifest, enabled, disk, repository).value.resources
    PROVE  /\ r.group \in Resolve(manifest, enabled, disk, repository).value.groups
           /\ r.path \in repository \ Setup
           /\ r.path \in DOMAIN disk /\ (~disk[r.path].dir => disk[r.path].text # "empty")
<1> DEFINE requested == {manifest.core} \cup enabled
           names == Names(manifest, requested)
           selected == Reached(manifest.groups, names, requested)
           entries == Entries(manifest, selected)
<1>1. Resources(manifest, disk, repository, selected).ok
  BY DEF Done, Failed, Resolve
<1>2. /\ Resolve(manifest, enabled, disk, repository).value.groups = selected
      /\ Resolve(manifest, enabled, disk, repository).value.resources
           = Resources(manifest, disk, repository, selected).value
  BY DEF Done, Failed, Resolve
<1>3. /\ \A e \in entries : Admissible(disk, repository, e.path)
      /\ Resources(manifest, disk, repository, selected).value
           = {[e EXCEPT !.path = disk[e.path].real] : e \in entries}
  BY <1>1 DEF Done, Failed, Resources
<1>4. PICK e \in entries : r = [e EXCEPT !.path = disk[e.path].real]
  BY <1>2, <1>3
<1>5. PICK g \in selected : \E i \in DOMAIN manifest.groups[g].resources :
        e = [group |-> g, nr |-> i, kind |-> manifest.groups[g].resources[i].kind,
             path |-> manifest.groups[g].resources[i].path]
  BY <1>4 DEF Entries
<1>6. r.group = g /\ r.path = disk[e.path].real
  BY <1>4, <1>5
<1>7. Admissible(disk, repository, e.path)
  BY <1>3, <1>4
<1>8. r.path \in repository \ Setup /\ ValidateResource(disk, r.path)
  BY <1>6, <1>7 DEF Admissible
<1>9. r.path \in DOMAIN disk /\ (~disk[r.path].dir => disk[r.path].text # "empty")
  BY <1>8 DEF ValidateResource, Inside
<1> QED
  BY <1>2, <1>5, <1>6, <1>8, <1>9

\* A workflow has a prompt for every lane and for every backend, and none of the
\* backend prompts it names is blank.
Usable(w) ==
  /\ DOMAIN w.lanes = Lanes /\ DOMAIN w.backends = BackendKeys
  /\ Has(w.config, "backend_prompts") => \A key \in BackendKeys : ~IsBlank(w.backends[key])

\* What loads is usable (workflow.rs:156-187, 475-552, 632-709).
LEMMA LoadedIsUsable ==
    ASSUME NEW path, NEW machine, Load(path, machine).ok
    PROVE  Usable(Load(path, machine).value)
<1> DEFINE lines == machine.disk[path].lines
           split == SplitFrontMatter(lines)
           config == ParseFrontMatter(split.front)
           inline == IF BlankLines(split.prompt) THEN "blank" ELSE "fine"
           lanes == LoadLanePrompts(config.value, machine.disk, inline)
           backends == LoadBackendPrompts(config.value, machine.disk, machine.defaults)
           w == Load(path, machine).value
<1>1. Load(path, machine) = Parse(path, lines, machine) /\ Parse(path, lines, machine).ok
  BY DEF Done, Failed, Load
<1>2. lanes.ok /\ backends.ok
  BY <1>1 DEF Done, Failed, Parse
<1>3. w.lanes = lanes.value /\ w.backends = backends.value /\ w.config = config.value
  <2> DEFINE closure == ResolveResourceClosure(config.value, machine.disk, machine.repository)
             record == [path |-> path, config |-> config.value, closure |-> closure.value,
                        lanes |-> lanes.value, backends |-> backends.value]
  <2>1. ~Failed.ok
    BY DEF Failed
  <2>2. Parse(path, lines, machine) = Done(record)
    BY <1>1, <2>1 DEF Parse
  <2>3. w = record
    BY <1>1, <2>2 DEF Done
  <2> HIDE DEF w
  <2> QED BY <2>3
<1> HIDE DEF config, inline, w
<1>4. DOMAIN lanes.value = Lanes
  BY <1>2 DEF Done, Failed, LoadLanePrompts
<1>5. /\ DOMAIN backends.value = BackendKeys
      /\ Has(config.value, "backend_prompts") =>
           \A key \in BackendKeys : ~IsBlank(backends.value[key])
  BY <1>2 DEF Done, Failed, LoadBackendPrompts
<1>6. Usable(w)
  <2> HIDE DEF lanes, backends
  <2> QED BY <1>3, <1>4, <1>5 DEF Usable
<1> QED
  BY <1>6 DEF w

\* A reload never leaves the store without a usable workflow, and is all or nothing:
\* either everything comes from the disk as it is now, or the active workflow is the
\* one before and the error is kept (workflow.rs:554-591).
THEOREM ReloadIsAtomic ==
    ASSUME NEW path, NEW active, NEW error, NEW machine, Usable(active)
    PROVE  LET store == [path |-> path, active |-> active, error |-> error]
               after == Reload(store, machine)
           IN  /\ Usable(after.active)
               /\ after.error => after.active = active
               /\ ~after.error => Load(path, machine) = Done(after.active)
<1> DEFINE store == [path |-> path, active |-> active, error |-> error]
           loaded == Load(path, machine)
<1>1. CASE loaded.ok
  <2>1. Usable(loaded.value)
    BY <1>1, LoadedIsUsable
  <2>2. loaded = Done(loaded.value)
    BY <1>1 DEF Done, Failed, Load, Parse
  <2>3. Reload(store, machine) = [path |-> path, active |-> loaded.value, error |-> FALSE]
    BY <1>1 DEF Reload
  <2> QED
    BY <2>1, <2>2, <2>3
<1>2. CASE ~loaded.ok
  <2>1. Reload(store, machine) = [path |-> path, active |-> active, error |-> TRUE]
    BY <1>2 DEF Reload
  <2> QED
    BY <2>1
<1> QED
  BY <1>1, <1>2

\* Whatever happened to the files since the workflow was loaded, the structured
\* review prompt names only resources of its closure, an active workflow that is the
\* loaded file, and adapters that say they are the ones the capability means
\* (workflow.rs:221-292, 309-343).
THEOREM CapabilityIsConfined ==
    ASSUME NEW w, NEW disk, NEW repository,
           ResolvedWorkflowCapability(w, disk, repository).ok
    PROVE  LET c == ResolvedWorkflowCapability(w, disk, repository).value
               paths == {r.path : r \in w.closure.resources}
           IN  /\ c.capability \in paths \cap repository
               /\ c.workflow \in paths \cap repository /\ c.workflow = disk[w.path].real
               /\ \A a \in c.adapters : /\ a.path \in paths \cap repository
                                        /\ disk[a.path].meta = [kind |-> "adapter", id |-> a.id]
<1> DEFINE contracts == {r \in w.closure.resources : r.kind = "contract"}
           one == CHOOSE r \in contracts : Capabilities(w, disk) = {r}
           meta == disk[one.path].meta
           c == CapabilityOf(w, disk, repository, one).value
           paths == {r.path : r \in w.closure.resources}
<1>1. /\ \E r \in contracts : Capabilities(w, disk) = {r}
      /\ ResolvedWorkflowCapability(w, disk, repository) = CapabilityOf(w, disk, repository, one)
      /\ CapabilityOf(w, disk, repository, one).ok
  BY DEF Done, Failed, ResolvedWorkflowCapability
<1>2. one \in w.closure.resources
  BY <1>1
<1> HIDE DEF one
<1>3. /\ Referenced(w, disk, meta.active, "workflow") # {}
      /\ disk[meta.active].real = disk[w.path].real
      /\ \A a \in meta.adapters :
            /\ Referenced(w, disk, a.path, "adapter") # {}
            /\ disk[disk[a.path].real].meta = [kind |-> "adapter", id |-> a.id]
      /\ {one.path, disk[meta.active].real} \cup {disk[a.path].real : a \in meta.adapters}
           \subseteq repository
  BY <1>1 DEF Done, Failed, CapabilityOf
<1>4. c = [capability |-> one.path, workflow |-> disk[meta.active].real,
           adapters |-> {[id |-> a.id, path |-> disk[a.path].real] : a \in meta.adapters}]
  BY <1>1 DEF Done, Failed, CapabilityOf
<1>5. disk[meta.active].real \in paths
  BY <1>3 DEF Referenced
<1>6. \A a \in meta.adapters : disk[a.path].real \in paths
  BY <1>3 DEF Referenced
<1>7. c.capability \in paths \cap repository
  BY <1>2, <1>3, <1>4
<1>8. c.workflow \in paths \cap repository /\ c.workflow = disk[w.path].real
  BY <1>3, <1>4, <1>5
<1>9. \A a \in c.adapters : /\ a.path \in paths \cap repository
                            /\ disk[a.path].meta = [kind |-> "adapter", id |-> a.id]
  <2> SUFFICES ASSUME NEW a \in c.adapters
               PROVE  /\ a.path \in paths \cap repository
                      /\ disk[a.path].meta = [kind |-> "adapter", id |-> a.id]
    OBVIOUS
  <2>1. c.adapters = {[id |-> b.id, path |-> disk[b.path].real] : b \in meta.adapters}
    BY <1>4
  <2>2. PICK b \in meta.adapters : a = [id |-> b.id, path |-> disk[b.path].real]
    BY <2>1
  <2>3. a.id = b.id /\ a.path = disk[b.path].real
    BY <2>2
  <2>4. disk[a.path].meta = [kind |-> "adapter", id |-> a.id]
    BY <1>3, <2>3
  <2>5. a.path \in repository /\ a.path \in paths
    BY <1>3, <1>6, <2>3
  <2> QED
    BY <2>4, <2>5
<1> QED
  BY <1>1, <1>7, <1>8, <1>9

\* A file whose first line is no fence loads on every machine whose default prompts
\* can be read, so the loader does not refuse what needs no configuration: its lines
\* are the prompt of all lanes (workflow.rs:593-655).
THEOREM BareFileLoads ==
    ASSUME NEW path, NEW machine, path \in DOMAIN machine.disk,
           NEW lines, lines = machine.disk[path].lines, lines # <<>>,
           lines[1] # Fence, ~OnlyAFence(lines),
           \A key \in BackendKeys : OnDisk(machine.disk, machine.defaults, key)
    PROVE  /\ Load(path, machine).ok
           /\ \A lane \in Lanes : Load(path, machine).value.lanes[lane]
                                    = IF BlankLines(lines) THEN "blank" ELSE "fine"
<1> DEFINE none == [k \in {} |-> {}]
           inline == IF BlankLines(lines) THEN "blank" ELSE "fine"
           backends == [key \in BackendKeys |-> Text(machine.disk, machine.defaults, key)]
<1>1. SplitFrontMatter(lines) = [front |-> <<>>, prompt |-> lines]
  BY DEF SplitFrontMatter
<1>2. ParseFrontMatter(<<>>) = Done(none)
  BY DEF ParseFrontMatter, BlankLines
<1>3. \A key : ~Has(none, key)
  BY DEF Has
<1> HIDE DEF none
<1>4. ResolveResourceClosure(none, machine.disk, machine.repository) = Done(NoClosure)
  BY <1>3 DEF ResolveResourceClosure
<1>5. LoadLanePrompts(none, machine.disk, inline) = Done([lane \in Lanes |-> inline])
  BY <1>3 DEF LoadLanePrompts
<1>6. LoadBackendPrompts(none, machine.disk, machine.defaults) = Done(backends)
  BY <1>3 DEF LoadBackendPrompts
<1>7. /\ ValidateIssueTemplate(none, machine.disk)
      /\ ValidateWorkpadTemplates(none, machine.disk, machine.ids)
  BY <1>3 DEF ValidateIssueTemplate, ValidateWorkpadTemplates
<1> HIDE DEF inline, backends
<1>8. Parse(path, lines, machine)
        = Done([path |-> path, config |-> none, closure |-> NoClosure,
                lanes |-> [lane \in Lanes |-> inline], backends |-> backends])
  <2> DEFINE lanes == [lane \in Lanes |-> inline]
  <2>1. /\ Done(none).ok /\ Done(none).value = none
        /\ Done(NoClosure).ok /\ Done(NoClosure).value = NoClosure
        /\ Done(lanes).ok /\ Done(lanes).value = lanes
        /\ Done(backends).ok /\ Done(backends).value = backends
    <3> HIDE DEF lanes
    <3> QED BY DEF Done
  <2>2. inline = IF BlankLines(lines) THEN "blank" ELSE "fine"
    BY DEF inline
  <2>3. SplitFrontMatter(lines).front = <<>> /\ SplitFrontMatter(lines).prompt = lines
    BY <1>1
  <2> HIDE DEF lanes
  <2>4. LoadLanePrompts(none, machine.disk, inline) = Done(lanes)
    BY <1>5 DEF lanes
  <2>5. Parse(path, lines, machine)
          = Done([path |-> path, config |-> none, closure |-> NoClosure,
                  lanes |-> lanes, backends |-> backends])
    BY <2>1, <2>2, <2>3, <2>4, <1>2, <1>4, <1>6, <1>7 DEF Parse
  <2> QED
    BY <2>5 DEF lanes
<1>9. Load(path, machine) = Parse(path, lines, machine)
  BY DEF Load
<1> QED
  BY <1>8, <1>9 DEF Done, Failed, inline

-----------------------------------------------------------------------------
(* The issue gate: every candidate and every answer of the evaluator.      *)

\* A dispatchable decision means that the candidate is safe, that a live issue has
\* an assignee, and that no tracker blocker is open: neither the evaluator's answer
\* nor its mode can overrule the deterministic checks (commands/gate.rs:91-136).
THEOREM DispatchIsSafe ==
    ASSUME NEW mode \in Modes, NEW live \in BOOLEAN, NEW c \in Candidate, NEW a \in Answer,
           Dispatchable(EvaluateForCurrentSource(mode, live, c, a))
    PROVE  /\ c.titled /\ c.bodyFaults = {}
           /\ c.blockersResolved
           /\ live => c.assigned
<1>1. live => c.assigned
  BY DEF EvaluateForCurrentSource, Dispatchable
<1>2. Dispatchable(DependencyPreflight(c))
  BY DEF EvaluateForCurrentSource, Dispatchable
<1>3. Dispatchable(EvaluateIssue(c))
  BY <1>2 DEF DependencyPreflight
<1>4. c.titled /\ c.bodyFaults = {}
  BY <1>3 DEF EvaluateIssue, Dispatchable
<1>5. c.blockersResolved
  BY <1>2, <1>3 DEF DependencyPreflight, Dispatchable
<1> QED
  BY <1>1, <1>4, <1>5

\* In required mode only a readable, coherent and ready answer dispatches, so a
\* missing, failed, late or self-contradicting evaluator never lets an issue
\* through (quality_gate.rs:180-193, 340-366).
THEOREM RequiredNeedsAnAnswer ==
    ASSUME NEW live \in BOOLEAN, NEW c \in Candidate, NEW a \in Answer,
           Dispatchable(EvaluateForCurrentSource("required", live, c, a))
    PROVE  Accepted(a) /\ Dispatchable(a.kind) /\ ~a.missing
<1>1. Dispatchable(LlmGate("required", EvaluateIssue(c), a))
  BY DEF EvaluateForCurrentSource, Dispatchable
<1>2. Dispatchable(EvaluateIssue(c))
  BY <1>1 DEF LlmGate
<1>3. Accepted(a) /\ Dispatchable(a.kind)
  BY <1>1, <1>2 DEF LlmGate, Dispatchable
<1>4. ~a.missing
  BY <1>3 DEF Accepted, Coherent, Dispatchable
<1> QED
  BY <1>3, <1>4

\* An advisory evaluator changes nothing: whatever it answers, the decision is the
\* one a disabled evaluator gives (quality_gate.rs:168-179, the documented meaning
\* of the mode at :106-107).
THEOREM AdvisoryChangesNothing ==
    ASSUME NEW live \in BOOLEAN, NEW c \in Candidate, NEW a \in Answer, NEW b \in Answer
    PROVE  EvaluateForCurrentSource("advisory", live, c, a)
               = EvaluateForCurrentSource("disabled", live, c, b)
<1>1. LlmGate("advisory", EvaluateIssue(c), a) = LlmGate("disabled", EvaluateIssue(c), b)
  BY DEF LlmGate
<1> QED
  BY <1>1 DEF EvaluateForCurrentSource

-----------------------------------------------------------------------------
(* Review status: every set of ledgers, sessions, runtime states, claims.  *)

\* Every slot is that of a running job (review_status.rs:157-223).
LEMMA SlotsAreRunning ==
    ASSUME NEW w, NEW filter, NEW now, NEW e \in ActiveSlots(w, filter, now)
    PROVE  JobRunning(e.job)
<1>1. CASE e \in LedgerSlots(w, filter, now)
  BY <1>1 DEF LedgerSlots, EntryFromLedger
<1>2. CASE e \in SessionSlots(w, filter, now)
  BY <1>2 DEF SessionSlots, EntryFromSession, JobRunning
<1>3. CASE e \in RuntimeSlots(w, filter, now)
  BY <1>3 DEF RuntimeSlots, EntryFromRuntime, JobRunning
<1> QED
  BY <1>1, <1>2, <1>3 DEF ActiveSlots

\* Whether a ledger, a session, the runtime state or only the claim of an abandoned
\* review is left, one of the anomalies names it (review_status.rs:157-245, 596-628).
LEMMA StrandedClaimIsNamed ==
    ASSUME NEW w, NEW filter, NEW now, NEW limit, NEW timeout,
           NEW issue \in DOMAIN w.project, Matches(issue, filter), w.project[issue].claim # "none",
           \A e \in ActiveSlots(w, filter, now) : e.issue = issue => e.pid \in {"none", "dead"}
    PROVE  \E a \in Anomalies(w, filter, now, limit, timeout) :
              /\ a.issue = issue
              /\ a.code \in {"project_claim_without_active_job", "running_job_missing_pid",
                             "running_job_dead_pid"}
<1> DEFINE claims == {[issue |-> i, code |-> "project_claim_without_active_job"] :
                        i \in StrandedClaims(w, filter, now)}
           entries == ActiveSlots(w, filter, now) \cup RecentJobs(w, filter, now, limit)
           found(e) == {[issue |-> e.issue, code |-> c] : c \in EntryAnomalies(e, timeout)}
<1>1. Anomalies(w, filter, now, limit, timeout) = claims \cup UNION {found(e) : e \in entries}
  BY DEF Anomalies
<1>2. CASE issue \in IssuesOf(ActiveSlots(w, filter, now))
  <2>1. PICK e \in ActiveSlots(w, filter, now) : e.issue = issue
    BY <1>2 DEF IssuesOf
  <2>2. JobRunning(e.job)
    BY SlotsAreRunning
  <2>3. PICK c \in {"running_job_missing_pid", "running_job_dead_pid"} : c \in EntryAnomalies(e, timeout)
    BY <2>1, <2>2 DEF EntryAnomalies, AnomalyIf
  <2>4. [issue |-> e.issue, code |-> c] \in found(e)
    BY <2>3
  <2>5. [issue |-> e.issue, code |-> c] \in Anomalies(w, filter, now, limit, timeout)
    <3>1. e \in entries
      OBVIOUS
    <3>2. found(e) \in {found(x) : x \in entries}
      BY <3>1
    <3> HIDE DEF found, entries, claims
    <3> QED
      BY <1>1, <2>4, <3>2
  <2> QED
    BY <2>1, <2>3, <2>5
<1>3. CASE issue \notin IssuesOf(ActiveSlots(w, filter, now))
  <2>1. issue \in StrandedClaims(w, filter, now)
    BY <1>3 DEF StrandedClaims
  <2>2. [issue |-> issue, code |-> "project_claim_without_active_job"] \in claims
    BY <2>1
  <2>3. [issue |-> issue, code |-> "project_claim_without_active_job"]
          \in Anomalies(w, filter, now, limit, timeout)
    <3> HIDE DEF claims, found, entries
    <3> QED
      BY <1>1, <2>2
  <2> QED
    BY <2>3
<1> QED
  BY <1>2, <1>3

\* An issue that still has a Review Agent claim although no process reviews it, for
\* instance after the loop crashed, is never shown as a healthy review: the status
\* names it among its anomalies, or one of its sources cannot be read and no status is
\* shown at all (review_status.rs:97-129, 157-245, 398-425, 596-628).
THEOREM StrandedClaimIsShown ==
    ASSUME NEW w, NEW filter, NEW now, NEW limit, NEW timeout,
           NEW issue \in DOMAIN w.project, Matches(issue, filter), w.project[issue].claim # "none",
           \A e \in ActiveSlots(w, filter, now) : e.issue = issue => e.pid \in {"none", "dead"}
    PROVE  LET status == LoadReviewStatus(w, filter, now, limit, timeout) IN
           IF w.unreadable # {} THEN ~status.shown
           ELSE \E a \in status.anomalies :
                  /\ a.issue = issue
                  /\ a.code \in {"project_claim_without_active_job", "running_job_missing_pid",
                                 "running_job_dead_pid"}
<1>1. CASE w.unreadable # {}
  BY <1>1 DEF LoadReviewStatus
<1>2. CASE w.unreadable = {}
  <2>1. LoadReviewStatus(w, filter, now, limit, timeout).anomalies
          = Anomalies(w, filter, now, limit, timeout)
    BY <1>2 DEF LoadReviewStatus
  <2> QED
    BY <1>2, <2>1, StrandedClaimIsNamed
<1> QED
  BY <1>1, <1>2

\* A job that was written down once as running is shown with the age of that moment
\* for ever, and so is never reported as one that exceeds the review timeout, however
\* long ago its loop died: the age of a record with an update stands still
\* (review_status.rs:433-438, review/job.rs:260-264).
THEOREM AgeStandsStill ==
    ASSUME NEW w, NEW job, NEW previous, NEW written \in Nat, NEW now, NEW timeout \in Nat,
           previous.started = NoTime
    PROVE  /\ EntryFromLedger(w, WriteLedger(previous, job, written), now).elapsed = 0
           /\ "running_job_exceeds_threshold" \notin
                EntryAnomalies(EntryFromLedger(w, WriteLedger(previous, job, written), now), timeout)
<1> DEFINE e == EntryFromLedger(w, WriteLedger(previous, job, written), now)
<1>1. /\ WriteLedger(previous, job, written).started = written
      /\ WriteLedger(previous, job, written).updated = written
  BY DEF WriteLedger
<1>2. written # NoTime /\ Since(written, written) = 0
  BY DEF NoTime, Since
<1>3. e.elapsed = 0
  BY <1>1, <1>2 DEF EntryFromLedger
<1> HIDE DEF e
<1>4. "running_job_exceeds_threshold" \notin EntryAnomalies(e, timeout)
  <2>1. ~(e.elapsed > timeout)
    BY <1>3
  <2> QED
    BY <2>1 DEF EntryAnomalies, AnomalyIf
<1> QED
  BY <1>3, <1>4 DEF e

-----------------------------------------------------------------------------
(* The tracker commands: the invariant. *)

IssueFields == DOMAIN NewIssue(0, NoPlan)

IsSeq(s) == s \in Seq(ToSet(s))

\* The state keeps its shape.
BTyped ==
  budget \in [issues : {budget.issues}, cmds : [Clients -> Seq(DOMAIN Commands)],
              parallel : BOOLEAN, faults : Nat, crashes : Nat, moves : Nat, ctx : {budget.ctx}]
ITyped ==
  /\ IsSeq(issues)
  /\ \A i \in DOMAIN issues :
       /\ DOMAIN issues[i] = IssueFields /\ issues[i].item \in States \cup {"none", "nostatus"}
       /\ IsSeq(issues[i].comments)
CTyped ==
  /\ DOMAIN client = Clients
  /\ \A c \in Clients :
       /\ DOMAIN client[c] = {"cmd", "todo", "tries", "issue", "login", "out"}
       /\ Running(c) => client[c].cmd \in DOMAIN Commands

\* Commands that write titles: creations, and edits of the issue they name.
Edits == {n \in DOMAIN Commands : Commands[n].kind \in {"promote", "rework"}}
Creates == {n \in DOMAIN Commands : Commands[n].kind = "create"}

\* A planned issue has the title of its plan.
Titles ==
  \A i \in DOMAIN issues : Planned(i) =>
    /\ issues[i].plan \in Creates \cup Edits
    /\ issues[i].title = Commands[issues[i].plan].title

\* An issue some plan created has the assignee the plan names.
AsPlanned(i) == issues[i].plan \in Creates => issues[i].asg = Commands[issues[i].plan].asg

\* What a plan with an assignee created was assigned before it became an item.
Assigned ==
  \A i \in DOMAIN issues :
    (Commands[issues[i].plan].asg # Nobody /\ issues[i].item # "none") => AsPlanned(i)

\* Commands follow one another.
Alone ==
  ~budget.parallel => \A c, d \in Clients : Running(c) /\ Running(d) => c = d

\* The rest of a creation, call by call.
Late(n) ==
  LET cmd == Commands[n]
  IN  <<Call("write status", 0, [to |-> Stage(cmd), rest |-> FALSE])>>
        \o ((IF cmd.field THEN <<Call("set field", 0, 0)>> ELSE <<>>)
        \o (RelationCalls(0, cmd.rel)
        \o ((IF Stage(cmd) # cmd.to THEN <<Call("set state", 0, cmd.to)>> ELSE <<>>)
        \o <<Call("require", 0, cmd.to)>>)))
Adding(n) == <<Call("add item", 0, 0)>> \o Late(n)
Assigning(n) == <<Call("assign", 0, Commands[n].asg)>> \o Adding(n)
Created(n) == IF Commands[n].asg # Nobody THEN Assigning(n) ELSE Adding(n)
Creating(n) == <<Call("create", 0, [title |-> Commands[n].title, plan |-> n])>> \o Created(n)

\* The login of a check hides what is assigned to others.
Shown(j, login) == Forged(j) /\ Commands[issues[j].plan].asg \in Allowed(login)

\* No item the command's check could see, but its own issue, has the title the command
\* creates, and its own issue is the youngest.
Clear(c) ==
  ~budget.parallel => \A j \in DOMAIN issues :
    /\ (/\ issues[j].title = Commands[client[c].cmd].title /\ issues[j].item # "none"
        /\ Shown(j, client[c].login)) => j = client[c].issue
    /\ client[c].issue # 0 => j <= client[c].issue

Own(c) ==
  /\ client[c].issue \in DOMAIN issues
  /\ issues[client[c].issue].plan \in Creates =>
       /\ issues[client[c].issue].plan = client[c].cmd
       /\ issues[client[c].issue].login = client[c].login

\* A creation on its way to the Project.
Early(c) ==
  /\ client[c].cmd \in Creates
  /\ \/ client[c].todo = <<Call("duplicate check", 0, Commands[client[c].cmd].title)>>
                           \o Creating(client[c].cmd)
        /\ client[c].issue = 0
     \/ client[c].todo = Creating(client[c].cmd) /\ client[c].issue = 0 /\ Clear(c)
     \/ client[c].todo = Assigning(client[c].cmd) /\ Own(c) /\ Clear(c)
     \/ client[c].todo = Adding(client[c].cmd) /\ Own(c) /\ Clear(c)
        /\ (Commands[client[c].cmd].asg # Nobody => AsPlanned(client[c].issue))

Target(c, e) == IF e.i = 0 THEN client[c].issue ELSE e.i

\* A call that adds no item of a title.
Harmless(c, e) ==
  /\ e.op \notin {"duplicate check", "create", "assign", "add item"}
  /\ e.op = "write status" => /\ e.x.to \in States /\ Target(c, e) \in DOMAIN issues
                              /\ issues[Target(c, e)].item # "none"
  /\ e.op = "set state" => e.x \in States
  /\ e.op = "edit" => e.x.plan \in Edits /\ e.x.title = Commands[e.x.plan].title

TodoOK(c) ==
  /\ IsSeq(client[c].todo) /\ client[c].todo # <<>>
  /\ Early(c) \/ \A k \in DOMAIN client[c].todo : Harmless(c, client[c].todo[k])

Todos == \A c \in Clients : Running(c) => TodoOK(c)

-----------------------------------------------------------------------------
(* Sequences of calls. *)

\* Every sequence is one over its elements.
LEMMA SeqIs ==
  ASSUME NEW S, NEW s \in Seq(S)
  PROVE  IsSeq(s) /\ DOMAIN s = 1..Len(s) /\ Len(s) \in Nat
BY SeqOfRange, LenProperties DEF IsSeq, ToSet, Range

\* Its domain.
LEMMA SeqDomain ==
  ASSUME NEW s, IsSeq(s)
  PROVE  /\ DOMAIN s = 1..Len(s) /\ Len(s) \in Nat
         /\ s # <<>> => 1 \in DOMAIN s
<1>1. PICK S : S = ToSet(s)
  OBVIOUS
<1>2. s \in Seq(S)
  BY <1>1 DEF IsSeq
<1> QED
  BY <1>2, LenProperties, EmptySeq

\* Short sequences.
LEMMA ShortSeq ==
  /\ IsSeq(<<>>) /\ DOMAIN <<>> = {}
  /\ \A a : IsSeq(<<a>>) /\ DOMAIN <<a>> = {1} /\ <<a>>[1] = a /\ <<a>> # <<>>
  /\ \A a, b : IsSeq(<<a, b>>) /\ DOMAIN <<a, b>> = {1, 2} /\ <<a, b>>[1] = a /\ <<a, b>>[2] = b
<1>1. IsSeq(<<>>) /\ DOMAIN <<>> = {}
  <2>1. PICK u : u = <<>>
    OBVIOUS
  <2>2. u \in Seq({}) /\ Len(u) = 0
    BY <2>1, EmptySeq
  <2>3. IsSeq(u) /\ DOMAIN u = 1..0
    BY <2>2, SeqIs
  <2> QED
    BY <2>1, <2>3
<1>2. ASSUME NEW a
      PROVE  IsSeq(<<a>>) /\ DOMAIN <<a>> = {1} /\ <<a>>[1] = a /\ <<a>> # <<>>
  <2>1. PICK u : u = <<a>>
    OBVIOUS
  <2>2. u \in Seq({a}) /\ Len(u) = 1 /\ u[1] = a
    BY <2>1
  <2>3. IsSeq(u) /\ DOMAIN u = 1..1
    BY <2>2, SeqIs
  <2>4. u # <<>>
    <3>1. Len(<<>>) = 0
      BY EmptySeq
    <3> QED
      BY <2>2, <3>1
  <2> QED
    BY <2>1, <2>2, <2>3, <2>4
<1>3. ASSUME NEW a, NEW b
      PROVE  IsSeq(<<a, b>>) /\ DOMAIN <<a, b>> = {1, 2} /\ <<a, b>>[1] = a /\ <<a, b>>[2] = b
  <2>1. PICK u : u = <<a, b>>
    OBVIOUS
  <2>2. u \in Seq({a, b}) /\ Len(u) = 2 /\ u[1] = a /\ u[2] = b
    BY <2>1
  <2>3. IsSeq(u) /\ DOMAIN u = 1..2
    BY <2>2, SeqIs
  <2> QED
    BY <2>1, <2>2, <2>3
<1> QED
  BY <1>1, <1>2, <1>3

\* Two sequences are sequences over a common set.
LEMMA Common ==
  ASSUME NEW s, NEW t, IsSeq(s), IsSeq(t)
  PROVE  \E S : s \in Seq(S) /\ t \in Seq(S)
<1>1. PICK S : S = ToSet(s) \cup ToSet(t)
  OBVIOUS
<1>2. s \in Seq(S)
  BY <1>1, SeqMonotonic DEF IsSeq
<1>3. t \in Seq(S)
  BY <1>1, SeqMonotonic DEF IsSeq
<1> QED
  BY <1>2, <1>3

\* One sequence after the other has the elements of both.
LEMMA Joined ==
  ASSUME NEW s, NEW t, IsSeq(s), IsSeq(t)
  PROVE  /\ IsSeq(s \o t)
         /\ s # <<>> => s \o t # <<>>
         /\ t # <<>> => s \o t # <<>>
         /\ \A k \in DOMAIN (s \o t) : \/ \E j \in DOMAIN s : (s \o t)[k] = s[j]
                                       \/ \E j \in DOMAIN t : (s \o t)[k] = t[j]
<1>1. PICK S : s \in Seq(S) /\ t \in Seq(S)
  BY Common
<1>2. /\ s \o t \in Seq(S) /\ Len(s \o t) = Len(s) + Len(t)
      /\ \A i \in 1 .. Len(s) + Len(t) : (s \o t)[i] = IF i <= Len(s) THEN s[i] ELSE t[i - Len(s)]
  BY <1>1, ConcatProperties
<1>3. /\ DOMAIN s = 1..Len(s) /\ Len(s) \in Nat /\ DOMAIN t = 1..Len(t) /\ Len(t) \in Nat
      /\ DOMAIN (s \o t) = 1..(Len(s) + Len(t)) /\ IsSeq(s \o t)
  BY <1>1, <1>2, SeqIs
<1>4. (s # <<>> => Len(s) # 0) /\ (t # <<>> => Len(t) # 0) /\ Len(<<>>) = 0
  BY <1>1, EmptySeq
<1>5. ASSUME NEW k \in DOMAIN (s \o t)
      PROVE  \/ \E j \in DOMAIN s : (s \o t)[k] = s[j]
             \/ \E j \in DOMAIN t : (s \o t)[k] = t[j]
  <2>1. CASE k <= Len(s)
    BY <1>2, <1>3, <2>1
  <2>2. CASE k > Len(s)
    <3>1. k - Len(s) \in DOMAIN t /\ (s \o t)[k] = t[k - Len(s)]
      BY <1>2, <1>3, <2>2
    <3> QED
      BY <3>1
  <2> QED
    BY <1>3, <2>1, <2>2
<1> QED
  BY <1>2, <1>3, <1>4, <1>5

\* What is left after the first call.
LEMMA Rest ==
  ASSUME NEW s, IsSeq(s), s # <<>>
  PROVE  /\ IsSeq(Tail(s)) /\ Head(s) = s[1] /\ 1 \in DOMAIN s
         /\ \A k \in DOMAIN Tail(s) : \E j \in DOMAIN s : Tail(s)[k] = s[j]
<1>1. PICK S : S = ToSet(s)
  OBVIOUS
<1>2. s \in Seq(S)
  BY <1>1 DEF IsSeq
<1>3. /\ Tail(s) \in Seq(S) /\ Len(Tail(s)) = Len(s)-1
      /\ \A i \in 1 .. Len(Tail(s)) : Tail(s)[i] = s[i+1]
  BY <1>2, HeadTailProperties
<1>4. /\ DOMAIN s = 1..Len(s) /\ Len(s) \in Nat \ {0} /\ DOMAIN Tail(s) = 1..(Len(s) - 1)
      /\ IsSeq(Tail(s))
  BY <1>2, <1>3, SeqIs, EmptySeq
<1>5. Head(s) = s[1]
  BY <1>2
<1>6. \A k \in DOMAIN Tail(s) : k + 1 \in DOMAIN s /\ Tail(s)[k] = s[k + 1]
  BY <1>3, <1>4
<1> QED
  BY <1>4, <1>5, <1>6

\* One call before the others.
LEMMA Before ==
  ASSUME NEW e, NEW t, IsSeq(t)
  PROVE  /\ IsSeq(<<e>> \o t) /\ <<e>> \o t # <<>>
         /\ Head(<<e>> \o t) = e /\ Tail(<<e>> \o t) = t
<1>1. IsSeq(<<e>>) /\ <<e>> # <<>>
  BY ShortSeq
<1>2. PICK S : <<e>> \in Seq(S) /\ t \in Seq(S)
  BY <1>1, Common
<1>3. IsSeq(<<e>> \o t) /\ <<e>> \o t # <<>>
  BY <1>1, Joined
<1>4. /\ <<e>> \o t \in Seq(S) /\ Len(<<e>> \o t) = Len(<<e>>) + Len(t) /\ Len(<<e>>) = 1
      /\ \A i \in 1 .. Len(<<e>>) + Len(t) :
           (<<e>> \o t)[i] = IF i <= Len(<<e>>) THEN <<e>>[i] ELSE t[i - Len(<<e>>)]
  BY <1>2, ConcatProperties
<1>5. PICK u : u = <<e>> \o t
  OBVIOUS
<1>6. Len(t) \in Nat
  BY <1>2, LenProperties
<1>7. /\ u \in Seq(S) /\ u # <<>> /\ Len(u) = 1 + Len(t) /\ u[1] = e
      /\ \A i \in 1..Len(t) : u[i + 1] = t[i]
  BY <1>3, <1>4, <1>5, <1>6
<1>8. Tail(u) \in Seq(S) /\ Len(Tail(u)) = Len(t) /\ \A i \in 1..Len(t) : Tail(u)[i] = t[i]
  BY <1>6, <1>7, HeadTailProperties
<1>9. Tail(u) = t
  BY <1>2, <1>8, SeqEqual
<1>10. Head(u) = e
  BY <1>7
<1> QED
  BY <1>3, <1>5, <1>9, <1>10

\* Its calls are that one and the others.
LEMMA FirstThen ==
  ASSUME NEW e, NEW t, IsSeq(t), NEW u, u = <<e>> \o t
  PROVE  \A k \in DOMAIN u : u[k] = e \/ \E j \in DOMAIN t : u[k] = t[j]
<1>1. PICK v : v = <<e>>
  OBVIOUS
<1>2. IsSeq(v) /\ \A k \in DOMAIN v : v[k] = e
  BY <1>1, ShortSeq
<1>3. u = v \o t
  BY <1>1
<1>4. \A k \in DOMAIN u : \/ \E j \in DOMAIN v : u[k] = v[j]
                          \/ \E j \in DOMAIN t : u[k] = t[j]
  BY <1>2, <1>3, Joined
<1> QED
  BY <1>2, <1>4

\* Brackets do not matter.
LEMMA Associative ==
  ASSUME NEW s, NEW t, NEW u, IsSeq(s), IsSeq(t), IsSeq(u)
  PROVE  (s \o t) \o u = s \o (t \o u)
<1>1. PICK S : S = ToSet(s) \cup ToSet(t) \cup ToSet(u)
  OBVIOUS
<1>2. s \in Seq(S)
  BY <1>1, SeqMonotonic DEF IsSeq
<1>3. t \in Seq(S)
  BY <1>1, SeqMonotonic DEF IsSeq
<1>4. u \in Seq(S)
  BY <1>1, SeqMonotonic DEF IsSeq
<1> QED
  BY <1>2, <1>3, <1>4, ConcatAssociative

\* Nothing before the others.
LEMMA NothingBefore ==
  ASSUME NEW s, IsSeq(s)
  PROVE  <<>> \o s = s
<1>1. PICK S : S = ToSet(s)
  OBVIOUS
<1> QED
  BY <1>1, ConcatEmptySeq DEF IsSeq


-----------------------------------------------------------------------------
(* Scripts. *)

\* A call that never adds an item, whatever happened before.
Tame(e) ==
  /\ e.op \notin {"duplicate check", "create", "assign", "add item", "write status"}
  /\ e.op = "set state" => e.x \in States
  /\ e.op = "edit" => e.x.plan \in Edits /\ e.x.title = Commands[e.x.plan].title
Fine(s) == IsSeq(s) /\ \A k \in DOMAIN s : Tame(s[k])

\* A function on an interval is a sequence.
LEMMA IntervalSeq ==
  ASSUME NEW n \in Nat, NEW f, DOMAIN f = 1..n, f = [k \in 1..n |-> f[k]]
  PROVE  IsSeq(f)
<1>1. PICK S : S = ToSet(f)
  OBVIOUS
<1>2. \A k \in 1..n : f[k] \in S
  BY <1>1 DEF ToSet
<1>3. f \in [1..n -> S]
  BY <1>2
<1>4. f \in Seq(S)
  BY <1>3, SeqDef
<1> QED
  BY <1>1, <1>4 DEF IsSeq

\* Tame calls in a row.
LEMMA FineTuples ==
  /\ Fine(<<>>)
  /\ \A a : Tame(a) => Fine(<<a>>)
  /\ \A a, b : Tame(a) /\ Tame(b) => Fine(<<a, b>>)
<1> QED
  BY ShortSeq DEF Fine

\* Longer rows.
LEMMA FineThree ==
  /\ \A a, b, d : Tame(a) /\ Tame(b) /\ Tame(d) => Fine(<<a, b, d>>)
  /\ \A a, b, d, e : Tame(a) /\ Tame(b) /\ Tame(d) /\ Tame(e) => Fine(<<a, b, d, e>>)
  /\ \A a, b, d, e, f, g : Tame(a) /\ Tame(b) /\ Tame(d) /\ Tame(e) /\ Tame(f) /\ Tame(g)
                             => Fine(<<a, b, d, e, f, g>>)
<1>1. ASSUME NEW a, NEW b, NEW d, Tame(a), Tame(b), Tame(d)
      PROVE  Fine(<<a, b, d>>)
  <2>1. PICK u : u = <<a, b, d>>
    OBVIOUS
  <2>2. u \in Seq({a, b, d}) /\ Len(u) = 3 /\ u[1] = a /\ u[2] = b /\ u[3] = d
    BY <2>1
  <2>3. IsSeq(u) /\ DOMAIN u = 1..3
    BY <2>2, SeqIs
  <2> QED
    BY <1>1, <2>1, <2>2, <2>3 DEF Fine
<1>2. ASSUME NEW a, NEW b, NEW d, NEW e, Tame(a), Tame(b), Tame(d), Tame(e)
      PROVE  Fine(<<a, b, d, e>>)
  <2>1. PICK u : u = <<a, b, d, e>>
    OBVIOUS
  <2>2. u \in Seq({a, b, d, e}) /\ Len(u) = 4 /\ u[1] = a /\ u[2] = b /\ u[3] = d /\ u[4] = e
    BY <2>1
  <2>3. IsSeq(u) /\ DOMAIN u = 1..4
    BY <2>2, SeqIs
  <2> QED
    BY <1>2, <2>1, <2>2, <2>3 DEF Fine
<1>3. ASSUME NEW a, NEW b, NEW d, NEW e, NEW f, NEW g,
             Tame(a), Tame(b), Tame(d), Tame(e), Tame(f), Tame(g)
      PROVE  Fine(<<a, b, d, e, f, g>>)
  <2>1. PICK u : u = <<a, b, d, e, f, g>>
    OBVIOUS
  <2>2. /\ u \in Seq({a, b, d, e, f, g}) /\ Len(u) = 6
        /\ u[1] = a /\ u[2] = b /\ u[3] = d /\ u[4] = e /\ u[5] = f /\ u[6] = g
    BY <2>1
  <2>3. IsSeq(u) /\ DOMAIN u = 1..6
    BY <2>2, SeqIs
  <2> QED
    BY <1>3, <2>1, <2>2, <2>3 DEF Fine
<1> QED
  BY <1>1, <1>2, <1>3

\* One row after the other.
LEMMA FineJoined ==
  ASSUME NEW s, NEW t, Fine(s), Fine(t)
  PROVE  Fine(s \o t)
<1>1. PICK u : u = s \o t
  OBVIOUS
<1>2. IsSeq(u) /\ \A k \in DOMAIN u : \/ \E j \in DOMAIN s : u[k] = s[j]
                                      \/ \E j \in DOMAIN t : u[k] = t[j]
  BY <1>1, Joined DEF Fine
<1> QED
  BY <1>1, <1>2 DEF Fine

\* The calls that relate an issue.
LEMMA RelationsAreFine ==
  ASSUME NEW i, NEW rel, rel.blockers \in Seq(Nat)
  PROVE  Fine(RelationCalls(i, rel))
<1>1. PICK s : s = [k \in DOMAIN rel.blockers |->
                      Call("add relationship", i, [rel |-> "blocked by", other |-> rel.blockers[k]])]
  OBVIOUS
<1>2. PICK n \in Nat : DOMAIN rel.blockers = 1..n
  BY LenProperties
<1>3. IsSeq(s)
  BY <1>1, <1>2, IntervalSeq
<1>4. Fine(s)
  BY <1>1, <1>3 DEF Fine, Tame, Call
<1>5. PICK t : t = IF rel.parent = 0 THEN <<>>
                   ELSE <<Call("add relationship", i, [rel |-> "subissue of", other |-> rel.parent]),
                          Call("parent evidence", rel.parent, 0)>>
  OBVIOUS
<1>6. PICK a, b : a = Call("add relationship", i, [rel |-> "subissue of", other |-> rel.parent])
                  /\ b = Call("parent evidence", rel.parent, 0)
  OBVIOUS
<1>7. Tame(a) /\ Tame(b)
  BY <1>6 DEF Tame, Call
<1>8. Fine(t)
  BY <1>5, <1>6, <1>7, FineTuples
<1>9. Fine(s \o t)
  BY <1>4, <1>8, FineJoined
<1> QED
  BY <1>1, <1>5, <1>9 DEF RelationCalls

\* An edit and the calls around it.
LEMMA EditsAreFine ==
  ASSUME NEW n \in Edits
  PROVE  Fine(Script(n))
<1>1. PICK k : k = Commands[n]
  OBVIOUS
<1>2. /\ n \in DOMAIN Commands /\ k.rel.blockers \in Seq(Nat)
      /\ k.kind \in {"promote", "rework"}
  BY <1>1, ForgeAssumption DEF Edits
<1>3. PICK e1, e2, e3, e4, e5, e6 :
        /\ e1 = Call("edit", k.i, [title |-> k.title, plan |-> n])
        /\ e2 = Call("read back title", k.i, k.title)
        /\ e3 = Call("comment", k.i, "promotion note")
        /\ e4 = Call("set state", k.i, "Todo")
        /\ e5 = Call("require", k.i, "Todo")
        /\ e6 = Call("promote preflight", k.i, 0)
  OBVIOUS
<1>4. Tame(e1)
  BY <1>1, <1>2, <1>3 DEF Tame, Call
<1>5. Tame(e2) /\ Tame(e3) /\ Tame(e4) /\ Tame(e5) /\ Tame(e6)
  BY <1>3 DEF Tame, Call, States
<1>6. CASE k.kind = "promote"
  <2>1. Fine(<<e6, e1, e2>>)
    BY <1>4, <1>5, FineThree
  <2>2. Fine(RelationCalls(k.i, k.rel))
    BY <1>2, RelationsAreFine
  <2>3. Fine(<<e3, e4, e5, e2>>)
    BY <1>4, <1>5, FineThree
  <2>4. PICK s, t, u : s = <<e6, e1, e2>> /\ t = RelationCalls(k.i, k.rel) /\ u = <<e3, e4, e5, e2>>
    OBVIOUS
  <2>5. Fine(s \o t)
    BY <2>1, <2>2, <2>4, FineJoined
  <2>6. Fine((s \o t) \o u)
    BY <2>3, <2>4, <2>5, FineJoined
  <2>7. Script(n) = PromoteScript(n, k)
    BY <1>1, <1>6 DEF Script
  <2>8. PromoteScript(n, k) = (s \o t) \o u
    BY <1>3, <2>4 DEF PromoteScript
  <2> QED
    BY <2>6, <2>7, <2>8
<1>7. CASE k.kind = "rework"
  <2>1. PICK d1, d2, d3, d4, d5 :
          /\ d1 = Call("rework preflight", k.i, 0)
          /\ d2 = Call("read back body", k.i, k.title)
          /\ d3 = Call("comment", k.i, "rework note")
          /\ d4 = Call("set state", k.i, "Rework")
          /\ d5 = Call("require", k.i, "Rework")
    OBVIOUS
  <2>2. Tame(d1) /\ Tame(d2) /\ Tame(d3) /\ Tame(d4) /\ Tame(d5)
    BY <2>1 DEF Tame, Call, States
  <2>3. Fine(<<d1, e1, d2, d3, d4, d5>>)
    BY <1>4, <2>2, FineThree
  <2>4. Script(n) = ReworkScript(n, k)
    BY <1>1, <1>7 DEF Script
  <2>5. ReworkScript(n, k) = <<d1, e1, d2, d3, d4, d5>>
    BY <1>3, <2>1 DEF ReworkScript
  <2> QED
    BY <2>3, <2>4, <2>5
<1> QED
  BY <1>2, <1>6, <1>7

\* The commands that only write.
LEMMA DirectIsFine ==
  ASSUME NEW n \in DOMAIN Commands, n \notin Creates, n \notin Edits
  PROVE  Fine(Script(n))
<1>1. PICK k : k = Commands[n]
  OBVIOUS
<1>2. /\ k.kind \in CommandKinds \ {"create", "promote", "rework"} /\ k.to \in States
  BY <1>1, ForgeAssumption DEF Edits, Creates
<1>3. Script(n) = DirectScript(k)
  BY <1>1, <1>2 DEF Script
<1>4. PICK e1, e2, e3, e4, e5, e6, e7, e8, e9 :
        /\ e1 = Call("upsert", k.i, k.note)
        /\ e2 = Call("set state", k.i, k.to)
        /\ e3 = Call("comment", k.i, k.note)
        /\ e4 = Call("forget claim", k.i, 0)
        /\ e5 = Call("set state", k.i, "Done")
        /\ e6 = Call("close", k.i, 0)
        /\ e7 = Call("gate", k.i, 0)
        /\ e8 = Call("auto-fix", k.i, 0)
        /\ e9 = Call("repair", k.i, k.note)
  OBVIOUS
<1>5. Tame(e1) /\ Tame(e2) /\ Tame(e3) /\ Tame(e4) /\ Tame(e5) /\ Tame(e6) /\ Tame(e7) /\ Tame(e8)
      /\ Tame(e9)
  BY <1>2, <1>4 DEF Tame, Call, States
<1>6. /\ Fine(<<e1>>) /\ Fine(<<e2>>) /\ Fine(<<e3>>) /\ Fine(<<e4>>) /\ Fine(<<e5, e6>>)
      /\ Fine(<<e7>>) /\ Fine(<<e8>>) /\ Fine(<<e9>>)
  BY <1>5, FineTuples
<1>7. DirectScript(k) \in {<<e1>>, <<e2>>, <<e3>>, <<e4>>, <<e5, e6>>, <<e7>>, <<e8>>, <<e9>>}
  BY <1>2, <1>4 DEF DirectScript, CommandKinds
<1> QED
  BY <1>3, <1>6, <1>7


\* Two calls are one after the other.
LEMMA Pair ==
  ASSUME NEW a, NEW b
  PROVE  <<a, b>> = <<a>> \o <<b>>
<1>1. <<a>> \in Seq({a, b}) /\ <<b>> \in Seq({a, b}) /\ <<a, b>> \in Seq({a, b})
  OBVIOUS
<1>2. Len(<<a>>) = 1 /\ Len(<<b>>) = 1 /\ Len(<<a, b>>) = 2
  OBVIOUS
<1>3. PICK u : u = <<a>> \o <<b>>
  OBVIOUS
<1>4. u \in Seq({a, b}) /\ Len(u) = 2 /\ \A i \in 1..2 : u[i] = IF i <= 1 THEN <<a>>[i] ELSE <<b>>[i - 1]
  BY <1>1, <1>2, <1>3, ConcatProperties
<1>5. u[1] = a /\ u[2] = b
  BY <1>4
<1>6. \A i \in 1..2 : <<a, b>>[i] = u[i]
  BY <1>5
<1>7. <<a, b>> = u
  BY <1>1, <1>2, <1>4, <1>6, SeqEqual
<1> QED
  BY <1>3, <1>7

\* The end of a creation writes the status of its own issue and then is tame.
LEMMA LateIs ==
  ASSUME NEW n \in Creates
  PROVE  \E s : /\ Fine(s)
                /\ Late(n) = <<Call("write status", 0, [to |-> Stage(Commands[n]), rest |-> FALSE])>> \o s
<1>1. PICK k : k = Commands[n]
  OBVIOUS
<1>2. k.rel.blockers \in Seq(Nat) /\ k.to \in States
  BY <1>1, ForgeAssumption DEF Creates
<1>3. PICK f, r, g, q : /\ f = IF k.field THEN <<Call("set field", 0, 0)>> ELSE <<>>
                        /\ r = RelationCalls(0, k.rel)
                        /\ g = IF Stage(k) # k.to THEN <<Call("set state", 0, k.to)>> ELSE <<>>
                        /\ q = <<Call("require", 0, k.to)>>
  OBVIOUS
<1>4. PICK e1, e2, e3 : /\ e1 = Call("set field", 0, 0) /\ e2 = Call("set state", 0, k.to)
                        /\ e3 = Call("require", 0, k.to)
  OBVIOUS
<1>5. Tame(e1) /\ Tame(e2) /\ Tame(e3)
  BY <1>2, <1>4 DEF Tame, Call
<1>6. Fine(f) /\ Fine(g) /\ Fine(q)
  BY <1>3, <1>4, <1>5, FineTuples
<1>7. Fine(r)
  BY <1>2, <1>3, RelationsAreFine
<1>8. Fine(g \o q)
  BY <1>6, FineJoined
<1>9. Fine(r \o (g \o q))
  BY <1>7, <1>8, FineJoined
<1>10. Fine(f \o (r \o (g \o q)))
  BY <1>6, <1>9, FineJoined
<1>11. Late(n) = <<Call("write status", 0, [to |-> Stage(k), rest |-> FALSE])>> \o (f \o (r \o (g \o q)))
  BY <1>1, <1>3 DEF Late
<1> QED
  BY <1>1, <1>10, <1>11

\* All parts of a creation are sequences of calls.
LEMMA PartsAreSeqs ==
  ASSUME NEW n \in Creates
  PROVE  IsSeq(Late(n)) /\ IsSeq(Adding(n)) /\ IsSeq(Assigning(n)) /\ IsSeq(Created(n)) /\ IsSeq(Creating(n))
<1>1. PICK s : /\ Fine(s)
               /\ Late(n) = <<Call("write status", 0, [to |-> Stage(Commands[n]), rest |-> FALSE])>> \o s
  BY LateIs
<1>2. IsSeq(Late(n))
  BY <1>1, Before DEF Fine
<1>3. IsSeq(Adding(n))
  BY <1>2, Before DEF Adding
<1>4. IsSeq(Assigning(n))
  BY <1>3, Before DEF Assigning
<1>5. IsSeq(Created(n))
  BY <1>3, <1>4 DEF Created
<1>6. IsSeq(Creating(n))
  BY <1>5, Before DEF Creating
<1> QED
  BY <1>2, <1>3, <1>4, <1>5, <1>6

\* The status a creation gives its item first.
FirstStatus(e) == e.op = "write status" /\ e.i = 0 /\ e.x.to \in States

\* What a creation still does once its issue is an item.
LEMMA LateCalls ==
  ASSUME NEW n \in Creates, NEW u, u = Late(n)
  PROVE  IsSeq(u) /\ u # <<>> /\ \A k \in DOMAIN u : Tame(u[k]) \/ FirstStatus(u[k])
<1>1. PICK w : w = Call("write status", 0, [to |-> Stage(Commands[n]), rest |-> FALSE])
  OBVIOUS
<1>2. w.i = 0 /\ w.op = "write status" /\ w.x.to = Stage(Commands[n])
  BY <1>1 DEF Call
<1>3. Stage(Commands[n]) \in States
  BY ForgeAssumption DEF Creates, Stage, States
<1>4. PICK s : Fine(s) /\ u = <<w>> \o s
  BY <1>1, LateIs
<1>5. IsSeq(s) /\ \A k \in DOMAIN s : Tame(s[k])
  BY <1>4 DEF Fine
<1>6. IsSeq(u) /\ u # <<>>
  BY <1>4, <1>5, Before
<1>7. \A k \in DOMAIN u : u[k] = w \/ \E j \in DOMAIN s : u[k] = s[j]
  BY <1>4, <1>5, FirstThen
<1>8. FirstStatus(w)
  BY <1>2, <1>3 DEF FirstStatus
<1> QED
  BY <1>5, <1>6, <1>7, <1>8

\* A creation takes its parts in this order (forge/create.rs:138-215).
LEMMA CreationInParts ==
  ASSUME NEW n \in Creates
  PROVE  CreateScript(n, Commands[n])
           = <<Call("duplicate check", 0, Commands[n].title)>> \o Creating(n)
<1>1. PICK k : k = Commands[n]
  OBVIOUS
<1>2. k.rel.blockers \in Seq(Nat)
  BY <1>1, ForgeAssumption DEF Creates
<1>3. PICK d, p, i, w :
        /\ d = Call("duplicate check", 0, k.title)
        /\ p = Call("create", 0, [title |-> k.title, plan |-> n])
        /\ i = Call("add item", 0, 0)
        /\ w = Call("write status", 0, [to |-> Stage(k), rest |-> FALSE])
  OBVIOUS
<1>4. PICK a, f, r, g, q :
        /\ a = IF k.asg # Nobody THEN <<Call("assign", 0, k.asg)>> ELSE <<>>
        /\ f = IF k.field THEN <<Call("set field", 0, 0)>> ELSE <<>>
        /\ r = RelationCalls(0, k.rel)
        /\ g = IF Stage(k) # k.to THEN <<Call("set state", 0, k.to)>> ELSE <<>>
        /\ q = <<Call("require", 0, k.to)>>
  OBVIOUS
<1>5. IsSeq(a) /\ IsSeq(f) /\ IsSeq(g) /\ IsSeq(q)
  BY <1>4, ShortSeq
<1>6. IsSeq(r)
  BY <1>2, <1>4, RelationsAreFine DEF Fine
<1>7. IsSeq(<<d>>) /\ IsSeq(<<p>>) /\ IsSeq(<<i>>) /\ IsSeq(<<w>>) /\ IsSeq(<<d, p>>) /\ IsSeq(<<i, w>>)
  BY ShortSeq
<1>8. PICK p1 : p1 = <<d, p>> \o a
  OBVIOUS
<1>9. PICK p2 : p2 = p1 \o <<i, w>>
  OBVIOUS
<1>10. PICK p3 : p3 = p2 \o f
  OBVIOUS
<1>11. PICK p4 : p4 = p3 \o r
  OBVIOUS
<1>12. IsSeq(p1)
  BY <1>5, <1>7, <1>8, Joined
<1>13. IsSeq(p2)
  BY <1>7, <1>9, <1>12, Joined
<1>14. IsSeq(p3)
  BY <1>5, <1>10, <1>13, Joined
<1>15. IsSeq(p4)
  BY <1>6, <1>11, <1>14, Joined
<1>16. CreateScript(n, k) = (p4 \o g) \o q
  BY <1>3, <1>4, <1>8, <1>9, <1>10, <1>11 DEF CreateScript
<1>17. PICK x1 : x1 = g \o q
  OBVIOUS
<1>18. IsSeq(x1)
  BY <1>5, <1>17, Joined
<1>19. PICK x2 : x2 = r \o x1
  OBVIOUS
<1>20. IsSeq(x2)
  BY <1>6, <1>18, <1>19, Joined
<1>21. PICK x3 : x3 = f \o x2
  OBVIOUS
<1>22. IsSeq(x3)
  BY <1>5, <1>20, <1>21, Joined
<1>23. (p4 \o g) \o q = p4 \o x1
  BY <1>5, <1>15, <1>17, Associative
<1>24. p4 \o x1 = p3 \o x2
  BY <1>6, <1>11, <1>14, <1>18, <1>19, Associative
<1>25. p3 \o x2 = p2 \o x3
  <2>1. IsSeq(f)
    BY <1>5
  <2>2. (p2 \o f) \o x2 = p2 \o (f \o x2)
    BY <1>13, <1>20, <2>1, Associative
  <2> QED
    BY <1>10, <1>21, <2>2
<1>26. p2 \o x3 = p1 \o (<<i, w>> \o x3)
  <2>1. PICK iw : iw = <<i, w>>
    OBVIOUS
  <2>2. IsSeq(iw)
    BY <1>7, <2>1
  <2>3. (p1 \o iw) \o x3 = p1 \o (iw \o x3)
    BY <1>12, <1>22, <2>2, Associative
  <2> QED
    BY <1>9, <2>1, <2>3
<1>27. <<i, w>> \o x3 = <<i>> \o (<<w>> \o x3)
  <2>1. <<i, w>> = <<i>> \o <<w>>
    BY Pair
  <2> QED
    BY <1>7, <1>22, <2>1, Associative
<1>28. Late(n) = <<w>> \o x3
  BY <1>1, <1>3, <1>4, <1>17, <1>19, <1>21 DEF Late
<1>29. <<i, w>> \o x3 = Adding(n)
  BY <1>3, <1>27, <1>28 DEF Adding
<1>30. p1 \o Adding(n) = <<d, p>> \o (a \o Adding(n))
  <2>1. PICK dp, t : dp = <<d, p>> /\ t = Adding(n)
    OBVIOUS
  <2>2. IsSeq(dp) /\ IsSeq(t)
    BY <1>7, <2>1, PartsAreSeqs
  <2>3. (dp \o a) \o t = dp \o (a \o t)
    BY <1>5, <2>2, Associative
  <2> QED
    BY <1>8, <2>1, <2>3
<1>31. a \o Adding(n) = Created(n)
  BY <1>1, <1>4, PartsAreSeqs, NothingBefore DEF Created, Assigning
<1>32. <<d, p>> \o Created(n) = <<d>> \o (<<p>> \o Created(n))
  <2>1. <<d, p>> = <<d>> \o <<p>>
    BY Pair
  <2> QED
    BY <1>7, <2>1, PartsAreSeqs, Associative
<1>33. Creating(n) = <<p>> \o Created(n)
  BY <1>1, <1>3 DEF Creating
<1> QED
  BY <1>1, <1>3, <1>16, <1>23, <1>24, <1>25, <1>26, <1>29, <1>30, <1>31, <1>32, <1>33


-----------------------------------------------------------------------------
(* What a step does to the issues. *)

\* Titles, plans and items stay, and assignees that are as planned.
Quietly ==
  /\ ITyped' /\ DOMAIN issues' = DOMAIN issues
  /\ \A j \in DOMAIN issues :
       /\ issues'[j].title = issues[j].title /\ issues'[j].plan = issues[j].plan
       /\ issues'[j].login = issues[j].login
       /\ issues'[j].item = "none" <=> issues[j].item = "none"
       /\ AsPlanned(j) => AsPlanned(j)'

\* Issues and items are only added, and only edits change a plan.
Onward ==
  /\ ITyped' /\ DOMAIN issues \subseteq DOMAIN issues'
  /\ \A j \in DOMAIN issues :
       /\ issues[j].item # "none" => issues'[j].item # "none"
       /\ AsPlanned(j) => AsPlanned(j)'
       /\ issues'[j].plan \in Creates =>
            issues'[j].plan = issues[j].plan /\ issues'[j].login = issues[j].login

\* Nothing about the issues changes.
LEMMA SameIsQuiet ==
  ASSUME ITyped, UNCHANGED issues
  PROVE  Quietly
<1>1. ITyped'
  BY DEF ITyped
<1> QED
  BY <1>1 DEF Quietly, AsPlanned

\* One issue changes, if it exists.
LEMMA OneIssueChanges ==
  ASSUME ITyped, NEW i, NEW r, issues' = [issues EXCEPT ![i] = r],
         i \in DOMAIN issues => DOMAIN r = IssueFields /\ IsSeq(r.comments)
                                /\ r.item \in States \cup {"none", "nostatus"}
  PROVE  /\ ITyped' /\ DOMAIN issues' = DOMAIN issues
         /\ \A j \in DOMAIN issues : issues'[j] = IF j = i THEN r ELSE issues[j]
<1>1. PICK S : S = ToSet(issues) \cup {r}
  OBVIOUS
<1>2. issues \in Seq(S)
  BY <1>1, SeqMonotonic DEF ITyped, IsSeq
<1>3. issues \in [1..Len(issues) -> S] /\ Len(issues) \in Nat /\ DOMAIN issues = 1..Len(issues)
  BY <1>2, LenProperties
<1>4. issues' \in [1..Len(issues) -> S]
  BY <1>1, <1>3
<1>5. issues' \in Seq(S)
  BY <1>3, <1>4, SeqDef
<1>6. IsSeq(issues')
  BY <1>5, SeqIs
<1>7. /\ DOMAIN issues' = DOMAIN issues
      /\ \A j \in DOMAIN issues : issues'[j] = IF j = i THEN r ELSE issues[j]
  BY <1>3, <1>4
<1> QED
  BY <1>6, <1>7 DEF ITyped, IsSeq

\* The number of an issue that does not exist is written to without effect.
LEMMA NoSuchIssue ==
  ASSUME ITyped, NEW i, i \notin DOMAIN issues, NEW r, issues' = [issues EXCEPT ![i] = r]
  PROVE  UNCHANGED issues
<1>1. PICK S : S = ToSet(issues)
  OBVIOUS
<1>2. issues \in Seq(S)
  BY <1>1 DEF ITyped, IsSeq
<1>3. issues \in [1..Len(issues) -> S] /\ DOMAIN issues = 1..Len(issues)
  BY <1>2, LenProperties
<1> QED
  BY <1>3

\* A comment is added or rewritten.
LEMMA CommentsTyped ==
  ASSUME NEW s, IsSeq(s), NEW e, NEW n
  PROVE  IsSeq(Append(s, e)) /\ IsSeq([s EXCEPT ![n] = e])
<1>1. PICK S : S = ToSet(s) \cup {e}
  OBVIOUS
<1>2. s \in Seq(S)
  BY <1>1, SeqMonotonic DEF IsSeq
<1>3. Append(s, e) \in Seq(S)
  BY <1>1, <1>2, AppendProperties
<1>4. s \in [1..Len(s) -> S] /\ Len(s) \in Nat
  BY <1>2, LenProperties
<1>5. [s EXCEPT ![n] = e] \in [1..Len(s) -> S]
  BY <1>1, <1>4
<1>6. [s EXCEPT ![n] = e] \in Seq(S)
  BY <1>4, <1>5, SeqDef
<1> QED
  BY <1>3, <1>6, SeqIs

\* An issue after a quiet write.
AsBefore(i, r) ==
  /\ DOMAIN r = IssueFields /\ IsSeq(r.comments)
  /\ r.item \in States \cup {"none", "nostatus"}
  /\ r.title = issues[i].title /\ r.plan = issues[i].plan
  /\ r.item = "none" <=> issues[i].item = "none"
  /\ r.login = issues[i].login
  /\ AsPlanned(i) => (issues[i].plan \in Creates => r.asg = Commands[issues[i].plan].asg)

\* Writes that leave title, plan and item alone, and the status of an item.
LEMMA QuietEffects ==
  ASSUME ITyped, NEW c, Now(c).op \in Writes \ {"create", "add item", "edit"},
         Now(c).op = "write status" =>
           /\ Now(c).x.to \in States /\ Num(c) \in DOMAIN issues /\ issues[Num(c)].item # "none",
         Now(c).op = "assign" =>
           (issues[Num(c)].plan \in Creates => Now(c).x = Commands[issues[Num(c)].plan].asg),
         issues' = Effect(c)
  PROVE  Quietly
<1>1. PICK i, x, op : i = Num(c) /\ x = Now(c).x /\ op = Now(c).op
  OBVIOUS
<1>2. \E r : issues' = [issues EXCEPT ![i] = r] /\ (i \in DOMAIN issues => AsBefore(i, r))
  <2>1. i \in DOMAIN issues =>
          /\ DOMAIN issues[i] = IssueFields /\ IsSeq(issues[i].comments)
          /\ issues[i].item \in States \cup {"none", "nostatus"}
    BY DEF ITyped
  <2>2. CASE op = "assign"
    <3>1. PICK r : r = [issues[i] EXCEPT !.asg = x]
      OBVIOUS
    <3>2. issues' = [issues EXCEPT ![i] = r]
      BY <1>1, <2>2, <3>1 DEF Effect, AssignIssue
    <3>3. i \in DOMAIN issues => AsBefore(i, r)
      BY <1>1, <2>1, <2>2, <3>1 DEF AsBefore, AsPlanned, IssueFields, NewIssue
    <3> QED
      BY <3>2, <3>3
  <2>3. CASE op = "write status"
    <3>1. PICK r : r = [issues[i] EXCEPT !.item = x.to]
      OBVIOUS
    <3>2. issues' = [issues EXCEPT ![i] = r]
      BY <1>1, <2>3, <3>1 DEF Effect, WriteStatus
    <3>3. i \in DOMAIN issues => AsBefore(i, r)
      BY <1>1, <2>1, <2>3, <3>1 DEF AsBefore, AsPlanned, IssueFields, NewIssue, States
    <3> QED
      BY <3>2, <3>3
  <2>4. CASE op = "write field"
    <3>1. PICK r : r = [issues[i] EXCEPT !.field = TRUE]
      OBVIOUS
    <3>2. issues' = [issues EXCEPT ![i] = r]
      BY <1>1, <2>4, <3>1 DEF Effect, WriteField
    <3>3. i \in DOMAIN issues => AsBefore(i, r)
      BY <2>1, <3>1 DEF AsBefore, AsPlanned, IssueFields, NewIssue
    <3> QED
      BY <3>2, <3>3
  <2>5. CASE op = "clear field"
    <3>1. PICK r : r = [issues[i] EXCEPT !.claim = "none"]
      OBVIOUS
    <3>2. issues' = [issues EXCEPT ![i] = r]
      BY <1>1, <2>5, <3>1 DEF Effect, ClearField
    <3>3. i \in DOMAIN issues => AsBefore(i, r)
      BY <2>1, <3>1 DEF AsBefore, AsPlanned, IssueFields, NewIssue
    <3> QED
      BY <3>2, <3>3
  <2>6. CASE op = "add comment"
    <3>1. PICK r : r = [issues[i] EXCEPT !.comments = Append(@, Comment(x, <<>>))]
      OBVIOUS
    <3>2. issues' = [issues EXCEPT ![i] = r]
      BY <1>1, <2>6, <3>1 DEF Effect, AddComment
    <3>3. i \in DOMAIN issues => AsBefore(i, r)
      BY <2>1, CommentsTyped, <3>1 DEF AsBefore, AsPlanned, IssueFields, NewIssue
    <3> QED
      BY <3>2, <3>3
  <2>7. CASE op = "add workpad"
    <3>1. PICK r : r = [issues[i] EXCEPT !.comments = Append(@, Comment("workpad", x)),
                          !.last = Remember(@, x)]
      OBVIOUS
    <3>2. issues' = [issues EXCEPT ![i] = r]
      BY <1>1, <2>7, <3>1 DEF Effect, AddWorkpad
    <3>3. i \in DOMAIN issues => AsBefore(i, r)
      BY <2>1, CommentsTyped, <3>1 DEF AsBefore, AsPlanned, IssueFields, NewIssue
    <3> QED
      BY <3>2, <3>3
  <2>8. CASE op = "update workpad"
    <3>1. PICK r : r = [issues[i] EXCEPT !.comments = [@ EXCEPT ![x.n] = Comment("workpad", x.body)],
                          !.last = Remember(@, x.note)]
      OBVIOUS
    <3>2. issues' = [issues EXCEPT ![i] = r]
      BY <1>1, <2>8, <3>1 DEF Effect, UpdateWorkpad
    <3>3. i \in DOMAIN issues => AsBefore(i, r)
      BY <2>1, CommentsTyped, <3>1 DEF AsBefore, AsPlanned, IssueFields, NewIssue
    <3> QED
      BY <3>2, <3>3
  <2>9. CASE op = "supersede"
    <3>1. PICK r : r = [issues[i] EXCEPT !.comments = [@ EXCEPT ![x] = Comment("superseded", <<>>)]]
      OBVIOUS
    <3>2. issues' = [issues EXCEPT ![i] = r]
      BY <1>1, <2>9, <3>1 DEF Effect, Supersede
    <3>3. i \in DOMAIN issues => AsBefore(i, r)
      BY <2>1, CommentsTyped, <3>1 DEF AsBefore, AsPlanned, IssueFields, NewIssue
    <3> QED
      BY <3>2, <3>3
  <2>10. CASE op = "relate" /\ x.rel = "blocked by"
    <3>1. PICK r : r = [issues[i] EXCEPT !.blockers = @ \cup {x.other}]
      OBVIOUS
    <3>2. issues' = [issues EXCEPT ![i] = r]
      BY <1>1, <2>10, <3>1 DEF Effect, Relate
    <3>3. i \in DOMAIN issues => AsBefore(i, r)
      BY <2>1, <3>1 DEF AsBefore, AsPlanned, IssueFields, NewIssue
    <3> QED
      BY <3>2, <3>3
  <2>11. CASE op = "relate" /\ x.rel # "blocked by"
    <3>1. PICK r : r = [issues[i] EXCEPT !.parent = x.other]
      OBVIOUS
    <3>2. issues' = [issues EXCEPT ![i] = r]
      BY <1>1, <2>11, <3>1 DEF Effect, Relate
    <3>3. i \in DOMAIN issues => AsBefore(i, r)
      BY <2>1, <3>1 DEF AsBefore, AsPlanned, IssueFields, NewIssue
    <3> QED
      BY <3>2, <3>3
  <2>12. CASE op = "close issue"
    <3>1. PICK r : r = [issues[i] EXCEPT !.closed = TRUE]
      OBVIOUS
    <3>2. issues' = [issues EXCEPT ![i] = r]
      BY <1>1, <2>12, <3>1 DEF Effect, CloseIssue
    <3>3. i \in DOMAIN issues => AsBefore(i, r)
      BY <2>1, <3>1 DEF AsBefore, AsPlanned, IssueFields, NewIssue
    <3> QED
      BY <3>2, <3>3
  <2>13. CASE op = "mark ready"
    <3>1. PICK r : r = [issues[i] EXCEPT !.pr = "ready"]
      OBVIOUS
    <3>2. issues' = [issues EXCEPT ![i] = r]
      BY <1>1, <2>13, <3>1 DEF Effect, MarkReady
    <3>3. i \in DOMAIN issues => AsBefore(i, r)
      BY <2>1, <3>1 DEF AsBefore, AsPlanned, IssueFields, NewIssue
    <3> QED
      BY <3>2, <3>3
  <2> QED
    BY <1>1, <2>2, <2>3, <2>4, <2>5, <2>6, <2>7, <2>8, <2>9, <2>10, <2>11, <2>12, <2>13 DEF Writes
<1>3. PICK r : issues' = [issues EXCEPT ![i] = r] /\ (i \in DOMAIN issues => AsBefore(i, r))
  BY <1>2
<1>4. /\ ITyped' /\ DOMAIN issues' = DOMAIN issues
      /\ \A j \in DOMAIN issues : issues'[j] = IF j = i THEN r ELSE issues[j]
  BY <1>3, OneIssueChanges DEF AsBefore
<1> QED
  BY <1>3, <1>4 DEF Quietly, AsBefore, AsPlanned

\* A quiet step keeps what is known of titles, and leads onward.
LEMMA QuietKeeps ==
  ASSUME Titles, Assigned, OneItemPerTitle, Quietly, budget'.parallel = budget.parallel
  PROVE  Titles' /\ Assigned' /\ OneItemPerTitle' /\ Onward
<1>1. Titles'
  BY DEF Titles, Quietly, Planned
<1>2. Assigned'
  BY DEF Assigned, Quietly
<1>3. OneItemPerTitle'
  BY DEF OneItemPerTitle, Quietly, Forged, Planned
<1>4. Onward
  BY DEF Onward, Quietly
<1> QED
  BY <1>1, <1>2, <1>3, <1>4


\* An issue is created: it is no item yet.
LEMMA CreateEffect ==
  ASSUME ITyped, Titles, Assigned, OneItemPerTitle, budget'.parallel = budget.parallel,
         NEW n \in Creates, NEW x, x.title = Commands[n].title, x.plan = n,
         NEW login, issues' = CreateIssue(x, login)
  PROVE  /\ Titles' /\ Assigned' /\ OneItemPerTitle' /\ Onward
         /\ Len(issues') \in DOMAIN issues' \ DOMAIN issues /\ issues'[Len(issues')].plan = n
         /\ issues'[Len(issues')].item = "none" /\ issues'[Len(issues')].login = login
         /\ DOMAIN issues' = DOMAIN issues \cup {Len(issues')}
         /\ \A j \in DOMAIN issues : issues'[j] = issues[j] /\ j < Len(issues')
<1>1. PICK r : r = [NewIssue(x.title, x.plan) EXCEPT !.login = login]
  OBVIOUS
<1>2. PICK S : S = ToSet(issues) \cup {r}
  OBVIOUS
<1>3. issues \in Seq(S)
  BY <1>2, SeqMonotonic DEF ITyped, IsSeq
<1>4. issues' = Append(issues, r)
  BY <1>1 DEF CreateIssue
<1>5. /\ issues' \in Seq(S) /\ Len(issues') = Len(issues) + 1
      /\ issues'[Len(issues) + 1] = r
      /\ \A j \in 1..Len(issues) : issues'[j] = issues[j]
  BY <1>2, <1>3, <1>4, AppendProperties
<1>6. DOMAIN issues = 1..Len(issues) /\ Len(issues) \in Nat /\ DOMAIN issues' = 1..(Len(issues) + 1)
      /\ IsSeq(issues')
  BY <1>3, <1>5, SeqIs
<1>7. PICK l : l = Len(issues')
  OBVIOUS
<1>8. /\ l \in DOMAIN issues' /\ l \notin DOMAIN issues /\ DOMAIN issues' = DOMAIN issues \cup {l}
      /\ issues'[l] = r /\ \A j \in DOMAIN issues : issues'[j] = issues[j] /\ j < l
  BY <1>5, <1>6, <1>7
<1>9. /\ DOMAIN r = IssueFields /\ r.item = "none" /\ r.plan = n /\ r.title = Commands[n].title
      /\ r.comments = <<>> /\ r.login = login
  BY <1>1 DEF NewIssue, IssueFields
<1>10. ITyped'
  <2>1. IsSeq(r.comments)
    BY <1>9, ShortSeq
  <2>2. \A i \in DOMAIN issues' :
          /\ DOMAIN issues'[i] = IssueFields /\ issues'[i].item \in States \cup {"none", "nostatus"}
          /\ IsSeq(issues'[i].comments)
    BY <1>8, <1>9, <2>1 DEF ITyped
  <2> QED
    BY <1>6, <2>2 DEF ITyped, IsSeq
<1>11. Creates \cap Edits = {}
  BY DEF Creates, Edits
<1>12. Titles'
  BY <1>8, <1>9, <1>11 DEF Titles, Planned
<1>13. Assigned'
  BY <1>8, <1>9 DEF Assigned, AsPlanned
<1>14. OneItemPerTitle'
  BY <1>8, <1>9 DEF OneItemPerTitle, Forged, Planned
<1>15. Onward
  BY <1>8, <1>10 DEF Onward, AsPlanned
<1> QED
  BY <1>7, <1>8, <1>9, <1>12, <1>13, <1>14, <1>15

\* An issue becomes an item: as no other item has its title.
LEMMA AddItemEffect ==
  ASSUME ITyped, Titles, Assigned, OneItemPerTitle, budget'.parallel = budget.parallel,
         NEW c, client[c].cmd \in Creates, Own(c), Clear(c),
         Commands[client[c].cmd].asg # Nobody => AsPlanned(client[c].issue),
         issues' = AddItem(client[c].issue)
  PROVE  /\ Titles' /\ Assigned' /\ OneItemPerTitle' /\ Onward
         /\ DOMAIN issues' = DOMAIN issues
         /\ issues'[client[c].issue].item # "none"
         /\ \A j \in DOMAIN issues : /\ issues'[j].title = issues[j].title /\ issues'[j].plan = issues[j].plan
                                     /\ issues'[j].asg = issues[j].asg
                                     /\ j # client[c].issue => issues'[j] = issues[j]
<1>1. PICK i, n : i = client[c].issue /\ n = client[c].cmd
  OBVIOUS
<1>2. PICK r : r = [issues[i] EXCEPT !.item = IF @ = "none" THEN "nostatus" ELSE @]
  OBVIOUS
<1>3. issues' = [issues EXCEPT ![i] = r]
  BY <1>1, <1>2 DEF AddItem
<1>4. i \in DOMAIN issues /\ DOMAIN issues[i] = IssueFields /\ IsSeq(issues[i].comments)
      /\ issues[i].item \in States \cup {"none", "nostatus"}
  BY <1>1 DEF Own, ITyped
<1>5. /\ DOMAIN r = IssueFields /\ r.comments = issues[i].comments /\ r.title = issues[i].title
      /\ r.plan = issues[i].plan /\ r.asg = issues[i].asg /\ r.login = issues[i].login
      /\ r.item \in States \cup {"nostatus"} /\ r.item # "none"
  BY <1>2, <1>4 DEF IssueFields, NewIssue, States
<1>6. /\ ITyped' /\ DOMAIN issues' = DOMAIN issues
      /\ \A j \in DOMAIN issues : issues'[j] = IF j = i THEN r ELSE issues[j]
  <2>1. IsSeq(r.comments) /\ DOMAIN r = IssueFields
    BY <1>4, <1>5
  <2>2. r.item \in States \cup {"none", "nostatus"}
    BY <1>5
  <2> QED
    BY <1>3, <2>1, <2>2, OneIssueChanges
<1>7. \A j \in DOMAIN issues : /\ issues'[j].title = issues[j].title /\ issues'[j].plan = issues[j].plan
                               /\ issues'[j].asg = issues[j].asg /\ issues'[j].login = issues[j].login
                               /\ (j # i => issues'[j] = issues[j])
  BY <1>5, <1>6
<1>8. Titles'
  BY <1>6, <1>7 DEF Titles, Planned
<1>9. Assigned'
  <2> SUFFICES ASSUME NEW j \in DOMAIN issues, Commands[issues[j].plan].asg # Nobody,
                      issues'[j].item # "none"
               PROVE  AsPlanned(j)
    BY <1>6, <1>7 DEF Assigned, AsPlanned
  <2>1. CASE j = i
    BY <1>1, <2>1 DEF Own, AsPlanned
  <2>2. CASE j # i
    BY <1>7, <2>2 DEF Assigned
  <2> QED
    BY <2>1, <2>2
<1>10. OneItemPerTitle'
  <2>1. \A j \in DOMAIN issues : Forged(j)' <=> Forged(j)
    BY <1>7 DEF Forged, Planned
  <2> SUFFICES ASSUME ~budget.parallel, NEW a \in DOMAIN issues, NEW b \in DOMAIN issues, a < b,
                      issues[a].title = issues[b].title, issues'[a].item # "none", issues'[b].item # "none",
                      Forged(a), Forged(b), Commands[issues[a].plan].asg \in Allowed(issues[b].login)
               PROVE  FALSE
    BY <1>6, <1>7, <2>1 DEF OneItemPerTitle
  <2>2. issues[a].plan \in Creates /\ issues[b].plan \in Creates
    BY DEF Titles, Forged, Creates, Edits
  <2>3. a \in Nat \ {0} /\ b \in Nat \ {0} /\ i \in Nat \ {0} /\ a # b
    <3>1. DOMAIN issues = 1..Len(issues) /\ Len(issues) \in Nat
      BY SeqIs DEF ITyped, IsSeq
    <3> QED
      BY <1>4, <3>1
  <2>4. CASE a = i
    <3>1. b <= i
      BY <1>1, <2>3 DEF Clear
    <3> QED
      BY <2>3, <2>4, <3>1
  <2>5. CASE b = i
    <3>1. /\ issues[b].plan = n /\ issues[b].title = Commands[n].title
          /\ issues[b].login = client[c].login
      BY <1>1, <2>2, <2>5 DEF Own, Titles, Forged
    <3>2. issues[a].item # "none" /\ Shown(a, client[c].login)
      BY <1>7, <2>3, <2>5, <3>1 DEF Shown
    <3> QED
      BY <1>1, <2>3, <2>5, <3>1, <3>2 DEF Clear
  <2>6. CASE a # i /\ b # i
    BY <1>7, <2>6 DEF OneItemPerTitle
  <2> QED
    BY <2>4, <2>5, <2>6
<1>11. Onward
  BY <1>5, <1>6, <1>7 DEF Onward, AsPlanned
<1> QED
  BY <1>1, <1>4, <1>5, <1>6, <1>7, <1>8, <1>9, <1>10, <1>11

\* The content of an issue is replaced: nobody else has the title.
LEMMA EditEffect ==
  ASSUME ITyped, Titles, Assigned, OneItemPerTitle, budget'.parallel = budget.parallel,
         NEW n \in Edits, NEW x, x.plan = n, x.title = Commands[n].title,
         NEW i, issues' = EditContent(i, x)
  PROVE  Titles' /\ Assigned' /\ OneItemPerTitle' /\ Onward
<1>1. PICK r : r = [issues[i] EXCEPT !.title = x.title, !.edited = TRUE, !.plan = x.plan]
  OBVIOUS
<1>2. issues' = [issues EXCEPT ![i] = r]
  BY <1>1 DEF EditContent
<1>3. i \in DOMAIN issues =>
        /\ DOMAIN issues[i] = IssueFields /\ IsSeq(issues[i].comments)
        /\ issues[i].item \in States \cup {"none", "nostatus"}
  BY DEF ITyped
<1>4. i \in DOMAIN issues =>
        /\ DOMAIN r = IssueFields /\ r.comments = issues[i].comments /\ r.item = issues[i].item
        /\ r.login = issues[i].login /\ r.plan = n /\ r.title = Commands[n].title
  BY <1>1, <1>3 DEF IssueFields, NewIssue
<1>5. /\ ITyped' /\ DOMAIN issues' = DOMAIN issues
      /\ \A j \in DOMAIN issues : issues'[j] = IF j = i THEN r ELSE issues[j]
  BY <1>2, <1>3, <1>4, OneIssueChanges
<1>6. Creates \cap Edits = {} /\ n \in DOMAIN Commands
  BY DEF Creates, Edits
<1>7. Titles'
  BY <1>4, <1>5, <1>6 DEF Titles, Planned
<1>8. Assigned'
  BY <1>4, <1>5, <1>6 DEF Assigned, AsPlanned
<1>9. Onward
  BY <1>4, <1>5, <1>6 DEF Onward, AsPlanned
<1>10. OneItemPerTitle'
  <2>1. Commands[n].kind # "create"
    BY DEF Edits
  <2>2. \A j \in DOMAIN issues : Forged(j)' => j # i /\ Forged(j)
    BY <1>4, <1>5, <2>1 DEF Forged, Planned
  <2> QED
    BY <1>5, <2>2 DEF OneItemPerTitle
<1> QED
  BY <1>7, <1>8, <1>9, <1>10

-----------------------------------------------------------------------------
(* What a step does to the commands. *)

\* A command that still has the same calls to make keeps what is known of it.
LEMMA CommandKeeps ==
  ASSUME NEW d \in Clients, TodoOK(d), Onward, client'[d].todo = client[d].todo,
         client'[d].cmd = client[d].cmd, client'[d].issue = client[d].issue,
         client'[d].login = client[d].login,
         Early(d) /\ Clear(d) => Clear(d)'
  PROVE  TodoOK(d)'
<1>1. Own(d) => Own(d)'
  BY DEF Own, Onward
<1>2. ASSUME Early(d)
      PROVE  Early(d)'
  <2>1. Own(d) => client[d].issue \in DOMAIN issues
    BY DEF Own
  <2> QED
    BY <1>1, <1>2, <2>1 DEF Early, Onward
<1>3. ASSUME NEW e, Harmless(d, e)
      PROVE  Harmless(d, e)'
  BY <1>3 DEF Harmless, Target, Onward
<1> QED
  BY <1>2, <1>3 DEF TodoOK

\* One that does not move at all: others at work do not change titles and items.
LEMMA OthersKeep ==
  ASSUME NEW d \in Clients, TodoOK(d), client'[d] = client[d], Onward,
         budget'.parallel = budget.parallel, budget.parallel \/ Quietly
  PROVE  TodoOK(d)'
<1>1. Clear(d) => Clear(d)'
  BY DEF Clear, Quietly, Shown, Forged, Planned
<1> QED
  BY <1>1, CommandKeeps

\* One command moves.
LEMMA OneCommandMoves ==
  ASSUME CTyped, Todos, Alone, NEW c \in Clients, Onward, budget'.parallel = budget.parallel,
         Running(c) \/ Quietly, Running(c) \/ budget.parallel \/ \A d \in Clients : ~Running(d),
         NEW r, client' = [client EXCEPT ![c] = r],
         DOMAIN r = {"cmd", "todo", "tries", "issue", "login", "out"},
         r.out = "running" => r.cmd \in DOMAIN Commands /\ TodoOK(c)'
  PROVE  CTyped' /\ Todos' /\ Alone'
<1>1. /\ DOMAIN client' = Clients /\ client'[c] = r
      /\ \A d \in Clients : d # c => client'[d] = client[d]
  BY DEF CTyped
<1>2. \A d \in Clients : d # c => (Running(d)' <=> Running(d))
  BY <1>1 DEF Running
<1>3. CTyped'
  BY <1>1, <1>2 DEF CTyped, Running
<1>4. Alone'
  BY <1>2 DEF Alone
<1>5. ASSUME NEW d \in Clients, Running(d)'
      PROVE  TodoOK(d)'
  <2>1. CASE d = c
    BY <1>1, <1>5, <2>1 DEF Running
  <2>2. CASE d # c
    <3>1. Running(d) /\ TodoOK(d) /\ client'[d] = client[d]
      BY <1>1, <1>2, <1>5, <2>2 DEF Todos
    <3>2. budget.parallel \/ Quietly
      BY <2>2, <3>1 DEF Alone
    <3> QED
      BY <3>1, <3>2, OthersKeep
  <2> QED
    BY <2>1, <2>2
<1> QED
  BY <1>3, <1>4, <1>5 DEF Todos


\* A command goes on, stops or tries again.
LEMMA ContinueIs ==
  ASSUME CTyped, NEW c \in Clients, NEW calls
  PROVE  \E r : /\ Continue(c, calls) = [client EXCEPT ![c] = r]
                /\ DOMAIN r = {"cmd", "todo", "tries", "issue", "login", "out"}
                /\ r.cmd = client[c].cmd /\ r.issue = client[c].issue /\ r.login = client[c].login
                /\ r.todo = calls \o Tail(client[c].todo)
                /\ r.out = "running" <=> r.todo # <<>>
<1>1. PICK t : t = calls \o Tail(client[c].todo)
  OBVIOUS
<1>2. PICK r : r = [client[c] EXCEPT !.todo = t, !.tries = 0, !.out = IF t = <<>> THEN "ok" ELSE "running"]
  OBVIOUS
<1>3. DOMAIN client[c] = {"cmd", "todo", "tries", "issue", "login", "out"} /\ c \in DOMAIN client
  BY DEF CTyped
<1>4. Continue(c, calls) = [client EXCEPT ![c] = r]
  BY <1>1, <1>2, <1>3 DEF Continue
<1>5. /\ DOMAIN r = {"cmd", "todo", "tries", "issue", "login", "out"}
      /\ r.cmd = client[c].cmd /\ r.issue = client[c].issue /\ r.login = client[c].login /\ r.todo = t
      /\ r.out = IF t = <<>> THEN "ok" ELSE "running"
  BY <1>2, <1>3
<1> QED
  BY <1>1, <1>4, <1>5

\* A command that stops or dies.
LEMMA StopIs ==
  ASSUME CTyped, NEW c \in Clients, NEW out \in {"error", "crashed"}
  PROVE  \E r : /\ [client EXCEPT ![c].todo = <<>>, ![c].tries = 0, ![c].out = out] = [client EXCEPT ![c] = r]
                /\ DOMAIN r = {"cmd", "todo", "tries", "issue", "login", "out"} /\ r.out # "running"
<1>1. PICK r : r = [client[c] EXCEPT !.todo = <<>>, !.tries = 0, !.out = out]
  OBVIOUS
<1>2. DOMAIN client[c] = {"cmd", "todo", "tries", "issue", "login", "out"} /\ c \in DOMAIN client
  BY DEF CTyped
<1>3. [client EXCEPT ![c].todo = <<>>, ![c].tries = 0, ![c].out = out] = [client EXCEPT ![c] = r]
  BY <1>1, <1>2
<1>4. DOMAIN r = {"cmd", "todo", "tries", "issue", "login", "out"} /\ r.out # "running"
  BY <1>1, <1>2
<1> QED
  BY <1>3, <1>4

\* A command that makes the same call again.
LEMMA RetryIs ==
  ASSUME CTyped, NEW c \in Clients, NEW n
  PROVE  \E r : /\ Retry(c, n) = [client EXCEPT ![c] = r]
                /\ DOMAIN r = {"cmd", "todo", "tries", "issue", "login", "out"}
                /\ r.cmd = client[c].cmd /\ r.issue = client[c].issue /\ r.login = client[c].login
                /\ r.todo = client[c].todo /\ r.out = client[c].out
<1>1. PICK r : r = [client[c] EXCEPT !.tries = n]
  OBVIOUS
<1>2. DOMAIN client[c] = {"cmd", "todo", "tries", "issue", "login", "out"} /\ c \in DOMAIN client
  BY DEF CTyped
<1>3. Retry(c, n) = [client EXCEPT ![c] = r]
  BY <1>1, <1>2 DEF Retry
<1> QED
  BY <1>1, <1>2, <1>3

\* The first calls of a creation.
LEMMA FirstCalls ==
  /\ \A e, t : e = Call("duplicate check", 0, t) => e.op = "duplicate check" /\ e.x = t
  /\ \A e, x : e = Call("create", 0, x) => e.op = "create" /\ e.x = x
  /\ \A e, t : e = Call("assign", 0, t) => e.op = "assign" /\ e.i = 0 /\ e.x = t
  /\ \A e : e = Call("add item", 0, 0) => e.op = "add item" /\ e.i = 0
<1>1. ASSUME NEW e, NEW t, e = Call("duplicate check", 0, t)
      PROVE  e.op = "duplicate check" /\ e.x = t
  BY <1>1 DEF Call
<1>2. ASSUME NEW e, NEW x, e = Call("create", 0, x)
      PROVE  e.op = "create" /\ e.x = x
  BY <1>2 DEF Call
<1>3. ASSUME NEW e, NEW t, e = Call("assign", 0, t)
      PROVE  e.op = "assign" /\ e.i = 0 /\ e.x = t
  BY <1>3 DEF Call
<1>4. ASSUME NEW e, e = Call("add item", 0, 0)
      PROVE  e.op = "add item" /\ e.i = 0
  BY <1>4 DEF Call
<1> QED
  BY <1>1, <1>2, <1>3, <1>4

\* An assignment is made to the issue the command created.
LEMMA AssignCall ==
  ASSUME NEW c, NEW a, Now(c) = Call("assign", 0, a)
  PROVE  Now(c).op = "assign" /\ Now(c).i = 0 /\ Now(c).x = a /\ Num(c) = client[c].issue
<1>1. PICK e : e = Now(c)
  OBVIOUS
<1>2. e = Call("assign", 0, a)
  BY <1>1, Zenon
<1>3. e.op = "assign" /\ e.i = 0 /\ e.x = a
  BY <1>2 DEF Call
<1> QED
  BY <1>1, <1>3 DEF Num

\* What a command does next: a creation that is not on the Project yet makes
\* the first calls of its script, in order; any other call is harmless.
LEMMA NextCall ==
  ASSUME NEW c \in Clients, TodoOK(c)
  PROVE  /\ 1 \in DOMAIN client[c].todo /\ Now(c) = client[c].todo[1]
         /\ IsSeq(Tail(client[c].todo))
         /\ \A k \in DOMAIN Tail(client[c].todo) :
              \E j \in DOMAIN client[c].todo : Tail(client[c].todo)[k] = client[c].todo[j]
         /\ \/ /\ \A k \in DOMAIN client[c].todo : Harmless(c, client[c].todo[k])
               /\ Now(c).op \notin {"duplicate check", "create", "assign", "add item"}
            \/ /\ client[c].cmd \in Creates /\ client[c].issue = 0
               /\ Now(c) = Call("duplicate check", 0, Commands[client[c].cmd].title)
               /\ Tail(client[c].todo) = Creating(client[c].cmd)
            \/ /\ client[c].cmd \in Creates /\ client[c].issue = 0 /\ Clear(c)
               /\ Now(c) = Call("create", 0, [title |-> Commands[client[c].cmd].title,
                                              plan |-> client[c].cmd])
               /\ Tail(client[c].todo) = Created(client[c].cmd)
            \/ /\ client[c].cmd \in Creates /\ Own(c) /\ Clear(c)
               /\ Now(c) = Call("assign", 0, Commands[client[c].cmd].asg)
               /\ Tail(client[c].todo) = Adding(client[c].cmd)
            \/ /\ client[c].cmd \in Creates /\ Own(c) /\ Clear(c)
               /\ Commands[client[c].cmd].asg # Nobody => AsPlanned(client[c].issue)
               /\ Now(c) = Call("add item", 0, 0)
               /\ Tail(client[c].todo) = Late(client[c].cmd)
<1>1. PICK n, t : n = client[c].cmd /\ t = client[c].todo
  OBVIOUS
<1>2. IsSeq(t) /\ t # <<>>
  BY <1>1 DEF TodoOK
<1>3. /\ IsSeq(Tail(t)) /\ Head(t) = t[1] /\ 1 \in DOMAIN t
      /\ \A k \in DOMAIN Tail(t) : \E j \in DOMAIN t : Tail(t)[k] = t[j]
  BY <1>2, Rest
<1>4. CASE \A k \in DOMAIN t : Harmless(c, t[k])
  BY <1>1, <1>3, <1>4 DEF Now, Harmless
<1>5. CASE Early(c) /\ t = <<Call("duplicate check", 0, Commands[n].title)>> \o Creating(n)
           /\ client[c].issue = 0
  <2>1. n \in Creates
    BY <1>1, <1>5 DEF Early
  <2>2. /\ Head(t) = Call("duplicate check", 0, Commands[n].title) /\ Tail(t) = Creating(n)
    BY <1>5, <2>1, PartsAreSeqs, Before
  <2> QED
    BY <1>1, <1>3, <1>5, <2>1, <2>2 DEF Now
<1>6. CASE Early(c) /\ t = Creating(n) /\ client[c].issue = 0 /\ Clear(c)
  <2>1. n \in Creates
    BY <1>1, <1>6 DEF Early
  <2>2. /\ Head(t) = Call("create", 0, [title |-> Commands[n].title, plan |-> n]) /\ Tail(t) = Created(n)
    BY <1>6, <2>1, PartsAreSeqs, Before DEF Creating
  <2> QED
    BY <1>1, <1>3, <1>6, <2>1, <2>2 DEF Now
<1>7. CASE Early(c) /\ t = Assigning(n) /\ Own(c) /\ Clear(c)
  <2>1. n \in Creates
    BY <1>1, <1>7 DEF Early
  <2>2. /\ Head(t) = Call("assign", 0, Commands[n].asg) /\ Tail(t) = Adding(n)
    BY <1>7, <2>1, PartsAreSeqs, Before DEF Assigning
  <2> QED
    BY <1>1, <1>3, <1>7, <2>1, <2>2 DEF Now
<1>8. CASE Early(c) /\ t = Adding(n) /\ Own(c) /\ Clear(c)
           /\ (Commands[n].asg # Nobody => AsPlanned(client[c].issue))
  <2>1. n \in Creates
    BY <1>1, <1>8 DEF Early
  <2>2. /\ Head(t) = Call("add item", 0, 0) /\ Tail(t) = Late(n)
    BY <1>8, <2>1, PartsAreSeqs, Before DEF Adding
  <2> QED
    BY <1>1, <1>3, <1>8, <2>1, <2>2 DEF Now
<1> QED
  BY <1>1, <1>4, <1>5, <1>6, <1>7, <1>8 DEF TodoOK, Early

\* Harmless calls stay harmless, and tame ones always are.
LEMMA HarmlessKept ==
  /\ \A c, e : (Harmless(c, e) /\ Onward /\ client'[c].issue = client[c].issue) => Harmless(c, e)'
  /\ \A c, e : Tame(e) => Harmless(c, e) /\ Harmless(c, e)'
<1>1. \A c, e : (Harmless(c, e) /\ Onward /\ client'[c].issue = client[c].issue) => Harmless(c, e)'
  BY DEF Harmless, Target, Onward
<1>2. \A c, e : Tame(e) => Harmless(c, e) /\ Harmless(c, e)'
  BY DEF Harmless, Tame
<1> QED
  BY <1>1, <1>2

\* A command that is past its creation goes on with harmless calls.
LEMMA GoesOn ==
  ASSUME CTyped, Todos, Alone, NEW c \in Clients, Running(c), Onward, budget'.parallel = budget.parallel,
         \A k \in DOMAIN client[c].todo : Harmless(c, client[c].todo[k]),
         NEW calls, IsSeq(calls), \A k \in DOMAIN calls : Harmless(c, calls[k]),
         client' = Continue(c, calls)
  PROVE  CTyped' /\ Todos' /\ Alone'
<1>1. PICK r : /\ client' = [client EXCEPT ![c] = r]
               /\ DOMAIN r = {"cmd", "todo", "tries", "issue", "login", "out"}
               /\ r.cmd = client[c].cmd /\ r.issue = client[c].issue /\ r.login = client[c].login
               /\ r.todo = calls \o Tail(client[c].todo)
               /\ r.out = "running" <=> r.todo # <<>>
  <2>1. PICK r : /\ Continue(c, calls) = [client EXCEPT ![c] = r]
                 /\ DOMAIN r = {"cmd", "todo", "tries", "issue", "login", "out"}
                 /\ r.cmd = client[c].cmd /\ r.issue = client[c].issue /\ r.login = client[c].login
                 /\ r.todo = calls \o Tail(client[c].todo)
                 /\ r.out = "running" <=> r.todo # <<>>
    BY ContinueIs, Zenon
  <2> QED
    BY <2>1
<1>2. TodoOK(c)
  BY DEF Todos
<1>3. PICK t : t = Tail(client[c].todo)
  OBVIOUS
<1>4. IsSeq(t) /\ \A k \in DOMAIN t : Harmless(c, t[k])
  BY <1>2, <1>3, NextCall
<1>5. PICK u : u = calls \o t
  OBVIOUS
<1>6. IsSeq(u) /\ \A k \in DOMAIN u : \/ \E j \in DOMAIN calls : u[k] = calls[j]
                                      \/ \E j \in DOMAIN t : u[k] = t[j]
  BY <1>4, <1>5, Joined
<1>7. \A k \in DOMAIN u : Harmless(c, u[k])
  BY <1>4, <1>6
<1>8. client'[c] = r /\ r.todo = u
  BY <1>1, <1>3, <1>5 DEF CTyped
<1>9. \A k \in DOMAIN u : Harmless(c, u[k])'
  <2>1. client'[c].issue = client[c].issue
    BY <1>1, <1>8
  <2> QED
    BY <1>7, <2>1, HarmlessKept
<1>10. r.out = "running" => TodoOK(c)'
  BY <1>1, <1>6, <1>8, <1>9 DEF TodoOK
<1>11. client[c].cmd \in DOMAIN Commands
  BY DEF CTyped
<1> QED
  BY <1>1, <1>10, <1>11, OneCommandMoves

\* A command stops, is killed, or repeats a call.
LEMMA GivesUp ==
  ASSUME CTyped, Todos, Alone, NEW c \in Clients, Running(c), Onward, budget'.parallel = budget.parallel,
         \/ client' = Stop(c)
         \/ client' = [client EXCEPT ![c].todo = <<>>, ![c].tries = 0, ![c].out = "crashed"]
  PROVE  CTyped' /\ Todos' /\ Alone'
<1>1. PICK r : /\ client' = [client EXCEPT ![c] = r]
               /\ DOMAIN r = {"cmd", "todo", "tries", "issue", "login", "out"} /\ r.out # "running"
  BY StopIs DEF Stop
<1> QED
  BY <1>1, OneCommandMoves

\* A call is repeated.
LEMMA TriesAgain ==
  ASSUME CTyped, Todos, Alone, NEW c \in Clients, Running(c), Onward, budget'.parallel = budget.parallel,
         NEW n, client' = Retry(c, n),
         (/\ Early(c) /\ client'[c].cmd = client[c].cmd /\ client'[c].issue = client[c].issue
          /\ client'[c].login = client[c].login /\ Clear(c)) => Clear(c)'
  PROVE  CTyped' /\ Todos' /\ Alone'
<1>1. PICK r : /\ client' = [client EXCEPT ![c] = r]
               /\ DOMAIN r = {"cmd", "todo", "tries", "issue", "login", "out"}
               /\ r.cmd = client[c].cmd /\ r.issue = client[c].issue /\ r.login = client[c].login
               /\ r.todo = client[c].todo /\ r.out = client[c].out
  BY RetryIs
<1>2. client'[c] = r
  BY <1>1 DEF CTyped
<1>3. TodoOK(c)
  BY DEF Todos
<1>4. TodoOK(c)'
  BY <1>1, <1>2, <1>3, CommandKeeps
<1>5. client[c].cmd \in DOMAIN Commands
  BY DEF CTyped
<1> QED
  BY <1>1, <1>4, <1>5, OneCommandMoves


-----------------------------------------------------------------------------
(* Writes. *)

\* The parts of the invariant that a step of a command is shown to keep.
FState == ITyped /\ CTyped /\ Titles /\ Assigned /\ Alone /\ Todos /\ OneItemPerTitle

\* No item of another title appears.
ClearStays(c) ==
  /\ client[c].issue # 0 => DOMAIN issues' = DOMAIN issues
  /\ \A j \in DOMAIN issues' :
    \/ issues'[j].item = "none"
    \/ /\ j \in DOMAIN issues /\ issues'[j].title = issues[j].title /\ issues'[j].plan = issues[j].plan
       /\ issues[j].item # "none" \/ j = client[c].issue

\* A creation that is not on the Project yet.
LEMMA EarlyCalls ==
  ASSUME NEW c \in Clients, TodoOK(c), Early(c)
  PROVE  Now(c).op \in {"duplicate check", "create", "assign", "add item"}
<1>1. PICK n, t : n = client[c].cmd /\ t = client[c].todo
  OBVIOUS
<1>2. n \in Creates
  BY <1>1 DEF Early
<1>3. IsSeq(Created(n)) /\ IsSeq(Adding(n)) /\ IsSeq(Late(n)) /\ IsSeq(Creating(n))
  BY <1>2, PartsAreSeqs
<1>4. \/ t = <<Call("duplicate check", 0, Commands[n].title)>> \o Creating(n)
      \/ t = Creating(n) \/ t = Assigning(n) \/ t = Adding(n)
  BY <1>1 DEF Early
<1>5. Now(c) = Head(t)
  BY <1>1 DEF Now
<1>6. CASE t = <<Call("duplicate check", 0, Commands[n].title)>> \o Creating(n)
  <2>1. Now(c) = Call("duplicate check", 0, Commands[n].title)
    BY <1>3, <1>5, <1>6, Before
  <2> QED
    BY <2>1, FirstCalls
<1>7. CASE t = Creating(n)
  <2>1. Now(c) = Call("create", 0, [title |-> Commands[n].title, plan |-> n])
    BY <1>3, <1>5, <1>7, Before DEF Creating
  <2> QED
    BY <2>1, FirstCalls
<1>8. CASE t = Assigning(n)
  <2>1. Now(c) = Call("assign", 0, Commands[n].asg)
    BY <1>3, <1>5, <1>8, Before DEF Assigning
  <2> QED
    BY <2>1, FirstCalls
<1>9. CASE t = Adding(n)
  <2>1. Now(c) = Call("add item", 0, 0)
    BY <1>3, <1>5, <1>9, Before DEF Adding
  <2> QED
    BY <2>1, FirstCalls
<1> QED
  BY <1>4, <1>6, <1>7, <1>8, <1>9

\* A write, answered or not.
LEMMA WriteEffect ==
  ASSUME FState, NEW c \in Clients, Running(c), Now(c).op \in Writes, issues' = Effect(c),
         budget'.parallel = budget.parallel
  PROVE  /\ Titles' /\ Assigned' /\ OneItemPerTitle' /\ Onward
         /\ Early(c) => ClearStays(c)
<1>1. TodoOK(c)
  BY DEF FState, Todos
<1>2. ITyped /\ Titles /\ Assigned /\ OneItemPerTitle
  BY DEF FState
<1>3. ASSUME Quietly
      PROVE  /\ Titles' /\ Assigned' /\ OneItemPerTitle' /\ Onward
             /\ ClearStays(c)
  BY <1>2, <1>3, QuietKeeps DEF Quietly, ClearStays
<1>4. CASE /\ \A k \in DOMAIN client[c].todo : Harmless(c, client[c].todo[k])
           /\ Now(c).op \notin {"duplicate check", "create", "assign", "add item"}
  <2>1. Harmless(c, Now(c)) /\ Num(c) = Target(c, Now(c))
    BY <1>1, <1>4, NextCall DEF Num, Target
  <2>2. CASE Now(c).op = "edit"
    <3>1. PICK n, x : n = Now(c).x.plan /\ x = Now(c).x
      OBVIOUS
    <3>2. n \in Edits /\ x.title = Commands[n].title
      BY <2>1, <2>2, <3>1 DEF Harmless
    <3>3. PICK i : i = Num(c)
      OBVIOUS
    <3>4. issues' = EditContent(i, x)
      BY <2>2, <3>1, <3>3 DEF Effect
    <3>5. Titles' /\ Assigned' /\ OneItemPerTitle' /\ Onward
      BY <1>2, <3>1, <3>2, <3>4, EditEffect
    <3>6. ~Early(c)
      <4>1. Now(c).op \in {"duplicate check", "create", "assign", "add item"} \/ ~Early(c)
        BY <1>1, EarlyCalls
      <4> QED
        BY <2>2, <4>1
    <3> QED
      BY <3>5, <3>6
  <2>3. CASE Now(c).op # "edit"
    <3>1. Quietly
      BY <1>2, <1>4, <2>1, <2>3, QuietEffects DEF Harmless
    <3> QED
      BY <1>3, <3>1
  <2> QED
    BY <2>2, <2>3
<1>5. CASE Now(c) = Call("duplicate check", 0, Commands[client[c].cmd].title)
  <2>1. Now(c).op = "duplicate check"
    BY <1>5, FirstCalls
  <2> QED
    BY <2>1 DEF Writes
<1>6. CASE /\ client[c].cmd \in Creates /\ client[c].issue = 0
           /\ Now(c) = Call("create", 0, [title |-> Commands[client[c].cmd].title, plan |-> client[c].cmd])
  <2>1. PICK n, x : n = client[c].cmd /\ x = [title |-> Commands[client[c].cmd].title, plan |-> client[c].cmd]
    OBVIOUS
  <2>2. issues' = CreateIssue(x, client[c].login) /\ x.title = Commands[n].title /\ x.plan = n
    BY <1>6, <2>1 DEF Effect, Call
  <2>3. /\ Titles' /\ Assigned' /\ OneItemPerTitle' /\ Onward
        /\ issues'[Len(issues')].item = "none"
        /\ DOMAIN issues' = DOMAIN issues \cup {Len(issues')}
        /\ \A j \in DOMAIN issues : issues'[j] = issues[j]
    BY <1>2, <1>6, <2>1, <2>2, CreateEffect
  <2>4. ClearStays(c)
    BY <1>6, <2>3 DEF ClearStays
  <2> QED
    BY <2>3, <2>4
<1>7. CASE Own(c) /\ Now(c) = Call("assign", 0, Commands[client[c].cmd].asg)
  <2>1. Now(c).op = "assign" /\ Num(c) = client[c].issue /\ Now(c).x = Commands[client[c].cmd].asg
    BY <1>7, AssignCall
  <2>2. Quietly
    BY <1>2, <1>7, <2>1, QuietEffects DEF Own
  <2> QED
    BY <1>3, <2>2
<1>8. CASE /\ client[c].cmd \in Creates /\ Own(c) /\ Clear(c)
           /\ Commands[client[c].cmd].asg # Nobody => AsPlanned(client[c].issue)
           /\ Now(c) = Call("add item", 0, 0)
  <2>1. issues' = AddItem(client[c].issue)
    <3>1. Now(c).op = "add item" /\ Now(c).i = 0
      BY <1>8, FirstCalls
    <3> QED
      BY <3>1 DEF Effect, Num
  <2>2. /\ Titles' /\ Assigned' /\ OneItemPerTitle' /\ Onward
        /\ DOMAIN issues' = DOMAIN issues
        /\ \A j \in DOMAIN issues : /\ issues'[j].title = issues[j].title /\ issues'[j].plan = issues[j].plan
                                    /\ j # client[c].issue => issues'[j] = issues[j]
    BY <1>2, <1>8, <2>1, AddItemEffect
  <2>3. ClearStays(c)
    BY <2>2 DEF ClearStays
  <2> QED
    BY <2>2, <2>3
<1> QED
  BY <1>1, <1>4, <1>5, <1>6, <1>7, <1>8, NextCall

\* Nothing in the way stays nothing in the way.
LEMMA ClearKept ==
  ASSUME NEW c, ClearStays(c), Clear(c), budget'.parallel = budget.parallel,
         client'[c].cmd = client[c].cmd, client'[c].issue = client[c].issue,
         client'[c].login = client[c].login
  PROVE  Clear(c)'
BY DEF Clear, ClearStays, Shown, Forged, Planned

\* A write whose answer is lost or that fails is given up or repeated.
LEMMA FailedWriteKeeps ==
  ASSUME FState, NEW c \in Clients, Running(c), Now(c).op \in Writes,
         budget'.parallel = budget.parallel, issues' = Effect(c) \/ UNCHANGED issues,
         NEW kind, client' = AfterFailure(c, kind)
  PROVE  FState'
<1>1. Titles' /\ Assigned' /\ OneItemPerTitle' /\ Onward /\ (Early(c) => ClearStays(c))
  <2>1. CASE issues' = Effect(c)
    BY <2>1, WriteEffect
  <2>2. CASE UNCHANGED issues
    BY <2>2, SameIsQuiet, QuietKeeps DEF FState, ClearStays
  <2> QED
    BY <2>1, <2>2
<1>2. CTyped /\ Todos /\ Alone
  BY DEF FState
<1>3. client' = Stop(c) \/ \E n : client' = Retry(c, n)
  BY DEF AfterFailure
<1>4. CTyped' /\ Todos' /\ Alone'
  <2>1. CASE client' = Stop(c)
    BY <1>1, <1>2, <2>1, GivesUp
  <2>2. CASE \E n : client' = Retry(c, n)
    BY <1>1, <1>2, <2>2, TriesAgain, ClearKept
  <2> QED
    BY <1>3, <2>1, <2>2
<1> QED
  BY <1>1, <1>4 DEF FState, Onward


\* A command that goes on without further calls.
LEMMA StepsOn ==
  ASSUME CTyped, NEW c \in Clients, TodoOK(c)
  PROVE  \E r : /\ Continue(c, <<>>) = [client EXCEPT ![c] = r]
                /\ DOMAIN r = {"cmd", "todo", "tries", "issue", "login", "out"}
                /\ r.cmd = client[c].cmd /\ r.issue = client[c].issue /\ r.login = client[c].login
                /\ r.todo = Tail(client[c].todo)
                /\ r.out = "running" <=> r.todo # <<>>
<1>1. IsSeq(Tail(client[c].todo))
  BY NextCall
<1>2. <<>> \o Tail(client[c].todo) = Tail(client[c].todo)
  BY <1>1, NothingBefore
<1>3. PICK r : /\ Continue(c, <<>>) = [client EXCEPT ![c] = r]
               /\ DOMAIN r = {"cmd", "todo", "tries", "issue", "login", "out"}
               /\ r.cmd = client[c].cmd /\ r.issue = client[c].issue /\ r.login = client[c].login
               /\ r.todo = <<>> \o Tail(client[c].todo)
               /\ r.out = "running" <=> r.todo # <<>>
  BY ContinueIs, ZenonT(60)
<1> QED
  BY <1>2, <1>3, Zenon

\* The issue is created.
LEMMA CreateStep ==
  ASSUME FState, NEW c \in Clients, Running(c), Write(c), Now(c).op = "create"
  PROVE  CTyped' /\ Todos' /\ Alone'
<1>1. CTyped /\ Todos /\ Alone /\ ITyped /\ Titles /\ Assigned /\ OneItemPerTitle /\ TodoOK(c)
  BY DEF FState, Todos
<1>2. PICK n : n = client[c].cmd
  OBVIOUS
<1>3. /\ n \in Creates /\ client[c].issue = 0 /\ Clear(c) /\ Tail(client[c].todo) = Created(n)
      /\ Now(c) = Call("create", 0, [title |-> Commands[n].title, plan |-> n])
  <2>1. PICK e, d, a, i : /\ e = Now(c) /\ d = Call("duplicate check", 0, Commands[n].title)
                          /\ a = Call("assign", 0, Commands[n].asg) /\ i = Call("add item", 0, 0)
    OBVIOUS
  <2>2. d.op = "duplicate check" /\ a.op = "assign" /\ i.op = "add item"
    BY <2>1 DEF Call
  <2>3. e # d /\ e # a /\ e # i
    BY <2>1, <2>2
  <2>4. ~(e.op \notin {"duplicate check", "create", "assign", "add item"})
    BY <2>1
  <2> QED
    BY <1>1, <1>2, <2>1, <2>3, <2>4, NextCall, Zenon
<1>4. PICK x : x = [title |-> Commands[n].title, plan |-> n]
  OBVIOUS
<1>5. issues' = CreateIssue(x, client[c].login) /\ x.title = Commands[n].title /\ x.plan = n /\ UNCHANGED budget
  <2>1. PICK e : e = Now(c)
    OBVIOUS
  <2>2. e = Call("create", 0, x)
    BY <1>3, <1>4, <2>1, Zenon
  <2>3. e.x = x
    BY <2>2 DEF Call
  <2>4. Now(c).x = x
    BY <2>1, <2>3
  <2> QED
    BY <1>4, <2>4 DEF Write, Effect
<1>6. PICK l : l = Len(issues')
  OBVIOUS
<1>7. /\ Onward /\ l \in DOMAIN issues' \ DOMAIN issues /\ issues'[l].plan = n
      /\ issues'[l].item = "none" /\ DOMAIN issues' = DOMAIN issues \cup {l}
      /\ issues'[l].login = client[c].login
      /\ \A j \in DOMAIN issues : issues'[j] = issues[j] /\ j < l
  <2>1. PICK login : login = client[c].login
    OBVIOUS
  <2>2. issues' = CreateIssue(x, login) /\ budget'.parallel = budget.parallel
    BY <1>5, <2>1
  <2>3. n \in Creates
    BY <1>3
  <2>4. x.title = Commands[n].title /\ x.plan = n
    BY <1>5
  <2>5. ITyped /\ Titles /\ Assigned /\ OneItemPerTitle
    BY <1>1
  <2>6. /\ Onward
        /\ Len(issues') \in DOMAIN issues' \ DOMAIN issues /\ issues'[Len(issues')].plan = n
        /\ issues'[Len(issues')].item = "none" /\ issues'[Len(issues')].login = login
        /\ DOMAIN issues' = DOMAIN issues \cup {Len(issues')}
        /\ \A j \in DOMAIN issues : issues'[j] = issues[j] /\ j < Len(issues')
    BY <2>2, <2>3, <2>4, <2>5, CreateEffect
  <2> QED
    BY <1>6, <2>1, <2>6
<1>8. PICK q : /\ Continue(c, <<>>) = [client EXCEPT ![c] = q]
               /\ DOMAIN q = {"cmd", "todo", "tries", "issue", "login", "out"}
               /\ q.cmd = client[c].cmd /\ q.issue = client[c].issue /\ q.login = client[c].login
               /\ q.todo = Tail(client[c].todo)
               /\ q.out = "running" <=> q.todo # <<>>
  BY <1>1, StepsOn
<1>9. PICK r : r = [q EXCEPT !.issue = l]
  OBVIOUS
<1>10. /\ DOMAIN r = {"cmd", "todo", "tries", "issue", "login", "out"} /\ r.cmd = n /\ r.issue = l
       /\ r.todo = Created(n) /\ r.login = client[c].login
  BY <1>2, <1>3, <1>8, <1>9
<1>11. client' = [client EXCEPT ![c] = r] /\ client'[c] = r
  <2>1. client' = [Continue(c, <<>>) EXCEPT ![c].issue = l]
    BY <1>6 DEF Write
  <2>2. c \in DOMAIN client
    BY <1>1 DEF CTyped
  <2> QED
    BY <1>8, <1>9, <2>1, <2>2
<1>12. IsSeq(Created(n)) /\ Created(n) # <<>>
  <2>1. IsSeq(Adding(n)) /\ IsSeq(Late(n)) /\ IsSeq(Created(n))
    BY <1>3, PartsAreSeqs
  <2>2. Assigning(n) # <<>> /\ Adding(n) # <<>>
    BY <2>1, Before DEF Assigning, Adding
  <2> QED
    BY <2>1, <2>2 DEF Created
<1>13. Own(c)'
  BY <1>7, <1>10, <1>11 DEF Own
<1>14. Clear(c)'
  <2>1. 0 \notin DOMAIN issues
    BY <1>1, SeqDomain DEF ITyped
  <2>2. DOMAIN issues' = 1..Len(issues') /\ Len(issues') \in Nat
    BY <1>7, SeqIs DEF Onward, ITyped, IsSeq
  <2>3. \A j \in DOMAIN issues' : j <= l
    BY <1>6, <1>7, <2>2
  <2> QED
    BY <1>2, <1>3, <1>5, <1>7, <1>10, <1>11, <2>1, <2>3 DEF Clear, Shown, Forged, Planned
<1>15. TodoOK(c)'
  <2>1. Early(c)'
    BY <1>3, <1>10, <1>11, <1>13, <1>14 DEF Early, Created
  <2> QED
    BY <1>10, <1>11, <1>12, <2>1 DEF TodoOK
<1>16. n \in DOMAIN Commands
  BY <1>3 DEF Creates
<1> QED
  BY <1>1, <1>5, <1>7, <1>10, <1>11, <1>15, <1>16, OneCommandMoves

\* The created issue is assigned.
LEMMA AssignStep ==
  ASSUME FState, NEW c \in Clients, Running(c), Write(c), Onward, ClearStays(c),
         client[c].cmd \in Creates, Own(c), Clear(c), Now(c) = Call("assign", 0, Commands[client[c].cmd].asg),
         Tail(client[c].todo) = Adding(client[c].cmd)
  PROVE  CTyped' /\ Todos' /\ Alone'
<1>1. CTyped /\ Todos /\ Alone /\ ITyped /\ TodoOK(c)
  BY DEF FState, Todos
<1>2. PICK n, i : n = client[c].cmd /\ i = client[c].issue
  OBVIOUS
<1>3. Now(c).op = "assign" /\ Now(c).i = 0 /\ Now(c).x = Commands[n].asg
  BY <1>2, AssignCall
<1>4. client' = Continue(c, <<>>) /\ issues' = AssignIssue(i, Commands[n].asg) /\ UNCHANGED budget
  BY <1>2, <1>3 DEF Write, Effect, Num
<1>5. PICK r : /\ client' = [client EXCEPT ![c] = r]
               /\ DOMAIN r = {"cmd", "todo", "tries", "issue", "login", "out"}
               /\ r.cmd = client[c].cmd /\ r.issue = client[c].issue /\ r.login = client[c].login
               /\ r.todo = Tail(client[c].todo)
               /\ r.out = "running" <=> r.todo # <<>>
  BY <1>1, <1>4, StepsOn
<1>6. client'[c] = r
  BY <1>1, <1>5 DEF CTyped
<1>7. i \in DOMAIN issues /\ DOMAIN issues[i] = IssueFields
  BY <1>1, <1>2 DEF Own, ITyped
<1>8. issues'[i].asg = Commands[n].asg /\ issues'[i].plan = issues[i].plan
  BY <1>4, <1>7 DEF AssignIssue, IssueFields, NewIssue
<1>9. Own(c)' /\ Clear(c)'
  <2>1. Own(c)'
    BY <1>5, <1>6 DEF Own, Onward
  <2> QED
    BY <1>4, <1>5, <1>6, <2>1, ClearKept
<1>10. IsSeq(Adding(n)) /\ Adding(n) # <<>>
  <2>1. IsSeq(Adding(n)) /\ IsSeq(Late(n))
    BY <1>2, PartsAreSeqs
  <2> QED
    BY <2>1, Before DEF Adding
<1>11. TodoOK(c)'
  <2>1. AsPlanned(client[c].issue)'
    BY <1>2, <1>5, <1>6, <1>8, <1>9 DEF Own, AsPlanned
  <2>2. Early(c)'
    BY <1>2, <1>5, <1>6, <1>9, <2>1 DEF Early
  <2> QED
    BY <1>2, <1>5, <1>6, <1>10, <2>2 DEF TodoOK
<1>12. n \in DOMAIN Commands
  BY <1>2 DEF Creates
<1> QED
  BY <1>1, <1>2, <1>4, <1>5, <1>11, <1>12, OneCommandMoves

\* The created issue becomes an item: from here on the script is harmless.
LEMMA AddItemStep ==
  ASSUME FState, NEW c \in Clients, Running(c), Write(c),
         client[c].cmd \in Creates, Own(c), Clear(c),
         Commands[client[c].cmd].asg # Nobody => AsPlanned(client[c].issue),
         Now(c) = Call("add item", 0, 0), Tail(client[c].todo) = Late(client[c].cmd)
  PROVE  CTyped' /\ Todos' /\ Alone'
<1>1. CTyped /\ Todos /\ Alone /\ ITyped /\ Titles /\ Assigned /\ OneItemPerTitle /\ TodoOK(c)
  BY DEF FState, Todos
<1>2. PICK n, i : n = client[c].cmd /\ i = client[c].issue
  OBVIOUS
<1>3. Now(c).op = "add item" /\ Now(c).i = 0
  BY FirstCalls
<1>4. client' = Continue(c, <<>>) /\ issues' = AddItem(i) /\ UNCHANGED budget
  BY <1>2, <1>3 DEF Write, Effect, Num
<1>5. PICK r : /\ client' = [client EXCEPT ![c] = r]
               /\ DOMAIN r = {"cmd", "todo", "tries", "issue", "login", "out"}
               /\ r.cmd = client[c].cmd /\ r.issue = client[c].issue /\ r.login = client[c].login
               /\ r.todo = Tail(client[c].todo)
               /\ r.out = "running" <=> r.todo # <<>>
  BY <1>1, <1>4, StepsOn
<1>6. client'[c] = r
  BY <1>1, <1>5 DEF CTyped
<1>7. Onward /\ DOMAIN issues' = DOMAIN issues /\ issues'[i].item # "none" /\ i \in DOMAIN issues'
  BY <1>1, <1>2, <1>4, AddItemEffect DEF Own
<1>8. PICK u : u = Late(n)
  OBVIOUS
<1>9. IsSeq(u) /\ u # <<>> /\ \A k \in DOMAIN u : Tame(u[k]) \/ FirstStatus(u[k])
  BY <1>2, <1>8, LateCalls
<1>10. \A e : FirstStatus(e) => Harmless(c, e)'
  BY <1>2, <1>5, <1>6, <1>7 DEF FirstStatus, Harmless, Target
<1>11. \A k \in DOMAIN u : Harmless(c, u[k])'
  BY <1>9, <1>10, HarmlessKept
<1>12. client'[c].todo = u
  BY <1>2, <1>5, <1>6, <1>8
<1>13. TodoOK(c)'
  BY <1>9, <1>11, <1>12 DEF TodoOK
<1>14. n \in DOMAIN Commands
  BY <1>2 DEF Creates
<1> QED
  BY <1>1, <1>2, <1>4, <1>5, <1>7, <1>13, <1>14, OneCommandMoves

\* A write whose answer arrives.
LEMMA WriteKeeps ==
  ASSUME FState, NEW c \in Clients, Write(c)
  PROVE  FState'
<1>1. CTyped /\ Todos /\ Alone /\ Running(c) /\ TodoOK(c)
  BY DEF FState, Todos, Write
<1>2. Titles' /\ Assigned' /\ OneItemPerTitle' /\ Onward /\ (Early(c) => ClearStays(c))
  BY <1>1, WriteEffect DEF Write
<1>3. CTyped' /\ Todos' /\ Alone'
  <2>1. CASE /\ \A k \in DOMAIN client[c].todo : Harmless(c, client[c].todo[k])
             /\ Now(c).op \notin {"duplicate check", "create", "assign", "add item"}
    <3>1. client' = Continue(c, <<>>) /\ budget'.parallel = budget.parallel
      BY <2>1 DEF Write
    <3>2. PICK calls : calls = <<>>
      OBVIOUS
    <3>3. IsSeq(calls) /\ \A k \in DOMAIN calls : Harmless(c, calls[k])
      BY <3>2, ShortSeq
    <3> QED
      BY <1>1, <1>2, <2>1, <3>1, <3>2, <3>3, GoesOn
  <2>2. CASE Now(c) = Call("duplicate check", 0, Commands[client[c].cmd].title)
    <3>1. Now(c).op = "duplicate check"
      BY <2>2, FirstCalls
    <3> QED
      BY <3>1 DEF Write, Writes
  <2>3. CASE Now(c) = Call("create", 0, [title |-> Commands[client[c].cmd].title,
                                          plan |-> client[c].cmd])
    <3>1. Now(c).op = "create"
      BY <2>3, FirstCalls
    <3> QED
      BY <1>1, <3>1, CreateStep
  <2>4. CASE /\ client[c].cmd \in Creates /\ Own(c) /\ Clear(c)
             /\ Now(c) = Call("assign", 0, Commands[client[c].cmd].asg)
             /\ Tail(client[c].todo) = Adding(client[c].cmd)
    <3>1. ClearStays(c)
      <4>1. Now(c).op = "assign" /\ Num(c) = client[c].issue /\ Now(c).x = Commands[client[c].cmd].asg
        BY <2>4, AssignCall
      <4>2. ITyped /\ issues' = Effect(c)
        BY DEF FState, Write
      <4>3. Quietly
        BY <2>4, <4>1, <4>2, QuietEffects DEF Writes, Own
      <4> QED
        BY <4>3 DEF Quietly, ClearStays
    <3> QED
      BY <1>1, <1>2, <2>4, <3>1, AssignStep
  <2>5. CASE /\ client[c].cmd \in Creates /\ Own(c) /\ Clear(c)
             /\ Commands[client[c].cmd].asg # Nobody => AsPlanned(client[c].issue)
             /\ Now(c) = Call("add item", 0, 0)
             /\ Tail(client[c].todo) = Late(client[c].cmd)
    BY <1>1, <2>5, AddItemStep
  <2> QED
    BY <1>1, <2>1, <2>2, <2>3, <2>4, <2>5, NextCall
<1> QED
  BY <1>2, <1>3 DEF FState, Onward


-----------------------------------------------------------------------------
(* Reads. *)

\* A read changes no issue.
LEMMA ReadIsQuiet ==
  ASSUME FState, UNCHANGED issues, budget'.parallel = budget.parallel
  PROVE  Quietly /\ ITyped' /\ Titles' /\ Assigned' /\ OneItemPerTitle' /\ Onward
BY SameIsQuiet, QuietKeeps DEF FState, Quietly

\* A command stops, or is killed, after a read.
LEMMA StopKeeps ==
  ASSUME FState, NEW c \in Clients, Running(c), UNCHANGED issues, budget'.parallel = budget.parallel,
         \/ client' = Stop(c)
         \/ client' = [client EXCEPT ![c].todo = <<>>, ![c].tries = 0, ![c].out = "crashed"]
  PROVE  FState'
<1>1. ITyped' /\ Titles' /\ Assigned' /\ OneItemPerTitle' /\ Onward
  BY ReadIsQuiet
<1>2. CTyped' /\ Todos' /\ Alone'
  BY <1>1, GivesUp DEF FState
<1> QED
  BY <1>1, <1>2 DEF FState

\* The calls that take a creation to the Project.
FirstOps == {"duplicate check", "create", "assign", "add item"}

\* A command past its creation decides from what it read.
LEMMA ReadKeeps ==
  ASSUME FState, NEW c \in Clients, Running(c), UNCHANGED issues, budget'.parallel = budget.parallel,
         Now(c).op \notin FirstOps,
         NEW calls, IsSeq(calls), \A k \in DOMAIN calls : Harmless(c, calls[k]),
         client' = Stop(c) \/ client' = Continue(c, calls)
  PROVE  FState'
<1>1. ITyped' /\ Titles' /\ Assigned' /\ OneItemPerTitle' /\ Onward
  BY ReadIsQuiet
<1>2. TodoOK(c)
  BY DEF FState, Todos
<1>3. \A k \in DOMAIN client[c].todo : Harmless(c, client[c].todo[k])
  <2>1. Early(c) => Now(c).op \in FirstOps
    BY <1>2, EarlyCalls DEF FirstOps
  <2> QED
    BY <1>2, <2>1 DEF TodoOK
<1>4. CASE client' = Stop(c)
  BY <1>4, StopKeeps
<1>5. CASE client' = Continue(c, calls)
  <2>1. CTyped' /\ Todos' /\ Alone'
    BY <1>1, <1>3, <1>5, GoesOn DEF FState
  <2> QED
    BY <1>1, <2>1 DEF FState
<1> QED
  BY <1>4, <1>5

\* It goes on with calls that never add an item, or with none.
LEMMA TameReadKeeps ==
  ASSUME FState, NEW c \in Clients, Running(c), UNCHANGED issues, budget'.parallel = budget.parallel,
         Now(c).op \notin FirstOps, NEW calls, Fine(calls),
         client' = Stop(c) \/ client' = Continue(c, <<>>) \/ client' = Continue(c, calls)
  PROVE  FState'
<1>1. IsSeq(calls) /\ \A k \in DOMAIN calls : Harmless(c, calls[k])
  BY HarmlessKept DEF Fine
<1>2. PICK none : none = <<>>
  OBVIOUS
<1>3. IsSeq(none) /\ \A k \in DOMAIN none : Harmless(c, none[k])
  BY <1>2, ShortSeq
<1>4. CASE client' = Stop(c)
  BY <1>4, StopKeeps
<1>5. CASE client' = Continue(c, none)
  BY <1>3, <1>5, ReadKeeps
<1>6. CASE client' = Continue(c, calls)
  BY <1>1, <1>6, ReadKeeps
<1> QED
  BY <1>2, <1>4, <1>5, <1>6

\* Reads that only decide whether to go on.
LEMMA DecisionsKeep ==
  ASSUME FState, NEW c \in Clients,
         \/ VerifyRelationship(c) \/ Require(c) \/ PromotePreflight(c) \/ ReadBackTitle(c)
         \/ GiveUp(c) \/ ReadBackBody(c)
  PROVE  FState'
<1>1. /\ Running(c) /\ UNCHANGED issues /\ budget'.parallel = budget.parallel
      /\ Now(c).op \in {"verify relationship", "require", "promote preflight", "read back title",
                        "give up", "read back body"}
      /\ client' = Stop(c) \/ client' = Continue(c, <<>>)
  BY DEF VerifyRelationship, Require, PromotePreflight, ReadBackTitle, GiveUp, ReadBackBody, At, Now
<1>2. Now(c).op \notin FirstOps
  BY <1>1 DEF FirstOps
<1>3. PICK calls : calls = <<>>
  OBVIOUS
<1>4. Fine(calls)
  BY <1>3, FineTuples
<1> QED
  BY <1>1, <1>2, <1>4, TameReadKeeps

\* The status is written only to an item, and only one of the Project's.
LEMMA SetStateKeeps ==
  ASSUME FState, NEW c \in Clients, SetState(c)
  PROVE  FState'
<1>1. Running(c) /\ Now(c).op = "set state" /\ UNCHANGED issues /\ budget'.parallel = budget.parallel
  BY DEF SetState, At, Now
<1>2. Now(c).op \notin FirstOps /\ TodoOK(c)
  BY <1>1 DEF FirstOps, FState, Todos
<1>3. Harmless(c, Now(c))
  <2>1. Early(c) => Now(c).op \in FirstOps
    BY <1>2, EarlyCalls DEF FirstOps
  <2> QED
    BY <1>2, <2>1, NextCall DEF TodoOK
<1>4. Now(c).x \in States
  BY <1>1, <1>3 DEF Harmless
<1>5. PICK e : e = Call("write status", Now(c).i, [to |-> Now(c).x, rest |-> Now(c).i = 0])
  OBVIOUS
<1>6. PICK none, calls : none = <<>> /\ calls = <<e>>
  OBVIOUS
<1>7. \/ client' = Stop(c) \/ client' = Continue(c, none)
      \/ Resolves(c) /\ client' = Continue(c, calls)
  BY <1>5, <1>6 DEF SetState
<1>8. CASE client' = Stop(c) \/ client' = Continue(c, none)
  <2>1. Fine(none)
    BY <1>6, FineTuples
  <2> QED
    BY <1>1, <1>2, <1>8, <2>1, TameReadKeeps
<1>9. CASE Resolves(c) /\ client' = Continue(c, calls)
  <2>1. e.i = Now(c).i /\ e.op = "write status" /\ e.x.to = Now(c).x
    BY <1>5 DEF Call
  <2>2. Target(c, e) = Num(c)
    BY <2>1 DEF Target, Num
  <2>3. Num(c) \in DOMAIN issues /\ issues[Num(c)].item # "none"
    BY <1>9 DEF Resolves, Readable, States
  <2>4. Harmless(c, e)
    BY <1>4, <2>1, <2>2, <2>3 DEF Harmless
  <2>5. IsSeq(calls) /\ \A k \in DOMAIN calls : Harmless(c, calls[k])
    BY <1>6, <2>4, ShortSeq
  <2> QED
    BY <1>1, <1>2, <1>9, <2>5, ReadKeeps
<1> QED
  BY <1>7, <1>8, <1>9


\* Calls that never add an item.
LEMMA TameCalls ==
  /\ \A op, i, x : op \notin {"duplicate check", "create", "assign", "add item", "write status", "set state", "edit"}
       => Tame(Call(op, i, x))
  /\ \A i, x : x \in States => Tame(Call("set state", i, x))
<1>1. ASSUME NEW op, NEW i, NEW x,
             op \notin {"duplicate check", "create", "assign", "add item", "write status", "set state", "edit"}
      PROVE  Tame(Call(op, i, x))
  <2>1. PICK e : e = Call(op, i, x)
    OBVIOUS
  <2>2. e.op = op
    BY <2>1 DEF Call
  <2>3. Tame(e)
    BY <1>1, <2>2 DEF Tame
  <2> QED
    BY <2>1, <2>3
<1>2. ASSUME NEW i, NEW x, x \in States
      PROVE  Tame(Call("set state", i, x))
  <2>1. PICK e : e = Call("set state", i, x)
    OBVIOUS
  <2>2. e.op = "set state" /\ e.x = x
    BY <2>1 DEF Call
  <2>3. Tame(e)
    BY <1>2, <2>2 DEF Tame
  <2> QED
    BY <2>1, <2>3
<1> QED
  BY <1>1, <1>2

\* Reads that are followed by a comment, a field, a relationship, a closing or a note.
LEMMA PlainReadsKeep ==
  ASSUME FState, NEW c \in Clients,
         ResolveThenWrite(c) \/ AddRelationship(c) \/ Close(c) \/ ParentEvidence(c)
  PROVE  FState'
<1>1. /\ Running(c) /\ UNCHANGED issues /\ budget'.parallel = budget.parallel
      /\ Now(c).op \in {"comment", "set field", "forget claim", "add relationship", "close",
                        "parent evidence"}
  BY DEF ResolveThenWrite, AddRelationship, Close, ParentEvidence, At, Now
<1>2. Now(c).op \notin FirstOps
  BY <1>1 DEF FirstOps
<1>3. CASE ResolveThenWrite(c)
  <2>1. PICK op : op = CASE Now(c).op = "comment"   -> "add comment"
                         [] Now(c).op = "set field" -> "write field"
                         [] OTHER                   -> "clear field"
    OBVIOUS
  <2>2. op \in {"add comment", "write field", "clear field"}
    BY <2>1
  <2>3. PICK e, calls : e = Call(op, Now(c).i, Now(c).x) /\ calls = <<e>>
    OBVIOUS
  <2>4. Tame(e)
    BY <2>2, <2>3, TameCalls
  <2>5. Fine(calls)
    BY <2>3, <2>4, FineTuples
  <2>6. client' = Stop(c) \/ client' = Continue(c, calls)
    BY <1>3, <2>1, <2>3 DEF ResolveThenWrite
  <2> QED
    BY <1>1, <1>2, <2>5, <2>6, TameReadKeeps
<1>4. CASE AddRelationship(c)
  <2>1. PICK e, f, calls : /\ e = Call("relate", Now(c).i, Now(c).x)
                           /\ f = Call("verify relationship", Now(c).i, Now(c).x)
                           /\ calls = <<e, f>>
    OBVIOUS
  <2>2. Tame(e) /\ Tame(f)
    BY <2>1 DEF Tame, Call
  <2>3. Fine(calls)
    BY <2>1, <2>2, FineTuples
  <2>4. client' = Stop(c) \/ client' = Continue(c, <<>>) \/ client' = Continue(c, calls)
    BY <1>4, <2>1 DEF AddRelationship
  <2> QED
    BY <1>1, <1>2, <2>3, <2>4, TameReadKeeps
<1>5. CASE Close(c)
  <2>1. PICK e, calls : e = Call("close issue", Now(c).i, 0) /\ calls = <<e>>
    OBVIOUS
  <2>2. Tame(e)
    BY <2>1 DEF Tame, Call
  <2>3. Fine(calls)
    BY <2>1, <2>2, FineTuples
  <2>4. client' = Stop(c) \/ client' = Continue(c, <<>>) \/ client' = Continue(c, calls)
    BY <1>5, <2>1 DEF Close
  <2> QED
    BY <1>1, <1>2, <2>3, <2>4, TameReadKeeps
<1>6. CASE ParentEvidence(c)
  <2>1. PICK e, calls : e = Call("upsert", Num(c), ParentNote) /\ calls = <<e>>
    OBVIOUS
  <2>2. Tame(e)
    BY <2>1 DEF Tame, Call
  <2>3. Fine(calls)
    BY <2>1, <2>2, FineTuples
  <2>4. client' = Continue(c, <<>>) \/ client' = Continue(c, calls)
    BY <1>6, <2>1 DEF ParentEvidence
  <2> QED
    BY <1>1, <1>2, <2>3, <2>4, TameReadKeeps
<1> QED
  BY <1>3, <1>4, <1>5, <1>6

\* A finite set of numbers in order is a sequence.
LEMMA InOrderIsSeq ==
  ASSUME NEW S, IsFiniteSet(S)
  PROVE  IsSeq(InOrder(S))
<1>1. PICK n \in Nat : n = Cardinality(S)
  BY FS_CardinalityType
<1>2. PICK f : f = InOrder(S)
  OBVIOUS
<1>3. DOMAIN f = 1..n
  BY <1>1, <1>2, Zenon DEF InOrder
<1>4. f = [k \in 1..n |-> f[k]]
  <2> DEFINE m(k) == CHOOSE m \in S : Cardinality({j \in S : j <= m}) = k
  <2>1. f = [k \in 1..n |-> m(k)]
    BY <1>1, <1>2, Zenon DEF InOrder
  <2> HIDE DEF m
  <2> QED
    BY <2>1
<1> QED
  BY <1>2, <1>3, <1>4, IntervalSeq

\* An upsert writes one comment and takes the marker off the others.
LEMMA UpsertKeeps ==
  ASSUME FState, NEW c \in Clients, Upsert(c)
  PROVE  FState'
<1>1. Running(c) /\ Now(c).op = "upsert" /\ UNCHANGED issues /\ budget'.parallel = budget.parallel
  BY DEF Upsert, At, Now
<1>2. Now(c).op \notin FirstOps
  BY <1>1 DEF FirstOps
<1>3. PICK i, note, marked : i = Num(c) /\ note = Now(c).x /\ marked = WorkpadComments(i)
  OBVIOUS
<1>4. \/ client' = Stop(c)
      \/ (Resolves(c) /\ client' = Continue(c, UpsertCalls(i, note, marked)))
  BY <1>3, Zenon DEF Upsert
<1>5. CASE client' = Stop(c)
  BY <1>1, <1>5, StopKeeps
<1>6. CASE Resolves(c) /\ client' = Continue(c, UpsertCalls(i, note, marked))
  <2>1. IsSeq(issues[i].comments)
    BY <1>3, <1>6 DEF Resolves, Readable, FState, ITyped
  <2>2. Len(issues[i].comments) \in Nat
    BY <2>1, SeqDomain
  <2>3. PICK n : n = IF Len(issues[i].comments) < PageSize THEN Len(issues[i].comments)
                     ELSE PageSize
    OBVIOUS
  <2>4. PageSize \in Nat
    BY ForgeAssumption
  <2>5. n \in Nat
    BY <2>2, <2>3, <2>4
  <2>6. IsFiniteSet(MarkedIn(i, n))
    <3>1. IsFiniteSet(1..n)
      BY <2>5, FS_Interval
    <3>2. MarkedIn(i, n) \subseteq 1..n
      BY DEF MarkedIn
    <3> QED
      BY <3>1, <3>2, FS_Subset
  <2>7. IsSeq(marked)
    BY <1>3, <2>3, <2>6, InOrderIsSeq DEF WorkpadComments
  <2>8. Len(marked) \in Nat /\ (marked # <<>> => Len(marked) # 0)
    <3>1. marked # <<>> => 1 \in DOMAIN marked
      BY <2>7, SeqDomain
    <3>2. DOMAIN marked = 1..Len(marked) /\ Len(marked) \in Nat
      BY <2>7, SeqDomain
    <3> QED
      BY <3>1, <3>2
  <2>9. PICK e, g : /\ e = Call("add workpad", i, note)
                    /\ g = Call("update workpad", i,
                                [n |-> Head(marked), note |-> note,
                                 body |-> MergeBody(issues[i].comments[Head(marked)].body, note)])
    OBVIOUS
  <2>10. Tame(e) /\ Tame(g)
    BY <2>9 DEF Tame, Call
  <2>11. PICK s : s = IF marked = <<>> THEN <<e>> ELSE <<g>>
    OBVIOUS
  <2>12. Fine(s)
    BY <2>10, <2>11, FineTuples
  <2>13. PICK m \in Nat : m = IF marked = <<>> THEN 0 ELSE Len(marked) - 1
    BY <2>8
  <2>14. PICK t : t = [k \in 1..m |-> Call("supersede", i, marked[k + 1])]
    OBVIOUS
  <2>15. IsSeq(t)
    BY <2>14, IntervalSeq
  <2>16. Fine(t)
    BY <2>14, <2>15 DEF Fine, Tame, Call
  <2>17. PICK calls : calls = s \o t
    OBVIOUS
  <2>18. Fine(calls)
    BY <2>12, <2>16, <2>17, FineJoined
  <2>19. UpsertCalls(i, note, marked) = calls
    BY <2>9, <2>11, <2>13, <2>14, <2>17 DEF UpsertCalls
  <2> QED
    BY <1>1, <1>2, <1>6, <2>18, <2>19, TameReadKeeps
<1> QED
  BY <1>4, <1>5, <1>6


\* The gate writes its note and, unless the issue is ready, its state.
LEMMA QualityGateKeeps ==
  ASSUME FState, NEW c \in Clients, QualityGate(c)
  PROVE  FState'
<1>1. Running(c) /\ Now(c).op = "gate" /\ UNCHANGED issues /\ budget'.parallel = budget.parallel
  BY DEF QualityGate, At, Now
<1>2. Now(c).op \notin FirstOps
  BY <1>1 DEF FirstOps
<1>3. PICK i, kind :
        /\ i = Num(c)
        /\ client' = IF ~Resolves(c) THEN Stop(c)
                     ELSE Continue(c, <<Call("upsert", i, GateNote)>>
                              \o (IF Dispatchable(kind) THEN <<>>
                                  ELSE <<Call("set state", i, GateTargetState(kind))>>))
  BY Zenon DEF QualityGate
<1>4. PICK e, f : e = Call("upsert", i, GateNote) /\ f = Call("set state", i, GateTargetState(kind))
  OBVIOUS
<1>5. GateTargetState(kind) \in States
  BY DEF GateTargetState, States
<1>6. Tame(e)
  BY <1>4 DEF Tame, Call
<1>7. Tame(f)
  BY <1>4, <1>5 DEF Tame, Call
<1>8. PICK s, t : s = <<e>> /\ t = IF Dispatchable(kind) THEN <<>> ELSE <<f>>
  OBVIOUS
<1>9. Fine(s) /\ Fine(t)
  BY <1>6, <1>7, <1>8, FineTuples
<1>10. PICK calls : calls = s \o t
  OBVIOUS
<1>11. Fine(calls)
  BY <1>9, <1>10, FineJoined
<1>12. client' = Stop(c) \/ client' = Continue(c, calls)
  BY <1>3, <1>4, <1>8, <1>10, Zenon
<1> QED
  BY <1>1, <1>2, <1>11, <1>12, TameReadKeeps

\* The doctor's repairs are comments and states.
LEMMA RepairsKeep ==
  ASSUME FState, NEW c \in Clients, NEW ctx, AutoFix(c, ctx) \/ Repair(c)
  PROVE  FState'
<1>1. /\ Running(c) /\ Now(c).op \in {"auto-fix", "repair"}
      /\ UNCHANGED issues /\ budget'.parallel = budget.parallel
  BY DEF AutoFix, Repair, At, Now
<1>2. Now(c).op \notin FirstOps
  BY <1>1 DEF FirstOps
<1>3. CASE AutoFix(c, ctx)
  <2>1. PICK found : found = RepairCandidates(ctx)
    OBVIOUS
  <2>2. IsSeq(found)
    <3>1. PICK S : S = {i \in ReadIssues : "human_review_missing_review_evidence" \in Audit(i, ctx)}
      OBVIOUS
    <3>2. IsSeq(issues)
      BY DEF FState, ITyped
    <3>3. DOMAIN issues = 1..Len(issues) /\ Len(issues) \in Nat
      BY <3>2, SeqDomain
    <3>4. IsFiniteSet(DOMAIN issues)
      BY <3>3, FS_Interval
    <3>5. S \subseteq DOMAIN issues
      BY <3>1 DEF ReadIssues
    <3>6. IsFiniteSet(S)
      BY <3>4, <3>5, FS_Subset
    <3>7. found = InOrder(S)
      BY <2>1, <3>1 DEF RepairCandidates
    <3> QED
      BY <3>6, <3>7, InOrderIsSeq
  <2>3. PICK n \in Nat : n = 2 * Len(found)
    BY <2>2, SeqDomain
  <2>4. PICK calls : calls = [k \in 1..n |->
            IF k % 2 = 1 THEN Call("comment", found[(k + 1) \div 2], "doctor note")
            ELSE Call("set state", found[(k + 1) \div 2], "AgentReview")]
    OBVIOUS
  <2>5. IsSeq(calls)
    BY <2>4, IntervalSeq
  <2>6. ASSUME NEW k \in DOMAIN calls
        PROVE  Tame(calls[k])
    <3>1. PICK e, f : e = Call("comment", found[(k + 1) \div 2], "doctor note")
                      /\ f = Call("set state", found[(k + 1) \div 2], "AgentReview")
      OBVIOUS
    <3>2. calls[k] = e \/ calls[k] = f
      BY <2>4, <3>1
    <3>3. Tame(e) /\ Tame(f)
      BY <3>1 DEF Tame, Call, States
    <3> QED
      BY <3>2, <3>3
  <2>7. Fine(calls)
    BY <2>5, <2>6 DEF Fine
  <2>8. HumanReviewRepair(ctx) = calls
    BY <2>1, <2>3, <2>4, Zenon DEF HumanReviewRepair
  <2>9. client' = Stop(c) \/ client' = Continue(c, calls)
    BY <1>3, <2>8 DEF AutoFix
  <2> QED
    BY <1>1, <1>2, <2>7, <2>9, TameReadKeeps
<1>4. CASE Repair(c)
  <2>1. PICK e, f, g : /\ e = Call("comment", Num(c), "doctor note")
                       /\ f = Call("set state", Num(c), "NeedHumanInput")
                       /\ g = Call("mark ready", Num(c), 0)
    OBVIOUS
  <2>2. Tame(e) /\ Tame(f) /\ Tame(g)
    BY <2>1 DEF Tame, Call, States
  <2>3. PICK s, t : s = <<e, f>> /\ t = <<e, g>>
    OBVIOUS
  <2>4. Fine(s) /\ Fine(t)
    BY <2>2, <2>3, FineTuples
  <2>5. client' = Stop(c) \/ client' = Continue(c, s) \/ client' = Continue(c, t)
    BY <1>4, <2>1, <2>3 DEF Repair
  <2>6. CASE client' = Stop(c) \/ client' = Continue(c, s)
    BY <1>1, <1>2, <2>4, <2>6, TameReadKeeps
  <2>7. CASE client' = Continue(c, t)
    BY <1>1, <1>2, <2>4, <2>7, TameReadKeeps
  <2> QED
    BY <2>5, <2>6, <2>7
<1> QED
  BY <1>3, <1>4

\* A blocked rework writes a comment and gives up.
LEMMA ReworkPreflightKeeps ==
  ASSUME FState, NEW c \in Clients, ReworkPreflight(c)
  PROVE  FState'
<1>1. /\ Running(c) /\ Now(c).op = "rework preflight" /\ UNCHANGED issues
      /\ budget'.parallel = budget.parallel
  BY DEF ReworkPreflight, At, Now
<1>2. Now(c).op \notin FirstOps
  BY <1>1 DEF FirstOps
<1>3. PICK e, f : e = Call("comment", Num(c), "rework blocker") /\ f = Call("give up", Num(c), 0)
  OBVIOUS
<1>4. Tame(e) /\ Tame(f)
  BY <1>3 DEF Tame, Call
<1>5. PICK s, none : s = <<e, f>> /\ none = <<>>
  OBVIOUS
<1>6. \/ client' = Stop(c) \/ client' = Continue(c, none)
      \/ client' = [client EXCEPT ![c].todo = s]
  BY <1>3, <1>5 DEF ReworkPreflight
<1>7. CASE client' = Stop(c) \/ client' = Continue(c, none)
  <2>1. Fine(none)
    BY <1>5, FineTuples
  <2> QED
    BY <1>1, <1>2, <1>7, <2>1, TameReadKeeps
<1>8. CASE client' = [client EXCEPT ![c].todo = s]
  <2>1. CTyped /\ Todos /\ Alone
    BY DEF FState
  <2>2. ITyped' /\ Titles' /\ Assigned' /\ OneItemPerTitle' /\ Onward
    BY <1>1, ReadIsQuiet
  <2>3. PICK r : r = [client[c] EXCEPT !.todo = s]
    OBVIOUS
  <2>4. DOMAIN client[c] = {"cmd", "todo", "tries", "issue", "login", "out"} /\ c \in DOMAIN client
        /\ client[c].cmd \in DOMAIN Commands
    BY <1>1, <2>1 DEF CTyped
  <2>5. client' = [client EXCEPT ![c] = r] /\ client'[c] = r
    BY <1>8, <2>3, <2>4
  <2>6. /\ DOMAIN r = {"cmd", "todo", "tries", "issue", "login", "out"} /\ r.cmd = client[c].cmd
        /\ r.todo = s
    BY <2>3, <2>4
  <2>7. IsSeq(s) /\ s # <<>> /\ \A k \in DOMAIN s : Harmless(c, s[k])'
    <3>1. Fine(s)
      BY <1>4, <1>5, FineTuples
    <3>2. 1 \in DOMAIN s
      BY <1>5, ShortSeq
    <3>3. \A k \in DOMAIN s : Harmless(c, s[k])'
      BY <3>1, HarmlessKept DEF Fine
    <3> QED
      BY <3>1, <3>2, <3>3, ShortSeq DEF Fine
  <2>8. TodoOK(c)'
    BY <2>5, <2>6, <2>7 DEF TodoOK
  <2>9. CTyped' /\ Todos' /\ Alone'
    BY <1>1, <2>1, <2>2, <2>4, <2>5, <2>6, <2>8, OneCommandMoves
  <2> QED
    BY <2>2, <2>9 DEF FState
<1> QED
  BY <1>6, <1>7, <1>8


\* The check sees every item with an assignee its login shows: each is assigned, and listed.
LEMMA CheckSeesAll ==
  ASSUME Titles, Assigned, ITyped, NEW n \in Creates, Scannable, NEW login,
         ~DuplicateTitle(Commands[n].title, login),
         NEW j \in DOMAIN issues, issues[j].title = Commands[n].title, issues[j].item # "none",
         Shown(j, login)
  PROVE  FALSE
<1>1. issues[j].item \in States
  BY DEF ITyped, Scannable
<1>2. issues[j].plan \in Creates
  BY DEF Titles, Shown, Forged, Creates, Edits
<1>3. issues[j].asg = Commands[issues[j].plan].asg
  BY <1>2 DEF Assigned, AsPlanned, Shown, Forged
<1> QED
  BY <1>1, <1>3 DEF DuplicateTitle, Listed, Shown

\* A creation goes on when nothing of its title is on the Project.
LEMMA DuplicateCheckKeeps ==
  ASSUME FState, NEW c \in Clients, DuplicateCheck(c), budget'.parallel = budget.parallel
  PROVE  FState'
<1>1. Running(c) /\ Now(c).op = "duplicate check" /\ UNCHANGED issues
  BY DEF DuplicateCheck, At, Now
<1>2. CTyped /\ Todos /\ Alone /\ ITyped /\ Titles /\ Assigned /\ TodoOK(c)
  BY <1>1 DEF FState, Todos
<1>3. CASE client' = Stop(c)
  BY <1>1, <1>3, StopKeeps
<1>4. ASSUME NEW login, Scannable, ~DuplicateTitle(Now(c).x, login),
             client' = [Continue(c, <<>>) EXCEPT ![c].login = login]
      PROVE  FState'
  <2>1. PICK n, e : n = client[c].cmd /\ e = Now(c)
    OBVIOUS
  <2>2. /\ n \in Creates /\ client[c].issue = 0 /\ Tail(client[c].todo) = Creating(n)
        /\ e = Call("duplicate check", 0, Commands[n].title)
    <3>1. PICK f, a, i : /\ f = Call("create", 0, [title |-> Commands[n].title, plan |-> n])
                         /\ a = Call("assign", 0, Commands[n].asg) /\ i = Call("add item", 0, 0)
      OBVIOUS
    <3>2. f.op = "create" /\ a.op = "assign" /\ i.op = "add item"
      BY <3>1 DEF Call
    <3>3. e # f /\ e # a /\ e # i
      BY <1>1, <2>1, <3>2
    <3>4. ~(e.op \notin {"duplicate check", "create", "assign", "add item"})
      BY <1>1, <2>1
    <3> QED
      BY <1>2, <2>1, <3>1, <3>3, <3>4, NextCall, Zenon
  <2>3. e.x = Commands[n].title
    BY <2>2 DEF Call
  <2>4. ~DuplicateTitle(Commands[n].title, login)
    BY <1>4, <2>1, <2>3
  <2>5. PICK q : /\ Continue(c, <<>>) = [client EXCEPT ![c] = q]
                 /\ DOMAIN q = {"cmd", "todo", "tries", "issue", "login", "out"}
                 /\ q.cmd = client[c].cmd /\ q.issue = client[c].issue /\ q.login = client[c].login
                 /\ q.todo = Tail(client[c].todo)
                 /\ q.out = "running" <=> q.todo # <<>>
    BY <1>2, StepsOn
  <2>6. PICK r : r = [q EXCEPT !.login = login]
    OBVIOUS
  <2>7. /\ DOMAIN r = {"cmd", "todo", "tries", "issue", "login", "out"}
        /\ r.cmd = client[c].cmd /\ r.issue = client[c].issue /\ r.login = login
        /\ r.todo = Tail(client[c].todo)
        /\ r.out = "running" <=> r.todo # <<>>
    BY <2>5, <2>6
  <2>8. client' = [client EXCEPT ![c] = r] /\ client'[c] = r
    <3>1. c \in DOMAIN client
      BY <1>2 DEF CTyped
    <3> QED
      BY <1>4, <2>5, <2>6, <3>1
  <2>9. ITyped' /\ Titles' /\ Assigned' /\ OneItemPerTitle' /\ Onward
    BY <1>1, ReadIsQuiet
  <2>10. Clear(c)'
    <3>1. ASSUME NEW j \in DOMAIN issues,
                 issues[j].title = Commands[n].title, issues[j].item # "none",
                 Shown(j, login)
          PROVE  FALSE
      BY <1>2, <1>4, <2>2, <2>4, <3>1, CheckSeesAll
    <3> QED
      BY <1>1, <2>1, <2>2, <2>7, <2>8, <3>1 DEF Clear, Shown, Forged, Planned
  <2>11. IsSeq(Creating(n)) /\ Creating(n) # <<>>
    <3>1. IsSeq(Created(n)) /\ IsSeq(Creating(n))
      BY <2>2, PartsAreSeqs
    <3> QED
      BY <3>1, Before DEF Creating
  <2>12. Early(c)'
    BY <2>1, <2>2, <2>7, <2>8, <2>10 DEF Early
  <2>13. TodoOK(c)'
    BY <2>2, <2>7, <2>8, <2>11, <2>12 DEF TodoOK
  <2>14. client[c].cmd \in DOMAIN Commands
    BY <1>1, <1>2 DEF CTyped
  <2>15. CTyped' /\ Todos' /\ Alone'
    BY <1>1, <1>2, <2>7, <2>8, <2>9, <2>13, <2>14, OneCommandMoves
  <2> QED
    BY <2>9, <2>15 DEF FState
<1> QED
  BY <1>3, <1>4 DEF DuplicateCheck, CheckAs

-----------------------------------------------------------------------------
(* Every step. *)

\* What may still happen only gets less.
LEMMA BudgetKeeps ==
  ASSUME BTyped, NEW c,
         \/ UNCHANGED budget
         \/ budget.faults > 0 /\ budget' = [budget EXCEPT !.faults = @ - 1]
         \/ budget.crashes > 0 /\ budget' = [budget EXCEPT !.crashes = @ - 1]
         \/ budget.moves > 0 /\ budget' = [budget EXCEPT !.moves = @ - 1]
         \/ c \in Clients /\ budget.cmds[c] # <<>> /\ budget' = [budget EXCEPT !.cmds[c] = Tail(@)]
  PROVE  BTyped' /\ budget'.parallel = budget.parallel
<1>1. PICK D : D = DOMAIN Commands
  OBVIOUS
<1>2. PICK i, x : i = budget.issues /\ x = budget.ctx
  OBVIOUS
<1>3. budget \in [issues : {i}, cmds : [Clients -> Seq(D)],
                  parallel : BOOLEAN, faults : Nat, crashes : Nat, moves : Nat, ctx : {x}]
  BY <1>1, <1>2 DEF BTyped
<1>4. /\ budget' \in [issues : {i}, cmds : [Clients -> Seq(D)],
                      parallel : BOOLEAN, faults : Nat, crashes : Nat, moves : Nat, ctx : {x}]
      /\ budget'.parallel = budget.parallel
  <2>1. CASE UNCHANGED budget
    BY <1>3, <2>1
  <2>2. CASE budget.faults > 0 /\ budget' = [budget EXCEPT !.faults = @ - 1]
    BY <1>3, <2>2
  <2>3. CASE budget.crashes > 0 /\ budget' = [budget EXCEPT !.crashes = @ - 1]
    BY <1>3, <2>3
  <2>4. CASE budget.moves > 0 /\ budget' = [budget EXCEPT !.moves = @ - 1]
    <3>1. PICK m : m = budget.moves - 1
      OBVIOUS
    <3>2. m \in Nat
      BY <1>3, <2>4, <3>1
    <3>3. budget' = [budget EXCEPT !.moves = m]
      BY <2>4, <3>1
    <3> QED
      BY <1>3, <3>2, <3>3
  <2>5. CASE c \in Clients /\ budget.cmds[c] # <<>> /\ budget' = [budget EXCEPT !.cmds[c] = Tail(@)]
    <3>1. PICK t : t = Tail(budget.cmds[c])
      OBVIOUS
    <3>2. t \in Seq(D)
      <4>1. budget.cmds[c] \in Seq(D)
        BY <1>3, <2>5
      <4> QED
        BY <2>5, <3>1, <4>1, HeadTailProperties
    <3>3. PICK m : m = [budget.cmds EXCEPT ![c] = t]
      OBVIOUS
    <3>4. m \in [Clients -> Seq(D)]
      BY <1>3, <2>5, <3>2, <3>3
    <3>5. budget' = [budget EXCEPT !.cmds = m]
      BY <1>3, <2>5, <3>1, <3>3
    <3> QED
      BY <1>3, <3>4, <3>5
  <2> QED
    BY <2>1, <2>2, <2>3, <2>4, <2>5
<1>5. budget'.issues = i /\ budget'.ctx = x
  BY <1>4
<1> QED
  BY <1>1, <1>4, <1>5 DEF BTyped

\* A command begins: its script is empty, a creation, or harmless.
LEMMA BeginKeeps ==
  ASSUME BTyped, FState, NEW c \in Clients, Begin(c)
  PROVE  BTyped' /\ FState'
<1>1. BTyped' /\ budget'.parallel = budget.parallel
  BY BudgetKeeps DEF Begin
<1>2. PICK n : n = Head(budget.cmds[c])
  OBVIOUS
<1>3. n \in DOMAIN Commands
  <2>1. budget.cmds[c] \in Seq(DOMAIN Commands) /\ budget.cmds[c] # <<>>
    BY DEF BTyped, Begin
  <2> QED
    BY <1>2, <2>1, HeadTailProperties
<1>4. PICK s : s = Script(n)
  OBVIOUS
<1>5. PICK r : r = [Idle EXCEPT !.cmd = n, !.todo = s, !.out = IF s = <<>> THEN "error" ELSE "running"]
  OBVIOUS
<1>6. client' = [client EXCEPT ![c] = r] /\ UNCHANGED issues /\ ~Running(c)
      /\ (budget.parallel \/ \A d \in Clients : ~Running(d))
  BY <1>2, <1>4, <1>5, Zenon DEF Begin
<1>7. /\ DOMAIN r = {"cmd", "todo", "tries", "issue", "login", "out"} /\ r.cmd = n /\ r.todo = s
      /\ r.issue = 0 /\ r.out = IF s = <<>> THEN "error" ELSE "running"
  BY <1>5 DEF Idle
<1>8. CTyped /\ Todos /\ Alone
  BY DEF FState
<1>9. client'[c] = r
  BY <1>6, <1>8 DEF CTyped
<1>10. Quietly /\ ITyped' /\ Titles' /\ Assigned' /\ OneItemPerTitle' /\ Onward
  BY <1>1, <1>6, ReadIsQuiet
<1>11. ASSUME s # <<>>
       PROVE  TodoOK(c)'
  <2>1. CASE n \in Creates
    <3>1. s = CreateScript(n, Commands[n])
      BY <1>4, <1>11, <2>1 DEF Script, Creates
    <3>2. PICK e : e = Call("duplicate check", 0, Commands[n].title)
      OBVIOUS
    <3>3. s = <<e>> \o Creating(n)
      BY <2>1, <3>1, <3>2, CreationInParts
    <3>4. IsSeq(s)
      BY <2>1, <3>3, PartsAreSeqs, Before
    <3>5. Early(c)'
      BY <1>7, <1>9, <2>1, <3>2, <3>3 DEF Early
    <3> QED
      BY <1>7, <1>9, <1>11, <3>4, <3>5 DEF TodoOK
  <2>2. CASE n \notin Creates
    <3>1. Fine(s)
      BY <1>3, <1>4, <2>2, EditsAreFine, DirectIsFine
    <3>2. IsSeq(s) /\ \A k \in DOMAIN s : Harmless(c, s[k])'
      BY <3>1, HarmlessKept DEF Fine
    <3> QED
      BY <1>7, <1>9, <1>11, <3>2 DEF TodoOK
  <2> QED
    BY <2>1, <2>2
<1>12. CTyped' /\ Todos' /\ Alone'
  <2>1. r.out = "running" => r.cmd \in DOMAIN Commands /\ TodoOK(c)'
    BY <1>3, <1>7, <1>11
  <2> QED
    BY <1>1, <1>6, <1>7, <1>8, <1>10, <2>1, OneCommandMoves
<1> QED
  BY <1>1, <1>10, <1>12 DEF FState

\* An operator moves an item on the board: it stays an item.
LEMMA MoveKeeps ==
  ASSUME BTyped, FState, NEW i \in DOMAIN issues, Move(i)
  PROVE  BTyped' /\ FState'
<1>1. BTyped' /\ budget'.parallel = budget.parallel
  <2>1. PICK c : TRUE
    OBVIOUS
  <2>2. budget.moves > 0 /\ budget' = [budget EXCEPT !.moves = @ - 1]
    BY DEF Move
  <2> QED
    BY <2>2, BudgetKeeps
<1>2. PICK s \in States : issues' = WriteStatus(i, s)
  BY DEF Move, States
<1>3. UNCHANGED client /\ issues[i].item \in States
  BY DEF Move, Readable
<1>4. ITyped /\ CTyped /\ Titles /\ Assigned /\ Alone /\ Todos /\ OneItemPerTitle
  BY DEF FState
<1>5. PICK r : r = [issues[i] EXCEPT !.item = s]
  OBVIOUS
<1>6. issues' = [issues EXCEPT ![i] = r]
  BY <1>2, <1>5 DEF WriteStatus
<1>7. DOMAIN issues[i] = IssueFields /\ IsSeq(issues[i].comments)
  BY <1>4 DEF ITyped
<1>8. AsBefore(i, r)
  BY <1>2, <1>3, <1>5, <1>7 DEF AsBefore, AsPlanned, IssueFields, NewIssue, States
<1>9. /\ ITyped' /\ DOMAIN issues' = DOMAIN issues
      /\ \A j \in DOMAIN issues : issues'[j] = IF j = i THEN r ELSE issues[j]
  BY <1>4, <1>6, <1>8, OneIssueChanges DEF AsBefore
<1>10. Quietly
  BY <1>8, <1>9 DEF Quietly, AsBefore, AsPlanned
<1>11. Titles' /\ Assigned' /\ OneItemPerTitle' /\ Onward
  BY <1>1, <1>4, <1>10, QuietKeeps
<1>12. CTyped' /\ Alone'
  BY <1>1, <1>3, <1>4 DEF CTyped, Alone, Running
<1>13. Todos'
  <2>1. ASSUME NEW d \in Clients, Running(d)'
        PROVE  TodoOK(d)'
    BY <1>1, <1>3, <1>4, <1>10, <1>11, <2>1, OthersKeep DEF Todos, Running
  <2> QED
    BY <2>1 DEF Todos
<1> QED
  BY <1>1, <1>9, <1>11, <1>12, <1>13 DEF FState


\* Every step of a command.
LEMMA CommandKeepsAll ==
  ASSUME BTyped, FState, NEW c \in Clients,
         \/ Begin(c) \/ TrackerStep(c)
         \/ DuplicateCheck(c) \/ ParentEvidence(c)
         \/ PromotePreflight(c) \/ ReadBackTitle(c)
         \/ ReworkPreflight(c) \/ GiveUp(c) \/ ReadBackBody(c)
         \/ QualityGate(c)
         \/ AutoFix(c, budget.ctx) \/ Repair(c)
  PROVE  BTyped' /\ FState'
<1>1. UNCHANGED budget => BTyped'
  BY BudgetKeeps
<1>2. SpendFault => BTyped' /\ budget'.parallel = budget.parallel
  BY BudgetKeeps DEF SpendFault
<1>3. CASE Begin(c)
  BY <1>3, BeginKeeps
<1>4. CASE Write(c)
  BY <1>1, <1>4, WriteKeeps DEF Write
<1>5. CASE WriteLost(c)
  <2>1. /\ Running(c) /\ Now(c).op \in Writes /\ SpendFault /\ issues' = Effect(c)
        /\ client' = AfterFailure(c, "network")
    BY <1>5 DEF WriteLost
  <2> QED
    BY <1>2, <2>1, FailedWriteKeeps
<1>6. CASE WriteFails(c)
  <2>1. PICK kind : client' = AfterFailure(c, kind)
    BY <1>6 DEF WriteFails
  <2>2. Running(c) /\ Now(c).op \in Writes /\ SpendFault /\ UNCHANGED issues
    BY <1>6 DEF WriteFails
  <2> QED
    BY <1>2, <2>1, <2>2, FailedWriteKeeps
<1>7. CASE ReadFails(c)
  BY <1>2, <1>7, StopKeeps DEF ReadFails
<1>8. CASE Crash(c)
  <2>1. BTyped' /\ budget'.parallel = budget.parallel
    BY <1>8, BudgetKeeps DEF Crash
  <2> QED
    BY <1>8, <2>1, StopKeeps DEF Crash
<1>9. CASE SetState(c)
  <2>1. UNCHANGED budget
    BY <1>9 DEF SetState
  <2> QED
    BY <1>1, <1>9, <2>1, SetStateKeeps
<1>10. CASE Upsert(c)
  <2>1. UNCHANGED budget
    BY <1>10 DEF Upsert
  <2> QED
    BY <1>1, <1>10, <2>1, UpsertKeeps
<1>11. CASE ResolveThenWrite(c) \/ AddRelationship(c) \/ Close(c) \/ ParentEvidence(c)
  <2>1. UNCHANGED budget
    BY <1>11 DEF ResolveThenWrite, AddRelationship, Close, ParentEvidence
  <2> QED
    BY <1>1, <1>11, <2>1, PlainReadsKeep
<1>12. CASE \/ VerifyRelationship(c) \/ Require(c) \/ PromotePreflight(c) \/ ReadBackTitle(c)
            \/ GiveUp(c) \/ ReadBackBody(c)
  <2>1. UNCHANGED budget
    BY <1>12 DEF VerifyRelationship, Require, PromotePreflight, ReadBackTitle, GiveUp, ReadBackBody
  <2> QED
    BY <1>1, <1>12, <2>1, DecisionsKeep
<1>13. CASE DuplicateCheck(c)
  <2>1. UNCHANGED budget \/ SpendFault
    BY <1>13 DEF DuplicateCheck
  <2>2. BTyped' /\ budget'.parallel = budget.parallel
    BY <1>1, <1>2, <2>1
  <2> QED
    BY <1>13, <2>2, DuplicateCheckKeeps
<1>14. CASE ReworkPreflight(c)
  <2>1. UNCHANGED budget
    BY <1>14 DEF ReworkPreflight
  <2> QED
    BY <1>1, <1>14, <2>1, ReworkPreflightKeeps
<1>15. CASE QualityGate(c)
  <2>1. UNCHANGED budget
    BY <1>15 DEF QualityGate
  <2> QED
    BY <1>1, <1>15, <2>1, QualityGateKeeps
<1>16. CASE AutoFix(c, budget.ctx) \/ Repair(c)
  <2>1. UNCHANGED budget
    BY <1>16 DEF AutoFix, Repair
  <2>2. PICK x : x = budget.ctx
    OBVIOUS
  <2>3. AutoFix(c, x) \/ Repair(c)
    BY <1>16, <2>2, Zenon
  <2>4. FState'
    BY <2>3, RepairsKeep
  <2> QED
    BY <1>1, <2>1, <2>4
<1> QED
  BY <1>3, <1>4, <1>5, <1>6, <1>7, <1>8, <1>9, <1>10, <1>11, <1>12, <1>13, <1>14, <1>15, <1>16
     DEF TrackerStep

\* At the start no command runs and no issue is planned.
LEMMA FInvInit ==
  ASSUME Init
  PROVE  BTyped /\ FState
<1>1. PICK b \in Budgets : budget = b
  BY DEF Init
<1>2. /\ b \in [issues : {b.issues}, cmds : [Clients -> Seq(DOMAIN Commands)],
                parallel : BOOLEAN, faults : Nat, crashes : Nat, moves : Nat, ctx : {b.ctx}]
      /\ b.issues \in Seq(ToSet(b.issues))
      /\ \A i \in DOMAIN b.issues :
            /\ DOMAIN b.issues[i] = DOMAIN NewIssue(b.issues[i].title, NoPlan)
            /\ b.issues[i].plan = NoPlan
            /\ b.issues[i].comments \in Seq(ToSet(b.issues[i].comments))
            /\ b.issues[i].item \in States \cup {"none", "nostatus"}
  BY ForgeAssumption
<1>3. issues = b.issues /\ client = [c \in Clients |-> Idle]
  BY <1>1 DEF Init
<1>4. BTyped
  BY <1>1, <1>2, Zenon DEF BTyped
<1>5. ITyped
  <2>1. \A i \in DOMAIN issues : DOMAIN issues[i] = IssueFields
    BY <1>2, <1>3 DEF IssueFields, NewIssue
  <2>2. \A i \in DOMAIN issues : issues[i].item \in States \cup {"none", "nostatus"}
    BY <1>2, <1>3
  <2>3. IsSeq(issues) /\ \A i \in DOMAIN issues : IsSeq(issues[i].comments)
    BY <1>2, <1>3, Zenon DEF IsSeq
  <2> QED
    BY <2>1, <2>2, <2>3 DEF ITyped
<1>6. \A c \in Clients : ~Running(c) /\ DOMAIN client[c] = {"cmd", "todo", "tries", "issue", "login", "out"}
  BY <1>3 DEF Running, Idle
<1>7. CTyped /\ Alone /\ Todos
  BY <1>3, <1>6 DEF CTyped, Alone, Todos
<1>8. \A i \in DOMAIN issues : ~Planned(i)
  BY <1>2, <1>3 DEF Planned
<1>9. \A i \in DOMAIN issues : issues[i].plan \notin Creates
  BY <1>2, <1>3, ForgeAssumption DEF Creates, NoPlan
<1>10. Titles /\ Assigned /\ OneItemPerTitle
  BY <1>8, <1>9 DEF Titles, Assigned, AsPlanned, OneItemPerTitle, Forged
<1> QED
  BY <1>4, <1>5, <1>7, <1>10 DEF FState

\* Every step keeps the invariant.
LEMMA FInvStep ==
  ASSUME BTyped, FState, [Next]_vars
  PROVE  BTyped' /\ FState'
<1>1. CASE UNCHANGED vars
  <2>1. UNCHANGED issues /\ UNCHANGED client /\ UNCHANGED budget
    BY <1>1 DEF vars
  <2>2. BTyped'
    BY <2>1 DEF BTyped
  <2>3. Quietly /\ ITyped' /\ Titles' /\ Assigned' /\ OneItemPerTitle' /\ Onward
    BY <2>1, ReadIsQuiet
  <2>4. CTyped' /\ Alone'
    BY <2>1 DEF FState, CTyped, Alone, Running
  <2>5. ASSUME NEW d \in Clients, Running(d)'
        PROVE  TodoOK(d)'
    <3>1. Running(d) /\ TodoOK(d)
      BY <2>1, <2>5 DEF Running, FState, Todos
    <3> QED
      BY <2>1, <2>3, <3>1, OthersKeep
  <2> QED
    BY <2>2, <2>3, <2>4, <2>5 DEF FState, Todos
<1>2. CASE \E i \in DOMAIN issues : Move(i)
  BY <1>2, MoveKeeps
<1>3. CASE \E c \in Clients :
            \/ Begin(c) \/ TrackerStep(c)
            \/ DuplicateCheck(c) \/ ParentEvidence(c)
            \/ PromotePreflight(c) \/ ReadBackTitle(c)
            \/ ReworkPreflight(c) \/ GiveUp(c) \/ ReadBackBody(c)
            \/ QualityGate(c)
            \/ AutoFix(c, budget.ctx) \/ Repair(c)
  BY <1>3, CommandKeepsAll, Zenon
<1> QED
  BY <1>1, <1>2, <1>3, Zenon DEF Next

\* An operator who runs a creation again after any failure, lost answer or crash finds what
\* the earlier run put on the Project, unless its assignee is one the check does not list,
\* for any commands, issues and faults (forge/create.rs:138-171, tracker.rs:231-246).
THEOREM CreationIsNotRepeated == Spec => []OneItemPerTitle
<1>1. Init => BTyped /\ FState
  BY FInvInit
<1>2. BTyped /\ FState /\ [Next]_vars => BTyped' /\ FState'
  BY FInvStep
<1>3. FState => OneItemPerTitle
  BY DEF FState
<1> QED
  BY <1>1, <1>2, <1>3, PTL DEF Spec

=============================================================================

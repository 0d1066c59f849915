---------------------------- MODULE WorkflowFile ----------------------------
(***************************************************************************)
(* Loading a workflow file: its front matter, the closure of resources it  *)
(* selects from a manifest, its prompts and templates; keeping it in the   *)
(* store; and what is looked up again on the disk once it is loaded.       *)
(*                                                                         *)
(* A disk is a partial function from paths to what is there: `text' is     *)
(* "empty" (no byte), "blank", "broken" (no Liquid template) or "fine";    *)
(* `json' is the manifest it parses to; `meta' is its Markdown front       *)
(* matter; `real' is the canonical path; `dir' tells directories, `above'  *)
(* are the directories it is in.  A reference in a file stands for the     *)
(* path it resolves to.                                                    *)
(***************************************************************************)
EXTENDS Integers, Sequences

CONSTANTS Yaml(_),         \* what serde_yaml makes of lines
          Setup            \* paths with a component setup-shea

Failed == [ok |-> FALSE]
Done(value) == [ok |-> TRUE, value |-> value]

Invalid == [kind |-> "invalid"]   \* a manifest or front matter that does not parse

-----------------------------------------------------------------------------
(* Front matter.  A line is [dash, tail]: whether it starts with ---, and  *)
(* what follows that.                                                      *)

Fence == [dash |-> TRUE, tail |-> ""]

BlankLine(line) == ~line.dash /\ line.tail \in {"", " "}
BlankLines(lines) == \A i \in DOMAIN lines : BlankLine(lines[i])

OnlyAFence(lines) ==
  \E i \in DOMAIN lines : lines[i] = Fence /\ \A j \in DOMAIN lines \ {i} : BlankLine(lines[j])

\* split_front_matter: a fence must open it, but any later line that starts
\* with --- closes it, and what follows on that line already is prompt.
SplitFrontMatter(lines) ==
  LET closing == {i \in 3..Len(lines) : lines[i].dash}
      last == CHOOSE i \in closing : \A j \in closing : i <= j
      tail == lines[last].tail
  IN  IF OnlyAFence(lines) THEN [front |-> <<>>, prompt |-> <<>>]
      ELSE IF lines = <<>> \/ lines[1] # Fence THEN [front |-> <<>>, prompt |-> lines]
      ELSE IF Len(lines) >= 2 /\ lines[2] = Fence
      THEN [front |-> <<>>, prompt |-> SubSeq(lines, 3, Len(lines))]
      ELSE IF closing = {} THEN [front |-> Tail(lines), prompt |-> <<>>]
      ELSE [front  |-> SubSeq(lines, 2, last - 1),
            prompt |-> (IF tail = "" THEN <<>> ELSE <<[dash |-> FALSE, tail |-> tail]>>)
                       \o SubSeq(lines, last + 1, Len(lines))]

\* A config is a partial function from keys to values; a value is
\* [type |-> "text", t |-> ...], "map" (m), "list" (l) or another type.
ParseFrontMatter(front) ==
  IF BlankLines(front) THEN Done([k \in {} |-> {}])
  ELSE IF Yaml(front).type = "map" THEN Done(Yaml(front).m) ELSE Failed

Has(config, key) == key \in DOMAIN config

\* as_str of an entry, filtered for texts that are not blank.
Named(map, key) == Has(map, key) /\ map[key].type = "text" /\ map[key].t \notin {"", " "}

IsMap(config, key) == config[key].type = "map"

-----------------------------------------------------------------------------
(* The closure of resources *)

Closed(groups, set) ==
  \A g \in set : g \in DOMAIN groups => groups[g].depends \subseteq set

\* What resolve_group visits from the requested groups, dependencies first.
Reached(groups, names, requested) ==
  {g \in names : \A set \in SUBSET names : requested \subseteq set /\ Closed(groups, set) => g \in set}

\* A name that is not declared, a group that is not available and a group that
\* is met again while it is being resolved are errors.
Resolvable(groups, names, requested) ==
  LET reached == Reached(groups, names, requested)
  IN  /\ reached \subseteq DOMAIN groups
      /\ \A g \in reached : /\ groups[g].available
                            /\ g \notin Reached(groups, names, groups[g].depends)

Inside(disk, path) == {path} \cup {q \in DOMAIN disk : path \in disk[q].above}

\* validate_resource: no directory without an entry and no file without a byte,
\* all the way down.
ValidateResource(disk, path) ==
  \A q \in Inside(disk, path) :
     /\ q \in DOMAIN disk
     /\ IF disk[q].dir THEN Inside(disk, q) # {q} ELSE disk[q].text # "empty"

\* The names a selection and its manifest mention.
Names(manifest, requested) ==
  requested \cup DOMAIN manifest.groups
            \cup UNION {manifest.groups[g].depends : g \in DOMAIN manifest.groups}

EnabledGroups(section) ==
  IF ~Has(section, "enabled_groups") THEN Done({})
  ELSE LET list == section["enabled_groups"]
       IN  IF list.type = "list" /\ \A i \in DOMAIN list.l : Named(list.l, i)
           THEN Done({list.l[i].t : i \in DOMAIN list.l}) ELSE Failed

SoundManifest(manifest) ==
  /\ manifest.schema = 1
  /\ manifest.core \in DOMAIN manifest.groups
  /\ ~manifest.groups[manifest.core].optional /\ manifest.groups[manifest.core].available

\* The entries of the selected groups, and what each of them must be.
Entries(manifest, selected) ==
  UNION {{[group |-> g, nr |-> i, kind |-> manifest.groups[g].resources[i].kind,
           path |-> manifest.groups[g].resources[i].path]
            : i \in DOMAIN manifest.groups[g].resources} : g \in selected}

Admissible(disk, repository, path) ==
  /\ path \in DOMAIN disk
  /\ disk[path].real \in repository \ Setup
  /\ ValidateResource(disk, disk[path].real)

Resources(manifest, disk, repository, selected) ==
  IF \A e \in Entries(manifest, selected) : Admissible(disk, repository, e.path)
  THEN Done({[e EXCEPT !.path = disk[e.path].real] : e \in Entries(manifest, selected)})
  ELSE Failed

\* The closure that a manifest with the enabled groups resolves to.
Resolve(manifest, enabled, disk, repository) ==
  LET requested == {manifest.core} \cup enabled
      names == Names(manifest, requested)
      selected == Reached(manifest.groups, names, requested)
      resources == Resources(manifest, disk, repository, selected)
  IN  IF ~Resolvable(manifest.groups, names, requested) \/ ~resources.ok THEN Failed
      ELSE Done([groups |-> selected, resources |-> resources.value])

NoClosure == [groups |-> {}, resources |-> {}]

\* resolve_resource_closure: a file that configures no resources has none.
ResolveResourceClosure(config, disk, repository) ==
  LET section == config["resources"].m
      manifest == disk[section["manifest"].t].json
      enabled == EnabledGroups(section)
  IN  IF ~Has(config, "resources") THEN Done(NoClosure)
      ELSE IF ~IsMap(config, "resources") \/ ~Named(section, "manifest") THEN Failed
      ELSE IF section["manifest"].t \notin DOMAIN disk \/ manifest = Invalid THEN Failed
      ELSE IF ~SoundManifest(manifest) \/ ~enabled.ok THEN Failed
      ELSE Resolve(manifest, enabled.value, disk, repository)

-----------------------------------------------------------------------------
(* Prompts and templates *)

Lanes == {"main_agent", "review_agent", "merge_agent"}
BackendKeys == {"codex_app_server", "automatic_review", "automatic_review_structured",
                "claude_code_review", "merge_repair"}

OnDisk(disk, map, key) == Named(map, key) /\ map[key].t \in DOMAIN disk
Text(disk, map, key) == disk[map[key].t].text
IsBlank(text) == text \in {"empty", "blank"}

\* load_lane_prompts: a lane's own file may be blank, and so may the body of the
\* workflow file, which all lanes share if there are no files.
LoadLanePrompts(config, disk, inline) ==
  IF ~Has(config, "prompts") THEN Done([lane \in Lanes |-> inline])
  ELSE IF IsMap(config, "prompts") /\ \A lane \in Lanes : OnDisk(disk, config["prompts"].m, lane)
  THEN Done([lane \in Lanes |-> Text(disk, config["prompts"].m, lane)])
  ELSE Failed

\* load_backend_prompts: the defaults of the program's own checkout only have
\* to be readable; files of the repository must all be there and not blank.
LoadBackendPrompts(config, disk, defaults) ==
  IF ~Has(config, "backend_prompts")
  THEN IF \A key \in BackendKeys : OnDisk(disk, defaults, key)
       THEN Done([key \in BackendKeys |-> Text(disk, defaults, key)]) ELSE Failed
  ELSE IF /\ IsMap(config, "backend_prompts")
          /\ \A key \in BackendKeys : /\ OnDisk(disk, config["backend_prompts"].m, key)
                                      /\ ~IsBlank(Text(disk, config["backend_prompts"].m, key))
  THEN Done([key \in BackendKeys |-> Text(disk, config["backend_prompts"].m, key)])
  ELSE Failed

ValidTemplates(disk, map) ==
  \A key \in DOMAIN map : OnDisk(disk, map, key) /\ Text(disk, map, key) = "fine"

ValidateIssueTemplate(config, disk) ==
  Has(config, "issue_templates") =>
    /\ IsMap(config, "issue_templates")
    /\ DOMAIN config["issue_templates"].m = {"executable"}
    /\ ValidTemplates(disk, config["issue_templates"].m)

ValidateWorkpadTemplates(config, disk, ids) ==
  Has(config, "workpad_templates") =>
    /\ IsMap(config, "workpad_templates")
    /\ DOMAIN config["workpad_templates"].m \subseteq ids
    /\ ValidTemplates(disk, config["workpad_templates"].m)

-----------------------------------------------------------------------------
(* WorkflowDefinition and WorkflowStore.  A machine is the disk, the       *)
(* repository's paths, the program's default prompts and the ids of its    *)
(* workpad templates.                                                      *)

Parse(path, lines, machine) ==
  LET split == SplitFrontMatter(lines)
      config == ParseFrontMatter(split.front)
      inline == IF BlankLines(split.prompt) THEN "blank" ELSE "fine"
      closure == ResolveResourceClosure(config.value, machine.disk, machine.repository)
      lanes == LoadLanePrompts(config.value, machine.disk, inline)
      backends == LoadBackendPrompts(config.value, machine.disk, machine.defaults)
  IN  IF ~config.ok THEN Failed
      ELSE IF /\ closure.ok /\ lanes.ok /\ backends.ok
              /\ ValidateIssueTemplate(config.value, machine.disk)
              /\ ValidateWorkpadTemplates(config.value, machine.disk, machine.ids)
      THEN Done([path |-> path, config |-> config.value, closure |-> closure.value,
                 lanes |-> lanes.value, backends |-> backends.value])
      ELSE Failed

Load(path, machine) ==
  IF path \in DOMAIN machine.disk THEN Parse(path, machine.disk[path].lines, machine)
  ELSE Failed

\* WorkflowStore::reload: what does not load leaves the active workflow alone.
Reload(store, machine) ==
  LET loaded == Load(store.path, machine)
  IN  IF loaded.ok THEN [store EXCEPT !.active = loaded.value, !.error = FALSE]
      ELSE [store EXCEPT !.error = TRUE]

-----------------------------------------------------------------------------
(* What is looked up when it is needed, on the disk as it is then *)

\* resolve_closure_resource: the reference of a capability, to a resource.  One
\* that is blank or absolute stands for no path here.
Referenced(w, disk, ref, kind) ==
  {r \in w.closure.resources : /\ ref \in DOMAIN disk
                               /\ r.kind = kind /\ r.path = disk[ref].real}

Capabilities(w, disk) ==
  {r \in w.closure.resources : r.kind = "contract" /\ disk[r.path].meta.kind = "capability"}

\* The metadata of every contract must be readable, and one be the capability's.
\* Its active workflow must be the file that was loaded, and every adapter the
\* one it says it is.
CapabilityOf(w, disk, repository, r) ==
  LET meta == disk[r.path].meta
      adapter(a) == Referenced(w, disk, a.path, "adapter")
  IN  IF /\ Referenced(w, disk, meta.active, "workflow") # {}
         /\ w.path \in DOMAIN disk /\ disk[meta.active].real = disk[w.path].real
         /\ meta.adapters # {}
         /\ \A a \in meta.adapters :
               /\ adapter(a) # {}
               /\ disk[a.path].real \in DOMAIN disk
               /\ disk[disk[a.path].real].meta = [kind |-> "adapter", id |-> a.id]
         /\ {r.path, disk[meta.active].real} \cup {disk[a.path].real : a \in meta.adapters}
               \subseteq repository
      THEN Done([capability |-> r.path, workflow |-> disk[meta.active].real,
                 adapters |-> {[id |-> a.id, path |-> disk[a.path].real] : a \in meta.adapters}])
      ELSE Failed

ResolvedWorkflowCapability(w, disk, repository) ==
  LET contracts == {r \in w.closure.resources : r.kind = "contract"}
  IN  IF /\ \A r \in contracts : r.path \in DOMAIN disk /\ disk[r.path].meta # Invalid
         /\ \E r \in contracts : Capabilities(w, disk) = {r}
      THEN CapabilityOf(w, disk, repository, CHOOSE r \in contracts : Capabilities(w, disk) = {r})
      ELSE Failed

\* workpad_template_for: the file is read again each time.  A template the
\* workflow names is never replaced by the repository's default.
WorkpadTemplateFor(w, disk, default, id) ==
  LET map == w.config["workpad_templates"].m
      configured == Has(w.config, "workpad_templates") /\ Named(map, id)
      path == IF configured THEN map[id].t ELSE default[id]
  IN  [source |-> IF path \notin DOMAIN disk THEN "missing_or_invalid"
                  ELSE IF IsBlank(disk[path].text) THEN "missing_or_invalid"
                  ELSE IF configured THEN "workflow_file" ELSE "repository_default",
       path   |-> path]

\* render_workpad_template: a missing one is an error and not an empty comment.
RendersWorkpad(w, disk, default, id) ==
  LET template == WorkpadTemplateFor(w, disk, default, id)
  IN  template.source # "missing_or_invalid" /\ disk[template.path].text = "fine"

\* workpad_template_readback: what the operator is shown.
WorkpadTemplateReadback(w, ids) ==
  IF ~(Has(w.config, "workpad_templates") /\ IsMap(w.config, "workpad_templates")) THEN ids
  ELSE (DOMAIN w.config["workpad_templates"].m \cap ids)
       \cup (IF "parent_subissues" \in w.closure.groups THEN {"parent_topology"} ELSE {})
=============================================================================

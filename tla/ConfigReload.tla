---------------------------- MODULE ConfigReload ----------------------------
(***************************************************************************)
(* Changing the configuration of a running server.  The endpoints are      *)
(* plain functions, so FastAPI runs them in pool threads, at once and      *)
(* beside the event loop, and nothing locks: a save reads model.json,      *)
(* writes it back whole and loads it; a reload hands what it loaded to the *)
(* container, which replaces its parts one by one; whoever asks for skills *)
(* rebuilds the directory that all users of a registry share.              *)
(*                                                                         *)
(* A profile is its API key: the other fields are given with every save.   *)
(* The skills of the two scopes are one set, and so are the two files of   *)
(* MCP servers.                                                            *)
(***************************************************************************)
EXTENDS Naturals, FiniteSets

CONSTANTS
  Threads,     \* pool threads
  Loop,        \* the event loop, which looks skills up for the prompts of agents
  Profiles,    \* names of model profiles; "default" is one of them
  Keys,        \* API keys
  Servers,     \* MCP servers
  Skills,      \* names of skills
  RoleServers, RoleSkills,   \* those that the loaded roles name
  Nothing,        \* no key, no argument
  Torn,        \* a file whose content is not JSON
  Allowed,     \* which of the endpoints are called
  MaxOps,      \* bound: calls of the endpoints
  MaxEdits,    \* bound: files changed by hand
  MaxCrashes   \* bound: crashes

Endpoints == {"save", "delete", "replace", "reload", "mcp", "skills", "lookup"}
ASSUME NamesAssumption == "default" \in Profiles /\ Nothing \notin Keys \cup Profiles
ASSUME ActorsAssumption == Loop \notin Threads
ASSUME RolesAssumption == RoleServers \subseteq Servers /\ RoleSkills \subseteq Skills
ASSUME BoundsAssumption == {MaxOps, MaxEdits, MaxCrashes} \subseteq Nat
ASSUME AllowedAssumption == Allowed \subseteq Endpoints

VARIABLES
  file,       \* model.json
  mcpFile,    \* the servers in mcp.json
  disk,       \* the skills below the skills directories
  live,       \* the parts of the container
  known,      \* the skills in each SkillsDirectory object
  actor,      \* where each thread and the loop are
  mixed,      \* history: two installations have overlapped
  behind,     \* history: the directories that a change on the disk has left behind
  trouble,    \* history: a call was refused or cut off, calls overlapped, or model.json was edited
  ops, edits, crashes

files   == <<file, mcpFile, disk>>
history == <<mixed, behind, trouble>>
bounds  == <<ops, edits, crashes>>
configVars == <<files, live, known, actor, history, bounds>>

Contents == UNION {[names -> Keys \cup {Nothing}] : names \in SUBSET Profiles}
Dirs     == 0..MaxOps
Actors   == Threads \cup {Loop}
Factory  == [runtime : Contents, mcp : SUBSET Servers, skills : Dirs]
Live     == [up : BOOLEAN, runtime : Contents, reflection : Contents,
             mcp : SUBSET Servers, service : SUBSET Servers, skills : Dirs,
             factory : Factory, executor : Factory, tasks : Factory,
             coordFactory : Factory, coordExecutor : Factory]
Saving     == {"truncate", "write", "load"}
Installing == {"runtime", "profiles", "registry", "service", "swap",
               "capture", "arguments", "executor", "tasks", "coordFactory", "coordExecutor"}
First      == {"runtime", "registry", "swap"}
Scanning   == {"clear", "scan", "check"}
Idle == [pc |-> "idle"]
Step == [pc : {"idle", "load", "tasks", "coordFactory", "coordExecutor"}]
  \cup [pc : {"truncate", "write", "runtime", "profiles", "capture"}, content : Contents]
  \cup [pc : {"registry", "service", "capture"}, servers : SUBSET Servers]
  \cup [pc : Scanning \cup {"swap", "capture"}, dir : Dirs, then : {"idle", "swap"},
        todo : SUBSET Skills]
  \cup [pc : {"arguments"}, runtime : Contents]
  \cup [pc : {"executor"}, runtime : Contents, mcp : SUBSET Servers]

ConfigTypeOK ==
  /\ file \in Contents \cup {Torn} /\ mcpFile \subseteq Servers /\ disk \subseteq Skills
  /\ live \in Live /\ known \in [Dirs -> SUBSET Skills]
  /\ actor \in [Actors -> Step]
  /\ mixed \in BOOLEAN /\ trouble \in BOOLEAN /\ behind \subseteq Dirs
  /\ ops \in 0..MaxOps /\ edits \in 0..MaxEdits /\ crashes \in 0..MaxCrashes

(***************************************************************************)
(* model.json.                                                             *)
(***************************************************************************)
\* load_llm_configs: there is a default profile, and every profile is complete.
Loads(content) ==
  /\ content # Torn /\ "default" \in DOMAIN content
  /\ \A n \in DOMAIN content : content[n] # Nothing

KeyIn(content, n) == IF n \in DOMAIN content THEN content[n] ELSE Nothing

\* _merge_profile_api_key: the key that was sent, or that of the renamed profile, or that
\* which the profile has.
Merge(content, name, key, source) ==
  IF key # Nothing THEN key
  ELSE KeyIn(content, IF source \in DOMAIN content THEN source ELSE name)

\* save_model_profile, on what it has read: a rename takes the old name away.
Saved(content, name, key, source) ==
  [n \in (DOMAIN content \ {source}) \cup {name} |->
     IF n = name THEN Merge(content, name, key, source) ELSE content[n]]

Without(content, name) == [n \in DOMAIN content \ {name} |-> content[n]]

(***************************************************************************)
(* The container.                                                          *)
(***************************************************************************)
Built(runtime, mcp, dir) == [runtime |-> runtime, mcp |-> mcp, skills |-> dir]

\* __init__: everything is made of one loaded configuration and fresh registries.
Fresh(dir) ==
  LET f == Built(file, mcpFile, dir) IN
  [up |-> TRUE, runtime |-> file, reflection |-> file, mcp |-> mcpFile, service |-> mcpFile,
   skills |-> dir, factory |-> f, executor |-> f, tasks |-> f,
   coordFactory |-> f, coordExecutor |-> f]

\* What __init__ refuses to start with.
Starts == Loads(file) /\ RoleServers \subseteq mcpFile /\ RoleSkills \subseteq disk

ConfigInit ==
  /\ file \in Contents /\ mcpFile = Servers /\ disk = Skills /\ Starts
  /\ live = Fresh(0) /\ known = [d \in Dirs |-> IF d = 0 THEN disk ELSE {}]
  /\ actor = [a \in Actors |-> Idle]
  /\ mixed = FALSE /\ behind = {} /\ trouble = FALSE
  /\ ops = 0 /\ edits = 0 /\ crashes = 0

Busy(a) == actor[a].pc # "idle"
Alone(t) == \A u \in Threads : u # t => ~ Busy(u)

\* A thread takes a request.
Begins(t, endpoint) ==
  /\ live.up /\ ~ Busy(t) /\ endpoint \in Allowed /\ ops < MaxOps
  /\ ops' = ops + 1
  /\ UNCHANGED <<edits, crashes>>
At(a, step) == actor' = [actor EXCEPT ![a] = step]
To(a, pc)   == At(a, [actor[a] EXCEPT !.pc = pc])

\* Someone asks for the skills: the directory is read anew.
Discover(a, dir, then) == At(a, [pc |-> "clear", dir |-> dir, then |-> then, todo |-> {}])

\* The endpoint answers with an error.
Refused(t) == At(t, Idle) /\ trouble' = TRUE

(***************************************************************************)
(* The endpoints of the model configuration.                               *)
(***************************************************************************)
Writes(t, content) ==
  At(t, [pc |-> "truncate", content |-> content])

SaveProfile(t, name, key, source) ==
  /\ Begins(t, "save") /\ file # Torn
  /\ Writes(t, Saved(file, name, key, source))
  /\ trouble' = (trouble \/ ~ Alone(t))
  /\ UNCHANGED <<files, live, known, mixed, behind>>

\* The file is written only if it has the profile, and loaded in either case.
DeleteProfile(t, name) ==
  /\ Begins(t, "delete") /\ file # Torn
  /\ IF name \in DOMAIN file THEN Writes(t, Without(file, name))
     ELSE At(t, [pc |-> "load"])
  /\ trouble' = (trouble \/ ~ Alone(t))
  /\ UNCHANGED <<files, live, known, mixed, behind>>

ReplaceConfig(t, content) ==
  /\ Begins(t, "replace") /\ Writes(t, content)
  /\ trouble' = (trouble \/ ~ Alone(t))
  /\ UNCHANGED <<files, live, known, mixed, behind>>

ReloadModel(t) ==
  /\ Begins(t, "reload") /\ At(t, [pc |-> "load"])
  /\ trouble' = (trouble \/ ~ Alone(t))
  /\ UNCHANGED <<files, live, known, mixed, behind>>

\* write_text opens the file, which empties it, and then writes.
Truncate(t) ==
  /\ actor[t].pc = "truncate" /\ file' = Torn /\ To(t, "write")
  /\ UNCHANGED <<mcpFile, disk, live, known, history, bounds>>

\* Seeded fault of the next definition: it is not used.
WriteOnly(t) ==
  /\ actor[t].pc = "write" /\ file' = actor[t].content /\ At(t, Idle)
  /\ UNCHANGED <<mcpFile, disk, live, known, history, bounds>>

\* Every save loads what it has written.
Write(t) ==
  /\ actor[t].pc = "write" /\ file' = actor[t].content /\ At(t, [pc |-> "load"])
  /\ UNCHANGED <<mcpFile, disk, live, known, history, bounds>>

\* load_runtime_config; what has been written stays, whatever becomes of it.
Load(t) ==
  /\ actor[t].pc = "load"
  /\ IF Loads(file) THEN At(t, [pc |-> "runtime", content |-> file]) /\ UNCHANGED trouble
     ELSE Refused(t)
  /\ UNCHANGED <<files, live, known, mixed, behind, bounds>>

(***************************************************************************)
(* The other two reloads: read, validate against the roles, install.       *)
(***************************************************************************)
ReloadMcp(t) ==
  /\ Begins(t, "mcp")
  /\ IF RoleServers \subseteq mcpFile
     THEN At(t, [pc |-> "registry", servers |-> mcpFile]) /\ UNCHANGED trouble
     ELSE Refused(t)
  /\ UNCHANGED <<files, live, known, mixed, behind>>

\* A new registry with a directory of its own, which the validation fills.
ReloadSkills(t) ==
  /\ Begins(t, "skills")
  /\ Discover(t, ops', "swap")
  /\ UNCHANGED <<files, live, known, history>>

(***************************************************************************)
(* Installing: _on_runtime_reloaded, _on_mcp_reloaded, _on_skill_reloaded. *)
(***************************************************************************)
\* The first of the steps; installations that overlap may leave old parts behind.
Overlap(t) ==
  mixed' = (mixed \/ \E u \in Threads \ {t} : actor[u].pc \in Installing \ First)
Part(t, parts, pc) ==
  /\ live' = parts
  /\ To(t, pc)
  /\ UNCHANGED <<files, known, behind, trouble, bounds>>

SetRuntime(t) ==
  /\ actor[t].pc = "runtime" /\ Overlap(t)
  /\ Part(t, [live EXCEPT !.runtime = actor[t].content], "profiles")
SetProfiles(t) ==
  /\ actor[t].pc = "profiles" /\ UNCHANGED mixed
  /\ Part(t, [live EXCEPT !.reflection = actor[t].content], "capture")

SetMcp(t) ==
  /\ actor[t].pc = "registry" /\ Overlap(t)
  /\ Part(t, [live EXCEPT !.mcp = actor[t].servers], "service")
SetMcpService(t) ==
  /\ actor[t].pc = "service" /\ UNCHANGED mixed
  /\ Part(t, [live EXCEPT !.service = actor[t].servers], "capture")

SetSkills(t) ==
  /\ actor[t].pc = "swap" /\ Overlap(t)
  /\ Part(t, [live EXCEPT !.skills = actor[t].dir], "capture")

\* _build_runtime_services: the arguments of the factory are read one after the other.
Capture(t) ==
  /\ actor[t].pc = "capture"
  /\ At(t, [pc |-> "arguments", runtime |-> live.runtime])
  /\ UNCHANGED <<files, live, known, history, bounds>>
CaptureMcp(t) ==
  /\ actor[t].pc = "arguments"
  /\ At(t, [pc |-> "executor", runtime |-> actor[t].runtime, mcp |-> live.mcp])
  /\ UNCHANGED <<files, live, known, history, bounds>>

\* Seeded fault of the next definition: it is not used.
SetExecutorOnly(t) ==
  /\ actor[t].pc = "executor"
  /\ LET f == Built(actor[t].runtime, actor[t].mcp, live.skills) IN
     live' = [live EXCEPT !.factory = f]
  /\ At(t, [pc |-> "tasks"])
  /\ UNCHANGED <<files, known, history, bounds>>

\* The provider factory, and the execution service that is built with it.
SetExecutor(t) ==
  /\ actor[t].pc = "executor"
  /\ LET f == Built(actor[t].runtime, actor[t].mcp, live.skills) IN
     live' = [live EXCEPT !.factory = f, !.executor = f]
  /\ At(t, [pc |-> "tasks"])
  /\ UNCHANGED <<files, known, history, bounds>>
SetTaskService(t) ==
  /\ actor[t].pc = "tasks" /\ UNCHANGED mixed
  /\ Part(t, [live EXCEPT !.tasks = live.executor], "coordFactory")

\* _refresh_coordinator_runtime.
SetCoordinatorFactory(t) ==
  /\ actor[t].pc = "coordFactory" /\ UNCHANGED mixed
  /\ Part(t, [live EXCEPT !.coordFactory = live.factory], "coordExecutor")
SetCoordinatorExecutor(t) ==
  /\ actor[t].pc = "coordExecutor"
  /\ live' = [live EXCEPT !.coordExecutor = live.executor]
  /\ At(t, Idle)
  /\ UNCHANGED <<files, known, history, bounds>>

(***************************************************************************)
(* Skills: SkillRegistry._get_effective_skill_map on a shared directory.   *)
(***************************************************************************)
\* GET /system/configs and the preview of a prompt look into the registry of the container.
LookUp(t) ==
  /\ Begins(t, "lookup")
  /\ Discover(t, live.skills, "idle")
  /\ UNCHANGED <<files, live, known, history>>

\* The prompt of an agent: that of the provider, which a reload does not change.
Prompt(d) ==
  /\ live.up /\ ~ Busy(Loop) /\ "lookup" \in Allowed /\ ops < MaxOps
  /\ d \in {live.executor.skills, live.coordFactory.skills}
  /\ ops' = ops + 1
  /\ Discover(Loop, d, "idle")
  /\ UNCHANGED <<files, live, known, history, edits, crashes>>

Clear(a) ==
  /\ actor[a].pc = "clear"
  /\ known' = [known EXCEPT ![actor[a].dir] = {}]
  /\ behind' = behind \ {actor[a].dir}
  /\ At(a, [actor[a] EXCEPT !.pc = "scan", !.todo = disk])
  /\ UNCHANGED <<files, live, mixed, trouble, bounds>>

\* _load_skill: a file that is gone by now, or has no name in it, is skipped.
Loaded(s) == {s} \cap disk

\* Seeded fault of the next definition: it is not used.
ScanUntilMet(a) ==
  /\ actor[a].pc = "scan"
  /\ IF actor[a].todo = {} \/ actor[a].todo \cap known[actor[a].dir] # {}
     THEN To(a, "check") /\ UNCHANGED known
     ELSE \E s \in actor[a].todo :
            /\ known' = [known EXCEPT ![actor[a].dir] = @ \cup Loaded(s)]
            /\ At(a, [actor[a] EXCEPT !.todo = @ \ {s}])
  /\ UNCHANGED <<files, live, history, bounds>>

\* One file after the other.
Scan(a) ==
  /\ actor[a].pc = "scan"
  /\ IF actor[a].todo = {} THEN To(a, "check") /\ UNCHANGED known
     ELSE \E s \in actor[a].todo :
            /\ known' = [known EXCEPT ![actor[a].dir] = @ \cup Loaded(s)]
            /\ At(a, [actor[a] EXCEPT !.todo = @ \ {s}])
  /\ UNCHANGED <<files, live, history, bounds>>

\* validate_known, on what the directory holds now.  The lookup ends either way.
Check(a) ==
  /\ actor[a].pc = "check"
  /\ IF RoleSkills \subseteq known[actor[a].dir] /\ actor[a].then = "swap"
     THEN To(a, "swap") ELSE At(a, Idle)
  /\ UNCHANGED <<files, live, known, history, bounds>>

(***************************************************************************)
(* What happens to the files, and to the process.                          *)
(***************************************************************************)
Edited == edits < MaxEdits /\ edits' = edits + 1
EditModel ==
  /\ Edited /\ file' \in Contents \cup {Torn} /\ file' # file /\ trouble' = TRUE
  /\ UNCHANGED <<mcpFile, disk, live, known, actor, mixed, behind, ops, crashes>>
EditMcp ==
  /\ Edited /\ mcpFile' \in SUBSET Servers \ {mcpFile}
  /\ UNCHANGED <<file, disk, live, known, actor, history, ops, crashes>>
EditSkills ==
  /\ Edited /\ disk' \in SUBSET Skills \ {disk} /\ behind' = Dirs
  /\ UNCHANGED <<file, mcpFile, live, known, actor, mixed, trouble, ops, crashes>>

\* A call that was in progress never answers.
ServerCrash ==
  /\ live.up /\ crashes < MaxCrashes /\ crashes' = crashes + 1
  /\ live' = [live EXCEPT !.up = FALSE]
  /\ trouble' = (trouble \/ \E t \in Threads : actor[t].pc \in Saving)
  /\ actor' = [a \in Actors |-> Idle]
  /\ UNCHANGED <<files, known, mixed, behind, ops, edits>>

Boot ==
  /\ ~ live.up /\ Starts
  /\ live' = Fresh(0) /\ known' = [d \in Dirs |-> IF d = 0 THEN disk ELSE {}]
  /\ mixed' = FALSE /\ behind' = {}
  /\ UNCHANGED <<files, actor, trouble, bounds>>

(***************************************************************************)
(* Specification.                                                          *)
(***************************************************************************)
Requests(t) ==
  \/ \E n \in Profiles, k \in Keys \cup {Nothing}, s \in Profiles \cup {Nothing} :
       s # n /\ SaveProfile(t, n, k, s)
  \/ \E n \in Profiles : DeleteProfile(t, n)
  \/ \E c \in Contents : ReplaceConfig(t, c)
  \/ ReloadModel(t) \/ ReloadMcp(t) \/ ReloadSkills(t) \/ LookUp(t)

Installs(t) ==
  \/ SetRuntime(t) \/ SetProfiles(t) \/ SetMcp(t) \/ SetMcpService(t) \/ SetSkills(t)
  \/ Capture(t) \/ CaptureMcp(t) \/ SetExecutor(t) \/ SetTaskService(t)
  \/ SetCoordinatorFactory(t) \/ SetCoordinatorExecutor(t)

ConfigNext ==
  \/ \E t \in Threads : Requests(t) \/ Truncate(t) \/ Write(t) \/ Load(t) \/ Installs(t)
  \/ \E a \in Actors : Clear(a) \/ Scan(a) \/ Check(a)
  \/ \E d \in Dirs : Prompt(d)
  \/ EditModel \/ EditMcp \/ EditSkills \/ ServerCrash \/ Boot

ConfigSpec == ConfigInit /\ [][ConfigNext]_configVars

(***************************************************************************)
(* Properties.                                                             *)
(***************************************************************************)
Installed == \A t \in Threads : actor[t].pc \notin Installing \ First

\* Between installations that did not overlap, everything the server uses, new runs,
\* delegations, reflection and the MCP endpoints, is made of the same configuration
\* (_on_runtime_reloaded and its two siblings).
PartsAgree ==
  live.up /\ Installed /\ ~ mixed =>
    /\ live.reflection = live.runtime /\ live.service = live.mcp
    /\ \A f \in {live.factory, live.executor, live.tasks, live.coordFactory, live.coordExecutor} :
         f = Built(live.runtime, live.mcp, live.skills)

\* A server whose calls were all answered with success, one after the other, uses the model
\* configuration on the disk, and can be started with it again.
FileInUse ==
  ~ trouble /\ (\A t \in Threads : ~ Busy(t)) =>
    /\ live.up => live.runtime = file
    /\ file # Torn /\ KeyIn(file, "default") # Nothing /\ Nothing \notin {file[n] : n \in DOMAIN file}

\* However many look skills up in one directory at once: when they are done it holds all
\* skills on the disk, unless those have changed since the last of them began.
DirectoryWhole ==
  \A d \in {live.skills, live.executor.skills, live.coordFactory.skills} \ behind :
    live.up /\ (\A a \in Actors : actor[a].pc = "scan" => actor[a].dir # d)
      => disk \subseteq known[d]
=============================================================================

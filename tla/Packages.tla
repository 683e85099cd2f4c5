------------------------------ MODULE Packages ------------------------------
(***************************************************************************)
(* A package: kyokara.toml, kyokara.lock and the sources kept under        *)
(* .kyokara.  The commands add, update and check, the steps they take and  *)
(* what is left when one of them fails or is killed, while other people    *)
(* publish to the registry and push to the git repositories.               *)
(***************************************************************************)
EXTENDS Naturals, Sequences, FiniteSets, FiniteSetsExt

CONSTANTS
  DepsOf,      \* what the manifest of each other package depends on
  Published,   \* the package versions in the registry at the start
  Settings     \* each: the dependency specifications a user may write for each
               \* alias, the versions that may be published while the model
               \* runs, and a bound on the commits pushed to a repository

VARIABLES
  setting,     \* the member of Settings the model runs in
  registry,    \* what of each version is there: "manifest", or "complete"
  head,        \* the newest commit, to which every rev in a manifest points
  manifest,    \* [ok, deps]: kyokara.toml; not ok when a write tore it
  lock,        \* [state, deps]: kyokara.lock, absent, torn or ok
  store,       \* .kyokara/registry: package version to vendored package
  cached,      \* .kyokara/git: the commits checked out
  pc,          \* step of the command that runs
  cmd,         \* the command
  queue,       \* aliases whose registry packages it has yet to copy
  stack,       \* calls of the copying function, each for a package version
  visited,     \* package versions met below the current alias
  plan,        \* the direct dependencies, as they are resolved
  todo,        \* nodes of the dependency graph found and not yet looked at
  reached,     \* nodes looked at
  result,      \* how the last command ended
  before,      \* manifest and lock when the last command started
  graph,       \* nodes of the last successful load
  touched      \* aliases an edit, an add or an update was about since then

world == <<setting, registry, head>>
project == <<manifest, lock, store, cached>>
copying == <<queue, stack, visited>>
walk == <<plan, todo, reached>>
ghosts == <<before, graph, touched>>
Aliases == DOMAIN setting.choices   \* names of the direct dependencies

vars == <<world, project, pc, cmd, copying, walk, result, ghosts>>

---------------------------------------------------------------------------
(* Specifications and what they are locked to.                             *)

Names == DOMAIN DepsOf
Versions == Nat \ {0}
Sources == {"path", "git", "registry"}
Specs == [from : Sources, name : Names, need : SUBSET Nat]

Registry(p, need) == [from |-> "registry", name |-> p, need |-> need]
Git(g) == [from |-> "git", name |-> g, need |-> {}]
Path(l) == [from |-> "path", name |-> l, need |-> {}]
Locked(spec, at) == [from |-> spec.from, name |-> spec.name, at |-> at]

Failed == [from |-> "failed", name |-> "failed", at |-> 0]

NoDeps == [a \in {} |-> Failed]
Absent == [state |-> "absent", deps |-> NoDeps]
TornLock == [state |-> "torn", deps |-> NoDeps]
TornManifest == [ok |-> FALSE, deps |-> NoDeps]
LockOf(deps) == [state |-> "ok", deps |-> deps]

Set(f, k, v) == [x \in DOMAIN f \cup {k} |-> IF x = k THEN v ELSE f[x]]

\* publish_package_to_registry refuses a package with other dependencies.
Publishable(p) == \A a \in DOMAIN DepsOf[p] : DepsOf[p][a].from = "registry"

ASSUME DepsAssumption == \A p \in Names : DepsOf[p] \in [DOMAIN DepsOf[p] -> Specs]
ASSUME PublishedAssumption ==
  /\ IsFiniteSet(Published)
  /\ \A k \in Published : k \in Names \X Versions /\ Publishable(k[1])
ASSUME SettingsAssumption ==
  \A s \in Settings :
    /\ \A a \in DOMAIN s.choices : \A spec \in s.choices[a] : spec \in Specs
    /\ \A k \in s.publishable : k \in Names \X Versions

\* No package is, through registry dependencies, a dependency of itself.
ASSUME AcyclicAssumption ==
  \E rank \in [Names -> 0..Cardinality(Names)] :
    \A p \in Names : \A a \in DOMAIN DepsOf[p] :
      DepsOf[p][a].from = "registry" => rank[DepsOf[p][a].name] < rank[p]

\* No package but the root depends on a git repository.
NoNestedGit == \A p \in Names : \A a \in DOMAIN DepsOf[p] : DepsOf[p][a].from # "git"

\* manifest_dependency_matches_locked
DependencyMatches(spec, locked) ==
  /\ spec.from = locked.from
  /\ spec.name = locked.name
  /\ spec.from = "registry" => locked.at \in spec.need

\* locked_dependencies_match_manifest
LockMatches(deps, locked) ==
  /\ DOMAIN deps = DOMAIN locked
  /\ \A a \in DOMAIN deps : DependencyMatches(deps[a], locked[a])

\* resolve_manifest_dependency: a path is itself, a git rev is whatever it
\* points to now and takes a clone, a registry requirement is the highest
\* version in the local store.
Resolve(spec, online) ==
  LET versions == {v \in spec.need : <<spec.name, v>> \in DOMAIN store}
  IN  CASE spec.from = "path" -> Locked(spec, 0)
        [] spec.from = "git" -> IF online THEN Locked(spec, head) ELSE Failed
        [] OTHER -> IF versions = {} THEN Failed ELSE Locked(spec, Max(versions))

\* ensure_locked_dependency_source and the checks of
\* discover_locked_dependency_layout on the package found there.
Sound(locked, online) ==
  CASE locked.from = "path" -> TRUE
    [] locked.from = "git" -> online \/ <<locked.name, locked.at>> \in cached
    [] locked.from = "registry" ->
         /\ <<locked.name, locked.at>> \in DOMAIN store
         /\ store[locked.name, locked.at].lib
    [] OTHER -> FALSE

\* The dependencies of a package, which has no lockfile of its own, resolved
\* against the store of the root.
Transitive(locked, online) ==
  LET deps == IF locked.from = "registry" THEN store[locked.name, locked.at].deps ELSE DepsOf[locked.name]
  IN  [a \in DOMAIN deps |-> Resolve(deps[a], online)]

\* A node of the dependency graph: the aliases that lead to a package, what it
\* is locked to, and the packages on the way to it.
Nodes(deps, path, active) ==
  {[path |-> Append(path, a), locked |-> deps[a], active |-> active] : a \in DOMAIN deps}
Roots(deps) == Nodes(deps, <<>>, {})
Below(n, online) == Nodes(Transitive(n.locked, online), n.path, n.active \cup {n.locked})

\* A package among its own dependents, or one that is not sound, is refused.
Refused(n, online) == n.locked \in n.active \/ ~Sound(n.locked, online)

\* The commits a step checks out, when the network is there.
Fetched(nodes, online) == {<<n.locked.name, n.locked.at>> : n \in {m \in nodes : online /\ m.locked.from = "git"}}

\* Mutant: a lockfile that does not match is used for what it still has.
LockfileDependenciesPartial(deps, online) ==
  IF lock.state = "ok"
    THEN [a \in DOMAIN deps |-> IF a \in DOMAIN lock.deps THEN lock.deps[a] ELSE Resolve(deps[a], online)]
    ELSE [a \in DOMAIN deps |-> Resolve(deps[a], online)]

\* resolve_dependencies_for_manifest
LockfileDependencies(deps, online) ==
  IF lock.state = "ok" /\ LockMatches(deps, lock.deps)
    THEN lock.deps
    ELSE [a \in DOMAIN deps |-> Resolve(deps[a], online)]

\* Mutant: an update of one alias resolves all of them again.
RefreshAll(deps, alias, online) == [a \in DOMAIN deps |-> Resolve(deps[a], online)]

\* refresh_lockfile_dependency_for_manifest, for an alias of the manifest
Refresh(deps, alias, online) ==
  IF lock.state = "ok" /\ LockMatches(deps, lock.deps)
    THEN [lock.deps EXCEPT ![alias] = Resolve(deps[alias], online)]
    ELSE LockfileDependencies(deps, online)

---------------------------------------------------------------------------
Init ==
  /\ setting \in Settings
  /\ registry = [k \in Published |-> "complete"]
  /\ head = 1
  /\ manifest = [ok |-> TRUE, deps |-> NoDeps]
  /\ lock = Absent
  /\ store = [k \in {} |-> Failed]
  /\ cached = {}
  /\ pc = "idle"
  /\ cmd = [op |-> "none"]
  /\ queue = {} /\ stack = <<>> /\ visited = {}
  /\ plan = NoDeps /\ todo = {} /\ reached = {}
  /\ result = "none"
  /\ before = [manifest |-> manifest, lock |-> lock]
  /\ graph = {}
  /\ touched = Aliases

\* publish_package_to_registry makes the directory of the version with its
\* manifest and then copies the sources; it refuses a directory that exists.
PublishManifest(k) ==
  /\ Publishable(k[1])
  /\ k \notin DOMAIN registry
  /\ registry' = Set(registry, k, "manifest")
  /\ UNCHANGED <<setting, head, project, pc, cmd, copying, walk, result, ghosts>>

PublishSources(k) ==
  /\ k \in DOMAIN registry
  /\ registry[k] = "manifest"
  /\ registry' = Set(registry, k, "complete")
  /\ UNCHANGED <<setting, head, project, pc, cmd, copying, walk, result, ghosts>>

Push ==
  /\ head < setting.lastCommit
  /\ head' = head + 1
  /\ UNCHANGED <<setting, registry, project, pc, cmd, copying, walk, result, ghosts>>

NotWalking == plan' = NoDeps /\ todo' = {} /\ reached' = {}

\* The user edits the manifest.
Edit ==
  /\ pc = "idle"
  /\ \E a \in Aliases :
       \/ \E s \in setting.choices[a] : manifest' = [ok |-> TRUE, deps |-> Set(manifest.deps, a, s)]
       \/ manifest' = [ok |-> TRUE, deps |-> [b \in DOMAIN manifest.deps \ {a} |-> manifest.deps[b]]]
  /\ result' = "none"
  /\ touched' = Aliases
  /\ NotWalking
  /\ UNCHANGED <<world, lock, store, cached, pc, cmd, copying, before, graph>>

\* A command starts; it copies the registry packages of some aliases first.
Begin(c, aliases, step) ==
  /\ pc = "idle"
  /\ cmd' = c
  /\ before' = [manifest |-> manifest, lock |-> lock]
  /\ pc' = IF aliases = {} THEN step ELSE "select"
  /\ queue' = aliases
  /\ result' = "none"
  /\ NotWalking
  /\ UNCHANGED <<world, project, stack, visited, graph>>

\* add_package_dependency, with or without --registry
Add ==
  \E a \in Aliases : \E s \in setting.choices[a], copies \in BOOLEAN :
    /\ copies => s.from = "registry"
    /\ Begin([op |-> "add", alias |-> a, spec |-> s], IF copies THEN {a} ELSE {}, "manifest")
    /\ touched' = Aliases

\* The aliases of the manifest whose packages come from the registry
RegistryAliases(deps) == {a \in DOMAIN deps : deps[a].from = "registry"}

\* update_package_dependencies for one alias; with --registry it may replace
\* vendored packages other aliases lead to.
UpdateOne ==
  \E a \in Aliases, copies \in BOOLEAN :
    LET Copied == IF copies THEN RegistryAliases(manifest.deps) \cap {a} ELSE {}
    IN  /\ copies => manifest.ok
        /\ Begin([op |-> "update", alias |-> a], Copied, "refresh")
        /\ touched' = IF Copied = {} THEN touched \cup {a} ELSE Aliases

\* update_package_dependencies for all of them
UpdateAll ==
  \E copies \in BOOLEAN :
    /\ copies => manifest.ok
    /\ Begin([op |-> "update all"], IF copies THEN RegistryAliases(manifest.deps) ELSE {}, "remove")
    /\ touched' = Aliases

\* sync_project_lockfile_if_needed before check, run and test
Check ==
  /\ Begin([op |-> "check"], {}, "sync")
  /\ UNCHANGED touched

End(r) ==
  /\ pc' = "idle" /\ result' = r
  /\ queue' = {} /\ stack' = <<>> /\ visited' = {}
  /\ plan' = NoDeps /\ todo' = {}
  /\ reached' = IF r = "ok" THEN reached ELSE {}

\* update --registry cannot read a torn manifest.
UpdateRefused ==
  /\ pc = "idle"
  /\ ~manifest.ok
  /\ cmd' \in {[op |-> "update all"]} \cup {[op |-> "update", alias |-> a] : a \in Aliases}
  /\ before' = [manifest |-> manifest, lock |-> lock]
  /\ End("error")
  /\ UNCHANGED <<world, project, graph, touched>>

---------------------------------------------------------------------------
(* copy_selected_registry_dependency_closure_into_local_store: what add and *)
(* update copy for an alias, the dependencies of a package before it.       *)

\* resolve_registry_version_from_source_registry
Newest(spec) ==
  LET versions == {v \in spec.need : <<spec.name, v>> \in DOMAIN registry}
  IN  IF versions = {} THEN 0 ELSE Max(versions)

\* A call for a package version: the dependencies it has yet to call for, and
\* the dependencies with the versions it has selected.
Call(p, v) == [name |-> p, version |-> v, left |-> RegistryAliases(DepsOf[p]), pins |-> DepsOf[p]]
KeyOf(call) == <<call.name, call.version>>
Top == stack[Len(stack)]

\* Mutant: a package is copied before the packages it depends on.
TurnEager(calls) == IF calls = <<>> THEN "select" ELSE "copy"

\* What the innermost call does next
Turn(calls) == IF calls # <<>> /\ calls[Len(calls)].left = {} THEN "copy" ELSE "select"

\* The call for a direct dependency, with nothing visited yet
SelectRoot ==
  /\ pc = "select"
  /\ stack = <<>>
  /\ \E a \in queue :
       LET spec == IF cmd.op = "add" THEN cmd.spec ELSE manifest.deps[a]
           v == Newest(spec)
       IN  /\ v # 0
           /\ queue' = queue \ {a}
           /\ visited' = {<<spec.name, v>>}
           /\ stack' = <<Call(spec.name, v)>>
  /\ pc' = Turn(stack')
  /\ UNCHANGED <<world, project, cmd, walk, result, ghosts>>

\* A call for a dependency of the innermost package; it returns at once when
\* the version is visited.
SelectBelow ==
  /\ pc = "select"
  /\ stack # <<>>
  /\ \E a \in Top.left :
       LET spec == DepsOf[Top.name][a]
           v == Newest(spec)
           pinned == [Top EXCEPT !.left = @ \ {a}, !.pins[a].need = {v}]
           calls == [stack EXCEPT ![Len(stack)] = pinned]
       IN  /\ v # 0
           /\ visited' = visited \cup {<<spec.name, v>>}
           /\ stack' = IF <<spec.name, v>> \in visited THEN calls ELSE Append(calls, Call(spec.name, v))
  /\ pc' = Turn(stack')
  /\ UNCHANGED <<world, project, cmd, queue, walk, result, ghosts>>

\* copy_registry_version_into_local_store: the manifest as it is published,
\* and then the sources that are there.
Copy ==
  /\ pc = "copy"
  /\ LET k == KeyOf(Top)
     IN  store' = Set(store, k, [deps |-> DepsOf[Top.name], lib |-> k \in DOMAIN store /\ store[k].lib])
  /\ pc' = "sources"
  /\ UNCHANGED <<world, manifest, lock, cached, cmd, copying, walk, result, ghosts>>

CopySources ==
  /\ pc = "sources"
  /\ LET k == KeyOf(Top)
     IN  store' = Set(store, k, [deps |-> store[k].deps, lib |-> store[k].lib \/ registry[k] = "complete"])
  /\ pc' = "pin"
  /\ UNCHANGED <<world, manifest, lock, cached, cmd, copying, walk, result, ghosts>>

AfterCopying == CASE cmd.op = "add" -> "manifest" [] cmd.op = "update" -> "refresh" [] OTHER -> "remove"

\* pin_vendored_registry_dependency_versions, and the call returns.
Pin ==
  /\ pc = "pin"
  /\ LET k == KeyOf(Top)
     IN  store' = Set(store, k, [deps |-> Top.pins, lib |-> store[k].lib])
  /\ stack' = SubSeq(stack, 1, Len(stack) - 1)
  /\ pc' = IF stack' = <<>> /\ queue = {} THEN AfterCopying ELSE Turn(stack')
  /\ UNCHANGED <<world, manifest, lock, cached, cmd, queue, visited, walk, result, ghosts>>

\* No version satisfies a requirement, or a copy fails: the command returns,
\* and what is copied stays.
CopyFails ==
  /\ pc \in {"select", "copy", "sources", "pin"}
  /\ End("error")
  /\ UNCHANGED <<world, project, cmd, ghosts>>

---------------------------------------------------------------------------
\* update_manifest_dependencies; when its write fails the command returns.
WriteManifest ==
  /\ pc = "manifest"
  /\ \/ /\ manifest.ok
        /\ manifest' = [ok |-> TRUE, deps |-> Set(manifest.deps, cmd.alias, cmd.spec)]
        /\ pc' = "sync"
        /\ UNCHANGED <<copying, walk, result>>
     \/ UNCHANGED manifest /\ End("error")
     \/ manifest.ok /\ manifest' = TornManifest /\ End("torn")
  /\ UNCHANGED <<world, lock, store, cached, cmd, ghosts>>

\* update removes the lockfile and does not look whether that failed.
RemoveLock ==
  /\ pc = "remove"
  /\ lock' \in {Absent, lock}
  /\ pc' = "sync"
  /\ UNCHANGED <<world, manifest, store, cached, cmd, copying, walk, result, ghosts>>

\* Where a command goes when writing the lockfile has failed.
Recover ==
  IF cmd.op = "check" THEN End("error")
  ELSE /\ pc' = (IF cmd.op = "add" THEN "restore manifest" ELSE "restore lock")
       /\ NotWalking
       /\ UNCHANGED <<copying, result>>

\* A walk starts from the direct dependencies.
Walk(deps, online, step) ==
  /\ pc' = step
  /\ plan' = deps
  /\ todo' = Roots(deps)
  /\ reached' = {}
  /\ cached' = cached \cup Fetched(Roots(deps), online)
  /\ UNCHANGED <<copying, result>>

\* write_package_lockfile_for_entry resolves the dependencies,
Sync ==
  /\ pc \in {"sync", "refresh"}
  /\ \E online \in BOOLEAN :
       IF manifest.ok /\ (pc = "refresh" => cmd.alias \in DOMAIN manifest.deps)
         THEN Walk(IF pc = "refresh" THEN Refresh(manifest.deps, cmd.alias, online)
                   ELSE LockfileDependencies(manifest.deps, online), online, "validate")
         ELSE Recover /\ UNCHANGED cached
  /\ UNCHANGED <<world, manifest, lock, store, cmd, ghosts>>

\* validates their graph (collect_dependency_packages walks it again to load),
Visit ==
  /\ pc \in {"validate", "collect"}
  /\ \E n \in todo, online \in BOOLEAN :
       /\ ~Refused(n, online)
       /\ reached' = reached \cup {n}
       /\ todo' = (todo \ {n}) \cup Below(n, online)
       /\ cached' = cached \cup Fetched({n} \cup Below(n, online), online)
  /\ UNCHANGED <<world, manifest, lock, store, pc, cmd, copying, plan, result, ghosts>>

\* A load goes on after an error.
VisitFails ==
  /\ pc \in {"validate", "collect"}
  /\ \E n \in todo, online \in BOOLEAN :
       /\ Refused(n, online)
       /\ IF pc = "validate" THEN Recover
          ELSE /\ reached' = reached \cup {[n EXCEPT !.locked = Failed]}
               /\ todo' = todo \ {n}
               /\ UNCHANGED <<pc, copying, plan, result>>
  /\ UNCHANGED <<world, project, cmd, ghosts>>

\* and writes the lockfile if it would change.
WriteLock ==
  /\ pc = "validate"
  /\ todo = {}
  /\ \/ /\ lock' = LockOf(plan)
        /\ IF cmd.op = "check" THEN pc' = "load" /\ UNCHANGED <<copying, walk, result>> ELSE End("ok")
     \/ lock # LockOf(plan) /\ lock' \in {lock, TornLock} /\ Recover
  /\ UNCHANGED <<world, manifest, store, cached, cmd, ghosts>>

\* Mutant: the manifest keeps the dependency that could not be added.
RestoreManifestNot ==
  /\ pc = "restore manifest"
  /\ pc' = "restore lock"
  /\ UNCHANGED <<world, project, cmd, copying, walk, result, ghosts>>

RestoreManifest ==
  /\ pc = "restore manifest"
  /\ \/ manifest' = before.manifest /\ pc' = "restore lock" /\ UNCHANGED <<copying, walk, result>>
     \/ manifest' \in {manifest, TornManifest} /\ End("torn")
  /\ UNCHANGED <<world, lock, store, cached, cmd, ghosts>>

\* A command that leaves another lockfile than it found is about all aliases.
LostLock == touched' = IF lock' = before.lock THEN touched ELSE Aliases

\* restore_file
RestoreLock ==
  /\ pc = "restore lock"
  /\ \/ lock' = before.lock /\ End("error")
     \/ lock' \in {lock, TornLock} /\ End("torn")
  /\ LostLock
  /\ UNCHANGED <<world, manifest, store, cached, cmd, before, graph>>

\* ProjectLoadPlan::from_entry_file resolves once more and collects the
\* packages; without an error the program runs on them.
Load ==
  /\ pc = "load"
  /\ \E online \in BOOLEAN : Walk(LockfileDependencies(manifest.deps, online), online, "collect")
  /\ UNCHANGED <<world, manifest, lock, store, cmd, ghosts>>

Run ==
  /\ pc = "collect"
  /\ todo = {}
  /\ IF \A n \in reached : n.locked # Failed
       THEN graph' = reached /\ touched' = {} /\ End("ok")
       ELSE UNCHANGED <<graph, touched>> /\ End("error")
  /\ UNCHANGED <<world, project, cmd, before>>

Kill ==
  /\ pc # "idle"
  /\ End("killed")
  /\ UNCHANGED project
  /\ LostLock
  /\ UNCHANGED <<world, cmd, before, graph>>

Next ==
  \/ \E k \in setting.publishable : PublishManifest(k) \/ PublishSources(k)
  \/ Push \/ Edit
  \/ Add \/ UpdateOne \/ UpdateAll \/ UpdateRefused \/ Check
  \/ SelectRoot \/ SelectBelow \/ Copy \/ CopySources \/ Pin \/ CopyFails
  \/ WriteManifest \/ RemoveLock \/ Sync \/ Visit \/ VisitFails \/ WriteLock
  \/ RestoreManifest \/ RestoreLock
  \/ Load \/ Run
  \/ Kill

Spec == Init /\ [][Next]_vars

---------------------------------------------------------------------------
\* RFC 0015: the lockfile records an exact resolution and loading uses the
\* local sources plus the lockfile.  After a command that succeeded every
\* dependency of the manifest is locked at something the manifest allows, and
\* the graph can be walked with no access to the network: the packages the
\* command has reached include the locked ones and, resolved without the
\* network, the dependencies of each of them, and none of them is refused.
ReadyOffline ==
  result = "ok" =>
    /\ manifest.ok /\ lock.state = "ok" /\ LockMatches(manifest.deps, lock.deps)
    /\ Roots(lock.deps) \subseteq reached
    /\ \A n \in reached : ~Refused(n, FALSE) /\ Below(n, FALSE) \subseteq reached

\* The tests: a failed add leaves the manifest unchanged and preserves the
\* prior lockfile, and so does a failed update, whichever step failed; only
\* when restoring them fails, or the write of the manifest, may they differ.
FailedRestores ==
  result = "error" /\ cmd.op # "check" =>
    manifest = before.manifest /\ lock = before.lock

\* A package version is in the local store only when versions that satisfy
\* its dependencies are there too, even if a command is killed or fails while
\* it copies.
StoreClosed ==
  \A k \in DOMAIN store : \A a \in DOMAIN store[k].deps :
    \E v \in store[k].deps[a].need : <<store[k].deps[a].name, v>> \in DOMAIN store

\* The packages reached through one alias
Under(g, a) == {n \in g : n.path[1] = a}

\* RFC 0015 rule 4: the dependency graph changes only when the user edits the
\* manifest or runs an explicit update.  Two loads in a row resolve the same
\* packages below every alias no edit, add or update was about in between,
\* whatever is published or pushed, and whatever commands fail.
UntouchedStays ==
  [][pc = "collect" /\ result' = "ok" =>
       \A a \in Aliases \ touched : Under(graph', a) = Under(graph, a)]_vars
=============================================================================

--------------------------- MODULE PackagesProofs ---------------------------
(***************************************************************************)
(* The package manager, for every set of packages whose registry           *)
(* dependencies have no cycle: a failed command leaves manifest and        *)
(* lockfile as they were; what is vendored has its dependencies vendored.  *)
(* If only the root depends on git repositories, a package that a command  *)
(* has made ready can be loaded without the network, and a load finds the  *)
(* packages the last one found below every alias nobody touched.           *)
(***************************************************************************)
EXTENDS Packages, FiniteSetTheorems, WellFoundedInduction, TLAPS

(***************************************************************************)
(* Numbers.                                                                *)
(***************************************************************************)

\* A set of numbers has a least one.
LEMMA LeastNumber ==
  ASSUME NEW X \in SUBSET Nat, X # {}
  PROVE  \E m \in X : \A k \in X : m <= k
<1>1. PICK m \in X : \A k \in X : <<k, m>> \notin OpToRel(<, Nat)
  BY NatLessThanWellFounded, WFMin, Zenon
<1>2. \A k \in X : ~(k < m)
  BY <1>1, Zenon DEF OpToRel
<1> QED  BY <1>2

\* A finite set of numbers has a greatest one: the one with the fewest above.
LEMMA MaxIs ==
  ASSUME NEW S \in SUBSET Nat, IsFiniteSet(S), S # {}
  PROVE  Max(S) \in S
<1> DEFINE Above(x) == {y \in S : y > x}
           X == {Cardinality(Above(x)) : x \in S}
<1>1. \A x \in S : Above(x) \in SUBSET S /\ IsFiniteSet(Above(x)) /\ Cardinality(Above(x)) \in Nat
  BY FS_Subset, FS_CardinalityType
<1>2. X \in SUBSET Nat /\ X # {}
  BY <1>1, Zenon
<1>3. PICK m \in X : \A k \in X : m <= k
  <2> HIDE DEF X
  <2> QED  BY <1>2, LeastNumber
<1>4. PICK x \in S : m = Cardinality(Above(x))
  BY <1>3
<1>5. \A y \in S : ~(y > x)
  <2> SUFFICES ASSUME NEW y \in S, y > x PROVE FALSE
    OBVIOUS
  <2>1. Above(y) \in SUBSET Above(x) /\ y \in Above(x) /\ y \notin Above(y)
    <3>1. \A z \in S : z > y => z > x
      OBVIOUS
    <3>2. ~(y > y)
      OBVIOUS
    <3> HIDE DEF X
    <3> QED  BY <3>1, <3>2, Zenon
  <2>2. Cardinality(Above(y)) <= Cardinality(Above(x)) /\ Cardinality(Above(x)) # Cardinality(Above(y))
    <3> HIDE DEF Above
    <3> QED  BY <1>1, <2>1, FS_Subset
  <2>3. m <= Cardinality(Above(y))
    BY <1>3
  <2> HIDE DEF Above
  <2> QED  BY <1>1, <1>4, <2>2, <2>3
<1>6. \A y \in S : x >= y
  BY <1>5
<1> QED  BY <1>6, Zenon DEF Max

\* The highest version among finitely many packages is one of them.
LEMMA HighestIs ==
  ASSUME NEW K, IsFiniteSet(K), NEW p, NEW need \in SUBSET Nat,
         NEW versions, \A v \in versions : v \in need /\ <<p, v>> \in K, versions # {}
  PROVE  Max(versions) \in versions
<1> DEFINE f == [v \in versions |-> <<p, v>>]
<1>1. f \in Injection(versions, K)
  BY DEF Injection, IsInjective
<1>2. IsFiniteSet(versions)
  <2> HIDE DEF f
  <2> QED  BY <1>1, FS_Injection
<1> QED  BY <1>2, MaxIs, Zenon

(***************************************************************************)
(* A command that fails leaves manifest and lockfile as it found them.     *)
(***************************************************************************)

Copies == {"select", "copy", "sources", "pin"}

\* What a command has changed by each of its steps.  Add writes the manifest
\* before it syncs and the lockfile after, so that at each step that may fail
\* one of the two is known to be the old one.
RestoreInv ==
  /\ pc \in Copies \cup {"manifest", "refresh", "remove"} =>
       /\ manifest = before.manifest /\ lock = before.lock
       /\ cmd.op \in {"add", "update", "update all"}
  /\ pc = "manifest" => cmd.op = "add"
  /\ pc \in {"refresh", "remove"} => cmd.op # "add"
  /\ pc \in {"sync", "validate"} /\ cmd.op \notin {"add", "check"} => manifest = before.manifest
  /\ pc \in {"load", "collect"} => cmd.op = "check"
  /\ pc = "restore lock" => manifest = before.manifest
  /\ pc # "idle" => result = "none"
  /\ result = "error" /\ cmd.op # "check" => manifest = before.manifest /\ lock = before.lock

\* At the start no command has failed.
LEMMA RestoreInitially == Init => RestoreInv
BY DEF Init, RestoreInv, Copies

\* A command that starts
LEMMA RestoreBegin ==
  ASSUME NEW c, NEW aliases, NEW step, Begin(c, aliases, step), aliases # {} => c.op # "check",
         \/ c.op = "add" /\ step = "manifest"
         \/ c.op = "update" /\ step = "refresh"
         \/ c.op = "update all" /\ step = "remove"
         \/ c.op = "check" /\ step = "sync"
  PROVE  RestoreInv'
BY Zenon DEF Begin, RestoreInv, Copies, project

\* Recover does not return but from check.
LEMMA RestoreRecover ==
  ASSUME RestoreInv, Recover, pc \in {"sync", "refresh", "validate"}, UNCHANGED <<manifest, cmd, before>>
  PROVE  RestoreInv'
BY Zenon DEF RestoreInv, Recover, End, Copies

\* Every step keeps manifest and lockfile restorable.
LEMMA RestoreStep == RestoreInv /\ [Next]_vars => RestoreInv'
<1> SUFFICES ASSUME RestoreInv, [Next]_vars PROVE RestoreInv'
  OBVIOUS
<1>1. CASE UNCHANGED vars
  BY <1>1, Zenon DEF RestoreInv, vars, project, ghosts
<1>2. ASSUME NEW k \in setting.publishable, PublishManifest(k) \/ PublishSources(k) PROVE RestoreInv'
  BY <1>2, Zenon DEF PublishManifest, PublishSources, RestoreInv, project, ghosts
<1>3. CASE Push
  BY <1>3, Zenon DEF Push, RestoreInv, project, ghosts
<1>4. CASE Edit
  BY <1>4 DEF Edit, RestoreInv, Copies
<1>5. CASE Add
  BY <1>5, RestoreBegin, Zenon DEF Add
<1>6. CASE UpdateOne
  BY <1>6, RestoreBegin, Zenon DEF UpdateOne
<1>7. CASE UpdateAll
  BY <1>7, RestoreBegin, Zenon DEF UpdateAll
<1>8. CASE UpdateRefused
  BY <1>8, Zenon DEF UpdateRefused, End, RestoreInv, Copies, project
<1>9. CASE Check
  BY <1>9, RestoreBegin, Zenon DEF Check
<1>10. CASE SelectRoot
  BY <1>10, Zenon DEF SelectRoot, Turn, RestoreInv, Copies, project, ghosts
<1>11. CASE SelectBelow
  BY <1>11, Zenon DEF SelectBelow, Turn, RestoreInv, Copies, project, ghosts
<1>12. CASE Copy
  BY <1>12, Zenon DEF Copy, RestoreInv, Copies, ghosts
<1>13. CASE CopySources
  BY <1>13, Zenon DEF CopySources, RestoreInv, Copies, ghosts
<1>14. CASE Pin
  BY <1>14, Zenon DEF Pin, AfterCopying, Turn, RestoreInv, Copies, ghosts
<1>15. CASE CopyFails
  BY <1>15, Zenon DEF CopyFails, End, RestoreInv, Copies, project, ghosts
<1>16. CASE WriteManifest
  BY <1>16, Zenon DEF WriteManifest, End, RestoreInv, Copies, ghosts
<1>17. CASE RemoveLock
  BY <1>17, Zenon DEF RemoveLock, RestoreInv, Copies, ghosts
<1>18. CASE Sync
  <2>1. CASE Recover
    BY <1>18, <2>1, RestoreRecover DEF Sync, ghosts
  <2>2. CASE pc' = "validate" /\ UNCHANGED result
    BY <1>18, <2>2, Zenon DEF Sync, RestoreInv, Copies, ghosts
  <2> QED  BY <1>18, <2>1, <2>2 DEF Sync, Walk
<1>19. CASE Visit
  BY <1>19, Zenon DEF Visit, RestoreInv, Copies, ghosts
<1>20. CASE VisitFails
  <2>1. CASE Recover /\ pc = "validate"
    BY <1>20, <2>1, RestoreRecover DEF VisitFails, project, ghosts
  <2>2. CASE UNCHANGED <<pc, result>>
    BY <1>20, <2>2, Zenon DEF VisitFails, RestoreInv, project, ghosts
  <2> QED  BY <1>20, <2>1, <2>2 DEF VisitFails
<1>21. CASE WriteLock
  <2>1. CASE Recover
    BY <1>21, <2>1, RestoreRecover DEF WriteLock, ghosts
  <2>2. CASE IF cmd.op = "check" THEN pc' = "load" /\ UNCHANGED result ELSE End("ok")
    BY <1>21, <2>2, Zenon DEF WriteLock, End, RestoreInv, Copies, ghosts
  <2> QED  BY <1>21, <2>1, <2>2 DEF WriteLock
<1>22. CASE RestoreManifest
  BY <1>22, Zenon DEF RestoreManifest, End, RestoreInv, Copies, ghosts
<1>23. CASE RestoreLock
  BY <1>23, Zenon DEF RestoreLock, End, RestoreInv, Copies
<1>24. CASE Load
  BY <1>24 DEF Load, Walk, RestoreInv, Copies, ghosts
<1>25. CASE Run
  BY <1>25, Zenon DEF Run, End, RestoreInv, Copies, project
<1>26. CASE Kill
  BY <1>26, Zenon DEF Kill, End, RestoreInv, Copies, project
<1> QED  BY <1>1, <1>2, <1>3, <1>4, <1>5, <1>6, <1>7, <1>8, <1>9, <1>10, <1>11, <1>12, <1>13, <1>14, <1>15,
            <1>16, <1>17, <1>18, <1>19, <1>20, <1>21, <1>22, <1>23, <1>24, <1>25, <1>26 DEF Next

\* add_package_dependency and update_package_dependencies: a command that
\* returns an error leaves the manifest and the lockfile it found, whichever
\* of its steps failed.
THEOREM FailuresRestore == Spec => []FailedRestores
<1>1. RestoreInv => FailedRestores
  BY Zenon DEF RestoreInv, FailedRestores
<1> QED  BY <1>1, RestoreInitially, RestoreStep, PTL DEF Spec

(***************************************************************************)
(* What is written where.                                                  *)
(***************************************************************************)

DepsOK(deps) == \A a \in DOMAIN deps : deps[a] \in Specs

\* The registry holds finitely many versions, of packages that depend on the
\* registry only; manifests hold specifications.
TypeInv ==
  /\ setting \in Settings
  /\ IsFiniteSet(DOMAIN registry)
  /\ \A k \in DOMAIN registry : k \in Names \X Versions /\ Publishable(k[1])
  /\ DepsOK(manifest.deps) /\ DepsOK(before.manifest.deps)
  /\ cmd.op = "add" => cmd.spec \in Specs
  /\ pc \in Copies /\ cmd.op # "add" => queue \subseteq DOMAIN manifest.deps

\* What Set changes.
LEMMA SetIs ==
  ASSUME NEW f, NEW k, NEW v
  PROVE  /\ DOMAIN Set(f, k, v) = DOMAIN f \cup {k}
         /\ Set(f, k, v)[k] = v
         /\ \A x \in DOMAIN f : x # k => Set(f, k, v)[x] = f[x]
BY DEF Set

\* Dependencies stay specifications when one is added,
LEMMA DepsSet ==
  ASSUME NEW deps, DepsOK(deps), NEW a, NEW spec \in Specs
  PROVE  DepsOK(Set(deps, a, spec))
<1>1. DOMAIN Set(deps, a, spec) = DOMAIN deps \cup {a}
  BY SetIs, Zenon
<1>2. ASSUME NEW b \in DOMAIN deps \cup {a} PROVE Set(deps, a, spec)[b] \in Specs
  <2>1. Set(deps, a, spec)[b] = IF b = a THEN spec ELSE deps[b]
    BY DEF Set
  <2> QED  BY <2>1 DEF DepsOK
<1> QED  BY <1>1, <1>2 DEF DepsOK

\* and there are none when the manifest is torn.
LEMMA DepsTorn == DepsOK(TornManifest.deps)
<1>1. TornManifest.deps = NoDeps
  BY DEF TornManifest
<1> QED  BY <1>1 DEF DepsOK, NoDeps

\* The manifest is empty at the start.
LEMMA TypeInitially == Init => TypeInv
BY PublishedAssumption DEF Init, TypeInv, DepsOK, NoDeps, Copies

\* The start of a command
LEMMA TypeBegin ==
  ASSUME TypeInv, NEW c, NEW aliases, NEW step, Begin(c, aliases, step), step \notin Copies,
         c.op = "add" => c.spec \in Specs, c.op # "add" => aliases \subseteq DOMAIN manifest.deps
  PROVE  TypeInv'
BY DEF Begin, TypeInv, Copies, world, project

\* A publication
LEMMA TypeRegistry ==
  ASSUME TypeInv, NEW k \in setting.publishable, Publishable(k[1]), NEW what,
         registry' = Set(registry, k, what),
         UNCHANGED <<setting, project, pc, cmd, queue, ghosts>>
  PROVE  TypeInv'
<1>1. DOMAIN registry' = DOMAIN registry \cup {k}
  BY SetIs, Zenon
<1>2. k \in Names \X Versions
  BY SettingsAssumption DEF TypeInv
<1>3. IsFiniteSet(DOMAIN registry')
  BY <1>1, FS_AddElement DEF TypeInv
<1>4. \A j \in DOMAIN registry' : j \in Names \X Versions /\ Publishable(j[1])
  BY <1>1, <1>2 DEF TypeInv
<1> QED  BY <1>3, <1>4 DEF TypeInv, project, ghosts

\* Every step keeps the types.
LEMMA TypeStep == TypeInv /\ RestoreInv /\ [Next]_vars => TypeInv'
<1> SUFFICES ASSUME TypeInv, RestoreInv, [Next]_vars PROVE TypeInv'
  OBVIOUS
<1> USE DEF Copies
<1>1. CASE UNCHANGED vars
  BY <1>1 DEF TypeInv, vars, world, project, copying, ghosts
<1>2. ASSUME NEW k \in setting.publishable, PublishManifest(k) \/ PublishSources(k) PROVE TypeInv'
  <2>1. Publishable(k[1])
    BY <1>2 DEF PublishManifest, PublishSources, TypeInv
  <2>2. CASE PublishManifest(k)
    BY <2>1, <2>2, TypeRegistry DEF PublishManifest, copying
  <2>3. CASE PublishSources(k)
    BY <2>1, <2>3, TypeRegistry DEF PublishSources, copying
  <2> QED  BY <1>2, <2>2, <2>3
<1>3. CASE Push
  BY <1>3 DEF Push, TypeInv, project, copying, ghosts
<1>4. CASE Edit
  <2>1. PICK a \in Aliases :
          \/ \E spec \in setting.choices[a] : manifest' = [ok |-> TRUE, deps |-> Set(manifest.deps, a, spec)]
          \/ manifest' = [ok |-> TRUE, deps |-> [b \in DOMAIN manifest.deps \ {a} |-> manifest.deps[b]]]
    BY <1>4 DEF Edit
  <2>2. ASSUME NEW spec \in setting.choices[a] PROVE DepsOK(Set(manifest.deps, a, spec))
    <3>1. spec \in Specs
      BY SettingsAssumption DEF TypeInv, Aliases
    <3> QED  BY <3>1, DepsSet DEF TypeInv
  <2>3. DepsOK([b \in DOMAIN manifest.deps \ {a} |-> manifest.deps[b]])
    BY DEF TypeInv, DepsOK
  <2>4. DepsOK(manifest'.deps)
    BY <2>1, <2>2, <2>3
  <2> QED  BY <1>4, <2>4 DEF Edit, TypeInv, world
<1>5. CASE Add
  <2>1. PICK a \in Aliases : \E spec \in setting.choices[a], copies \in BOOLEAN :
          Begin([op |-> "add", alias |-> a, spec |-> spec], IF copies THEN {a} ELSE {}, "manifest")
    BY <1>5, Zenon DEF Add
  <2>2. PICK spec \in setting.choices[a], copies \in BOOLEAN :
          Begin([op |-> "add", alias |-> a, spec |-> spec], IF copies THEN {a} ELSE {}, "manifest")
    BY <2>1
  <2>3. spec \in Specs
    BY SettingsAssumption DEF TypeInv, Aliases
  <2> QED  BY <2>2, <2>3, TypeBegin
<1>6. CASE UpdateOne
  BY <1>6, TypeBegin DEF UpdateOne, RegistryAliases
<1>7. CASE UpdateAll
  BY <1>7, TypeBegin, Zenon DEF UpdateAll, RegistryAliases
<1>8. CASE UpdateRefused
  <2>1. cmd'.op # "add"
    <3>1. cmd' = [op |-> "update all"] \/ \E a \in Aliases : cmd' = [op |-> "update", alias |-> a]
      BY <1>8, Zenon DEF UpdateRefused
    <3>2. CASE cmd' = [op |-> "update all"]
      BY <3>2, Zenon
    <3>3. ASSUME NEW a \in Aliases, cmd' = [op |-> "update", alias |-> a] PROVE cmd'.op # "add"
      BY <3>3
    <3> QED  BY <3>1, <3>2, <3>3, Zenon
  <2> QED  BY <1>8, <2>1, Zenon DEF UpdateRefused, End, TypeInv, world, project
<1>9. CASE Check
  BY <1>9, TypeBegin DEF Check
<1>10. CASE SelectRoot
  BY <1>10 DEF SelectRoot, Turn, TypeInv, world, project, ghosts
<1>11. CASE SelectBelow
  BY <1>11 DEF SelectBelow, Turn, TypeInv, world, project, ghosts
<1>12. CASE Copy
  BY <1>12 DEF Copy, TypeInv, world, copying, ghosts
<1>13. CASE CopySources
  BY <1>13 DEF CopySources, TypeInv, world, copying, ghosts
<1>14. CASE Pin
  BY <1>14 DEF Pin, AfterCopying, Turn, TypeInv, world, ghosts
<1>15. CASE CopyFails
  BY <1>15 DEF CopyFails, End, TypeInv, world, project, ghosts
<1>16. CASE WriteManifest
  <2>1. cmd.op = "add" /\ cmd.spec \in Specs
    BY <1>16, Zenon DEF WriteManifest, RestoreInv, TypeInv
  <2>2. DepsOK(Set(manifest.deps, cmd.alias, cmd.spec)) /\ DepsOK(TornManifest.deps)
    BY <2>1, DepsSet, DepsTorn DEF TypeInv
  <2>3. DepsOK(manifest'.deps) /\ pc' \in {"sync", "idle"}
    BY <1>16, <2>2, SMTT(20) DEF WriteManifest, End, TypeInv
  <2> QED  BY <1>16, <2>3 DEF WriteManifest, TypeInv, world, ghosts
<1>17. CASE RemoveLock
  BY <1>17 DEF RemoveLock, TypeInv, world, ghosts
<1>18. CASE Sync
  BY <1>18, Zenon DEF Sync, Walk, Recover, End, TypeInv, world, ghosts
<1>19. CASE Visit
  BY <1>19 DEF Visit, TypeInv, world, ghosts
<1>20. CASE VisitFails
  BY <1>20, Zenon DEF VisitFails, Recover, End, TypeInv, world, project, ghosts
<1>21. CASE WriteLock
  BY <1>21, Zenon DEF WriteLock, Recover, End, TypeInv, world, ghosts
<1>22. CASE RestoreManifest
  <2>1. DepsOK(manifest'.deps)
    BY <1>22, DepsTorn, Zenon DEF RestoreManifest, TypeInv
  <2> QED  BY <1>22, <2>1, Zenon DEF RestoreManifest, End, TypeInv, world, ghosts
<1>23. CASE RestoreLock
  BY <1>23, Zenon DEF RestoreLock, End, TypeInv, world
<1>24. CASE Load
  BY <1>24, Zenon DEF Load, Walk, TypeInv, world, ghosts
<1>25. CASE Run
  BY <1>25 DEF Run, End, TypeInv, world, project
<1>26. CASE Kill
  BY <1>26, Zenon DEF Kill, End, TypeInv, world, project
<1> QED  BY <1>1, <1>2, <1>3, <1>4, <1>5, <1>6, <1>7, <1>8, <1>9, <1>10, <1>11, <1>12, <1>13, <1>14, <1>15,
            <1>16, <1>17, <1>18, <1>19, <1>20, <1>21, <1>22, <1>23, <1>24, <1>25, <1>26 DEF Next

(***************************************************************************)
(* The local store is closed.                                              *)
(***************************************************************************)

\* A number for each package, above those of its registry dependencies
Rank ==
  CHOOSE rank \in [Names -> Nat] :
    \A p \in Names : \A a \in DOMAIN DepsOf[p] :
      DepsOf[p][a].from = "registry" => rank[DepsOf[p][a].name] < rank[p]

AliasesBelow == UNION {DOMAIN DepsOf[p] : p \in Names}
Calls ==
  [name : Names, version : Versions, left : SUBSET AliasesBelow,
   pins : UNION {[A -> Specs] : A \in SUBSET AliasesBelow}]

\* A call is for a version that is published and has registry dependencies.
CallOK(c) ==
  /\ KeyOf(c) \in DOMAIN registry
  /\ c.left \subseteq DOMAIN DepsOf[c.name]
  /\ c.pins \in [DOMAIN DepsOf[c.name] -> Specs]
  /\ \A a \in DOMAIN DepsOf[c.name] : c.pins[a].from = "registry" /\ c.pins[a].name = DepsOf[c.name][a].name

\* The call has selected a version in K for a dependency.
Chosen(c, a, K) ==
  \E v \in DepsOf[c.name][a].need :
    c.pins[a].need = {v} /\ <<DepsOf[c.name][a].name, v>> \in K

\* What is in the store when the i-th call goes on
StoredFor(i) == DOMAIN store \cup (IF i < Len(stack) THEN {KeyOf(stack[i + 1])} ELSE {})

\* Packages with dependencies among the packages S
DepsIn(deps, S) ==
  \A a \in DOMAIN deps :
    deps[a] \in Specs /\ deps[a].from = "registry" /\ \E v \in deps[a].need : <<deps[a].name, v>> \in S
Closed(packages) == \A k \in DOMAIN packages : DepsIn(packages[k].deps, DOMAIN packages)

\* Each call on the stack is for a dependency of the one before; what a call
\* has selected is in the store, or is what the next call is for; and so is
\* what has been visited in the store or on the stack.
StackInv ==
  /\ stack \in Seq(Calls)
  /\ pc \notin Copies => stack = <<>>
  /\ DOMAIN store \subseteq DOMAIN registry
  /\ \A i \in 1..Len(stack) : CallOK(stack[i])
  /\ \A i, j \in 1..Len(stack) : i < j => Rank[stack[j].name] < Rank[stack[i].name]
  /\ \A i \in 1..Len(stack) : \A a \in DOMAIN DepsOf[stack[i].name] \ stack[i].left :
       Chosen(stack[i], a, StoredFor(i))
  /\ \A k \in visited : k \in DOMAIN store \/ \E i \in 1..Len(stack) : k = KeyOf(stack[i])
  /\ pc \in {"copy", "sources", "pin"} => stack # <<>> /\ Top.left = {}
  /\ pc \in {"sources", "pin"} => KeyOf(Top) \in DOMAIN store
  /\ Closed(store)

\* Such numbers exist, as no registry dependency leads back.
LEMMA RankIs ==
  /\ Rank \in [Names -> Nat]
  /\ \A p \in Names : \A a \in DOMAIN DepsOf[p] :
       DepsOf[p][a].from = "registry" => Rank[DepsOf[p][a].name] < Rank[p]
<1>1. \E rank \in [Names -> Nat] :
        \A p \in Names : \A a \in DOMAIN DepsOf[p] :
          DepsOf[p][a].from = "registry" => rank[DepsOf[p][a].name] < rank[p]
  <2>1. PICK rank \in [Names -> 0..Cardinality(Names)] :
          \A p \in Names : \A a \in DOMAIN DepsOf[p] :
            DepsOf[p][a].from = "registry" => rank[DepsOf[p][a].name] < rank[p]
    BY AcyclicAssumption
  <2>2. \A p \in Names : rank[p] \in Nat
    OBVIOUS
  <2>3. rank \in [Names -> Nat]
    BY <2>2
  <2> QED  BY <2>1, <2>3
<1> QED  BY <1>1 DEF Rank

\* resolve_registry_version_from_source_registry returns a published version
\* that satisfies the requirement.
LEMMA NewestIs ==
  ASSUME TypeInv, NEW spec \in Specs, Newest(spec) # 0
  PROVE  Newest(spec) \in spec.need /\ <<spec.name, Newest(spec)>> \in DOMAIN registry
<1> DEFINE versions == {v \in spec.need : <<spec.name, v>> \in DOMAIN registry}
<1>1. versions # {} /\ Newest(spec) = Max(versions)
  BY DEF Newest
<1>2. spec.need \in SUBSET Nat
  BY DEF Specs
<1>5. IsFiniteSet(DOMAIN registry)
  BY DEF TypeInv
<1>3. \A v \in versions : v \in spec.need /\ <<spec.name, v>> \in DOMAIN registry
  OBVIOUS
<1>4. Max(versions) \in versions
  <2> HIDE DEF versions
  <2> QED  BY <1>1, <1>2, <1>3, <1>5, HighestIs, Zenon
<1> QED  BY <1>1, <1>4

\* A new call has all its dependencies to call for.
LEMMA CallIs ==
  ASSUME TypeInv, NEW p, NEW v, <<p, v>> \in DOMAIN registry
  PROVE  /\ p \in Names /\ Call(p, v) \in Calls /\ CallOK(Call(p, v))
         /\ Call(p, v).name = p /\ KeyOf(Call(p, v)) = <<p, v>>
         /\ Call(p, v).left = DOMAIN DepsOf[p]
<1>1. p \in Names /\ v \in Versions /\ Publishable(p)
  BY DEF TypeInv
<1>2. DepsOf[p] \in [DOMAIN DepsOf[p] -> Specs] /\ DOMAIN DepsOf[p] \in SUBSET AliasesBelow
  BY <1>1, DepsAssumption DEF AliasesBelow
<1>3. RegistryAliases(DepsOf[p]) = DOMAIN DepsOf[p]
  BY <1>1 DEF RegistryAliases, Publishable
<1>4. DepsOf[p] \in UNION {[A -> Specs] : A \in SUBSET AliasesBelow}
  BY <1>2
<1>5. Call(p, v) = [name |-> p, version |-> v, left |-> DOMAIN DepsOf[p], pins |-> DepsOf[p]]
  BY <1>3 DEF Call
<1>6. Call(p, v) \in Calls
  BY <1>1, <1>2, <1>4, <1>5 DEF Calls
<1>7. CallOK(Call(p, v))
  BY <1>1, <1>2, <1>5 DEF CallOK, KeyOf, Publishable
<1> QED  BY <1>1, <1>5, <1>6, <1>7 DEF KeyOf

\* At the start the store is empty.
LEMMA StackInitially == Init => StackInv
<1> SUFFICES ASSUME Init PROVE StackInv
  OBVIOUS
<1>1. stack = <<>> /\ DOMAIN store = {} /\ visited = {} /\ pc = "idle" /\ stack \in Seq(Calls) /\ Len(stack) = 0
  BY DEF Init
<1>2. Closed(store) /\ DOMAIN store \subseteq DOMAIN registry
  BY <1>1 DEF Closed
<1>3. 1..Len(stack) = {} /\ pc \notin {"copy", "sources", "pin"}
  BY <1>1
<1> QED  BY <1>1, <1>2, <1>3 DEF StackInv

\* A command ends.
LEMMA StackEnd ==
  ASSUME StackInv, UNCHANGED <<registry, store>>, stack' = <<>>, visited' = {}, pc' \notin Copies
  PROVE  StackInv'
<1>1. stack' \in Seq(Calls) /\ Len(stack') = 0
  OBVIOUS
<1>2. Closed(store)'
  BY Zenon DEF StackInv, Closed, DepsIn
<1> QED  BY <1>1, <1>2 DEF StackInv, Copies

\* A step that is not about copying
LEMMA StackSame ==
  ASSUME StackInv, UNCHANGED <<store, stack, visited>>, DOMAIN registry \subseteq DOMAIN registry',
         \/ pc' = pc
         \/ pc \notin Copies /\ pc' \notin {"copy", "sources", "pin"}
  PROVE  StackInv'
<1>1. \A i \in 1..Len(stack) : CallOK(stack[i])'
  BY Zenon DEF StackInv, CallOK
<1>2. \A i \in 1..Len(stack) : StoredFor(i)' = StoredFor(i)
  BY DEF StoredFor
<1>3. (\A i \in 1..Len(stack) : \A a \in DOMAIN DepsOf[stack[i].name] \ stack[i].left :
         Chosen(stack[i], a, StoredFor(i)))'
  <2> SUFFICES ASSUME NEW i \in 1..Len(stack'), NEW a \in DOMAIN DepsOf[stack'[i].name] \ stack'[i].left
               PROVE  Chosen(stack'[i], a, StoredFor(i)')
    BY DEF Chosen
  <2> QED  BY <1>2, Zenon DEF StackInv
<1>4. pc' \notin Copies => stack' = <<>>
  BY DEF StackInv, Copies
<1>5. (\A k \in visited : k \in DOMAIN store \/ \E i \in 1..Len(stack) : k = KeyOf(stack[i]))'
  BY SMTT(20) DEF StackInv, KeyOf
<1>6. /\ (pc \in {"copy", "sources", "pin"} => stack # <<>> /\ Top.left = {})'
      /\ (pc \in {"sources", "pin"} => KeyOf(Top) \in DOMAIN store)'
  BY Zenon DEF StackInv, KeyOf, Top
<1>7. Closed(store)'
  BY Zenon DEF StackInv, Closed, DepsIn
<1>8. stack' \in Seq(Calls) /\ DOMAIN store' \subseteq DOMAIN registry'
  BY DEF StackInv
<1>9. \A i, j \in 1..Len(stack') : i < j => Rank[stack'[j].name] < Rank[stack'[i].name]
  BY Zenon DEF StackInv
<1>10. (\A i \in 1..Len(stack) : CallOK(stack[i]))'
  BY <1>1, Zenon DEF CallOK, KeyOf
<1> QED  BY <1>3, <1>4, <1>5, <1>6, <1>7, <1>8, <1>9, <1>10, Zenon DEF StackInv

\* The first call
LEMMA StackRoot ==
  ASSUME TypeInv, StackInv, SelectRoot
  PROVE  StackInv'
<1>1. PICK a \in queue :
        LET spec == IF cmd.op = "add" THEN cmd.spec ELSE manifest.deps[a]
        IN  /\ Newest(spec) # 0
            /\ visited' = {<<spec.name, Newest(spec)>>}
            /\ stack' = <<Call(spec.name, Newest(spec))>>
  BY Zenon DEF SelectRoot
<1> DEFINE spec == IF cmd.op = "add" THEN cmd.spec ELSE manifest.deps[a]
           k == <<spec.name, Newest(spec)>>
           call == Call(spec.name, Newest(spec))
<1>2. spec \in Specs
  BY DEF TypeInv, SelectRoot, Copies, DepsOK
<1>3. Newest(spec) # 0 /\ visited' = {k} /\ stack' = <<call>>
  BY <1>1
<1> HIDE DEF spec
<1>4. k \in DOMAIN registry
  BY <1>2, <1>3, NewestIs, Zenon
<1>5. spec.name \in Names /\ call \in Calls /\ CallOK(call) /\ call.name = spec.name /\ KeyOf(call) = k
      /\ call.left = DOMAIN DepsOf[spec.name]
  BY <1>4, CallIs
<1> HIDE DEF call, k
<1>6. stack' \in Seq(Calls) /\ Len(stack') = 1 /\ stack'[1] = call
  BY <1>3, <1>5
<1>7. UNCHANGED <<registry, store>> /\ pc' \in {"select", "copy"} /\ pc = "select"
      /\ (pc' = "copy" => stack' # <<>> /\ Top'.left = {})
  BY Zenon DEF SelectRoot, Turn, world, project, Top
<1>8. (\A i \in 1..Len(stack) : CallOK(stack[i]))'
  BY <1>5, <1>6, <1>7 DEF CallOK
<1>9. (\A i \in 1..Len(stack) : \A b \in DOMAIN DepsOf[stack[i].name] \ stack[i].left :
         Chosen(stack[i], b, StoredFor(i)))'
  BY <1>5, <1>6 DEF Chosen
<1>10. (\A x \in visited : x \in DOMAIN store \/ \E i \in 1..Len(stack) : x = KeyOf(stack[i]))'
  BY <1>3, <1>5, <1>6 DEF KeyOf
<1>11. \A i, j \in 1..Len(stack') : i < j => Rank[stack'[j].name] < Rank[stack'[i].name]
  BY <1>6, SMTT(20)
<1>12. Closed(store)'
  BY <1>7 DEF StackInv, Closed, DepsIn
<1> QED  BY <1>6, <1>7, <1>8, <1>9, <1>10, <1>11, <1>12, Zenon DEF StackInv, Copies

\* What becomes of the innermost call when it has selected a version
Pinned(c, a, v) ==
  [name |-> c.name, version |-> c.version, left |-> c.left \ {a},
   pins |-> [c.pins EXCEPT ![a] = [c.pins[a] EXCEPT !.need = {v}]]]

\* It is what SelectBelow puts on the stack,
LEMMA PinnedForm ==
  ASSUME NEW c \in Calls, NEW a, NEW v
  PROVE  [c EXCEPT !.left = @ \ {a}, !.pins[a].need = {v}] = Pinned(c, a, v)
<1>1. c = [name |-> c.name, version |-> c.version, left |-> c.left, pins |-> c.pins]
  BY DEF Calls
<1> DEFINE d == [c EXCEPT !.left = @ \ {a}]
           pins == [c.pins EXCEPT ![a] = [c.pins[a] EXCEPT !.need = {v}]]
<1>2. d = [name |-> c.name, version |-> c.version, left |-> c.left \ {a}, pins |-> c.pins]
  BY <1>1
<1>3. d.pins = c.pins
  BY <1>2
<1>4. [d EXCEPT !.pins = pins] = [name |-> c.name, version |-> c.version, left |-> c.left \ {a}, pins |-> pins]
  <2> HIDE DEF d, pins
  <2> QED  BY <1>2
<1>5. [d EXCEPT !.pins[a].need = {v}] = [d EXCEPT !.pins = pins]
  <2> HIDE DEF d
  <2> QED  BY <1>3, Zenon
<1>6. [c EXCEPT !.left = @ \ {a}, !.pins[a].need = {v}] = [d EXCEPT !.pins[a].need = {v}]
  BY Zenon
<1> QED  BY <1>4, <1>5, <1>6, Zenon DEF Pinned

\* and it differs from the call it was in that one alias.
LEMMA PinnedIs ==
  ASSUME NEW c \in Calls, CallOK(c), NEW a \in c.left, NEW v \in Nat
  PROVE  /\ Pinned(c, a, v) \in Calls /\ CallOK(Pinned(c, a, v))
         /\ Pinned(c, a, v).name = c.name /\ KeyOf(Pinned(c, a, v)) = KeyOf(c)
         /\ Pinned(c, a, v).left = c.left \ {a}
         /\ Pinned(c, a, v).pins[a].need = {v}
         /\ \A b \in DOMAIN DepsOf[c.name] \ {a} : Pinned(c, a, v).pins[b] = c.pins[b]
<1> DEFINE pins == [c.pins EXCEPT ![a] = [c.pins[a] EXCEPT !.need = {v}]]
<1>1. c.name \in Names /\ c.version \in Versions /\ c.left \in SUBSET AliasesBelow
  BY DEF Calls
<1>2. Pinned(c, a, v) = [name |-> c.name, version |-> c.version, left |-> c.left \ {a}, pins |-> pins]
  BY DEF Pinned
<1>3. a \in DOMAIN DepsOf[c.name] /\ c.pins \in [DOMAIN DepsOf[c.name] -> Specs]
      /\ DOMAIN DepsOf[c.name] \in SUBSET AliasesBelow
  BY <1>1 DEF CallOK, AliasesBelow
<1>4. c.pins[a] \in Specs
  BY <1>3
<1>5. [c.pins[a] EXCEPT !.need = {v}] \in Specs
  BY <1>4 DEF Specs
<1>6. pins \in [DOMAIN DepsOf[c.name] -> Specs]
  BY <1>3, <1>5
<1>7. pins[a] = [c.pins[a] EXCEPT !.need = {v}] /\ \A b \in DOMAIN DepsOf[c.name] \ {a} : pins[b] = c.pins[b]
  BY <1>3
<1>8. pins[a].need = {v} /\ pins[a].from = c.pins[a].from /\ pins[a].name = c.pins[a].name
  BY <1>4, <1>7 DEF Specs
<1> HIDE DEF pins
<1>9. Pinned(c, a, v) \in Calls
  BY <1>1, <1>2, <1>3, <1>6 DEF Calls
<1>10. \A b \in DOMAIN DepsOf[c.name] : pins[b].from = "registry" /\ pins[b].name = DepsOf[c.name][b].name
  BY <1>7, <1>8, Zenon DEF CallOK
<1>11. /\ Pinned(c, a, v).name = c.name /\ Pinned(c, a, v).version = c.version
       /\ Pinned(c, a, v).left = c.left \ {a} /\ Pinned(c, a, v).pins = pins
  BY <1>2
<1>12. CallOK(Pinned(c, a, v))
  BY <1>6, <1>10, <1>11 DEF CallOK, KeyOf
<1> QED  BY <1>7, <1>8, <1>9, <1>11, <1>12, Zenon DEF KeyOf

\* A call for a dependency: a visited version is in the store already, as a
\* version on the stack has a higher rank.
LEMMA StackBelow ==
  ASSUME TypeInv, StackInv, SelectBelow
  PROVE  StackInv'
<1>1. PICK a \in Top.left :
        LET spec == DepsOf[Top.name][a]
            v == Newest(spec)
            calls == [stack EXCEPT ![Len(stack)] = [Top EXCEPT !.left = @ \ {a}, !.pins[a].need = {v}]]
        IN  /\ v # 0
            /\ visited' = visited \cup {<<spec.name, v>>}
            /\ stack' = IF <<spec.name, v>> \in visited THEN calls ELSE Append(calls, Call(spec.name, v))
  BY Zenon DEF SelectBelow
<1> DEFINE n == Len(stack)
           c == stack[n]
           spec == DepsOf[c.name][a]
           v == Newest(spec)
           k == <<spec.name, v>>
           pinned == [c EXCEPT !.left = @ \ {a}, !.pins[a].need = {v}]
           calls == [stack EXCEPT ![n] = pinned]
           call == Call(spec.name, v)
<1>2. a \in c.left /\ v # 0 /\ visited' = visited \cup {k}
      /\ stack' = IF k \in visited THEN calls ELSE Append(calls, call)
  BY <1>1 DEF Top
<1>3. stack \in Seq(Calls) /\ stack # <<>> /\ n \in Nat /\ n # 0 /\ c \in Calls /\ CallOK(c)
  <2>1. stack \in Seq(Calls) /\ stack # <<>>
    BY DEF StackInv, SelectBelow
  <2>2. n \in 1..Len(stack)
    BY <2>1
  <2> QED  BY <2>1, <2>2 DEF StackInv
<1>4. c.name \in Names /\ a \in DOMAIN DepsOf[c.name] /\ spec \in Specs /\ spec.from = "registry"
  <2>1. c.name \in Names /\ a \in DOMAIN DepsOf[c.name]
    BY <1>2, <1>3 DEF Calls, CallOK
  <2>2. spec \in Specs
    BY <2>1, DepsAssumption, Zenon
  <2>3. Publishable(c.name)
    BY <1>3, Zenon DEF CallOK, TypeInv, KeyOf
  <2> QED  BY <2>1, <2>2, <2>3, Zenon DEF Publishable
<1>5. k \in DOMAIN registry /\ v \in spec.need /\ v \in Nat
  BY <1>2, <1>4, NewestIs, Zenon DEF Specs
<1>6. Rank[spec.name] < Rank[c.name] /\ spec.name \in Names
  BY <1>4, RankIs, SMTT(20) DEF Specs
<1> HIDE DEF v
<1>7. /\ pinned \in Calls /\ CallOK(pinned)
      /\ pinned.name = c.name /\ KeyOf(pinned) = KeyOf(c)
      /\ pinned.left = c.left \ {a}
      /\ pinned.pins[a].need = {v}
      /\ \A b \in DOMAIN DepsOf[c.name] \ {a} : pinned.pins[b] = c.pins[b]
  <2> HIDE DEF c
  <2>1. pinned = Pinned(c, a, v)
    BY <1>3, PinnedForm, Zenon
  <2> HIDE DEF pinned
  <2> QED  BY <1>2, <1>3, <1>5, <2>1, PinnedIs
<1>8. call \in Calls /\ CallOK(call) /\ call.name = spec.name /\ KeyOf(call) = k
      /\ call.left = DOMAIN DepsOf[spec.name]
  BY <1>5, CallIs, Zenon
<1> HIDE DEF pinned, call, spec, k, c
<1>9. calls \in Seq(Calls) /\ Len(calls) = n /\ calls[n] = pinned /\ \A i \in 1..n : i # n => calls[i] = stack[i]
  BY <1>3, <1>7
<1>10. \A i \in 1..n : calls[i].name = stack[i].name /\ KeyOf(calls[i]) = KeyOf(stack[i]) /\ CallOK(calls[i])
  BY <1>3, <1>7, <1>9, Zenon DEF StackInv, c
<1>11. \A i, j \in 1..n : i < j => Rank[calls[j].name] < Rank[calls[i].name]
  BY <1>10 DEF StackInv
<1>12. \A i \in 1..n : Rank[spec.name] < Rank[stack[i].name]
  <2> SUFFICES ASSUME NEW i \in 1..n PROVE Rank[spec.name] < Rank[stack[i].name]
    OBVIOUS
  <2>1. stack[i].name \in Names /\ c.name \in Names
    <3>1. stack[i] \in Calls
      BY <1>3
    <3> QED  BY <1>4, <3>1 DEF Calls
  <2>2. Rank[stack[i].name] \in Nat /\ Rank[c.name] \in Nat /\ Rank[spec.name] \in Nat
    BY <1>6, <2>1, RankIs
  <2>3. i = n \/ i < n
    BY <1>3
  <2>4. i # n => Rank[c.name] < Rank[stack[i].name]
    BY <1>3, <2>3 DEF StackInv, c
  <2> QED  BY <1>6, <2>2, <2>4 DEF c
<1>13. k \in visited => k \in DOMAIN store
  <2> SUFFICES ASSUME k \in visited, NEW i \in 1..n, k = KeyOf(stack[i]) PROVE FALSE
    BY DEF StackInv
  <2>1. spec.name = stack[i].name
    BY DEF k, KeyOf
  <2>2. Rank[spec.name] \in Nat
    BY <1>6, RankIs
  <2> QED  BY <1>12, <2>1, <2>2
<1>14. ASSUME NEW K, DOMAIN store \subseteq K, k \in K, NEW b \in DOMAIN DepsOf[c.name] \ pinned.left
       PROVE  Chosen(pinned, b, K)
  <2>1. CASE b = a
    BY <1>5, <1>7, <1>14, <2>1, Zenon DEF Chosen, spec, k
  <2>2. CASE b # a
    <3>1. b \in DOMAIN DepsOf[c.name] \ c.left
      BY <1>7, <2>2
    <3>2. StoredFor(n) = DOMAIN store
      <4>1. ~(n < Len(stack))
        BY <1>3
      <4> QED  BY <4>1 DEF StoredFor
    <3>3. Chosen(c, b, DOMAIN store)
      BY <1>3, <3>1, <3>2 DEF StackInv, c
    <3> QED  BY <1>7, <1>14, <2>2, <3>3 DEF Chosen
  <2> QED  BY <2>1, <2>2, Zenon
<1>15. \A i \in 1..n : i # n => i + 1 \in 1..n /\ StoredFor(i) = DOMAIN store \cup {KeyOf(calls[i + 1])}
  BY <1>3, <1>10 DEF StoredFor
<1>16. \A i \in 1..n : \A b \in DOMAIN DepsOf[calls[i].name] \ calls[i].left : i # n => Chosen(calls[i], b, StoredFor(i))
  BY <1>9, Zenon DEF StackInv
<1>17. UNCHANGED <<registry, store>> /\ pc' \in {"select", "copy"} /\ pc = "select"
       /\ (pc' = "copy" => stack' # <<>> /\ Top'.left = {})
  BY Zenon DEF SelectBelow, Turn, world, project, Top
<1> HIDE DEF n, calls
<1>20. Closed(store)'
  BY <1>17, Zenon DEF StackInv, Closed, DepsIn
<1>18. CASE k \in visited
  <2>1. stack' = calls /\ Len(stack') = n
    BY <1>2, <1>9, <1>18, Zenon
  <2>2. (\A i \in 1..Len(stack) : CallOK(stack[i]))'
    BY <1>10, <1>17, <2>1 DEF CallOK
  <2>3. (\A i \in 1..Len(stack) : \A b \in DOMAIN DepsOf[stack[i].name] \ stack[i].left :
           Chosen(stack[i], b, StoredFor(i)))'
    <3> SUFFICES ASSUME NEW i \in 1..n, NEW b \in DOMAIN DepsOf[calls[i].name] \ calls[i].left
                 PROVE  Chosen(calls[i], b, StoredFor(i)')
      BY <2>1 DEF Chosen
    <3>1. CASE i = n
      <4>1. StoredFor(i)' = DOMAIN store
        <5>1. ~(i < Len(stack'))
          BY <1>3, <2>1, <3>1
        <5> QED  BY <1>17, <5>1 DEF StoredFor
      <4>2. b \in DOMAIN DepsOf[c.name] \ pinned.left /\ calls[i] = pinned
        BY <1>7, <1>9, <3>1
      <4>3. Chosen(pinned, b, DOMAIN store)
        BY <1>13, <1>14, <1>18, <4>2, Zenon
      <4> QED  BY <4>1, <4>2, <4>3
    <3>2. CASE i # n
      <4>1. StoredFor(i)' = DOMAIN store \cup {KeyOf(calls[i + 1])}
        BY <1>3, <1>17, <2>1, <3>2 DEF StoredFor, KeyOf
      <4> QED  BY <1>15, <1>16, <3>2, <4>1, Zenon
    <3> QED  BY <3>1, <3>2
  <2>4. (\A x \in visited : x \in DOMAIN store \/ \E i \in 1..Len(stack) : x = KeyOf(stack[i]))'
    <3> SUFFICES ASSUME NEW x \in visited, x \notin DOMAIN store
                 PROVE  \E i \in 1..n : x = KeyOf(calls[i])
      BY <1>2, <1>17, <1>18, <2>1 DEF KeyOf
    <3> QED  BY <1>10 DEF StackInv, n
  <2>5. \A i, j \in 1..Len(stack') : i < j => Rank[stack'[j].name] < Rank[stack'[i].name]
    BY <1>11, <2>1
  <2>6. stack' \in Seq(Calls)
    BY <1>9, <2>1, Zenon
  <2> QED  BY <1>17, <1>20, <2>2, <2>3, <2>4, <2>5, <2>6 DEF StackInv, Copies
<1>19. CASE k \notin visited
  <2>1. stack' = Append(calls, call)
    BY <1>2, <1>19, Zenon
  <2>2. stack' \in Seq(Calls) /\ Len(stack') = n + 1 /\ stack'[n + 1] = call
        /\ \A i \in 1..n : stack'[i] = calls[i]
    BY <1>3, <1>8, <1>9, <2>1
  <2>3. \A i \in 1..(n + 1) : i \in 1..n \/ i = n + 1
    BY <1>3
  <2>4. (\A i \in 1..Len(stack) : CallOK(stack[i]))'
    <3> SUFFICES ASSUME NEW i \in 1..(n + 1) PROVE CallOK(stack'[i])
      BY <1>17, <2>2, Zenon DEF CallOK
    <3>1. CASE i \in 1..n
      BY <1>10, <2>2, <3>1
    <3>2. CASE i = n + 1
      BY <1>8, <2>2, <3>2, Zenon
    <3> QED  BY <2>3, <3>1, <3>2, Zenon
  <2>5. (\A i \in 1..Len(stack) : \A b \in DOMAIN DepsOf[stack[i].name] \ stack[i].left :
           Chosen(stack[i], b, StoredFor(i)))'
    <3> SUFFICES ASSUME NEW i \in 1..(n + 1), NEW b \in DOMAIN DepsOf[stack'[i].name] \ stack'[i].left
                 PROVE  Chosen(stack'[i], b, StoredFor(i)')
      BY <2>2, Zenon DEF Chosen
    <3>1. CASE i = n + 1
      BY <1>8, <2>2, <3>1, Zenon
    <3>2. CASE i = n
      <4>1. i < Len(stack') /\ i + 1 = n + 1 /\ i \in 1..n
        BY <1>3, <2>2, <3>2
      <4>2. StoredFor(i)' = DOMAIN store \cup {k}
        BY <1>8, <1>17, <2>2, <4>1, Zenon DEF StoredFor, KeyOf
      <4>3. b \in DOMAIN DepsOf[c.name] \ pinned.left /\ stack'[i] = pinned
        BY <1>7, <1>9, <2>2, <3>2, <4>1, Zenon
      <4>4. Chosen(pinned, b, DOMAIN store \cup {k})
        BY <1>14, <4>3, Zenon
      <4> QED  BY <4>2, <4>3, <4>4
    <3>3. CASE i # n /\ i # n + 1
      <4>1. i \in 1..n /\ i + 1 \in 1..n /\ i < Len(stack')
        BY <1>3, <2>2, <3>3
      <4>2. stack'[i] = calls[i] /\ stack'[i + 1] = calls[i + 1]
        BY <2>2, <4>1
      <4>3. StoredFor(i)' = DOMAIN store \cup {KeyOf(calls[i + 1])}
        BY <1>17, <4>1, <4>2, Zenon DEF StoredFor, KeyOf
      <4>4. Chosen(calls[i], b, StoredFor(i))
        BY <1>16, <3>3, <4>1, <4>2
      <4> QED  BY <1>15, <3>3, <4>1, <4>2, <4>3, <4>4, Zenon
    <3> QED  BY <3>1, <3>2, <3>3, Zenon
  <2>6. (\A x \in visited : x \in DOMAIN store \/ \E i \in 1..Len(stack) : x = KeyOf(stack[i]))'
    <3> SUFFICES ASSUME NEW x \in visited \cup {k}, x \notin DOMAIN store
                 PROVE  \E i \in 1..(n + 1) : x = KeyOf(stack'[i])
      BY <1>2, <1>17, <2>2 DEF KeyOf
    <3>1. CASE x = k
      BY <1>3, <1>8, <2>2, <3>1
    <3>2. CASE x \in visited
      <4>1. PICK i \in 1..n : x = KeyOf(stack[i])
        BY <3>2, Zenon DEF StackInv, n
      <4>2. i \in 1..(n + 1) /\ x = KeyOf(stack'[i])
        BY <1>3, <1>10, <2>2, <4>1, SMTT(20)
      <4> QED  BY <4>2, Zenon
    <3> QED  BY <3>1, <3>2, Zenon
  <2>7. \A i, j \in 1..Len(stack') : i < j => Rank[stack'[j].name] < Rank[stack'[i].name]
    <3> SUFFICES ASSUME NEW i \in 1..(n + 1), NEW j \in 1..(n + 1), i < j
                 PROVE  Rank[stack'[j].name] < Rank[stack'[i].name]
      BY <2>2
    <3>1. i \in 1..n
      BY <1>3
    <3>2. CASE j = n + 1
      BY <1>8, <1>10, <1>12, <2>2, <3>1, <3>2, Zenon
    <3>3. CASE j \in 1..n
      BY <1>11, <2>2, <3>1, <3>3
    <3> QED  BY <2>3, <3>2, <3>3
  <2> QED  BY <1>17, <1>20, <2>2, <2>4, <2>5, <2>6, <2>7 DEF StackInv, Copies
<1> QED  BY <1>18, <1>19

\* The innermost call has selected versions in the store.
LEMMA TopIs ==
  ASSUME TypeInv, StackInv, pc \in {"copy", "sources", "pin"}
  PROVE  /\ Len(stack) \in Nat \ {0} /\ Top \in Calls /\ CallOK(Top) /\ KeyOf(Top) \in DOMAIN registry
         /\ DepsIn(DepsOf[Top.name], DOMAIN store) /\ DepsIn(Top.pins, DOMAIN store)
<1>1. stack \in Seq(Calls) /\ stack # <<>> /\ Top.left = {}
  BY DEF StackInv
<1>2. Len(stack) \in Nat \ {0} /\ Len(stack) \in 1..Len(stack)
  BY <1>1
<1>3. Top \in Calls /\ CallOK(Top)
  BY <1>1, <1>2, SMTT(20) DEF StackInv, Top
<1>4. KeyOf(Top) \in DOMAIN registry /\ Publishable(Top.name)
  BY <1>3 DEF CallOK, KeyOf, TypeInv
<1>5. StoredFor(Len(stack)) = DOMAIN store
  <2>1. ~(Len(stack) < Len(stack))
    BY <1>2
  <2> QED  BY <2>1 DEF StoredFor
<1>6. \A a \in DOMAIN DepsOf[Top.name] : Chosen(Top, a, DOMAIN store)
  <2>1. \A a \in DOMAIN DepsOf[Top.name] \ Top.left : Chosen(Top, a, StoredFor(Len(stack)))
    BY <1>2, Zenon DEF StackInv, Top
  <2> QED  BY <1>1, <1>5, <2>1, Zenon
<1>10. DepsOf[Top.name] \in [DOMAIN DepsOf[Top.name] -> Specs]
  BY <1>3, DepsAssumption, Zenon DEF Calls
<1>7. DepsIn(DepsOf[Top.name], DOMAIN store)
  BY <1>4, <1>6, <1>10, Zenon DEF DepsIn, Chosen, Publishable
<1>8. Top.pins \in [DOMAIN DepsOf[Top.name] -> Specs]
      /\ \A a \in DOMAIN DepsOf[Top.name] : Top.pins[a].from = "registry" /\ Top.pins[a].name = DepsOf[Top.name][a].name
  BY <1>3, Zenon DEF CallOK
<1>9. DepsIn(Top.pins, DOMAIN store)
  <2> SUFFICES ASSUME NEW a \in DOMAIN DepsOf[Top.name]
               PROVE  \E v \in Top.pins[a].need : <<DepsOf[Top.name][a].name, v>> \in DOMAIN store
    BY <1>8, Zenon DEF DepsIn
  <2>1. PICK v \in DepsOf[Top.name][a].need : Top.pins[a].need = {v} /\ <<DepsOf[Top.name][a].name, v>> \in DOMAIN store
    BY <1>6 DEF Chosen
  <2> QED  BY <2>1
<1> QED  BY <1>2, <1>3, <1>4, <1>7, <1>9, Zenon

\* A closed store stays so when a package is put there with its dependencies.
LEMMA ClosedSet ==
  ASSUME NEW packages, Closed(packages), NEW k, NEW deps, NEW lib, DepsIn(deps, DOMAIN packages)
  PROVE  Closed(Set(packages, k, [deps |-> deps, lib |-> lib]))
<1> DEFINE new == Set(packages, k, [deps |-> deps, lib |-> lib])
<1>1. DOMAIN new = DOMAIN packages \cup {k}
      /\ \A x \in DOMAIN new : new[x] = IF x = k THEN [deps |-> deps, lib |-> lib] ELSE packages[x]
  BY Zenon DEF Set
<1> HIDE DEF new
<1>2. ASSUME NEW x \in DOMAIN new PROVE DepsIn(new[x].deps, DOMAIN packages)
  BY <1>1, <1>2, SMTT(20) DEF Closed
<1>3. \A x \in DOMAIN new : DepsIn(new[x].deps, DOMAIN new)
  BY <1>1, <1>2, Zenon DEF DepsIn
<1>4. Closed(new)
  BY <1>3 DEF Closed
<1> QED  BY <1>4, Zenon DEF new

\* A package comes into the store, or is overwritten there.
LEMMA StackStore ==
  ASSUME TypeInv, StackInv, pc \in {"copy", "sources"}, pc' \in {"sources", "pin"},
         UNCHANGED <<registry, stack, visited>>,
         NEW deps, NEW lib, DepsIn(deps, DOMAIN store),
         store' = Set(store, KeyOf(Top), [deps |-> deps, lib |-> lib])
  PROVE  StackInv'
<1>1. Len(stack) \in Nat \ {0} /\ Top \in Calls /\ CallOK(Top) /\ KeyOf(Top) \in DOMAIN registry
  BY TopIs
<1>2. DOMAIN store' = DOMAIN store \cup {KeyOf(Top)}
  BY Zenon DEF Set
<1>3. Closed(store)'
  <2>1. Closed(store')
    BY ClosedSet DEF StackInv
  <2> QED  BY <2>1, Zenon DEF Closed, DepsIn
<1>4. (\A i \in 1..Len(stack) : CallOK(stack[i]))'
  BY Zenon DEF StackInv, CallOK, KeyOf
<1>5. \A i \in 1..Len(stack) : StoredFor(i) \subseteq StoredFor(i)'
  BY <1>2, Zenon DEF StoredFor, KeyOf
<1>6. (\A i \in 1..Len(stack) : \A a \in DOMAIN DepsOf[stack[i].name] \ stack[i].left :
         Chosen(stack[i], a, StoredFor(i)))'
  <2> SUFFICES ASSUME NEW i \in 1..Len(stack), NEW a \in DOMAIN DepsOf[stack[i].name] \ stack[i].left
               PROVE  Chosen(stack[i], a, StoredFor(i)')
    BY Zenon DEF Chosen
  <2>1. Chosen(stack[i], a, StoredFor(i))
    BY Zenon DEF StackInv
  <2> QED  BY <1>5, <2>1, Zenon DEF Chosen
<1>7. (\A k \in visited : k \in DOMAIN store \/ \E i \in 1..Len(stack) : k = KeyOf(stack[i]))'
  BY <1>2, Zenon DEF StackInv, KeyOf
<1>8. stack' # <<>> /\ Top'.left = {} /\ KeyOf(Top)' \in DOMAIN store'
  BY <1>2, Zenon DEF StackInv, Top, KeyOf
<1>9. DOMAIN store' \subseteq DOMAIN registry' /\ stack' \in Seq(Calls)
  BY <1>1, <1>2, Zenon DEF StackInv
<1>10. \A i, j \in 1..Len(stack') : i < j => Rank[stack'[j].name] < Rank[stack'[i].name]
  BY Zenon DEF StackInv
<1> QED  BY <1>3, <1>4, <1>6, <1>7, <1>8, <1>9, <1>10, Zenon DEF StackInv, Copies

\* A call returns, with its dependencies pinned.
LEMMA StackPin ==
  ASSUME TypeInv, StackInv, Pin
  PROVE  StackInv'
<1> DEFINE n == Len(stack) - 1
<1>1. /\ Len(stack) \in Nat \ {0} /\ Top \in Calls /\ CallOK(Top) /\ KeyOf(Top) \in DOMAIN registry
      /\ DepsIn(Top.pins, DOMAIN store)
  BY TopIs, Zenon DEF Pin
<1>2. KeyOf(Top) \in DOMAIN store /\ UNCHANGED <<registry, visited>> /\ stack' = SubSeq(stack, 1, n)
      /\ store' = Set(store, KeyOf(Top), [deps |-> Top.pins, lib |-> store[KeyOf(Top)].lib])
      /\ stack \in Seq(Calls)
  BY Zenon DEF Pin, StackInv, world
<1>3. DOMAIN store' = DOMAIN store
  BY <1>2, Zenon DEF Set
<1>4. Closed(store)'
  <2>1. Closed(store')
    BY <1>1, <1>2, ClosedSet DEF StackInv
  <2> QED  BY <2>1 DEF Closed, DepsIn
<1>13. n \in Nat /\ Len(stack) = n + 1
  BY <1>1
<1> HIDE DEF n
<1>5. stack' \in Seq(Calls) /\ Len(stack') = n /\ \A i \in 1..n : stack'[i] = stack[i] /\ i \in 1..Len(stack)
  <2>1. 1..n \subseteq 1..Len(stack)
    BY <1>13
  <2>2. Len(stack') = n /\ \A i \in 1..n : stack'[i] = stack[i]
    BY <1>2, <1>13
  <2>3. stack' \in Seq(Calls)
    BY <1>2, <1>13
  <2> QED  BY <2>1, <2>2, <2>3
<1>6. (\A i \in 1..Len(stack) : CallOK(stack[i]))'
  <2> SUFFICES ASSUME NEW i \in 1..n PROVE CallOK(stack'[i])
    <3>1. registry' = registry /\ Len(stack') = n
      BY <1>2, <1>5
    <3> QED  BY <3>1, Zenon DEF CallOK, KeyOf
  <2> QED  BY <1>5 DEF StackInv
<1>7. \A i \in 1..n : StoredFor(i) \subseteq StoredFor(i)'
  <2> SUFFICES ASSUME NEW i \in 1..n PROVE StoredFor(i) \subseteq StoredFor(i)'
    OBVIOUS
  <2>1. CASE i = n
    <3>1. i + 1 = Len(stack) /\ ~(i < Len(stack'))
      BY <1>5, <1>13, <2>1
    <3>2. StoredFor(i) \subseteq DOMAIN store
      BY <1>2, <3>1 DEF StoredFor, Top
    <3> QED  BY <1>3, <3>2 DEF StoredFor
  <2>2. CASE i # n
    <3>1. i < Len(stack') /\ i < Len(stack) /\ stack'[i + 1] = stack[i + 1]
      BY <1>5, <1>13, <2>2
    <3> QED  BY <1>3, <3>1 DEF StoredFor, KeyOf
  <2> QED  BY <2>1, <2>2
<1>8. (\A i \in 1..Len(stack) : \A a \in DOMAIN DepsOf[stack[i].name] \ stack[i].left :
         Chosen(stack[i], a, StoredFor(i)))'
  <2> SUFFICES ASSUME NEW i \in 1..n, NEW a \in DOMAIN DepsOf[stack[i].name] \ stack[i].left
               PROVE  Chosen(stack[i], a, StoredFor(i)')
    BY <1>5, Zenon DEF Chosen
  <2>1. Chosen(stack[i], a, StoredFor(i))
    BY <1>5, Zenon DEF StackInv
  <2> QED  BY <1>7, <2>1, Zenon DEF Chosen
<1>9. (\A k \in visited : k \in DOMAIN store \/ \E i \in 1..Len(stack) : k = KeyOf(stack[i]))'
  <2> SUFFICES ASSUME NEW k \in visited, k \notin DOMAIN store
               PROVE  \E i \in 1..n : k = KeyOf(stack'[i])
    BY <1>2, <1>3, <1>5 DEF KeyOf
  <2>1. PICK i \in 1..Len(stack) : k = KeyOf(stack[i])
    BY DEF StackInv
  <2>2. i # Len(stack)
    BY <1>2, <2>1 DEF Top
  <2>3. i \in 1..n
    BY <1>13, <2>2
  <2> QED  BY <1>5, <2>1, <2>3
<1>10. \A i, j \in 1..Len(stack') : i < j => Rank[stack'[j].name] < Rank[stack'[i].name]
  BY <1>5 DEF StackInv
<1>11. /\ pc' \notin {"sources", "pin"}
       /\ pc' \notin Copies => stack' = <<>>
       /\ pc' = "copy" => stack' # <<>> /\ Top'.left = {}
  BY Zenon DEF Pin, Turn, AfterCopying, Copies, Top
<1>12. DOMAIN store' \subseteq DOMAIN registry'
  BY <1>2, <1>3, Zenon DEF StackInv
<1> QED  BY <1>4, <1>5, <1>6, <1>8, <1>9, <1>10, <1>11, <1>12, Zenon DEF StackInv

\* Every step keeps the store closed.
LEMMA StackStep == TypeInv /\ StackInv /\ [Next]_vars => StackInv'
<1> SUFFICES ASSUME TypeInv, StackInv, [Next]_vars PROVE StackInv'
  OBVIOUS
<1> USE DEF Copies, world, project, copying, walk, ghosts
<1>1. CASE UNCHANGED vars
  BY <1>1, StackSame DEF vars
<1>2. ASSUME NEW k \in setting.publishable, PublishManifest(k) \/ PublishSources(k) PROVE StackInv'
  <2>1. DOMAIN registry \subseteq DOMAIN registry' /\ pc' = pc /\ UNCHANGED <<store, stack, visited>>
    BY <1>2, Zenon DEF PublishManifest, PublishSources, Set
  <2> QED  BY <2>1, StackSame
<1>3. CASE Push
  BY <1>3, StackSame, Zenon DEF Push
<1>4. CASE Edit
  BY <1>4, StackSame, Zenon DEF Edit
<1>5. CASE Add
  BY <1>5, StackSame DEF Add, Begin
<1>6. CASE UpdateOne
  BY <1>6, StackSame DEF UpdateOne, Begin
<1>7. CASE UpdateAll
  BY <1>7, StackSame, Zenon DEF UpdateAll, Begin
<1>8. CASE UpdateRefused
  BY <1>8, StackEnd, Zenon DEF UpdateRefused, End
<1>9. CASE Check
  BY <1>9, StackSame DEF Check, Begin
<1>10. CASE SelectRoot
  BY <1>10, StackRoot
<1>11. CASE SelectBelow
  BY <1>11, StackBelow
<1>12. CASE Copy
  <2>1. DepsIn(DepsOf[Top.name], DOMAIN store)
    BY <1>12, TopIs, Zenon DEF Copy
  <2> QED  BY <1>12, <2>1, StackStore, Zenon DEF Copy
<1>13. CASE CopySources
  <2>1. DepsIn(store[KeyOf(Top)].deps, DOMAIN store)
    BY <1>13 DEF CopySources, StackInv, Closed
  <2> QED  BY <1>13, <2>1, StackStore, Zenon DEF CopySources
<1>14. CASE Pin
  BY <1>14, StackPin
<1>15. CASE CopyFails
  BY <1>15, StackEnd, Zenon DEF CopyFails, End
<1>16. CASE WriteManifest
  BY <1>16, StackEnd, StackSame DEF WriteManifest, End
<1>17. CASE RemoveLock
  BY <1>17, StackSame DEF RemoveLock
<1>18. CASE Sync
  BY <1>18, StackEnd, StackSame, Zenon DEF Sync, Walk, Recover, End
<1>19. CASE Visit
  BY <1>19, StackSame DEF Visit
<1>20. CASE VisitFails
  BY <1>20, StackEnd, StackSame, Zenon DEF VisitFails, Recover, End
<1>21. CASE WriteLock
  BY <1>21, StackEnd, StackSame, Zenon DEF WriteLock, Recover, End
<1>22. CASE RestoreManifest
  BY <1>22, StackEnd, StackSame, Zenon DEF RestoreManifest, End
<1>23. CASE RestoreLock
  BY <1>23, StackEnd, Zenon DEF RestoreLock, End
<1>24. CASE Load
  BY <1>24, StackSame DEF Load, Walk
<1>25. CASE Run
  BY <1>25, StackEnd DEF Run, End
<1>26. CASE Kill
  BY <1>26, StackEnd DEF Kill, End
<1> QED  BY <1>1, <1>2, <1>3, <1>4, <1>5, <1>6, <1>7, <1>8, <1>9, <1>10, <1>11, <1>12, <1>13, <1>14, <1>15,
            <1>16, <1>17, <1>18, <1>19, <1>20, <1>21, <1>22, <1>23, <1>24, <1>25, <1>26 DEF Next

\* The store never holds a package without a version, in the store, for each
\* of its registry dependencies: whatever copy fails or is killed, and however
\* often packages are selected again as new versions are published, because a
\* package is copied after the packages it depends on.
THEOREM StoreAlwaysClosed == Spec => []StoreClosed
<1>1. StackInv => StoreClosed
  BY DEF StackInv, Closed, DepsIn, StoreClosed
<1> QED  BY <1>1, RestoreInitially, RestoreStep, TypeInitially, TypeStep, StackInitially, StackStep, PTL DEF Spec

(***************************************************************************)
(* A package that a command has made ready loads without the network.      *)
(***************************************************************************)

\* What a specification is resolved to, if it is
Fits(spec, locked) == locked = Failed \/ DependencyMatches(spec, locked)
PlanOK(deps) == DOMAIN plan = DOMAIN deps /\ \A a \in DOMAIN deps : Fits(deps[a], plan[a])
LockOK == manifest.ok /\ lock.state = "ok" /\ LockMatches(manifest.deps, lock.deps)

\* A node is of a package there is.
IsPath(path) == \E S : path \in Seq(S)
IsNode(n) ==
  n = [path |-> n.path, locked |-> n.locked, active |-> n.active] /\ IsPath(n.path) /\ n.path # <<>>
Known(n) == IsNode(n) /\ (n.locked = Failed \/ n.locked.name \in Names)

\* A walk from deps: what is looked at can be loaded without the network, and
\* the packages below it are looked at or will be.
Walked(deps, nodes) ==
  /\ Roots(deps) \subseteq nodes
  /\ \A n \in reached : ~Refused(n, FALSE) /\ Below(n, FALSE) \subseteq nodes
Clean == \A n \in reached : n.locked # Failed

ReadyInv ==
  /\ pc # "idle" => result # "ok"
  /\ pc \in {"load", "collect"} => LockOK
  /\ pc \in {"validate", "collect"} =>
       /\ manifest.ok /\ PlanOK(manifest.deps)
       /\ \A n \in reached \cup todo : Known(n)
       /\ Clean => Walked(plan, reached \cup todo)
  /\ pc = "validate" => Clean
  /\ pc = "collect" => plan = lock.deps
  /\ result = "ok" => LockOK /\ Walked(lock.deps, reached)

\* A dependency is resolved to something that matches it.
LEMMA ResolveIs ==
  ASSUME TypeInv, StackInv, NEW spec \in Specs, NEW online \in BOOLEAN
  PROVE  Fits(spec, Resolve(spec, online))
<1> DEFINE versions == {v \in spec.need : <<spec.name, v>> \in DOMAIN store}
<1>1. spec.need \in SUBSET Nat /\ spec.from \in Sources
  BY DEF Specs
<1>2. CASE spec.from = "path"
  <2>1. Resolve(spec, online) = Locked(spec, 0)
    BY <1>2 DEF Resolve
  <2> QED  BY <1>2, <2>1 DEF Fits, DependencyMatches, Locked
<1>3. CASE spec.from = "git"
  <2>1. Resolve(spec, online) = IF online THEN Locked(spec, head) ELSE Failed
    BY <1>3, Zenon DEF Resolve
  <2> QED  BY <1>3, <2>1 DEF Fits, DependencyMatches, Locked
<1>4. CASE spec.from = "registry"
  <2>1. Resolve(spec, online) = IF versions = {} THEN Failed ELSE Locked(spec, Max(versions))
    BY <1>4, Zenon DEF Resolve
  <2>2. IsFiniteSet(DOMAIN store)
    BY FS_Subset DEF TypeInv, StackInv
  <2>3. \A v \in versions : v \in spec.need /\ <<spec.name, v>> \in DOMAIN store
    BY Zenon
  <2>4. versions # {} => Max(versions) \in versions
    <3> HIDE DEF versions
    <3> QED  BY <1>1, <2>2, <2>3, HighestIs, Zenon
  <2>5. versions # {} => Max(versions) \in spec.need
    BY <2>3, <2>4
  <2> HIDE DEF versions
  <2> QED  BY <1>4, <2>1, <2>5 DEF Fits, DependencyMatches, Locked
<1> QED  BY <1>1, <1>2, <1>3, <1>4 DEF Sources

\* Without git the network makes no difference.
LEMMA ResolveOffline ==
  ASSUME NEW spec, spec.from # "git", NEW online
  PROVE  Resolve(spec, online) = Resolve(spec, FALSE)
BY DEF Resolve

\* What could not be resolved cannot be loaded.
LEMMA FailedUnsound ==
  ASSUME NEW locked, NEW online, Sound(locked, online)
  PROVE  locked # Failed
<1>1. Failed.from = "failed"
  BY DEF Failed
<1>2. locked.from \in {"path", "git", "registry"}
  BY Zenon DEF Sound
<1> QED  BY <1>1, <1>2

\* A path gets longer.
LEMMA PathAppend ==
  ASSUME NEW path, IsPath(path), NEW a
  PROVE  /\ IsPath(Append(path, a)) /\ Append(path, a) # <<>>
         /\ Len(path) \in Nat /\ Len(Append(path, a)) = Len(path) + 1
         /\ path # <<>> => Append(path, a)[1] = path[1]
<1> DEFINE q == Append(path, a)
<1>1. PICK S : path \in Seq(S)
  BY DEF IsPath
<1> DEFINE T == S \cup {a}
<1>2. path \in Seq(T) /\ a \in T /\ Len(path) \in Nat
  BY <1>1
<1> HIDE DEF T
<1>3. q \in Seq(T) /\ Len(q) = Len(path) + 1 /\ \A i \in 1..Len(path) : q[i] = path[i]
  BY <1>2
<1> HIDE DEF q
<1>4. IsPath(q)
  BY <1>3 DEF IsPath
<1>5. q # <<>>
  BY <1>2, <1>3
<1>6. path # <<>> => 1 \in 1..Len(path)
  BY <1>1
<1> QED  BY <1>2, <1>3, <1>4, <1>5, <1>6 DEF q

\* The node of an alias
NodeOf(m, deps, path) == IsNode(m) /\ \E a \in DOMAIN deps : m.path = Append(path, a) /\ m.locked = deps[a]

\* A node of Nodes is one of its aliases.
LEMMA NodesAre ==
  ASSUME NEW deps, NEW path, IsPath(path), NEW active, NEW m \in Nodes(deps, path, active)
  PROVE  NodeOf(m, deps, path)
<1>1. PICK a \in DOMAIN deps : m = [path |-> Append(path, a), locked |-> deps[a], active |-> active]
  BY DEF Nodes
<1>2. m.path = Append(path, a) /\ m.locked = deps[a] /\ m.active = active
  BY <1>1
<1>3. m = [path |-> m.path, locked |-> m.locked, active |-> m.active]
  BY <1>1, <1>2
<1>4. IsPath(m.path) /\ m.path # <<>>
  BY <1>2, PathAppend
<1> QED  BY <1>2, <1>3, <1>4 DEF IsNode, NodeOf

\* And so is a node below another.
LEMMA BelowAre ==
  ASSUME NEW n, IsNode(n), NEW m \in Below(n, FALSE)
  PROVE  NodeOf(m, Transitive(n.locked, FALSE), n.path)
<1> DEFINE deps == Transitive(n.locked, FALSE)
           active == n.active \cup {n.locked}
           path == n.path
<1>1. m \in Nodes(deps, path, active)
  BY Zenon DEF Below
<1>2. IsPath(path)
  BY DEF IsNode
<1> HIDE DEF deps, active, path
<1>3. NodeOf(m, deps, path)
  BY <1>1, <1>2, NodesAre
<1> QED  BY <1>3, Zenon DEF deps, path

\* The packages below a node are the same with the network and without it.
LEMMA BelowOffline ==
  ASSUME NoNestedGit, TypeInv, StackInv, NEW n, Known(n), NEW online \in BOOLEAN, Sound(n.locked, online)
  PROVE  /\ Below(n, online) = Below(n, FALSE)
         /\ \A m \in Below(n, FALSE) : Known(m)
<1> DEFINE deps == IF n.locked.from = "registry" THEN store[n.locked.name, n.locked.at].deps ELSE DepsOf[n.locked.name]
<1>1. n.locked # Failed /\ n.locked.name \in Names
  BY FailedUnsound DEF Known
<1>2. \A a \in DOMAIN deps : deps[a] \in Specs /\ deps[a].from # "git"
  <2>1. CASE n.locked.from = "registry"
    <3>1. <<n.locked.name, n.locked.at>> \in DOMAIN store
      BY <2>1, Zenon DEF Sound
    <3> QED  BY <2>1, <3>1, Zenon DEF StackInv, Closed, DepsIn
  <2>2. CASE n.locked.from # "registry"
    BY <1>1, <2>2, DepsAssumption DEF NoNestedGit
  <2> QED  BY <2>1, <2>2, Zenon
<1>3. /\ Transitive(n.locked, online) = [a \in DOMAIN deps |-> Resolve(deps[a], online)]
      /\ Transitive(n.locked, FALSE) = [a \in DOMAIN deps |-> Resolve(deps[a], FALSE)]
  BY DEF Transitive
<1> HIDE DEF deps
<1>4. \A a \in DOMAIN deps : Resolve(deps[a], online) = Resolve(deps[a], FALSE)
  BY <1>2, ResolveOffline, Zenon
<1>5. Transitive(n.locked, online) = Transitive(n.locked, FALSE)
  BY <1>3, <1>4, Zenon
<1>6. Below(n, online) = Below(n, FALSE)
  BY <1>5 DEF Below
<1>7. ASSUME NEW m \in Below(n, FALSE) PROVE Known(m)
  <2>1. PICK a \in DOMAIN Transitive(n.locked, FALSE) :
          m.path = Append(n.path, a) /\ m.locked = Transitive(n.locked, FALSE)[a]
    BY <1>7, BelowAre, Zenon DEF Known, NodeOf
  <2>2. a \in DOMAIN deps /\ m.locked = Resolve(deps[a], FALSE)
    BY <1>3, <2>1, Zenon
  <2>3. Fits(deps[a], m.locked) /\ deps[a] \in Specs
    BY <1>2, <2>2, ResolveIs, Zenon
  <2>4. IsNode(m)
    BY <1>7, BelowAre, Zenon DEF Known, NodeOf
  <2> QED  BY <2>3, <2>4 DEF Fits, DependencyMatches, Known, Specs
<1> QED  BY <1>6, <1>7, Zenon

\* While the store stays, so do the packages below a node, and what can be
\* loaded without the network still can.
LEMMA StoreStays ==
  ASSUME store' = store, cached \subseteq cached', NEW n
  PROVE  /\ Below(n, FALSE)' = Below(n, FALSE)
         /\ ~Refused(n, FALSE) => ~Refused(n, FALSE)'
<1>2. Transitive(n.locked, FALSE)' = Transitive(n.locked, FALSE)
  BY DEF Transitive, Resolve, Locked, Failed
<1>3. Below(n, FALSE)' = Below(n, FALSE)
  BY <1>2, Zenon DEF Below, Nodes
<1>4. Sound(n.locked, FALSE) => Sound(n.locked, FALSE)'
  BY Zenon DEF Sound
<1> QED  BY <1>3, <1>4, Zenon DEF Refused

\* The steps outside of a walk
LEMMA ReadyQuiet ==
  ASSUME pc' \notin {"load", "validate", "collect"}, result' # "ok"
  PROVE  ReadyInv'
BY DEF ReadyInv

\* The steps of others
LEMMA ReadySame ==
  ASSUME ReadyInv, UNCHANGED <<manifest, lock, store, cached, pc, plan, todo, reached, result>>
  PROVE  ReadyInv'
<1>1. LockOK => LockOK'
  BY DEF LockOK, LockMatches, DependencyMatches
<1>2. PlanOK(manifest.deps) => PlanOK(manifest.deps)'
  BY DEF PlanOK, Fits, DependencyMatches, Failed
<1>3. (\A n \in reached \cup todo : Known(n)) => (\A n \in reached \cup todo : Known(n))'
  BY DEF Known, IsNode, IsPath, Failed
<1>4. Clean' = Clean
  BY DEF Clean, Failed
<1>5. Roots(plan)' = Roots(plan) /\ Roots(lock.deps)' = Roots(lock.deps)
  BY DEF Roots, Nodes
<1>6. \A n \in reached : Below(n, FALSE)' = Below(n, FALSE) /\ (~Refused(n, FALSE) => ~Refused(n, FALSE)')
  BY StoreStays, Zenon
<1>7. Walked(plan, reached \cup todo) => Walked(plan, reached \cup todo)'
  BY <1>5, <1>6, Zenon DEF Walked
<1>8. Walked(lock.deps, reached) => Walked(lock.deps, reached)'
  BY <1>5, <1>6, Zenon DEF Walked
<1> QED  BY <1>1, <1>2, <1>3, <1>4, <1>7, <1>8 DEF ReadyInv

\* A walk starts from dependencies that match the manifest.
LEMMA ReadyWalk ==
  ASSUME TypeInv, manifest.ok, NEW deps, NEW online \in BOOLEAN, NEW step, Walk(deps, online, step),
         UNCHANGED <<manifest, lock, store>>,
         DOMAIN deps = DOMAIN manifest.deps, \A a \in DOMAIN deps : Fits(manifest.deps[a], deps[a]),
         step = "validate" \/ (step = "collect" /\ LockOK /\ deps = lock.deps),
         result # "ok"
  PROVE  ReadyInv'
<1>1. pc' = step /\ plan' = deps /\ todo' = Roots(deps) /\ reached' = {} /\ result' = result
  BY DEF Walk
<1>2. manifest'.ok /\ PlanOK(manifest.deps)'
  BY <1>1 DEF PlanOK, Fits, DependencyMatches, Failed
<1>3. ASSUME NEW n \in Roots(deps) PROVE Known(n)
  <2>1. IsPath(<<>>)
    <3>1. <<>> \in Seq({})
      OBVIOUS
    <3> QED  BY <3>1, Zenon DEF IsPath
  <2>2. NodeOf(n, deps, <<>>)
    BY <1>3, <2>1, NodesAre DEF Roots
  <2>3. PICK a \in DOMAIN deps : n.locked = deps[a]
    BY <2>2 DEF NodeOf
  <2>4. manifest.deps[a] \in Specs
    BY <2>3 DEF TypeInv, DepsOK
  <2> QED  BY <2>2, <2>3, <2>4 DEF NodeOf, Known, Fits, DependencyMatches, Specs
<1>4. (\A n \in reached \cup todo : Known(n))'
  <2> SUFFICES ASSUME NEW n \in Roots(deps) PROVE Known(n)
    BY <1>1 DEF Known, IsNode, IsPath, Failed
  <2> QED  BY <1>3
<1>5. Clean' /\ Walked(plan, reached \cup todo)'
  <2>1. Roots(plan)' = Roots(deps)
    BY <1>1 DEF Roots, Nodes
  <2> QED  BY <1>1, <2>1 DEF Walked, Clean
<1>6. step = "collect" => LockOK' /\ plan' = lock'.deps
  BY <1>1 DEF LockOK, LockMatches, DependencyMatches
<1> QED  BY <1>1, <1>2, <1>4, <1>5, <1>6 DEF ReadyInv

\* A dependency that is not refused is visited.
LEMMA ReadyVisit ==
  ASSUME NoNestedGit, TypeInv, StackInv, ReadyInv, Visit
  PROVE  ReadyInv'
<1>1. PICK n \in todo, online \in BOOLEAN :
        /\ ~Refused(n, online)
        /\ reached' = reached \cup {n}
        /\ todo' = (todo \ {n}) \cup Below(n, online)
        /\ cached' = cached \cup Fetched({n} \cup Below(n, online), online)
  BY Zenon DEF Visit
<1>2. UNCHANGED <<manifest, lock, store, pc, plan, result>> /\ pc \in {"validate", "collect"}
  BY DEF Visit, world, copying, ghosts
<1>3. /\ manifest.ok /\ PlanOK(manifest.deps) /\ result # "ok"
      /\ \A m \in reached \cup todo : Known(m)
      /\ Clean => Walked(plan, reached \cup todo)
  BY <1>2 DEF ReadyInv
<1>4. Sound(n.locked, online) /\ n.locked \notin n.active /\ Known(n)
  BY <1>1, <1>3 DEF Refused
<1>5. Below(n, online) = Below(n, FALSE) /\ \A m \in Below(n, FALSE) : Known(m)
  BY <1>4, BelowOffline, Zenon
<1>6. cached \subseteq cached'
  BY <1>1
<1>7. \A m : Below(m, FALSE)' = Below(m, FALSE) /\ (~Refused(m, FALSE) => ~Refused(m, FALSE)')
  BY <1>2, <1>6, StoreStays, Zenon
<1>8. ~Refused(n, FALSE)'
  <2>1. n.locked.from = "git" => <<n.locked.name, n.locked.at>> \in cached'
    <3>1. CASE online = TRUE
      BY <1>1, <3>1, Zenon DEF Fetched
    <3>2. CASE online = FALSE
      BY <1>4, <1>6, <3>2 DEF Sound
    <3> QED  BY <3>1, <3>2, Zenon
  <2>2. Sound(n.locked, FALSE)'
    BY <1>2, <1>4, <2>1, Zenon DEF Sound
  <2> QED  BY <1>4, <2>2, Zenon DEF Refused
<1>9. (\A m \in reached \cup todo : Known(m))'
  <2> SUFFICES ASSUME NEW m \in reached' \cup todo' PROVE Known(m)
    BY DEF Known, IsNode, IsPath, Failed
  <2>1. m \in reached \cup todo \/ m \in Below(n, FALSE)
    BY <1>1, <1>5, Zenon
  <2> QED  BY <1>3, <1>5, <2>1, Zenon
<1>10. Clean' => Clean
  BY <1>1 DEF Clean
<1>11. Clean => Clean'
  <2>1. n.locked # Failed
    BY <1>4, FailedUnsound
  <2> QED  BY <1>1, <2>1 DEF Clean, Failed
<1>12. reached \cup todo \subseteq reached' \cup todo' /\ Below(n, FALSE) \subseteq reached' \cup todo'
  BY <1>1, <1>5, Zenon
<1>13. Clean' => Walked(plan, reached \cup todo)'
  <2> SUFFICES ASSUME Clean' PROVE Walked(plan, reached \cup todo)'
    OBVIOUS
  <2>1. Walked(plan, reached \cup todo)
    BY <1>3, <1>10
  <2>2. Roots(plan)' = Roots(plan)
    BY <1>2 DEF Roots, Nodes
  <2>3. \A m \in reached' : ~Refused(m, FALSE)' /\ Below(m, FALSE)' \subseteq reached' \cup todo'
    <3> SUFFICES ASSUME NEW m \in reached'
                 PROVE  ~Refused(m, FALSE)' /\ Below(m, FALSE)' \subseteq reached' \cup todo'
      BY Zenon
    <3>1. CASE m = n
      BY <1>7, <1>8, <1>12, <3>1, Zenon
    <3>2. CASE m \in reached
      <4>1. ~Refused(m, FALSE) /\ Below(m, FALSE) \subseteq reached \cup todo
        BY <2>1, <3>2, Zenon DEF Walked
      <4> QED  BY <1>7, <1>12, <4>1, Zenon
    <3> QED  BY <1>1, <3>1, <3>2, Zenon
  <2> QED  BY <1>12, <2>1, <2>2, <2>3, Zenon DEF Walked
<1>14. PlanOK(manifest.deps)' /\ (LockOK => LockOK')
  BY <1>2, <1>3 DEF PlanOK, Fits, DependencyMatches, Failed, LockOK, LockMatches
<1> QED  BY <1>2, <1>3, <1>9, <1>11, <1>13, <1>14 DEF ReadyInv

\* A refused one ends a validation; a load goes on, but will not succeed.
LEMMA ReadyRefused ==
  ASSUME ReadyInv, VisitFails
  PROVE  ReadyInv'
<1>1. CASE pc = "validate"
  <2>1. Recover
    BY <1>1 DEF VisitFails
  <2>2. pc' \in {"idle", "restore manifest", "restore lock"} /\ result' # "ok"
    BY <1>1, <2>1, Zenon DEF Recover, End, ReadyInv
  <2> QED  BY <2>2, ReadyQuiet, Zenon
<1>2. CASE pc = "collect"
  <2>1. PICK n \in todo : /\ reached' = reached \cup {[n EXCEPT !.locked = Failed]}
                          /\ todo' = todo \ {n}
                          /\ UNCHANGED <<pc, plan, result>>
    BY <1>2 DEF VisitFails, copying
  <2> DEFINE m == [n EXCEPT !.locked = Failed]
  <2>2. UNCHANGED <<manifest, lock>>
    BY DEF VisitFails, project
  <2>3. manifest.ok /\ PlanOK(manifest.deps) /\ LockOK /\ plan = lock.deps /\ result # "ok"
        /\ \A x \in reached \cup todo : Known(x)
    BY <1>2 DEF ReadyInv
  <2>4. m = [path |-> n.path, locked |-> Failed, active |-> n.active] /\ IsPath(n.path) /\ n.path # <<>>
    <3>1. n = [path |-> n.path, locked |-> n.locked, active |-> n.active] /\ IsPath(n.path) /\ n.path # <<>>
      BY <2>1, <2>3 DEF Known, IsNode
    <3> QED  BY <3>1
  <2>5. m.path = n.path /\ m.locked = Failed /\ m.active = n.active
    BY <2>4
  <2>6. m.locked = Failed /\ Known(m)
    BY <2>4, <2>5 DEF Known, IsNode
  <2>7. (\A x \in reached \cup todo : Known(x))'
    <3> SUFFICES ASSUME NEW x \in reached' \cup todo' PROVE Known(x)
      BY DEF Known, IsNode, IsPath, Failed
    <3> QED  BY <2>1, <2>3, <2>6
  <2>8. ~Clean'
    BY <2>1, <2>6, Zenon DEF Clean, Failed
  <2>9. PlanOK(manifest.deps)' /\ LockOK'
    BY <2>1, <2>2, <2>3 DEF PlanOK, Fits, DependencyMatches, Failed, LockOK, LockMatches
  <2> QED  BY <1>2, <2>1, <2>2, <2>3, <2>7, <2>8, <2>9 DEF ReadyInv
<1> QED  BY <1>1, <1>2 DEF VisitFails

\* After a walk with nothing left to look at, what it started from matches.
LEMMA PlanMatches ==
  ASSUME NEW deps, PlanOK(deps), todo = {}, Walked(plan, reached \cup todo)
  PROVE  LockMatches(deps, plan) /\ Walked(plan, reached)
<1>1. Walked(plan, reached)
  BY Zenon DEF Walked
<1>2. ASSUME NEW a \in DOMAIN deps PROVE DependencyMatches(deps[a], plan[a])
  <2> DEFINE n == [path |-> Append(<<>>, a), locked |-> plan[a], active |-> {}]
  <2>1. a \in DOMAIN plan /\ Fits(deps[a], plan[a])
    BY <1>2 DEF PlanOK
  <2>2. n \in Roots(plan)
    BY <2>1, Zenon DEF Roots, Nodes
  <2>3. Sound(n.locked, FALSE)
    <3> HIDE DEF n
    <3> QED  BY <1>1, <2>2, Zenon DEF Walked, Refused
  <2>4. n.locked # Failed
    <3> HIDE DEF n
    <3> QED  BY <2>3, FailedUnsound, Zenon
  <2>5. plan[a] # Failed
    BY <2>4
  <2> QED  BY <2>1, <2>5 DEF Fits
<1> QED  BY <1>1, <1>2 DEF LockMatches, PlanOK

\* The lockfile is written.
LEMMA ReadyWrite ==
  ASSUME ReadyInv, WriteLock
  PROVE  ReadyInv'
<1>1. /\ manifest.ok /\ PlanOK(manifest.deps) /\ result # "ok" /\ Clean /\ todo = {}
      /\ Walked(plan, reached \cup todo) /\ UNCHANGED <<manifest, store, cached>>
  BY DEF ReadyInv, WriteLock
<1>2. LockMatches(manifest.deps, plan) /\ Walked(plan, reached)
  BY <1>1, PlanMatches
<1>3. CASE lock' = LockOf(plan) /\ cmd.op = "check" /\ pc' = "load" /\ UNCHANGED result
  <2>1. lock'.deps = plan /\ lock'.state = "ok"
    BY <1>3 DEF LockOf
  <2>2. LockOK'
    BY <1>1, <1>2, <2>1 DEF LockOK, LockMatches, DependencyMatches
  <2> QED  BY <1>1, <1>3, <2>2 DEF ReadyInv
<1>4. CASE lock' = LockOf(plan) /\ End("ok")
  <2>1. lock'.deps = plan /\ lock'.state = "ok"
    BY <1>4 DEF LockOf
  <2>2. LockOK'
    BY <1>1, <1>2, <2>1 DEF LockOK, LockMatches, DependencyMatches
  <2>3. reached' = reached /\ pc' = "idle"
    BY <1>4 DEF End
  <2>4. Roots(lock.deps)' = Roots(plan)
    BY <2>1 DEF Roots, Nodes
  <2>5. \A n \in reached : Below(n, FALSE)' = Below(n, FALSE) /\ (~Refused(n, FALSE) => ~Refused(n, FALSE)')
    BY <1>1, StoreStays, Zenon
  <2>6. Walked(lock.deps, reached)'
    BY <1>2, <2>3, <2>4, <2>5, Zenon DEF Walked
  <2> QED  BY <2>2, <2>3, <2>6 DEF ReadyInv
<1>5. CASE Recover
  <2>1. pc' \in {"idle", "restore manifest", "restore lock"} /\ result' # "ok"
    BY <1>1, <1>5, Zenon DEF Recover, End
  <2> QED  BY <2>1, ReadyQuiet, Zenon
<1> QED  BY <1>3, <1>4, <1>5 DEF WriteLock

\* A load ends.
LEMMA ReadyRun ==
  ASSUME ReadyInv, Run
  PROVE  ReadyInv'
<1>1. /\ pc = "collect" /\ todo = {} /\ LockOK /\ plan = lock.deps /\ UNCHANGED <<manifest, lock, store, cached>>
      /\ PlanOK(manifest.deps) /\ (Clean => Walked(plan, reached \cup todo))
  BY DEF ReadyInv, Run, project
<1>2. CASE Clean
  <2>1. End("ok")
    BY <1>2 DEF Run, Clean
  <2>2. Walked(lock.deps, reached)
    BY <1>1, <1>2, Zenon DEF Walked
  <2>3. reached' = reached /\ pc' = "idle"
    BY <2>1 DEF End
  <2>4. Roots(lock.deps)' = Roots(lock.deps)
    BY <1>1 DEF Roots, Nodes
  <2>5. \A n \in reached : Below(n, FALSE)' = Below(n, FALSE) /\ (~Refused(n, FALSE) => ~Refused(n, FALSE)')
    BY <1>1, StoreStays, Zenon
  <2>6. Walked(lock.deps, reached)'
    BY <2>2, <2>3, <2>4, <2>5, Zenon DEF Walked
  <2>7. LockOK'
    BY <1>1 DEF LockOK, LockMatches, DependencyMatches
  <2> QED  BY <2>3, <2>6, <2>7 DEF ReadyInv
<1>3. CASE ~Clean
  <2>1. End("error")
    BY <1>3 DEF Run, Clean
  <2> QED  BY <2>1, ReadyQuiet DEF End
<1> QED  BY <1>2, <1>3

\* resolve_dependencies_for_manifest returns what matches the manifest.
LEMMA DependenciesFit ==
  ASSUME TypeInv, StackInv, NEW online \in BOOLEAN
  PROVE  /\ DOMAIN LockfileDependencies(manifest.deps, online) = DOMAIN manifest.deps
         /\ \A a \in DOMAIN manifest.deps : Fits(manifest.deps[a], LockfileDependencies(manifest.deps, online)[a])
<1>1. \A a \in DOMAIN manifest.deps : Fits(manifest.deps[a], Resolve(manifest.deps[a], online))
  BY ResolveIs DEF TypeInv, DepsOK
<1>2. LockMatches(manifest.deps, lock.deps) =>
        DOMAIN lock.deps = DOMAIN manifest.deps /\ \A a \in DOMAIN manifest.deps : Fits(manifest.deps[a], lock.deps[a])
  BY DEF LockMatches, Fits
<1> QED  BY <1>1, <1>2 DEF LockfileDependencies

\* And so does refresh_lockfile_dependency_for_manifest.
LEMMA RefreshFits ==
  ASSUME TypeInv, StackInv, NEW online \in BOOLEAN, NEW alias \in DOMAIN manifest.deps
  PROVE  /\ DOMAIN Refresh(manifest.deps, alias, online) = DOMAIN manifest.deps
         /\ \A a \in DOMAIN manifest.deps : Fits(manifest.deps[a], Refresh(manifest.deps, alias, online)[a])
<1>1. Fits(manifest.deps[alias], Resolve(manifest.deps[alias], online))
  BY ResolveIs DEF TypeInv, DepsOK
<1>2. CASE lock.state = "ok" /\ LockMatches(manifest.deps, lock.deps)
  <2>1. DOMAIN lock.deps = DOMAIN manifest.deps /\ \A a \in DOMAIN manifest.deps : Fits(manifest.deps[a], lock.deps[a])
    BY <1>2 DEF LockMatches, Fits
  <2>2. Refresh(manifest.deps, alias, online) = [lock.deps EXCEPT ![alias] = Resolve(manifest.deps[alias], online)]
    BY <1>2 DEF Refresh
  <2> QED  BY <1>1, <2>1, <2>2
<1>3. CASE ~(lock.state = "ok" /\ LockMatches(manifest.deps, lock.deps))
  BY <1>3, DependenciesFit DEF Refresh
<1> QED  BY <1>2, <1>3

\* The dependencies are resolved.
LEMMA ReadySync ==
  ASSUME TypeInv, StackInv, ReadyInv, Sync
  PROVE  ReadyInv'
<1>1. UNCHANGED <<manifest, lock, store>> /\ result # "ok"
  BY DEF Sync, ReadyInv
<1>2. PICK online \in BOOLEAN :
        IF manifest.ok /\ (pc = "refresh" => cmd.alias \in DOMAIN manifest.deps)
          THEN Walk(IF pc = "refresh" THEN Refresh(manifest.deps, cmd.alias, online)
                    ELSE LockfileDependencies(manifest.deps, online), online, "validate")
          ELSE Recover
  BY DEF Sync
<1>3. CASE manifest.ok /\ (pc = "refresh" => cmd.alias \in DOMAIN manifest.deps)
  <2> DEFINE deps == IF pc = "refresh" THEN Refresh(manifest.deps, cmd.alias, online)
                     ELSE LockfileDependencies(manifest.deps, online)
  <2>1. DOMAIN deps = DOMAIN manifest.deps /\ \A a \in DOMAIN manifest.deps : Fits(manifest.deps[a], deps[a])
    BY <1>3, DependenciesFit, RefreshFits
  <2>2. Walk(deps, online, "validate")
    BY <1>2, <1>3
  <2> HIDE DEF deps
  <2> QED  BY <1>1, <1>3, <2>1, <2>2, ReadyWalk
<1>4. CASE ~(manifest.ok /\ (pc = "refresh" => cmd.alias \in DOMAIN manifest.deps))
  <2>1. pc' \in {"idle", "restore manifest", "restore lock"} /\ result' # "ok"
    BY <1>1, <1>2, <1>4, Zenon DEF Recover, End
  <2> QED  BY <2>1, ReadyQuiet, Zenon
<1> QED  BY <1>3, <1>4

\* The lockfile is loaded.
LEMMA ReadyLoad ==
  ASSUME TypeInv, StackInv, ReadyInv, Load
  PROVE  ReadyInv'
<1>1. UNCHANGED <<manifest, lock, store>> /\ result # "ok" /\ LockOK
  BY DEF Load, ReadyInv
<1>2. PICK online \in BOOLEAN : Walk(LockfileDependencies(manifest.deps, online), online, "collect")
  BY DEF Load
<1> DEFINE deps == LockfileDependencies(manifest.deps, online)
<1>3. DOMAIN deps = DOMAIN manifest.deps /\ \A a \in DOMAIN manifest.deps : Fits(manifest.deps[a], deps[a])
  BY DependenciesFit
<1>4. deps = lock.deps /\ manifest.ok
  BY <1>1 DEF LockfileDependencies, LockOK
<1>5. Walk(deps, online, "collect")
  BY <1>2
<1> HIDE DEF deps
<1> QED  BY <1>1, <1>3, <1>4, <1>5, ReadyWalk

\* Every step keeps what a successful command has made ready.
LEMMA ReadyStep == ASSUME NoNestedGit, TypeInv, StackInv, ReadyInv, [Next]_vars PROVE ReadyInv'
<1> USE DEF Copies, world, project, copying, walk, ghosts
<1>1. CASE UNCHANGED vars
  BY <1>1, ReadySame DEF vars
<1>2. ASSUME NEW k \in setting.publishable, PublishManifest(k) \/ PublishSources(k) PROVE ReadyInv'
  BY <1>2, ReadySame DEF PublishManifest, PublishSources
<1>3. CASE Push
  BY <1>3, ReadySame DEF Push
<1>4. CASE Edit
  BY <1>4, ReadyQuiet DEF Edit
<1>5. CASE Add
  BY <1>5, ReadyQuiet DEF Add, Begin
<1>6. CASE UpdateOne
  BY <1>6, ReadyQuiet DEF UpdateOne, Begin
<1>7. CASE UpdateAll
  BY <1>7, ReadyQuiet, Zenon DEF UpdateAll, Begin
<1>8. CASE UpdateRefused
  BY <1>8, ReadyQuiet, Zenon DEF UpdateRefused, End
<1>9. CASE Check
  BY <1>9, ReadyQuiet, Zenon DEF Check, Begin
<1>10. CASE SelectRoot
  BY <1>10, ReadyQuiet DEF SelectRoot, Turn, ReadyInv
<1>11. CASE SelectBelow
  BY <1>11, ReadyQuiet, Zenon DEF SelectBelow, Turn, ReadyInv
<1>12. CASE Copy
  BY <1>12, ReadyQuiet, Zenon DEF Copy, ReadyInv
<1>13. CASE CopySources
  BY <1>13, ReadyQuiet DEF CopySources, ReadyInv
<1>14. CASE Pin
  BY <1>14, ReadyQuiet DEF Pin, Turn, AfterCopying, ReadyInv
<1>15. CASE CopyFails
  BY <1>15, ReadyQuiet DEF CopyFails, End
<1>16. CASE WriteManifest
  BY <1>16, ReadyQuiet DEF WriteManifest, End, ReadyInv
<1>17. CASE RemoveLock
  BY <1>17, ReadyQuiet DEF RemoveLock, ReadyInv
<1>18. CASE Sync
  BY <1>18, ReadySync
<1>19. CASE Visit
  BY <1>19, ReadyVisit
<1>20. CASE VisitFails
  BY <1>20, ReadyRefused
<1>21. CASE WriteLock
  BY <1>21, ReadyWrite
<1>22. CASE RestoreManifest
  BY <1>22, ReadyQuiet, Zenon DEF RestoreManifest, End, ReadyInv
<1>23. CASE RestoreLock
  BY <1>23, ReadyQuiet, Zenon DEF RestoreLock, End
<1>24. CASE Load
  BY <1>24, ReadyLoad
<1>25. CASE Run
  BY <1>25, ReadyRun
<1>26. CASE Kill
  BY <1>26, ReadyQuiet DEF Kill, End
<1> QED  BY <1>1, <1>2, <1>3, <1>4, <1>5, <1>6, <1>7, <1>8, <1>9, <1>10, <1>11, <1>12, <1>13, <1>14, <1>15,
            <1>16, <1>17, <1>18, <1>19, <1>20, <1>21, <1>22, <1>23, <1>24, <1>25, <1>26 DEF Next

\* When add, update or check has succeeded, the lockfile matches the manifest
\* and every package of the graph is vendored or checked out, whatever was
\* published, pushed, interrupted or unreachable before: a load needs no
\* network.  This is so where only the root has git dependencies, because
\* those of another package are resolved on every load.
THEOREM ReadyMeansOffline == ASSUME NoNestedGit PROVE Spec => []ReadyOffline
<1>1. Init => ReadyInv
  BY DEF Init, ReadyInv
<1>2. ReadyInv => ReadyOffline
  BY Zenon DEF ReadyInv, ReadyOffline, Walked, LockOK
<1>3. TypeInv /\ StackInv /\ ReadyInv /\ [Next]_vars => ReadyInv'
  BY ReadyStep
<1> QED  BY <1>1, <1>2, <1>3, RestoreInitially, RestoreStep, TypeInitially, TypeStep, StackInitially, StackStep,
            PTL DEF Spec

(***************************************************************************)
(* Two loads find the same packages below an alias nobody touched.         *)
(***************************************************************************)

RootOf(deps, a) == [path |-> Append(<<>>, a), locked |-> deps[a], active |-> {}]

\* The nodes a load finds are the direct dependencies and what is below them.
Grown == \A n \in reached \cup todo : n \in Roots(plan) \/ \E m \in reached : n \in Below(m, FALSE)

\* Below the alias a, the nodes of g are the ones a load of deps finds.
TreeUnder(g, deps, a) ==
  /\ a \in DOMAIN deps => RootOf(deps, a) \in g
  /\ \A n \in Under(g, a) :
       /\ IsNode(n) /\ Below(n, FALSE) \subseteq g
       /\ \/ a \in DOMAIN deps /\ n = RootOf(deps, a)
          \/ \E m \in Under(g, a) : n \in Below(m, FALSE)

\* The lockfile a command found, and what it may do when some alias is
\* untouched: load, or update another alias.
Base == IF pc = "idle" THEN lock ELSE before.lock
LockForm(l) == l.state = "ok" => l = LockOf(l.deps)

\* That lockfile matches the manifest, and the last load found what it leads
\* to below the untouched aliases.
Held ==
  /\ manifest.ok /\ Base.state = "ok" /\ LockMatches(manifest.deps, Base.deps)
  /\ \A a \in Aliases \ touched : TreeUnder(graph, Base.deps, a)

Calm ==
  /\ pc \in {"idle", "sync", "refresh", "validate", "load", "collect", "restore lock"}
  /\ pc # "idle" => cmd.op \in {"check", "update"}
  /\ pc # "idle" /\ cmd.op = "update" => cmd.alias \in touched
  /\ pc = "refresh" => cmd.op = "update"
  /\ Held
  /\ pc \in {"sync", "refresh", "validate", "load", "collect"} => lock = before.lock
  /\ pc \in {"validate", "collect"} /\ cmd.op = "check" => plan = lock.deps
  /\ pc = "validate" => DOMAIN plan = DOMAIN lock.deps /\ \A a \in DOMAIN plan \ touched : plan[a] = lock.deps[a]

GraphInv ==
  /\ LockForm(lock) /\ LockForm(before.lock)
  /\ pc \in {"validate", "collect"} /\ Clean => Grown
  /\ ~(Aliases \subseteq touched) => Calm

\* Loads that start from the same dependency find the same nodes: the
\* shortest path that only one of them has would end below a node of both.
LEMMA TreesEqual ==
  ASSUME NEW g, NEW h, NEW deps, NEW a, TreeUnder(g, deps, a), TreeUnder(h, deps, a)
  PROVE  Under(g, a) \subseteq Under(h, a)
<1> SUFFICES ASSUME ~(Under(g, a) \subseteq Under(h, a)) PROVE FALSE
  OBVIOUS
<1> DEFINE Odd == Under(g, a) \ Under(h, a)
           X == {Len(n.path) : n \in Odd}
<1>1. \A n \in Under(g, a) : IsNode(n) /\ Len(n.path) \in Nat
  <2> SUFFICES ASSUME NEW n \in Under(g, a) PROVE IsNode(n) /\ Len(n.path) \in Nat
    OBVIOUS
  <2>1. IsNode(n)
    BY Zenon DEF TreeUnder
  <2>2. IsPath(n.path)
    BY <2>1 DEF IsNode
  <2> QED  BY <2>1, <2>2, PathAppend
<1>2. X \in SUBSET Nat /\ X # {}
  BY <1>1, Zenon
<1>3. PICK k \in X : \A l \in X : k <= l
  <2> HIDE DEF X
  <2> QED  BY <1>2, LeastNumber
<1>4. PICK n \in Odd : k = Len(n.path)
  BY <1>3
<1>5. n \in g /\ n.path[1] = a
  BY <1>4 DEF Under
<1>6. CASE a \in DOMAIN deps /\ n = RootOf(deps, a)
  <2>1. n \in h
    BY <1>6 DEF TreeUnder
  <2> QED  BY <1>4, <1>5, <2>1 DEF Under
<1>7. ASSUME NEW m \in Under(g, a), n \in Below(m, FALSE) PROVE FALSE
  <2>1. IsNode(m) /\ IsPath(m.path)
    BY <1>1 DEF IsNode
  <2>2. NodeOf(n, Transitive(m.locked, FALSE), m.path)
    BY <1>7, <2>1, BelowAre, Zenon
  <2>3. PICK x : n.path = Append(m.path, x)
    BY <2>2 DEF NodeOf
  <2>4. Len(n.path) = Len(m.path) + 1 /\ Len(m.path) \in Nat
    BY <2>1, <2>3, PathAppend
  <2>5. m \in Under(h, a)
    <3>1. Len(m.path) \notin X
      <4> HIDE DEF X
      <4> QED  BY <1>3, <1>4, <2>4
    <3> QED  BY <3>1
  <2>6. n \in h
    BY <1>7, <2>5, Zenon DEF TreeUnder
  <2> QED  BY <1>4, <1>5, <2>6 DEF Under
<1> QED  BY <1>4, <1>6, <1>7, Zenon DEF TreeUnder

\* Only the one dependency matters.
LEMMA TreeMoves ==
  ASSUME NEW g, NEW d, NEW e, NEW a, TreeUnder(g, d, a),
         a \in DOMAIN d <=> a \in DOMAIN e, a \in DOMAIN d => d[a] = e[a]
  PROVE  TreeUnder(g, e, a)
<1>1. a \in DOMAIN d => RootOf(d, a) = RootOf(e, a)
  BY DEF RootOf
<1> QED  BY <1>1, Zenon DEF TreeUnder

\* A finished load has found what is below its dependencies.
LEMMA TreeReached ==
  ASSUME Walked(plan, reached), Grown, todo = {}, \A n \in reached : IsNode(n), NEW a
  PROVE  TreeUnder(reached, plan, a)
<1>1. a \in DOMAIN plan => RootOf(plan, a) \in reached
  BY DEF Walked, Roots, Nodes, RootOf
<1>2. ASSUME NEW n \in Under(reached, a)
      PROVE  (a \in DOMAIN plan /\ n = RootOf(plan, a)) \/ \E m \in Under(reached, a) : n \in Below(m, FALSE)
  <2>1. n \in reached /\ n.path[1] = a
    BY <1>2 DEF Under
  <2>2. CASE n \in Roots(plan)
    <3>1. PICK b \in DOMAIN plan : n = RootOf(plan, b)
      BY <2>2 DEF Roots, Nodes, RootOf
    <3>2. n.path = Append(<<>>, b)
      BY <3>1 DEF RootOf
    <3>3. n.path[1] = b
      BY <3>2
    <3> QED  BY <2>1, <3>1, <3>3, Zenon
  <2>3. ASSUME NEW m \in reached, n \in Below(m, FALSE) PROVE m \in Under(reached, a)
    <3>1. IsNode(m) /\ IsPath(m.path) /\ m.path # <<>>
      BY <2>3 DEF IsNode
    <3>2. NodeOf(n, Transitive(m.locked, FALSE), m.path)
      BY <2>3, <3>1, BelowAre, Zenon
    <3>3. PICK x : n.path = Append(m.path, x)
      BY <3>2 DEF NodeOf
    <3>4. n.path[1] = m.path[1]
      BY <3>1, <3>3, PathAppend
    <3> QED  BY <2>1, <2>3, <3>4 DEF Under
  <2> QED  BY <2>1, <2>2, <2>3, Zenon DEF Grown
<1>3. \A n \in Under(reached, a) : IsNode(n) /\ Below(n, FALSE) \subseteq reached
  BY Zenon DEF Under, Walked
<1> QED  BY <1>1, <1>2, <1>3, Zenon DEF TreeUnder

\* While the store stays, so does what a load finds.
LEMMA TreeNext ==
  ASSUME store' = store, cached \subseteq cached', NEW g, NEW deps, NEW a, TreeUnder(g, deps, a),
         graph' = g, Base'.deps = deps
  PROVE  TreeUnder(graph, Base.deps, a)'
<1>1. \A n : Below(n, FALSE)' = Below(n, FALSE)
  BY StoreStays, Zenon
<1>2. Under(graph, a)' = Under(g, a) /\ RootOf(Base.deps, a)' = RootOf(deps, a)
  BY DEF Under, RootOf
<1>3. \A n : IsNode(n)' = IsNode(n)
  BY DEF IsNode, IsPath
<1> QED  BY <1>1, <1>2, <1>3, Zenon DEF TreeUnder

\* Nothing a step does without copying disturbs what the last load found.
LEMMA HeldStays ==
  ASSUME UNCHANGED <<setting, manifest, store, graph>>, touched \subseteq touched', cached \subseteq cached',
         Base' = Base, Held
  PROVE  Held'
<1>1. Aliases' = Aliases
  BY Zenon DEF Aliases
<1>2. LockMatches(manifest.deps, Base.deps)'
  BY DEF Held, LockMatches, DependencyMatches
<1>4. ASSUME NEW a \in Aliases \ touched PROVE TreeUnder(graph, Base.deps, a)'
  <2>1. TreeUnder(graph, Base.deps, a)
    BY <1>4 DEF Held
  <2> QED  BY <2>1, TreeNext
<1>5. (\A a \in Aliases \ touched : TreeUnder(graph, Base.deps, a))'
  BY <1>1, <1>4, Zenon DEF TreeUnder, Under, RootOf, IsNode, IsPath
<1> QED  BY <1>2, <1>5 DEF Held

\* Lockfiles keep their form.
LEMMA FormStays ==
  ASSUME GraphInv, lock' \in {lock, before.lock, Absent, TornLock}, before'.lock \in {lock, before.lock}
  PROVE  (LockForm(lock) /\ LockForm(before.lock))'
<1>1. Absent.state # "ok" /\ TornLock.state # "ok"
  BY DEF Absent, TornLock
<1>2. LockForm(lock) /\ LockForm(before.lock)
  BY DEF GraphInv
<1>3. LockForm(Absent) /\ LockForm(TornLock)
  BY <1>1 DEF LockForm
<1>4. LockForm(lock') /\ LockForm(before'.lock)
  BY <1>2, <1>3
<1> QED  BY <1>4 DEF LockForm, LockOf

\* A step after which all aliases are touched
LEMMA GraphTouched ==
  ASSUME GraphInv, lock' \in {lock, before.lock, Absent, TornLock}, before'.lock \in {lock, before.lock},
         pc' \notin {"validate", "collect"}, touched' = Aliases'
  PROVE  GraphInv'
BY FormStays DEF GraphInv

\* A step that changes nothing but what is fetched and looked at
LEMMA CalmSame ==
  ASSUME GraphInv, UNCHANGED <<setting, manifest, lock, store, pc, cmd, plan, before, graph, touched>>,
         cached \subseteq cached'
  PROVE  (~(Aliases \subseteq touched) => Calm)'
<1> SUFFICES ASSUME ~(Aliases \subseteq touched) PROVE Calm'
  BY DEF Aliases
<1>1. Calm
  BY DEF GraphInv
<1>2. Base' = Base /\ Held
  BY <1>1, Zenon DEF Base, Calm
<1>4. Held'
  BY <1>2, HeldStays
<1> QED  BY <1>1, <1>4, Zenon DEF Calm

\* A step of somebody else
LEMMA GraphSame ==
  ASSUME GraphInv,
         UNCHANGED <<setting, manifest, lock, store, cached, pc, cmd, plan, todo, reached, before, graph, touched>>
  PROVE  GraphInv'
<1>1. (LockForm(lock) /\ LockForm(before.lock))'
  BY FormStays
<1>2. (~(Aliases \subseteq touched) => Calm)'
  BY CalmSame, Zenon
<1>3. Clean' = Clean /\ Roots(plan)' = Roots(plan)
  BY DEF Clean, Failed, Roots, Nodes
<1>4. \A m : Below(m, FALSE)' = Below(m, FALSE)
  BY StoreStays, Zenon
<1>5. Grown => Grown'
  BY <1>3, <1>4, Zenon DEF Grown
<1> QED  BY <1>1, <1>2, <1>3, <1>5 DEF GraphInv

\* A command that may leave aliases untouched starts.
LEMMA GraphBegin ==
  ASSUME GraphInv, NEW c, NEW step, Begin(c, {}, step), touched \subseteq touched',
         \/ c.op = "check" /\ step = "sync"
         \/ c.op = "update" /\ step = "refresh" /\ c.alias \in touched'
  PROVE  GraphInv'
<1>1. /\ pc = "idle" /\ cmd' = c /\ before'.lock = lock /\ pc' = step
      /\ UNCHANGED <<setting, manifest, lock, store, cached, graph>>
  BY DEF Begin, world, project
<1>2. (LockForm(lock) /\ LockForm(before.lock))'
  BY <1>1, FormStays
<1>3. ~(Aliases' \subseteq touched') => Calm'
  <2> SUFFICES ASSUME ~(Aliases' \subseteq touched') PROVE Calm'
    OBVIOUS
  <2>1. ~(Aliases \subseteq touched)
    BY <1>1 DEF Aliases
  <2>2. Calm
    BY <2>1 DEF GraphInv
  <2>3. Base' = Base
    BY <1>1, Zenon DEF Base
  <2>4. Held'
    BY <1>1, <2>2, <2>3, HeldStays DEF Calm
  <2> QED  BY <1>1, <2>4, Zenon DEF Calm
<1> QED  BY <1>1, <1>2, <1>3 DEF GraphInv

\* A command that may leave aliases untouched ends with the lockfile it found.
LEMMA GraphEnd ==
  ASSUME GraphInv, pc # "idle", pc' = "idle", lock' \in {lock, before.lock},
         ~(Aliases \subseteq touched) => lock' = before.lock,
         UNCHANGED <<setting, manifest, store, cached, before, graph, touched>>
  PROVE  GraphInv'
<1>1. (LockForm(lock) /\ LockForm(before.lock))'
  BY FormStays
<1>2. ASSUME ~(Aliases' \subseteq touched') PROVE Calm'
  <2>1. Calm /\ lock' = before.lock
    BY <1>2 DEF GraphInv, Aliases
  <2>2. Base' = Base
    BY <2>1 DEF Base
  <2>3. Held'
    BY <2>1, <2>2, HeldStays, Zenon DEF Calm
  <2> QED  BY <2>3 DEF Calm
<1> QED  BY <1>1, <1>2 DEF GraphInv

\* Writing the lockfile has failed.
LEMMA GraphRecover ==
  ASSUME GraphInv, pc \in {"sync", "refresh", "validate"}, Recover,
         lock' \in {lock, TornLock}, ~(Aliases \subseteq touched) /\ cmd.op = "check" => lock' = lock,
         UNCHANGED <<setting, manifest, store, cached, cmd, before, graph, touched>>
  PROVE  GraphInv'
<1>1. pc' \in {"idle", "restore manifest", "restore lock"} /\ (pc' = "idle" <=> cmd.op = "check")
      /\ (pc' = "restore manifest" <=> cmd.op = "add")
  BY Zenon DEF Recover, End
<1>2. (LockForm(lock) /\ LockForm(before.lock))'
  BY FormStays
<1>3. ASSUME ~(Aliases' \subseteq touched') PROVE Calm'
  <2>1. Calm /\ lock = before.lock
    BY <1>3, Zenon DEF GraphInv, Calm, Aliases
  <2>2. Base' = Base
    BY <1>1, <1>3, <2>1, Zenon DEF Base, Aliases
  <2>3. Held'
    BY <2>1, <2>2, HeldStays, Zenon DEF Calm
  <2> QED  BY <1>1, <2>1, <2>3, Zenon DEF Calm
<1> QED  BY <1>1, <1>2, <1>3, Zenon DEF GraphInv

\* A walk starts; it has the dependencies of the lockfile, but for those that
\* are touched.
LEMMA GraphWalk ==
  ASSUME GraphInv, pc \in {"sync", "refresh", "load"},
         NEW deps, NEW online, NEW step \in {"validate", "collect"}, Walk(deps, online, step),
         UNCHANGED <<setting, manifest, lock, store, cmd, before, graph, touched>>,
         ~(Aliases \subseteq touched) =>
            /\ cmd.op = "check" => deps = lock.deps
            /\ DOMAIN deps = DOMAIN lock.deps /\ \A a \in DOMAIN deps \ touched : deps[a] = lock.deps[a]
  PROVE  GraphInv'
<1>1. pc' = step /\ plan' = deps /\ todo' = Roots(deps) /\ reached' = {} /\ cached \subseteq cached'
  BY DEF Walk
<1>2. (LockForm(lock) /\ LockForm(before.lock))'
  BY FormStays
<1>3. Grown'
  <2>1. Roots(plan)' = Roots(deps)
    BY <1>1 DEF Roots, Nodes
  <2> QED  BY <1>1, <2>1, Zenon DEF Grown
<1>4. ASSUME ~(Aliases' \subseteq touched') PROVE Calm'
  <2>1. Calm /\ lock = before.lock /\ ~(Aliases \subseteq touched)
    BY <1>4, Zenon DEF GraphInv, Calm, Aliases
  <2>2. Base' = Base
    BY <1>1 DEF Base
  <2>3. Held'
    BY <1>1, <2>1, <2>2, HeldStays, Zenon DEF Calm
  <2> QED  BY <1>1, <2>1, <2>3, Zenon DEF Calm
<1> QED  BY <1>1, <1>2, <1>3, <1>4 DEF GraphInv

\* A package is looked at.
LEMMA GraphVisit ==
  ASSUME NoNestedGit, TypeInv, StackInv, ReadyInv, GraphInv, Visit
  PROVE  GraphInv'
<1>1. PICK n \in todo, online \in BOOLEAN :
        /\ ~Refused(n, online)
        /\ reached' = reached \cup {n}
        /\ todo' = (todo \ {n}) \cup Below(n, online)
        /\ cached' = cached \cup Fetched({n} \cup Below(n, online), online)
  BY Zenon DEF Visit
<1>2. UNCHANGED <<setting, manifest, lock, store, pc, cmd, plan, before, graph, touched>> /\ pc \in {"validate", "collect"}
      /\ cached \subseteq cached'
  BY <1>1 DEF Visit, world, ghosts
<1>3. (LockForm(lock) /\ LockForm(before.lock))' /\ (~(Aliases \subseteq touched) => Calm)'
  BY <1>2, FormStays, CalmSame
<1>4. Sound(n.locked, online) /\ Known(n)
  BY <1>1, <1>2 DEF Refused, ReadyInv
<1>5. Below(n, online) = Below(n, FALSE)
  BY <1>4, BelowOffline, Zenon
<1>6. Roots(plan)' = Roots(plan) /\ (Clean' => Clean)
  BY <1>1, <1>2, Zenon DEF Roots, Nodes, Clean, Failed
<1>7. \A m : Below(m, FALSE)' = Below(m, FALSE)
  BY <1>2, StoreStays, Zenon
<1>8. ASSUME Grown, NEW x \in reached' \cup todo'
      PROVE  x \in Roots(plan) \/ \E m \in reached' : x \in Below(m, FALSE)
  <2>1. CASE x \in Below(n, FALSE)
    BY <1>1, <2>1, Zenon
  <2>2. CASE x \in reached \cup todo
    BY <1>1, <1>8, <2>2, Zenon DEF Grown
  <2> QED  BY <1>1, <1>5, <2>1, <2>2, Zenon
<1>9. Grown => Grown'
  BY <1>6, <1>7, <1>8, Zenon DEF Grown
<1> QED  BY <1>2, <1>3, <1>6, <1>9 DEF GraphInv

\* Or it is refused.
LEMMA GraphRefused ==
  ASSUME ReadyInv, GraphInv, VisitFails
  PROVE  GraphInv'
<1>1. UNCHANGED <<setting, manifest, lock, store, cached, cmd, before, graph, touched>>
  BY DEF VisitFails, world, project, ghosts
<1>2. CASE pc = "validate"
  BY <1>1, <1>2, GraphRecover DEF VisitFails
<1>3. CASE pc = "collect"
  <2>1. PICK n \in todo : reached' = reached \cup {[n EXCEPT !.locked = Failed]} /\ UNCHANGED <<pc, plan>>
    BY <1>3 DEF VisitFails
  <2>2. (LockForm(lock) /\ LockForm(before.lock))' /\ (~(Aliases \subseteq touched) => Calm)'
    BY <1>1, <2>1, FormStays, CalmSame
  <2>3. ~Clean'
    <3>1. n = [path |-> n.path, locked |-> n.locked, active |-> n.active]
      BY <1>3, Zenon DEF ReadyInv, Known, IsNode
    <3>2. [n EXCEPT !.locked = Failed].locked = Failed
      BY <3>1
    <3> QED  BY <2>1, <3>2, Zenon DEF Clean, Failed
  <2> QED  BY <2>2, <2>3 DEF GraphInv
<1> QED  BY <1>2, <1>3 DEF VisitFails

\* The lockfile is written, the same for the untouched aliases.
LEMMA GraphWrite ==
  ASSUME RestoreInv, ReadyInv, GraphInv, WriteLock
  PROVE  GraphInv'
<1>1. UNCHANGED <<setting, manifest, store, cached, cmd, before, graph, touched>> /\ pc = "validate"
  BY DEF WriteLock, world, ghosts
<1>2. ASSUME ~(Aliases \subseteq touched)
      PROVE  Calm /\ lock = before.lock /\ (cmd.op = "check" => lock = LockOf(plan))
  <2>1. Calm /\ lock = before.lock /\ (cmd.op = "check" => plan = lock.deps)
    BY <1>1, <1>2, Zenon DEF GraphInv, Calm
  <2>2. lock.state = "ok"
    BY <1>1, <2>1, Zenon DEF Calm, Held, Base
  <2> QED  BY <2>1, <2>2, Zenon DEF GraphInv, LockForm
<1>3. ASSUME lock' = LockOf(plan), (cmd.op = "check" /\ pc' = "load") \/ (cmd.op # "check" /\ pc' = "idle")
      PROVE  GraphInv'
  <2>1. lock'.deps = plan /\ lock'.state = "ok"
    BY <1>3 DEF LockOf
  <2>2. LockForm(lock)'
    BY <1>3, <2>1 DEF LockForm, LockOf
  <2>3. LockForm(before.lock)'
    BY <1>1 DEF GraphInv, LockForm, LockOf
  <2>4. ASSUME ~(Aliases' \subseteq touched') PROVE Calm'
    <3>1. ~(Aliases \subseteq touched) /\ Aliases' = Aliases
      BY <1>1, <2>4 DEF Aliases
    <3>2. Calm /\ lock = before.lock /\ (cmd.op = "check" => lock = LockOf(plan))
      BY <1>2, <3>1, Zenon
    <3>3. CASE cmd.op = "check" /\ pc' = "load"
      <4>1. lock' = lock /\ Base' = Base
        BY <1>1, <1>3, <3>2, <3>3, Zenon DEF Base
      <4>2. Held'
        BY <1>1, <3>2, <4>1, HeldStays, Zenon DEF Calm
      <4> QED  BY <1>1, <3>2, <3>3, <4>1, <4>2 DEF Calm
    <3>4. CASE cmd.op # "check" /\ pc' = "idle"
      <4>1. Base' = lock' /\ Base = lock
        BY <1>1, <3>2, <3>4 DEF Base
      <4>2. manifest.ok /\ LockMatches(manifest.deps, plan)
        <5>1. PlanOK(manifest.deps) /\ Walked(plan, reached \cup todo) /\ todo = {} /\ manifest.ok
          BY <1>1, Zenon DEF ReadyInv, WriteLock
        <5> QED  BY <5>1, PlanMatches, Zenon
      <4>3. LockMatches(manifest.deps, Base.deps)'
        BY <1>1, <2>1, <4>1, <4>2 DEF LockMatches, DependencyMatches
      <4>4. ASSUME NEW a \in Aliases \ touched PROVE TreeUnder(graph, plan, a)
        <5>1. TreeUnder(graph, lock.deps, a)
          BY <3>2, <4>1, <4>4, Zenon DEF Calm, Held
        <5>2. DOMAIN plan = DOMAIN lock.deps /\ (a \in DOMAIN plan => plan[a] = lock.deps[a])
          BY <1>1, <3>2, <4>4 DEF Calm
        <5> QED  BY <5>1, <5>2, TreeMoves
      <4>5. ASSUME NEW a \in Aliases \ touched PROVE TreeUnder(graph, Base.deps, a)'
        BY <1>1, <2>1, <4>1, <4>4, <4>5, TreeNext
      <4>6. (\A a \in Aliases \ touched : TreeUnder(graph, Base.deps, a))'
        BY <1>1, <3>1, <4>5, Zenon DEF TreeUnder, Under, RootOf, IsNode, IsPath
      <4>7. Held'
        BY <1>1, <2>1, <4>1, <4>2, <4>3, <4>6 DEF Held
      <4> QED  BY <3>4, <4>7 DEF Calm
    <3> QED  BY <1>3, <3>3, <3>4
  <2> QED  BY <1>3, <2>2, <2>3, <2>4 DEF GraphInv
<1>4. CASE lock # LockOf(plan) /\ lock' \in {lock, TornLock} /\ Recover
  BY <1>1, <1>2, <1>4, GraphRecover
<1> QED  BY <1>3, <1>4 DEF WriteLock, End

\* A load ends; its packages are those of the lockfile.
LEMMA GraphRun ==
  ASSUME RestoreInv, ReadyInv, GraphInv, Run
  PROVE  /\ GraphInv'
         /\ result' = "ok" => \A a \in Aliases \ touched : Under(graph', a) = Under(graph, a)
<1>1. UNCHANGED <<setting, manifest, lock, store, cached, before>> /\ pc = "collect" /\ pc' = "idle" /\ todo = {}
      /\ cmd.op = "check"
  BY Zenon DEF Run, End, world, project, RestoreInv
<1>2. CASE ~Clean
  <2>1. UNCHANGED <<graph, touched>> /\ result' = "error"
    BY <1>2 DEF Run, Clean, End
  <2>2. ~(Aliases \subseteq touched) => lock = before.lock
    BY <1>1 DEF GraphInv, Calm
  <2> QED  BY <1>1, <2>1, <2>2, GraphEnd
<1>3. CASE Clean
  <2>1. graph' = reached /\ touched' = {}
    BY <1>3, Zenon DEF Run, Clean
  <2>2. LockOK /\ plan = lock.deps /\ Walked(plan, reached) /\ Grown /\ \A n \in reached : IsNode(n)
    BY <1>1, <1>3, Zenon DEF ReadyInv, GraphInv, Walked, Known
  <2>3. \A a : TreeUnder(reached, lock.deps, a)
    BY <1>1, <2>2, TreeReached
  <2>4. (LockForm(lock) /\ LockForm(before.lock))'
    BY <1>1, FormStays
  <2>5. Calm'
    <3>1. Base' = lock
      BY <1>1 DEF Base
    <3>2. LockMatches(manifest.deps, Base.deps)' /\ manifest'.ok /\ Base'.state = "ok"
      BY <1>1, <2>2, <3>1 DEF LockOK, LockMatches, DependencyMatches
    <3>3. ASSUME NEW a PROVE TreeUnder(graph, Base.deps, a)'
      BY <1>1, <2>1, <2>3, <3>1, TreeNext
    <3>4. (\A a \in Aliases \ touched : TreeUnder(graph, Base.deps, a))'
      BY <3>3, Zenon DEF TreeUnder, Under, RootOf, IsNode, IsPath
    <3>5. Held'
      BY <3>2, <3>4 DEF Held
    <3> QED  BY <1>1, <3>5 DEF Calm
  <2>6. ASSUME NEW a \in Aliases \ touched PROVE Under(graph', a) = Under(graph, a)
    <3>1. Base = lock /\ Held
      BY <1>1, <2>6 DEF GraphInv, Calm, Base
    <3>2. TreeUnder(graph, lock.deps, a)
      BY <2>6, <3>1 DEF Held
    <3>3. TreeUnder(reached, lock.deps, a)
      BY <2>3
    <3>4. Under(reached, a) \subseteq Under(graph, a)
      BY <3>2, <3>3, TreesEqual
    <3>5. Under(graph, a) \subseteq Under(reached, a)
      BY <3>2, <3>3, TreesEqual
    <3> QED  BY <2>1, <3>4, <3>5, Zenon
  <2> QED  BY <1>1, <2>4, <2>5, <2>6 DEF GraphInv
<1> QED  BY <1>2, <1>3

\* The dependencies of the lockfile are resolved, or one of them afresh.
LEMMA GraphSync ==
  ASSUME RestoreInv, GraphInv, Sync
  PROVE  GraphInv'
<1>1. UNCHANGED <<setting, manifest, lock, store, cmd, before, graph, touched>> /\ pc \in {"sync", "refresh"}
  BY Zenon DEF Sync, world, ghosts
<1>2. PICK online \in BOOLEAN :
        IF manifest.ok /\ (pc = "refresh" => cmd.alias \in DOMAIN manifest.deps)
          THEN Walk(IF pc = "refresh" THEN Refresh(manifest.deps, cmd.alias, online)
                    ELSE LockfileDependencies(manifest.deps, online), online, "validate")
          ELSE Recover /\ UNCHANGED cached
  BY DEF Sync
<1>3. CASE manifest.ok /\ (pc = "refresh" => cmd.alias \in DOMAIN manifest.deps)
  <2> DEFINE deps == IF pc = "refresh" THEN Refresh(manifest.deps, cmd.alias, online)
                     ELSE LockfileDependencies(manifest.deps, online)
  <2>1. ASSUME ~(Aliases \subseteq touched)
        PROVE  /\ cmd.op = "check" => deps = lock.deps
               /\ DOMAIN deps = DOMAIN lock.deps /\ \A a \in DOMAIN deps \ touched : deps[a] = lock.deps[a]
    <3>1. Calm /\ lock = before.lock
      BY <1>1, <2>1, Zenon DEF GraphInv, Calm
    <3>2. lock.state = "ok" /\ LockMatches(manifest.deps, lock.deps)
      BY <1>1, <3>1, Zenon DEF Calm, Held, Base
    <3>3. CASE pc = "refresh"
      <4>1. deps = [lock.deps EXCEPT ![cmd.alias] = Resolve(manifest.deps[cmd.alias], online)]
        BY <3>2, <3>3 DEF Refresh
      <4>2. cmd.op = "update" /\ cmd.alias \in touched
        BY <3>1, <3>3 DEF Calm
      <4> HIDE DEF deps
      <4> QED  BY <4>1, <4>2
    <3>4. CASE pc # "refresh"
      <4>1. deps = lock.deps
        BY <3>2, <3>4 DEF LockfileDependencies
      <4> HIDE DEF deps
      <4> QED  BY <4>1
    <3> QED  BY <3>3, <3>4
  <2>2. Walk(deps, online, "validate")
    BY <1>2, <1>3, Zenon
  <2> HIDE DEF deps
  <2> QED  BY <1>1, <2>1, <2>2, GraphWalk, Zenon
<1>4. CASE ~(manifest.ok /\ (pc = "refresh" => cmd.alias \in DOMAIN manifest.deps))
  BY <1>1, <1>2, <1>4, GraphRecover
<1> QED  BY <1>3, <1>4, Zenon

\* The lockfile is loaded as it is.
LEMMA GraphLoad ==
  ASSUME RestoreInv, ReadyInv, GraphInv, Load
  PROVE  GraphInv'
<1>1. UNCHANGED <<setting, manifest, lock, store, cmd, before, graph, touched>> /\ pc = "load" /\ LockOK
  BY Zenon DEF Load, world, ghosts, ReadyInv
<1>2. PICK online \in BOOLEAN : Walk(LockfileDependencies(manifest.deps, online), online, "collect")
  BY DEF Load
<1>3. LockfileDependencies(manifest.deps, online) = lock.deps
  BY <1>1 DEF LockfileDependencies, LockOK
<1>4. Walk(lock.deps, online, "collect")
  BY <1>2, <1>3
<1> QED  BY <1>1, <1>4, GraphWalk

\* A step that copies is one of a command that touches all aliases.
LEMMA GraphCopying ==
  ASSUME GraphInv, pc \notin {"idle", "sync", "refresh", "validate", "load", "collect", "restore lock"},
         lock' \in {lock, Absent, TornLock}, UNCHANGED <<setting, before, touched>>, pc' \notin {"validate", "collect"}
  PROVE  GraphInv'
<1>1. Aliases \subseteq touched /\ Aliases' = Aliases
  BY Zenon DEF GraphInv, Calm, Aliases
<1>2. (LockForm(lock) /\ LockForm(before.lock))'
  BY FormStays, Zenon
<1> QED  BY <1>1, <1>2, Zenon DEF GraphInv

\* Every step keeps what the last load found below the untouched aliases.
LEMMA GraphStep ==
  ASSUME NoNestedGit, RestoreInv, TypeInv, StackInv, ReadyInv, GraphInv, [Next]_vars
  PROVE  GraphInv'
<1> USE DEF Copies, world, project, copying, walk, ghosts
<1>1. CASE UNCHANGED vars
  BY <1>1, GraphSame, Zenon DEF vars
<1>2. ASSUME NEW k \in setting.publishable, PublishManifest(k) \/ PublishSources(k) PROVE GraphInv'
  BY <1>2, GraphSame DEF PublishManifest, PublishSources
<1>3. CASE Push
  BY <1>3, GraphSame, Zenon DEF Push
<1>4. CASE Edit
  BY <1>4, GraphTouched, Zenon DEF Edit, Aliases
<1>5. CASE Add
  <2>1. PICK c, aliases : Begin(c, aliases, "manifest") /\ touched' = Aliases
    BY <1>5, Zenon DEF Add
  <2>2. /\ lock' = lock /\ before'.lock = lock /\ setting' = setting
        /\ pc' \in {"manifest", "select"}
    BY <2>1 DEF Begin
  <2>3. Aliases' = Aliases
    BY <2>2 DEF Aliases
  <2> QED  BY <2>1, <2>2, <2>3, GraphTouched
<1>6. CASE UpdateOne
  <2>1. PICK a \in Aliases, copies \in BOOLEAN :
          LET Copied == IF copies THEN RegistryAliases(manifest.deps) \cap {a} ELSE {}
          IN  /\ Begin([op |-> "update", alias |-> a], Copied, "refresh")
              /\ touched' = IF Copied = {} THEN touched \cup {a} ELSE Aliases
    BY <1>6, Zenon DEF UpdateOne
  <2> DEFINE Copied == IF copies THEN RegistryAliases(manifest.deps) \cap {a} ELSE {}
  <2>2. /\ Begin([op |-> "update", alias |-> a], Copied, "refresh")
        /\ touched' = IF Copied = {} THEN touched \cup {a} ELSE Aliases
    BY <2>1
  <2> HIDE DEF Copied
  <2>3. CASE Copied = {}
    BY <2>2, <2>3, GraphBegin
  <2>4. CASE Copied # {}
    BY <2>2, <2>4, GraphTouched DEF Begin, Aliases
  <2> QED  BY <2>3, <2>4, Zenon
<1>7. CASE UpdateAll
  <2>1. PICK copies \in BOOLEAN :
          /\ Begin([op |-> "update all"], IF copies THEN RegistryAliases(manifest.deps) ELSE {}, "remove")
          /\ touched' = Aliases
    BY <1>7, Zenon DEF UpdateAll
  <2>2. pc' \in {"remove", "select"} /\ before'.lock = lock /\ UNCHANGED <<setting, lock>>
    BY <2>1, Zenon DEF Begin
  <2>3. touched' = Aliases'
    BY <2>1, <2>2, Zenon DEF Aliases
  <2> QED  BY <2>2, <2>3, GraphTouched
<1>8. CASE UpdateRefused
  <2>1. Aliases \subseteq touched /\ Aliases' = Aliases
    BY <1>8, Zenon DEF UpdateRefused, GraphInv, Calm, Held, Aliases
  <2>2. pc' = "idle" /\ UNCHANGED <<lock, touched>> /\ before'.lock = lock
    BY <1>8, Zenon DEF UpdateRefused, End
  <2>3. (LockForm(lock) /\ LockForm(before.lock))'
    BY <2>2, FormStays
  <2> QED  BY <2>1, <2>2, <2>3 DEF GraphInv
<1>9. CASE Check
  BY <1>9, GraphBegin, Zenon DEF Check
<1>10. CASE SelectRoot
  BY <1>10, GraphCopying, Zenon DEF SelectRoot, Turn
<1>11. CASE SelectBelow
  BY <1>11, GraphCopying, Zenon DEF SelectBelow, Turn
<1>12. CASE Copy
  BY <1>12, GraphCopying, Zenon DEF Copy
<1>13. CASE CopySources
  BY <1>13, GraphCopying DEF CopySources
<1>14. CASE Pin
  BY <1>14, GraphCopying DEF Pin, Turn, AfterCopying
<1>15. CASE CopyFails
  BY <1>15, GraphCopying, Zenon DEF CopyFails, End
<1>16. CASE WriteManifest
  BY <1>16, GraphCopying, Zenon DEF WriteManifest, End
<1>17. CASE RemoveLock
  BY <1>17, GraphCopying DEF RemoveLock
<1>18. CASE Sync
  BY <1>18, GraphSync
<1>19. CASE Visit
  BY <1>19, GraphVisit
<1>20. CASE VisitFails
  BY <1>20, GraphRefused
<1>21. CASE WriteLock
  BY <1>21, GraphWrite
<1>22. CASE RestoreManifest
  BY <1>22, GraphCopying, Zenon DEF RestoreManifest, End
<1>23. CASE RestoreLock
  <2>1. pc' = "idle" /\ pc = "restore lock" /\ UNCHANGED <<setting, manifest, store, cached, before, graph>>
        /\ lock' \in {lock, before.lock, TornLock}
    BY <1>23, Zenon DEF RestoreLock, End
  <2>2. CASE lock' = before.lock
    BY <1>23, <2>1, <2>2, GraphEnd, Zenon DEF RestoreLock, LostLock
  <2>3. CASE lock' # before.lock
    BY <1>23, <2>1, <2>3, GraphTouched, Zenon DEF RestoreLock, LostLock, Aliases
  <2> QED  BY <2>2, <2>3
<1>24. CASE Load
  BY <1>24, GraphLoad
<1>25. CASE Run
  BY <1>25, GraphRun
<1>26. CASE Kill
  <2>1. pc' = "idle" /\ pc # "idle" /\ UNCHANGED <<setting, manifest, lock, store, cached, before, graph>>
    BY <1>26, Zenon DEF Kill, End
  <2>2. CASE lock' = before.lock
    BY <1>26, <2>1, <2>2, GraphEnd DEF Kill, LostLock
  <2>3. CASE lock' # before.lock
    BY <1>26, <2>1, <2>3, GraphTouched DEF Kill, LostLock, Aliases
  <2> QED  BY <2>2, <2>3
<1> QED  BY <1>1, <1>2, <1>3, <1>4, <1>5, <1>6, <1>7, <1>8, <1>9, <1>10, <1>11, <1>12, <1>13, <1>14, <1>15,
            <1>16, <1>17, <1>18, <1>19, <1>20, <1>21, <1>22, <1>23, <1>24, <1>25, <1>26 DEF Next

\* Between two loads the packages below an alias stay the same, unless the
\* user edits the manifest, adds a dependency, updates that alias or vendors
\* packages again, or a command is interrupted between writing the lockfile
\* and restoring it: whatever is pushed or published, and whatever fails.
\* This is so where only the root has git dependencies.
THEOREM UntouchedStay == ASSUME NoNestedGit PROVE Spec => UntouchedStays
<1> DEFINE Inv == RestoreInv /\ TypeInv /\ StackInv /\ ReadyInv /\ GraphInv
           Same == pc = "collect" /\ result' = "ok" => \A a \in Aliases \ touched : Under(graph', a) = Under(graph, a)
<1>1. Init => Inv
  <2> SUFFICES ASSUME Init PROVE Inv
    BY Zenon
  <2>1. ReadyInv
    BY Zenon DEF Init, ReadyInv
  <2>2. Absent.state = "absent" /\ lock = Absent /\ before.lock = Absent
    BY Zenon DEF Init, Absent
  <2>3. GraphInv
    BY <2>2 DEF Init, GraphInv, LockForm
  <2> QED  BY <2>1, <2>3, RestoreInitially, TypeInitially, StackInitially
<1>2. Inv /\ [Next]_vars => Inv'
  BY RestoreStep, TypeStep, StackStep, ReadyStep, GraphStep
<1>3. Inv /\ [Next]_vars => [Same]_vars
  <2> SUFFICES ASSUME Inv, [Next]_vars, pc = "collect", result' = "ok", vars' # vars
               PROVE  \A a \in Aliases \ touched : Under(graph', a) = Under(graph, a)
    OBVIOUS
  <2>1. result # "ok"
    BY DEF ReadyInv
  <2>2. Run
    BY <2>1, Zenon DEF Next, world, project, copying, walk, ghosts, PublishManifest, PublishSources, Push, Edit, Add, UpdateOne,
                UpdateAll, UpdateRefused, Check, Begin, SelectRoot, SelectBelow, Copy, CopySources, Pin, CopyFails,
                WriteManifest, RemoveLock, Sync, Visit, VisitFails, WriteLock, RestoreManifest, RestoreLock, Load,
                Kill, End
  <2> QED  BY <2>2, GraphRun
<1> HIDE DEF Inv
<1> QED  BY <1>1, <1>2, <1>3, PTL DEF Spec, UntouchedStays
=============================================================================

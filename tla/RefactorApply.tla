--------------------------- MODULE RefactorApply ----------------------------
(***************************************************************************)
(* kyokara refactor --apply on a project: the sources are read and         *)
(* checked, the edits are applied in memory and the result checked again   *)
(* in a temporary copy, and then the changed files are written one by one, *)
(* with the ones already written restored when a later one fails.  An      *)
(* editor may save a file between any two of these steps, a write may      *)
(* fail, and the process may be killed.                                    *)
(***************************************************************************)
EXTENDS Naturals, Sequences, FiniteSets

CONSTANTS
  Files,       \* the modules of the project
  Edited,      \* the modules the refactoring has edits for
  MaxSaves     \* bound on the saves of the editor

ASSUME EditedAssumption ==
  /\ IsFiniteSet(Files)
  /\ Edited \subseteq Files
  /\ MaxSaves \in Nat

VARIABLES
  disk,        \* contents of each file
  saves,       \* number of saves so far; a save makes a new version
  pc,          \* where the command is
  force,       \* the --force flag
  toLoad,      \* modules the check has yet to read
  graph,       \* the modules it read: file to source
  status,      \* status of the transaction
  targets,     \* files of patched_sources
  originals,   \* what apply read of the targets before it wrote
  written,     \* number of targets written: applied_indices is 1..written
  toRestore,   \* number of them still to be restored
  stuck,       \* targets whose restoring write failed
  saved        \* files the editor saved since the command last read or
               \* wrote them

checking == <<force, toLoad, graph, status, targets>>
applying == <<originals, written, toRestore, stuck>>
vars == <<disk, saves, pc, saved, checking, applying>>

\* A content is a version of the editor's, such a version with the edits
\* applied, or what fs::write leaves when it fails after truncating the file.
Plain(v) == [version |-> v, form |-> "plain"]
Patched(c) == [c EXCEPT !.form = "patched"]
Torn == [version |-> 0, form |-> "torn"]

\* The module graph is a hash map: it is walked in an arbitrary order.
Orders(S) ==
  {t \in [1..Cardinality(S) -> S] : \A i, j \in 1..Cardinality(S) : t[i] = t[j] => i = j}

Init ==
  /\ disk = [f \in Files |-> Plain(0)]
  /\ saves = 0
  /\ pc = "loading"
  /\ force \in BOOLEAN
  /\ toLoad = Files
  /\ graph = <<>>
  /\ status = "none"
  /\ targets = <<>>
  /\ originals = <<>>
  /\ written = 0
  /\ toRestore = 0
  /\ stuck = {}
  /\ saved = {}

\* The editor saves a new version of a file.
Save(f) ==
  /\ saves < MaxSaves
  /\ saves' = saves + 1
  /\ disk' = [disk EXCEPT ![f] = Plain(saves + 1)]
  /\ saved' = saved \cup {f}
  /\ UNCHANGED <<pc, checking, applying>>

\* check_project reads a module, or leaves it out of the graph when it
\* cannot be read.
Load(f) ==
  /\ pc = "loading"
  /\ f \in toLoad
  /\ toLoad' = toLoad \ {f}
  /\ \/ /\ graph' = [g \in DOMAIN graph \cup {f} |-> IF g = f THEN disk[f] ELSE graph[g]]
        /\ saved' = saved \ {f}
     \/ UNCHANGED <<graph, saved>>
  /\ UNCHANGED <<disk, saves, pc, force, status, targets, applying>>

\* Mutant: a failed verification is only warned about.
TransactUngated ==
  /\ pc = "loading"
  /\ toLoad = {}
  /\ \/ status' = "error" /\ targets' = <<>>
     \/ /\ status' \in IF force THEN {"skipped"} ELSE {"typechecked", "failed"}
        /\ targets' \in Orders(Edited \cap DOMAIN graph)
  /\ pc' = IF status' # "error" THEN "reading" ELSE "refused"
  /\ UNCHANGED <<disk, saves, saved, force, toLoad, graph, applying>>

\* The edits are applied to the sources in the graph and, without --force,
\* a copy of the patched graph is checked; what the engine, the temporary
\* directory and the checker answer is left open.  Only a verified or a
\* forced result is applied.
Transact ==
  /\ pc = "loading"
  /\ toLoad = {}
  /\ \/ status' = "error" /\ targets' = <<>>
     \/ /\ status' \in IF force THEN {"skipped"} ELSE {"typechecked", "failed"}
        /\ targets' \in Orders(Edited \cap DOMAIN graph)
  /\ pc' = IF status' \in {"typechecked", "skipped"} THEN "reading" ELSE "refused"
  /\ UNCHANGED <<disk, saves, saved, force, toLoad, graph, applying>>

\* Apply reads a target before it writes any; a read that fails ends it.
Read ==
  /\ pc = "reading"
  /\ Len(originals) < Len(targets)
  /\ LET f == targets[Len(originals) + 1]
     IN  \/ /\ originals' = Append(originals, disk[f])
            /\ saved' = saved \ {f}
            /\ UNCHANGED pc
         \/ pc' = "failed" /\ UNCHANGED <<originals, saved>>
  /\ UNCHANGED <<disk, saves, checking, written, toRestore, stuck>>

\* The next target is written, or its write fails, with the file as it was
\* or truncated, and the ones before it are to be restored.
Write ==
  /\ pc = "reading"
  /\ Len(originals) = Len(targets)
  /\ written < Len(targets)
  /\ LET f == targets[written + 1]
     IN  \/ /\ disk' = [disk EXCEPT ![f] = Patched(graph[f])]
            /\ saved' = saved \ {f}
            /\ written' = written + 1
            /\ UNCHANGED <<pc, toRestore>>
         \/ /\ UNCHANGED <<disk, saved>> \/ (disk' = [disk EXCEPT ![f] = Torn] /\ saved' = saved \ {f})
            /\ toRestore' = written
            /\ pc' = "restoring"
            /\ UNCHANGED written
  /\ UNCHANGED <<saves, checking, originals, stuck>>

\* Mutant: the loop starts one below the last file written.
RestoreSkipsLast ==
  /\ pc = "restoring"
  /\ toRestore > 0
  /\ LET f == targets[toRestore]
     IN  \/ toRestore < written /\ disk' = [disk EXCEPT ![f] = originals[toRestore]] /\ UNCHANGED stuck
         \/ toRestore = written /\ UNCHANGED <<disk, stuck>>
  /\ toRestore' = toRestore - 1
  /\ UNCHANGED <<saves, pc, saved, checking, originals, written>>

\* rollback_applied_sources, from the last file written to the first; it
\* goes on after a write that fails.
Restore ==
  /\ pc = "restoring"
  /\ toRestore > 0
  /\ LET f == targets[toRestore]
     IN  \/ disk' = [disk EXCEPT ![f] = originals[toRestore]] /\ saved' = saved \ {f} /\ UNCHANGED stuck
         \/ /\ UNCHANGED <<disk, saved>> \/ (disk' = [disk EXCEPT ![f] = Torn] /\ saved' = saved \ {f})
            /\ stuck' = stuck \cup {f}
  /\ toRestore' = toRestore - 1
  /\ UNCHANGED <<saves, pc, checking, originals, written>>

\* Mutant: success is reported before the last write.
FinishEarly ==
  /\ \/ pc = "reading" /\ Len(originals) = Len(targets) /\ written + 1 >= Len(targets) /\ pc' = "applied"
     \/ pc = "restoring" /\ toRestore = 0 /\ pc' = "failed"
  /\ UNCHANGED <<disk, saves, saved, checking, applying>>

Finish ==
  /\ \/ pc = "reading" /\ Len(originals) = Len(targets) /\ written = Len(targets) /\ pc' = "applied"
     \/ pc = "restoring" /\ toRestore = 0 /\ pc' = "failed"
  /\ UNCHANGED <<disk, saves, saved, checking, applying>>

Kill ==
  /\ pc \in {"loading", "reading", "restoring"}
  /\ pc' = "killed"
  /\ UNCHANGED <<disk, saves, saved, checking, applying>>

Next ==
  \/ \E f \in Files : Save(f) \/ Load(f)
  \/ Transact \/ Read \/ Write \/ Restore \/ Finish \/ Kill

Spec == Init /\ [][Next]_vars

---------------------------------------------------------------------------
Contents == [version : 0..MaxSaves, form : {"plain", "patched", "torn"}]

\* Types, and the order of apply: no target is written before the originals
\* of all of them have been read.
TypeOK ==
  /\ disk \in [Files -> Contents]
  /\ saves \in 0..MaxSaves
  /\ pc \in {"loading", "reading", "refused", "restoring", "applied", "failed", "killed"}
  /\ force \in BOOLEAN
  /\ toLoad \subseteq Files
  /\ DOMAIN graph \subseteq Files /\ \A f \in DOMAIN graph : graph[f] \in Contents
  /\ status \in {"none", "error", "skipped", "typechecked", "failed"}
  /\ targets \in Seq(DOMAIN graph)
  /\ originals \in Seq(Contents) /\ Len(originals) <= Len(targets)
  /\ written \in 0..Len(originals) /\ (written > 0 => Len(originals) = Len(targets))
  /\ toRestore \in 0..written
  /\ stuck \subseteq Files /\ saved \subseteq Files

\* The README's verify-before-apply: at every moment, a kill in the middle of
\* the writes included, a file that is not what the editor last saved is a
\* target of a transaction that was verified, or forced, and if it holds
\* patched contents they are the ones that were verified.
OnlyVerifiedWritten ==
  \A f \in Files : disk[f].form # "plain" =>
    /\ \E i \in 1..Len(targets) : targets[i] = f
    /\ status = "typechecked" \/ (force /\ status = "skipped")
    /\ disk[f].form = "patched" => disk[f] = Patched(graph[f])

\* When apply reports success every module that was checked is on disk as it
\* was in the copy that was checked, unless the editor saved it since.
AppliedIsVerified ==
  pc = "applied" =>
    \A f \in DOMAIN graph \ saved :
      disk[f] = IF \E i \in 1..Len(targets) : targets[i] = f THEN Patched(graph[f]) ELSE graph[f]

\* An apply that reports an error has left every target as it found it: all
\* but the file whose write failed, which may be truncated, the files whose
\* rollback failed, which the message names, and those the editor saved.
FailedIsRolledBack ==
  pc = "failed" =>
    \A i \in 1..Len(originals) :
      \/ targets[i] \in saved \cup stuck
      \/ disk[targets[i]] = originals[i]
      \/ i = written + 1 /\ disk[targets[i]] = Torn
=============================================================================

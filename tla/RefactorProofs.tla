--------------------------- MODULE RefactorProofs ---------------------------
(***************************************************************************)
(* For every project, every set of edited modules and every interleaving   *)
(* of saves, failing reads and writes, and a kill: only what was verified  *)
(* is written, success means all of it was, and failure means it was       *)
(* rolled back.                                                            *)
(***************************************************************************)
EXTENDS RefactorApply, FiniteSetTheorems, TLAPS

IsTarget(f) == \E i \in 1..Len(targets) : targets[i] = f
Approved == status = "typechecked" \/ (force /\ status = "skipped")

\* No module is a target twice.
Distinct == \A i, j \in 1..Len(targets) : targets[i] = targets[j] => i = j

\* The phases: nothing is planned while the check loads, nothing read or
\* written before approval, and the counters end where the phases say.
Phases ==
  /\ pc = "loading" => targets = <<>>
  /\ pc \in {"loading", "refused"} => originals = <<>> /\ written = 0
  /\ pc \in {"reading", "restoring", "applied", "failed"} => Approved
  /\ pc = "applied" => written = Len(targets)
  /\ pc = "failed" => toRestore = 0

\* Until the first write every file is as the editor saved it, and so are
\* the sources the command has read.
Unpatched ==
  /\ pc \in {"loading", "refused", "reading"} /\ written = 0 => \A f \in Files : disk[f].form = "plain"
  /\ \A f \in DOMAIN graph : graph[f].form = "plain"
  /\ \A i \in 1..Len(originals) : originals[i].form = "plain"

\* A module without edits is on disk as it was checked.
OthersKept == \A f \in DOMAIN graph : f \in saved \/ IsTarget(f) \/ disk[f] = graph[f]

\* While the writes go on, those done are still there.
WrittenKept ==
  pc \in {"reading", "applied"} =>
    \A i \in 1..written : targets[i] \in saved \/ disk[targets[i]] = Patched(graph[targets[i]])

\* The targets that are written and not yet restored are the first ones.
Pending == IF pc = "reading" THEN written ELSE toRestore

\* Every other target is as apply found it.
RestOriginal ==
  pc \in {"reading", "restoring", "failed"} =>
    \A i \in 1..Len(originals) : i > Pending =>
      \/ targets[i] \in saved \cup stuck
      \/ disk[targets[i]] = originals[i]
      \/ i = written + 1 /\ disk[targets[i]] = Torn

IInv ==
  /\ TypeOK /\ Distinct /\ Phases /\ Unpatched
  /\ OnlyVerifiedWritten /\ OthersKept /\ WrittenKept /\ RestOriginal
---------------------------------------------------------------------------
\* Contents and their forms.
LEMMA Forms ==
  /\ \A v \in 0..MaxSaves : Plain(v) \in Contents /\ Plain(v).form = "plain"
  /\ \A c \in Contents : Patched(c) \in Contents /\ Patched(c).form = "patched"
  /\ \A c \in Contents : c.form \in {"plain", "patched", "torn"}
  /\ Torn \in Contents /\ Torn.form = "torn"
BY EditedAssumption DEF Plain, Patched, Torn, Contents

\* The order a transaction picks lists its targets once each.
LEMMA OrdersAreTargets ==
  ASSUME NEW S \in SUBSET Files, NEW t \in Orders(S)
  PROVE  t \in Seq(S) /\ \A i, j \in 1..Len(t) : t[i] = t[j] => i = j
<1>1. Cardinality(S) \in Nat
  BY EditedAssumption, FS_Subset, FS_CardinalityType
<1>2. t \in [1..Cardinality(S) -> S]
  BY DEF Orders
<1>3. t \in Seq(S) /\ Len(t) = Cardinality(S)
  BY <1>1, <1>2
<1> QED
  BY <1>3 DEF Orders

LEMMA InitIInv == Init => IInv
<1> SUFFICES ASSUME Init PROVE IInv
  OBVIOUS
<1>1. TypeOK
  BY Forms, EditedAssumption DEF Init, TypeOK
<1>2. Distinct
  BY DEF Init, Distinct
<1>3. Phases
  BY DEF Init, Phases
<1>4. Unpatched
  BY DEF Init, Unpatched, Plain
<1>5. OnlyVerifiedWritten
  BY DEF Init, OnlyVerifiedWritten, Plain
<1>6. OthersKept
  BY DEF Init, OthersKept
<1>7. WrittenKept
  BY DEF Init, WrittenKept
<1>8. RestOriginal
  BY DEF Init, RestOriginal
<1> QED
  BY <1>1, <1>2, <1>3, <1>4, <1>5, <1>6, <1>7, <1>8 DEF IInv

\* A save makes one file plain, and marks it.
LEMMA SaveStep ==
  ASSUME NEW f \in Files, IInv, Save(f)
  PROVE  IInv'
<1> USE DEF checking, applying
<1>1. TypeOK'
  BY Forms, EditedAssumption DEF IInv, Save, TypeOK
<1>2. Distinct'
  BY Forms, EditedAssumption DEF IInv, Save, Distinct
<1>3. Phases'
  BY Forms, EditedAssumption DEF IInv, Save, TypeOK, Phases, Approved
<1>4. Unpatched'
  BY Forms, EditedAssumption DEF IInv, Save, TypeOK, Phases, Unpatched
<1>5. OnlyVerifiedWritten'
  BY Forms, EditedAssumption DEF IInv, Save, TypeOK, Distinct, Phases, Unpatched, OnlyVerifiedWritten, Approved
<1>6. OthersKept'
  BY Forms, EditedAssumption DEF IInv, Save, TypeOK, Phases, OthersKept, IsTarget
<1>7. WrittenKept'
  BY Forms, EditedAssumption DEF IInv, Save, TypeOK, Phases, Distinct, WrittenKept
<1>8. RestOriginal'
  BY Forms, EditedAssumption DEF IInv, Save, TypeOK, Phases, Distinct, RestOriginal, Pending
<1> QED
  BY <1>1, <1>2, <1>3, <1>4, <1>5, <1>6, <1>7, <1>8 DEF IInv

\* A module read is as it is on disk.
LEMMA LoadStep ==
  ASSUME NEW f \in Files, IInv, Load(f)
  PROVE  IInv'
<1> USE DEF checking, applying
<1>1. TypeOK'
  BY Forms, EditedAssumption DEF IInv, Load, TypeOK
<1>2. Distinct'
  BY Forms, EditedAssumption DEF IInv, Load, Distinct
<1>3. Phases'
  BY Forms, EditedAssumption DEF IInv, Load, TypeOK, Phases, Approved
<1>4. Unpatched'
  BY Forms, EditedAssumption DEF IInv, Load, TypeOK, Phases, Unpatched
<1>5. OnlyVerifiedWritten'
  BY Forms, EditedAssumption DEF IInv, Load, TypeOK, Distinct, Phases, Unpatched, OnlyVerifiedWritten, Approved
<1>6. OthersKept'
  BY Forms, EditedAssumption DEF IInv, Load, TypeOK, Phases, OthersKept, IsTarget
<1>7. WrittenKept'
  BY Forms, EditedAssumption DEF IInv, Load, TypeOK, Phases, Distinct, WrittenKept
<1>8. RestOriginal'
  BY Forms, EditedAssumption DEF IInv, Load, TypeOK, Phases, Distinct, RestOriginal, Pending
<1> QED
  BY <1>1, <1>2, <1>3, <1>4, <1>5, <1>6, <1>7, <1>8 DEF IInv

\* The targets are planned before anything is touched.
LEMMA TransactStep ==
  ASSUME IInv, Transact
  PROVE  IInv'
<1> USE DEF checking, applying
<1>0. targets' \in Seq(DOMAIN graph) /\ Distinct'
  <2>1. CASE targets' = <<>>
    BY <2>1 DEF Distinct
  <2>2. CASE targets' \in Orders(Edited \cap DOMAIN graph)
    <3>1. Edited \cap DOMAIN graph \in SUBSET Files
      BY EditedAssumption
    <3>2. targets' \in Seq(Edited \cap DOMAIN graph) /\ Distinct'
      BY <2>2, <3>1, OrdersAreTargets DEF Distinct
    <3> QED
      BY <3>2
  <2> QED
    BY <2>1, <2>2 DEF Transact
<1>1. TypeOK'
  BY <1>0 DEF IInv, Transact, TypeOK, Phases
<1>2. Distinct'
  BY <1>0
<1>3. Phases'
  BY Forms, EditedAssumption DEF IInv, Transact, TypeOK, Phases, Approved
<1>4. Unpatched'
  BY Forms, EditedAssumption DEF IInv, Transact, TypeOK, Phases, Unpatched
<1>5. OnlyVerifiedWritten'
  BY Forms, EditedAssumption DEF IInv, Transact, TypeOK, Distinct, Phases, Unpatched, OnlyVerifiedWritten, Approved
<1>6. OthersKept'
  BY Forms, EditedAssumption DEF IInv, Transact, TypeOK, Phases, OthersKept, IsTarget
<1>7. WrittenKept'
  BY Forms, EditedAssumption DEF IInv, Transact, TypeOK, Phases, Distinct, WrittenKept
<1>8. RestOriginal'
  BY Forms, EditedAssumption DEF IInv, Transact, TypeOK, Phases, Distinct, RestOriginal, Pending
<1> QED
  BY <1>1, <1>2, <1>3, <1>4, <1>5, <1>6, <1>7, <1>8 DEF IInv

\* An original is what is on disk before the first write.
LEMMA ReadStep ==
  ASSUME IInv, Read
  PROVE  IInv'
<1> USE DEF checking, applying
<1> DEFINE g == targets[Len(originals) + 1]
<1>0. written = 0 /\ toRestore = 0 /\ g \in Files /\ disk[g] \in Contents
  BY DEF IInv, Read, TypeOK
<1>9. \/ originals' = Append(originals, disk[g]) /\ saved' = saved \ {g} /\ pc' = pc
      \/ pc' = "failed" /\ originals' = originals /\ saved' = saved
  BY DEF Read
<1> HIDE DEF g
<1>1. TypeOK'
  <2>1. originals' \in Seq(Contents) /\ Len(originals') \in Nat /\ Len(originals') <= Len(targets)
    <3>1. originals \in Seq(Contents) /\ Len(originals) \in Nat /\ Len(targets) \in Nat
          /\ Len(originals) < Len(targets)
      BY DEF IInv, Read, TypeOK
    <3> HIDE DEF IInv
    <3>2. CASE originals' = Append(originals, disk[g])
      BY <1>0, <3>1, <3>2
    <3>3. CASE originals' = originals
      BY <3>1, <3>3
    <3> QED  BY <1>9, <3>2, <3>3
  <2>2. saved' \subseteq Files /\ pc' \in {"reading", "failed"}
    BY <1>9 DEF IInv, Read, TypeOK
  <2> QED
    BY <1>0, <2>1, <2>2 DEF IInv, Read, TypeOK
<1>2. Distinct'
  BY Forms, EditedAssumption DEF IInv, Read, Distinct
<1>3. Phases'
  BY Forms, EditedAssumption DEF IInv, Read, TypeOK, Phases, Approved
<1>4. Unpatched'
  BY Forms, EditedAssumption, SMTT(20) DEF IInv, Read, TypeOK, Phases, Unpatched
<1>5. OnlyVerifiedWritten'
  BY Forms, EditedAssumption DEF IInv, Read, TypeOK, Distinct, Phases, Unpatched, OnlyVerifiedWritten, Approved
<1>6. OthersKept'
  BY Forms, EditedAssumption DEF IInv, Read, TypeOK, Phases, OthersKept, IsTarget
<1>7. WrittenKept'
  BY Forms, EditedAssumption DEF IInv, Read, TypeOK, Phases, Distinct, WrittenKept
<1>8. RestOriginal'
  <2>1. CASE pc' = "failed" /\ originals' = originals /\ saved' = saved
    BY <1>0, <2>1 DEF IInv, Read, TypeOK, RestOriginal, Pending
  <2>2. CASE originals' = Append(originals, disk[g]) /\ saved' = saved \ {g} /\ pc' = pc
    <3> SUFFICES ASSUME NEW i \in 1..Len(originals')
                 PROVE  \/ targets'[i] \in saved' \cup stuck'
                        \/ disk'[targets'[i]] = originals'[i]
                        \/ i = written' + 1 /\ disk'[targets'[i]] = Torn
      BY DEF RestOriginal
    <3>1. CASE i = Len(originals) + 1
      BY <1>0, <2>2, <3>1 DEF IInv, Read, TypeOK, g
    <3>2. CASE i \in 1..Len(originals)
      <4>1. targets[i] # g
        BY <3>2, SMTT(20) DEF IInv, Read, TypeOK, Distinct, g
      <4>2. originals'[i] = originals[i]
        BY <2>2, <3>2 DEF IInv, TypeOK
      <4> QED
        BY <1>0, <2>2, <3>2, <4>1, <4>2 DEF IInv, Read, TypeOK, RestOriginal, Pending
    <3> QED
      BY <2>2, <3>1, <3>2 DEF IInv, TypeOK
  <2> QED
    BY <1>9, <2>1, <2>2
<1> QED
  BY <1>1, <1>2, <1>3, <1>4, <1>5, <1>6, <1>7, <1>8 DEF IInv

\* A write makes one target pending, or starts the rollback.
LEMMA WriteStep ==
  ASSUME IInv, Write
  PROVE  IInv'
<1> USE DEF checking, applying
<1>1. TypeOK'
  BY Forms, EditedAssumption DEF IInv, Write, TypeOK
<1>2. Distinct'
  BY Forms, EditedAssumption DEF IInv, Write, Distinct
<1>3. Phases'
  BY Forms, EditedAssumption DEF IInv, Write, TypeOK, Phases, Approved
<1>4. Unpatched'
  BY Forms, EditedAssumption DEF IInv, Write, TypeOK, Phases, Unpatched
<1>5. OnlyVerifiedWritten'
  BY Forms, EditedAssumption DEF IInv, Write, TypeOK, Distinct, Phases, Unpatched, OnlyVerifiedWritten, Approved
<1>6. OthersKept'
  BY Forms, EditedAssumption DEF IInv, Write, TypeOK, Phases, OthersKept, IsTarget
<1>7. WrittenKept'
  BY Forms, EditedAssumption DEF IInv, Write, TypeOK, Phases, Distinct, WrittenKept
<1>8. RestOriginal'
  BY Forms, EditedAssumption DEF IInv, Write, TypeOK, Phases, Distinct, RestOriginal, Pending
<1> QED
  BY <1>1, <1>2, <1>3, <1>4, <1>5, <1>6, <1>7, <1>8 DEF IInv

\* A rollback takes one target off the pending ones.
LEMMA RestoreStep ==
  ASSUME IInv, Restore
  PROVE  IInv'
<1> USE DEF checking, applying
<1>1. TypeOK'
  BY Forms, EditedAssumption DEF IInv, Restore, TypeOK
<1>2. Distinct'
  BY Forms, EditedAssumption DEF IInv, Restore, Distinct
<1>3. Phases'
  BY Forms, EditedAssumption DEF IInv, Restore, TypeOK, Phases, Approved
<1>4. Unpatched'
  BY Forms, EditedAssumption DEF IInv, Restore, TypeOK, Phases, Unpatched
<1>5. OnlyVerifiedWritten'
  <2> DEFINE g == targets[toRestore]
  <2>1. g \in Files /\ toRestore \in 1..Len(targets) /\ toRestore \in 1..Len(originals)
    BY DEF IInv, Restore, TypeOK
  <2>2. disk'[g].form \in {"plain", "torn"} \/ disk'[g] = disk[g]
    BY <2>1, Forms DEF IInv, Restore, TypeOK, Unpatched
  <2>3. \A f \in Files : f # g => disk'[f] = disk[f]
    BY DEF IInv, Restore, TypeOK
  <2>4. Approved
    BY DEF IInv, Restore, Phases
  <2> HIDE DEF g
  <2>5. \E i \in 1..Len(targets) : targets[i] = g
    BY <2>1 DEF g
  <2> QED
    BY <2>1, <2>2, <2>3, <2>4, <2>5 DEF IInv, Restore, OnlyVerifiedWritten, Approved
<1>6. OthersKept'
  BY Forms, EditedAssumption DEF IInv, Restore, TypeOK, Phases, OthersKept, IsTarget
<1>7. WrittenKept'
  BY Forms, EditedAssumption DEF IInv, Restore, TypeOK, Phases, Distinct, WrittenKept
<1>8. RestOriginal'
  BY Forms, EditedAssumption DEF IInv, Restore, TypeOK, Phases, Distinct, RestOriginal, Pending
<1> QED
  BY <1>1, <1>2, <1>3, <1>4, <1>5, <1>6, <1>7, <1>8 DEF IInv

\* Success and failure are reported when no target is left.
LEMMA FinishStep ==
  ASSUME IInv, Finish
  PROVE  IInv'
<1> USE DEF checking, applying
<1>1. TypeOK'
  BY Forms, EditedAssumption DEF IInv, Finish, TypeOK
<1>2. Distinct'
  BY Forms, EditedAssumption DEF IInv, Finish, Distinct
<1>3. Phases'
  BY Forms, EditedAssumption DEF IInv, Finish, TypeOK, Phases, Approved
<1>4. Unpatched'
  BY Forms, EditedAssumption DEF IInv, Finish, TypeOK, Phases, Unpatched
<1>5. OnlyVerifiedWritten'
  BY Forms, EditedAssumption DEF IInv, Finish, TypeOK, Distinct, Phases, Unpatched, OnlyVerifiedWritten, Approved
<1>6. OthersKept'
  BY Forms, EditedAssumption DEF IInv, Finish, TypeOK, Phases, OthersKept, IsTarget
<1>7. WrittenKept'
  BY Forms, EditedAssumption DEF IInv, Finish, TypeOK, Phases, Distinct, WrittenKept
<1>8. RestOriginal'
  BY Forms, EditedAssumption DEF IInv, Finish, TypeOK, Phases, Distinct, RestOriginal, Pending
<1> QED
  BY <1>1, <1>2, <1>3, <1>4, <1>5, <1>6, <1>7, <1>8 DEF IInv

\* A kill leaves the files as they are.
LEMMA KillStep ==
  ASSUME IInv, Kill
  PROVE  IInv'
<1> USE DEF checking, applying
<1>1. TypeOK'
  BY Forms, EditedAssumption DEF IInv, Kill, TypeOK
<1>2. Distinct'
  BY Forms, EditedAssumption DEF IInv, Kill, Distinct
<1>3. Phases'
  BY Forms, EditedAssumption DEF IInv, Kill, TypeOK, Phases, Approved
<1>4. Unpatched'
  BY Forms, EditedAssumption DEF IInv, Kill, TypeOK, Phases, Unpatched
<1>5. OnlyVerifiedWritten'
  BY Forms, EditedAssumption DEF IInv, Kill, TypeOK, Distinct, Phases, Unpatched, OnlyVerifiedWritten, Approved
<1>6. OthersKept'
  BY Forms, EditedAssumption DEF IInv, Kill, TypeOK, Phases, OthersKept, IsTarget
<1>7. WrittenKept'
  BY Forms, EditedAssumption DEF IInv, Kill, TypeOK, Phases, Distinct, WrittenKept
<1>8. RestOriginal'
  BY Forms, EditedAssumption DEF IInv, Kill, TypeOK, Phases, Distinct, RestOriginal, Pending
<1> QED
  BY <1>1, <1>2, <1>3, <1>4, <1>5, <1>6, <1>7, <1>8 DEF IInv

LEMMA NextIInv ==
  ASSUME IInv, [Next]_vars
  PROVE  IInv'
<1>1. CASE UNCHANGED vars
  BY <1>1 DEF vars, checking, applying, IInv, TypeOK, Distinct, Phases, Approved, Unpatched,
    OnlyVerifiedWritten, OthersKept, IsTarget, WrittenKept, RestOriginal, Pending
<1>2. CASE Next
  BY <1>2, SaveStep, LoadStep, TransactStep, ReadStep, WriteStep, RestoreStep, FinishStep, KillStep DEF Next
<1> QED
  BY <1>1, <1>2

\* The three things apply promises follow from the invariant.
LEMMA Promises ==
  ASSUME IInv
  PROVE  OnlyVerifiedWritten /\ AppliedIsVerified /\ FailedIsRolledBack
<1>1. AppliedIsVerified
  BY DEF IInv, TypeOK, Phases, OthersKept, WrittenKept, IsTarget, AppliedIsVerified
<1>2. FailedIsRolledBack
  BY DEF IInv, TypeOK, Phases, RestOriginal, Pending, FailedIsRolledBack
<1> QED
  BY <1>1, <1>2 DEF IInv

\* Along every run of the refactor command, whatever the editor saves and
\* whichever reads and writes fail, the invariant holds.
THEOREM Invariance == Spec => []IInv
BY InitIInv, NextIInv, PTL DEF Spec

\* Verify-before-apply, kills included.
THEOREM VerifiedBeforeApplied == Spec => []OnlyVerifiedWritten
BY Invariance, Promises, PTL

\* apply_patched_sources_with_ops returns Ok only with every verified file
\* in place.
THEOREM SuccessIsComplete == Spec => []AppliedIsVerified
BY Invariance, Promises, PTL

\* An error of apply_patched_sources_with_ops leaves the originals, up to the
\* file whose write failed and those whose rollback failed.
THEOREM FailureIsRolledBack == Spec => []FailedIsRolledBack
BY Invariance, Promises, PTL
=============================================================================

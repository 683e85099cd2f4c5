----------------------------- MODULE PbtRunner ------------------------------
(***************************************************************************)
(* `kyokara test` on one function or property: the saved failing cases are *)
(* replayed, then random cases are explored, and a failure is shrunk, saved*)
(* and reported.  The program is edited between runs, and a run may be     *)
(* killed.  A case is a choice sequence; what it does (the generated       *)
(* arguments and the call) depends on the program alone, as it does for a  *)
(* testable without effects.                                               *)
(***************************************************************************)
EXTENDS Integers, FiniteSets

CONSTANTS
  Cases,           \* choice sequences
  NumTests,        \* config.num_tests
  MaxDiscardRatio, \* MAX_DISCARD_RATIO
  CorpusLimit      \* the last index of a corpus file, 9999 in the code

ASSUME CorpusAssumption ==
  /\ NumTests \in Nat /\ MaxDiscardRatio \in Nat \ {0} /\ CorpusLimit \in Nat \ {0}
  /\ Cases \cap {"free", "torn", "none"} = {}

VARIABLES
  kind,       \* TestableKind
  program,    \* the outcome of every case; "unsupported": GenResult::Unsupported
  corpus,     \* the file at every index: a case, "torn" if unreadable, or "free"
  pc, explore,
  pending,    \* indices of the loaded entries that are still to be replayed
  passed, discarded, attempt,
  found,      \* the failing case on its way to the report
  verdict     \* of the last run, for the program as it is

runnerVars == <<kind, program, corpus, pc, explore, pending, passed, discarded, attempt, found, verdict>>

Slots == 1..CorpusLimit
Outcomes == {"pass", "discard", "fail", "unsupported"}
None == [failed |-> FALSE, case |-> "none"]
Ok == [failed |-> FALSE, case |-> "ok"]
Failed(c) == [failed |-> TRUE, case |-> c]

RunnerInit ==
  /\ kind \in {"function", "property"}
  /\ program \in [Cases -> Outcomes]
  /\ corpus = [s \in Slots |-> "free"]
  /\ pc = "idle" /\ explore = FALSE
  /\ pending = {}
  /\ passed = 0 /\ discarded = 0 /\ attempt = 0
  /\ found = "none"
  /\ verdict = None

\* run_single_test and run_single_property_test: a generator that cannot
\* generate is a discard for a function and a failure for a property.
Outcome(c) ==
  IF program[c] # "unsupported" THEN program[c]
  ELSE IF kind = "function" THEN "discard" ELSE "fail"

Count(outcome) ==
  /\ passed' = passed + (IF outcome = "pass" THEN 1 ELSE 0)
  /\ discarded' = discarded + (IF outcome = "discard" THEN 1 ELSE 0)

Readable == {s \in Slots : corpus[s] \notin {"free", "torn"}}

EditProgram ==
  /\ pc = "idle"
  /\ program' \in [Cases -> Outcomes]
  /\ verdict' = None
  /\ UNCHANGED <<kind, corpus, pc, explore, pending, passed, discarded, attempt, found>>

\* Mutant: the entries end at the first index that holds none.
StartStopsAtGap ==
  /\ pc = "idle"
  /\ explore' \in BOOLEAN
  /\ pending' = {s \in Readable : \A t \in 1..s : t \in Readable}
  /\ pc' = "replay"
  /\ passed' = 0 /\ discarded' = 0 /\ attempt' = 0
  /\ found' = "none" /\ verdict' = None
  /\ UNCHANGED <<kind, program, corpus>>

\* load_entries: what cannot be read or parsed is skipped.
Start ==
  /\ pc = "idle"
  /\ explore' \in BOOLEAN
  /\ pending' = Readable
  /\ pc' = "replay"
  /\ passed' = 0 /\ discarded' = 0 /\ attempt' = 0
  /\ found' = "none" /\ verdict' = None
  /\ UNCHANGED <<kind, program, corpus>>

\* Phase 1, in the order in which the directory is read.
ReplayEntry ==
  /\ pc = "replay"
  /\ \E s \in pending :
       LET c == corpus[s]
       IN  /\ pending' = pending \ {s}
           /\ Count(Outcome(c))
           /\ IF Outcome(c) = "fail" THEN pc' = "idle" /\ verdict' = Failed(c) ELSE UNCHANGED <<pc, verdict>>
  /\ UNCHANGED <<kind, program, corpus, explore, attempt, found>>

EndReplay ==
  /\ pc = "replay"
  /\ pending = {}
  /\ pc' = IF explore THEN "explore" ELSE "finish"
  /\ UNCHANGED <<kind, program, corpus, explore, pending, passed, discarded, attempt, found, verdict>>

\* The loop condition of test_single_function and test_single_property.
Exploring ==
  IF kind = "function" THEN attempt < NumTests
  ELSE passed < NumTests /\ attempt < NumTests * MaxDiscardRatio

\* Mutant: a case that is discarded is drawn again and is no attempt.
ExploreRedraws ==
  /\ pc = "explore"
  /\ \/ /\ Exploring
        /\ \E c \in Cases :
             /\ Outcome(c) # "discard"
             /\ Count(Outcome(c))
             /\ found' = IF Outcome(c) = "fail" THEN c ELSE found
             /\ pc' = IF Outcome(c) = "fail" THEN "shrink" ELSE pc
        /\ attempt' = attempt + 1
        /\ UNCHANGED verdict
     \/ /\ ~Exploring
        /\ pc' = "finish"
        /\ UNCHANGED <<passed, discarded, attempt, found, verdict>>
  /\ UNCHANGED <<kind, program, corpus, explore, pending>>

\* Phase 2.  A property whose generators are invalid is reported at once.
Explore ==
  /\ pc = "explore"
  /\ \/ /\ Exploring
        /\ \E c \in Cases :
             /\ Count(Outcome(c))
             /\ \/ Outcome(c) # "fail" /\ UNCHANGED <<pc, found, verdict>>
                \/ program[c] = "fail" /\ found' = c /\ pc' = "shrink" /\ UNCHANGED verdict
                \/ /\ Outcome(c) = "fail" /\ program[c] = "unsupported"
                   /\ verdict' = Failed(c) /\ pc' = "idle" /\ UNCHANGED found
        /\ attempt' = attempt + 1
     \/ /\ ~Exploring
        /\ pc' = "finish"
        /\ UNCHANGED <<passed, discarded, attempt, found, verdict>>
  /\ UNCHANGED <<kind, program, corpus, explore, pending>>

\* Mutant: a candidate that is discarded is taken for a smaller failing one.
ShrinkFoundToAny ==
  /\ pc = "shrink"
  /\ found' \in {c \in Cases : Outcome(c) \in {"fail", "discard"}}
  /\ pc' = "save"
  /\ UNCHANGED <<kind, program, corpus, explore, pending, passed, discarded, attempt, verdict>>

\* shrink_failure: some case that fails (module Shrink shows StillFails).
ShrinkFound ==
  /\ pc = "shrink"
  /\ found' \in {c \in Cases : Outcome(c) = "fail"}
  /\ pc' = "save"
  /\ UNCHANGED <<kind, program, corpus, explore, pending, passed, discarded, attempt, verdict>>

\* save_entry: the first index without a file; none if the corpus is full.
FreeSlot == {s \in Slots : corpus[s] = "free" /\ \A t \in 1..s-1 : corpus[t] # "free"}

\* The file is written, or writing fails and leaves none or half of it; the
\* result of save_entry is ignored and the failure is reported in any case.
Save ==
  /\ pc = "save"
  /\ \/ \E s \in FreeSlot, file \in {found, "torn"} : corpus' = [corpus EXCEPT ![s] = file]
     \/ UNCHANGED corpus
  /\ pc' = "idle"
  /\ verdict' = Failed(found)
  /\ UNCHANGED <<kind, program, explore, pending, passed, discarded, attempt, found>>

\* No failing case: a property of which every case was discarded fails.
Finish ==
  /\ pc = "finish"
  /\ pc' = "idle"
  /\ verdict' = IF kind = "property" /\ explore /\ passed = 0 /\ discarded > 0 THEN Failed("none") ELSE Ok
  /\ UNCHANGED <<kind, program, corpus, explore, pending, passed, discarded, attempt, found>>

\* The process is killed, possibly while it writes an entry.
Kill ==
  /\ pc # "idle"
  /\ \/ UNCHANGED corpus
     \/ pc = "save" /\ \E s \in FreeSlot, file \in {found, "torn"} : corpus' = [corpus EXCEPT ![s] = file]
  /\ pc' = "idle"
  /\ UNCHANGED <<kind, program, explore, pending, passed, discarded, attempt, found, verdict>>

RunnerStep == ReplayEntry \/ EndReplay \/ Explore \/ ShrinkFound \/ Save \/ Finish

RunnerNext == EditProgram \/ Start \/ RunnerStep \/ Kill

RunnerSpec == RunnerInit /\ [][RunnerNext]_runnerVars /\ WF_runnerVars(RunnerStep)

-----------------------------------------------------------------------------
\* A program that passes a run fails on none of the cases its corpus holds,
\* whether or not the run explored: a regression that was once saved and can
\* be read is found again by every later run, until the program is fixed.
NoSavedFailureMissed ==
  verdict = Ok => \A s \in Readable : Outcome(corpus[s]) # "fail"

\* The case that is reported fails when it is replayed, although it was
\* replaced by a smaller one after it was found.
ReportedCaseFails ==
  verdict.failed /\ verdict.case # "none" => Outcome(verdict.case) = "fail"

\* A run ends, even if no case ever satisfies the precondition.
RunEnds == pc # "idle" ~> pc = "idle"
=============================================================================

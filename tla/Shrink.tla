------------------------------- MODULE Shrink -------------------------------
(***************************************************************************)
(* Shrinking a failing choice sequence: four passes, repeated until a      *)
(* round of them finds nothing.  One step tries one candidate.  Whether a  *)
(* sequence fails is decided when it is first replayed and stays decided:  *)
(* replaying a sequence is deterministic.  Positions count from 1.         *)
(***************************************************************************)
EXTENDS Integers, Sequences

CONSTANTS
  Recorded,    \* the sequences a recorder may have produced
  MaxAttempts  \* MAX_ATTEMPTS

IsRecording(b) ==
  /\ b \in [choices : Seq(Nat), maxima : Seq(Nat)]
  /\ Len(b.choices) = Len(b.maxima)
  /\ \A k \in DOMAIN b.choices : b.choices[k] <= b.maxima[k]

ASSUME ShrinkAssumption ==
  /\ \A b \in Recorded : IsRecording(b)
  /\ MaxAttempts \in Nat

VARIABLES
  best,              \* [choices, maxima]
  failing, rejected, \* the sequences replayed so far: StillFails, and the rest
  attempts, progress,
  pass,              \* 1..4; 5: the round is over; 6: shrinking is over
  i, block,          \* position, and size of the blocks being deleted
  lo, hi             \* bounds of the binary search

vars == <<best, failing, rejected, attempts, progress, pass, i, block, lo, hi>>

Init ==
  /\ best \in Recorded
  /\ failing = {best.choices}
  /\ rejected = {}
  /\ attempts = 0
  /\ progress = FALSE
  /\ pass = 1
  /\ i = 1
  /\ block = 8
  /\ lo = 0
  /\ hi = 0

More == attempts < MaxAttempts
Idle == UNCHANGED <<best, failing, rejected, attempts, progress>>

\* Replay a candidate; it becomes the best one if it still fails.
Try(c, Kept, Refused) ==
  /\ attempts' = attempts + 1
  /\ \/ /\ c.choices \notin rejected
        /\ failing' = failing \cup {c.choices}
        /\ best' = c
        /\ progress' = TRUE
        /\ UNCHANGED rejected
        /\ Kept
     \/ /\ c.choices \notin failing
        /\ rejected' = rejected \cup {c.choices}
        /\ UNCHANGED <<best, failing, progress>>
        /\ Refused

\* Candidates made from b.
ZeroedFrom(b, k) ==
  [choices |-> Append(SubSeq(b.choices, 1, k - 1), 0), maxima |-> SubSeq(b.maxima, 1, k)]

Drain(s, k, size) == SubSeq(s, 1, k - 1) \o SubSeq(s, k + size, Len(s))

Without(b, k, size) == [choices |-> Drain(b.choices, k, size), maxima |-> Drain(b.maxima, k, size)]

With(b, k, value) == [choices |-> [b.choices EXCEPT ![k] = value], maxima |-> b.maxima]

SwapAt(s, k) == [s EXCEPT ![k] = s[k + 1], ![k + 1] = s[k]]

\* Mutant: a choice is swapped and its maximum is not.
SwappedChoicesOnly(b, k) == [choices |-> SwapAt(b.choices, k), maxima |-> b.maxima]

Swapped(b, k) == [choices |-> SwapAt(b.choices, k), maxima |-> SwapAt(b.maxima, k)]

\* Pass 1: zero from position i on and truncate, where that shortens.
ZeroSuffix ==
  /\ pass = 1
  /\ IF i <= Len(best.choices) /\ More
       THEN /\ IF i < Len(best.choices)
                 THEN Try(ZeroedFrom(best, i), i' = i, i' = i + 1)
                 ELSE Idle /\ i' = i + 1
            /\ UNCHANGED <<pass, block>>
       ELSE Idle /\ pass' = 2 /\ i' = 1 /\ block' = 8
  /\ UNCHANGED <<lo, hi>>

\* The search at position k starts from the whole range below its choice.
StartSearch(k) ==
  /\ i' = k
  /\ lo' = 0
  /\ hi' = IF k <= Len(best.choices) THEN best.choices[k] ELSE 0

\* Pass 2: delete blocks of 8, 4, 2 and 1 choices.
DeleteBlock ==
  /\ pass = 2
  /\ \/ /\ i + block - 1 <= Len(best.choices) /\ More
        /\ Try(Without(best, i, block), i' = i, i' = i + 1)
        /\ UNCHANGED <<pass, block, lo, hi>>
     \/ /\ ~(i + block - 1 <= Len(best.choices) /\ More)
        /\ Idle
        /\ IF block > 1
             THEN block' = block \div 2 /\ i' = 1 /\ UNCHANGED <<pass, lo, hi>>
             ELSE pass' = 3 /\ StartSearch(1) /\ UNCHANGED block

\* Pass 3: binary-search each choice towards 0.
Minimize ==
  /\ pass = 3
  /\ LET mid == lo + (hi - lo) \div 2
     IN  \/ /\ i <= Len(best.choices) /\ More
            /\ IF lo < hi
                 THEN /\ Try(With(best, i, mid), hi' = mid /\ lo' = lo, lo' = mid + 1 /\ hi' = hi)
                      /\ UNCHANGED i
                 ELSE Idle /\ StartSearch(i + 1)
            /\ UNCHANGED pass
         \/ /\ ~(i <= Len(best.choices) /\ More)
            /\ Idle /\ pass' = 4 /\ i' = 1 /\ UNCHANGED <<lo, hi>>
  /\ UNCHANGED block

\* Mutant: the pairs already in order are swapped.
SwapPairBackwards ==
  /\ pass = 4
  /\ IF i < Len(best.choices) /\ More
       THEN /\ IF best.choices[i] < best.choices[i + 1]
                 THEN Try(Swapped(best, i), i' = i + 1, i' = i + 1)
                 ELSE Idle /\ i' = i + 1
            /\ UNCHANGED pass
       ELSE Idle /\ pass' = 5 /\ UNCHANGED i
  /\ UNCHANGED <<block, lo, hi>>

\* Pass 4: swap a choice with a smaller one after it.
SwapPair ==
  /\ pass = 4
  /\ IF i < Len(best.choices) /\ More
       THEN /\ IF best.choices[i] > best.choices[i + 1]
                 THEN Try(Swapped(best, i), i' = i + 1, i' = i + 1)
                 ELSE Idle /\ i' = i + 1
            /\ UNCHANGED pass
       ELSE Idle /\ pass' = 5 /\ UNCHANGED i
  /\ UNCHANGED <<block, lo, hi>>

\* Mutant: one round is enough.
EndRoundOnce ==
  /\ pass = 5
  /\ pass' = 6
  /\ UNCHANGED <<best, failing, rejected, attempts, progress, i, block, lo, hi>>

\* Another round, unless nothing was found or the attempts are used up.
EndRound ==
  /\ pass = 5
  /\ IF progress /\ More
       THEN pass' = 1 /\ i' = 1 /\ progress' = FALSE
       ELSE pass' = 6 /\ UNCHANGED <<i, progress>>
  /\ UNCHANGED <<best, failing, rejected, attempts, block, lo, hi>>

Next == ZeroSuffix \/ DeleteBlock \/ Minimize \/ SwapPair \/ EndRound

Spec == Init /\ [][Next]_vars

-----------------------------------------------------------------------------
BlockSizes == {8, 4, 2, 1}

\* The types of the variables.
TypeOK ==
  /\ best \in [choices : Seq(Nat), maxima : Seq(Nat)]
  /\ failing \subseteq Seq(Nat)
  /\ rejected \subseteq Seq(Nat)
  /\ attempts \in 0..MaxAttempts
  /\ progress \in BOOLEAN
  /\ pass \in 1..6
  /\ i \in Nat \ {0}
  /\ block \in BlockSizes
  /\ lo \in Nat
  /\ hi \in Nat

\* What the shrinker holds is always a recording that could have been drawn:
\* choices and maxima run in parallel and no choice exceeds its own maximum,
\* whatever blocks were deleted and pairs swapped (ChoiceSequence::new asserts
\* the first half only).
StaysRecording == IsRecording(best)

\* The best sequence has been seen to fail, and no sequence was judged twice
\* with different results: the case that is reported and saved reproduces.
StillFails == best.choices \in failing /\ failing \cap rejected = {}

\* Shortlex order on choice sequences.
Smaller(s, t) ==
  \/ Len(s) < Len(t)
  \/ /\ Len(s) = Len(t)
     /\ \E k \in 1..Len(s) : s[k] < t[k] /\ \A j \in 1..k-1 : s[j] = t[j]

\* Every accepted candidate is smaller, by length and then lexicographically,
\* than the one it replaces.  The order is well-founded, so shrinking ends
\* even without the limit on attempts, and never undoes an earlier pass.
OnlySmaller == [][best' # best => Smaller(best'.choices, best.choices)]_vars

\* Shrinking that ends before the attempts are used up ends in a local
\* minimum of all four passes: the last round tried, on this very sequence,
\* every shortening, every deletion of a block, lowering any one choice by one
\* and every swap, and all were rejected.
LocalMinimum ==
  (pass = 6 /\ More) =>
    LET n == Len(best.choices)
    IN  /\ \A k \in 1..n-1 : ZeroedFrom(best, k).choices \in rejected
        /\ \A size \in BlockSizes : \A k \in 1..(n + 1 - size) : Without(best, k, size).choices \in rejected
        /\ \A k \in 1..n : best.choices[k] > 0 => With(best, k, best.choices[k] - 1).choices \in rejected
        /\ \A k \in 1..n-1 :
             best.choices[k] > best.choices[k + 1] => Swapped(best, k).choices \in rejected
=============================================================================

------------------------------- MODULE MCPbt --------------------------------
(***************************************************************************)
(* `kyokara test`: either the shrinker on one recorded failure, or the     *)
(* runner with its corpus, which takes shrinking as one step.              *)
(*                                                                         *)
(* The recordings are all those of up to 3 choices up to 3, with the       *)
(* maxima of a mixed and of a uniform generator, and one long enough for a *)
(* block of 8.                                                             *)
(***************************************************************************)
EXTENDS Shrink, PbtRunner

Upto(n) == UNION {[1..k -> 0..3] : k \in 0..n}

MCRecorded ==
  { b \in {[choices |-> c, maxima |-> SubSeq(m, 1, Len(c))] : c \in Upto(3), m \in {<<3, 1, 2>>, <<3, 3, 3>>}} :
      \A k \in DOMAIN b.choices : b.choices[k] <= b.maxima[k] }
  \cup {[choices |-> <<0, 0, 0, 0, 0, 0, 0, 2, 1>>, maxima |-> <<0, 0, 0, 0, 0, 0, 0, 2, 1>>]}

(* Which of the two it is; the variables of the other keep their values. *)
Shrinking == kind = "none"

PbtInit ==
  \/ /\ Init
     /\ Shrinking
     /\ program = <<>> /\ corpus = <<>> /\ pc = "idle" /\ explore = FALSE /\ pending = {}
     /\ passed = 0 /\ discarded = 0 /\ attempt = 0 /\ found = "none" /\ verdict = None
  \/ /\ RunnerInit
     /\ best = [choices |-> <<>>, maxima |-> <<>>] /\ failing = {<<>>} /\ rejected = {}
     /\ attempts = 0 /\ progress = FALSE /\ pass = 6 /\ i = 1 /\ block = 8 /\ lo = 0 /\ hi = 0

PbtNext ==
  \/ Shrinking /\ Next /\ UNCHANGED runnerVars
  \/ ~Shrinking /\ RunnerNext /\ UNCHANGED vars
RunnerGoesOn == ~Shrinking /\ RunnerStep /\ UNCHANGED vars

PbtSpec ==
  PbtInit /\ [][PbtNext]_<<vars, runnerVars>> /\ WF_<<vars, runnerVars>>(RunnerGoesOn)
=============================================================================

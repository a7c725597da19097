------------------------------- MODULE KBest --------------------------------
(***************************************************************************)
(* Malloc/malloclab-handout/fcyc.c: the K-best scheme that times           *)
(* eval_mm_speed.  fcyc measures until the kbest smallest measurements lie *)
(* within epsilon of each other, or maxsamples have been taken, and        *)
(* returns the smallest.  epsilon is the fraction EpsNum / EpsDen; a       *)
(* measurement is an integer, negative when more was compensated for timer *)
(* interrupts than was measured.  That f returns is assumed here.          *)
(***************************************************************************)
EXTENDS Integers, Sequences, FiniteSets

CONSTANTS kbest, maxsamples, EpsNum, EpsDen,
          Cycles           \* what a measurement may give

ASSUME KBestAssumption ==
  /\ kbest \in Nat \ {0} /\ maxsamples \in Nat \ {0}
  /\ EpsNum \in Nat /\ EpsDen \in Nat \ {0}
  /\ Cycles \subseteq Int

VARIABLES values,          \* values[0 .. kbest-1]
          samplecount,
          result,          \* what fcyc returned last
          running,         \* fcyc is measuring
          taken            \* history: the measurements of this call

vars == <<values, samplecount, result, running, taken>>

Slots == 0 .. kbest - 1

Init == /\ values = [k \in Slots |-> 0] /\ samplecount = 0
        /\ result = 0 /\ running = FALSE /\ taken = << >>

init_sampler ==
  /\ ~running
  /\ values' = [k \in Slots |-> 0] /\ samplecount' = 0
  /\ running' = TRUE /\ taken' = << >>
  /\ UNCHANGED result

(* The insertion sort: the value at pos moves left, past every larger one. *)
Sifted(v, pos) ==
  LET to == CHOOSE k \in 0 .. pos :
              /\ \A j \in k .. pos - 1 : v[j] > v[pos]
              /\ k > 0 => v[k - 1] <= v[pos]
  IN  [k \in Slots |-> IF k = to THEN v[pos]
                       ELSE IF to < k /\ k <= pos THEN v[k - 1]
                       ELSE v[k]]

\* mutant: the last slot is overwritten by any measurement
add_sample_Any(val) ==
  LET pos == IF samplecount < kbest THEN samplecount ELSE kbest - 1
  IN  /\ values' = Sifted([values EXCEPT ![pos] = val], pos)
      /\ samplecount' = samplecount + 1

(* A full table takes only a value smaller than its largest. *)
add_sample(val) ==
  /\ values' = IF samplecount < kbest
               THEN Sifted([values EXCEPT ![samplecount] = val], samplecount)
               ELSE IF val < values[kbest - 1]
               THEN Sifted([values EXCEPT ![kbest - 1] = val], kbest - 1)
               ELSE values
  /\ samplecount' = samplecount + 1

\* mutant: does not wait for kbest measurements
Converged_Early(v, count) == (EpsDen + EpsNum) * v[0] >= EpsDen * v[kbest - 1]

(* has_converged: (1 + epsilon) * values[0] >= values[kbest-1]. *)
Converged(v, count) ==
  count >= kbest /\ (EpsDen + EpsNum) * v[0] >= EpsDen * v[kbest - 1]

GoesOn(v, count) == ~Converged(v, count) /\ count < maxsamples

(* One turn of the do loop: f is run and timed. *)
Measure ==
  /\ running
  /\ samplecount = 0 \/ GoesOn(values, samplecount)
  /\ \E val \in Cycles : add_sample(val) /\ taken' = Append(taken, val)
  /\ UNCHANGED <<result, running>>

Return ==
  /\ running /\ samplecount > 0 /\ ~GoesOn(values, samplecount)
  /\ result' = values[0] /\ running' = FALSE
  /\ UNCHANGED <<values, samplecount, taken>>

Next == init_sampler \/ Measure \/ Return

Spec == Init /\ [][Next]_vars
-----------------------------------------------------------------------------
Filled == 0 .. (IF samplecount < kbest THEN samplecount ELSE kbest) - 1

TypeOK ==
  /\ values \in [Slots -> Int] /\ samplecount \in Nat
  /\ result \in Int /\ running \in BOOLEAN
  /\ taken \in Seq(Cycles) /\ samplecount = Len(taken)

(* How many measurements are below x, and how many table entries are.      *)
TakenBelow(x)  == Cardinality({k \in DOMAIN taken : taken[k] < x})
StoredBelow(x) == Cardinality({k \in Filled : values[k] < x})

(* The table holds the kbest smallest measurements, ties included, in      *)
(* ascending order: below every bound there are as many entries as         *)
(* measurements, up to kbest.                                              *)
HoldsTheSmallest ==
  /\ \A j, k \in Filled : j < k => values[j] <= values[k]
  /\ \A x \in {taken[k] + 1 : k \in DOMAIN taken} \cup {values[k] + 1 : k \in Filled} :
       StoredBelow(x) = IF TakenBelow(x) < kbest THEN TakenBelow(x) ELSE kbest

(* What fcyc returns is the smallest measurement of the call; unless it    *)
(* gave up after exactly maxsamples (fcyc.c:229-231), kbest measurements   *)
(* are within epsilon of it.                                               *)
ReturnsTheBest ==
  ~running /\ samplecount > 0 =>
    /\ \E k \in DOMAIN taken : taken[k] = result
    /\ \A k \in DOMAIN taken : taken[k] >= result
    /\ \/ samplecount = maxsamples
       \/ Cardinality({k \in DOMAIN taken :
                         EpsDen * taken[k] <= (EpsDen + EpsNum) * result}) >= kbest
=============================================================================

-------------------------------- MODULE Fcyc --------------------------------
(***************************************************************************)
(* Malloc/malloclab-handout/fcyc.c over clock.c: how one measurement of    *)
(* KBest is taken.  clock.c keeps the cycle counter as two halves, and     *)
(* subtracts Unit-ths of a cycle for every timer interrupt, whose cost     *)
(* callibrate estimates.  Cycles and interrupts pass between any two steps.*)
(***************************************************************************)
EXTENDS KBest

CONSTANTS Base,            \* 2^32: a half of the counter
          Gaps,            \* cycles that may pass between two steps
          Unit,            \* a cycle, in the unit of measurements
          NEVENT, THRESHOLD, RECORDTHRESH,
          MaxTicks         \* bound: interrupts

ASSUME FcycAssumption ==
  /\ Base \in Nat \ {0} /\ Gaps \subseteq Nat /\ Unit \in Nat \ {0}
  /\ NEVENT \in Nat /\ THRESHOLD \in Nat /\ RECORDTHRESH \in Nat /\ MaxTicks \in Nat

VARIABLES
  compensate,
  tsc, utime,              \* the processor's counter and the ticks of user time
  cyc_hi, cyc_lo,          \* where start_counter was
  cyc_per_tick, start_tick,
  oldt, oldc, e,           \* callibrate's locals
  time,                    \* what get_counter returned last
  pc,
  elapsed, inside          \* history: cycles since start_counter, ticks while f ran

counter == <<cyc_hi, cyc_lo>>
locals  == <<oldt, oldc, e>>
clock   == <<tsc, utime, elapsed, inside>>
fvars   == <<vars, compensate, clock, counter, cyc_per_tick, start_tick, locals, time, pc>>

FInit ==
  /\ Init /\ compensate \in BOOLEAN
  /\ tsc \in 0 .. Base * Base - 1 /\ utime = 0
  /\ cyc_hi = 0 /\ cyc_lo = 0 /\ cyc_per_tick = 0 /\ start_tick = 0
  /\ oldt = 0 /\ oldc = 0 /\ e = 0 /\ time = 0 /\ pc = "ready"
  /\ elapsed = 0 /\ inside = 0
-----------------------------------------------------------------------------
(* access_counter. *)
Hi == tsc \div Base
Lo == tsc % Base

start_counter == cyc_hi' = Hi /\ cyc_lo' = Lo /\ elapsed' = 0 /\ inside' = 0

\* mutant: no borrow from the high half
get_counter_NoBorrow ==
  LET lo == (Lo - cyc_lo) % Base
      hi == (Hi - cyc_hi) % Base
  IN  hi * Base + lo

(* The halves are subtracted in unsigned arithmetic. *)
get_counter ==
  LET lo     == (Lo - cyc_lo) % Base
      borrow == IF lo > Lo THEN 1 ELSE 0
      hi     == (Hi - cyc_hi - borrow) % Base
  IN  hi * Base + lo

(* Between the steps of a run of f; none takes as long as the counter needs *)
(* to come round.                                                           *)
Elapse ==
  /\ pc \notin {"ready", "times"}
  /\ \E d \in Gaps, t \in {0, 1} :
       /\ elapsed + d < Base * Base /\ utime + t <= MaxTicks
       /\ tsc' = (tsc + d) % (Base * Base) /\ elapsed' = elapsed + d
       /\ utime' = utime + t /\ inside' = IF pc = "f" THEN inside + t ELSE inside
  /\ UNCHANGED <<vars, compensate, counter, cyc_per_tick, start_tick, locals, time, pc>>
-----------------------------------------------------------------------------
Call == init_sampler /\ UNCHANGED <<compensate, clock, counter, cyc_per_tick, start_tick,
                                    locals, time, pc>>

\* mutant: does not ask whether it has converged
Begin_Always ==
  /\ pc = "ready" /\ running
  /\ pc' = IF ~compensate THEN "start" ELSE IF cyc_per_tick = 0 THEN "callibrate" ELSE "times"
  /\ UNCHANGED <<vars, compensate, clock, counter, cyc_per_tick, start_tick, locals, time>>

(* The do loop's next turn. *)
Begin ==
  /\ pc = "ready" /\ running /\ (samplecount = 0 \/ GoesOn(values, samplecount))
  /\ pc' = IF ~compensate THEN "start" ELSE IF cyc_per_tick = 0 THEN "callibrate" ELSE "times"
  /\ UNCHANGED <<vars, compensate, clock, counter, cyc_per_tick, start_tick, locals, time>>

(* callibrate reads the ticks, *)
Callibrate ==
  /\ pc = "callibrate"
  /\ oldc' = utime /\ e' = 0 /\ pc' = "begun"
  /\ UNCHANGED <<vars, compensate, clock, counter, cyc_per_tick, start_tick, oldt, time>>

(* starts the counter, *)
BeginCount ==
  /\ pc = "begun"
  /\ start_counter /\ pc' = "first"
  /\ UNCHANGED <<vars, compensate, tsc, utime, cyc_per_tick, start_tick, locals, time>>

(* reads it, *)
FirstCount ==
  /\ pc = "first"
  /\ oldt' = get_counter
  /\ pc' = IF NEVENT = 0 THEN "times" ELSE "loop"
  /\ UNCHANGED <<vars, compensate, clock, counter, cyc_per_tick, start_tick, oldc, e, time>>

(* reads it again in every turn of the loop, *)
ReadCounter ==
  /\ pc = "loop"
  /\ time' = get_counter
  /\ pc' = IF time' - oldt >= THRESHOLD THEN "event" ELSE "loop"
  /\ UNCHANGED <<vars, compensate, clock, counter, cyc_per_tick, start_tick, locals>>

(* and the ticks when THRESHOLD cycles have passed.  The cost is the least  *)
(* that is above RECORDTHRESH; if there is none it stays 0, and the next    *)
(* start_comp_counter callibrates again.                                    *)
Event ==
  LET cpt == ((time - oldt) * Unit) \div (utime - oldc)
  IN  /\ pc = "event"
      /\ IF utime > oldc
           THEN /\ cyc_per_tick' = IF /\ cyc_per_tick = 0 \/ cyc_per_tick > cpt
                                      /\ cpt > RECORDTHRESH * Unit
                                   THEN cpt ELSE cyc_per_tick
                /\ e' = e + 1 /\ oldc' = utime
           ELSE UNCHANGED <<cyc_per_tick, e, oldc>>
      /\ oldt' = time /\ time' = 0
      /\ pc' = IF e' = NEVENT THEN "times" ELSE "loop"
      /\ UNCHANGED <<vars, compensate, clock, counter, start_tick>>

(* start_comp_counter reads the ticks first, then the counter; *)
StartTick ==
  /\ pc = "times"
  /\ start_tick' = utime /\ pc' = "start"
  /\ oldt' = 0 /\ oldc' = 0 /\ e' = 0             \* callibrate's locals are gone
  /\ UNCHANGED <<vars, compensate, clock, counter, cyc_per_tick, time>>

\* mutant: the ticks are read after the counter is started
StartCounter_TicksAfter ==
  /\ pc = "start"
  /\ cyc_hi' = Hi /\ cyc_lo' = Lo /\ elapsed' = 0 /\ pc' = "f"
  /\ \E t \in {0, 1} : /\ utime + t <= MaxTicks
                       /\ utime' = utime + t /\ start_tick' = utime + t /\ inside' = t
  /\ UNCHANGED <<vars, compensate, tsc, cyc_per_tick, locals, time>>

StartCounter ==
  /\ pc = "start"
  /\ start_counter /\ pc' = "f"
  /\ UNCHANGED <<vars, compensate, tsc, utime, cyc_per_tick, start_tick, locals, time>>

(* f runs; get_comp_counter reads the counter first, then the ticks. *)
GetCounter ==
  /\ pc = "f"
  /\ time' = get_counter /\ pc' = "stop"
  /\ UNCHANGED <<vars, compensate, clock, counter, cyc_per_tick, start_tick, locals>>

Stop ==
  LET ticks == utime - start_tick
      val   == time * Unit - (IF compensate THEN ticks * cyc_per_tick ELSE 0)
  IN  /\ pc = "stop"
      /\ add_sample(val) /\ taken' = Append(taken, val) /\ pc' = "ready" /\ time' = 0
      /\ UNCHANGED <<result, running, compensate, clock, counter, cyc_per_tick, start_tick,
                     locals>>

Done == pc = "ready" /\ Return /\ UNCHANGED <<compensate, clock, counter, cyc_per_tick,
                                              start_tick, locals, time, pc>>

FNext == \/ Elapse \/ Call \/ Begin \/ Callibrate \/ BeginCount \/ FirstCount
         \/ ReadCounter \/ Event \/ StartTick \/ StartCounter \/ GetCounter \/ Stop \/ Done

FSpec == FInit /\ [][FNext]_fvars
-----------------------------------------------------------------------------
(* The two halves, the borrow included, give the cycles that passed since   *)
(* start_counter, wherever the counter was and however often it wrapped.    *)
CounterIsElapsed == pc \in {"first", "loop", "event", "f"} => get_counter = elapsed

(* The ticks are read before the counter is started and after it is read,   *)
(* so that every interrupt of f's run is taken off the measurement: it may  *)
(* be too small, and even negative, but it is never too large.              *)
EveryTickIsCompensated ==
  [][pc = "stop" /\ taken' # taken /\ compensate =>
       taken'[Len(taken')] <= time * Unit - inside * cyc_per_tick]_fvars

(* Taking a measurement in these steps implements the scheme of KBest.      *)
MeasuresAsKBest == Spec
=============================================================================

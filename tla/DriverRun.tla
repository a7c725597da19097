----------------------------- MODULE DriverRun ------------------------------
(***************************************************************************)
(* main and run_tests of mdriver.c, over all traces: what is evaluated,    *)
(* what is scored, and how the SIGALRM of option -s, which may come at any *)
(* moment, changes that.  The evaluation of one trace, which MDriver       *)
(* details, is one step here, with any outcome; the malloc package may     *)
(* also crash or never return.                                             *)
(***************************************************************************)
EXTENDS Integers, FiniteSets

CONSTANTS NumTraces,       \* bound: num_tracefiles is at most this
          MaxErrors        \* bound: errors of one evaluation

ASSUME RunAssumption == NumTraces \in Nat \ {0} /\ MaxErrors \in Nat

Trace == 0 .. NumTraces - 1

VARIABLES
  num,                     \* num_tracefiles
  set_timeout,             \* option -s was given
  run_libc,                \* option -l
  onetime_flag,            \* option -c
  pc,                      \* the next step, or how the driver ended
  i,                       \* the loop variable of main's or run_tests' loop
  timed_out,
  valid, util, secs,       \* mm_stats: valid; has util, has secs been set?
  errors,
  handler,                 \* what SIGALRM calls: "none", "sigalrm", "timeout"
  alarm,                   \* "off", "set" or "gone"
  jmpbuf,                  \* timeout_jmpbuf: "none", "live", or "dead" once run_tests has returned
  hung,                    \* the package is in an endless loop
  cut                      \* history: the trace the timeout fell on, or -1

options == <<num, set_timeout, run_libc, onetime_flag>>
stats   == <<valid, util, secs, errors>>
timer   == <<handler, alarm>>
vars    == <<options, pc, i, timed_out, stats, timer, jmpbuf, hung, cut>>

Init ==
  /\ num \in 1 .. NumTraces
  /\ set_timeout \in BOOLEAN /\ run_libc \in BOOLEAN /\ onetime_flag \in BOOLEAN
  /\ onetime_flag => num = 1
  /\ pc = "main" /\ i = 0 /\ timed_out = FALSE
  /\ valid = [t \in Trace |-> 0]
  /\ util = [t \in Trace |-> FALSE] /\ secs = [t \in Trace |-> FALSE]
  /\ errors = 0
  /\ handler = "none" /\ alarm = "off" /\ jmpbuf = "none"
  /\ hung = FALSE /\ cut = -1

Ended == {"exit 0", "exit 1", "killed", "undefined"}

At(step) == pc = step /\ ~hung

(* Steps that do not touch the timer. *)
Quiet == UNCHANGED <<options, timer, timed_out, cut>>
-----------------------------------------------------------------------------
(* main, up to the tests.                                                  *)

(* init_timeout installs a handler of its own before it calls alarm. *)
InitTimeout ==
  /\ At("main")
  /\ IF set_timeout
     THEN handler' = "sigalrm" /\ alarm' = "set" /\ pc' = "signal"
     ELSE UNCHANGED timer /\ pc' = "libc"
  /\ UNCHANGED <<options, i, timed_out, stats, jmpbuf, hung, cut>>

SetHandler ==
  /\ At("signal")
  /\ handler' = "timeout" /\ pc' = "libc"
  /\ UNCHANGED <<options, i, timed_out, stats, alarm, jmpbuf, hung, cut>>

(* The libc package is evaluated outside of any setjmp; an error exits. *)
LibcTrace ==
  /\ At("libc") /\ run_libc /\ i < num
  /\ \/ pc' = "libc" /\ i' = i + 1
     \/ pc' = "exit 1" /\ UNCHANGED i
  /\ Quiet /\ UNCHANGED <<stats, jmpbuf, hung>>

LibcDone ==
  /\ At("libc") /\ (run_libc => i = num)
  /\ pc' = "for" /\ i' = 0
  /\ Quiet /\ UNCHANGED <<stats, jmpbuf, hung>>
-----------------------------------------------------------------------------
(* run_tests.                                                              *)

RunTestsReturns == pc' = "report" /\ jmpbuf' = "dead"

(* The loop condition, and setjmp. *)
For ==
  /\ At("for")
  /\ IF i < num THEN pc' = "read" /\ jmpbuf' = "live" ELSE RunTestsReturns
  /\ Quiet /\ UNCHANGED <<i, stats, hung>>

\* mutant: after a timeout the verdicts are left as they are
ReadTrace_KeepsVerdict ==
  /\ At("read")
  /\ \/ /\ i < num
        /\ pc' = IF timed_out THEN "next" ELSE "valid"
     \/ i < num /\ pc' = "exit 1"
     \/ i = num /\ pc' = "undefined"
  /\ Quiet /\ UNCHANGED <<i, stats, jmpbuf, hung>>

\* mutant: the trace that was cut off is evaluated again
ReadTrace_Again ==
  /\ At("read")
  /\ \/ i < num /\ (~timed_out \/ i = cut) /\ pc' = "valid" /\ UNCHANGED valid
     \/ i < num /\ timed_out /\ i # cut /\ pc' = "next" /\ valid' = [valid EXCEPT ![i] = 0]
     \/ i < num /\ pc' = "exit 1" /\ UNCHANGED valid
     \/ i = num /\ pc' = "undefined" /\ UNCHANGED valid
  /\ Quiet /\ UNCHANGED <<i, util, secs, errors, jmpbuf, hung>>

(* read_trace exits on a file it cannot use; tracefiles[num] is NULL.      *)
(* Once timed out, every trace is read but none is evaluated.              *)
ReadTrace ==
  /\ At("read")
  /\ \/ i < num /\ ~timed_out /\ pc' = "valid" /\ UNCHANGED valid
     \/ i < num /\ timed_out /\ pc' = "next" /\ valid' = [valid EXCEPT ![i] = 0]
     \/ i < num /\ pc' = "exit 1" /\ UNCHANGED valid
     \/ i = num /\ pc' = "undefined" /\ UNCHANGED valid
  /\ Quiet /\ UNCHANGED <<i, util, secs, errors, jmpbuf, hung>>

(* The package crashes, or never returns. *)
Fails == \/ pc' = "killed" /\ UNCHANGED hung
         \/ hung' = TRUE /\ UNCHANGED pc

(* A trace is rejected with an error at least; it may be accepted with     *)
(* errors.  With -c the loop ends here.                                    *)
EvalValid ==
  /\ At("valid")
  /\ \/ /\ \E e \in 0 .. MaxErrors, v \in {0, 1} :
             /\ v = 0 => e > 0
             /\ errors' = errors + e
             /\ valid' = [valid EXCEPT ![i] = v]
             /\ IF onetime_flag THEN RunTestsReturns
                ELSE pc' = (IF v = 1 THEN "util" ELSE "next") /\ UNCHANGED jmpbuf
        /\ UNCHANGED hung
     \/ Fails /\ UNCHANGED <<errors, valid, jmpbuf>>
  /\ Quiet /\ UNCHANGED <<i, util, secs>>

(* app_error exits. *)
EvalUtil ==
  /\ At("util")
  /\ \/ pc' = "speed" /\ util' = [util EXCEPT ![i] = TRUE] /\ UNCHANGED hung
     \/ pc' = "exit 1" /\ UNCHANGED <<util, hung>>
     \/ Fails /\ UNCHANGED util
  /\ Quiet /\ UNCHANGED <<i, valid, secs, errors, jmpbuf>>

EvalSpeed ==
  /\ At("speed")
  /\ \/ pc' = "next" /\ secs' = [secs EXCEPT ![i] = TRUE] /\ UNCHANGED hung
     \/ pc' = "exit 1" /\ UNCHANGED <<secs, hung>>
     \/ Fails /\ UNCHANGED secs
  /\ Quiet /\ UNCHANGED <<i, valid, util, errors, jmpbuf>>

NextTrace ==
  /\ At("next")
  /\ i' = i + 1 /\ pc' = "for"
  /\ Quiet /\ UNCHANGED <<stats, jmpbuf, hung>>
-----------------------------------------------------------------------------
(* The scores are printed and posted; the alarm is still on. *)
Report ==
  /\ At("report") /\ pc' = "post"
  /\ Quiet /\ UNCHANGED <<i, stats, jmpbuf, hung>>

(* driver_post, which Submit details, waits for the server's answer.       *)
Post ==
  /\ At("post") /\ pc' \in {"exit 0", "posting"}
  /\ Quiet /\ UNCHANGED <<i, stats, jmpbuf, hung>>

(* The answer comes, or the connection ends, with SIGPIPE if it is written to. *)
Answered ==
  /\ At("posting") /\ pc' \in {"exit 0", "killed"}
  /\ Quiet /\ UNCHANGED <<i, stats, jmpbuf, hung>>

\* mutant: the handler leaves errors alone
timeout_handler_NoError ==
  IF jmpbuf = "live"
  THEN pc' = "read" /\ timed_out' = TRUE /\ hung' = FALSE /\ cut' = i /\ UNCHANGED errors
  ELSE pc' = "undefined" /\ UNCHANGED <<timed_out, hung, cut, errors>>

(* timeout_handler jumps to the last setjmp; i keeps its value.  There is  *)
(* nothing to jump to before the first setjmp and after run_tests.         *)
timeout_handler ==
  /\ errors' = 1
  /\ IF jmpbuf = "live"
     THEN pc' = "read" /\ timed_out' = TRUE /\ hung' = FALSE /\ cut' = i
     ELSE pc' = "undefined" /\ UNCHANGED <<timed_out, hung, cut>>

(* SIGALRM. *)
Alarm ==
  /\ alarm = "set" /\ pc \notin Ended
  /\ alarm' = "gone"
  /\ \/ handler = "sigalrm" /\ pc' = "exit 1" /\ UNCHANGED <<errors, timed_out, hung, cut>>
     \/ handler = "timeout" /\ timeout_handler
  /\ UNCHANGED <<options, i, valid, util, secs, handler, jmpbuf>>

Driver == \/ InitTimeout \/ SetHandler \/ LibcTrace \/ LibcDone
          \/ For \/ ReadTrace \/ EvalValid \/ EvalUtil \/ EvalSpeed \/ NextTrace
          \/ Report \/ Post

Next == Driver \/ Answered \/ Alarm

(* The driver runs while it is not hung or waiting for the server, and     *)
(* time passes.  The server need never answer.                             *)
Spec == Init /\ [][Next]_vars /\ WF_vars(Driver) /\ WF_vars(Alarm)
-----------------------------------------------------------------------------
Tested == 0 .. num - 1
Scored == pc \in {"report", "post", "posting", "exit 0"}

TypeOK ==
  /\ num \in 1 .. NumTraces
  /\ pc \in Ended \cup {"main", "signal", "libc", "for", "read", "valid", "util", "speed",
                        "next", "report", "post", "posting"}
  /\ i \in 0 .. num /\ cut \in -1 .. num
  /\ valid \in [Trace -> {0, 1}]
  /\ errors \in 0 .. NumTraces * MaxErrors + 1
  /\ hung => pc \in {"valid", "util", "speed"}

(* The performance index is computed when errors is 0 (mdriver.c:448).     *)
(* Then every trace was accepted and has its utilization and time, also    *)
(* when an alarm interrupted a trace at any point.                         *)
IndexCountsEveryTrace ==
  Scored /\ errors = 0 =>
    \A t \in Tested : valid[t] = 1 /\ (onetime_flag \/ (util[t] /\ secs[t]))

(* mdriver.c:104: "secs and util are only defined if valid is true": the   *)
(* table of results prints both for every valid trace, so there they are.  *)
ValidTracesAreMeasured ==
  Scored /\ ~onetime_flag => \A t \in Tested : valid[t] = 1 => util[t] /\ secs[t]

(* The trace the timeout fell on, and every later one, counts as invalid.  *)
TimeoutInvalidatesTheRest ==
  Scored /\ timed_out => errors > 0 /\ \A t \in Tested : t >= cut => valid[t] = 0

(* driverlib.c:310, "time out the driver if student code hangs": with -s,  *)
(* a package that never returns is cut off, none is called again after     *)
(* that, and main gets to its report, unless read_trace exits on the file  *)
(* of a later trace.                                                       *)
HangIsTimedOut ==
  set_timeout /\ hung ~> timed_out /\ ~hung /\ pc \in {"report", "exit 1"}

(* mdriver.c:204, "handle timeouts": the jump out of the signal handler    *)
(* has a place to land, with a trace to go on with.                        *)
JumpHasATarget == [][Alarm /\ handler = "timeout" => jmpbuf = "live" /\ i < num]_vars
=============================================================================

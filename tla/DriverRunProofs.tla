-------------------------- MODULE DriverRunProofs ----------------------------
(***************************************************************************)
(* Proofs about what surrounds the driver's checks.  Its run: for any      *)
(* number of traces and errors, and a SIGALRM at any moment, what is       *)
(* scored at the end is sound.  The submission of its result: for every    *)
(* answer, every result and all sizes of the buffers, driver_post is right *)
(* about what it sent and what it was told.  And its input: the recorder   *)
(* loses no call, the converter keeps the program's blocks apart, and the  *)
(* driver reads what it was given.                                         *)
(***************************************************************************)
EXTENDS DriverRun, Submit, TraceFile, SequenceTheorems, FiniteSetTheorems, TLAPS

SetUp  == {"main", "signal", "libc"}
InLoop == {"for", "read", "valid", "util", "speed", "next"}

Counters ==
  /\ num \in Nat /\ i \in Nat /\ cut \in Int /\ errors \in Nat
  /\ 1 <= num /\ num <= NumTraces /\ i <= num /\ cut <= num
  /\ onetime_flag => num = 1

Types ==
  /\ timed_out \in BOOLEAN /\ onetime_flag \in BOOLEAN /\ hung \in BOOLEAN
  /\ pc \in Ended \cup SetUp \cup InLoop \cup {"report", "post", "posting"}
  /\ valid \in [Trace -> {0, 1}]
  /\ util \in [Trace -> BOOLEAN] /\ secs \in [Trace -> BOOLEAN]
  /\ alarm \in {"off", "set", "gone"}

Measured(t) == valid[t] = 1 => util[t] /\ secs[t]
Clean(t)    == Measured(t) /\ (errors = 0 => valid[t] = 1)

(* Where the timer, the jump buffer and an endless loop can be.            *)
TimerInv ==
  /\ pc \in SetUp => jmpbuf = "none" /\ ~timed_out
  /\ pc \in InLoop \ {"for"} => jmpbuf = "live"
  /\ Scored => jmpbuf = "dead"
  /\ hung => pc \in {"valid", "util", "speed"}
  /\ handler = "sigalrm" => pc \in {"signal", "exit 1"}
  /\ timed_out => alarm = "gone"

(* Nothing is evaluated before the loop.                                   *)
SetUpInv ==
  pc \in SetUp => /\ errors = 0
                  /\ \A t \in Trace : valid[t] = 0
                  /\ pc # "libc" => i = 0

(* Before a timeout the traces below i are complete, those above untouched. *)
LoopInv ==
  pc \in InLoop /\ ~timed_out =>
    /\ pc # "for" => i < num
    /\ \A t \in Trace : (t < i => Clean(t)) /\ (t > i => valid[t] = 0)
    /\ pc \in {"for", "read", "valid"} /\ i \in Trace => valid[i] = 0
    /\ pc = "util" => valid[i] = 1
    /\ pc = "speed" => valid[i] = 1 /\ util[i]
    /\ pc = "next" => Clean(i)

(* After it the traces below cut are complete, those from cut on invalid.  *)
CutInv ==
  pc \in InLoop /\ timed_out =>
    /\ pc \in {"for", "read", "next"}
    /\ 0 <= cut /\ cut <= i /\ errors > 0
    /\ \A t \in Trace : /\ t < cut => Measured(t)
                        /\ cut <= t /\ t # i => valid[t] = 0
    /\ pc = "next" => i < num /\ valid[i] = 0

ScoredInv ==
  Scored =>
    /\ ~timed_out => \A t \in Tested : IF onetime_flag THEN errors = 0 => valid[t] = 1
                                                       ELSE Clean(t)
    /\ timed_out => /\ errors > 0
                    /\ \A t \in Tested : IF t < cut THEN Measured(t) ELSE valid[t] = 0

RunInv == Counters /\ Types /\ TimerInv /\ SetUpInv /\ LoopInv /\ CutInv /\ ScoredInv
-----------------------------------------------------------------------------
(* The run starts in the invariant: nothing evaluated, no timer, no jump    *)
(* buffer (main up to init_timeout).                                       *)
LEMMA InitRunInv == Init => RunInv
<1>. SUFFICES ASSUME Init PROVE RunInv
  OBVIOUS
<1>1. Counters
  BY RunAssumption DEF Init, Counters
<1>2. Types
  BY DEF Init, Types, SetUp
<1>. QED  BY <1>1, <1>2 DEF Init, RunInv, TimerInv, SetUpInv, LoopInv, CutInv, ScoredInv, Scored,
                            SetUp, InLoop, Trace

(* Every step of main, run_tests and the SIGALRM handler preserves it.      *)
LEMMA NextRunInv == RunInv /\ [Next]_vars => RunInv'
<1>. SUFFICES ASSUME RunInv, [Next]_vars PROVE RunInv'
  OBVIOUS
<1>. USE DEF RunInv, SetUp, InLoop, Ended, Scored, Trace, Tested, At, Quiet, options, timer,
             stats
<1>1. CASE InitTimeout
  <2>1. Counters' /\ Types'
    BY <1>1 DEF InitTimeout, Counters, Types
  <2>2. TimerInv' /\ SetUpInv'
    BY <1>1 DEF InitTimeout, Counters, TimerInv, SetUpInv
  <2>3. LoopInv' /\ CutInv' /\ ScoredInv'
    BY <1>1 DEF InitTimeout, Counters, TimerInv, SetUpInv, LoopInv, CutInv, ScoredInv, Clean,
                    Measured
  <2>. QED  BY <2>1, <2>2, <2>3
<1>2. CASE SetHandler
  <2>1. Counters' /\ Types'
    BY <1>2 DEF SetHandler, Counters, Types
  <2>2. TimerInv' /\ SetUpInv'
    BY <1>2 DEF SetHandler, Counters, TimerInv, SetUpInv
  <2>3. LoopInv' /\ CutInv' /\ ScoredInv'
    BY <1>2 DEF SetHandler, Counters, TimerInv, SetUpInv, LoopInv, CutInv, ScoredInv, Clean,
                    Measured
  <2>. QED  BY <2>1, <2>2, <2>3
<1>3. CASE LibcTrace
  <2>1. i < num /\ UNCHANGED <<num, cut, errors, onetime_flag>>
    BY <1>3 DEF LibcTrace
  <2>2. Counters'
    <3>1. CASE i' = i + 1
      BY <2>1, <3>1 DEF Counters
    <3>2. CASE i' = i
      BY <2>1, <3>2 DEF Counters
    <3>. QED  BY <1>3, <3>1, <3>2 DEF LibcTrace
  <2>3. Types'
    BY <1>3 DEF LibcTrace, Types
  <2>4. TimerInv' /\ SetUpInv'
    BY <1>3 DEF LibcTrace, TimerInv, SetUpInv
  <2>. QED  BY <1>3, <2>2, <2>3, <2>4 DEF LibcTrace, LoopInv, CutInv, ScoredInv
<1>4. CASE LibcDone
  <2>1. Counters' /\ Types'
    BY <1>4 DEF LibcDone, Counters, Types
  <2>2. TimerInv' /\ SetUpInv'
    BY <1>4 DEF LibcDone, Counters, TimerInv, SetUpInv
  <2>3. LoopInv' /\ CutInv' /\ ScoredInv'
    BY <1>4 DEF LibcDone, Counters, TimerInv, SetUpInv, LoopInv, CutInv, ScoredInv, Clean,
                    Measured
  <2>. QED  BY <2>1, <2>2, <2>3
<1>5. CASE For
  <2>1. pc = "for" /\ UNCHANGED <<valid, util, secs, errors, timed_out, num, onetime_flag, cut>>
    BY <1>5 DEF For
  <2>2. Counters' /\ Types'
    BY <1>5 DEF For, RunTestsReturns, Counters, Types
  <2>3. TimerInv' /\ SetUpInv'
    BY <1>5 DEF For, RunTestsReturns, TimerInv, SetUpInv
  <2>4. LoopInv' /\ CutInv'
    BY <1>5 DEF For, RunTestsReturns, Counters, LoopInv, CutInv, Clean, Measured
  <2>5. CASE i < num
    <3>1. ScoredInv'
      BY <1>5, <2>5 DEF For, ScoredInv
    <3>. QED  BY <2>2, <2>3, <2>4, <3>1
  <2>6. CASE ~(i < num)
    <3>1. i = num /\ num \in Nat /\ cut \in Int /\ num <= NumTraces
      BY <2>6 DEF Counters
    <3>2. \A t \in Tested : t \in Trace /\ t < i
      BY <3>1, RunAssumption
    <3>3. ASSUME ~timed_out, NEW t \in Tested PROVE Clean(t)
      BY <2>1, <3>2, <3>3 DEF LoopInv
    <3>4. ASSUME timed_out, NEW t \in Tested
          PROVE  IF t < cut THEN Measured(t) ELSE valid[t] = 0
      <4>1. t \in Int /\ t # i
        BY <3>1, <3>2
      <4>2. (t < cut => Measured(t)) /\ (cut <= t => valid[t] = 0)
        BY <2>1, <3>2, <3>4, <4>1 DEF CutInv
      <4>. QED  BY <3>1, <4>1, <4>2
    <3>5. timed_out => errors > 0
      BY <2>1 DEF CutInv
    <3>6. ScoredInv'
      BY <2>1, <3>3, <3>4, <3>5 DEF ScoredInv, Clean, Measured
    <3>. QED  BY <2>2, <2>3, <2>4, <3>6
  <2>. QED  BY <2>5, <2>6
<1>6. CASE ReadTrace
  <2>1. /\ pc = "read" /\ pc' \in {"valid", "next", "exit 1", "undefined"}
        /\ UNCHANGED <<i, num, timed_out, cut, errors, util, secs>>
    BY <1>6 DEF ReadTrace
  <2>2. Counters' /\ Types'
    BY <1>6 DEF ReadTrace, Counters, Types
  <2>3. TimerInv' /\ SetUpInv'
    BY <1>6 DEF ReadTrace, TimerInv, SetUpInv
  <2>4. CASE pc' = "valid"
    <3>1. i < num /\ ~timed_out /\ valid' = valid
      BY <1>6, <2>4 DEF ReadTrace
    <3>2. LoopInv'
      BY <2>1, <2>4, <3>1 DEF LoopInv, Clean, Measured
    <3>. QED  BY <2>1, <2>2, <2>3, <2>4, <3>1, <3>2 DEF CutInv, ScoredInv
  <2>5. CASE pc' = "next"
    <3>1. i < num /\ timed_out /\ valid' = [valid EXCEPT ![i] = 0]
      BY <1>6, <2>5 DEF ReadTrace
    <3>2. i \in Trace
      BY <3>1, RunAssumption DEF Counters
    <3>3. valid'[i] = 0 /\ \A t \in Trace : t # i => valid'[t] = valid[t]
      BY <3>1, <3>2 DEF Types
    <3>4. \A t \in Trace : (t < cut => Measured(t)') /\ (cut <= t /\ t # i => valid'[t] = 0)
      <4>1. cut \in Int /\ i \in Int
        BY DEF Counters
      <4>2. cut <= i
        BY <2>1, <3>1 DEF CutInv
      <4>3. \A t \in Trace : (t < cut => Measured(t)) /\ (cut <= t /\ t # i => valid[t] = 0)
        BY <2>1, <3>1 DEF CutInv
      <4>4. ASSUME NEW t \in Trace, t < cut PROVE t # i
        BY <4>2, <4>1, <4>4
      <4>. QED  BY <2>1, <3>3, <4>3, <4>4 DEF Measured
    <3>5. CutInv'
      BY <2>1, <2>5, <3>1, <3>3, <3>4 DEF CutInv
    <3>. QED  BY <2>1, <2>2, <2>3, <2>5, <3>1, <3>5 DEF LoopInv, ScoredInv
  <2>6. CASE pc' \in {"exit 1", "undefined"}
    BY <2>2, <2>3, <2>6 DEF LoopInv, CutInv, ScoredInv
  <2>. QED  BY <2>1, <2>4, <2>5, <2>6
<1>7. CASE EvalValid
  <2>1. /\ pc = "valid" /\ ~hung /\ ~timed_out /\ MaxErrors \in Nat
        /\ i \in Trace /\ i < num /\ valid[i] = 0
        /\ UNCHANGED <<handler, alarm, timed_out, num, onetime_flag, cut, i, util, secs>>
    BY <1>7, RunAssumption DEF EvalValid, LoopInv, CutInv, Counters
  <2>2. CASE Fails /\ UNCHANGED <<errors, valid, jmpbuf>>
    <3>1. pc' \in {"killed", "valid"} /\ (hung' = hung \/ pc' = "valid") /\ hung' \in BOOLEAN
      BY <2>1, <2>2 DEF Fails, Types
    <3>2. Counters'
      BY <2>1, <2>2 DEF Counters
    <3>3. Types'
      BY <2>1, <2>2, <3>1 DEF Types
    <3>4. ~hung' \/ pc' = "valid"
      BY <2>1, <3>1
    <3>5. TimerInv'
      BY <2>1, <2>2, <3>1, <3>4 DEF TimerInv
    <3>6. LoopInv'
      BY <2>1, <2>2, <3>1 DEF LoopInv, Clean, Measured
    <3>. QED  BY <2>1, <3>1, <3>2, <3>3, <3>6, <3>5 DEF SetUpInv, CutInv, ScoredInv
  <2>3. CASE ~(Fails /\ UNCHANGED <<errors, valid, jmpbuf>>)
    <3>1. PICK e \in 0 .. MaxErrors, v \in {0, 1} :
            /\ v = 0 => e > 0
            /\ errors' = errors + e
            /\ valid' = [valid EXCEPT ![i] = v]
            /\ IF onetime_flag THEN RunTestsReturns
               ELSE pc' = (IF v = 1 THEN "util" ELSE "next") /\ UNCHANGED jmpbuf
      BY <1>7, <2>3 DEF EvalValid
    <3>2. hung' = hung
      BY <1>7, <2>3 DEF EvalValid
    <3>3. /\ pc' \in {"report", "util", "next"}
          /\ jmpbuf' = IF pc' = "report" THEN "dead" ELSE jmpbuf
      BY <3>1 DEF RunTestsReturns
    <3>4. errors' \in Nat /\ (errors' = 0 => v = 1 /\ errors = 0)
      BY <2>1, <3>1 DEF Counters
    <3>5. /\ valid' \in [Trace -> {0, 1}] /\ valid'[i] = v
          /\ \A t \in Trace : t # i => valid'[t] = valid[t]
      BY <2>1, <3>1 DEF Types
    <3>6. Counters'
      BY <2>1, <3>4 DEF Counters
    <3>7. Types' /\ TimerInv'
      BY <2>1, <3>2, <3>3, <3>5 DEF Types, TimerInv
    <3>8. ASSUME pc' # "report" PROVE LoopInv'
      <4>1. pc' = IF v = 1 THEN "util" ELSE "next"
        BY <3>1, <3>8 DEF RunTestsReturns
      <4>2. \A t \in Trace : (t < i => Clean(t)') /\ (t > i => valid'[t] = 0)
        BY <2>1, <3>4, <3>5 DEF LoopInv, Clean, Measured, Counters
      <4>3. v = 0 => errors' # 0
        BY <3>4
      <4>. QED  BY <2>1, <3>1, <3>5, <4>1, <4>2, <4>3 DEF LoopInv, Clean, Measured
    <3>9. ASSUME pc' = "report" PROVE ScoredInv'
      <4>1. onetime_flag /\ num = 1 /\ i = 0
        BY <2>1, <3>1, <3>9 DEF Counters
      <4>2. Tested' = {0}
        BY <2>1, <4>1
      <4>3. ~timed_out' /\ onetime_flag'
        BY <2>1, <4>1
      <4>4. errors' = 0 => valid'[0] = 1
        BY <3>4, <3>5, <4>1
      <4>. QED  BY <4>2, <4>3, <4>4 DEF ScoredInv
    <3>. QED  BY <2>1, <3>3, <3>6, <3>7, <3>8, <3>9 DEF SetUpInv, CutInv, ScoredInv, LoopInv
  <2>. QED  BY <2>2, <2>3
<1>8. CASE EvalUtil
  <2>1. /\ pc = "util" /\ ~hung
        /\ UNCHANGED <<jmpbuf, handler, alarm, timed_out, valid, secs, errors, i, num, cut,
                       onetime_flag>>
    BY <1>8 DEF EvalUtil
  <2>2. /\ pc' \in {"speed", "exit 1", "killed", "util"}
        /\ hung' = hung \/ pc' = "util"
    BY <1>8, <2>1 DEF EvalUtil, Fails
  <2>3. ~hung' \/ pc' = "util"
    BY <2>1, <2>2
  <2>4. Counters' /\ Types'
    BY <1>8 DEF EvalUtil, Fails, Counters, Types
  <2>5. TimerInv'
    BY <2>1, <2>2, <2>3 DEF TimerInv
  <2>6. CASE pc' = "speed"
    <3>1. util' = [util EXCEPT ![i] = TRUE]
      BY <1>8, <2>1, <2>6 DEF EvalUtil, Fails
    <3>2. ~timed_out
      BY <2>1 DEF CutInv
    <3>3. i \in Trace /\ i < num /\ valid[i] = 1
      BY <2>1, <3>2, RunAssumption DEF LoopInv, Counters
    <3>4. util'[i] /\ \A t \in Trace : t # i => util'[t] = util[t]
      BY <3>1, <3>3 DEF Types
    <3>5. \A t \in Trace : (t < i => Clean(t)') /\ (t > i => valid'[t] = 0)
      BY <2>1, <3>2, <3>3, <3>4 DEF LoopInv, Clean, Measured, Counters
    <3>6. LoopInv'
      BY <2>1, <2>6, <3>3, <3>4, <3>5 DEF LoopInv
    <3>. QED  BY <2>1, <2>4, <2>5, <2>6, <3>2, <3>6 DEF SetUpInv, CutInv, ScoredInv
  <2>7. CASE pc' # "speed"
    <3>1. util' = util
      BY <1>8, <2>7 DEF EvalUtil, Fails
    <3>2. LoopInv'
      BY <2>1, <2>2, <2>7, <3>1 DEF LoopInv, Clean, Measured
    <3>. QED  BY <2>1, <2>2, <2>4, <2>5, <2>7, <3>2 DEF SetUpInv, CutInv, ScoredInv
  <2>. QED  BY <2>6, <2>7
<1>9. CASE EvalSpeed
  <2>1. /\ pc = "speed" /\ ~hung
        /\ UNCHANGED <<jmpbuf, handler, alarm, timed_out, valid, util, errors, i, num, cut,
                       onetime_flag>>
    BY <1>9 DEF EvalSpeed
  <2>2. /\ pc' \in {"next", "exit 1", "killed", "speed"}
        /\ hung' = hung \/ pc' = "speed"
    BY <1>9, <2>1 DEF EvalSpeed, Fails
  <2>3. ~hung' \/ pc' = "speed"
    BY <2>1, <2>2
  <2>4. Counters' /\ Types'
    BY <1>9 DEF EvalSpeed, Fails, Counters, Types
  <2>5. TimerInv'
    BY <2>1, <2>2, <2>3 DEF TimerInv
  <2>6. CASE pc' = "next"
    <3>1. secs' = [secs EXCEPT ![i] = TRUE]
      BY <1>9, <2>1, <2>6 DEF EvalSpeed, Fails
    <3>2. ~timed_out
      BY <2>1 DEF CutInv
    <3>3. i \in Trace /\ i < num /\ valid[i] = 1 /\ util[i]
      BY <2>1, <3>2, RunAssumption DEF LoopInv, Counters
    <3>4. secs'[i] /\ \A t \in Trace : t # i => secs'[t] = secs[t]
      BY <3>1, <3>3 DEF Types
    <3>5. \A t \in Trace : (t < i => Clean(t)') /\ (t > i => valid'[t] = 0)
      BY <2>1, <3>2, <3>3, <3>4 DEF LoopInv, Clean, Measured, Counters
    <3>6. LoopInv'
      BY <2>1, <2>6, <3>3, <3>4, <3>5 DEF LoopInv, Clean, Measured
    <3>. QED  BY <2>1, <2>4, <2>5, <2>6, <3>2, <3>6 DEF SetUpInv, CutInv, ScoredInv
  <2>7. CASE pc' # "next"
    <3>1. secs' = secs
      BY <1>9, <2>7 DEF EvalSpeed, Fails
    <3>2. LoopInv'
      BY <2>1, <2>2, <2>7, <3>1 DEF LoopInv, Clean, Measured
    <3>. QED  BY <2>1, <2>2, <2>4, <2>5, <2>7, <3>2 DEF SetUpInv, CutInv, ScoredInv
  <2>. QED  BY <2>6, <2>7
<1>10. CASE NextTrace
  <2>1. /\ pc = "next" /\ pc' = "for" /\ i' = i + 1
        /\ UNCHANGED <<num, cut, errors, onetime_flag, timed_out, valid, util, secs>>
    BY <1>10 DEF NextTrace
  <2>2. i < num
    BY <2>1 DEF LoopInv, CutInv
  <2>3. Counters'
    BY <2>1, <2>2 DEF Counters
  <2>4. Types'
    BY <1>10 DEF NextTrace, Types
  <2>5. TimerInv' /\ SetUpInv'
    BY <1>10 DEF NextTrace, TimerInv, SetUpInv
  <2>6. LoopInv' /\ CutInv' /\ ScoredInv'
    BY <2>1, <2>2 DEF Counters, LoopInv, CutInv, ScoredInv, Clean, Measured
  <2>. QED  BY <2>3, <2>4, <2>5, <2>6
<1>11. CASE Report
  <2>1. Counters' /\ Types'
    BY <1>11 DEF Report, Counters, Types
  <2>2. TimerInv' /\ SetUpInv'
    BY <1>11 DEF Report, Counters, TimerInv, SetUpInv
  <2>3. LoopInv' /\ CutInv' /\ ScoredInv'
    BY <1>11 DEF Report, Counters, TimerInv, SetUpInv, LoopInv, CutInv, ScoredInv, Clean,
                    Measured
  <2>. QED  BY <2>1, <2>2, <2>3
<1>12. CASE Post
  <2>1. Counters' /\ Types'
    BY <1>12 DEF Post, Counters, Types
  <2>2. TimerInv' /\ SetUpInv'
    BY <1>12 DEF Post, Counters, TimerInv, SetUpInv
  <2>3. LoopInv' /\ CutInv' /\ ScoredInv'
    BY <1>12 DEF Post, Counters, TimerInv, SetUpInv, LoopInv, CutInv, ScoredInv, Clean,
                    Measured
  <2>. QED  BY <2>1, <2>2, <2>3
<1>15. CASE Answered
  <2>1. Counters' /\ Types'
    BY <1>15 DEF Answered, Counters, Types
  <2>2. TimerInv' /\ SetUpInv'
    BY <1>15 DEF Answered, Counters, TimerInv, SetUpInv
  <2>3. LoopInv' /\ CutInv' /\ ScoredInv'
    BY <1>15 DEF Answered, Counters, TimerInv, SetUpInv, LoopInv, CutInv, ScoredInv, Clean,
                    Measured
  <2>. QED  BY <2>1, <2>2, <2>3
<1>13. CASE Alarm
  <2>1. ~timed_out /\ UNCHANGED <<num, onetime_flag, i, valid, util, secs, handler, jmpbuf>>
    BY <1>13 DEF Alarm, TimerInv
  <2>2. Counters'
    <3>1. CASE cut' = cut /\ errors' = errors
      BY <2>1, <3>1 DEF Counters
    <3>2. CASE cut' = i /\ errors' = 1
      BY <2>1, <3>2 DEF Counters
    <3>3. CASE cut' = cut /\ errors' = 1
      BY <2>1, <3>3 DEF Counters
    <3>. QED  BY <1>13, <3>1, <3>2, <3>3 DEF Alarm, timeout_handler
  <2>3. Types'
    BY <1>13 DEF Alarm, timeout_handler, Types
  <2>4. TimerInv' /\ SetUpInv' /\ LoopInv' /\ ScoredInv'
    BY <1>13 DEF Alarm, timeout_handler, TimerInv, SetUpInv, LoopInv, ScoredInv
  <2>5. CASE pc' = "read"
    <3>1. jmpbuf = "live" /\ cut' = i /\ errors' = 1
      BY <1>13, <2>5 DEF Alarm, timeout_handler
    <3>2. pc \in InLoop
      BY <1>13, <3>1 DEF Alarm, TimerInv, Types
    <3>3. CutInv'
      BY <2>1, <2>5, <3>1, <3>2 DEF CutInv, LoopInv, Clean, Measured, Counters
    <3>. QED  BY <2>2, <2>3, <2>4, <3>3
  <2>6. CASE pc' # "read"
    BY <1>13, <2>2, <2>3, <2>4, <2>6 DEF Alarm, timeout_handler, CutInv
  <2>. QED  BY <2>5, <2>6
<1>14. CASE UNCHANGED vars
  <2>1. Counters' /\ Types'
    BY <1>14 DEF vars, Counters, Types
  <2>2. TimerInv' /\ SetUpInv'
    BY <1>14 DEF vars, Counters, TimerInv, SetUpInv
  <2>3. LoopInv' /\ CutInv' /\ ScoredInv'
    BY <1>14 DEF vars, Counters, TimerInv, SetUpInv, LoopInv, CutInv, ScoredInv, Clean,
                    Measured
  <2>. QED  BY <2>1, <2>2, <2>3
<1>. QED  BY <1>1, <1>2, <1>3, <1>4, <1>5, <1>6, <1>7, <1>8, <1>9, <1>10, <1>11, <1>12, <1>13,
             <1>14, <1>15 DEF Next, Driver

(* Wherever SIGALRM interrupts the run, the traces the loop has passed are  *)
(* complete up to the one it was cut at, and none after it is valid.       *)
THEOREM RunIsSound == Spec => []RunInv
  BY InitRunInv, NextRunInv, PTL DEF Spec

(* A performance index is only ever computed from complete measurements.   *)
THEOREM IndexIsComplete == Spec => []IndexCountsEveryTrace
<1>. RunInv => IndexCountsEveryTrace
  BY DEF RunInv, ScoredInv, IndexCountsEveryTrace, Clean, Measured
<1>. QED  BY RunIsSound, PTL

(* Every trace reported as valid has been measured.                        *)
THEOREM ValidIsMeasured == Spec => []ValidTracesAreMeasured
<1>. RunInv => ValidTracesAreMeasured
  BY DEF RunInv, ScoredInv, ValidTracesAreMeasured, Clean, Measured
<1>. QED  BY RunIsSound, PTL

(* After a timeout, wherever it fell, no later trace is reported valid.     *)
THEOREM TimeoutIsSound == Spec => []TimeoutInvalidatesTheRest
<1>. RunInv => TimeoutInvalidatesTheRest
  <2>. SUFFICES ASSUME RunInv, Scored, timed_out
                PROVE  errors > 0 /\ \A t \in Tested : t >= cut => valid[t] = 0
    BY DEF TimeoutInvalidatesTheRest
  <2>1. num \in Int /\ cut \in Int
    BY DEF RunInv, Counters
  <2>. QED  BY <2>1 DEF RunInv, ScoredInv, Tested
<1>. QED  BY RunIsSound, PTL
-----------------------------------------------------------------------------
(* The submission.  The invariants are proved one after the other: types   *)
(* and stream first, then the buffers, then the verdict.                   *)

USE SubmitAssumption DEF SubmitAssumption
-----------------------------------------------------------------------------
(* How each way of moving a byte leaves the stream as it is. *)

LEMMA ConcatBytes ==
  \A t, u, w \in Seq(Byte) : (t \o u) \o w = t \o (u \o w)
<1> TAKE t, u, w \in Seq(Byte)
<1> QED  BY ConcatAssociative, SMTT(30)

LEMMA MoveOne ==
  ASSUME NEW S, NEW t \in Seq(S), NEW u \in Seq(S), u # << >>
  PROVE  /\ Append(t, Head(u)) \in Seq(S) /\ Tail(u) \in Seq(S)
         /\ Len(Tail(u)) = Len(u) - 1
         /\ Append(t, Head(u)) \o Tail(u) = t \o u
<1>1. Head(u) \in S /\ Tail(u) \in Seq(S) /\ Len(Tail(u)) = Len(u) - 1
  BY HeadTailProperties
<1>2. Append(t, Head(u)) \in Seq(S) /\ Append(t, Head(u)) = t \o <<Head(u)>>
  BY <1>1
<1>3. <<Head(u)>> \o Tail(u) = u
  BY HeadTailProperties
<1>4. (t \o <<Head(u)>>) \o Tail(u) = t \o (<<Head(u)>> \o Tail(u))
  BY <1>1, ConcatAssociative
<1> QED  BY <1>1, <1>2, <1>3, <1>4

LEMMA MoveSome ==
  ASSUME NEW S, NEW w \in Seq(S), NEW n \in 1 .. Len(w)
  PROVE  /\ SubSeq(w, 1, n) \in Seq(S) /\ SubSeq(w, n + 1, Len(w)) \in Seq(S)
         /\ Len(SubSeq(w, 1, n)) = n
         /\ SubSeq(w, 1, n) \o SubSeq(w, n + 1, Len(w)) = w
<1>1. Len(w) \in Nat /\ \A b \in 1 .. Len(w) : w[b] \in S
  BY LenProperties, ElementOfSeq
<1>2. SubSeq(w, 1, n) \in Seq(S) /\ Len(SubSeq(w, 1, n)) = n
  BY <1>1, SubSeqProperties
<1>3. SubSeq(w, n + 1, Len(w)) \in Seq(S)
  BY <1>1, SubSeqProperties
<1>4. SubSeq(w, 1, n) \o SubSeq(w, n + 1, Len(w)) = SubSeq(w, 1, Len(w))
  BY <1>1, ConcatAdjacentSubSeq
<1> QED  BY <1>2, <1>3, <1>4, SubSeqFull

LEMMA SendOne ==
  ASSUME NEW S, NEW r \in Seq(S), NEW k \in Nat, k < Len(r)
  PROVE  Append(SubSeq(r, 1, k), r[k + 1]) = SubSeq(r, 1, k + 1)
<1>1. Len(r) \in Nat /\ \A b \in 1 .. Len(r) : r[b] \in S
  BY LenProperties, ElementOfSeq
<1>2. SubSeq(r, 1, k) \in Seq(S)
  BY <1>1, SubSeqProperties
<1>3. SubSeq(r, 1, k + 1) = SubSeq(r, 1, k) \o <<r[k + 1]>>
  BY <1>1, SubSeqRecursiveSecond
<1> QED  BY <1>1, <1>2, <1>3

(* The encoded result takes at most three characters for each of its own. *)
LEMMA EncodedIsBounded ==
  ASSUME NEW s \in Seq(Char)
  PROVE  Encoded(s) \in Nat /\ Encoded(s) <= 3 * Len(s)
<1> DEFINE Odd == {b \in 1 .. Len(s) : s[b] = "odd"}
<1>1. Len(s) \in Nat  BY LenProperties
<1>2. IsFiniteSet(1 .. Len(s)) /\ Cardinality(1 .. Len(s)) = Len(s)
  <2>1. 1 \in Int /\ Len(s) \in Int  BY <1>1
  <2>2. /\ IsFiniteSet(1 .. Len(s))
        /\ Cardinality(1 .. Len(s)) = IF 1 > Len(s) THEN 0 ELSE Len(s) - 1 + 1
    BY <2>1, FS_Interval
  <2> QED  BY <1>1, <2>2
<1>3. Cardinality(Odd) \in Nat /\ Cardinality(Odd) <= Len(s)
  BY <1>2, FS_Subset, FS_CardinalityType, Odd \subseteq 1 .. Len(s)
<1> QED  BY <1>1, <1>3 DEF Encoded
-----------------------------------------------------------------------------
LEMMA InitTypes == SubmitInit => SubmitTypeOK
<1> SUFFICES ASSUME SubmitInit PROVE SubmitTypeOK  OBVIOUS
<1>1. << >> \in Seq(Byte) /\ << >> \in Seq(Byte \cup {"Error"})  OBVIOUS
<1>2. Len(response) \in Nat  BY LenProperties DEF SubmitInit
<1>3. at \in 0 .. Len(response) /\ nleft \in Nat /\ rio_cnt \in Int
  BY <1>2 DEF SubmitInit
<1>4. closed \in BOOLEAN /\ ret \in {0, -1}  BY Zenon DEF SubmitInit
<1>5. /\ autograded \in BOOLEAN /\ user_set \in BOOLEAN
      /\ result \in Results /\ response \in Responses
      /\ stage \in {"post", "submit", "write", "status", "headers", "body"}
  BY DEF SubmitInit
<1>6. /\ unread \in Seq(Byte) /\ line \in Seq(Byte) /\ taken \in Seq(Byte) /\ wire \in Seq(Byte)
      /\ status_msg \in Seq(Byte \cup {"Error"})
  BY <1>1 DEF SubmitInit
<1> QED  BY <1>3, <1>4, <1>5, <1>6 DEF SubmitTypeOK

(* A line is never empty, and it is a status message as it stands. *)
LEMMA GotTypes ==
  ASSUME SubmitTypeOK, NEW l \in Seq(Byte), Got(l)
  PROVE  /\ stage' \in {"post", "submit", "write", "status", "headers", "body"} \cup CallEnded
         /\ ret' \in {0, -1} /\ status_msg' \in Seq(Byte \cup {"Error"})
<1>1. l \in Seq(Byte \cup {"Error"})  BY SeqMonotonic
<1>2. <<"Error">> \in Seq(Byte \cup {"Error"})  OBVIOUS
<1> QED  BY <1>1, <1>2 DEF SubmitTypeOK, Got, Fail, answer, CallEnded

LEMMA NextTypes == SubmitTypeOK /\ StreamIntact /\ [SubmitNext]_submitVars => SubmitTypeOK'
<1> SUFFICES ASSUME SubmitTypeOK, StreamIntact, [SubmitNext]_submitVars PROVE SubmitTypeOK'  OBVIOUS
<1>0. <<"Error">> \in Seq(Byte \cup {"Error"}) /\ <<"OK">> \in Seq(Byte \cup {"Error"})
  BY DEF Byte
<1>1. CASE driver_post
  BY <1>0, <1>1 DEF SubmitTypeOK, driver_post, CallEnded, call, rio, answer, server
<1>2. CASE submitr
  <2>1. result \in Seq(Char) /\ NamesLen \in Nat  BY DEF SubmitTypeOK
  <2>2. RequestText + NamesLen + Encoded(result) \in Nat  BY <2>1, EncodedIsBounded
  <2> QED  BY <1>0, <1>2, <2>2 DEF SubmitTypeOK, submitr, Fail, CallEnded, call, rio, answer, server
<1>3. CASE rio_writen
  <2>1. nleft' \in Nat
    <3>1. CASE UNCHANGED nleft  BY <3>1 DEF SubmitTypeOK
    <3>2. CASE \E n \in 1 .. nleft : nleft' = nleft - n  BY <3>2 DEF SubmitTypeOK
    <3> QED  BY <1>3, <3>1, <3>2 DEF rio_writen
  <2>2. /\ stage' \in {"post", "submit", "write", "status", "headers", "body"} \cup CallEnded
        /\ ret' \in {0, -1} /\ status_msg' \in Seq(Byte \cup {"Error"})
    BY <1>0, <1>3 DEF SubmitTypeOK, rio_writen, Fail, CallEnded, answer
  <2> QED  BY <1>3, <2>1, <2>2 DEF SubmitTypeOK, rio_writen, call, rio, server
<1>4. CASE Refill
  <2>1. PICK n \in 1 .. Len(wire) :
          /\ unread' = SubSeq(wire, 1, n) /\ rio_cnt' = n
          /\ wire' = SubSeq(wire, n + 1, Len(wire))
    BY <1>4 DEF Refill
  <2>2. unread' \in Seq(Byte) /\ wire' \in Seq(Byte)
    BY <2>1, MoveSome DEF SubmitTypeOK
  <2> QED  BY <1>4, <2>1, <2>2 DEF SubmitTypeOK, Refill, call, answer, server
<1>5. CASE TakeByte
  <2> DEFINE c == Head(unread)
             l == Append(line, c)
  <2>1. unread # << >>
    BY <1>5 DEF TakeByte, StreamIntact
  <2>2. QED
    <3>1. c \in Byte /\ unread' \in Seq(Byte) /\ taken' \in Seq(Byte) /\ l \in Seq(Byte)
      BY <1>5, <2>1, HeadTailProperties DEF SubmitTypeOK, TakeByte
    <3>2. CASE LineEnds(l)
      <4>1. Got(l) /\ line' = << >>  BY <1>5, <3>2 DEF TakeByte
      <4>2. /\ stage' \in {"post", "submit", "write", "status", "headers", "body"} \cup CallEnded
            /\ ret' \in {0, -1} /\ status_msg' \in Seq(Byte \cup {"Error"})
        BY <3>1, <4>1, GotTypes
      <4>3. line' \in Seq(Byte)  BY <4>1
      <4> HIDE DEF l
      <4> QED  BY <1>5, <3>1, <4>2, <4>3 DEF SubmitTypeOK, TakeByte, call, server
    <3>3. CASE ~LineEnds(l)
      <4>1. line' = l /\ UNCHANGED <<stage, answer>>  BY <1>5, <3>3 DEF TakeByte
      <4> QED  BY <1>5, <3>1, <4>1 DEF SubmitTypeOK, TakeByte, call, answer, server
    <3> QED  BY <3>2, <3>3
<1>6. CASE EndOfStream
  <2>1. CASE Fail
    BY <1>0, <1>6, <2>1 DEF SubmitTypeOK, EndOfStream, Fail, CallEnded, call, server
  <2>2. CASE Got(line)
    <3>1. line \in Seq(Byte)  BY DEF SubmitTypeOK
    <3> QED  BY <1>6, <2>2, <3>1, GotTypes DEF SubmitTypeOK, EndOfStream, call, server
  <2> QED  BY <1>6, <2>1, <2>2 DEF EndOfStream
<1>7. CASE Interrupted
  BY <1>7 DEF SubmitTypeOK, Interrupted, call, answer, server
<1>8. CASE ReadFails
  BY <1>0, <1>8 DEF SubmitTypeOK, ReadFails, Fail, CallEnded, call, server
<1>9. CASE ServerSends
  <2>1. response \in Seq(Byte) /\ at \in Nat /\ Len(response) \in Nat
    BY LenProperties DEF SubmitTypeOK
  <2>2. response[at + 1] \in Byte
    BY <1>9, <2>1, ElementOfSeq DEF ServerSends
  <2>3. wire' \in Seq(Byte)  BY <1>9, <2>2 DEF SubmitTypeOK, ServerSends
  <2> QED  BY <1>9, <2>1, <2>3 DEF SubmitTypeOK, ServerSends, call, rio, answer
<1>10. CASE ServerCloses
  BY <1>10 DEF SubmitTypeOK, ServerCloses, call, rio, answer
<1>11. CASE UNCHANGED submitVars
  BY <1>11 DEF SubmitTypeOK, submitVars, call, rio, answer, server
<1> QED  BY <1>1, <1>2, <1>3, <1>4, <1>5, <1>6, <1>7, <1>8, <1>9, <1>10, <1>11
            DEF SubmitNext, Client, Server
-----------------------------------------------------------------------------
LEMMA InitStream == SubmitInit => StreamIntact
<1> SUFFICES ASSUME SubmitInit PROVE StreamIntact  OBVIOUS
<1>1. SubSeq(response, 1, 0) = << >>  BY SubSeqEmpty
<1>2. (<< >> \o << >>) \o << >> = << >>
  BY ConcatEmptySeq, << >> \in Seq(Byte)
<1> QED  BY <1>1, <1>2 DEF SubmitInit, StreamIntact

LEMMA NextStream == SubmitTypeOK /\ StreamIntact /\ [SubmitNext]_submitVars => StreamIntact'
<1> SUFFICES ASSUME SubmitTypeOK, StreamIntact, [SubmitNext]_submitVars PROVE StreamIntact'  OBVIOUS
<1>0. unread \in Seq(Byte) /\ taken \in Seq(Byte) /\ wire \in Seq(Byte)
  BY DEF SubmitTypeOK
(* The steps that move a byte, or cut a read short. *)
<1>1. CASE Refill
  <2>1. PICK n \in 1 .. Len(wire) :
          /\ unread' = SubSeq(wire, 1, n) /\ rio_cnt' = n
          /\ wire' = SubSeq(wire, n + 1, Len(wire))
    BY <1>1 DEF Refill
  <2>2. /\ unread' \in Seq(Byte) /\ wire' \in Seq(Byte)
        /\ Len(unread') = n /\ unread' \o wire' = wire
    BY <1>0, <2>1, MoveSome
  <2>3. unread = << >>  BY <1>0, <1>1, LenProperties DEF Refill, StreamIntact
  <2>4. taken \o unread = taken  BY <1>0, <2>3, ConcatEmptySeq
  <2>5. (taken \o unread') \o wire' = taken \o (unread' \o wire')
    <3>1. taken \in Seq(Byte) /\ unread' \in Seq(Byte) /\ wire' \in Seq(Byte)
      BY <1>0, <2>2
    <3> QED  BY <3>1, ConcatBytes, ZenonT(30)
  <2> QED  BY <1>1, <2>1, <2>2, <2>4, <2>5 DEF Refill, StreamIntact, server
<1>2. CASE TakeByte
  <2>1. unread # << >> /\ rio_cnt = Len(unread)
    BY <1>0, <1>2 DEF TakeByte, StreamIntact
  <2>2. /\ taken' = Append(taken, Head(unread)) /\ unread' = Tail(unread)
        /\ rio_cnt' = rio_cnt - 1 /\ UNCHANGED <<wire, server>>
    BY <1>2 DEF TakeByte
  <2>3. taken' \o unread' = taken \o unread /\ Len(unread') = Len(unread) - 1
    BY <1>0, <2>1, <2>2, MoveOne, SMTT(20)
  <2> QED  BY <2>1, <2>2, <2>3 DEF StreamIntact, server
<1>3. CASE EndOfStream
  <2>1. unread = << >>  BY <1>0, <1>3, LenProperties DEF EndOfStream, StreamIntact
  <2> QED  BY <1>3, <2>1 DEF EndOfStream, StreamIntact, server
<1>4. CASE Interrupted \/ ReadFails
  <2>1. unread = << >>  BY <1>0, <1>4, LenProperties DEF Interrupted, ReadFails, StreamIntact
  <2> QED  BY <1>4, <2>1 DEF Interrupted, ReadFails, StreamIntact, server
<1>5. CASE ServerSends
  <2>1. response \in Seq(Byte) /\ at \in Nat /\ Len(response) \in Nat
    BY LenProperties DEF SubmitTypeOK
  <2>2. response[at + 1] \in Byte
    BY <1>5, <2>1, ElementOfSeq DEF ServerSends
  <2>3. wire' = wire \o <<response[at + 1]>> /\ at' = at + 1
    BY <1>0, <1>5, <2>2 DEF ServerSends
  <2>4. taken \o unread \in Seq(Byte)  BY <1>0, ConcatProperties
  <2>5. (taken \o unread) \o (wire \o <<response[at + 1]>>)
          = ((taken \o unread) \o wire) \o <<response[at + 1]>>
    <3>1. <<response[at + 1]>> \in Seq(Byte)  BY <2>2
    <3> QED  BY <1>0, <2>4, <3>1, ConcatAssociative
  <2>6. ((taken \o unread) \o wire) \in Seq(Byte)
    BY <1>0, <2>4, ConcatProperties
  <2>7. ((taken \o unread) \o wire) \o <<response[at + 1]>> = SubSeq(response, 1, at + 1)
    BY <2>1, <2>2, <2>6, <1>5, SendOne DEF StreamIntact, ServerSends
  <2> QED  BY <1>5, <2>3, <2>5, <2>7 DEF ServerSends, StreamIntact, rio
(* The others leave the stream alone. *)
<1>6. CASE driver_post \/ submitr \/ rio_writen \/ ServerCloses \/ UNCHANGED submitVars
  BY <1>6 DEF driver_post, submitr, rio_writen, ServerCloses, StreamIntact, submitVars, rio, server
<1> QED  BY <1>1, <1>2, <1>3, <1>4, <1>5, <1>6 DEF SubmitNext, Client, Server

(* rio_read hands out what the server sent, in order and without a gap, for *)
(* every answer, every size of the buffer and every way read behaves; the   *)
(* states are well typed.                                                   *)
THEOREM SubmitStreamIntact == SubmitSpec => [](SubmitTypeOK /\ StreamIntact)
<1>1. SubmitInit => SubmitTypeOK /\ StreamIntact  BY InitTypes, InitStream
<1>2. SubmitTypeOK /\ StreamIntact /\ [SubmitNext]_submitVars => (SubmitTypeOK /\ StreamIntact)'
  BY NextTypes, NextStream
<1> QED  BY <1>1, <1>2, PTL DEF SubmitSpec

LEMMA NextBuffer == SubmitTypeOK /\ BufferNeverOverflows /\ [SubmitNext]_submitVars => BufferNeverOverflows'
<1> SUFFICES ASSUME SubmitTypeOK, BufferNeverOverflows, [SubmitNext]_submitVars PROVE BufferNeverOverflows'
  OBVIOUS
<1>0. nleft \in Nat /\ line \in Seq(Byte) /\ Len(line) \in Nat /\ Len(<< >>) = 0
  BY LenProperties DEF SubmitTypeOK
<1>1. CASE submitr
  <2>1. result \in Seq(Char)  BY DEF SubmitTypeOK
  <2>2. Len(result) \in Nat /\ Encoded(result) \in Nat /\ Encoded(result) <= 3 * Len(result)
    BY <2>1, EncodedIsBounded, LenProperties
  <2>3. nleft' = nleft \/ (/\ nleft' = RequestText + NamesLen + Encoded(result)
                           /\ ~(req_size(result) > SUBMITR_MAXBUF))
    BY <1>1 DEF submitr
  <2>4. nleft' + 1 <= SUBMITR_MAXBUF
    BY <1>0, <2>2, <2>3 DEF req_size, BufferNeverOverflows
  <2> QED  BY <1>1, <2>4 DEF submitr, BufferNeverOverflows, rio
<1>2. CASE rio_writen
  <2>1. nleft' = nleft \/ \E n \in 1 .. nleft : nleft' = nleft - n
    BY <1>2 DEF rio_writen
  <2>2. nleft' + 1 <= SUBMITR_MAXBUF
    BY <1>0, <2>1 DEF BufferNeverOverflows
  <2> QED  BY <1>2, <2>2 DEF rio_writen, BufferNeverOverflows, rio
<1>3. CASE TakeByte
  <2> DEFINE l == Append(line, Head(unread))
  <2>1. CASE LineEnds(l)
    <3>1. line' = << >> /\ nleft' = nleft  BY <1>3, <2>1 DEF TakeByte
    <3> QED  BY <1>0, <3>1 DEF BufferNeverOverflows
  <2>2. CASE ~LineEnds(l)
    <3>1. line' = l /\ nleft' = nleft  BY <1>3, <2>2 DEF TakeByte
    <3>2. Len(l) = Len(line) + 1  BY <1>0
    <3>3. Len(l) # SUBMITR_MAXBUF - 1  BY <2>2 DEF LineEnds
    <3> QED  BY <1>0, <3>1, <3>2, <3>3 DEF BufferNeverOverflows
  <2> QED  BY <2>1, <2>2
<1>4. CASE EndOfStream
  BY <1>0, <1>4 DEF EndOfStream, BufferNeverOverflows
<1>5. CASE UNCHANGED <<nleft, line>>
  BY <1>5 DEF BufferNeverOverflows
<1>6. driver_post \/ Refill \/ Interrupted \/ ReadFails \/ Server \/ UNCHANGED submitVars
        => UNCHANGED <<nleft, line>>
  BY DEF driver_post, Refill, Interrupted, ReadFails, Server, ServerSends, ServerCloses, submitVars, rio
<1> QED  BY <1>1, <1>2, <1>3, <1>4, <1>5, <1>6 DEF SubmitNext, Client

(* The size check of submitr is enough for the request, whatever the result *)
(* encodes to, and rio_readlineb's loop for a line: buf is never overrun.   *)
THEOREM SubmitBufferNeverOverflows == SubmitSpec => []BufferNeverOverflows
<1>1. SubmitInit => BufferNeverOverflows
  BY Len(<< >>) = 0 DEF SubmitInit, BufferNeverOverflows
<1>2. SubmitTypeOK /\ BufferNeverOverflows /\ [SubmitNext]_submitVars => BufferNeverOverflows'
  BY NextBuffer
<1>3. SubmitSpec => []SubmitTypeOK  BY SubmitStreamIntact, PTL
<1> QED  BY <1>1, <1>2, <1>3, PTL DEF SubmitSpec
-----------------------------------------------------------------------------
(* The verdict.  When every line fits, line is what follows the last line   *)
(* rio_readlineb returned, and stage says which lines those were.              *)

(* Three bytes of s that end a line and are the empty line after it. *)
Empty(s, b) == s[b] = "\n" /\ s[b + 1] = "\r" /\ s[b + 2] = "\n"

LEMMA EmptyLineBytes ==
  ASSUME NEW s \in Seq(Byte), NEW b \in 1 .. Len(s)
  PROVE  EmptyLine(s, b) <=> b + 2 <= Len(s) /\ Empty(s, b)
<1>1. CASE ~(b + 2 <= Len(s))  BY <1>1 DEF EmptyLine
<1>2. CASE b + 2 <= Len(s)
  <2> DEFINE t == SubSeq(s, b, b + 2)
             e == <<"\n", "\r", "\n">>
  <2>1. Len(s) \in Nat /\ \A k \in 1 .. Len(s) : s[k] \in Byte
    BY LenProperties, ElementOfSeq
  <2>2. /\ t \in Seq(Byte) /\ Len(t) = 3
        /\ t[1] = s[b] /\ t[2] = s[b + 1] /\ t[3] = s[b + 2]
    <3>1. b \in Int /\ b + 2 \in Int /\ b <= b + 2 /\ b >= 1
      BY <2>1
    <3>2. /\ t \in Seq(Byte) /\ Len(t) = (b + 2) - b + 1
          /\ \A k \in 1 .. ((b + 2) - b + 1) : t[k] = s[b + k - 1]
      BY <1>2, <2>1, <3>1, SubSeqProperties
    <3> HIDE DEF t
    <3>3. (b + 2) - b + 1 = 3 /\ b + 1 - 1 = b /\ b + 2 - 1 = b + 1 /\ b + 3 - 1 = b + 2
      BY <3>1
    <3> QED  BY <3>1, <3>2, <3>3
  <2>3. e \in Seq(Byte) /\ Len(e) = 3 /\ e[1] = "\n" /\ e[2] = "\r" /\ e[3] = "\n"
    BY DEF Byte
  <2> HIDE DEF t, e
  <2>4. t = e <=> t[1] = e[1] /\ t[2] = e[2] /\ t[3] = e[3]
    <3>1. \A k \in 1 .. 3 : k = 1 \/ k = 2 \/ k = 3  OBVIOUS
    <3> QED  BY <2>2, <2>3, <3>1, SeqEqual
  <2> QED  BY <1>2, <2>2, <2>3, <2>4 DEF EmptyLine, Empty, t, e
<1> QED  BY <1>1, <1>2

(* l is the end of s; the first n bytes of l are no newlines. *)
EndsIn(s, l) == /\ Len(l) <= Len(s)
                /\ \A k \in 1 .. Len(l) : l[k] = s[Len(s) - Len(l) + k]
Unended(l, n) == \A k \in 1 .. n : l[k] # "\n"

(* The lines up to byte q of s bring submitr to step p. *)
Through(p, s, q) ==
  /\ p = "status" => q = 0
  /\ p = "headers" => /\ q >= 1 /\ s[1] = "200" /\ s[q] = "\n"
                      /\ \A j \in 1 .. q - 2 : ~Empty(s, j)
  /\ p = "body" => /\ q >= 3 /\ s[1] = "200" /\ Empty(s, q - 2)
                   /\ \A j \in 1 .. q - 3 : ~Empty(s, j)

LEMMA OneMoreByte ==
  ASSUME NEW p, NEW s \in Seq(Byte), NEW l \in Seq(Byte), NEW c \in Byte,
         EndsIn(s, l), Unended(l, Len(l)), Through(p, s, Len(s) - Len(l))
  PROVE  LET t == Append(s, c)  m == Append(l, c)
         IN  /\ t \in Seq(Byte) /\ m \in Seq(Byte) /\ Len(m) = Len(l) + 1
             /\ m[Len(m)] = c
             /\ EndsIn(t, m) /\ Unended(m, Len(m) - 1) /\ Through(p, t, Len(t) - Len(m))
<1> DEFINE t == Append(s, c)
           m == Append(l, c)
           q == Len(s) - Len(l)
<1>1. Len(s) \in Nat /\ Len(l) \in Nat  BY LenProperties
<1>2. /\ t \in Seq(Byte) /\ Len(t) = Len(s) + 1 /\ t[Len(s) + 1] = c
      /\ \A k \in 1 .. Len(s) : t[k] = s[k]
  BY AppendProperties
<1>3. /\ m \in Seq(Byte) /\ Len(m) = Len(l) + 1 /\ m[Len(l) + 1] = c
      /\ \A k \in 1 .. Len(l) : m[k] = l[k]
  BY AppendProperties
<1> HIDE DEF t, m
<1>4. EndsIn(t, m)
  <2>1. Len(m) <= Len(t)  BY <1>1, <1>2, <1>3 DEF EndsIn
  <2>2. ASSUME NEW k \in 1 .. Len(m) PROVE m[k] = t[Len(t) - Len(m) + k]
    <3>1. CASE k = Len(m)  BY <1>1, <1>2, <1>3, <3>1
    <3>2. CASE k \in 1 .. Len(l)
      <4>1. Len(t) - Len(m) + k = q + k /\ q + k \in 1 .. Len(s)
        BY <1>1, <1>2, <1>3, <3>2 DEF EndsIn
      <4> QED  BY <1>2, <1>3, <3>2, <4>1 DEF EndsIn
    <3> QED  BY <1>1, <1>3, <3>1, <3>2
  <2> QED  BY <2>1, <2>2 DEF EndsIn
<1>5. Unended(m, Len(m) - 1)  BY <1>1, <1>3 DEF Unended
<1>6. q \in 0 .. Len(s) /\ Len(t) - Len(m) = q  BY <1>1, <1>2, <1>3 DEF EndsIn
<1>7. Through(p, t, q)
  <2>1. ASSUME NEW j \in 1 .. q - 2 PROVE Empty(t, j) <=> Empty(s, j)
    <3>1. j \in 1 .. Len(s) /\ j + 1 \in 1 .. Len(s) /\ j + 2 \in 1 .. Len(s)
      <4> HIDE DEF q
      <4> QED  BY <1>1, <1>6
    <3>2. t[j] = s[j] /\ t[j + 1] = s[j + 1] /\ t[j + 2] = s[j + 2]  BY <1>2, <3>1
    <3> QED  BY <3>2 DEF Empty
  <2>2. q >= 1 => t[1] = s[1] /\ t[q] = s[q]  BY <1>1, <1>2, <1>6, SMTT(20)
  <2> QED  BY <1>1, <1>6, <2>1, <2>2 DEF Through
<1> QED  BY <1>1, <1>3, <1>4, <1>5, <1>6, <1>7 DEF t, m

LEMMA FitsBefore ==
  ASSUME NEW s \in Seq(Byte), NEW c \in Byte, LinesFit(Append(s, c))
  PROVE  LinesFit(s)
<1> DEFINE t == Append(s, c)
           w == SUBMITR_MAXBUF - 2
<1>1. Len(s) \in Nat /\ Len(t) = Len(s) + 1 /\ \A k \in 1 .. Len(s) : t[k] = s[k]
  BY LenProperties, AppendProperties
<1>2. w \in Nat  OBVIOUS
<1> SUFFICES ASSUME NEW b \in 1 .. Len(s) - w PROVE \E j \in b .. b + w : s[j] = "\n"
  BY DEF LinesFit
<1>3. LinesFit(t)  OBVIOUS
<1> HIDE DEF t
<1>4. b \in 1 .. Len(t) - w  BY <1>1, <1>2
<1>5. PICK j \in b .. b + w : t[j] = "\n"  BY <1>3, <1>4 DEF LinesFit
<1>6. j \in 1 .. Len(s)  BY <1>1, <1>2
<1> QED  BY <1>1, <1>5, <1>6

(* A full buffer is a whole line, when every line fits. *)
LEMMA FullBufferIsALine ==
  ASSUME NEW s \in Seq(Byte), NEW l \in Seq(Byte), Len(l) >= 1,
         LinesFit(s), EndsIn(s, l), Unended(l, Len(l) - 1), LineEnds(l)
  PROVE  l[Len(l)] = "\n"
<1> DEFINE w == SUBMITR_MAXBUF - 2
           b == Len(s) - w
<1>1. Len(s) \in Nat /\ Len(l) \in Nat /\ w \in Nat  BY LenProperties
<1> SUFFICES ASSUME Len(l) = w + 1 PROVE l[Len(l)] = "\n"  BY DEF LineEnds
<1>2. b \in 1 .. Len(s) - w  BY <1>1 DEF EndsIn
<1>3. PICK j \in b .. b + w : s[j] = "\n"  BY <1>2 DEF LinesFit
<1>4. j - b + 1 \in 1 .. Len(l) /\ Len(s) - Len(l) + (j - b + 1) = j  BY <1>1, <1>2, <1>3
<1>5. l[j - b + 1] = "\n"  BY <1>3, <1>4 DEF EndsIn
<1>6. ~(j - b + 1 \in 1 .. Len(l) - 1)  BY <1>5 DEF Unended
<1> DEFINE k == j - b + 1
<1>7. k \in 1 .. Len(l) /\ ~(k \in 1 .. Len(l) - 1) /\ l[k] = "\n"  BY <1>4, <1>5, <1>6
<1> HIDE DEF k
<1>8. k = Len(l)  BY <1>1, <1>7
<1> QED  BY <1>7, <1>8

(* What a whole line does to the step. *)
LEMMA WholeLine ==
  ASSUME NEW p, NEW s \in Seq(Byte), NEW l \in Seq(Byte), Len(l) >= 1,
         EndsIn(s, l), Unended(l, Len(l) - 1), l[Len(l)] = "\n",
         Through(p, s, Len(s) - Len(l))
  PROVE  /\ p = "status" /\ l[1] = "200" => Through("headers", s, Len(s))
         /\ p = "headers" => IF l = <<"\r", "\n">> THEN Through("body", s, Len(s))
                             ELSE Through("headers", s, Len(s))
<1> DEFINE q == Len(s) - Len(l)
           n == Len(s)
<1>1. n \in Nat /\ Len(l) \in Nat /\ q \in Nat /\ q + Len(l) = n  BY LenProperties DEF EndsIn
<1>2. \A k \in 1 .. Len(l) : l[k] = s[q + k]  BY DEF EndsIn
<1>3. s[n] = "\n"  BY <1>1, <1>2
<1>4. \A j \in q + 1 .. n - 1 : s[j] # "\n"
  <2> SUFFICES ASSUME NEW j \in q + 1 .. n - 1 PROVE s[j] # "\n"  OBVIOUS
  <2>1. j - q \in 1 .. Len(l) - 1 /\ q + (j - q) = j  BY <1>1
  <2> DEFINE k == j - q
  <2> HIDE DEF k
  <2>2. k \in 1 .. Len(l) - 1 /\ k \in 1 .. Len(l) /\ q + k = j  BY <1>1, <2>1 DEF k
  <2>3. l[k] # "\n"  BY <2>2 DEF Unended
  <2> QED  BY <1>2, <2>2, <2>3
<1> HIDE DEF q, n
<1>5. ASSUME p = "status", l[1] = "200" PROVE Through("headers", s, n)
  <2>1. q = 0  BY <1>5 DEF Through, q
  <2>2. s[1] = "200"  BY <1>1, <1>2, <1>5, <2>1
  <2>3. \A j \in 1 .. n - 2 : ~Empty(s, j)  BY <1>1, <1>4, <2>1 DEF Empty
  <2> QED  BY <1>1, <1>3, <2>1, <2>2, <2>3 DEF Through
<1>6. ASSUME p = "headers"
      PROVE  IF l = <<"\r", "\n">> THEN Through("body", s, n) ELSE Through("headers", s, n)
  <2>1. q >= 1 /\ s[1] = "200" /\ s[q] = "\n" /\ \A j \in 1 .. q - 2 : ~Empty(s, j)
    BY <1>6 DEF Through, q
  <2>2. \A j \in 1 .. q - 1 : ~Empty(s, j)
    <3>1. q >= 2 => ~Empty(s, q - 1)
      <4> SUFFICES ASSUME q >= 2, s[(q - 1) + 1] = "\r" PROVE FALSE  BY DEF Empty
      <4>1. (q - 1) + 1 = q  BY <1>1
      <4> QED  BY <2>1, <4>1
    <3>2. \A j \in 1 .. q - 1 : j \in 1 .. q - 2 \/ (j = q - 1 /\ q >= 2)  BY <1>1
    <3> QED  BY <2>1, <3>1, <3>2
  <2>3. \A j \in q + 1 .. n - 2 : ~Empty(s, j)  BY <1>1, <1>4 DEF Empty
  <2>4. CASE l = <<"\r", "\n">>
    <3>1. Len(l) = 2 /\ l[1] = "\r" /\ l[2] = "\n"  BY <2>4
    <3>2. n = q + 2 /\ Empty(s, q)  BY <1>1, <1>2, <2>1, <3>1 DEF Empty
    <3>3. n >= 3 /\ n - 2 = q /\ n - 3 = q - 1  BY <1>1, <2>1, <3>2
    <3> QED  BY <2>1, <2>2, <2>4, <3>2, <3>3 DEF Through
  <2>5. CASE l # <<"\r", "\n">>
    <3>1. q <= n - 2 => ~Empty(s, q)
      <4> SUFFICES ASSUME q <= n - 2, Empty(s, q) PROVE FALSE  OBVIOUS
      <4>1. s[q + 1] = "\r" /\ s[q + 2] = "\n"  BY DEF Empty
      <4>2. n = q + 2  BY <1>1, <1>4, <4>1
      <4>3. Len(l) = 2
        <5> DEFINE k == Len(l)
        <5>1. k \in Nat /\ q + k = n  BY <1>1
        <5> HIDE DEF k
        <5>2. k = 2  BY <1>1, <4>2, <5>1
        <5> QED  BY <5>2 DEF k
      <4>4. l[1] = "\r" /\ l[2] = "\n"  BY <1>2, <4>1, <4>3, 1 \in 1 .. 2, 2 \in 1 .. 2
      <4>5. l = <<"\r", "\n">>
        <5>1. <<"\r", "\n">> \in Seq(Byte) /\ Len(<<"\r", "\n">>) = 2  BY DEF Byte
        <5>2. \A k \in 1 .. 2 : k = 1 \/ k = 2  OBVIOUS
        <5> QED  BY <4>3, <4>4, <5>1, <5>2, SeqEqual
      <4> QED  BY <2>5, <4>5
    <3>2. \A j \in 1 .. n - 2 : j \in 1 .. q - 1 \/ (j = q /\ q <= n - 2) \/ j \in q + 1 .. n - 2
      BY <1>1
    <3>3. \A j \in 1 .. n - 2 : ~Empty(s, j)  BY <2>2, <2>3, <3>1, <3>2
    <3>4. n >= 1  BY <1>1, <2>1
    <3> QED  BY <1>3, <2>1, <2>5, <3>3, <3>4 DEF Through
  <2> QED  BY <2>4, <2>5
<1> QED  BY <1>5, <1>6 DEF n, q

(* The line after the empty one decides, ended or not. *)
LEMMA BodyDecides ==
  ASSUME NEW s \in Seq(Byte), NEW l \in Seq(Byte), EndsIn(s, l),
         Through("body", s, Len(s) - Len(l))
  PROVE  l = <<"OK">> <=> Accepts(s)
<1> DEFINE q == Len(s) - Len(l)
<1>1. Len(s) \in Nat /\ Len(l) \in Nat /\ q \in Nat /\ q + Len(l) = Len(s)
  BY LenProperties DEF EndsIn
<1>2. /\ q >= 3 /\ s[1] = "200" /\ Empty(s, q - 2) /\ \A j \in 1 .. q - 3 : ~Empty(s, j)
  BY DEF Through
<1>3. SubSeq(s, q + 1, Len(s)) = l
  <2> DEFINE t == SubSeq(s, q + 1, Len(s))
  <2>1. \A k \in 1 .. Len(s) : s[k] \in Byte  BY ElementOfSeq
  <2>2. t \in Seq(Byte) /\ Len(t) = Len(l) /\ \A k \in 1 .. Len(l) : t[k] = s[q + k]
    <3>1. /\ q + 1 \in 1 .. Len(s) + 1 /\ Len(s) - (q + 1) + 1 = Len(l)
          /\ \A k \in 1 .. Len(l) : q + k = (q + 1) + k - 1
      BY <1>1
    <3>2. /\ t \in Seq(Byte)
          /\ Len(t) = IF q + 1 <= Len(s) THEN Len(s) - (q + 1) + 1 ELSE 0
          /\ \A k \in 1 .. Len(s) - (q + 1) + 1 : t[k] = s[(q + 1) + k - 1]
      BY <1>1, <2>1, SubSeqProperties
    <3> QED  BY <1>1, <3>1, <3>2
  <2>3. \A k \in 1 .. Len(l) : t[k] = l[k]  BY <2>2 DEF EndsIn
  <2> QED  BY <2>2, <2>3, SeqEqual
<1>4. s # << >>  BY <1>1, <1>2
<1> HIDE DEF q
<1>5. EmptyLine(s, q - 2) /\ \A j \in 1 .. q - 3 : ~EmptyLine(s, j)
  BY <1>1, <1>2, EmptyLineBytes
<1>6. q - 2 \in 1 .. Len(s) /\ (q - 2) - 1 = q - 3 /\ (q - 2) + 3 = q + 1  BY <1>1, <1>2
<1>7. ASSUME l = <<"OK">> PROVE Accepts(s)
  <2>1. SubSeq(s, (q - 2) + 3, Len(s)) = <<"OK">>  BY <1>3, <1>6, <1>7
  <2>2. \A j \in 1 .. (q - 2) - 1 : ~EmptyLine(s, j)  BY <1>5, <1>6
  <2> QED  BY <1>2, <1>4, <1>5, <1>6, <2>1, <2>2 DEF Accepts
<1>8. ASSUME Accepts(s) PROVE l = <<"OK">>
  <2>1. PICK b \in 1 .. Len(s) : /\ EmptyLine(s, b) /\ \A j \in 1 .. b - 1 : ~EmptyLine(s, j)
                                 /\ SubSeq(s, b + 3, Len(s)) = <<"OK">>
    BY <1>8 DEF Accepts
  <2>2. b = q - 2  BY <1>1, <1>2, <1>5, <1>6, <2>1
  <2> QED  BY <1>3, <1>6, <2>1, <2>2
<1> QED  BY <1>7, <1>8

(* The end of the stream: nothing is buffered, on the way, or to come. *)
AtEnd == closed /\ wire = << >> /\ unread = << >>

LineInv ==
  /\ stage \in {"post", "submit", "write"} => taken = << >> /\ line = << >>
  /\ LinesFit(taken) =>
       /\ Reading => /\ EndsIn(taken, line) /\ Unended(line, Len(line))
                     /\ \/ Through(stage, taken, Len(taken) - Len(line))
                        \/ stage = "headers" /\ line = << >> /\ AtEnd
       /\ VerdictFromTheAnswer

LEMMA InitLine == SubmitInit => LineInv
BY DEF SubmitInit, LineInv, Reading, VerdictFromTheAnswer

(* submitr, given the line l with which the bytes s end. *)
LEMMA GotALine ==
  ASSUME NEW s \in Seq(Byte), NEW l \in Seq(Byte), Len(l) >= 1, LinesFit(s),
         EndsIn(s, l), Through(stage, s, Len(s) - Len(l)), Reading, Got(l),
         taken' = s, line' = << >>, autograded' = autograded,
         \/ Unended(l, Len(l) - 1) /\ l[Len(l)] = "\n"
         \/ Unended(l, Len(l)) /\ AtEnd'
  PROVE  LineInv'
<1>1. Len(s) \in Nat /\ Len(l) \in Nat /\ Len(line') = 0 /\ Len(s) - 0 = Len(s)
  BY LenProperties
<1>2. EndsIn(s, line') /\ Unended(line', 0)  BY <1>1 DEF EndsIn, Unended
<1>3. CASE stage = "body"
  <2>1. stage' = "done" /\ (ret' = 0 <=> l = <<"OK">>)  BY <1>3 DEF Got
  <2>2. ret' = 0 <=> Accepts(s)  BY <1>3, <2>1, BodyDecides
  <2> QED  BY <2>1, <2>2 DEF LineInv, Reading, VerdictFromTheAnswer
<1>4. CASE stage # "body" /\ stage' = "done"
  <2>1. status_msg' = <<"Error">>  BY <1>4 DEF Got, Fail, Reading
  <2> QED  BY <1>4, <2>1 DEF LineInv, Reading, VerdictFromTheAnswer
<1>5. CASE stage # "body" /\ stage' # "done"
  <2>1. \/ stage = "status" /\ l[1] = "200" /\ stage' = "headers"
        \/ stage = "headers" /\ stage' = (IF l = <<"\r", "\n">> THEN "body" ELSE "headers")
    BY <1>5 DEF Got, Fail
  <2>2. CASE Unended(l, Len(l) - 1) /\ l[Len(l)] = "\n"
    <3>1. Through(stage', s, Len(s))  BY <2>1, <2>2, WholeLine
    <3> QED  BY <1>1, <1>2, <1>5, <2>1, <3>1 DEF LineInv, VerdictFromTheAnswer
  <2>3. CASE Unended(l, Len(l)) /\ AtEnd'
    <3>1. l # <<"\r", "\n">>
      <4> SUFFICES ASSUME l = <<"\r", "\n">> PROVE FALSE  OBVIOUS
      <4>1. Len(l) = 2 /\ l[2] = "\n"  OBVIOUS
      <4> QED  BY <2>3, <4>1 DEF Unended
    <3>2. stage' = "headers"  BY <2>1, <3>1
    <3> QED  BY <1>1, <1>2, <2>3, <3>2 DEF LineInv, VerdictFromTheAnswer
  <2> QED  BY <2>2, <2>3
<1> QED  BY <1>3, <1>4, <1>5

LEMMA NextVerdict == SubmitTypeOK /\ StreamIntact /\ LineInv /\ [SubmitNext]_submitVars => LineInv'
<1> SUFFICES ASSUME SubmitTypeOK, StreamIntact, LineInv, [SubmitNext]_submitVars PROVE LineInv'  OBVIOUS
<1>0. /\ unread \in Seq(Byte) /\ taken \in Seq(Byte) /\ line \in Seq(Byte)
      /\ Len(line) \in Nat /\ Len(taken) \in Nat
  BY LenProperties DEF SubmitTypeOK
<1>1. CASE driver_post
  BY <1>1 DEF driver_post, LineInv, Reading, VerdictFromTheAnswer, call, rio
<1>2. CASE submitr
  BY <1>2 DEF submitr, Fail, LineInv, Reading, VerdictFromTheAnswer, call, rio
<1>3. CASE rio_writen
  <2>1. /\ stage = "write" /\ taken' = << >> /\ line' = << >> /\ autograded' = autograded
        /\ stage' \in {"write", "status", "killed"} \/ (stage' = "done" /\ status_msg' = <<"Error">>)
    BY <1>3 DEF rio_writen, Fail, LineInv, call, rio
  <2>2. Len(<< >>) = 0 /\ EndsIn(<< >>, << >>) /\ Unended(<< >>, 0) /\ Through("status", << >>, 0)
    BY DEF EndsIn, Unended, Through
  <2> QED  BY <2>1, <2>2 DEF LineInv, Reading, VerdictFromTheAnswer
<1>4. CASE TakeByte
  <2> DEFINE c == Head(unread)
             l == Append(line, c)
             s == Append(taken, c)
  <2>1. unread # << >> /\ Reading  BY <1>4 DEF TakeByte, StreamIntact
  <2>2. c \in Byte  BY <1>0, <2>1, HeadTailProperties
  <2>3. /\ taken' = s /\ autograded' = autograded
        /\ LineEnds(l) => Got(l) /\ line' = << >>
        /\ ~LineEnds(l) => line' = l /\ stage' = stage
    BY <1>4 DEF TakeByte, call, answer
  <2>4. stage \notin {"post", "submit", "write", "done", "killed"}  BY <2>1 DEF Reading
  <2>5. stage' \notin {"post", "submit", "write"}
    BY <2>1, <2>3, <2>4 DEF Got, Fail, Reading
  <2>6. CASE ~LinesFit(s)  BY <2>3, <2>5, <2>6 DEF LineInv
  <2>7. CASE LinesFit(s)
    <3>1. LinesFit(taken)  BY <1>0, <2>2, <2>7, FitsBefore
    <3>2. /\ EndsIn(taken, line) /\ Unended(line, Len(line))
          /\ Through(stage, taken, Len(taken) - Len(line))
      BY <2>1, <3>1 DEF LineInv, AtEnd
    <3>3. /\ s \in Seq(Byte) /\ l \in Seq(Byte) /\ Len(l) = Len(line) + 1 /\ l[Len(l)] = c
          /\ EndsIn(s, l) /\ Unended(l, Len(l) - 1) /\ Through(stage, s, Len(s) - Len(l))
      BY <1>0, <2>2, <3>2, OneMoreByte
    <3>4. Len(l) >= 1 /\ Len(l) \in Nat  BY <1>0, <3>3
    <3> HIDE DEF l, s, c
    <3>5. CASE LineEnds(l)
      <4>1. l[Len(l)] = "\n"  BY <2>7, <3>3, <3>4, <3>5, FullBufferIsALine
      <4> QED  BY <2>1, <2>3, <2>7, <3>3, <3>4, <3>5, <4>1, GotALine
    <3>6. CASE ~LineEnds(l)
      <4>1. l[Len(l)] # "\n"  BY <3>6 DEF LineEnds
      <4>2. Unended(l, Len(l))
        <5>1. \A k \in 1 .. Len(l) : k \in 1 .. Len(l) - 1 \/ k = Len(l)  BY <3>4
        <5> QED  BY <3>3, <4>1, <5>1 DEF Unended
      <4>3. line' = l /\ stage' = stage  BY <2>3, <3>6
      <4> QED  BY <2>3, <2>4, <3>3, <4>2, <4>3 DEF LineInv, VerdictFromTheAnswer
    <3> QED  BY <3>5, <3>6
  <2> QED  BY <2>6, <2>7
<1>5. CASE EndOfStream
  <2>1. /\ Reading /\ wire = << >> /\ closed /\ line' = << >>
        /\ taken' = taken /\ autograded' = autograded /\ UNCHANGED <<wire, closed, unread>>
        /\ IF line = << >> THEN Fail ELSE Got(line)
    BY <1>5 DEF EndOfStream, call, server
  <2>2. AtEnd'
    <3>1. unread = << >>  BY <1>0, <1>5, LenProperties DEF EndOfStream, StreamIntact
    <3> QED  BY <2>1, <3>1 DEF AtEnd
  <2>3. stage' \notin {"post", "submit", "write"}  BY <2>1 DEF Got, Fail, Reading
  <2>4. CASE ~LinesFit(taken)  BY <2>1, <2>3, <2>4 DEF LineInv
  <2>5. CASE LinesFit(taken) /\ line = << >>
    BY <2>1, <2>3, <2>5 DEF Fail, LineInv, Reading, VerdictFromTheAnswer
  <2>6. CASE LinesFit(taken) /\ line # << >>
    <3>1. /\ EndsIn(taken, line) /\ Unended(line, Len(line))
          /\ Through(stage, taken, Len(taken) - Len(line))
      BY <2>1, <2>6 DEF LineInv
    <3>2. Len(line) >= 1  BY <1>0, <2>6, EmptySeq
    <3> QED  BY <1>0, <2>1, <2>2, <2>6, <3>1, <3>2, GotALine
  <2> QED  BY <2>4, <2>5, <2>6
<1>6. CASE ReadFails
  BY <1>6 DEF ReadFails, Fail, LineInv, Reading, VerdictFromTheAnswer, call
(* The others leave the bytes taken, and an end once reached. *)
<1>7. CASE Refill \/ Interrupted \/ ServerSends \/ ServerCloses \/ UNCHANGED submitVars
  <2>1. /\ taken' = taken /\ line' = line /\ stage' = stage /\ autograded' = autograded
        /\ ret' = ret /\ status_msg' = status_msg
    BY <1>7 DEF Refill, Interrupted, ServerSends, ServerCloses, submitVars, call, rio, answer
  <2>2. AtEnd => AtEnd'
    BY <1>7 DEF AtEnd, Refill, Interrupted, ServerSends, ServerCloses, submitVars, rio, server
  <2> QED  BY <2>1, <2>2 DEF LineInv, Reading, VerdictFromTheAnswer
<1> QED  BY <1>1, <1>2, <1>3, <1>4, <1>5, <1>6, <1>7 DEF SubmitNext, Client, Server

(* submitr's verdict is what the answer says: however read cuts the bytes   *)
(* up, and for all sizes of the two buffers, driver_post returns 0 exactly  *)
(* for a complete acceptance, unless it ends with one of its own errors or  *)
(* a line of the answer does not fit the buffer.                            *)
THEOREM SubmitVerdict == SubmitSpec => []VerdictFromTheAnswer
<1>1. SubmitTypeOK /\ StreamIntact /\ LineInv /\ [SubmitNext]_submitVars => LineInv'  BY NextVerdict
<1>2. SubmitSpec => [](SubmitTypeOK /\ StreamIntact)  BY SubmitStreamIntact
<1>3. SubmitSpec => []LineInv  BY <1>1, <1>2, InitLine, PTL DEF SubmitSpec
<1>4. LineInv => VerdictFromTheAnswer  BY DEF LineInv, VerdictFromTheAnswer
<1> QED  BY <1>3, <1>4, PTL
-----------------------------------------------------------------------------
(* The recorder: the calls of a program, and the lines that name them.     *)

Call == [fn : {"m", "c", "r", "f"}, p : Nat, old : Nat, size : Nat]

(* A call that makes a block, and the address it releases, if it does. *)
Making(c)   == c.fn # "f" /\ c.p # NULL
Released(c) == IF c.fn = "f" THEN c.p ELSE c.old

(* One call, when h words of memory were given. *)
CallOK(c, h) ==
  /\ c \in Call
  /\ c.p <= h + 1 /\ c.old <= h + 1
  /\ c.fn \in {"m", "c"} => c.p # NULL /\ c.old = NULL
  /\ c.fn = "r" => (c.p = NULL <=> c.size = 0)
  /\ Making(c) /\ c.size > 0 => c.p <= h

(* Only a block of size 0 shares its address with a later one. *)
CallsOK(l, h) ==
  /\ l \in Seq(Call) /\ h \in Nat
  /\ \A q \in 1 .. Len(l) : CallOK(l[q], h)
  /\ \A q, j \in 1 .. Len(l) :
       q < j /\ Making(l[q]) /\ Making(l[j]) /\ l[q].size > 0 => l[q].p < l[j].p

(* own[j] is the call that made the block the call j releases. *)
Owns(l, own) ==
  /\ own \in [1 .. Len(l) -> Nat]
  /\ \A j \in 1 .. Len(l) :
       IF Released(l[j]) = NULL THEN own[j] = 0
       ELSE own[j] \in 1 .. (j - 1) /\ Making(l[own[j]]) /\ l[own[j]].p = Released(l[j])
  /\ \A q, j \in 1 .. Len(l) : own[q] = own[j] /\ own[q] # 0 => q = j

(* The calls whose block is held after the first k. *)
Alive(l, own, k) == {u \in 1 .. k : Making(l[u]) /\ \A j \in 1 .. k : own[j] # u}

Holds(l, own, b) ==
  /\ DOMAIN b = Alive(l, own, Len(l))
  /\ \A u \in DOMAIN b : b[u].p = l[u].p /\ b[u].size = l[u].size

(* How one call c changes the blocks: the block u is released, or none is  *)
(* with u = 0, and the call's own is added if it makes one.                *)
Changed(l, b, u, c, b2) ==
  /\ IF Released(c) = NULL THEN u = 0 ELSE u \in DOMAIN b /\ b[u].p = Released(c)
  /\ DOMAIN b2 = (DOMAIN b \ {u}) \cup (IF Making(c) THEN {Len(l) + 1} ELSE {})
  /\ \A v \in DOMAIN b \ {u} : b2[v] = b[v]
  /\ Making(c) => b2[Len(l) + 1].p = c.p /\ b2[Len(l) + 1].size = c.size

LEMMA AppendFacts ==
  ASSUME NEW S, NEW s \in Seq(S), NEW e \in S
  PROVE  /\ Append(s, e) \in Seq(S)
         /\ Len(Append(s, e)) = Len(s) + 1
         /\ \A q \in 1 .. Len(s) : Append(s, e)[q] = s[q]
         /\ Append(s, e)[Len(s) + 1] = e
         /\ Len(s) \in Nat
  BY AppendProperties

LEMMA CallsGrow ==
  ASSUME NEW l, NEW h, NEW c, NEW h2 \in Nat, CallsOK(l, h), h <= h2, CallOK(c, h2),
         Making(c) => c.p = h + 1
  PROVE  CallsOK(Append(l, c), h2)
<1> DEFINE n == Len(l)
           m == Append(l, c)
<1>1. /\ l \in Seq(Call) /\ c \in Call /\ h \in Nat
      /\ \A q \in 1 .. n : CallOK(l[q], h)
      /\ \A q, j \in 1 .. n : q < j /\ Making(l[q]) /\ Making(l[j]) /\ l[q].size > 0 => l[q].p < l[j].p
  BY DEF CallsOK, CallOK
<1>2. /\ m \in Seq(Call) /\ Len(m) = n + 1 /\ n \in Nat
      /\ \A q \in 1 .. n : m[q] = l[q]
      /\ m[n + 1] = c
  BY <1>1, AppendFacts
<1> HIDE DEF n, m
<1>3. ASSUME NEW q \in 1 .. (n + 1) PROVE CallOK(m[q], h2)
  <2>1. CASE q \in 1 .. n
    <3>1. CallOK(l[q], h) /\ m[q] = l[q]
      BY <1>1, <1>2, <2>1
    <3>2. h \in Nat /\ h2 \in Nat /\ h <= h2
      BY <1>1
    <3>3. CallOK(l[q], h2)
      BY <3>1, <3>2 DEF CallOK, Call
    <3> QED BY <3>1, <3>3
  <2>2. CASE q = n + 1
    BY <1>2, <2>2
  <2> QED BY <1>2, <2>1, <2>2
<1>4. ASSUME NEW q \in 1 .. (n + 1), NEW j \in 1 .. (n + 1),
             q < j, Making(m[q]), Making(m[j]), m[q].size > 0
      PROVE  m[q].p < m[j].p
  <2>1. q \in 1 .. n /\ m[q] = l[q] /\ CallOK(l[q], h)
    BY <1>1, <1>2, <1>4
  <2>2. CASE j \in 1 .. n
    BY <1>1, <1>2, <1>4, <2>1, <2>2
  <2>3. CASE j = n + 1
    <3>1. m[j].p = h + 1 /\ l[q].p <= h /\ l[q].p \in Nat
      BY <1>2, <1>4, <2>1, <2>3 DEF CallOK, Call
    <3> QED BY <3>1, <2>1, <1>1
  <2> QED BY <1>2, <2>2, <2>3
<1> QED BY <1>2, <1>3, <1>4 DEF CallsOK, m

(* After one more call there is still a way to say which block each call   *)
(* released.                                                               *)
LEMMA OwnsGrow ==
  ASSUME NEW l, NEW h, NEW c, NEW own, NEW b, NEW b2, NEW u,
         CallsOK(l, h), c \in Call, Owns(l, own), Holds(l, own, b), Changed(l, b, u, c, b2)
  PROVE  \E own2 : Owns(Append(l, c), own2) /\ Holds(Append(l, c), own2, b2)
<1> DEFINE n == Len(l)
           m == Append(l, c)
           own2 == [j \in 1 .. (n + 1) |-> IF j = n + 1 THEN u ELSE own[j]]
<1>1. l \in Seq(Call) /\ \A q \in 1 .. n : l[q] \in Call
  BY DEF CallsOK, CallOK
<1>2. /\ m \in Seq(Call) /\ Len(m) = n + 1 /\ n \in Nat
      /\ \A q \in 1 .. n : m[q] = l[q]
      /\ m[n + 1] = c
  BY <1>1, AppendFacts
<1>3. /\ own \in [1 .. n -> Nat]
      /\ \A j \in 1 .. n :
           IF Released(l[j]) = NULL THEN own[j] = 0
           ELSE own[j] \in 1 .. (j - 1) /\ Making(l[own[j]]) /\ l[own[j]].p = Released(l[j])
      /\ \A q, j \in 1 .. n : own[q] = own[j] /\ own[q] # 0 => q = j
  BY DEF Owns
<1>4. /\ DOMAIN b = {v \in 1 .. n : Making(l[v]) /\ \A j \in 1 .. n : own[j] # v}
      /\ \A v \in DOMAIN b : b[v].p = l[v].p /\ b[v].size = l[v].size
  BY DEF Holds, Alive
<1>5. /\ IF Released(c) = NULL THEN u = 0 ELSE u \in DOMAIN b /\ b[u].p = Released(c)
      /\ DOMAIN b2 = (DOMAIN b \ {u}) \cup (IF Making(c) THEN {n + 1} ELSE {})
      /\ \A v \in DOMAIN b \ {u} : b2[v] = b[v]
      /\ Making(c) => b2[n + 1].p = c.p /\ b2[n + 1].size = c.size
  BY DEF Changed
<1>6. u \in Nat /\ u \in 0 .. n
  BY <1>2, <1>4, <1>5
<1>7. /\ own2 \in [1 .. (n + 1) -> Nat]
      /\ \A j \in 1 .. n : own2[j] = own[j]
      /\ own2[n + 1] = u
  BY <1>2, <1>3, <1>6
<1> HIDE DEF n, m, own2
<1>8. ASSUME NEW j \in 1 .. (n + 1)
      PROVE  IF Released(m[j]) = NULL THEN own2[j] = 0
             ELSE own2[j] \in 1 .. (j - 1) /\ Making(m[own2[j]]) /\ m[own2[j]].p = Released(m[j])
  <2>1. CASE j \in 1 .. n
    <3>1. m[j] = l[j] /\ own2[j] = own[j]
      BY <1>2, <1>7, <2>1
    <3>2. CASE Released(l[j]) = NULL
      BY <1>3, <2>1, <3>1, <3>2
    <3>3. CASE Released(l[j]) # NULL
      <4>1. own[j] \in 1 .. (j - 1) /\ Making(l[own[j]]) /\ l[own[j]].p = Released(l[j])
        BY <1>3, <2>1, <3>3
      <4>2. m[own[j]] = l[own[j]]
        BY <1>2, <2>1, <4>1
      <4> QED BY <3>1, <3>3, <4>1, <4>2
    <3> QED BY <3>2, <3>3
  <2>2. CASE j = n + 1
    <3>1. CASE Released(c) = NULL
      BY <1>2, <1>5, <1>7, <2>2, <3>1
    <3>2. CASE Released(c) # NULL
      <4>1. u \in 1 .. n /\ Making(l[u]) /\ l[u].p = Released(c)
        BY <1>4, <1>5, <3>2
      <4>2. m[u] = l[u] /\ m[j] = c /\ own2[j] = u
        BY <1>2, <1>7, <2>2, <4>1
      <4> QED BY <1>2, <2>2, <3>2, <4>1, <4>2
    <3> QED BY <3>1, <3>2
  <2> QED BY <1>2, <2>1, <2>2
<1>9. \A j \in 1 .. n : own[j] = u => u = 0
  BY <1>4, <1>5
<1>10. ASSUME NEW q \in 1 .. (n + 1), NEW j \in 1 .. (n + 1), own2[q] = own2[j], own2[q] # 0
       PROVE  q = j
  <2>1. CASE q \in 1 .. n /\ j \in 1 .. n
    BY <1>3, <1>7, <1>10, <2>1
  <2>2. CASE q = n + 1 /\ j = n + 1
    BY <2>2
  <2>3. CASE q = n + 1 /\ j \in 1 .. n
    BY <1>7, <1>9, <1>10, <2>3
  <2>4. CASE j = n + 1 /\ q \in 1 .. n
    BY <1>7, <1>9, <1>10, <2>4
  <2> QED BY <1>2, <2>1, <2>2, <2>3, <2>4
<1>11. Owns(m, own2)
  BY <1>2, <1>7, <1>8, <1>10 DEF Owns
<1>12. Alive(m, own2, n + 1) = DOMAIN b2
  <2>1. ASSUME NEW v \in Alive(m, own2, n + 1) PROVE v \in DOMAIN b2
    <3>1. v \in 1 .. (n + 1) /\ Making(m[v]) /\ \A j \in 1 .. (n + 1) : own2[j] # v
      BY <2>1 DEF Alive
    <3>2. v # u
      BY <1>2, <1>7, <3>1
    <3>3. CASE v = n + 1
      BY <1>2, <1>5, <3>1, <3>3
    <3>4. CASE v \in 1 .. n
      <4>1. Making(l[v]) /\ \A j \in 1 .. n : own[j] # v
        BY <1>2, <1>7, <3>1, <3>4
      <4> QED BY <1>4, <1>5, <3>2, <3>4, <4>1
    <3> QED BY <1>2, <3>1, <3>3, <3>4
  <2>2. ASSUME NEW v \in DOMAIN b2 PROVE v \in Alive(m, own2, n + 1)
    <3>1. CASE v \in DOMAIN b \ {u}
      <4>1. v \in 1 .. n /\ Making(l[v]) /\ (\A j \in 1 .. n : own[j] # v) /\ v # u
        BY <1>4, <3>1
      <4>2. ASSUME NEW j \in 1 .. (n + 1) PROVE own2[j] # v
        <5>1. j \in 1 .. n \/ j = n + 1
          BY <1>2
        <5> QED BY <1>7, <4>1, <5>1
      <4>3. v \in 1 .. (n + 1) /\ m[v] = l[v]
        BY <1>2, <4>1
      <4> QED BY <4>1, <4>2, <4>3 DEF Alive
    <3>2. CASE v = n + 1 /\ Making(c)
      <4>1. ASSUME NEW j \in 1 .. (n + 1) PROVE own2[j] # v
        <5>1. CASE j = n + 1
          BY <1>2, <1>6, <1>7, <3>2, <5>1
        <5>2. CASE j \in 1 .. n
          <6>1. own2[j] = own[j] /\ (own[j] = 0 \/ own[j] \in 1 .. (j - 1))
            BY <1>3, <1>7, <5>2
          <6> QED BY <1>2, <3>2, <5>2, <6>1
        <5> QED BY <1>2, <5>1, <5>2
      <4>2. v \in 1 .. (n + 1) /\ m[v] = c
        BY <1>2, <3>2
      <4> QED BY <3>2, <4>1, <4>2 DEF Alive
    <3> QED BY <1>5, <2>2, <3>1, <3>2
  <2> QED BY <2>1, <2>2
<1>13. ASSUME NEW v \in DOMAIN b2 PROVE b2[v].p = m[v].p /\ b2[v].size = m[v].size
  <2>1. CASE v \in DOMAIN b \ {u}
    <3>1. v \in 1 .. n /\ b2[v] = b[v] /\ b[v].p = l[v].p /\ b[v].size = l[v].size
      BY <1>4, <1>5, <2>1
    <3> QED BY <1>2, <3>1
  <2>2. CASE v = n + 1 /\ Making(c)
    BY <1>2, <1>5, <2>2
  <2> QED BY <1>5, <1>13, <2>1, <2>2
<1>14. Holds(m, own2, b2)
  BY <1>2, <1>12, <1>13 DEF Holds
<1> QED BY <1>11, <1>14 DEF m
-----------------------------------------------------------------------------
(***************************************************************************)
(* Every step of the program is one call, or its end.                      *)
(***************************************************************************)
Recorder ==
  /\ CallsOK(log, myheapend)
  /\ buffer \in Seq(Call) /\ out \in Seq(Call)
  /\ NoCallIsLost

(* Some account of who released what fits the calls and the blocks. *)
Accounted == \E own : Owns(log, own) /\ Holds(log, own, blocks)

Called(c, u) ==
  /\ phase = "running" /\ mywrite(c)
  /\ myheapend' \in Nat /\ myheapend <= myheapend'
  /\ CallOK(c, myheapend') /\ (Making(c) => c.p = myheapend + 1)
  /\ Changed(log, blocks, u, c, blocks')

LEMMA WordsFacts ==
  ASSUME NEW sz \in Nat
  PROVE  Words(sz) \in Nat /\ (sz > 0 => Words(sz) > 0)
  BY DEF Words, Word

(* What is printed of a block that fits is its size. *)
LEMMA PrintedFacts ==
  ASSUME myheapend \in Nat, NEW sz \in Nat, Fits(sz)
  PROVE  sz < UIntModulus /\ Printed(sz) = sz
<1>1. sz < UIntModulus /\ UIntModulus \in Nat \ {0}
  BY GetTraceAssumption DEF Fits, Word
<1> QED BY <1>1 DEF Printed

LEMMA FactorsPrinted ==
  ASSUME myheapend \in Nat, NEW x \in Nat, NEW y \in Nat, Fits(x * y)
  PROVE  Printed(x) * Printed(y) = x * y
<1>1. UIntModulus \in Nat \ {0} /\ x * y \in Nat
  BY GetTraceAssumption DEF Word
<1>2. x * y < UIntModulus
  BY <1>1, PrintedFacts
<1>3. Printed(x) \in Nat /\ Printed(y) \in Nat
  BY <1>1 DEF Printed
<1>4. CASE x = 0
  BY <1>1, <1>3, <1>4 DEF Printed
<1>5. CASE y = 0
  BY <1>1, <1>3, <1>5 DEF Printed
<1>6. CASE x # 0 /\ y # 0
  <2>1. x <= x * y /\ y <= x * y
    BY <1>6
  <2>2. x < UIntModulus /\ y < UIntModulus
    BY <1>1, <1>2, <2>1
  <2> QED BY <1>1, <2>2 DEF Printed
<1> QED BY <1>4, <1>5, <1>6

LEMMA BlockFacts ==
  ASSUME Recorder, Accounted, NEW u \in DOMAIN blocks
  PROVE  /\ u \in Nat \ {0} /\ u <= Len(log)
         /\ blocks[u].p \in Nat \ {0} /\ blocks[u].p <= myheapend + 1
<1>1. PICK own : Owns(log, own) /\ Holds(log, own, blocks)
  BY DEF Accounted
<1>2. u \in 1 .. Len(log) /\ Making(log[u]) /\ blocks[u].p = log[u].p
  BY <1>1 DEF Holds, Alive
<1>3. log \in Seq(Call) /\ CallOK(log[u], myheapend)
  BY <1>2 DEF Recorder, CallsOK
<1> QED BY <1>2, <1>3 DEF CallOK, Call, Making, NULL

LEMMA CallMade ==
  ASSUME Recorder, Accounted,
         \/ \E sz \in Sizes : malloc(sz) \/ realloc(sz)
         \/ \E a \in CallocArgs : calloc(a[1], a[2])
         \/ free
  PROVE  \E c, u : Called(c, u)
<1> USE GetTraceAssumption
<1>0. log \in Seq(Call) /\ myheapend \in Nat /\ Len(log) \in Nat
  BY DEF Recorder, CallsOK
<1> DEFINE n == Len(log)
           h == myheapend
<1>1. ASSUME NEW sz \in Nat, NEW fn \in {"m", "c"}, Running, Take(sz),
             blocks' = with(blocks, Address(myheapend), sz),
             mywrite(Line(fn, Address(myheapend), NULL, sz))
      PROVE  \E c, u : Called(c, u)
  <2> DEFINE c == Line(fn, Address(myheapend), NULL, sz)
  <2>1. Words(sz) \in Nat /\ (sz > 0 => Words(sz) > 0)
    BY <1>1, WordsFacts
  <2>2. h' \in Nat /\ h <= h' /\ (sz > 0 => h + 1 <= h')
    BY <1>0, <1>1, <2>1 DEF Take
  <2>3. c \in Call /\ c.fn = fn /\ c.p = h + 1 /\ c.old = 0 /\ c.size = sz
    BY <1>0, <1>1 DEF Line, Call, Address, NULL
  <2>4. CallOK(c, h') /\ Making(c) /\ Released(c) = NULL
    BY <1>0, <1>1, <2>2, <2>3 DEF CallOK, Making, Released, NULL
  <2>5. /\ n + 1 \notin DOMAIN blocks
        /\ 0 \notin DOMAIN blocks
    BY <1>0, BlockFacts
  <2>6. Changed(log, blocks, 0, c, blocks')
    BY <1>1, <2>3, <2>4, <2>5 DEF Changed, with, Address
  <2>7. Called(c, 0)
    BY <1>1, <2>2, <2>3, <2>4, <2>6 DEF Called, Running
  <2> QED BY <2>7
<1>2. ASSUME NEW sz \in Nat, NEW u, Running,
             \/ u = 0 /\ Moved(blocks, NULL, sz)
             \/ u \in DOMAIN blocks /\ Moved(without(u), blocks[u].p, sz)
      PROVE  \E c : Called(c, u)
  <2> DEFINE old == IF u = 0 THEN NULL ELSE blocks[u].p
             rest == IF u = 0 THEN blocks ELSE without(u)
             p == IF sz = 0 THEN NULL ELSE Address(myheapend)
             c == Line("r", p, old, sz)
  <2>0. /\ n + 1 \notin DOMAIN blocks
        /\ 0 \notin DOMAIN blocks
        /\ u # 0 => u \in DOMAIN blocks /\ old \in Nat \ {0} /\ old <= h + 1
    BY <1>0, <1>2, BlockFacts
  <2>1. /\ IF sz = 0 THEN UNCHANGED myheapend ELSE Take(sz)
        /\ blocks' = IF sz = 0 THEN rest ELSE with(rest, p, sz)
        /\ mywrite(c)
    <3>1. sz # 0 /\ Take(sz) => Printed(sz) = sz
      BY <1>0, <1>2, PrintedFacts DEF Take
    <3>2. Printed(0) = 0
      BY DEF Printed, Word
    <3> QED BY <1>2, <2>0, <3>1, <3>2 DEF Moved
  <2>2. Words(sz) \in Nat /\ (sz > 0 => Words(sz) > 0)
    BY <1>2, WordsFacts
  <2>3. h' \in Nat /\ h <= h' /\ (sz > 0 => h + 1 <= h')
    BY <1>0, <1>2, <2>1, <2>2 DEF Take
  <2>4. /\ c \in Call /\ c.fn = "r" /\ c.p = p /\ c.old = old /\ c.size = sz
        /\ p = IF sz = 0 THEN 0 ELSE h + 1
    BY <1>0, <1>2, <2>0 DEF Line, Call, Address, NULL
  <2>5. CallOK(c, h') /\ (Making(c) => p = h + 1) /\ Released(c) = old /\ (Making(c) <=> sz # 0)
    <3>1. old \in Nat /\ old <= h + 1
      BY <1>0, <2>0 DEF NULL
    <3> HIDE DEF c, old, p
    <3> QED BY <1>0, <1>2, <2>3, <2>4, <3>1 DEF CallOK, Making, Released, NULL
  <2>6. /\ DOMAIN rest = DOMAIN blocks \ {u}
        /\ \A v \in DOMAIN rest : rest[v] = blocks[v]
    BY <2>0 DEF without
  <2>7. /\ DOMAIN blocks' = (DOMAIN blocks \ {u}) \cup (IF sz = 0 THEN {} ELSE {n + 1})
        /\ \A v \in DOMAIN blocks \ {u} : blocks'[v] = blocks[v]
        /\ sz # 0 => blocks'[n + 1] = [p |-> p, size |-> sz]
    <3> HIDE DEF rest, p
    <3>1. CASE sz = 0
      BY <2>1, <2>6, <3>1
    <3>2. CASE sz # 0
      <4>1. blocks' = with(rest, p, sz)
        BY <2>1, <3>2
      <4> QED BY <2>0, <2>6, <3>2, <4>1 DEF with
    <3> QED BY <3>1, <3>2
  <2>8. IF Released(c) = NULL THEN u = 0 ELSE u \in DOMAIN blocks /\ blocks[u].p = Released(c)
    BY <2>0, <2>5 DEF NULL
  <2>9. Changed(log, blocks, u, c, blocks')
    <3> HIDE DEF c, rest
    <3> QED BY <2>4, <2>5, <2>7, <2>8 DEF Changed
  <2>10. Called(c, u)
    <3> HIDE DEF c, rest, old
    <3> QED BY <1>2, <2>1, <2>3, <2>4, <2>5, <2>9 DEF Called, Running
  <2> QED BY <2>10
<1>3. ASSUME NEW u, Running, UNCHANGED myheapend,
             \/ u = 0 /\ blocks' = blocks /\ mywrite(Line("f", NULL, NULL, 0))
             \/ u \in DOMAIN blocks /\ blocks' = without(u) /\ mywrite(Line("f", blocks[u].p, NULL, 0))
      PROVE  \E c : Called(c, u)
  <2> DEFINE p == IF u = 0 THEN NULL ELSE blocks[u].p
             c == Line("f", p, NULL, 0)
  <2>0. /\ 0 \notin DOMAIN blocks
        /\ u # 0 => u \in DOMAIN blocks /\ p \in Nat \ {0} /\ p <= h + 1
        /\ u = 0 => p = 0
    BY <1>0, <1>3, BlockFacts DEF NULL
  <2>1. mywrite(c)
    BY <1>3, <2>0
  <2>2. c \in Call /\ c.fn = "f" /\ c.p = p /\ c.old = 0 /\ c.size = 0
    BY <1>0, <2>0 DEF Line, Call, NULL
  <2>3. CallOK(c, h') /\ ~Making(c) /\ Released(c) = p
    <3> HIDE DEF c, p
    <3> QED BY <1>0, <1>3, <2>0, <2>2 DEF CallOK, Making, Released, NULL
  <2>4. DOMAIN blocks' = DOMAIN blocks \ {u} /\ \A v \in DOMAIN blocks \ {u} : blocks'[v] = blocks[v]
    BY <1>3, <2>0 DEF without
  <2>5. Changed(log, blocks, u, c, blocks')
    <3> HIDE DEF c
    <3> QED BY <2>0, <2>3, <2>4 DEF Changed, NULL
  <2>6. Called(c, u)
    <3> HIDE DEF c, p
    <3> QED BY <1>0, <1>3, <2>1, <2>3, <2>5 DEF Called, Running
  <2> QED BY <2>6
<1>4. ASSUME NEW sz \in Sizes, malloc(sz) PROVE \E c, u : Called(c, u)
  <2>1. sz \in Nat /\ Running /\ Take(sz)
    BY <1>4 DEF malloc
  <2>2. Printed(sz) = sz
    BY <1>0, <2>1, PrintedFacts DEF Take
  <2>3. /\ blocks' = with(blocks, Address(myheapend), sz)
        /\ mywrite(Line("m", Address(myheapend), NULL, sz))
    BY <1>4, <2>2 DEF malloc
  <2> QED BY <1>1, <2>1, <2>3
<1>5. ASSUME NEW a \in CallocArgs, calloc(a[1], a[2]) PROVE \E c, u : Called(c, u)
  <2>1. a[1] \in Nat /\ a[2] \in Nat
    OBVIOUS
  <2> DEFINE sz == a[1] * a[2]
  <2>2. sz \in Nat
    BY <2>1
  <2>3. /\ Running /\ Take(sz)
        /\ blocks' = with(blocks, Address(myheapend), sz)
        /\ mywrite(Line("c", Address(myheapend), NULL, Printed(a[1]) * Printed(a[2])))
    BY <1>5 DEF calloc
  <2>4. Printed(a[1]) * Printed(a[2]) = sz
    BY <1>0, <2>1, <2>3, FactorsPrinted DEF Take
  <2> HIDE DEF sz
  <2> QED BY <1>1, <2>2, <2>3, <2>4
<1>6. ASSUME NEW sz \in Sizes, realloc(sz) PROVE \E c, u : Called(c, u)
  <2>1. \E u : \/ u = 0 /\ Moved(blocks, NULL, sz)
               \/ u \in DOMAIN blocks /\ Moved(without(u), blocks[u].p, sz)
    BY <1>6 DEF realloc
  <2>2. Running /\ sz \in Nat
    BY <1>6 DEF realloc
  <2> QED BY <1>2, <2>1, <2>2
<1>7. ASSUME free PROVE \E c, u : Called(c, u)
  <2>1. \E u : \/ u = 0 /\ blocks' = blocks /\ mywrite(Line("f", NULL, NULL, 0))
               \/ u \in DOMAIN blocks /\ blocks' = without(u) /\ mywrite(Line("f", blocks[u].p, NULL, 0))
    BY <1>7 DEF free
  <2>2. Running /\ UNCHANGED myheapend
    BY <1>7 DEF free
  <2> QED BY <1>3, <2>1, <2>2
<1> QED BY <1>4, <1>5, <1>6, <1>7

LEMMA BufferGrows ==
  ASSUME Recorder, phase = "running", NEW c \in Call, mywrite(c)
  PROVE  /\ log' = Append(log, c)
         /\ buffer' \in Seq(Call) /\ out' \in Seq(Call)
         /\ phase' \in {"running", "flushing"} /\ NoCallIsLost'
<1> DEFINE b == Append(buffer, c)
<1>1. /\ buffer \in Seq(Call) /\ out \in Seq(Call) /\ log \in Seq(Call)
      /\ out \o buffer = log /\ Len(buffer) < BUFFER_LEN
      /\ BUFFER_LEN \in Nat \ {0}
  BY GetTraceAssumption DEF Recorder, CallsOK, NoCallIsLost
<1>2. /\ log' = Append(log, c) /\ buffer' = b /\ out' = out
      /\ phase' = IF Len(buffer) + 1 = BUFFER_LEN THEN "flushing" ELSE "running"
  BY DEF mywrite
<1>3. out \o b = Append(log, c)
  <2>0. <<c>> \in Seq(Call)
    OBVIOUS
  <2>1. b = buffer \o <<c>> /\ Append(log, c) = log \o <<c>>
    BY <1>1, AppendIsConcat
  <2>2. out \o (buffer \o <<c>>) = (out \o buffer) \o <<c>>
    <3>1. \A s, t, w \in Seq(Call) : s \o (t \o w) = (s \o t) \o w
      BY ConcatAssociative
    <3> QED BY <1>1, <2>0, <3>1, ZenonT(30)
  <2> QED BY <1>1, <2>1, <2>2
<1>4. b \in Seq(Call) /\ Len(b) = Len(buffer) + 1 /\ Len(buffer) \in Nat
  BY <1>1, AppendFacts
<1> HIDE DEF b
<1>5. out' \o buffer' = log' /\ Len(buffer') <= BUFFER_LEN
      /\ (phase' = "running" => Len(buffer') < BUFFER_LEN) /\ phase' \in {"running", "flushing"}
  BY <1>1, <1>2, <1>3, <1>4
<1> QED BY <1>1, <1>2, <1>4, <1>5 DEF NoCallIsLost

(* One line written. *)
LEMMA LineWritten ==
  ASSUME Recorder, clear_buffer
  PROVE  Recorder'
<1>1. /\ buffer \in Seq(Call) /\ buffer # << >> /\ out \in Seq(Call)
      /\ out \o buffer = log /\ Len(buffer) <= BUFFER_LEN
  BY DEF Recorder, NoCallIsLost, clear_buffer
<1>2. /\ out' = Append(out, Head(buffer)) /\ buffer' = Tail(buffer)
      /\ UNCHANGED <<phase, log, myheapend>> /\ phase \in {"flushing", "closing"}
  BY DEF clear_buffer, program
<1>3. Head(buffer) \in Call /\ Tail(buffer) \in Seq(Call) /\ Len(Tail(buffer)) = Len(buffer) - 1
  BY <1>1, HeadTailProperties
<1>4. out' \in Seq(Call) /\ buffer' \in Seq(Call) /\ Len(buffer') < Len(buffer)
      /\ Len(buffer) \in Nat /\ Len(buffer') \in Nat /\ BUFFER_LEN \in Nat
  BY <1>1, <1>2, <1>3, AppendFacts, GetTraceAssumption
<1>5. out' \o buffer' = log'
  BY <1>1, <1>2, MoveOne
<1>6. NoCallIsLost'
  BY <1>1, <1>2, <1>4, <1>5 DEF NoCallIsLost
<1> QED BY <1>2, <1>4, <1>6 DEF Recorder
-----------------------------------------------------------------------------
(***************************************************************************)
(* The converter, when it has written the lines ol for the first calls of  *)
(* l: every address in use has the id of the last line about its block.    *)
(***************************************************************************)
TraceLine == [type : {"a", "r", "f"}, fields : Seq(Int)]

IsLine(o, c, ids) ==
  /\ o \in TraceLine
  /\ o.type = CASE c.fn = "f" -> "f" [] c.fn = "r" -> "r" [] OTHER -> "a"
  /\ c.fn = "f" => Len(o.fields) = 1 /\ o.fields[1] \in -1 .. (ids - 1)
  /\ c.fn # "f" => Len(o.fields) = 2 /\ o.fields[1] \in 0 .. (ids - 1) /\ o.fields[2] = c.size

(* The ids of the addresses. *)
Ids(ptr, h, ids) ==
  /\ ids \in Nat
  /\ ptr \in [0 .. (h + 1) -> -1 .. (ids - 1)]
  /\ \A a, b \in 0 .. (h + 1) : ptr[a] = ptr[b] /\ ptr[a] # undef => a = b

(* The lines. *)
LinesOf(l, ids, ol) ==
  /\ ol \in Seq(TraceLine) /\ Len(ol) <= Len(l)
  /\ \A j \in 1 .. Len(ol) : IsLine(ol[j], l[j], ids)
  /\ \A q \in 0 .. (ids - 1) : \E j \in 1 .. Len(ol) : ol[j].type # "f" /\ ol[j].fields[1] = q

(* The two together: what is held, and where. *)
Kept(l, h, own, ptr, ol) ==
  /\ \A u \in Alive(l, own, Len(ol)) : ptr[l[u].p] = ol[u].fields[1]
  /\ \A a \in 1 .. (h + 1) : ptr[a] # undef => \E u \in Alive(l, own, Len(ol)) : l[u].p = a
  /\ HeldLines(ol) = Alive(l, own, Len(ol))

Conv(l, h, own, ptr, ids, ol) == Ids(ptr, h, ids) /\ LinesOf(l, ids, ol) /\ Kept(l, h, own, ptr, ol)

(* One line o for the call c, when the converter does not die. *)
Converts(c, h, ptr, ids, o, ptr2, ids2) ==
  /\ Ids(ptr2, h, ids2)
  /\ IsLine(o, c, ids2)
  /\ \/ ids2 = ids + 1 /\ o.fields[1] = ids /\ c.fn # "f"
     \/ ids2 = ids /\ o.fields[1] = ptr[Released(c)]
  /\ Released(c) # NULL => ptr[Released(c)] # undef /\ o.fields[1] = ptr[Released(c)]
  /\ Making(c) => ptr2[c.p] = o.fields[1] /\ (c.p # Released(c) => ptr[c.p] = undef)
  /\ \A a \in 1 .. (h + 1) :
       IF Making(c) /\ a = c.p THEN TRUE
       ELSE ptr2[a] = IF a = Released(c) THEN undef ELSE ptr[a]

(* How the lines grow. *)
LEMMA LinesGrow ==
  ASSUME NEW l, NEW h, CallsOK(l, h), NEW ptr, NEW ids \in Nat, NEW ol, LinesOf(l, ids, ol),
         Len(ol) < Len(l), NEW o, NEW ptr2, NEW ids2,
         Converts(l[Len(ol) + 1], h, ptr, ids, o, ptr2, ids2)
  PROVE  LinesOf(l, ids2, Append(ol, o))
<1> DEFINE k == Len(ol)
           ol2 == Append(ol, o)
           c == l[k + 1]
<1>1. /\ ol \in Seq(TraceLine)
      /\ \A j \in 1 .. k : IsLine(ol[j], l[j], ids)
      /\ \A q \in 0 .. (ids - 1) : \E j \in 1 .. k : ol[j].type # "f" /\ ol[j].fields[1] = q
  BY DEF LinesOf
<1>2. /\ IsLine(o, c, ids2) /\ o \in TraceLine /\ ids2 \in Nat
      /\ \/ ids2 = ids + 1 /\ o.fields[1] = ids /\ c.fn # "f"
         \/ ids2 = ids
  BY DEF Converts, Ids, IsLine
<1>3. /\ ol2 \in Seq(TraceLine) /\ Len(ol2) = k + 1 /\ k \in Nat
      /\ \A j \in 1 .. k : ol2[j] = ol[j]
      /\ ol2[k + 1] = o
  BY <1>1, <1>2, AppendFacts
<1>4. k < Len(l) /\ Len(l) \in Nat /\ l \in Seq(Call) /\ \A q \in 1 .. Len(l) : l[q] \in Call
  BY DEF CallsOK, CallOK
<1> HIDE DEF k, ol2
<1>5. ASSUME NEW j \in 1 .. (k + 1) PROVE IsLine(ol2[j], l[j], ids2)
  <2>1. CASE j \in 1 .. k
    <3>1. ol2[j] = ol[j] /\ IsLine(ol[j], l[j], ids)
      BY <1>1, <1>3, <2>1
    <3>2. ids <= ids2 /\ ids2 \in Nat
      BY <1>2
    <3>3. ol[j].fields \in Seq(Int) /\ Len(ol[j].fields) \in Nat
      BY <3>1 DEF IsLine, TraceLine
    <3>4. /\ \A v \in -1 .. (ids - 1) : v \in -1 .. (ids2 - 1)
          /\ \A v \in 0 .. (ids - 1) : v \in 0 .. (ids2 - 1)
      <4>1. ids \in Nat
        BY <1>1
      <4> QED BY <3>2, <4>1
    <3>5. IsLine(ol[j], l[j], ids2)
      BY <3>1, <3>4 DEF IsLine
    <3> QED BY <3>1, <3>5
  <2>2. CASE j = k + 1
    BY <1>2, <1>3, <2>2
  <2> QED BY <1>3, <2>1, <2>2
<1>6. ASSUME NEW q \in 0 .. (ids2 - 1)
      PROVE  \E j \in 1 .. (k + 1) : ol2[j].type # "f" /\ ol2[j].fields[1] = q
  <2>1. CASE q \in 0 .. (ids - 1)
    <3>1. PICK j \in 1 .. k : ol[j].type # "f" /\ ol[j].fields[1] = q
      BY <1>1, <2>1
    <3>2. ol2[j] = ol[j] /\ j \in 1 .. (k + 1)
      BY <1>3, <3>1
    <3> QED BY <3>1, <3>2
  <2>2. CASE q = ids /\ ids2 = ids + 1
    <3>1. o.fields[1] = ids /\ c.fn # "f"
      BY <1>2, <2>2
    <3>2. o.type # "f"
      BY <1>2, <3>1 DEF IsLine
    <3>3. k + 1 \in 1 .. (k + 1)
      BY <1>3
    <3> QED BY <1>3, <2>2, <3>1, <3>2, <3>3
  <2> QED BY <1>2, <2>1, <2>2
<1>7. k + 1 <= Len(l)
  BY <1>3, <1>4
<1> QED BY <1>3, <1>5, <1>6, <1>7 DEF LinesOf, ol2

LEMMA AliveGrows ==
  ASSUME NEW l, NEW own, NEW k \in Nat, Owns(l, own), Len(l) \in Nat, k < Len(l)
  PROVE  /\ Alive(l, own, k + 1) = (Alive(l, own, k) \ {own[k + 1]})
                                    \cup (IF Making(l[k + 1]) THEN {k + 1} ELSE {})
         /\ own[k + 1] # 0 => own[k + 1] \in Alive(l, own, k)
<1>1. /\ \A j \in 1 .. (k + 1) : own[j] = 0 \/ (own[j] \in 1 .. (j - 1) /\ Making(l[own[j]]))
      /\ \A q, j \in 1 .. (k + 1) : own[q] = own[j] /\ own[q] # 0 => q = j
  <2>1. \A j \in 1 .. (k + 1) : j \in 1 .. Len(l)
    OBVIOUS
  <2>2. \A q, j \in 1 .. Len(l) : own[q] = own[j] /\ own[q] # 0 => q = j
    BY DEF Owns
  <2>3. ASSUME NEW j \in 1 .. Len(l)
        PROVE  own[j] = 0 \/ (own[j] \in 1 .. (j - 1) /\ Making(l[own[j]]))
    <3>1. CASE Released(l[j]) = NULL
      BY <3>1 DEF Owns
    <3>2. CASE Released(l[j]) # NULL
      BY <3>2 DEF Owns
    <3> QED BY <3>1, <3>2
  <2> QED BY <2>1, <2>2, <2>3
<1>2. k + 1 \in 1 .. (k + 1) /\ \A j \in 1 .. (k + 1) : j \in 1 .. k \/ j = k + 1
  OBVIOUS
<1>3. own[k + 1] # 0 => own[k + 1] \in Alive(l, own, k)
  <2> SUFFICES ASSUME own[k + 1] # 0 PROVE own[k + 1] \in Alive(l, own, k)
    OBVIOUS
  <2>1. own[k + 1] \in 1 .. k /\ Making(l[own[k + 1]])
    BY <1>1, <1>2
  <2>2. ASSUME NEW j \in 1 .. k, own[j] = own[k + 1] PROVE FALSE
    BY <1>1, <1>2, <2>2
  <2> QED BY <2>1, <2>2 DEF Alive
<1>4. ASSUME NEW u \in Alive(l, own, k + 1)
      PROVE  u \in (Alive(l, own, k) \ {own[k + 1]}) \cup (IF Making(l[k + 1]) THEN {k + 1} ELSE {})
  <2>1. u \in 1 .. (k + 1) /\ Making(l[u]) /\ \A j \in 1 .. (k + 1) : own[j] # u
    BY <1>4 DEF Alive
  <2>2. CASE u = k + 1
    BY <2>1, <2>2
  <2>3. CASE u \in 1 .. k
    <3>1. (\A j \in 1 .. k : own[j] # u) /\ own[k + 1] # u
      BY <1>2, <2>1
    <3> QED BY <2>1, <2>3, <3>1 DEF Alive
  <2> QED BY <1>2, <2>1, <2>2, <2>3
<1>5. ASSUME NEW u \in Alive(l, own, k), u # own[k + 1] PROVE u \in Alive(l, own, k + 1)
  <2>1. u \in 1 .. k /\ Making(l[u]) /\ \A j \in 1 .. k : own[j] # u
    BY DEF Alive
  <2>2. u \in 1 .. (k + 1) /\ \A j \in 1 .. (k + 1) : own[j] # u
    BY <1>2, <1>5, <2>1
  <2> QED BY <2>1, <2>2 DEF Alive
<1>6. ASSUME Making(l[k + 1]) PROVE k + 1 \in Alive(l, own, k + 1)
  <2>1. ASSUME NEW j \in 1 .. (k + 1), own[j] = k + 1 PROVE FALSE
    <3>1. own[j] \in 1 .. (j - 1)
      BY <1>1, <2>1
    <3> QED BY <2>1, <3>1
  <2> QED BY <1>2, <1>6, <2>1 DEF Alive
<1> QED BY <1>3, <1>4, <1>5, <1>6

LEMMA HeldLinesGrow ==
  ASSUME NEW ol \in Seq(TraceLine), NEW o \in TraceLine
  PROVE  HeldLines(Append(ol, o)) = {j \in HeldLines(ol) : ol[j].fields[1] # o.fields[1]}
                                    \cup (IF GivesBlock(o) THEN {Len(ol) + 1} ELSE {})
<1> DEFINE k == Len(ol)
           ol2 == Append(ol, o)
<1>1. /\ Len(ol2) = k + 1 /\ k \in Nat
      /\ \A j \in 1 .. k : ol2[j] = ol[j]
      /\ ol2[k + 1] = o
  BY AppendFacts
<1>2. /\ \A j : j \in HeldLines(ol) <=>
             j \in 1 .. k /\ GivesBlock(ol[j]) /\ \A q \in (j + 1) .. k : ol[q].fields[1] # ol[j].fields[1]
      /\ \A j : j \in HeldLines(ol2) <=>
             j \in 1 .. (k + 1) /\ GivesBlock(ol2[j]) /\ \A q \in (j + 1) .. (k + 1) : ol2[q].fields[1] # ol2[j].fields[1]
  BY <1>1 DEF HeldLines
<1> HIDE DEF k, ol2
<1>3. ASSUME NEW j \in HeldLines(ol2)
      PROVE  IF j = k + 1 THEN GivesBlock(o) ELSE j \in HeldLines(ol) /\ ol[j].fields[1] # o.fields[1]
  <2>1. /\ j \in 1 .. (k + 1) /\ GivesBlock(ol2[j])
        /\ \A q \in (j + 1) .. (k + 1) : ol2[q].fields[1] # ol2[j].fields[1]
    BY <1>2
  <2>2. CASE j = k + 1
    BY <1>1, <2>1, <2>2
  <2>3. CASE j # k + 1
    <3>1. j \in 1 .. k /\ k + 1 \in (j + 1) .. (k + 1) /\ ol2[j] = ol[j]
      BY <1>1, <2>1, <2>3
    <3>2. o.fields[1] # ol[j].fields[1]
      BY <1>1, <2>1, <3>1
    <3>3. ASSUME NEW q \in (j + 1) .. k PROVE ol[q].fields[1] # ol[j].fields[1]
      <4>1. q \in (j + 1) .. (k + 1) /\ ol2[q] = ol[q]
        BY <1>1, <3>1
      <4> QED BY <2>1, <3>1, <4>1
    <3> QED BY <1>2, <2>1, <2>3, <3>1, <3>2, <3>3
  <2> QED BY <2>2, <2>3
<1>4. ASSUME NEW j \in HeldLines(ol), ol[j].fields[1] # o.fields[1] PROVE j \in HeldLines(ol2)
  <2>1. /\ j \in 1 .. k /\ GivesBlock(ol[j])
        /\ \A q \in (j + 1) .. k : ol[q].fields[1] # ol[j].fields[1]
    BY <1>2
  <2>2. ASSUME NEW q \in (j + 1) .. (k + 1) PROVE ol2[q].fields[1] # ol2[j].fields[1]
    <3>1. CASE q = k + 1
      BY <1>1, <1>4, <2>1, <3>1
    <3>2. CASE q # k + 1
      <4>1. q \in (j + 1) .. k /\ ol2[q] = ol[q] /\ ol2[j] = ol[j]
        BY <1>1, <2>1, <3>2
      <4> QED BY <2>1, <4>1
    <3> QED BY <3>1, <3>2
  <2>3. j \in 1 .. (k + 1) /\ GivesBlock(ol2[j])
    BY <1>1, <2>1
  <2> QED BY <1>2, <2>2, <2>3
<1>5. ASSUME GivesBlock(o) PROVE k + 1 \in HeldLines(ol2)
  <2>1. k + 1 \in 1 .. (k + 1) /\ (k + 1 + 1) .. (k + 1) = {}
    BY <1>1
  <2> QED BY <1>1, <1>2, <1>5, <2>1
<1>6. \A j \in HeldLines(ol) : j # k + 1
  BY <1>1, <1>2
<1> QED BY <1>3, <1>4, <1>5, <1>6 DEF k, ol2

(* Between the calls and the lines nothing is lost. *)
LEMMA KeptGrows ==
  ASSUME NEW l, NEW h, NEW own, CallsOK(l, h), Owns(l, own),
         NEW ptr, NEW ids, NEW ol, Conv(l, h, own, ptr, ids, ol), Len(ol) < Len(l),
         NEW o, NEW ptr2, NEW ids2, Converts(l[Len(ol) + 1], h, ptr, ids, o, ptr2, ids2)
  PROVE  Kept(l, h, own, ptr2, Append(ol, o))
<1> DEFINE k == Len(ol)
           ol2 == Append(ol, o)
           c == l[k + 1]
           w == own[k + 1]
           A == Alive(l, own, k)
           A2 == Alive(l, own, k + 1)
<1>1. /\ l \in Seq(Call) /\ Len(l) \in Nat /\ h \in Nat
      /\ \A q \in 1 .. Len(l) : CallOK(l[q], h)
  BY DEF CallsOK
<1>2. /\ ol \in Seq(TraceLine) /\ k \in Nat
      /\ \A j \in 1 .. k : IsLine(ol[j], l[j], ids)
  BY DEF Conv, LinesOf
<1>3. /\ ids \in Nat
      /\ ptr \in [0 .. (h + 1) -> -1 .. (ids - 1)]
      /\ \A a, b \in 0 .. (h + 1) : ptr[a] = ptr[b] /\ ptr[a] # undef => a = b
  BY DEF Conv, Ids
<1>4. /\ \A u \in A : ptr[l[u].p] = ol[u].fields[1]
      /\ \A a \in 1 .. (h + 1) : ptr[a] # undef => \E u \in A : l[u].p = a
      /\ HeldLines(ol) = A
  BY DEF Conv, Kept
<1>5. /\ IsLine(o, c, ids2) /\ o \in TraceLine
      /\ \/ o.fields[1] = ids
         \/ o.fields[1] = ptr[Released(c)]
      /\ Released(c) # NULL => ptr[Released(c)] # undef /\ o.fields[1] = ptr[Released(c)]
      /\ Making(c) => ptr2[c.p] = o.fields[1] /\ (c.p # Released(c) => ptr[c.p] = undef)
      /\ \A a \in 1 .. (h + 1) :
           IF Making(c) /\ a = c.p THEN TRUE
           ELSE ptr2[a] = IF a = Released(c) THEN undef ELSE ptr[a]
  BY DEF Converts, IsLine
<1>6. /\ ol2 \in Seq(TraceLine) /\ Len(ol2) = k + 1
      /\ \A j \in 1 .. k : ol2[j] = ol[j]
      /\ ol2[k + 1] = o
  BY <1>2, <1>5, AppendFacts
<1>7. /\ A2 = (A \ {w}) \cup (IF Making(c) THEN {k + 1} ELSE {})
      /\ w # 0 => w \in A
  <2>1. k < Len(l)
    OBVIOUS
  <2> HIDE DEF k
  <2> QED BY <1>1, <1>2, <2>1, AliveGrows
<1>8. k + 1 \in 1 .. Len(l) /\ CallOK(c, h)
  BY <1>1, <1>2
<1>9. IF Released(c) = NULL THEN w = 0
      ELSE w \in 1 .. k /\ Making(l[w]) /\ l[w].p = Released(c)
  <2>1. IF Released(c) = NULL THEN w = 0
        ELSE w \in 1 .. (k + 1 - 1) /\ Making(l[w]) /\ l[w].p = Released(c)
    BY <1>8 DEF Owns
  <2> QED BY <1>2, <2>1
<1>10. ASSUME NEW u \in A
       PROVE  u \in 1 .. k /\ Making(l[u]) /\ l[u].p \in 1 .. (h + 1) /\ ol[u].fields[1] \in 0 .. (ids - 1)
  <2>1. u \in 1 .. k /\ Making(l[u])
    BY DEF Alive
  <2>2. CallOK(l[u], h) /\ IsLine(ol[u], l[u], ids)
    <3>1. u \in 1 .. Len(l)
      BY <1>1, <1>2, <2>1
    <3> QED BY <1>1, <1>2, <2>1, <3>1
  <2>3. l[u].p \in 1 .. (h + 1)
    <3>1. l[u].p \in Nat /\ l[u].p # 0 /\ l[u].p <= h + 1
      BY <2>1, <2>2 DEF CallOK, Call, Making, NULL
    <3> QED BY <1>1, <3>1
  <2>4. ol[u].fields[1] \in 0 .. (ids - 1)
    BY <2>1, <2>2 DEF IsLine, Making
  <2> QED BY <2>1, <2>3, <2>4
<1>11. Released(c) \in 0 .. (h + 1) /\ (Making(c) => c.p \in 1 .. (h + 1))
  BY <1>1, <1>8 DEF CallOK, Call, Making, Released, NULL
<1> HIDE DEF k, ol2, c, w, A, A2
<1>12. ASSUME NEW u \in A, ol[u].fields[1] = o.fields[1] PROVE u = w
  <2>1. ptr[l[u].p] = ptr[Released(c)] /\ ptr[l[u].p] # undef
    BY <1>3, <1>4, <1>5, <1>10, <1>12 DEF undef
  <2>2. l[u].p = Released(c) /\ Released(c) # NULL
    BY <1>3, <1>10, <1>11, <2>1 DEF NULL
  <2>3. w \in A /\ l[w].p = Released(c)
    BY <1>7, <1>9, <2>2
  <2>4. ol[w].fields[1] = ol[u].fields[1]
    BY <1>4, <2>2, <2>3
  <2>5. u \in HeldLines(ol) /\ w \in HeldLines(ol)
    BY <1>4, <2>3
  <2>6. /\ u \in 1 .. k /\ w \in 1 .. k
        /\ \A j \in (u + 1) .. k : ol[j].fields[1] # ol[u].fields[1]
        /\ \A j \in (w + 1) .. k : ol[j].fields[1] # ol[w].fields[1]
    BY <2>5 DEF HeldLines, k
  <2>7. ~(w \in (u + 1) .. k) /\ ~(u \in (w + 1) .. k)
    BY <2>4, <2>6
  <2> QED BY <1>2, <2>6, <2>7
<1>13. ASSUME w # 0 PROVE ol[w].fields[1] = o.fields[1]
  BY <1>4, <1>5, <1>7, <1>9, <1>13
<1>14. GivesBlock(o) <=> Making(c)
  <2>1. CallOK(c, h) /\ IsLine(o, c, ids2)
    BY <1>5, <1>8
  <2> QED BY <2>1 DEF CallOK, Call, IsLine, GivesBlock, Making, NULL
<1>15. HeldLines(ol2) = A2
  <2>1. HeldLines(ol2) = {j \in HeldLines(ol) : ol[j].fields[1] # o.fields[1]}
                         \cup (IF GivesBlock(o) THEN {k + 1} ELSE {})
    BY <1>2, <1>5, HeldLinesGrow DEF k, ol2
  <2>2. {j \in A : ol[j].fields[1] # o.fields[1]} = A \ {w}
    <3>1. ASSUME NEW j \in A PROVE ol[j].fields[1] = o.fields[1] <=> j = w
      <4>1. w \in A => w # 0
        BY <1>10
      <4> QED BY <1>12, <1>13, <3>1, <4>1
    <3> QED BY <3>1
  <2> QED BY <1>4, <1>7, <1>14, <2>1, <2>2
<1>16. ASSUME NEW u \in A2 PROVE ptr2[l[u].p] = ol2[u].fields[1]
  <2>1. CASE u = k + 1
    <3>1. Making(c)
      BY <1>7, <1>10, <1>2, <2>1
    <3> QED BY <1>5, <1>6, <2>1, <3>1 DEF c
  <2>2. CASE u \in A /\ u # w
    <3>1. /\ u \in 1 .. k /\ l[u].p \in 1 .. (h + 1) /\ ol2[u] = ol[u]
          /\ ptr[l[u].p] = ol[u].fields[1] /\ ptr[l[u].p] # undef
      BY <1>4, <1>6, <1>10, <2>2 DEF undef
    <3>2. l[u].p # Released(c)
      <4> SUFFICES ASSUME l[u].p = Released(c) PROVE FALSE
        OBVIOUS
      <4>1. Released(c) # NULL
        BY <3>1 DEF NULL
      <4> QED BY <1>5, <1>12, <2>2, <3>1, <4>1
    <3>3. ~(Making(c) /\ l[u].p = c.p)
      BY <1>5, <3>1, <3>2
    <3> QED BY <1>5, <3>1, <3>2, <3>3
  <2> QED BY <1>7, <1>16, <2>1, <2>2
<1>17. ASSUME NEW a \in 1 .. (h + 1), ptr2[a] # undef PROVE \E u \in A2 : l[u].p = a
  <2>1. CASE Making(c) /\ a = c.p
    <3>1. k + 1 \in A2 /\ l[k + 1].p = a
      BY <1>7, <2>1 DEF c
    <3> QED BY <3>1
  <2>2. CASE ~(Making(c) /\ a = c.p)
    <3>1. a # Released(c) /\ ptr[a] # undef
      BY <1>5, <1>17, <2>2
    <3>2. PICK u \in A : l[u].p = a
      BY <1>4, <3>1
    <3>3. u # w
      BY <1>9, <1>10, <3>1, <3>2
    <3> QED BY <1>7, <3>2, <3>3
  <2> QED BY <2>1, <2>2
<1> QED BY <1>6, <1>15, <1>16, <1>17 DEF Kept, A2, ol2

(* The converter dies at a call that releases nothing it knows, or that is *)
(* given an address it believes in use.                                    *)
Blocked(c, ptr) ==
  \/ Released(c) # NULL /\ ptr[Released(c)] = undef
  \/ c.fn # "f" /\ c.p # Released(c) /\ ptr[c.p] # undef

Written(c, h) ==
  \/ phase' = "died" /\ UNCHANGED converter /\ Blocked(c, pointers)
  \/ /\ UNCHANGED phase
     /\ \E o : /\ outlines' = Append(outlines, o)
               /\ Converts(c, h, pointers, ids_used, o, pointers', ids_used')

LEMMA TwoFields ==
  ASSUME NEW t \in {"a", "r", "f"}, NEW x \in Int, NEW y \in Int, NEW o, o = Op(t, <<x, y>>)
  PROVE  /\ o \in TraceLine /\ o.type = t
         /\ Len(o.fields) = 2 /\ o.fields[1] = x /\ o.fields[2] = y
<1>1. <<x, y>> \in Seq(Int)
  OBVIOUS
<1>2. o.type = t /\ o.fields = <<x, y>> /\ o = [type |-> t, fields |-> <<x, y>>]
  BY DEF Op
<1>3. o \in TraceLine
  BY <1>1, <1>2 DEF TraceLine
<1>4. Len(<<x, y>>) = 2 /\ <<x, y>>[1] = x /\ <<x, y>>[2] = y
  OBVIOUS
<1> QED BY <1>2, <1>3, <1>4

LEMMA OneField ==
  ASSUME NEW t \in {"a", "r", "f"}, NEW x \in Int, NEW o, o = Op(t, <<x>>)
  PROVE  o \in TraceLine /\ o.type = t /\ Len(o.fields) = 1 /\ o.fields[1] = x
<1>1. <<x>> \in Seq(Int)
  OBVIOUS
<1>2. o.type = t /\ o.fields = <<x>> /\ o = [type |-> t, fields |-> <<x>>]
  BY DEF Op
<1>3. o \in TraceLine
  BY <1>1, <1>2 DEF TraceLine
<1>4. Len(<<x>>) = 1 /\ <<x>>[1] = x
  OBVIOUS
<1> QED BY <1>2, <1>3, <1>4

LEMMA AllocationWritten ==
  ASSUME NEW h \in Nat, NEW c, CallOK(c, h), Ids(pointers, h, ids_used), FromAllocation(c)
  PROVE  Written(c, h)
<1> DEFINE n == ids_used
           o == Op("a", <<n, c.size>>)
<1>1. /\ n \in Nat /\ pointers \in [0 .. (h + 1) -> -1 .. (n - 1)]
      /\ \A a, b \in 0 .. (h + 1) : pointers[a] = pointers[b] /\ pointers[a] # undef => a = b
  BY DEF Ids
<1>2. /\ c.fn \in {"m", "c"} /\ c.p \in 1 .. (h + 1) /\ c.old = 0 /\ c.size \in Nat
      /\ Released(c) = 0 /\ Making(c)
  BY DEF FromAllocation, CallOK, Call, NULL, Released, Making
<1>3. CASE pointers[c.p] # undef
  BY <1>2, <1>3 DEF FromAllocation, Die, Written, Blocked, NULL
<1>4. CASE pointers[c.p] = undef
  <2>1. /\ pointers' = [pointers EXCEPT ![c.p] = n] /\ ids_used' = n + 1
        /\ outlines' = Append(outlines, o) /\ UNCHANGED phase
    BY <1>4 DEF FromAllocation
  <2>2. /\ pointers' \in [0 .. (h + 1) -> -1 .. n]
        /\ \A a \in 0 .. (h + 1) : pointers'[a] = IF a = c.p THEN n ELSE pointers[a]
    BY <1>1, <1>2, <2>1, SMTT(20)
  <2>3. Ids(pointers', h, ids_used')
    <3>1. ASSUME NEW a \in 0 .. (h + 1), NEW b \in 0 .. (h + 1),
                 pointers'[a] = pointers'[b], pointers'[a] # undef
          PROVE  a = b
      <4>1. pointers[a] # n /\ pointers[b] # n
        BY <1>1
      <4> QED BY <1>1, <2>2, <3>1, <4>1
    <3>2. ids_used' \in Nat /\ ids_used' - 1 = n
      BY <1>1, <2>1
    <3> QED BY <2>2, <3>1, <3>2 DEF Ids
  <2>4. /\ o \in TraceLine /\ o.type = "a"
        /\ Len(o.fields) = 2 /\ o.fields[1] = n /\ o.fields[2] = c.size
    <3>1. n \in Int /\ c.size \in Int /\ "a" \in {"a", "r", "f"} /\ o = Op("a", <<n, c.size>>)
      BY <1>1, <1>2
    <3> HIDE DEF o
    <3> QED BY <3>1, TwoFields
  <2> HIDE DEF o
  <2>5. IsLine(o, c, ids_used')
    <3>1. n \in 0 .. (ids_used' - 1)  BY <1>1, <2>1
    <3>2. c.fn # "f" /\ c.fn # "r"  BY <1>2
    <3> HIDE DEF n
    <3> QED  BY <2>4, <3>1, <3>2 DEF IsLine
  <2>6. Converts(c, h, pointers, n, o, pointers', ids_used')
    <3>1. pointers'[c.p] = n
      BY <1>2, <2>2
    <3>2. \A a \in 1 .. (h + 1) :
            IF a = c.p THEN TRUE ELSE pointers'[a] = IF a = 0 THEN undef ELSE pointers[a]
      BY <2>2
    <3> QED BY <1>2, <1>4, <2>1, <2>3, <2>4, <2>5, <3>1, <3>2 DEF Converts, NULL
  <2> QED BY <2>1, <2>6 DEF Written
<1> QED BY <1>3, <1>4

LEMMA FreeWritten ==
  ASSUME NEW h \in Nat, NEW c, CallOK(c, h), Ids(pointers, h, ids_used), FromFree(c)
  PROVE  Written(c, h)
<1> DEFINE n == ids_used
           o == Op("f", <<pointers[c.p]>>)
<1>1. /\ n \in Nat /\ pointers \in [0 .. (h + 1) -> -1 .. (n - 1)]
      /\ \A a, b \in 0 .. (h + 1) : pointers[a] = pointers[b] /\ pointers[a] # undef => a = b
  BY DEF Ids
<1>2. c.fn = "f" /\ c.p \in 0 .. (h + 1) /\ Released(c) = c.p /\ ~Making(c)
  BY DEF FromFree, CallOK, Call, NULL, Released, Making
<1>3. CASE c.p # NULL /\ pointers[c.p] = undef
  BY <1>2, <1>3 DEF FromFree, Die, Written, Blocked
<1>4. CASE ~(c.p # NULL /\ pointers[c.p] = undef)
  <2>1. /\ pointers' = [pointers EXCEPT ![c.p] = undef] /\ ids_used' = n
        /\ outlines' = Append(outlines, o) /\ UNCHANGED phase
    BY <1>4 DEF FromFree
  <2>2. /\ pointers' \in [0 .. (h + 1) -> -1 .. (n - 1)]
        /\ \A a \in 0 .. (h + 1) : pointers'[a] = IF a = c.p THEN undef ELSE pointers[a]
    BY <1>1, <1>2, <2>1 DEF undef
  <2>3. Ids(pointers', h, ids_used')
    BY <1>1, <2>1, <2>2 DEF Ids
  <2>4. pointers[c.p] \in -1 .. (n - 1) /\ pointers[c.p] \in Int
    BY <1>1, <1>2
  <2>5. /\ o \in TraceLine /\ o.type = "f"
        /\ Len(o.fields) = 1 /\ o.fields[1] = pointers[c.p]
    <3>1. "f" \in {"a", "r", "f"} /\ o = Op("f", <<pointers[c.p]>>)
      OBVIOUS
    <3> HIDE DEF o
    <3> QED BY <2>4, <3>1, OneField
  <2> HIDE DEF o
  <2>6. IsLine(o, c, ids_used')
    BY <1>2, <2>1, <2>4, <2>5 DEF IsLine
  <2>7. Converts(c, h, pointers, n, o, pointers', ids_used')
    BY <1>2, <1>4, <2>1, <2>2, <2>3, <2>5, <2>6 DEF Converts
  <2> QED BY <2>1, <2>7 DEF Written
<1> QED BY <1>3, <1>4

(* What an id, or none, may be. *)
LEMMA IdRange ==
  ASSUME NEW n \in Nat
  PROVE  undef \in -1 .. (n - 1) /\ \A q \in 0 .. (n - 1) : q \in -1 .. (n - 1)
  BY DEF undef

LEMMA ReallocationWritten ==
  ASSUME NEW h \in Nat, NEW c, CallOK(c, h), Ids(pointers, h, ids_used), FromReallocation(c)
  PROVE  Written(c, h)
<1> DEFINE n == ids_used
           known == pointers[c.old] # undef
           id == IF known THEN pointers[c.old] ELSE n
           o == Op("r", <<id, c.size>>)
<1>1. /\ n \in Nat /\ pointers \in [0 .. (h + 1) -> -1 .. (n - 1)]
      /\ \A a, b \in 0 .. (h + 1) : pointers[a] = pointers[b] /\ pointers[a] # undef => a = b
  BY DEF Ids
<1>2. /\ c.fn = "r" /\ c.p \in 0 .. (h + 1) /\ c.old \in 0 .. (h + 1) /\ c.size \in Nat
      /\ Released(c) = c.old /\ (Making(c) <=> c.p # NULL)
  BY DEF FromReallocation, CallOK, Call, NULL, Released, Making
<1>3. CASE (c.old # NULL /\ ~known) \/ (c.p # c.old /\ pointers[c.p] # undef)
  <2>1. Blocked(c, pointers)
    BY <1>2, <1>3 DEF Blocked
  <2>2. Die
    BY <1>3 DEF FromReallocation
  <2> QED BY <2>1, <2>2 DEF Die, Written
<1>4. CASE ~((c.old # NULL /\ ~known) \/ (c.p # c.old /\ pointers[c.p] # undef))
  <2>1. /\ pointers' = IF c.p = c.old THEN pointers
                       ELSE [pointers EXCEPT ![c.p] = id, ![c.old] = undef]
        /\ ids_used' = IF known THEN n ELSE n + 1
        /\ outlines' = Append(outlines, o) /\ UNCHANGED phase
    BY <1>4 DEF FromReallocation
  <2>2. id \in 0 .. (ids_used' - 1) /\ ids_used' \in Nat /\ n <= ids_used' /\ id \in Int
    BY <1>1, <1>2, <2>1, SMTT(20) DEF undef
  <2>3. ASSUME NEW a \in 0 .. (h + 1)
        PROVE  pointers'[a] = IF c.p = c.old THEN pointers[a]
                              ELSE IF a = c.old THEN undef ELSE IF a = c.p THEN id ELSE pointers[a]
    BY <1>1, <1>2, <2>1
  <2>4. pointers' \in [0 .. (h + 1) -> -1 .. (ids_used' - 1)]
    <3>1. ASSUME NEW a \in 0 .. (h + 1) PROVE pointers'[a] \in -1 .. (ids_used' - 1)
      <4>1. pointers[a] \in -1 .. (ids_used' - 1)
        BY <1>1, <2>2
      <4> HIDE DEF id
      <4>2. id \in -1 .. (ids_used' - 1)
        BY <2>2, IdRange
      <4>3. undef \in -1 .. (ids_used' - 1)
        BY <2>2, IdRange
      <4> QED BY <2>3, <4>1, <4>2, <4>3
    <3>2. DOMAIN pointers' = 0 .. (h + 1) /\ pointers' = [a \in DOMAIN pointers' |-> pointers'[a]]
      BY <1>1, <2>1
    <3> QED BY <3>1, <3>2
  <2>5. Ids(pointers', h, ids_used')
    <3>1. ASSUME NEW a \in 0 .. (h + 1), NEW b \in 0 .. (h + 1),
                 pointers'[a] = pointers'[b], pointers'[a] # undef
          PROVE  a = b
      <4>1. pointers[a] \in -1 .. (n - 1) /\ pointers[b] \in -1 .. (n - 1)
        BY <1>1
      <4>2. \A e \in 0 .. (h + 1) : pointers[e] = id => known /\ e = c.old
        BY <1>1, <1>2, SMTT(20)
      <4> HIDE DEF id
      <4> QED BY <1>1, <2>3, <3>1, <4>1, <4>2
    <3> QED BY <2>2, <2>4, <3>1 DEF Ids
  <2>6. /\ o \in TraceLine /\ o.type = "r"
        /\ Len(o.fields) = 2 /\ o.fields[1] = id /\ o.fields[2] = c.size
    <3>1. id \in Int /\ c.size \in Int /\ "r" \in {"a", "r", "f"} /\ o = Op("r", <<id, c.size>>)
      BY <1>2, <2>2
    <3> HIDE DEF o, id
    <3> QED BY <3>1, TwoFields
  <2> HIDE DEF o
  <2>7. IsLine(o, c, ids_used')
    <3> HIDE DEF id
    <3> QED BY <1>2, <2>2, <2>6 DEF IsLine
  <2>8. \/ ids_used' = n + 1 /\ o.fields[1] = n /\ c.fn # "f"
        \/ ids_used' = n /\ o.fields[1] = pointers[Released(c)]
    BY <1>2, <2>1, <2>6
  <2>9. Released(c) # NULL => pointers[Released(c)] # undef /\ o.fields[1] = pointers[Released(c)]
    BY <1>2, <1>4, <2>6
  <2>10. Making(c) => pointers'[c.p] = o.fields[1] /\ (c.p # Released(c) => pointers[c.p] = undef)
    <3>1. CASE c.p = c.old
      BY <1>2, <1>4, <2>3, <2>6, <3>1
    <3>2. CASE c.p # c.old
      BY <1>2, <1>4, <2>3, <2>6, <3>2
    <3> QED BY <3>1, <3>2
  <2>11. ASSUME NEW a \in 1 .. (h + 1), ~(Making(c) /\ a = c.p)
         PROVE  pointers'[a] = IF a = Released(c) THEN undef ELSE pointers[a]
    <3>1. a \in 0 .. (h + 1) /\ a # c.p
      BY <1>2, <2>11 DEF NULL
    <3>2. CASE c.p = c.old
      BY <1>2, <2>3, <3>1, <3>2
    <3>3. CASE c.p # c.old
      BY <1>2, <2>3, <3>1, <3>3
    <3> QED BY <3>2, <3>3
  <2>12. Converts(c, h, pointers, n, o, pointers', ids_used')
    BY <2>5, <2>7, <2>8, <2>9, <2>10, <2>11 DEF Converts
  <2> QED BY <2>1, <2>12 DEF Written
<1> QED BY <1>3, <1>4

(* It dies only because of a call that asked for 0 bytes. *)
LEMMA OnlyZeroBlocks ==
  ASSUME NEW l, NEW h, NEW own, CallsOK(l, h), Owns(l, own),
         NEW ptr, NEW ids, NEW ol, Conv(l, h, own, ptr, ids, ol), Len(ol) < Len(l),
         Blocked(l[Len(ol) + 1], ptr)
  PROVE  \E q \in 1 .. Len(l) : l[q].fn # "f" /\ l[q].size = 0
<1> DEFINE k == Len(ol)
           c == l[k + 1]
           w == own[k + 1]
           A == Alive(l, own, k)
<1> SUFFICES ASSUME \A q \in 1 .. Len(l) : l[q].fn # "f" => l[q].size # 0 PROVE FALSE
  OBVIOUS
<1>1. /\ l \in Seq(Call) /\ Len(l) \in Nat /\ h \in Nat /\ k \in Nat
      /\ \A q \in 1 .. Len(l) : CallOK(l[q], h)
      /\ \A q, j \in 1 .. Len(l) :
           q < j /\ Making(l[q]) /\ Making(l[j]) /\ l[q].size > 0 => l[q].p < l[j].p
  <2>1. k \in Nat
    BY DEF Conv, LinesOf
  <2> HIDE DEF k, A
  <2> QED BY <2>1 DEF CallsOK
<1>2. /\ \A u \in A : ptr[l[u].p] = ol[u].fields[1]
      /\ \A a \in 1 .. (h + 1) : ptr[a] # undef => \E u \in A : l[u].p = a
      /\ \A j \in 1 .. k : IsLine(ol[j], l[j], ids)
  BY DEF Conv, Kept, LinesOf
<1>3. w # 0 => w \in A
  <2>1. k < Len(l)
    OBVIOUS
  <2> HIDE DEF k
  <2> QED BY <1>1, <2>1, AliveGrows
<1>4. k + 1 \in 1 .. Len(l) /\ CallOK(c, h)
  BY <1>1
<1>5. IF Released(c) = NULL THEN w = 0
      ELSE w \in 1 .. (k + 1 - 1) /\ l[w].p = Released(c)
  BY <1>4 DEF Owns
<1>6. CASE Released(c) # NULL /\ ptr[Released(c)] = undef
  <2>1. w \in A /\ l[w].p = Released(c) /\ w \in 1 .. k
    BY <1>1, <1>3, <1>5, <1>6
  <2>2. ol[w].fields[1] = undef /\ IsLine(ol[w], l[w], ids) /\ l[w].fn # "f"
    BY <1>2, <1>6, <2>1 DEF Alive, Making
  <2> QED BY <2>2 DEF IsLine, undef
<1>7. CASE c.fn # "f" /\ c.p # Released(c) /\ ptr[c.p] # undef
  <2>1. c.size # 0 /\ c.size \in Nat /\ c.p \in Nat /\ c.p <= h + 1
    BY <1>4, <1>7 DEF CallOK, Call
  <2>2. Making(c)
    BY <1>4, <1>7, <2>1 DEF CallOK, Call, Making
  <2>3. c.p \in 1 .. (h + 1)
    BY <1>1, <2>1, <2>2 DEF Making, NULL
  <2>4. PICK u \in A : l[u].p = c.p
    BY <1>2, <1>7, <2>3
  <2>5. u \in 1 .. k /\ Making(l[u])
    BY DEF Alive
  <2>6. u \in 1 .. Len(l) /\ u < k + 1
    BY <1>1, <1>4, <2>5
  <2>7. l[u].size # 0 /\ l[u].size \in Nat
    BY <1>1, <2>5, <2>6 DEF CallOK, Call, Making
  <2>8. l[u].p < c.p
    BY <1>1, <1>4, <2>2, <2>5, <2>6, <2>7
  <2> QED BY <2>1, <2>4, <2>8
<1> QED BY <1>6, <1>7 DEF Blocked
-----------------------------------------------------------------------------
(***************************************************************************)
(* The steps of recorder and converter.                                    *)
(***************************************************************************)
Converter ==
  \E own : /\ Owns(log, own) /\ Holds(log, own, blocks)
           /\ phase = "converting" =>
                /\ Conv(log, myheapend, own, pointers, ids_used, outlines)
                /\ Len(outlines) <= Len(out)

(* The program runs, or has just ended. *)
Recording == {"running", "flushing", "closing", "exited", "killed", "overrun"}

(* What has not begun yet. *)
Unbegun ==
  /\ phase \in Recording \cup {"converting"} => file = NoFile
  /\ phase \in Recording => ids_used = 0 /\ outlines = << >>
  /\ phase \in Recording \cup {"converting", "file"} => HASH = {} /\ linenum = 0
  /\ ~recorded => phase \notin Recording \cup {"converting", "checking", "balanced"}

(* A file the driver reads, when it has an id. *)
GoodFile(f) ==
  /\ f \in [weight : {0}, num_ids : Nat, num_ops : Nat, ignore_ranges : {0}, lines : Seq(TraceLine)]
  /\ f.num_ops = Len(f.lines)
  /\ \A j \in 1 .. Len(f.lines) :
       /\ Len(f.lines[j].fields) = IF f.lines[j].type = "f" THEN 1 ELSE 2
       /\ f.lines[j].type # "f" => f.lines[j].fields[1] \in 0 .. (f.num_ids - 1)
  /\ \A q \in 0 .. (f.num_ids - 1) :
       \E j \in 1 .. Len(f.lines) : f.lines[j].type # "f" /\ f.lines[j].fields[1] = q

FileOK == IF recorded THEN GoodFile(file) ELSE file \in HandWritten

LEMMA RecorderStep ==
  ASSUME Recorder, Converter, RecNext
  PROVE  Recorder' /\ Converter' /\ phase \in Recording /\ phase' \in Recording
<1>1. PICK own : Owns(log, own) /\ Holds(log, own, blocks)
  BY DEF Converter
<1>2. CASE clear_buffer_and_close \/ Killed \/ Overrun \/ Cleared
  <2>1. /\ phase \in {"running", "flushing", "closing"} /\ phase' \in Recording
        /\ UNCHANGED <<blocks, log, myheapend, buffer, out>>
        /\ phase' \in {"running", "exited"} => buffer = << >>
    BY <1>2 DEF clear_buffer_and_close, Killed, Overrun, Cleared, Running, Recording, program, recorder
  <2>2. NoCallIsLost'
    <3>1. /\ out \in Seq(Call) /\ out \o buffer = log /\ Len(buffer) <= BUFFER_LEN
          /\ BUFFER_LEN \in Nat \ {0}
      BY GetTraceAssumption DEF Recorder, NoCallIsLost
    <3>2. out \o << >> = out /\ Len(<< >>) = 0
      BY <3>1, ConcatEmptySeq, EmptySeq
    <3>3. CASE phase' \in {"running", "exited"}
      BY <2>1, <3>1, <3>2, <3>3 DEF NoCallIsLost
    <3>4. CASE phase' \notin {"running", "exited"}
      BY <2>1, <3>1, <3>4 DEF NoCallIsLost
    <3> QED BY <3>3, <3>4
  <2>3. Recorder'
    BY <2>1, <2>2 DEF Recorder
  <2>4. Converter'
    BY <1>1, <2>1 DEF Converter, Recording
  <2> QED BY <2>1, <2>3, <2>4 DEF Recording
<1>3. CASE clear_buffer
  <2>1. phase \in {"flushing", "closing"} /\ phase' = phase /\ UNCHANGED <<blocks, log>>
    BY <1>3 DEF clear_buffer, program
  <2>2. Converter'
    BY <1>1, <2>1 DEF Converter
  <2> QED BY <1>3, <2>1, <2>2, LineWritten DEF Recording
<1>4. CASE \/ \E sz \in Sizes : malloc(sz) \/ realloc(sz)
           \/ \E a \in CallocArgs : calloc(a[1], a[2])
           \/ free
  <2>0. Accounted
    BY <1>1 DEF Accounted
  <2>1. PICK c, u : Called(c, u)
    BY <1>4, <2>0, CallMade
  <2>2. /\ phase = "running" /\ mywrite(c)
        /\ myheapend' \in Nat /\ myheapend <= myheapend'
        /\ CallOK(c, myheapend') /\ (Making(c) => c.p = myheapend + 1)
        /\ Changed(log, blocks, u, c, blocks')
    BY <2>1 DEF Called
  <2>3. c \in Call /\ CallsOK(log, myheapend)
    BY <2>2 DEF CallOK, Recorder
  <2>4. /\ log' = Append(log, c)
        /\ buffer' \in Seq(Call) /\ out' \in Seq(Call)
        /\ phase' \in {"running", "flushing"} /\ NoCallIsLost'
    BY <2>2, <2>3, BufferGrows
  <2>5. CallsOK(Append(log, c), myheapend')
    BY <2>2, <2>3, CallsGrow
  <2>6. \E own2 : Owns(Append(log, c), own2) /\ Holds(Append(log, c), own2, blocks')
    BY <1>1, <2>2, <2>3, OwnsGrow
  <2>7. Recorder'
    BY <2>2, <2>4, <2>5 DEF Recorder
  <2>8. Converter'
    BY <2>4, <2>6 DEF Converter
  <2> QED BY <2>2, <2>4, <2>7, <2>8 DEF Recording
<1> QED BY <1>2, <1>3, <1>4 DEF RecNext

LEMMA StartStep ==
  ASSUME Recorder, Converter, Unbegun, StartConvert
  PROVE  Converter'
<1>1. PICK own : Owns(log, own) /\ Holds(log, own, blocks)
  BY DEF Converter
<1>2. /\ phase \in {"exited", "killed"} /\ UNCHANGED <<blocks, log, myheapend, buffer, out, ids_used, outlines>>
      /\ pointers' = [p \in 0 .. Address(myheapend) |-> undef]
      /\ ids_used = 0 /\ outlines = << >>
  BY DEF StartConvert, program, recorder, Unbegun, Recording
<1>3. log \in Seq(Call) /\ out \in Seq(Call) /\ myheapend \in Nat
  BY DEF Recorder, CallsOK
<1> DEFINE h == myheapend
<1>4. pointers' = [p \in 0 .. (h + 1) |-> -1]
  BY <1>2 DEF Address, undef
<1>5. Ids(pointers', h, 0)
  BY <1>3, <1>4 DEF Ids, undef
<1>6. << >> \in Seq(TraceLine) /\ Len(<< >>) = 0
  BY EmptySeq
<1>7. LinesOf(log, 0, << >>)
  BY <1>3, <1>6 DEF LinesOf
<1>8. Kept(log, h, own, pointers', << >>)
  <2>1. Alive(log, own, Len(<< >>)) = {} /\ HeldLines(<< >>) = {}
    BY <1>6 DEF Alive, HeldLines
  <2>2. \A a \in 1 .. (h + 1) : pointers'[a] = undef
    BY <1>3, <1>4 DEF undef
  <2> QED BY <2>1, <2>2 DEF Kept
<1>9. Conv(log, h, own, pointers', 0, << >>) /\ Len(<< >>) <= Len(out)
  BY <1>3, <1>5, <1>6, <1>7, <1>8 DEF Conv
<1> QED BY <1>1, <1>2, <1>9 DEF Converter

LEMMA OutIsPrefix ==
  ASSUME Recorder, NEW q \in 1 .. Len(out)
  PROVE  out[q] = log[q] /\ Len(out) <= Len(log) /\ q \in 1 .. Len(log)
<1>1. out \in Seq(Call) /\ buffer \in Seq(Call) /\ log = out \o buffer
  BY DEF Recorder, NoCallIsLost
<1>2. /\ Len(out \o buffer) = Len(out) + Len(buffer)
      /\ \A j \in 1 .. (Len(out) + Len(buffer)) :
           (out \o buffer)[j] = IF j <= Len(out) THEN out[j] ELSE buffer[j - Len(out)]
      /\ Len(out) \in Nat /\ Len(buffer) \in Nat
  BY <1>1, ConcatProperties
<1> QED BY <1>1, <1>2

LEMMA ConvertLineStep ==
  ASSUME Recorder, Converter, Unbegun, ConvertLine
  PROVE  /\ Converter' /\ phase' \in {"converting", "died"}
         /\ phase' = "died" => \E q \in 1 .. Len(log) : log[q].fn # "f" /\ log[q].size = 0
<1> DEFINE k == Len(outlines)
           c == log[k + 1]
           h == myheapend
<1>1. /\ phase = "converting" /\ k < Len(out)
      /\ UNCHANGED <<blocks, log, myheapend, buffer, out>>
      /\ FromAllocation(out[k + 1]) \/ FromReallocation(out[k + 1]) \/ FromFree(out[k + 1])
  BY DEF ConvertLine, program, recorder
<1>2. PICK own : /\ Owns(log, own) /\ Holds(log, own, blocks)
                 /\ Conv(log, h, own, pointers, ids_used, outlines)
  BY <1>1 DEF Converter
<1>3. /\ out \in Seq(Call) /\ CallsOK(log, h) /\ h \in Nat /\ Len(out) \in Nat
      /\ Ids(pointers, h, ids_used) /\ ids_used \in Nat /\ outlines \in Seq(TraceLine)
      /\ LinesOf(log, ids_used, outlines)
  <2>1. Ids(pointers, h, ids_used) /\ LinesOf(log, ids_used, outlines)
    BY <1>2 DEF Conv
  <2>2. ids_used \in Nat /\ outlines \in Seq(TraceLine)
    BY <2>1 DEF Ids, LinesOf
  <2>3. out \in Seq(Call) /\ CallsOK(log, h) /\ Len(out) \in Nat
    BY DEF Recorder
  <2>4. h \in Nat
    BY <2>3 DEF CallsOK
  <2> QED BY <2>1, <2>2, <2>3, <2>4
<1>4. k \in Nat /\ k + 1 \in 1 .. Len(out)
  <2>1. k \in Nat /\ k < Len(out) /\ Len(out) \in Nat
    BY <1>1, <1>3
  <2> HIDE DEF k
  <2> QED BY <2>1
<1>5. out[k + 1] = c /\ k + 1 \in 1 .. Len(log) /\ Len(out) <= Len(log)
  BY <1>4, OutIsPrefix
<1>6. k < Len(log) /\ CallOK(c, h)
  BY <1>3, <1>4, <1>5 DEF CallsOK
<1>7. Written(c, h)
  <2> HIDE DEF c, k, h
  <2> QED BY <1>1, <1>3, <1>5, <1>6, AllocationWritten, ReallocationWritten, FreeWritten
<1>8. CASE phase' = "died" /\ UNCHANGED converter /\ Blocked(c, pointers)
  <2>1. \E q \in 1 .. Len(log) : log[q].fn # "f" /\ log[q].size = 0
    BY <1>2, <1>3, <1>6, <1>8, OnlyZeroBlocks
  <2>2. Converter'
    BY <1>1, <1>2, <1>8 DEF Converter
  <2> QED BY <1>8, <2>1, <2>2
<1>9. CASE /\ UNCHANGED phase
           /\ \E o : /\ outlines' = Append(outlines, o)
                     /\ Converts(c, h, pointers, ids_used, o, pointers', ids_used')
  <2>1. PICK o : /\ outlines' = Append(outlines, o)
                 /\ Converts(c, h, pointers, ids_used, o, pointers', ids_used')
    BY <1>9
  <2>2. LinesOf(log, ids_used', Append(outlines, o))
    BY <1>3, <1>6, <2>1, LinesGrow
  <2>3. Kept(log, h, own, pointers', Append(outlines, o))
    BY <1>2, <1>3, <1>6, <2>1, KeptGrows
  <2>4. Ids(pointers', h, ids_used') /\ o \in TraceLine
    BY <2>1 DEF Converts, IsLine
  <2>5. Len(outlines') = k + 1
    BY <1>3, <2>1, <2>4, AppendFacts
  <2>6. Conv(log, h, own, pointers', ids_used', outlines') /\ Len(outlines') <= Len(out)
    BY <1>4, <2>1, <2>2, <2>3, <2>4, <2>5 DEF Conv
  <2>7. Converter'
    BY <1>1, <1>2, <2>6 DEF Converter
  <2> QED BY <1>1, <1>9, <2>7
<1> QED BY <1>7, <1>8, <1>9 DEF Written

LEMMA ConvertStep ==
  ASSUME Recorder, Converter, Unbegun, Convert
  PROVE  ConvertedTraceIsTheProgram' /\ GoodFile(file')
<1> DEFINE k == Len(outlines)
<1>1. /\ phase = "converting" /\ phase' = "file" /\ k = Len(out)
      /\ UNCHANGED <<blocks, log, myheapend, buffer, out, recorded>>
      /\ file' = [weight |-> 0, num_ids |-> ids_used, num_ops |-> k, ignore_ranges |-> 0, lines |-> outlines]
  BY DEF Convert, program, recorder
<1>2. PICK own : /\ Owns(log, own) /\ Holds(log, own, blocks)
                 /\ Conv(log, myheapend, own, pointers, ids_used, outlines)
  BY <1>1 DEF Converter
<1>3. /\ ids_used \in Nat /\ outlines \in Seq(TraceLine) /\ k <= Len(log)
      /\ \A j \in 1 .. k : IsLine(outlines[j], log[j], ids_used)
      /\ \A q \in 0 .. (ids_used - 1) :
           \E j \in 1 .. k : outlines[j].type # "f" /\ outlines[j].fields[1] = q
      /\ HeldLines(outlines) = Alive(log, own, k)
  BY <1>2 DEF Conv, Ids, LinesOf, Kept
<1>4. /\ file'.weight = 0 /\ file'.ignore_ranges = 0 /\ file'.num_ids = ids_used
      /\ file'.num_ops = k /\ file'.lines = outlines
  BY <1>1
<1>5. ASSUME out = log
      PROVE  /\ HeldLines(outlines) = DOMAIN blocks
             /\ \A u \in DOMAIN blocks : outlines[u].fields[2] = blocks[u].size
  <2>1. HeldLines(outlines) = DOMAIN blocks
    BY <1>1, <1>2, <1>3, <1>5 DEF Holds
  <2>2. ASSUME NEW u \in DOMAIN blocks PROVE outlines[u].fields[2] = blocks[u].size
    <3>1. u \in Alive(log, own, k) /\ blocks[u].size = log[u].size
      BY <1>1, <1>2, <1>5 DEF Holds
    <3>2. u \in 1 .. k /\ log[u].fn # "f"
      BY <3>1 DEF Alive, Making
    <3> QED BY <1>3, <3>1, <3>2 DEF IsLine
  <2> QED BY <2>1, <2>2
<1>6. ConvertedTraceIsTheProgram'
  BY <1>1, <1>4, <1>5 DEF ConvertedTraceIsTheProgram
<1>7. GoodFile(file')
  <2>1. ASSUME NEW j \in 1 .. k
        PROVE  /\ Len(outlines[j].fields) = IF outlines[j].type = "f" THEN 1 ELSE 2
               /\ outlines[j].type # "f" => outlines[j].fields[1] \in 0 .. (ids_used - 1)
    BY <1>3 DEF IsLine
  <2>2. k \in Nat
    BY <1>3
  <2>3. file' \in [weight : {0}, num_ids : Nat, num_ops : Nat, ignore_ranges : {0}, lines : Seq(TraceLine)]
    BY <1>1, <1>3, <2>2
  <2> QED BY <1>3, <1>4, <2>1, <2>3 DEF GoodFile
<1> QED BY <1>6, <1>7

LEMMA SetToSeqFacts ==
  ASSUME NEW S, IsFiniteSet(S)
  PROVE  /\ Cardinality(S) \in Nat
         /\ SetToSeq(S) \in [1 .. Cardinality(S) -> S]
         /\ \A x \in S : \E q \in 1 .. Cardinality(S) : SetToSeq(S)[q] = x
<1> DEFINE n == Cardinality(S)
           ids == SetToSeq(S)
<1>1. n \in Nat /\ \E f : f \in Bijection(1 .. n, S)
  BY FS_CardinalityType DEF ExistsBijection
<1>2. \E f : f \in [1 .. n -> S] /\ IsInjective(f)
  BY <1>1 DEF Bijection, Injection
<1>3. ids \in [1 .. n -> S] /\ IsInjective(ids)
  BY <1>2 DEF SetToSeq
<1>4. ids \in Injection(1 .. n, S)
  BY <1>3 DEF Injection
<1>5. IsFiniteSet(1 .. n) /\ Cardinality(1 .. n) = n
  <2> HIDE DEF n
  <2>1. IsFiniteSet(1 .. n) /\ Cardinality(1 .. n) = IF 1 > n THEN 0 ELSE n - 1 + 1
    BY <1>1, FS_Interval
  <2> QED BY <1>1, <2>1
<1>6. ids \in Surjection(1 .. n, S)
  BY <1>4, <1>5, FS_Injection
<1> QED BY <1>1, <1>3, <1>6 DEF Surjection
-----------------------------------------------------------------------------
(***************************************************************************)
(* The checker: what it has read is freed or waits in HASH.                *)
(***************************************************************************)
Covered(lines, n, hash) ==
  \A j \in 1 .. n : lines[j].type # "f" =>
     \/ lines[j].fields[1] \in hash
     \/ \E q \in (j + 1) .. n : lines[q].fields[1] = lines[j].fields[1]

Checking ==
  phase \in {"file", "checking"} /\ recorded =>
    /\ linenum \in 0 .. Len(file.lines)
    /\ IsFiniteSet(HASH) /\ HASH \subseteq Int
    /\ Covered(file.lines, linenum, HASH)

LEMMA CheckLineStep ==
  ASSUME FileOK, Checking, CheckLine
  PROVE  Checking' /\ phase' \in {"checking", "died"} /\ file # NoFile
<1> DEFINE k == linenum
           lines == file.lines
           l == lines[k + 1]
           id == l.fields[1]
<1>1. /\ phase \in {"file", "checking"} /\ recorded /\ k < Len(lines) /\ UNCHANGED <<file, recorded>>
      /\ IF (l.type = "a") = (id \in HASH)
           THEN phase' = "died" /\ UNCHANGED checker
           ELSE /\ phase' = "checking" /\ linenum' = k + 1
                /\ HASH' = CASE l.type = "a" -> HASH \cup {id}
                             [] l.type = "f" -> HASH \ {id}
                             [] l.type = "r" -> HASH
  BY DEF CheckLine
<1>2. /\ k \in 0 .. Len(lines) /\ IsFiniteSet(HASH) /\ HASH \subseteq Int
      /\ Covered(lines, k, HASH)
      /\ lines \in Seq(TraceLine) /\ Len(lines) \in Nat
  BY <1>1 DEF Checking, FileOK, GoodFile
<1>3. file # NoFile
  BY <1>1, <1>2 DEF NoFile
<1>4. k + 1 \in 1 .. Len(lines) /\ l \in TraceLine
  BY <1>1, <1>2
<1>5. l.type \in {"a", "f", "r"} /\ l.fields \in Seq(Int) /\ Len(l.fields) = IF l.type = "f" THEN 1 ELSE 2
  BY <1>1, <1>4 DEF FileOK, GoodFile, TraceLine
<1>6. id \in Int
  BY <1>5
<1>7. CASE (l.type = "a") = (id \in HASH)
  BY <1>1, <1>3, <1>7 DEF Checking
<1>8. CASE (l.type = "a") # (id \in HASH)
  <2>1. /\ phase' = "checking" /\ linenum' = k + 1
        /\ HASH' = CASE l.type = "a" -> HASH \cup {id}
                     [] l.type = "f" -> HASH \ {id}
                     [] l.type = "r" -> HASH
    BY <1>1, <1>8
  <2>2. HASH' = HASH \cup {id} \/ HASH' = HASH \ {id} \/ HASH' = HASH
    BY <1>5, <2>1
  <2>3. IsFiniteSet(HASH') /\ HASH' \subseteq Int
    <3> HIDE DEF id
    <3>1. IsFiniteSet(HASH \cup {id}) /\ IsFiniteSet(HASH \ {id})
      BY <1>2, FS_AddElement, FS_RemoveElement
    <3> QED BY <1>2, <1>6, <2>2, <3>1
  <2>4. linenum' \in 0 .. Len(file'.lines) /\ file' = file
    BY <1>1, <1>2, <1>4, <2>1
  <2>5. l.type # "f" => id \in HASH'
    <3>1. CASE l.type = "a"
      BY <2>1, <3>1
    <3>2. CASE l.type = "r"
      BY <1>8, <2>1, <3>2
    <3> QED BY <1>5, <3>1, <3>2
  <2>6. HASH \ {id} \subseteq HASH'
    BY <2>2
  <2> HIDE DEF k, lines, l, id
  <2>7. ASSUME NEW j \in 1 .. (k + 1), lines[j].type # "f"
        PROVE  \/ lines[j].fields[1] \in HASH'
               \/ \E q \in (j + 1) .. (k + 1) : lines[q].fields[1] = lines[j].fields[1]
    <3>1. CASE j = k + 1
      BY <2>5, <2>7, <3>1 DEF l, id
    <3>2. CASE j \in 1 .. k
      <4>1. CASE lines[j].fields[1] = id
        <5>1. k + 1 \in (j + 1) .. (k + 1)
          BY <1>2, <3>2
        <5> QED BY <4>1, <5>1 DEF id, l
      <4>2. CASE lines[j].fields[1] \in HASH /\ lines[j].fields[1] # id
        BY <2>6, <4>2
      <4>3. CASE \E q \in (j + 1) .. k : lines[q].fields[1] = lines[j].fields[1]
        <5>1. PICK q \in (j + 1) .. k : lines[q].fields[1] = lines[j].fields[1]
          BY <4>3
        <5>2. q \in (j + 1) .. (k + 1)
          BY <1>2, <3>2
        <5> QED BY <5>1, <5>2
      <4> QED BY <1>2, <2>7, <3>2, <4>1, <4>2, <4>3 DEF Covered
    <3> QED BY <1>2, <3>1, <3>2
  <2>8. Covered(lines, k + 1, HASH')
    BY <2>7 DEF Covered
  <2>9. Checking'
    BY <2>1, <2>3, <2>4, <2>8 DEF Checking, lines
  <2> QED BY <1>3, <2>1, <2>9
<1> QED BY <1>7, <1>8

(* What the checker appends is all that is missing. *)
LEMMA BalanceStep ==
  ASSUME FileOK, Unbegun, Checking, Balance
  PROVE  /\ GoodFile(file')
         /\ HeldLines(SubSeq(file'.lines, 1, file'.num_ops)) = {}
<1> DEFINE n == Cardinality(HASH)
           ids == SetToSeq(HASH)
           frees == [q \in 1 .. n |-> Op("f", <<ids[q]>>)]
           lines == file.lines
           k == Len(lines)
           all == lines \o frees
<1>1. /\ phase = "checking" /\ linenum = k
      /\ file' = [file EXCEPT !.num_ops = @ + Len(frees), !.lines = @ \o frees]
  BY DEF Balance
<1>2. recorded /\ GoodFile(file)
  BY <1>1 DEF Unbegun, FileOK
<1>3. /\ file.weight = 0 /\ file.ignore_ranges = 0 /\ file.num_ids \in Nat
      /\ lines \in Seq(TraceLine) /\ file.num_ops = k /\ k \in Nat
      /\ \A j \in 1 .. k :
           /\ Len(lines[j].fields) = IF lines[j].type = "f" THEN 1 ELSE 2
           /\ lines[j].type # "f" => lines[j].fields[1] \in 0 .. (file.num_ids - 1)
      /\ \A q \in 0 .. (file.num_ids - 1) :
           \E j \in 1 .. k : lines[j].type # "f" /\ lines[j].fields[1] = q
      /\ file \in [weight : {0}, num_ids : Nat, num_ops : Nat, ignore_ranges : {0}, lines : Seq(TraceLine)]
  <2>1. /\ file \in [weight : {0}, num_ids : Nat, num_ops : Nat, ignore_ranges : {0}, lines : Seq(TraceLine)]
        /\ file.num_ops = Len(file.lines)
    BY <1>2 DEF GoodFile
  <2>2. /\ file.weight = 0 /\ file.ignore_ranges = 0 /\ file.num_ids \in Nat
        /\ file.lines \in Seq(TraceLine)
    BY <2>1
  <2> QED BY <1>2, <2>1, <2>2 DEF GoodFile
<1>4. IsFiniteSet(HASH) /\ HASH \subseteq Int /\ Covered(lines, k, HASH)
  BY <1>1, <1>2 DEF Checking
<1>5. /\ n \in Nat /\ ids \in [1 .. n -> HASH]
      /\ \A x \in HASH : \E q \in 1 .. n : ids[q] = x
  BY <1>4, SetToSeqFacts
<1> HIDE DEF n, ids
<1>6. ASSUME NEW q \in 1 .. n
      PROVE  frees[q] \in TraceLine /\ frees[q].type = "f" /\ Len(frees[q].fields) = 1 /\ frees[q].fields[1] = ids[q]
  <2>1. ids[q] \in Int /\ frees[q] = Op("f", <<ids[q]>>)
    BY <1>4, <1>5
  <2> HIDE DEF frees
  <2> QED BY <2>1, OneField
<1>7. frees \in Seq(TraceLine) /\ Len(frees) = n
  <2>1. frees \in [1 .. n -> TraceLine]
    BY <1>6
  <2>2. DOMAIN frees = 1 .. n
    OBVIOUS
  <2> HIDE DEF frees
  <2> QED BY <1>5, <2>1, <2>2, LenProperties, SeqDef
<1> HIDE DEF frees
<1>8. /\ all \in Seq(TraceLine) /\ Len(all) = k + n
      /\ \A j \in 1 .. (k + n) : all[j] = IF j <= k THEN lines[j] ELSE frees[j - k]
  <2>1. /\ all \in Seq(TraceLine) /\ Len(all) = Len(lines) + Len(frees)
        /\ \A j \in 1 .. (Len(lines) + Len(frees)) :
             all[j] = IF j <= Len(lines) THEN lines[j] ELSE frees[j - Len(lines)]
    <3>1. lines \in Seq(TraceLine) /\ frees \in Seq(TraceLine)
      BY <1>3, <1>7
    <3> HIDE DEF lines, k
    <3> QED BY <3>1, ConcatProperties
  <2> HIDE DEF all, lines
  <2> QED BY <1>7, <2>1
<1>9. /\ file'.weight = 0 /\ file'.ignore_ranges = 0 /\ file'.num_ids = file.num_ids
      /\ file'.lines = all /\ file'.num_ops = k + n
      /\ file' \in [weight : {0}, num_ids : Nat, num_ops : Nat, ignore_ranges : {0}, lines : Seq(TraceLine)]
  <2>1. k + n \in Nat
    BY <1>3, <1>5
  <2>2. file' = [file EXCEPT !.num_ops = k + n, !.lines = all]
    BY <1>1, <1>3, <1>7
  <2> HIDE DEF all, k
  <2> QED BY <1>3, <1>8, <2>1, <2>2
<1> HIDE DEF all, lines, k
<1>10. GoodFile(file')
  <2>1. ASSUME NEW j \in 1 .. (k + n)
        PROVE  /\ Len(all[j].fields) = IF all[j].type = "f" THEN 1 ELSE 2
               /\ all[j].type # "f" => all[j].fields[1] \in 0 .. (file.num_ids - 1)
    <3>1. CASE j <= k
      <4>1. j \in 1 .. k /\ all[j] = lines[j]
        BY <1>3, <1>5, <1>8, <3>1
      <4> QED BY <1>3, <4>1
    <3>2. CASE j > k
      <4>1. j - k \in 1 .. n /\ all[j] = frees[j - k]
        BY <1>3, <1>5, <1>8, <3>2
      <4> QED BY <1>6, <4>1
    <3> QED BY <1>3, <1>5, <3>1, <3>2
  <2>2. ASSUME NEW q \in 0 .. (file.num_ids - 1)
        PROVE  \E j \in 1 .. (k + n) : all[j].type # "f" /\ all[j].fields[1] = q
    <3>1. PICK j \in 1 .. k : lines[j].type # "f" /\ lines[j].fields[1] = q
      BY <1>3
    <3>2. j \in 1 .. (k + n) /\ all[j] = lines[j]
      BY <1>3, <1>5, <1>8
    <3> QED BY <3>1, <3>2
  <2> QED BY <1>3, <1>8, <1>9, <2>1, <2>2 DEF GoodFile
<1>11. SubSeq(file'.lines, 1, file'.num_ops) = all
  BY <1>8, <1>9, SubSeqFull
<1>12. ASSUME NEW j \in HeldLines(all) PROVE FALSE
  <2>1. /\ j \in 1 .. (k + n) /\ GivesBlock(all[j])
        /\ \A q \in (j + 1) .. (k + n) : all[q].fields[1] # all[j].fields[1]
    BY <1>8 DEF HeldLines
  <2>2. j <= k
    <3>1. SUFFICES ASSUME j > k PROVE FALSE
      BY <1>3, <2>1
    <3>2. j - k \in 1 .. n /\ all[j] = frees[j - k]
      BY <1>3, <1>5, <1>8, <2>1, <3>1
    <3> QED BY <1>6, <2>1, <3>2 DEF GivesBlock
  <2>3. j \in 1 .. k /\ all[j] = lines[j] /\ lines[j].type # "f"
    BY <1>3, <1>8, <2>1, <2>2 DEF GivesBlock
  <2>4. CASE lines[j].fields[1] \in HASH
    <3>1. PICK q \in 1 .. n : ids[q] = lines[j].fields[1]
      BY <1>5, <2>4
    <3>2. k + q \in (j + 1) .. (k + n) /\ all[k + q] = frees[q]
      <4>1. k \in Nat /\ n \in Nat /\ q \in 1 .. n /\ j \in 1 .. k
        BY <1>3, <1>5, <2>3
      <4>2. k + q \in (j + 1) .. (k + n) /\ k + q \in 1 .. (k + n) /\ ~(k + q <= k) /\ (k + q) - k = q
        BY <4>1
      <4> QED BY <1>8, <4>2
    <3>3. frees[q].fields[1] = all[j].fields[1]
      BY <1>6, <2>3, <3>1
    <3> QED BY <2>1, <3>2, <3>3
  <2>5. CASE \E q \in (j + 1) .. k : lines[q].fields[1] = lines[j].fields[1]
    <3>1. PICK q \in (j + 1) .. k : lines[q].fields[1] = lines[j].fields[1]
      BY <2>5
    <3>2. q \in (j + 1) .. (k + n) /\ all[q] = lines[q]
      BY <1>3, <1>5, <1>8, <2>3
    <3> QED BY <2>1, <2>3, <3>1, <3>2
  <2> QED BY <1>4, <2>3, <2>4, <2>5 DEF Covered
<1> QED BY <1>10, <1>11, <1>12
-----------------------------------------------------------------------------
(***************************************************************************)
(* The driver: the operations it has read are the first lines of the file. *)
(***************************************************************************)
TraceOp == [type : {"a", "r", "f"}, index : Int, size : Int]

ReadAs(op, l, top) ==
  /\ op.type = l.type
  /\ l.fields # << >> => op.index = l.fields[1]
  /\ l.type # "f" /\ Len(l.fields) >= 2 => op.size = l.fields[2]
  /\ l.type # "f" => op.index <= top

Begun   == {"reading", "read", "ready"}
Refused == {"rejected", "aborted", "undefined"}

ReaderInv ==
  /\ phase \notin Begun \cup Refused => trace = << >> /\ op_index = 0 /\ index = 0 /\ max_index = 0
  /\ phase \in Begun =>
       /\ op_index \in 0 .. Len(file.lines) /\ index \in Int /\ size \in Int /\ max_index \in Nat
       /\ trace \in Seq(TraceOp) /\ Len(trace) = op_index
       /\ \A q \in 1 .. op_index : ReadAs(trace[q], file.lines[q], max_index)
  /\ phase = "read" => op_index = file.num_ops \/ op_index = Len(file.lines)
  /\ phase = "ready" => max_index = file.num_ids - 1 /\ file.num_ops = op_index
  /\ recorded /\ file.num_ids > 0 =>
       /\ phase \notin Refused
       /\ phase \in Begun => max_index <= file.num_ids - 1

LEMMA FileFacts ==
  ASSUME FileOK
  PROVE  /\ file.num_ops \in Nat /\ file.num_ids \in Int /\ Len(file.lines) \in Nat
         /\ \A j \in 1 .. Len(file.lines) : file.lines[j].fields \in Seq(Int)
<1>1. CASE recorded
  <2>1. file \in [weight : {0}, num_ids : Nat, num_ops : Nat, ignore_ranges : {0}, lines : Seq(TraceLine)]
    BY <1>1 DEF FileOK, GoodFile
  <2>2. file.num_ids \in Nat /\ file.num_ops \in Nat /\ file.lines \in Seq(TraceLine)
    BY <2>1
  <2>3. \A j \in 1 .. Len(file.lines) : file.lines[j] \in TraceLine
    BY <2>2
  <2> QED BY <2>2, <2>3 DEF TraceLine
<1>2. CASE ~recorded
  <2> DEFINE HandLine == [type : STRING, fields : Seq(Int)]
  <2>1. file \in [weight : Int, num_ids : Int, num_ops : Nat, ignore_ranges : Int, lines : Seq(HandLine)]
    BY <1>2, TraceFileAssumption DEF FileOK
  <2> HIDE DEF HandLine
  <2>2. file.num_ids \in Int /\ file.num_ops \in Nat /\ file.lines \in Seq(HandLine)
    BY <2>1
  <2>3. \A j \in 1 .. Len(file.lines) : file.lines[j] \in HandLine
    BY <2>2
  <2> QED BY <2>2, <2>3 DEF HandLine
<1> QED BY <1>1, <1>2

LEMMA GoodFacts ==
  ASSUME FileOK, recorded
  PROVE  /\ file.weight = 0 /\ file.ignore_ranges = 0 /\ file.num_ops = Len(file.lines)
         /\ \A j \in 1 .. Len(file.lines) :
              /\ file.lines[j].type \in {"a", "r", "f"}
              /\ Len(file.lines[j].fields) = IF file.lines[j].type = "f" THEN 1 ELSE 2
              /\ file.lines[j].type # "f" => file.lines[j].fields[1] \in 0 .. (file.num_ids - 1)
         /\ \A q \in 0 .. (file.num_ids - 1) :
              \E j \in 1 .. Len(file.lines) : file.lines[j].type # "f" /\ file.lines[j].fields[1] = q
<1>1. file \in [weight : {0}, num_ids : Nat, num_ops : Nat, ignore_ranges : {0}, lines : Seq(TraceLine)]
  BY DEF FileOK, GoodFile
<1>2. file.weight = 0 /\ file.ignore_ranges = 0 /\ file.lines \in Seq(TraceLine)
  BY <1>1
<1>3. ASSUME NEW j \in 1 .. Len(file.lines) PROVE file.lines[j].type \in {"a", "r", "f"}
  <2>1. file.lines[j] \in TraceLine
    BY <1>2
  <2> QED BY <2>1 DEF TraceLine
<1> QED BY <1>2, <1>3 DEF FileOK, GoodFile

LEMMA OpenStep ==
  ASSUME FileOK, ReaderInv, Open
  PROVE  ReaderInv'
<1>1. /\ phase \in {"file", "balanced"} /\ UNCHANGED <<file, recorded, trace, index, max_index, op_index>>
      /\ phase' = IF {file.weight, file.ignore_ranges} \subseteq {0, 1} THEN "reading" ELSE "rejected"
      /\ size' \in Int
  BY TraceFileAssumption DEF Open
<1>2. trace = << >> /\ op_index = 0 /\ index = 0 /\ max_index = 0
  BY <1>1 DEF ReaderInv, Begun, Refused
<1>3. << >> \in Seq(TraceOp) /\ Len(<< >>) = 0
  BY EmptySeq
<1>4. Len(file.lines) \in Nat /\ file.num_ids \in Int
  BY FileFacts
<1>5. recorded => phase' = "reading"
  BY <1>1, GoodFacts
<1>6. Len(trace') = 0 /\ trace' \in Seq(TraceOp) /\ op_index' = 0 /\ index' = 0 /\ max_index' = 0
  BY <1>1, <1>2, <1>3
<1> QED BY <1>1, <1>4, <1>5, <1>6 DEF ReaderInv, Begun, Refused

LEMMA ReadLineStep ==
  ASSUME FileOK, ReaderInv, ReadLine
  PROVE  ReaderInv'
<1> DEFINE k == op_index
           l == file.lines[k + 1]
           q == field(l, 1, index)
           z == IF l.type = "f" THEN size ELSE field(l, 2, size)
           op == [type |-> l.type, index |-> q, size |-> z]
<1>1. /\ phase = "reading" /\ k < Len(file.lines) /\ UNCHANGED <<file, recorded>>
      /\ \/ l.type \notin {"a", "r", "f"} /\ phase' = "rejected" /\ UNCHANGED reader
         \/ l.type \in {"a", "r", "f"} /\ file.num_ops = 0 /\ phase' = "undefined" /\ UNCHANGED reader
         \/ /\ l.type \in {"a", "r", "f"} /\ file.num_ops # 0
            /\ trace' = Append(trace, op)
            /\ index' = q /\ size' = z
            /\ max_index' = IF l.type # "f" /\ q > max_index THEN q ELSE max_index
            /\ op_index' = k + 1
            /\ phase' = IF op_index' = file.num_ops THEN "read" ELSE "reading"
  BY DEF ReadLine
<1>2. /\ k \in 0 .. Len(file.lines) /\ index \in Int /\ size \in Int /\ max_index \in Nat
      /\ trace \in Seq(TraceOp) /\ Len(trace) = k
      /\ \A j \in 1 .. k : ReadAs(trace[j], file.lines[j], max_index)
      /\ recorded /\ file.num_ids > 0 => max_index <= file.num_ids - 1
  BY <1>1 DEF ReaderInv, Begun
<1>3. /\ Len(file.lines) \in Nat /\ file.num_ids \in Int /\ file.num_ops \in Nat
      /\ k + 1 \in 1 .. Len(file.lines) /\ l.fields \in Seq(Int) /\ Len(l.fields) \in Nat
  BY <1>1, <1>2, FileFacts
<1>4. q \in Int /\ z \in Int
  BY <1>2, <1>3 DEF field
<1>5. recorded => /\ l.type \in {"a", "r", "f"} /\ file.num_ops # 0
                  /\ l.type # "f" => l.fields[1] \in 0 .. (file.num_ids - 1) /\ Len(l.fields) = 2
  <2> SUFFICES ASSUME recorded
               PROVE  /\ l.type \in {"a", "r", "f"} /\ file.num_ops # 0
                      /\ l.type # "f" => l.fields[1] \in 0 .. (file.num_ids - 1) /\ Len(l.fields) = 2
    OBVIOUS
  <2>1. file.num_ops = Len(file.lines) /\ file.num_ops # 0
    BY <1>1, <1>2, <1>3, GoodFacts
  <2>2. /\ l.type \in {"a", "r", "f"}
        /\ Len(l.fields) = IF l.type = "f" THEN 1 ELSE 2
        /\ l.type # "f" => l.fields[1] \in 0 .. (file.num_ids - 1)
    BY <1>3, GoodFacts
  <2> QED BY <2>1, <2>2
<1>6. CASE phase' \in {"rejected", "undefined"} /\ UNCHANGED reader /\ ~recorded
  BY <1>1, <1>6 DEF ReaderInv, Begun, Refused
<1>7. CASE /\ l.type \in {"a", "r", "f"} /\ file.num_ops # 0
           /\ trace' = Append(trace, op)
           /\ index' = q /\ size' = z
           /\ max_index' = IF l.type # "f" /\ q > max_index THEN q ELSE max_index
           /\ op_index' = k + 1
           /\ phase' = IF op_index' = file.num_ops THEN "read" ELSE "reading"
  <2>1. op \in TraceOp
    BY <1>4, <1>7 DEF TraceOp
  <2>2. /\ trace' \in Seq(TraceOp) /\ Len(trace') = k + 1
        /\ \A j \in 1 .. k : trace'[j] = trace[j]
        /\ trace'[k + 1] = op
    BY <1>2, <1>7, <2>1, AppendFacts
  <2>3. op.type = l.type /\ op.index = q /\ op.size = z
    OBVIOUS
  <2>4. l.fields # << >> => Len(l.fields) >= 1
    BY <1>3
  <2> HIDE DEF op
  <2>5. max_index' \in Nat /\ max_index <= max_index' /\ (l.type # "f" => q <= max_index')
    BY <1>2, <1>4, <1>7
  <2>6. ReadAs(op, l, max_index')
    <3>1. l.fields # << >> => q = l.fields[1]
      BY <1>3, <2>4 DEF field
    <3>2. l.type # "f" /\ Len(l.fields) >= 2 => z = l.fields[2]
      BY <1>3 DEF field
    <3> HIDE DEF q, z, l
    <3> QED BY <2>3, <2>5, <3>1, <3>2 DEF ReadAs
  <2>7. ASSUME NEW j \in 1 .. (k + 1) PROVE ReadAs(trace'[j], file.lines[j], max_index')
    <3>1. CASE j = k + 1
      BY <2>2, <2>6, <3>1
    <3>2. CASE j \in 1 .. k
      <4>1. ReadAs(trace[j], file.lines[j], max_index) /\ trace'[j] = trace[j]
        BY <1>2, <2>2, <3>2
      <4>2. trace[j] \in TraceOp
        BY <1>2, <3>2
      <4>3. trace[j].index \in Int
        BY <4>2 DEF TraceOp
      <4> QED BY <1>2, <2>5, <4>1, <4>3 DEF ReadAs
    <3> QED BY <1>2, <3>1, <3>2
  <2>8. recorded /\ file.num_ids > 0 => max_index' <= file.num_ids - 1
    <3> SUFFICES ASSUME recorded, file.num_ids > 0 PROVE max_index' <= file.num_ids - 1
      OBVIOUS
    <3>1. l.type # "f" => q <= file.num_ids - 1
      <4>1. l.type # "f" => q = l.fields[1]
        BY <1>5 DEF field
      <4> HIDE DEF q, l
      <4> QED BY <1>3, <1>5, <4>1
    <3> HIDE DEF q, l
    <3> QED BY <1>2, <1>3, <1>4, <1>7, <3>1
  <2>9. op_index' \in 0 .. Len(file'.lines) /\ op_index' = k + 1 /\ index' \in Int /\ size' \in Int
    BY <1>1, <1>3, <1>4, <1>7
  <2>10. phase' \in {"reading", "read"} /\ (phase' = "read" => op_index' = file.num_ops)
    BY <1>7
  <2> QED BY <1>1, <2>2, <2>5, <2>7, <2>8, <2>9, <2>10 DEF ReaderInv, Begun, Refused
<1> QED BY <1>1, <1>5, <1>6, <1>7

LEMMA SurplusStep ==
  ASSUME FileOK, ReaderInv, ReadSurplus
  PROVE  ReaderInv'
<1>1. /\ phase = "reading" /\ phase' = "rejected" /\ Surplus
      /\ UNCHANGED <<file, recorded, trace, index, size, max_index, op_index>>
  BY DEF ReadSurplus, reader
<1>2. op_index \in 1 .. Len(file.lines)
  BY <1>1, FileFacts DEF ReaderInv, Begun, Surplus
<1>3. ~recorded
  BY <1>1, <1>2, GoodFacts DEF Surplus
<1> QED BY <1>1, <1>3 DEF ReaderInv, Begun, Refused

LEMMA AssertsStep ==
  ASSUME FileOK, ReaderInv, Asserts
  PROVE  ReaderInv'
<1>1. /\ phase = "read" /\ UNCHANGED <<file, recorded, trace, index, size, max_index, op_index>>
      /\ phase' = IF max_index = file.num_ids - 1 /\ file.num_ops = op_index THEN "ready" ELSE "aborted"
  BY DEF Asserts, reader
<1>2. /\ op_index \in 0 .. Len(file.lines) /\ max_index \in Nat
      /\ op_index = file.num_ops \/ op_index = Len(file.lines)
      /\ \A q \in 1 .. op_index : ReadAs(trace[q], file.lines[q], max_index)
      /\ recorded /\ file.num_ids > 0 => max_index <= file.num_ids - 1
  BY <1>1 DEF ReaderInv, Begun
<1>3. ASSUME recorded, file.num_ids > 0 PROVE phase' = "ready"
  <2>1. file.num_ops = op_index /\ op_index = Len(file.lines)
    BY <1>2, <1>3, GoodFacts
  <2>2. file.num_ids - 1 \in 0 .. (file.num_ids - 1) /\ file.num_ids \in Int
    BY <1>3, FileFacts
  <2>3. PICK j \in 1 .. Len(file.lines) : file.lines[j].type # "f" /\ file.lines[j].fields[1] = file.num_ids - 1
    BY <1>3, <2>2, GoodFacts
  <2>4. file.lines[j].fields # << >>
    <3>1. Len(file.lines[j].fields) = 2
      BY <1>3, <2>3, GoodFacts
    <3>2. Len(<< >>) = 0
      BY EmptySeq
    <3> QED BY <3>1, <3>2
  <2>5. ReadAs(trace[j], file.lines[j], max_index)
    BY <1>2, <2>1
  <2>6. file.num_ids - 1 <= max_index
    BY <2>3, <2>4, <2>5 DEF ReadAs
  <2> QED BY <1>1, <1>2, <1>3, <2>1, <2>2, <2>6
<1> QED BY <1>1, <1>3 DEF ReaderInv, Begun, Refused
-----------------------------------------------------------------------------
(***************************************************************************)
(* The invariant.                                                          *)
(***************************************************************************)
Balanced == phase = "balanced" => HeldLines(SubSeq(file.lines, 1, file.num_ops)) = {}

Made == Recorder /\ Converter /\ Unbegun /\ FileOK /\ ConvertedTraceIsTheProgram /\ Checking /\ Balanced

TraceInv == Made /\ ReaderInv

LEMMA NoFileIsGood == GoodFile(NoFile) /\ NoFile.lines = << >> /\ Len(NoFile.lines) = 0
<1>1. << >> \in Seq(TraceLine) /\ Len(<< >>) = 0
  BY EmptySeq
<1>2. /\ NoFile.weight = 0 /\ NoFile.ignore_ranges = 0 /\ NoFile.num_ids = 0
      /\ NoFile.num_ops = 0 /\ NoFile.lines = << >>
      /\ NoFile \in [weight : {0}, num_ids : Nat, num_ops : Nat, ignore_ranges : {0}, lines : Seq(TraceLine)]
  BY <1>1 DEF NoFile
<1> QED BY <1>1, <1>2 DEF GoodFile

LEMMA InitInv == TraceInit => TraceInv
<1> SUFFICES ASSUME TraceInit PROVE TraceInv
  OBVIOUS
<1> USE GetTraceAssumption
<1>1. /\ blocks = << >> /\ myheapend = 0 /\ buffer = << >> /\ out = << >> /\ log = << >>
      /\ ids_used = 0 /\ outlines = << >> /\ HASH = {} /\ linenum = 0
      /\ trace = << >> /\ index = 0 /\ max_index = 0 /\ op_index = 0
      /\ \/ phase = "running" /\ recorded /\ file = NoFile
         \/ phase = "file" /\ ~recorded /\ file \in HandWritten
  BY DEF TraceInit, RecInit
<1>2. << >> \in Seq(Call) /\ Len(<< >>) = 0 /\ << >> \o << >> = << >>
  BY EmptySeq, ConcatEmptySeq
<1>3. Recorder
  <2>1. CallsOK(<< >>, 0)
    BY <1>2 DEF CallsOK
  <2>2. out \o buffer = log /\ Len(buffer) < BUFFER_LEN /\ Len(buffer) <= BUFFER_LEN
    BY <1>1, <1>2
  <2> QED BY <1>1, <1>2, <2>1, <2>2 DEF Recorder, NoCallIsLost
<1>4. Converter
  <2> DEFINE own == [j \in 1 .. 0 |-> 0]
  <2>1. Owns(<< >>, own)
    BY <1>2 DEF Owns
  <2>2. Holds(<< >>, own, << >>)
    BY <1>2 DEF Holds, Alive
  <2> QED BY <1>1, <2>1, <2>2 DEF Converter
<1>5. FileOK
  BY <1>1, NoFileIsGood DEF FileOK
<1>6. Unbegun /\ ConvertedTraceIsTheProgram /\ Checking /\ Balanced
  BY <1>1 DEF Unbegun, Recording, ConvertedTraceIsTheProgram, Checking, Balanced
<1>7. ReaderInv
  BY <1>1 DEF ReaderInv, Begun, Refused
<1> QED BY <1>3, <1>4, <1>5, <1>6, <1>7 DEF TraceInv, Made

(* Once the file is there, the parts before it rest. *)
LEMMA MadeStays ==
  ASSUME Made, UNCHANGED <<program, recorder, converter, checker, file, recorded>>,
         phase \in {"file", "balanced"} \cup Begun, phase' \in Begun \cup Refused
  PROVE  Made'
<1>1. UNCHANGED <<blocks, log, myheapend, buffer, out, pointers, ids_used, outlines, HASH, linenum>>
  BY DEF program, recorder, converter, checker
<1>2. Recorder'
  BY <1>1 DEF Made, Recorder, NoCallIsLost, Begun, Refused
<1>3. Converter'
  <2>1. phase' # "converting"
    BY DEF Begun, Refused
  <2> QED BY <1>1, <2>1 DEF Made, Converter
<1>4. Unbegun' /\ Checking' /\ Balanced'
  BY DEF Unbegun, Recording, Checking, Balanced, Begun, Refused
<1>5. FileOK'
  BY DEF Made, FileOK
<1>6. ConvertedTraceIsTheProgram'
  BY DEF ConvertedTraceIsTheProgram, Begun, Refused
<1> QED BY <1>2, <1>3, <1>4, <1>5, <1>6 DEF Made

(* Before the driver reads, nothing was read. *)
LEMMA NotYetRead ==
  ASSUME ReaderInv, UNCHANGED reader, phase \notin Begun \cup Refused, phase' \notin Begun \cup Refused
  PROVE  ReaderInv'
  BY DEF ReaderInv, reader, Begun, Refused

LEMMA StepInv == TraceInv /\ [TraceNext]_traceVars => TraceInv'
<1> SUFFICES ASSUME TraceInv, [TraceNext]_traceVars PROVE TraceInv'
  OBVIOUS
<1>0. /\ Recorder /\ Converter /\ Unbegun /\ FileOK /\ ConvertedTraceIsTheProgram
      /\ Checking /\ Balanced /\ ReaderInv /\ Made
  BY DEF TraceInv, Made
<1>1. CASE RecNext /\ UNCHANGED <<converter, file, recorded, checker, reader>>
  <2>1. Recorder' /\ Converter' /\ phase \in Recording /\ phase' \in Recording
    BY <1>0, <1>1, RecorderStep
  <2>2. UNCHANGED <<ids_used, outlines, HASH, linenum, file, recorded>>
    BY <1>1 DEF converter, checker
  <2>3. Unbegun'
    BY <1>0, <2>1, <2>2 DEF Unbegun
  <2>4. FileOK'
    BY <1>0, <2>2 DEF FileOK
  <2>5. ConvertedTraceIsTheProgram' /\ Checking' /\ Balanced'
    BY <2>1 DEF ConvertedTraceIsTheProgram, Checking, Balanced, Recording
  <2>6. ReaderInv'
    BY <1>0, <1>1, <2>1, NotYetRead DEF Begun, Refused, Recording
  <2> QED BY <2>1, <2>3, <2>4, <2>5, <2>6 DEF TraceInv, Made
<1>2. CASE StartConvert
  <2>1. /\ phase \in {"exited", "killed"} /\ phase' = "converting" /\ UNCHANGED <<program, recorder, ids_used, outlines, file, recorded, checker, reader>>
    BY <1>2 DEF StartConvert
  <2>2. Converter'
    BY <1>0, <1>2, StartStep
  <2>3. Recorder'
    BY <1>0, <2>1 DEF Recorder, NoCallIsLost, program, recorder
  <2>4. Unbegun'
    BY <1>0, <2>1 DEF Unbegun, Recording, checker
  <2>5. FileOK'
    BY <1>0, <2>1 DEF FileOK
  <2>6. ConvertedTraceIsTheProgram' /\ Checking' /\ Balanced'
    BY <2>1 DEF ConvertedTraceIsTheProgram, Checking, Balanced
  <2>7. ReaderInv'
    BY <1>0, <2>1, NotYetRead DEF Begun, Refused
  <2> QED BY <2>2, <2>3, <2>4, <2>5, <2>6, <2>7 DEF TraceInv, Made
<1>3. CASE ConvertLine
  <2>1. phase = "converting" /\ UNCHANGED <<program, recorder, file, recorded, checker, reader>>
    BY <1>3 DEF ConvertLine
  <2>2. /\ Converter' /\ phase' \in {"converting", "died"}
        /\ phase' = "died" => \E q \in 1 .. Len(log) : log[q].fn # "f" /\ log[q].size = 0
    BY <1>0, <1>3, ConvertLineStep
  <2>3. Recorder'
    BY <1>0, <2>1, <2>2 DEF Recorder, NoCallIsLost, program, recorder
  <2>4. Unbegun'
    BY <1>0, <2>1, <2>2 DEF Unbegun, Recording, checker
  <2>5. FileOK'
    BY <1>0, <2>1 DEF FileOK
  <2>6. ConvertedTraceIsTheProgram'
    BY <2>1, <2>2 DEF ConvertedTraceIsTheProgram, program
  <2>7. Checking' /\ Balanced'
    BY <2>2 DEF Checking, Balanced
  <2>8. ReaderInv'
    BY <1>0, <2>1, <2>2, NotYetRead DEF Begun, Refused
  <2> QED BY <2>2, <2>3, <2>4, <2>5, <2>6, <2>7, <2>8 DEF TraceInv, Made
<1>4. CASE Convert
  <2>1. /\ phase = "converting" /\ phase' = "file"
        /\ UNCHANGED <<program, recorder, converter, recorded, checker, reader>>
    BY <1>4 DEF Convert
  <2>2. ConvertedTraceIsTheProgram' /\ GoodFile(file')
    BY <1>0, <1>4, ConvertStep
  <2>3. recorded /\ HASH = {} /\ linenum = 0
    BY <1>0, <2>1 DEF Unbegun
  <2>4. Recorder'
    BY <1>0, <2>1 DEF Recorder, NoCallIsLost, program, recorder
  <2>5. Converter'
    BY <1>0, <2>1 DEF Converter, program, recorder
  <2>6. Unbegun'
    BY <2>1, <2>3 DEF Unbegun, Recording, checker
  <2>7. FileOK'
    BY <2>1, <2>2, <2>3 DEF FileOK
  <2>8. Checking'
    <3>1. Len(file'.lines) \in Nat
      BY <2>7, FileFacts
    <3>2. HASH' = {} /\ linenum' = 0 /\ IsFiniteSet({})
      BY <2>1, <2>3, FS_EmptySet DEF checker
    <3> QED BY <3>1, <3>2 DEF Checking, Covered
  <2>9. Balanced'
    BY <2>1 DEF Balanced
  <2>10. ReaderInv'
    BY <1>0, <2>1, NotYetRead DEF Begun, Refused
  <2> QED BY <2>2, <2>4, <2>5, <2>6, <2>7, <2>8, <2>9, <2>10 DEF TraceInv, Made
<1>5. CASE CheckLine
  <2>1. /\ phase \in {"file", "checking"} /\ recorded
        /\ UNCHANGED <<program, recorder, converter, file, recorded, reader>>
    BY <1>5 DEF CheckLine
  <2>2. Checking' /\ phase' \in {"checking", "died"} /\ file # NoFile
    BY <1>0, <1>5, CheckLineStep
  <2>3. Recorder'
    BY <1>0, <2>1, <2>2 DEF Recorder, NoCallIsLost, program, recorder
  <2>4. Converter'
    BY <1>0, <2>1, <2>2 DEF Converter, program, recorder
  <2>5. Unbegun'
    BY <2>1, <2>2 DEF Unbegun, Recording
  <2>6. FileOK'
    BY <1>0, <2>1 DEF FileOK
  <2>7. ConvertedTraceIsTheProgram' /\ Balanced'
    BY <2>1, <2>2 DEF ConvertedTraceIsTheProgram, Balanced
  <2>8. ReaderInv'
    BY <1>0, <2>1, <2>2, NotYetRead DEF Begun, Refused
  <2> QED BY <2>2, <2>3, <2>4, <2>5, <2>6, <2>7, <2>8 DEF TraceInv, Made
<1>6. CASE Balance
  <2>1. /\ phase = "checking" /\ phase' = "balanced"
        /\ UNCHANGED <<program, recorder, converter, recorded, checker, reader>>
    BY <1>6 DEF Balance
  <2>2. GoodFile(file') /\ Balanced'
    BY <1>0, <1>6, BalanceStep DEF Balanced
  <2>3. Recorder'
    BY <1>0, <2>1 DEF Recorder, NoCallIsLost, program, recorder
  <2>4. Converter'
    BY <1>0, <2>1 DEF Converter, program, recorder
  <2>5. recorded /\ Unbegun'
    BY <1>0, <2>1 DEF Unbegun, Recording
  <2>6. FileOK'
    BY <2>1, <2>2, <2>5 DEF FileOK
  <2>7. ConvertedTraceIsTheProgram' /\ Checking'
    BY <2>1 DEF ConvertedTraceIsTheProgram, Checking
  <2>8. ReaderInv'
    BY <1>0, <2>1, NotYetRead DEF Begun, Refused
  <2> QED BY <2>2, <2>3, <2>4, <2>5, <2>6, <2>7, <2>8 DEF TraceInv, Made
<1>7. CASE Open
  <2>1. ReaderInv'
    BY <1>0, <1>7, OpenStep
  <2>2. Made'
    BY <1>0, <1>7, MadeStays DEF Open, Begun, Refused
  <2> QED BY <2>1, <2>2 DEF TraceInv
<1>8. CASE ReadLine
  <2>1. ReaderInv'
    BY <1>0, <1>8, ReadLineStep
  <2>2. Made'
    <3>1. /\ phase = "reading" /\ phase' \in Begun \cup Refused
          /\ UNCHANGED <<program, recorder, converter, checker, file, recorded>>
      BY <1>8 DEF ReadLine, Begun, Refused
    <3> QED BY <1>0, <3>1, MadeStays DEF Begun
  <2> QED BY <2>1, <2>2 DEF TraceInv
<1>9. CASE AtEOF
  <2>1. ReaderInv'
    BY <1>0, <1>9 DEF AtEOF, ReaderInv, reader, Begun, Refused
  <2>2. Made'
    BY <1>0, <1>9, MadeStays DEF AtEOF, Begun
  <2> QED BY <2>1, <2>2 DEF TraceInv
<1>10. CASE Asserts
  <2>1. ReaderInv'
    BY <1>0, <1>10, AssertsStep
  <2>2. Made'
    BY <1>0, <1>10, MadeStays DEF Asserts, Begun, Refused
  <2> QED BY <2>1, <2>2 DEF TraceInv
<1>12. CASE ReadSurplus
  <2>1. ReaderInv'
    BY <1>0, <1>12, SurplusStep
  <2>2. Made'
    BY <1>0, <1>12, MadeStays DEF ReadSurplus, Begun, Refused
  <2> QED BY <2>1, <2>2 DEF TraceInv
<1>11. CASE UNCHANGED traceVars
  <2>1. UNCHANGED <<phase, blocks, myheapend, buffer, out, log, pointers, ids_used, outlines,
                    file, recorded, HASH, linenum, trace, index, size, max_index, op_index>>
    BY <1>11 DEF traceVars, converter, checker, reader
  <2>2. Recorder' /\ Converter' /\ Unbegun' /\ FileOK'
    BY <1>0, <2>1 DEF Recorder, NoCallIsLost, Converter, Unbegun, FileOK
  <2>3. ConvertedTraceIsTheProgram' /\ Checking' /\ Balanced'
    BY <1>0, <2>1 DEF ConvertedTraceIsTheProgram, Checking, Balanced
  <2>4. ReaderInv'
    BY <1>0, <2>1 DEF ReaderInv
  <2> QED BY <2>2, <2>3, <2>4 DEF TraceInv, Made
<1> QED BY <1>1, <1>2, <1>3, <1>4, <1>5, <1>6, <1>7, <1>8, <1>9, <1>10, <1>11, <1>12 DEF TraceNext

LEMMA Invariant == TraceSpec => []TraceInv
  BY InitInv, StepInv, PTL DEF TraceSpec
-----------------------------------------------------------------------------
(* No call is lost on the way from get-trace.c's buffer to its file, if its *)
(* writes do not fail: an exited program's calls are all there, a killed    *)
(* one's but for the last, no more than the buffer holds.                   *)
THEOREM FileHoldsTheCalls == TraceSpec => []NoCallIsLost
<1>1. TraceInv => NoCallIsLost
  BY DEF TraceInv, Made, Recorder
<1> QED BY <1>1, Invariant, PTL

(* Whatever a program allocates, moves and frees, as long as its blocks fit *)
(* into memory[], the converter's ids keep its blocks apart: at its end the *)
(* trace holds the program's blocks, of the sizes it asked for, and no      *)
(* others; and it dies at no program but one that asks for 0 bytes.         *)
THEOREM ConverterKeepsTheBlocks == TraceSpec => []ConvertedTraceIsTheProgram
<1>1. TraceInv => ConvertedTraceIsTheProgram
  BY DEF TraceInv, Made
<1> QED BY <1>1, Invariant, PTL

(* read_trace refuses no recorded trace that has a block, and checktrace.pl *)
(* leaves no block of it allocated.                                         *)
THEOREM RecordedTracesAreFine == TraceSpec => []RecordedTraceIsRead
<1>1. TraceInv => RecordedTraceIsRead
  <2> SUFFICES ASSUME TraceInv PROVE RecordedTraceIsRead
    OBVIOUS
  <2>1. recorded /\ file.num_ids > 0 => phase \notin {"rejected", "aborted", "undefined"}
    BY DEF TraceInv, ReaderInv, Refused
  <2>2. phase = "balanced" => HeldLines(SubSeq(file.lines, 1, file.num_ops)) = {}
    BY DEF TraceInv, Made, Balanced
  <2> QED BY <2>1, <2>2 DEF RecordedTraceIsRead
<1> QED BY <1>1, Invariant, PTL

(* What read_trace returns for any file, recorded or written by hand, is    *)
(* the file, and keeps the allocations' indexes inside the driver's arrays. *)
THEOREM DriverReadsTheFile == TraceSpec => []ReadTraceIsTheFile
<1>1. TraceInv => ReadTraceIsTheFile
  <2> SUFFICES ASSUME TraceInv, phase = "ready"
               PROVE  /\ Len(trace) = file.num_ops /\ file.num_ops <= Len(file.lines)
                      /\ \A q \in 1 .. Len(trace) :
                           LET l == file.lines[q]
                           IN  /\ trace[q].type = l.type
                               /\ l.fields # << >> => trace[q].index = l.fields[1]
                               /\ l.type # "f" /\ Len(l.fields) >= 2 => trace[q].size = l.fields[2]
                               /\ l.type # "f" => trace[q].index < file.num_ids
    BY DEF ReadTraceIsTheFile
  <2>1. /\ op_index \in 0 .. Len(file.lines) /\ Len(trace) = op_index /\ trace \in Seq(TraceOp)
        /\ \A q \in 1 .. op_index : ReadAs(trace[q], file.lines[q], max_index)
        /\ max_index = file.num_ids - 1 /\ file.num_ops = op_index
    BY DEF TraceInv, ReaderInv, Begun
  <2>2. file.num_ids \in Int /\ Len(file.lines) \in Nat
    BY FileFacts DEF TraceInv, Made
  <2>3. ASSUME NEW q \in 1 .. Len(trace)
        PROVE  /\ trace[q].type = file.lines[q].type
               /\ file.lines[q].fields # << >> => trace[q].index = file.lines[q].fields[1]
               /\ file.lines[q].type # "f" /\ Len(file.lines[q].fields) >= 2 => trace[q].size = file.lines[q].fields[2]
               /\ file.lines[q].type # "f" => trace[q].index < file.num_ids
    <3>1. ReadAs(trace[q], file.lines[q], max_index)
      BY <2>1
    <3>2. trace[q] \in TraceOp
      BY <2>1
    <3>3. trace[q].index \in Int
      BY <3>2 DEF TraceOp
    <3> QED BY <2>1, <2>2, <3>1, <3>3 DEF ReadAs
  <2> QED BY <2>1, <2>2, <2>3
<1> QED BY <1>1, Invariant, PTL
=============================================================================

------------------------------ MODULE MDriver -------------------------------
(***************************************************************************)
(* Malloc/malloclab-handout/mdriver.c: one trace replayed against a malloc *)
(* package.  eval_mm_valid checks every block the package hands out and    *)
(* keeps random bytes in it; eval_mm_util and eval_mm_speed replay the     *)
(* trace without checks.  One action is one trace line.  The package's     *)
(* answer to a line is the parameter r of the action:                      *)
(*   [ret, brk, mem, crash], as in MMalloc.                                *)
(* DriverMM gives it mm.c's answers, DriverAny any answer at all.          *)
(***************************************************************************)
EXTENDS Memlib, Sequences, SequencesExt, FiniteSets

CONSTANTS Ids,             \* block numbers of a trace: 0 .. num_ids - 1
          Traces,          \* the traces that can be read, as sequences of lines
          DebugModes,      \* subset of {"none", "cheap", "expensive"}
          IgnoreRanges,    \* subset of BOOLEAN: values of the trace's third header line
          RandBases,       \* values of random()
          RANDOM_DATA_LEN, random_data   \* the bytes of random_data, by offset

ASSUME DriverAssumption ==
  /\ IsFiniteSet(Ids) /\ Ids \subseteq Nat
  /\ DebugModes \subseteq {"none", "cheap", "expensive"}
  /\ IgnoreRanges \subseteq BOOLEAN
  /\ RandBases \subseteq Nat /\ RANDOM_DATA_LEN \in Nat \ {0}
  /\ random_data \in [0 .. RANDOM_DATA_LEN - 1 -> 0 .. 255]

(* read_trace lets in only these types, and add_range asserts that a malloc *)
(* asks for bytes.                                                         *)
ASSUME TraceAssumption ==
  \A t \in Traces :
    /\ t \in Seq([type : {"a", "r", "f"}, index : Int, size : Nat])
    /\ \A k \in DOMAIN t : t[k].type = "a" => t[k].size > 0

VARIABLES
  ops,                     \* trace->ops: [type, index, size], index -1 is free(NULL)
  ignore_ranges,           \* trace->ignore_ranges
  debug_mode,
  blocks,                  \* trace->blocks
  block_sizes,             \* trace->block_sizes
  block_rand_base,         \* trace->block_rand_base
  ranges,                  \* the range list, head first: [lo, hi, index]
  errors,                  \* errors reported by malloc_error
  total_size, max_total_size,
  pc,                      \* the function replaying the trace, or how it ended
  i,                       \* the line about to be replayed, from 1
  valid                    \* stats->valid: 0, 1, or -1 while it is not known

traceVars == <<ops, ignore_ranges, debug_mode>>
blockVars == <<blocks, block_sizes, block_rand_base>>
checkVars == <<ranges, errors, valid>>
utilVars  == <<total_size, max_total_size>>
dvars     == <<brk, mem, traceVars, blockVars, checkVars, utilVars, pc, i>>

DInit ==
  /\ MemInit
  /\ ops \in Traces /\ ignore_ranges \in IgnoreRanges /\ debug_mode \in DebugModes
  /\ blocks = [d \in Ids |-> NULL]
  /\ block_sizes = [d \in Ids |-> 0]
  /\ block_rand_base = [d \in Ids |-> 0]
  /\ ranges = << >> /\ errors = 0 /\ valid = -1
  /\ total_size = 0 /\ max_total_size = 0
  /\ pc = "start" /\ i = 1

line == ops[i]
At(fn, type) == pc = fn /\ i <= Len(ops) /\ line.type = type

HeapAfter(r) == brk' = r.brk /\ mem' = r.mem

reinit_trace == /\ blocks' = [d \in Ids |-> NULL]
                /\ block_sizes' = [d \in Ids |-> 0]
                /\ UNCHANGED block_rand_base
-----------------------------------------------------------------------------
(* The range list.                                                         *)

IS_ALIGNED(p) == p % ALIGNMENT = 0

\* mutant: the ends of the listed block are not taken as part of it
Overlaps_Strict(lo, hi, p) == (lo > p.lo /\ lo < p.hi) \/ (hi > p.lo /\ hi < p.hi)

Overlaps(lo, hi, p) == (lo >= p.lo /\ lo <= p.hi) \/ (hi >= p.lo /\ hi <= p.hi)

Outside(a, heap_hi) == a < mem_heap_lo \/ a > heap_hi

unchecked == ignore_ranges \/ debug_mode = "none"

(* add_range(ranges, lo, size) accepts the block, in a heap ending at hi.  *)
Accepted(list, lo, size, heap_hi) ==
  LET hi == lo + size - 1
  IN  /\ IS_ALIGNED(lo)
      /\ ~Outside(lo, heap_hi) /\ ~Outside(hi, heap_hi)
      /\ unchecked \/ \A k \in DOMAIN list : ~Overlaps(lo, hi, list[k])

\* mutant: one past the last byte
add_range_PastEnd(list, lo, size, index) ==
  IF unchecked THEN list
  ELSE <<[lo |-> lo, hi |-> lo + size, index |-> index]>> \o list

(* The list add_range leaves for a block it accepted. *)
add_range(list, lo, size, index) ==
  IF unchecked THEN list
  ELSE <<[lo |-> lo, hi |-> lo + size - 1, index |-> index]>> \o list

remove_range(list, lo) == RemoveFirstMatch(list, LAMBDA p : p.lo = lo)
-----------------------------------------------------------------------------
(* The random bytes: init_random_data fills the table once, before the     *)
(* first trace, with any bytes.                                            *)

Random(base, k) == random_data[(base + k) % RANDOM_DATA_LEN]

\* mutant: skips the first byte
Garbled_FromOne(m, p, size, base) ==
  \E k \in 1 .. size - 1 : m[p + k] # Random(base, k)

(* check_index: the first size bytes of the block at p are not base's.     *)
Garbled(m, p, size, base) ==
  \E k \in 0 .. size - 1 : m[p + k] # Random(base, k)

CheckIndex(m, index) ==
  IF /\ index >= 0 /\ debug_mode # "none"
     /\ Garbled(m, blocks[index], block_sizes[index], block_rand_base[index])
  THEN 1 ELSE 0

(* mm_checkheap and the check of every listed block before each line.      *)
ExpensiveCheck ==
  IF debug_mode # "expensive" THEN 0
  ELSE Cardinality({k \in DOMAIN ranges : CheckIndex(mem, ranges[k].index) = 1})

(* randomize_block: fill the block at p, from a new place in random_data.  *)
Randomized(m, p, size, base) ==
  [a \in DOMAIN m |-> IF p <= a /\ a < p + size THEN Random(base, a - p) ELSE m[a]]

Remember(index, p, size, base) ==
  /\ blocks' = [blocks EXCEPT ![index] = p]
  /\ block_sizes' = [block_sizes EXCEPT ![index] = size]
  /\ block_rand_base' = IF debug_mode = "none" THEN block_rand_base
                        ELSE [block_rand_base EXCEPT ![index] = base]

Filled(m, p, size, base) ==
  IF debug_mode = "none" THEN m ELSE Randomized(m, p, size, base)
-----------------------------------------------------------------------------
(* eval_mm_valid.                                                          *)

(* init is mm_init's result, here and below: below 0, it has failed. *)
BeginValid(init) ==
  /\ pc = "start"
  /\ mem_reset_brk
  /\ reinit_trace
  /\ ranges' = << >>
  /\ i' = 1
  /\ IF init < 0 THEN errors' = errors + 1 /\ valid' = 0 /\ pc' = "done"
                 ELSE pc' = "valid" /\ UNCHANGED <<errors, valid>>
  /\ UNCHANGED <<traceVars, utilVars>>

(* return 0: the error is reported and the trace is left where it is. *)
Reject(found) == /\ errors' = errors + found + 1
                 /\ valid' = 0 /\ pc' = "done"
                 /\ UNCHANGED <<blockVars, i>>

ValidAlloc(r, base) ==
  LET p == r.ret
  IN  /\ At("valid", "a")
      /\ ~r.crash
      /\ IF p # NULL /\ Accepted(ranges, p, line.size, r.brk - 1)
         THEN /\ ranges' = add_range(ranges, p, line.size, line.index)
              /\ Remember(line.index, p, line.size, base)
              /\ brk' = r.brk /\ mem' = Filled(r.mem, p, line.size, base)
              /\ errors' = errors + ExpensiveCheck
              /\ i' = i + 1
              /\ UNCHANGED <<valid, pc>>
         ELSE /\ Reject(ExpensiveCheck)
              /\ HeapAfter(r)
              /\ UNCHANGED ranges
      /\ UNCHANGED <<traceVars, utilVars>>

(* A failed mm_realloc leaves the list alone; a block that is refused has  *)
(* already lost the range of the one it replaces.                          *)
ValidRealloc(r, base) ==
  LET d      == line.index
      n      == line.size
      p      == r.ret
      kept   == IF n < block_sizes[d] THEN n ELSE block_sizes[d]
      rest   == remove_range(ranges, blocks[d])
      before == ExpensiveCheck + CheckIndex(mem, d)
      after  == IF debug_mode # "none" /\ Garbled(r.mem, p, kept, block_rand_base[d])
                THEN 1 ELSE 0
  IN  /\ At("valid", "r")
      /\ ~r.crash
      /\ IF (p = NULL) # (n = 0)
         THEN Reject(before) /\ HeapAfter(r) /\ UNCHANGED ranges
         ELSE IF n > 0 /\ ~Accepted(rest, p, n, r.brk - 1)
         THEN Reject(before) /\ HeapAfter(r) /\ ranges' = rest
         ELSE /\ ranges' = IF n = 0 THEN rest ELSE add_range(rest, p, n, d)
              /\ Remember(d, p, n, base)
              /\ brk' = r.brk /\ mem' = Filled(r.mem, p, n, base)
              /\ errors' = errors + before + after
              /\ i' = i + 1
              /\ UNCHANGED <<valid, pc>>
      /\ UNCHANGED <<traceVars, utilVars>>

(* The pointer line i frees: index -1 stands for free(NULL).  Freeing does *)
(* not clear blocks or block_sizes.                                        *)
FreedPtr == IF line.index < 0 THEN NULL ELSE blocks[line.index]

ValidFree(r) ==
  /\ At("valid", "f")
  /\ ~r.crash
  /\ errors' = errors + ExpensiveCheck + CheckIndex(mem, line.index)
  /\ ranges' = IF line.index = -1 THEN ranges ELSE remove_range(ranges, FreedPtr)
  /\ HeapAfter(r)
  /\ i' = i + 1
  /\ UNCHANGED <<traceVars, blockVars, utilVars, valid, pc>>

(* app_error, which prints and exits: no later trace is run. *)
StartPass(fn, init) == pc' = IF init < 0 THEN "app_error" ELSE fn

(* return 1; run_tests goes on to eval_mm_util. *)
EndValid(init) ==
  /\ pc = "valid" /\ i > Len(ops)
  /\ valid' = 1
  /\ StartPass("util", init)
  /\ i' = 1 /\ reinit_trace /\ mem_reset_brk
  /\ total_size' = 0 /\ max_total_size' = 0
  /\ UNCHANGED <<traceVars, ranges, errors>>
-----------------------------------------------------------------------------
(* eval_mm_util.                                                           *)

(* The requested bytes change by delta; then the high-water mark follows.  *)
Account(delta) ==
  LET total == total_size + delta
  IN  /\ total_size' = total
      /\ max_total_size' = IF total > max_total_size THEN total ELSE max_total_size

Abort == pc' = "app_error" /\ UNCHANGED <<blockVars, utilVars, i>>

UtilAlloc(r) ==
  /\ At("util", "a")
  /\ ~r.crash
  /\ HeapAfter(r)
  /\ IF r.ret = NULL THEN Abort
     ELSE /\ blocks' = [blocks EXCEPT ![line.index] = r.ret]
          /\ block_sizes' = [block_sizes EXCEPT ![line.index] = line.size]
          /\ Account(line.size)
          /\ i' = i + 1
          /\ UNCHANGED <<block_rand_base, pc>>
  /\ UNCHANGED <<traceVars, checkVars>>

UtilRealloc(r) ==
  /\ At("util", "r")
  /\ ~r.crash
  /\ HeapAfter(r)
  /\ IF r.ret = NULL /\ line.size # 0 THEN Abort
     ELSE /\ blocks' = [blocks EXCEPT ![line.index] = r.ret]
          /\ block_sizes' = [block_sizes EXCEPT ![line.index] = line.size]
          /\ Account(line.size - block_sizes[line.index])
          /\ i' = i + 1
          /\ UNCHANGED <<block_rand_base, pc>>
  /\ UNCHANGED <<traceVars, checkVars>>

\* mutant: takes the size of the trace line, which a free does not have
UtilFree_LineSize(r) ==
  /\ At("util", "f")
  /\ ~r.crash
  /\ HeapAfter(r)
  /\ Account(- line.size)
  /\ i' = i + 1
  /\ UNCHANGED <<traceVars, blockVars, checkVars, pc>>

UtilFree(r) ==
  /\ At("util", "f")
  /\ ~r.crash
  /\ HeapAfter(r)
  /\ Account(IF line.index < 0 THEN 0 ELSE - block_sizes[line.index])
  /\ i' = i + 1
  /\ UNCHANGED <<traceVars, blockVars, checkVars, pc>>

(* run_tests goes on to time eval_mm_speed. *)
EndUtil(init) ==
  /\ pc = "util" /\ i > Len(ops)
  /\ StartPass("speed", init) /\ i' = 1 /\ reinit_trace /\ mem_reset_brk
  /\ UNCHANGED <<traceVars, checkVars, utilVars>>
-----------------------------------------------------------------------------
(* eval_mm_speed: the sizes of the blocks are not recorded.                *)

SpeedLine(r) ==
  /\ pc = "speed" /\ i <= Len(ops)
  /\ ~r.crash
  /\ HeapAfter(r)
  /\ IF \/ line.type = "a" /\ r.ret = NULL
        \/ line.type = "r" /\ r.ret = NULL /\ line.size # 0
     THEN Abort
     ELSE /\ blocks' = IF line.type = "f" THEN blocks
                      ELSE [blocks EXCEPT ![line.index] = r.ret]
          /\ i' = i + 1
          /\ UNCHANGED <<block_sizes, block_rand_base, utilVars, pc>>
  /\ UNCHANGED <<traceVars, checkVars>>

(* fsecs times as many runs as it needs. *)
EndSpeed(init) ==
  /\ pc = "speed" /\ i > Len(ops)
  /\ \/ pc' = "done" /\ UNCHANGED <<brk, mem, blockVars, i>>
     \/ StartPass("speed", init) /\ i' = 1 /\ reinit_trace /\ mem_reset_brk
  /\ UNCHANGED <<traceVars, checkVars, utilVars>>
-----------------------------------------------------------------------------
(* Legal traces: what the shipped trace files do.  An id is allocated when *)
(* it is not held, resized when it is held or was never used, and freed    *)
(* when it is held; free(NULL) is always legal.  No other id is used.      *)
Earlier(t, k) == {j \in 1 .. k - 1 : t[j].index = t[k].index}

HeldBefore(t, k, d) ==
  \E j \in 1 .. k - 1 : /\ t[j].index = d /\ t[j].type # "f"
                        /\ \A l \in j + 1 .. k - 1 : t[l].index = d => t[l].type # "f"

LegalTrace(t) ==
  /\ \A k \in DOMAIN t :
       LET held == HeldBefore(t, k, t[k].index)
       IN  CASE t[k].type = "a" -> ~held
             [] t[k].type = "r" -> held \/ Earlier(t, k) = {}
             [] t[k].type = "f" -> held \/ t[k].index = -1
  /\ \A k \in DOMAIN t : t[k].type # "f" => t[k].index \in Ids

LegalTraces == \A t \in Traces : LegalTrace(t)

Held      == {d \in Ids : HeldBefore(ops, i, d)}
HeldAtEnd == {d \in Ids : HeldBefore(ops, Len(ops) + 1, d)}
=============================================================================

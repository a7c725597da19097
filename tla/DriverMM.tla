------------------------------ MODULE DriverMM ------------------------------
(* mdriver replays a trace against mm.c.                                   *)
EXTENDS MDriver, MMalloc

(* Always succeeds. *)
mm_init == 0

(* The call the current line makes, and mm.c's answer. *)
Answer == CASE line.type = "a" -> mm_malloc(line.size)
            [] line.type = "r" -> mm_realloc(blocks[line.index], line.size)
            [] line.type = "f" -> mm_free(FreedPtr)

Next == \/ BeginValid(mm_init)
        \/ \E base \in RandBases : ValidAlloc(Answer, base)
        \/ \E base \in RandBases : ValidRealloc(Answer, base)
        \/ ValidFree(Answer)
        \/ EndValid(mm_init)
        \/ UtilAlloc(Answer)
        \/ UtilRealloc(Answer)
        \/ UtilFree(Answer)
        \/ EndUtil(mm_init)
        \/ SpeedLine(Answer)
        \/ EndSpeed(mm_init)

Spec == DInit /\ [][Next]_dvars

(* No line asks for a size whose newsize wraps. *)
TracesFit == \A t \in Traces : \A k \in DOMAIN t : Fits(t[k].size)
-----------------------------------------------------------------------------
TypeOK ==
  /\ brk \in 0 .. MAX_HEAP
  /\ blocks \in [Ids -> 0 .. MAX_HEAP \cup {NULL}]
  /\ block_sizes \in [Ids -> Nat]
  /\ block_rand_base \in [Ids -> RandBases \cup {0}]
  /\ \A k \in DOMAIN ranges : ranges[k] \in [lo : Addresses, hi : Addresses, index : Ids]
  /\ errors \in Nat /\ total_size \in Int /\ max_total_size \in Nat
  /\ pc \in {"start", "valid", "util", "speed", "done", "app_error"}
  /\ i \in 1 .. Len(ops) + 1
  /\ valid \in {-1, 0, 1}

(* While a trace is checked, the range list holds exactly the extents of   *)
(* the non-empty blocks the trace holds, each once: add_range and          *)
(* remove_range keep up with allocations that fail, blocks that move and   *)
(* frees that leave blocks[] and block_sizes[] behind.                     *)
RangesAreHeldBlocks ==
  pc = "valid" /\ ~unchecked =>
    LET held == {d \in Held : block_sizes[d] > 0}
    IN  /\ Len(ranges) = Cardinality(held)
        /\ {ranges[k] : k \in DOMAIN ranges} =
             {[lo |-> blocks[d], hi |-> blocks[d] + block_sizes[d] - 1, index |-> d] : d \in held}

(* The driver never accuses mm.c: it reports an error only when the heap   *)
(* is too small for the line it stopped at.                                *)
NoFalseAccusation ==
  /\ errors <= 1
  /\ errors = 1 => /\ pc = "done" /\ valid = 0
                   /\ line.type \in {"a", "r"}
                   /\ mm_malloc(line.size).ret = NULL

(* The cheap check is enough for mm.c: between lines no held block ever    *)
(* differs from its random bytes, so DBG_EXPENSIVE finds nothing more.     *)
HeldBlocksKeepTheirBytes ==
  pc = "valid" /\ debug_mode # "none" =>
    \A d \in Held : ~Garbled(mem, blocks[d], block_sizes[d], block_rand_base[d])

(* A trace eval_mm_valid accepted runs to its end in eval_mm_util and in   *)
(* every timed run: app_error, which would end the whole driver and lose   *)
(* the results of every trace, is never reached.                           *)
AcceptedTraceNeverAborts == pc # "app_error"

(* The bytes of the blocks the trace holds. *)
HeldBytes == UNION {{d} \X (0 .. block_sizes[d] - 1) : d \in Held}

(* total_size is the number of bytes the trace holds, although a free      *)
(* leaves block_sizes[] as it was; its high-water mark never exceeds the   *)
(* heap size, so the utilization is at most 1 ("1 is optimal",             *)
(* mdriver.c:937).                                                         *)
UtilizationIsSound ==
  pc = "util" => /\ total_size = Cardinality(HeldBytes)
                 /\ max_total_size <= mem_heapsize
=============================================================================

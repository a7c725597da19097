----------------------------- MODULE DriverAny ------------------------------
(***************************************************************************)
(* mdriver checks a malloc package it knows nothing of: a student's, which *)
(* may hand out any pointer, extend the heap as it likes and copy too      *)
(* little in realloc, but writes only inside the block it returns.  What   *)
(* does it mean, then, that eval_mm_valid accepts a trace?  The driver     *)
(* compares bytes, and a byte of one block may well be that of another.    *)
(***************************************************************************)
EXTENDS MDriver

CONSTANTS Pointers,        \* what the package may return, besides NULL
          Breaks           \* where it may leave the break

ASSUME PackageAssumption == Pointers \subseteq Addresses /\ Breaks \subseteq 0 .. MAX_HEAP

VARIABLES damaged,         \* history: the driver's own fill changed a held block
          mended,          \* history: such a fill set a changed byte right again
          lost             \* history: an accepted realloc changed bytes it keeps

history == <<damaged, mended, lost>>
anyVars == <<dvars, history>>

AnyInit == DInit /\ damaged = FALSE /\ mended = FALSE /\ lost = FALSE

Returned(p, b, m) == [ret |-> p, brk |-> b, mem |-> m, crash |-> FALSE]

LaterBreaks == {brk} \cup {b \in Breaks : b > brk}

MallocAnswers == {Returned(p, b, mem) : p \in Pointers \cup {NULL}, b \in LaterBreaks}

(* realloc copies all of the old block, all but its last byte, or nothing. *)
ReallocAnswers(oldp, oldsize, size) ==
  LET Moved(p, n) == IF p = NULL THEN mem ELSE
        [a \in DOMAIN mem |-> IF p <= a /\ a < p + n THEN mem[oldp + (a - p)] ELSE mem[a]]
      kept == IF size < oldsize THEN size ELSE oldsize
  IN  {Returned(p, b, Moved(p, n)) :
         p \in Pointers \cup {NULL}, b \in LaterBreaks, n \in {0, kept - 1, kept}}

FreeAnswers == {Returned(NULL, b, mem) : b \in LaterBreaks}

(* Byte k of block d is not the random byte that was written there. *)
WrongByte(m, d, k) == m[blocks[d] + k] # Random(block_rand_base[d], k)

(* The line makes a byte of a block it is not about wrong, or right. *)
Damages == \E d \in Held \ {line.index} : \E k \in 0 .. block_sizes[d] - 1 :
             ~WrongByte(mem, d, k) /\ WrongByte(mem', d, k)

Mends   == \E d \in Held \ {line.index} : \E k \in 0 .. block_sizes[d] - 1 :
             WrongByte(mem, d, k) /\ ~WrongByte(mem', d, k)

Observed == /\ damaged' = (damaged \/ (valid' # 0 /\ Damages))
            /\ mended' = (mended \/ (valid' # 0 /\ Mends))

LosesBytes(r) ==
  \E k \in 0 .. line.size - 1 :
    k < block_sizes[line.index] /\ r.mem[r.ret + k] # mem[blocks[line.index] + k]

Alloc == \E base \in RandBases, r \in MallocAnswers :
           ValidAlloc(r, base) /\ Observed /\ UNCHANGED lost

Realloc == At("valid", "r") /\
           \E base \in RandBases,
              r \in ReallocAnswers(blocks[line.index], block_sizes[line.index], line.size) :
             /\ ValidRealloc(r, base) /\ Observed
             /\ lost' = (lost \/ (valid' # 0 /\ LosesBytes(r)))

Free == \E r \in FreeAnswers : ValidFree(r) /\ UNCHANGED history

InitAnswers == {0, -1}

Begin == \E r \in InitAnswers : BeginValid(r) /\ UNCHANGED history
End   == \E r \in InitAnswers : EndValid(r) /\ UNCHANGED history

AnyNext == Begin \/ Alloc \/ Realloc \/ Free \/ End

AnySpec == AnyInit /\ [][AnyNext]_anyVars
-----------------------------------------------------------------------------
AnyTypeOK ==
  /\ brk \in 0 .. MAX_HEAP
  /\ blocks \in [Ids -> Addresses \cup {NULL}]
  /\ \A k \in DOMAIN ranges : ranges[k] \in [lo : Addresses, hi : Addresses, index : Ids]
  /\ errors \in Nat
  /\ valid \in {-1, 0, 1}

(* What the range list really guarantees, whatever the package does: every *)
(* listed payload is aligned and below the break, and two of them share    *)
(* bytes only when the later one strictly contains the earlier one on both *)
(* sides.  ranges[j] is later than ranges[k] when j < k.                   *)
ListedRangesAreSound ==
  pc = "valid" => \A j \in DOMAIN ranges :
    /\ IS_ALIGNED(ranges[j].lo) /\ ranges[j].hi <= mem_heap_hi
    /\ \A k \in j + 1 .. Len(ranges) :
         \/ ranges[j].hi < ranges[k].lo \/ ranges[k].hi < ranges[j].lo
         \/ ranges[j].lo < ranges[k].lo /\ ranges[k].hi < ranges[j].hi

(* mdriver.c:535 skips the range list and will "just assume the overlap    *)
(* will be caught by writing random bits".  What that gives, with or       *)
(* without the list and whatever the bytes of random_data: in a trace that *)
(* frees all its blocks and is accepted without an error, no realloc       *)
(* changed a byte it keeps, and no block laid on a held one changed a byte *)
(* of it, unless a later line happened to write a changed byte's value     *)
(* back.  An overlap whose bytes coincide changes nothing and is not seen. *)
CleanTraceIsCorrect ==
  valid = 1 /\ errors = 0 /\ debug_mode # "none" /\ HeldAtEnd = {} =>
    ~lost /\ (damaged => mended)

=============================================================================

------------------------------ MODULE GetTrace ------------------------------
(***************************************************************************)
(* Malloc/malloclab-handout/traces/get-trace.c: an allocator that is put   *)
(* before a program's own, never gives memory back, and writes down every  *)
(* call.  The lines wait in a buffer until it is full or the program exits,*)
(* and are then written one by one; that a write may fail is left out, as  *)
(* clear_buffer leaves it out.  The program is one that uses the C library *)
(* as it may.                                                              *)
(***************************************************************************)
EXTENDS Integers, Sequences

CONSTANTS Sizes,           \* what the program asks malloc and realloc for
          CallocArgs,      \* and calloc: pairs
          BUFFER_LEN,
          MEMORY_LEN,      \* words of memory[]
          UIntModulus,     \* what %u prints of a size_t is below it
          MaxCalls         \* bound: calls of a program

Word == 8                  \* sizeof(*memory)

(* memory[] is 2^29 bytes, and an unsigned goes up to 2^32. *)
ASSUME GetTraceAssumption ==
  /\ Sizes \subseteq Nat /\ CallocArgs \subseteq Nat \X Nat
  /\ BUFFER_LEN \in Nat \ {0} /\ MaxCalls \in Nat
  /\ MEMORY_LEN \in Nat /\ UIntModulus \in Nat /\ Word * MEMORY_LEN < UIntModulus

VARIABLES
  phase,                   \* of the program, and of its trace afterwards
  blocks,                  \* what the program holds: call -> its address and size
  myheapend,               \* in words
  buffer, out,             \* lines not written yet, and the output file
  log                      \* history: the calls the program made

recorder == <<myheapend, buffer, out>>
program  == <<blocks, log>>

NULL == 0
Address(i) == i + 1        \* of memory[i]

RecInit ==
  /\ blocks = << >> /\ myheapend = 0 /\ buffer = << >> /\ out = << >> /\ log = << >>
-----------------------------------------------------------------------------
Line(fn, p, old, sz) == [fn |-> fn, p |-> p, old |-> old, size |-> sz]

Printed(sz) == sz % UIntModulus

\* mutant: the line that fills the buffer is written over by the next
mywrite_Late(l) ==
  /\ log' = Append(log, l) /\ UNCHANGED out
  /\ buffer' = IF Len(buffer) = BUFFER_LEN - 1 THEN buffer ELSE Append(buffer, l)
  /\ phase' = IF Len(buffer) = BUFFER_LEN - 1 THEN "flushing" ELSE "running"

mywrite(l) ==
  /\ log' = Append(log, l) /\ UNCHANGED out
  /\ buffer' = Append(buffer, l)
  /\ phase' = IF Len(buffer) + 1 = BUFFER_LEN THEN "flushing" ELSE "running"

(* (sz - 1) / 8 + 1 in size_t, added to an int: for 0 it is 2^61, whose   *)
(* lower half is 0, and the next block gets the same address.             *)
Words(sz) == (sz + Word - 1) \div Word

(* A block that ends within memory[].  A product of calloc that size_t cuts *)
(* is as large as it is: the program uses all of it.                       *)
Fits(sz) == Word * myheapend + sz <= Word * MEMORY_LEN

Take(sz) == Fits(sz) /\ myheapend' = myheapend + Words(sz)

without(u) == [v \in DOMAIN blocks \ {u} |-> blocks[v]]
with(f, p, sz) == [v \in DOMAIN f \cup {Len(log) + 1} |->
                     IF v \in DOMAIN f THEN f[v] ELSE [p |-> p, size |-> sz]]

Running == phase = "running" /\ Len(log) < MaxCalls

malloc(sz) ==
  LET p == Address(myheapend)
  IN  /\ Running
      /\ Take(sz) /\ blocks' = with(blocks, p, sz)
      /\ mywrite(Line("m", p, NULL, Printed(sz)))

(* Two numbers are printed, and multiplied by the converter. *)
calloc(sz1, sz2) ==
  LET p  == Address(myheapend)
      sz == sz1 * sz2
  IN  /\ Running
      /\ Take(sz) /\ blocks' = with(blocks, p, sz)
      /\ mywrite(Line("c", p, NULL, Printed(sz1) * Printed(sz2)))

(* A block is never resized in its place; with size 0 there is none. *)
Moved(rest, old, sz) ==
  LET p == IF sz = 0 THEN NULL ELSE Address(myheapend)
  IN  /\ IF sz = 0 THEN UNCHANGED myheapend ELSE Take(sz)
      /\ blocks' = IF sz = 0 THEN rest ELSE with(rest, p, sz)
      /\ mywrite(Line("r", p, old, Printed(sz)))

realloc(sz) ==
  /\ Running
  /\ \/ Moved(blocks, NULL, sz)
     \/ \E u \in DOMAIN blocks : Moved(without(u), blocks[u].p, sz)

free ==
  /\ Running
  /\ \/ blocks' = blocks /\ mywrite(Line("f", NULL, NULL, 0))
     \/ \E u \in DOMAIN blocks :
          blocks' = without(u) /\ mywrite(Line("f", blocks[u].p, NULL, 0))
  /\ UNCHANGED myheapend

(* A block past the end of memory[], in its use or as myheapend wraps: what *)
(* the program does from here is not defined.                              *)
Overrun ==
  /\ Running
  /\ \/ \E sz \in Sizes : ~Fits(sz)
     \/ \E a \in CallocArgs : ~Fits(a[1] * a[2])
  /\ phase' = "overrun"
  /\ UNCHANGED <<program, recorder>>

(* One turn of its loop; buffer is what the loop has left. *)
clear_buffer ==
  /\ phase \in {"flushing", "closing"} /\ buffer # << >>
  /\ out' = Append(out, Head(buffer)) /\ buffer' = Tail(buffer)
  /\ UNCHANGED <<phase, program, myheapend>>

Cleared ==
  /\ phase \in {"flushing", "closing"} /\ buffer = << >>
  /\ phase' = IF phase = "flushing" THEN "running" ELSE "exited"
  /\ UNCHANGED <<program, recorder>>

(* The handler init gave to atexit; a signal, or _exit, skips it. *)
clear_buffer_and_close ==
  /\ phase = "running"
  /\ phase' = "closing"
  /\ UNCHANGED <<program, recorder>>

Killed ==
  /\ phase \in {"running", "flushing", "closing"}
  /\ phase' = "killed"
  /\ UNCHANGED <<program, recorder>>

RecNext ==
  \/ \E sz \in Sizes : malloc(sz) \/ realloc(sz)
  \/ \E a \in CallocArgs : calloc(a[1], a[2])
  \/ free \/ Overrun \/ clear_buffer \/ Cleared \/ clear_buffer_and_close \/ Killed
-----------------------------------------------------------------------------
(* The file holds the program's calls in their order, all of them when the  *)
(* program exits, and all but the last BUFFER_LEN or fewer when it is killed,*)
(* be that in the middle of the writing: fewer, if it made a call since.     *)
NoCallIsLost ==
  /\ out \o buffer = log
  /\ Len(buffer) <= BUFFER_LEN /\ (phase = "running" => Len(buffer) < BUFFER_LEN)
  /\ phase = "exited" => out = log
=============================================================================

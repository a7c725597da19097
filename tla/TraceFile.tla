----------------------------- MODULE TraceFile ------------------------------
(***************************************************************************)
(* The way of a trace to the driver, all under Malloc/malloclab-handout/:  *)
(* the calls get-trace.c recorded, traces/convert-exec-trace-to-rep, which *)
(* turns addresses into ids, traces/checktrace.pl, which may append the    *)
(* missing frees, and mdriver.c's read_trace, which also reads the traces  *)
(* written by hand.                                                        *)
(***************************************************************************)
EXTENDS GetTrace, FiniteSets, SequencesExt

CONSTANTS HandWritten,     \* files: [weight, num_ids, num_ops, ignore_ranges, lines]
          Garbage          \* what an int that was never set may hold

(* %d and %u read numbers, and a trace is malloc'ed num_ops operations. *)
ASSUME TraceFileAssumption ==
  /\ HandWritten \subseteq [weight : Int, num_ids : Int, num_ops : Nat, ignore_ranges : Int,
                            lines : Seq([type : STRING, fields : Seq(Int)])]
  /\ Garbage \subseteq Int

VARIABLES
  pointers, ids_used, outlines,   \* the converter: ids of the addresses in use, their number, its output
  file, recorded,          \* the trace file; does it come from the recorder?
  HASH, linenum,           \* checktrace.pl: the ids allocated and not freed, and the lines it read
  trace,                   \* read_trace's ops
  index, size, max_index, op_index

converter == <<pointers, ids_used, outlines>>
checker   == <<HASH, linenum>>
reader    == <<trace, index, size, max_index, op_index>>
traceVars      == <<phase, blocks, myheapend, buffer, out, log, converter, file, recorded, checker, reader>>

NoFile == [weight |-> 0, num_ids |-> 0, num_ops |-> 0, ignore_ranges |-> 0, lines |-> << >>]

(* A line of a trace: a word, and the numbers after it. *)
Op(t, fields) == [type |-> t, fields |-> fields]

TraceInit ==
  /\ RecInit
  /\ \/ phase = "running" /\ recorded = TRUE /\ file = NoFile
     \/ phase = "file" /\ recorded = FALSE /\ file \in HandWritten
  /\ pointers = << >> /\ ids_used = 0 /\ outlines = << >>
  /\ HASH = {} /\ linenum = 0
  /\ trace = << >> /\ index = 0 /\ size = 0 /\ max_index = 0 /\ op_index = 0
-----------------------------------------------------------------------------
(* convert-exec-trace-to-rep.                                              *)

undef == -1                \* also the id of free(NULL)

(* A file that is not there reads as one without lines. *)
StartConvert ==
  /\ phase \in {"exited", "killed"}
  /\ phase' = "converting"
  /\ pointers' = [p \in 0 .. Address(myheapend) |-> undef]
  /\ UNCHANGED <<program, recorder, ids_used, outlines, file, recorded, checker, reader>>

(* The script dies and prints nothing. *)
Die == phase' = "died" /\ UNCHANGED converter

FromAllocation(l) ==
  /\ l.fn \in {"m", "c"}
  /\ IF pointers[l.p] # undef THEN Die
     ELSE /\ pointers' = [pointers EXCEPT ![l.p] = ids_used] /\ ids_used' = ids_used + 1
          /\ outlines' = Append(outlines, Op("a", <<ids_used, l.size>>))
          /\ UNCHANGED phase

\* mutant: the old address stays allocated
FromReallocation_KeepsOld(l) ==
  LET known == pointers[l.old] # undef
      id    == IF known THEN pointers[l.old] ELSE ids_used
  IN  /\ l.fn = "r"
      /\ IF (l.old # NULL /\ ~known) \/ (l.p # l.old /\ pointers[l.p] # undef) THEN Die
         ELSE /\ pointers' = [pointers EXCEPT ![l.p] = id]
              /\ ids_used' = IF known THEN ids_used ELSE ids_used + 1
              /\ outlines' = Append(outlines, Op("r", <<id, l.size>>))
              /\ UNCHANGED phase

FromReallocation(l) ==
  LET known == pointers[l.old] # undef
      id    == IF known THEN pointers[l.old] ELSE ids_used
  IN  /\ l.fn = "r"
      /\ IF (l.old # NULL /\ ~known) \/ (l.p # l.old /\ pointers[l.p] # undef) THEN Die
         ELSE /\ pointers' = IF l.p = l.old THEN pointers
                             ELSE [pointers EXCEPT ![l.p] = id, ![l.old] = undef]
              /\ ids_used' = IF known THEN ids_used ELSE ids_used + 1
              /\ outlines' = Append(outlines, Op("r", <<id, l.size>>))
              /\ UNCHANGED phase

FromFree(l) ==
  /\ l.fn = "f"
  /\ IF l.p # NULL /\ pointers[l.p] = undef THEN Die
     ELSE /\ pointers' = [pointers EXCEPT ![l.p] = undef] /\ UNCHANGED ids_used
          /\ outlines' = Append(outlines, Op("f", <<pointers[l.p]>>))
          /\ UNCHANGED phase

(* Every line it reads gives one line of the trace. *)
ConvertLine ==
  LET l == out[Len(outlines) + 1]
  IN  /\ phase = "converting" /\ Len(outlines) < Len(out)
      /\ FromAllocation(l) \/ FromReallocation(l) \/ FromFree(l)
      /\ UNCHANGED <<program, recorder, file, recorded, checker, reader>>

Convert ==
  /\ phase = "converting" /\ Len(outlines) = Len(out)
  /\ phase' = "file"
  /\ file' = [weight |-> 0, num_ids |-> ids_used, num_ops |-> Len(outlines),
              ignore_ranges |-> 0, lines |-> outlines]
  /\ UNCHANGED <<program, recorder, converter, recorded, checker, reader>>
-----------------------------------------------------------------------------
(* checktrace.pl.                                                          *)

CheckLine ==
  LET l  == file.lines[linenum + 1]
      id == l.fields[1]
  IN  /\ phase \in {"file", "checking"} /\ recorded /\ linenum < Len(file.lines)
      /\ IF (l.type = "a") = (id \in HASH)
           THEN phase' = "died" /\ UNCHANGED checker
           ELSE /\ phase' = "checking" /\ linenum' = linenum + 1
                /\ HASH' = CASE l.type = "a" -> HASH \cup {id}
                             [] l.type = "f" -> HASH \ {id}
                             [] l.type = "r" -> HASH
      /\ UNCHANGED <<program, recorder, converter, file, recorded, reader>>

\* mutant: the header keeps the old number of operations
Balance_OldCount ==
  LET frees == [i \in 1 .. Cardinality(HASH) |-> Op("f", <<SetToSeq(HASH)[i]>>)]
  IN  /\ phase = "checking" /\ linenum = Len(file.lines)
      /\ phase' = "balanced"
      /\ file' = [file EXCEPT !.lines = @ \o frees]
      /\ UNCHANGED <<program, recorder, converter, recorded, checker, reader>>

(* The frees that are missing are appended. *)
Balance ==
  LET frees == [i \in 1 .. Cardinality(HASH) |-> Op("f", <<SetToSeq(HASH)[i]>>)]
  IN  /\ phase = "checking" /\ linenum = Len(file.lines)
      /\ phase' = "balanced"
      /\ file' = [file EXCEPT !.num_ops = @ + Len(frees), !.lines = @ \o frees]
      /\ UNCHANGED <<program, recorder, converter, recorded, checker, reader>>
-----------------------------------------------------------------------------
(* read_trace. *)

(* The header; size is not set before the first line that has one. *)
Open ==
  /\ phase \in {"file", "balanced"}
  /\ IF {file.weight, file.ignore_ranges} \subseteq {0, 1} THEN phase' = "reading"
     ELSE phase' = "rejected"
  /\ size' \in Garbage
  /\ UNCHANGED <<program, recorder, converter, file, recorded, checker,
                 trace, index, max_index, op_index>>

\* mutant: reads the index anew only for a and r
field_NoFree(l, k, old) == IF l.type # "f" /\ k <= Len(l.fields) THEN l.fields[k] ELSE old

(* fscanf leaves a variable alone when the number is missing. *)
field(l, k, old) == IF k <= Len(l.fields) THEN l.fields[k] ELSE old

(* A number more than the line should have is the next "type". *)
Surplus == op_index > 0 /\ LET l == file.lines[op_index]
                           IN  Len(l.fields) > IF l.type = "f" THEN 1 ELSE 2

(* One line: the operation is stored before op_index is compared, and with *)
(* num_ops 0 there is no room for it.                                      *)
ReadLine ==
  LET l == file.lines[op_index + 1]
      i == field(l, 1, index)
      z == IF l.type = "f" THEN size ELSE field(l, 2, size)
  IN  /\ phase = "reading" /\ op_index < Len(file.lines)
      /\ ~Surplus
      /\ \/ l.type \notin {"a", "r", "f"} /\ phase' = "rejected" /\ UNCHANGED reader
         \/ l.type \in {"a", "r", "f"} /\ file.num_ops = 0
            /\ phase' = "undefined" /\ UNCHANGED reader
         \/ /\ l.type \in {"a", "r", "f"} /\ file.num_ops # 0
            /\ trace' = Append(trace, [type |-> l.type, index |-> i, size |-> z])
            /\ index' = i /\ size' = z
            /\ max_index' = IF l.type # "f" /\ i > max_index THEN i ELSE max_index
            /\ op_index' = op_index + 1
            /\ phase' = IF op_index' = file.num_ops THEN "read" ELSE "reading"
      /\ UNCHANGED <<program, recorder, converter, file, recorded, checker>>

ReadSurplus ==
  /\ phase = "reading" /\ Surplus
  /\ phase' = "rejected"
  /\ UNCHANGED <<program, recorder, converter, file, recorded, checker, reader>>

AtEOF ==
  /\ phase = "reading" /\ op_index = Len(file.lines) /\ ~Surplus
  /\ phase' = "read"
  /\ UNCHANGED <<program, recorder, converter, file, recorded, checker, reader>>

Asserts ==
  /\ phase = "read"
  /\ phase' = IF max_index = file.num_ids - 1 /\ file.num_ops = op_index
                THEN "ready" ELSE "aborted"
  /\ UNCHANGED <<program, recorder, converter, file, recorded, checker, reader>>

TraceNext == \/ RecNext /\ UNCHANGED <<converter, file, recorded, checker, reader>>
        \/ StartConvert \/ ConvertLine \/ Convert \/ CheckLine \/ Balance \/ Open \/ ReadLine
        \/ ReadSurplus \/ AtEOF \/ Asserts

TraceSpec == TraceInit /\ [][TraceNext]_traceVars
-----------------------------------------------------------------------------
(* The lines whose block a trace holds at its end: those that give their id *)
(* a block and are the last about it.                                      *)
GivesBlock(l) == l.type = "a" \/ (l.type = "r" /\ l.fields[2] # 0)

HeldLines(lines) ==
  {k \in 1 .. Len(lines) : /\ GivesBlock(lines[k])
                           /\ \A j \in k + 1 .. Len(lines) : lines[j].fields[1] # lines[k].fields[1]}

(* A trace the converter does not refuse holds at its end the blocks the     *)
(* program held when it exited, each given by the line of the call that made *)
(* it, whatever addresses were used twice; and the converter refuses none of *)
(* a program that asks for no block of size 0.                               *)
ConvertedTraceIsTheProgram ==
  /\ phase = "file" /\ recorded /\ out = log
       => /\ HeldLines(file.lines) = DOMAIN blocks
          /\ \A u \in DOMAIN blocks : file.lines[u].fields[2] = blocks[u].size
  /\ phase = "died" /\ file = NoFile
       => \E i \in 1 .. Len(log) : log[i].fn # "f" /\ log[i].size = 0

(* A recorded trace that has a block, balanced or not, is one the driver     *)
(* reads; and once balanced it frees, as far as its header says it goes,     *)
(* every block it allocates.                                                 *)
RecordedTraceIsRead ==
  /\ recorded /\ file.num_ids > 0 => phase \notin {"rejected", "aborted", "undefined"}
  /\ phase = "balanced" => HeldLines(SubSeq(file.lines, 1, file.num_ops)) = {}

(* What read_trace returns is the file: the operations of its first num_ops *)
(* lines, with every number that is there; and no allocation has an index   *)
(* past the arrays.                                                         *)
ReadTraceIsTheFile ==
  phase = "ready" =>
    /\ Len(trace) = file.num_ops /\ file.num_ops <= Len(file.lines)
    /\ \A i \in 1 .. Len(trace) :
         LET l == file.lines[i]
         IN  /\ trace[i].type = l.type
             /\ l.fields # << >> => trace[i].index = l.fields[1]
             /\ l.type # "f" /\ Len(l.fields) >= 2 => trace[i].size = l.fields[2]
             /\ l.type # "f" => trace[i].index < file.num_ids
=============================================================================

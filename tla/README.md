# Verification of MCNL_2022_study

TLA+ models of the programs of this repository, TLC configurations that model-check them on
small instances, and theorems about them that TLAPS proves for every value of the constants.

The repository is a collection of course work. The parts with a logic of their own are

* a **malloc lab** (`src/Malloc/malloclab-handout`, called *ML* below): an allocator, the simulated
  heap it lives in, the driver that replays traces against it, checks it, measures it, scores it and
  submits the score, and the tools that record and convert the traces;
* a **word suggestion** program (`src/Trie/homework1_trie`) and the **search server and client**
  that put it on a TCP connection (`src/Network/homework_3`);
* **tree exercises**: a red-black tree map and two segment trees.

To check everything here: `tlc -config X.cfg M` for the runs of section 4, `tlapm X.tla` on each of
`MMallocProofs`, `MMProofs`, `DriverProofs`, `DriverRunProofs`, `FcycProofs`, `TreeProofs`, `RBMapProofs` and
`RBLossProofs` for the proofs of section 6. `PROJECT.json`
relates each definition to the source lines it stands for, each property to a plausible bug that breaks it
(the definitions marked *mutant* in the modules), and each hazard of the code to the properties that
watch it.

## 1. Inventory

| component | state | operations | talks to |
|---|---|---|---|
| *ML*`/memlib.c` | `heap`, `mem_brk`, `mem_max_addr` | `mem_init`, `mem_sbrk`, `mem_reset_brk`, heap bounds | called by `mm.c` and `mdriver.c` |
| *ML*`/mm.c` | none: a size word before each block, in the heap | `malloc`, `free`, `realloc`, `calloc` | calls `mem_sbrk`; called by the driver |
| *ML*`/mdriver.c`, one trace | `trace_t` (ops, `blocks`, `block_sizes`, `block_rand_base`), the range list, `errors`, `mm_stats` | `eval_mm_valid`, `eval_mm_util`, `eval_mm_speed`, `add_range`, `remove_range`, `randomize_block`, `check_index` | calls `mm.c`; resets `memlib` |
| *ML*`/mdriver.c`, the run | `timed_out`, `timeout_jmpbuf`, `errors`, the statistics of all traces, the SIGALRM timer (*ML*`/driverlib.c`) | `main`, `run_tests`, `timeout_handler`, `init_timeout` | the trace part; `fcyc`; the kernel's timer |
| *ML*`/mdriver.c:read_trace` | a trace | parse a `.rep` file | reads what the two tools below write, or a file written by hand |
| *ML*`/traces/get-trace.c` | `myheapend`, the line buffer, the output file | `malloc`, `calloc`, `realloc`, `free`, the `atexit` handler | preloaded under any program |
| *ML*`/traces/*convert-exec-trace-to-rep*, *checktrace.pl* | address to id; ids held | convert a recorded trace; append missing frees | between `get-trace.c` and `read_trace` |
| *ML*`/fcyc.c` | `values`, `samplecount` | `init_sampler`, `add_sample`, `has_converged`, `fcyc` | times `eval_mm_speed` with `clock.c` |
| *ML*`/clock.c` | the counter's start, `cyc_per_tick`, `start_tick` | start and read the counter, compensate for timer interrupts, calibrate | hardware counter, `times` |
| *ML*`/driverlib.c`, submission | the `rio` buffer, the request | `rio_read`, `rio_readlineb`, `rio_writen`, `urlencode`, `submitr`, `driver_post` | a grading server |
| *ML*`/ftimer.c`, `fsecs.c` | none | averages of system timers | chosen by `config.h` |
| `Trie/homework1_trie/trie.cpp` | the trie, `pq`, `queryStr`, the screen | `insert`, `find`, `traversal`, `search`, `DeleteChar`, the keystroke loop | `data.txt`, the terminal |
| `Network/homework_3/search_server.cpp` | trie, `pq`, `typedWord` | load, then read a query / write ten strings | the client, over TCP |
| `Network/homework_3/search_client.cpp` | `queryStr`, `array` | a key, a request, one read, a redraw | the server, over TCP |
| `Red-Black tree/homework2/rb.cpp` | nodes with parent pointers, `head` | `insert`, `operator[]`, `find`, `erase`, iterator | its own `main` |
| `Segment_tree/basic`, `Segment_tree/min` | an array of sums or minima | construct, query, update | none |
| `Red-Black tree/rb.cpp`, `Trie/basic/trie.cpp`, `Trie/26.2 문제/Dolphin.cpp` | a tree | insert, find | none |

What makes each hard, and what makes it correct:

* **The allocator** trusts a size word that lies in the very memory its callers write, computes the size
  of a block in an `int`, and has two ways of failing (`mem_sbrk` refuses; a caller does not look).
  Correct means: blocks lie inside the heap, apart from one another and from every size word; the size
  `realloc` reads is the one asked for; contents survive other calls; a failing call changes nothing.
* **The driver's replay** keeps a second account of the heap (range list, `blocks`, `block_sizes`, random
  bytes) that frees and failing calls leave partly stale, and replays a trace three times over one heap.
  Correct means: the account agrees with the blocks really held, a good package is never accused, and an
  accepted trace means something about a bad one.
* **The driver's run** is interrupted by SIGALRM at any instruction and leaves the handler by `longjmp`.
  Correct means: what is scored at the end was measured, nothing from the interrupted trace on counts as
  valid, and with `-s` a package that never returns is cut off and the results are reported.
* **A trace** passes through three programs that each keep an account of the blocks of their own, by
  address, by id, by array index. Correct means: the trace the driver runs holds the blocks the recorded
  program held, no call is lost in the recorder's buffer, and a bad file is not run.
* **Timing** reads a counter of two halves that wrap, while timer interrupts fall between any two reads,
  keeps the K smallest measurements in a sorted table and decides when to stop. Correct means: the
  subtraction gives the elapsed cycles, no interrupt of the measured function stays in its time, the table
  holds the smallest measurements, and the smallest is returned.
* **Submission** talks to a server whose answer arrives in pieces, with interrupted, short and failing
  calls on the way. Correct means: the verdict follows from what the server said, neither the request nor a line of the
  answer goes past `buf`, and the driver ends when the server is gone.
* **The suggestion program** reuses a queue and a screen from key to key, reads its data with a `feof`
  loop whose lines are whatever stands before a number, and indexes `children[]` with whatever was typed. Correct means: the screen shows the most
  frequent words that begin with the line, whatever was typed and deleted before.
* **Server and client** read from each other without framing, and the server's queue and buffer outlive a
  query. Correct means: neither waits for ever, and what is drawn answers what was typed.
* **The map** relinks nodes in several places without telling every pointer to them, and deletes nodes
  others still point to. Correct would mean: it holds the keys given to it. What is true is weaker, and
  the point of the model is to say how much weaker.
* **The segment trees** recurse over two index spaces, nodes and ranges, and `rmq.cpp` takes the length
  from a global. Correct means: a query gives the sum or the minimum of its range.

## 2. Modules

| module | models | extends |
|---|---|---|
| `Memlib` | `memlib.c`: break and bytes of the mapping | |
| `MMalloc` | `mm.c`: each call as an operator giving result, break, bytes and whether it crashed | `Memlib` |
| `MMClient` | any program that uses `mm.c` by the rules of malloc | `MMalloc` |
| `AllocatorSpec` | what any malloc package promises: blocks with sizes and contents | |
| `MMallocProofs` | what each call of `mm.c` does to the heap it finds | `MMalloc` |
| `MMProofs` | proofs about `MMClient`, and that it implements `AllocatorSpec` | `MMClient`, `MMallocProofs` |
| `MDriver` | `mdriver.c` on one trace; the package's answers are parameters of the actions | `Memlib` |
| `DriverMM` | `MDriver` with `mm.c` under test | `MDriver`, `MMalloc` |
| `DriverAny` | `MDriver` with a package that may answer anything | `MDriver` |
| `DriverProofs` | proofs about `DriverAny` and `DriverMM`, and that an accepted trace never aborts a later replay | `DriverMM`, `DriverAny`, `MMallocProofs` |
| `DriverRun` | `main` and `run_tests` over all traces, with SIGALRM | |
| `DriverRunProofs` | proofs about `DriverRun`, `Submit`, `GetTrace` and `TraceFile`, one after the other | `DriverRun`, `Submit`, `TraceFile` |
| `GetTrace` | `get-trace.c` under a program | |
| `TraceFile` | the recorded calls' way through converter, balancer and `read_trace`; files written by hand | `GetTrace` |
| `KBest` | `fcyc.c`, a measurement being one step | |
| `Fcyc` | `fcyc.c` over `clock.c`, a measurement being taken step by step | `KBest` |
| `FcycProofs` | proofs about `KBest` and `Fcyc` | `Fcyc` |
| `Submit` | `driverlib.c`'s submission and the server | |
| `Trie` | the dictionary and the queue of suggestions | |
| `WordList` | what both programs do: reading `data.txt` into the trie, editing the line | `Trie` |
| `Suggest` | the suggestion program | `WordList` |
| `SearchNet` | search server, client and the connection | `WordList` |
| `RBMap` | `my_map` of `homework2/rb.cpp` | |
| `RBMapProofs` | proofs about `RBMap` as long as no keys were lost | `RBMap` |
| `RBLossProofs` | proofs about what `RBMap` is left with when keys were lost | `RBMapProofs` |
| `SegmentTrees` | `segmentTree.c` and `rmq.cpp` | |
| `TreeProofs` | proofs about `Suggest`, `SearchNet` and `SegmentTrees` | `Suggest`, `SearchNet`, `SegmentTrees` |
| `MC*` | instances for TLC: small sets given as definitions | the module checked |

### Memlib, MMalloc, MMClient, AllocatorSpec

An address is its distance from the start of the mapping. `brk` is `mem_brk` and `mem` gives every byte of
the mapping. `MMalloc`'s operators follow the code's order: `mm_malloc` calls `mem_sbrk`, tests for the
error value, stores the size word; `mm_realloc` tests `size == 0`, then `oldptr == NULL`, allocates, reads
the old size word *after* the new one was written, and copies. Sizes go through `ALIGN`, `size_t`
arithmetic modulo `SizeModulus` and the conversion to the `int` `newsize` modulo `IntModulus`. A size is
kept in the first byte of its word, the other seven being zero, so the sizes of an instance are small and
the theorem's are any natural number; the word is still eight bytes that a stray write would hit. The
pages of the mapping are zero at first and `mem_reset_brk` leaves them as they are.

`MMClient`'s `live` is what the *program* knows: the pointers it holds and the sizes it asked for. Its
actions are the four calls, `Write` (the program fills a block it holds) and `Reset` (what the driver does
before each pass). `AllocatorSpec` knows nothing of a heap: it has blocks with sizes and bytes, and says
what each call may do to them. `MMClient!Abstract` reads the abstract bytes out of `mem`; a call that
fails maps to a stuttering step, so a failing `realloc` must leave its block.

### MDriver, DriverMM, DriverAny

One action is one line of the trace in one of the three functions that replay it: `Valid*`, `Util*`,
`SpeedLine`; `BeginValid`, `EndValid`, `EndUtil` and `EndSpeed` are what happens between. Each takes the
package's answer `r` and models the whole handler: the check before the line in expensive mode, the check
of the block, `add_range` and `remove_range`, the random bytes, the counters, and each early return with
what was already changed by then (a refused `realloc` has already lost its range). `ranges` is the range
list from its head. `random_data` is any table of bytes, so that bytes of different blocks may be equal, and
`random()` chooses where in it a block starts. `mm_init`'s result is an answer too: when it is negative, the validity pass
rejects the trace and the two later passes end the driver.
`Traces` are the traces `LegalTrace` accepts, as the trace files and `traces/checktrace.pl` have them.

In `DriverMM` the answers are `MMalloc`'s. In `DriverAny` the package may return any pointer of a set,
move the break as it likes and have `realloc` copy everything, all but one byte, or nothing; what it may
not do is write outside the block it returns. Three history variables let the properties say what an accepted
trace is worth: `damaged`, that the driver, filling one block, changed a byte of another it holds; `mended`, that such a fill
wrote a changed byte's value back; `lost`, that an accepted `realloc` changed a byte it keeps. An overlap
in which all bytes coincide changes nothing, and no byte can tell of it.

### DriverRun

`pc` is the place in `main` or `run_tests`, `i` the loop variable of either. Evaluating one trace is one
step with every outcome the code allows: accepted with or without errors, rejected, `app_error`, a crash of
the package, or a call that never returns (`hung`). `Alarm` may happen between any two steps while the
timer is set and calls the handler installed at that moment: that of `init_timeout`, which exits, or
`timeout_handler`, which sets `errors`, jumps to the last `setjmp` and so continues at the reading of the
trace with `i` unchanged. `jmpbuf` records whether there is a frame to jump to. `cut` is a history
variable: the trace the timeout fell on. `Post` either ends the run (with `-A`, or without a connection) or leaves the driver
waiting for the server (`posting`); `Answered` is the server's step, and nothing makes it happen. A jump out of the middle of the package's work does no harm here, as
after it no trace is evaluated; what it does to libc's own heap, from which `read_trace` allocates, is not modelled.

### GetTrace, TraceFile

`GetTrace` is the recorder under a program that uses the C library as it may: it holds blocks, frees and
resizes only those, and exits or is killed. Addresses are words of `memory[]`; the shift and the word count of
`malloc` are kept, so that a size of 0 gives a block the next block's address. A program whose blocks go past the end of
`memory[]` leaves the model (`Overrun`): the recorder hands such a block out and nothing is defined from there. A size is
printed with `%u`, that is modulo 2^32 (`Printed`). `clear_buffer` writes one line per step, when the buffer is full and at
the exit, and the program may be killed between two of them. `log` is the history of
calls that the trace is compared with. `TraceFile` continues when the program has ended, one line of a file per
step. `ConvertLine` is a turn of the converter's loop, with its table `pointers` from addresses to ids, the
number of ids given out and the lines collected for printing; the script may die at any line, and prints its header and
lines only at the end (`Convert`). `CheckLine` is a turn of `checktrace.pl` with its table `HASH`, and `Balance`
appends the frees of what is left in it. `Open`, `ReadLine`, `AtEOF` and `Asserts` are `read_trace`. `fscanf`'s results are not checked
by the code, so a field that is missing leaves `index` or `size` as it was, and `size` starts with
whatever was on the stack (`Garbage`). A number left over at the end of a line is scanned as the type of the next one, of
which there is no such type (`ReadSurplus`). With `num_ops` 0 the store goes past `ops`: `undefined`. The same
reader is also given files written by hand, with every combination of wrong counts, ids and lines.

### KBest, Fcyc

`add_sample` is the shift to the left of the code's insertion sort, as the one permutation it ends in. The
convergence test is kept as the code has it: a multiplication, which compares the other way round for negative
values. Measurements are integers (the compensation for timer ticks makes them negative), `epsilon` a fraction.

`Fcyc` takes each measurement apart: `start_comp_counter` reads the ticks, then the counter; the function
runs; `get_comp_counter` reads the counter, then the ticks; `callibrate` samples the cost of an interrupt
first, reading ticks and counter in the same way. `Elapse` lets cycles and one timer interrupt pass before any of these steps. `Base` stands for
2^32. A measurement is in `Unit`-ths of a cycle, because the cost of a tick is a quotient. That `Fcyc` does what
`KBest` says is the refinement `MeasuresAsKBest`, with no mapping needed: `KBest`'s variables are among `Fcyc`'s.

### Submit

`stage` is the place in `submitr`; each call of `rio_readlineb` is a series of `TakeByte` steps, with `Refill`,
`Interrupted`, `ReadFails` and `EndOfStream` for the outcomes of the `read` in `rio_read`. An answer is a
sequence of bytes of which only those are told apart that the code looks at: a status code, CR, LF, "OK",
others. The server sends its bytes and closes at any point, also before the request is complete. What
`submitr` allocates for the request (`req_size`) and what it writes (`Encoded`) are kept apart, as in the
code. `taken` is the history of bytes that `rio_read` handed out.

### Trie, WordList, Suggest, SearchNet

A node is the path of `children[]` indexes that leads to it, so a trie is a function from paths to fields;
`insert`, `find` and `traversal` are then the prefixes of a path, the longest prefix present, and the
terminal nodes with a given prefix. `find` gives the *set* of things the code may return, because an
index outside of `children[]` (a typed space gives -65) reads memory next to the array: NULL, any node,
or a pointer that cannot be followed. The priority queue is a bag from which `TopWords` pops in order of
frequency, equal frequencies in any order. `insert`, given a char that is not a letter, writes such a pointer itself. In
the outcome it describes, that memory belongs to nothing else: the new nodes then hang where `find` and `insert` come to them, but
not `traversal`, whose loop goes through `children[]` alone. The other outcomes, a crash and memory of which nothing
is said, are `AfterLoad`'s.

`WordList` is what the suggestion program and the server have in common. `Load` is one turn of the `feof` loop,
including the extra turn after a final newline. The scan `%[^0-9]` stops at a digit only, so the lines of the model are the texts up to a
number, wherever the line ends of the file are: in `Network/homework_3/data.txt` line 52 has no number and line 159 has a space after
it, and the loop reads "delivery service" and "deal" as one text with a newline in it, and a newline and "profiling" as another.
`Dictionary` and `FreqOf` are what the file says, whatever the trie does: its words are the texts that consist of letters
once their spaces are dropped.
`Suggest` is `main`: `LoadLine` is a turn of that loop; `Type` and `Backspace` end in `Refresh`, everything the loop body does for an accepted key.
`SearchNet` has one action per blocking step of each process. The stream to the server carries chars,
the one to the client `std::string` objects. `Read` is the kernel's `read`: any first part of what is in
flight, and *short* when it could have returned more. `typedWord` is terminated by the first read only, so later queries may run
on into older text. Either process may end at any point (`Quit`, a crash, SIGPIPE), and the other then
sees the end of the stream or loses its writes.

### RBMap

A node is the number of the call of `new` that made it; `m` holds `head` and all fields, including those of
nodes that nothing reaches any more. The code's mirrored branches are one definition with the side as a parameter, and
where the two branches differ the definition says so. `insert` is the search down, `Attach` (the cases of uncle
and bend, with the relinking the code does and does not do) and the way back up (`Unwind`, one step for each node of
the path). `erase` has the code's six cases. A call that reads a deleted node, or NULL, ends in `undefined` or `crash`.
`intact` is a history variable: it becomes false with the first call that loses nodes or leaves a pointer to a former
parent (`LosesNodes`), or that is not one of the erasures the code gets right (`Erasable`). Loops and recursive calls are
recursive functions over the number of steps, at most `MaxNodes`: where nodes hang in a tree, none takes more.

### SegmentTrees

The recursive functions of the two files, with nodes numbered as there. Each is a recursive function over `Cells`: a cell is
the arguments `start`, `end` and `node` of a call, and the function's value there is what the call returns, or, for `init` and
`update`, the tree after the call as a function of the tree before it. `Cells(k)` has every triple in which the node is small enough for its
range, the whole range at node 1 and both halves of each of its cells among them. A tree has the code's 4n nodes.
The code leaves it to the compiler which operand of `init(...) + init(...)` runs first; the model fills the lower half first, and
since each half's call writes below its own node only, the other order gives the same tree. `array` and `given` are what the trees
are compared with. `main`'s direct write to the vector in `rmq.cpp`, which the tree is not told of, is not
an operation of the tree and is left out.

## 3. What is abstracted

* Printing, colours, cursor positions, ncurses and messages; `currentWord` in `trie.cpp`, which is computed
  and never used; the values stored in the map; `ovhd` and `mhz` in `clock.c`, which no measurement uses.
* A size is held by the first byte of its word: every size of an instance fits a byte.
* `word[]` of a trie node is not terminated by the code (`trie.cpp:83`); here a word ends where it should.
* Words and queries fit `std::string`'s inline buffer. Longer ones put a pointer of the server's
  into the stream, which means nothing to the client.
* Errors of socket set-up in the search programs, which neither checks.
* `mm_checkheap` does nothing in `mm.c`, and nor does `mm_init`, which returns 0; any other package's `mm_init` may also
  return -1 in `MDriver`. `mem_deinit` and `mem_pagesize` are never
  called while a trace runs.
* A `write` of `get-trace.c` that fails or is cut short: `clear_buffer` ignores its result (`get-trace.c:84`).
* The `sprintf` of a server's reason into `status_msg` (`driverlib.c:272`): a reason that does not fit, or is not there to be
  scanned, is undefined in C; in `Submit` a bad status line fails, and that is all.
* A tree of which a *lost* node still points to a deleted one ends as `"undefined"` in `RBMap`, like one where a reached node does
  (`Dangling`), though nothing may ever come to that pointer. This takes an erasure below lost nodes, in maps of about eight.
* A program that forks under `get-trace.c`: both processes then own a copy of the buffer.
* The text of a request is its length, and of a result only how its characters are encoded; of an answer only
  what `submitr` looks at is kept.
* In `KBest`, that the measured function returns. That it may not is in `DriverRun`.

## 4. Runs

Every run finishes within five minutes with `-workers 2`. Deadlock is checked where the program can always go on
(`fcyc`, `segment_trees`). Elsewhere the program really stops, or its instance runs out of the steps it is given
(`rb_map`: out of nodes; `mm_client`: after a crash), and the configuration says so.

| run | instance | distinct states | shows |
|---|---|---|---|
| `mm_client` | heap of 44 bytes; sizes 8, 9, and 0 by `calloc` | 25 536 | blocks stay apart, sizes intact, no address is handed out twice, `calloc` on a full heap is the only crash, and `mm.c` implements `AllocatorSpec` |
| `driver_mm` | heap of 52 bytes, two ids, every legal trace of up to 4 lines, 3 debug modes, both values of `ignore_ranges` | 1 251 770 | the range list is the blocks held, `mm.c` is never accused, the cheap check suffices, an accepted trace never aborts the later replays, utilization is the bytes held and at most 1 |
| `driver_any` | heap of 16 bytes, pointers 0, 4, 8, traces of up to 5 lines, two kinds of random bytes | 1 357 516 | what acceptance guarantees: the shape of the range list, and that in an accepted trace without errors that frees its blocks no `realloc` lost bytes and no fill changed another block's, unless a changed byte was written back; with or without the list |
| `driver_run` | up to 3 traces, up to 2 errors each | 5 331 | an index is computed only from complete measurements, wherever the alarm falls; with `-s` a package that hangs is cut off and the results are reported |
| `driver_run_jump` | as `driver_run` | violation | the alarm may come where there is nothing to jump to (section 5) |
| `trace_file` | programs of up to 5 calls with sizes 0, 9 and 137, a memory of 9 words, `%u` modulo 128, a line buffer of 2; all hand-written files of up to 3 lines over 11 forms of line, `num_ids` up to 2, `num_ops` up to 3 | 3 391 583 | no call is lost, a converted trace holds at its end exactly the program's blocks, a recorded trace is read and frees what it holds, and what `read_trace` accepts is the file |
| `fcyc` | 2 best of up to 4 measurements, epsilon 1/2; halves of the counter below 2; gaps of 1 or 2 cycles, up to 2 interrupts, anywhere | 425 942 | the counter's subtraction, the compensation, the table, the result, and that measuring step by step implements the K-best scheme |
| `submit` | 8 answers, 4 results, `RIO_BUFSIZE` 3, `SUBMITR_MAXBUF` 6 | 7 960 | the stream stays intact, request and lines fit into `buf`, the verdict follows from the answer, and the driver ends once the server is gone |
| `suggest` | letters a, b, A and the space; 4 files, one of them ragged; lines of up to 4 characters | 11 203 | the trie holds the file, and the screen is right after any typing and deleting |
| `search_net` | 3 files, one of them ragged, replies of 2 words, up to 3 keys, one short read anywhere | 103 060 | replies match queries until a read is short; suggestions are right until a query was crowded; nobody waits for ever; the server ends after its client |
| `rb_map` | 6 keys, 6 allocations, any order of `insert`, `operator[]`, `find` and `erase` | 571 108 | what the map keeps and what it loses: see section 5 |
| `segment_trees` | arrays of 5 elements, differences -1 and 2, vectors of 5 and of 4 elements with the global `N` = 5 | 39 366 | sums and minima of every range after any updates |

Why the bounds are enough:

* `mm_client`: five empty blocks fit, one more does not; sizes 8 and 9 give blocks with and without padding; a
  `realloc` between them grows and shrinks; 0 gives the empty block. The heap's end is not a multiple of
  a block, so both the last fit and the first failure occur. The theorems remove the bounds.
* `driver_mm`: two blocks of 9 bytes fill the heap, so traces fail at each kind of line; four lines allow
  allocate, move, free and reuse of an id with a second id held. Sizes include 0 (a `realloc` that frees).
  `RANDOM_DATA_LEN` is smaller than in the code but larger than any block.
* `driver_any`: 16 bytes at 0 enclose one byte at 8, the case the ends-only test misses; pointer 4 is
  unaligned; a free that follows an overlap is what lets the bytes tell. `random_data` is 0, 1, 0, 1, ...: blocks begun at
the same parity agree byte for byte, others differ in all, so that an overlap damages or not. To damage, to mend and to free
everything takes five lines; of the traces that long the instance has those that free all they allocate.
* `driver_run`: three traces give one before, one at and one after the timeout. The theorems remove the bound.
* `trace_file`: five calls are two blocks allocated, one moved, both freed; with `malloc(0)` an address is
  handed out twice. A size of 137 is more than the memory of 9 words has, and two blocks of 9 leave no room for three more; the
product of `calloc`'s 130 and 0 is 0, while 130 is printed as 2. A buffer of 2 is written when full, at exit, and lost when the program is killed. Of lines
  there are those with every field, with one or two missing, with one too many, with an id below 0 or past `num_ids`, and of
  an unknown type; the counts are below, at and above the number of lines; one header has the weight 20000.
* `fcyc`: with halves of one bit every pair of a start and a gap gives each case of borrow and wrap within a few
  cycles. A table of 2 is filled and overflows twice; measurements come out equal, negative, and within and
  outside of epsilon of each other.
* `submit`: no answer is cut at a place that depends on the buffer being larger: a buffer of 3 is refilled within a
  line, at its end and between CR and LF. The answers are silence, acceptance with and without a header, OK
  with a newline, refusal, an error code, an answer without an empty line and one with a header that fills `buf`.
* `suggest`: a word in two spellings with two frequencies, a two-part word, equal frequencies and more
  words below a letter than are shown. The ragged file has both shapes of `data.txt`'s bad lines: two that run into one text,
  and one that begins with the newline its number was not followed by; and it ends with a word without a number.
* `search_net`: one file with a crowded letter (three words for two places), one where the letter exactly
  fills the reply, one with two lines that run into one text and a last word without a number; spaces, deletions, the empty line; a short read in either direction. `MaxShort` and
  `MaxKeys` only bound how long the user and the network go on. Longer sessions add no new kind of
  state: the queue holds leftovers, `typedWord` an older tail, the stream a shifted reply.
* `rb_map`: six nodes give every insertion case on both sides, below the root and one level further down, and
  each of the six cases of `erase`; the first loss needs three keys. A rotation that hands over a child of the parent, and a
  red node below a red one, need eight and nine nodes, which random simulation of the same module reaches but this run
  does not.
* `segment_trees`: five elements split unevenly at two levels; four is a length that is not `N`.

*Fairness.* `DriverRun` assumes weak fairness of the driver (the process runs on unless the package hangs or it waits for
the server, which need never answer) and of the alarm (time passes, and an alarm that is set is delivered). `SearchNet` assumes weak fairness of
each process, which the operating system schedules; the user need never type and the client need never
quit. `Submit` assumes weak fairness of the driver only: the server may send nothing and never close, and
`EndsWhenServerGone` therefore speaks of a server that is gone. All other specifications claim safety only and
assume nothing.

## 5. Findings

With a run of its own:

* SIGALRM before the first `setjmp`, after `run_tests`, or between `i++` and the loop test
  (`mdriver.c:352`, `:203`) finds no jump buffer or no trace, against `mdriver.c:204` "handle timeouts".

Met while modelling. The properties say what is true instead.

Allocator and driver:

* `calloc` does not test what `malloc` returned (`mm.c:136`): on a full heap it writes through NULL.
  `OnlyCallocCrashes` says that this is the only crash of a legal program.
* `newsize` is an `int` (`mm.c:65`): a request of 2^32 - 8 wraps to 0 and the block has no room, against
  `mm.c:61` "Always allocate a block". The theorems assume sizes below that, `SizesFit`.
* `add_range` tests only the ends of the new payload against each listed one (`mdriver.c:541`), against
  `mdriver.c:539` "The payload must not overlap any other payloads": a payload that encloses a listed one is
  accepted. `ListedRangesAreSound` says what the list does guarantee, and `CleanTraceIsCorrect` that
  the random bytes catch of the rest: a byte that is changed and not written back. Random data is a byte per byte
  (`mdriver.c:117`, `:610`), so an overlap of one byte goes unnoticed once in 256 times.
* `driver_post` waits for the server without a limit (`mdriver.c:492`). The one alarm of `-s` may be spent by then, or, if it
  comes while the driver waits, finds no jump buffer (above). `HangIsTimedOut` speaks of the package only.
* A trace whose blocks were garbled still gets `valid` = 1, with the error only counted (`mdriver.c:655`,
  `:924`; the field's comment at `:98` says that it was processed correctly).
* `timeout_handler` overwrites the number of errors found so far with 1 (`mdriver.c:191`; `:129` "number of
  errors found when running student malloc").

Traces:

* `malloc(0)` gets the address that the next block gets too (`get-trace.c`), and the converter then dies of a
  trace that is none of the program's making; `realloc(p, 0)` leaves the id mapped, and `free(NULL)` or
  `realloc(NULL, n)` give lines that the balancing script cannot balance. `ConvertedTraceIsTheProgram` therefore
  has an exception for sizes of 0.
* A program that is killed loses its last lines, at most as many as the buffer holds: `NoCallIsLost`.
* Nothing tests `myheapend` against the length of `memory[]` (`get-trace.c:139`), and sizes are printed with `%u`
  (`get-trace.c:141`): `ConvertedTraceIsTheProgram` speaks of programs whose blocks fit, with the sizes as printed.
* `read_trace` does not check what `fscanf` filled in (`mdriver.c:731`): a missing field is the one of the line before.
  With `num_ops` 0 the first line is stored past `ops`. The index of a free is not compared with `num_ids`, a
  negative index is accepted, and lines past `num_ops` are ignored. `ReadTraceIsTheFile` says what is left.
  The header that `traces/README` gives as its example, with the weight 20000, is rejected.

Timing:

* The ticks are read outside of the counted interval (`clock.c:270`, `:281`), so that an interrupt just before or just
  after it is taken off too: a time may come out too small, even negative, but never too large
  (`EveryTickIsCompensated`). When no interrupt costs more than `RECORDTHRESH`, `cyc_per_tick` stays 0,
  and every measurement calibrates again.

Submission:

* `init_driver` is never called, so SIGPIPE keeps its default action and a server that closes early kills the
  driver; with USER unset `strlen` is given NULL; the result of `driver_post` is ignored (`mdriver.c:492`).
* An answer "OK" followed by a newline is not accepted. An answer cut off right after OK is, as the end of the stream ends
  a line. Of a header line longer than `buf`, the rest may read as the empty line that ends the headers:
  `VerdictFromTheAnswer` speaks of answers whose lines fit. A server that says nothing makes the driver wait
  for ever.

Suggestions, server and client:

* The server's queue outlives a query (`search_server.cpp:161`), so a query with more than ten words
  leaves some to the next reply, against `search_server.cpp:18`. `RightUntilCrowded` is stated up to there.
* The client takes one `read` for a whole reply (`search_client.cpp:112`), so that after one short read it
  stays one answer behind: `DrawsItsOwnAnswer` is stated for sessions without one. The drawing loop runs to
  `sizeof(array)` (`:117`): `Draw` may therefore crash.
* The shipped `Network/homework_3/data.txt` breaks the format that the loop expects: line 52 ("delivery service") has no
  number, and line 159 has a space after it. The texts read there contain a newline, which indexes `children[-87]`
  (`search_server.cpp:70`, `trie.cpp:95`): memory in front of the node is read and, when it is 0, overwritten.
  `TrieHoldsTheFile` and `RightUntilCrowded` say what then remains true: unless this made the program undefined, the words
  found are those of letters only, and "delivery service", "deal" and "profiling" are not among them.
* A typed space indexes `children[-65]` (`trie.cpp:104`), and `word[]` is not terminated (`:83`).

Trees:

* `insert` does not tell `head`, or the parent, of a rotation: inserting 1, 2, 3 in this order loses 2 and 3. Erasing
  the root leaves `head` pointing to the deleted node. What is reached stays a search tree
  (`StaysASearchTree`), and without such a call the keys are all there (`HoldsItsKeys`).
* A rotation that hands a child of `n` over to `n`'s former parent leaves that child's `prev` at `n`
  (`rb.cpp:326`): from eight nodes on the iterator may then go astray, though `find` does not. `HoldsItsKeys` and
  `PrintsInOrder` are stated up to such a call.
* On the way back `insert` recolors but never rotates: with nine nodes a red node may have a red parent. After an erasure
  took a black node's only left child, a later `insert` may read the colour of that missing uncle (`rb.cpp:284`);
  `InsertNeverCrashes` is stated for maps from which nothing was erased.
* The iterator leaves out subtrees where two left children hang below one another (`PrintsInOrder`).
* `rmq.cpp`'s `main` changes `vec[2]` without telling the tree; `RMQ` takes its length from the global `N`
  (`rmq.cpp:67`) and is right only when the vector is that long, which `QueryIsTheMinimum` has as a condition.
* `Trie/26.2 문제/Dolphin.cpp` does not compile.

## 6. Proofs

The theorems hold for every value of the constants that satisfies the modules' named assumptions, and further assume
only what is named here.

**The calls of mm.c** (`MMallocProofs`), for any heap, whoever calls. `NewSizeRoom` shows that rounding and
conversion leave room; `MallocBumps`, `CallocBumps` and `ReallocBumps` reduce each call to "refused, nothing changed" or
"the break was bumped, nothing below it changed, and the new block's bytes are zero, or those of the old one".
The proofs about `mm.c` under any program and under the driver both cite these.

**The allocator** (`MMProofs`). `SizesFitAssumption`: no request is so large
that a `size_t` or the `int` `newsize` wraps; section 5 shows that it is needed. TLC evaluates it in `mm_client`.
`BlocksDisjoint` alone is not inductive: a step keeps blocks apart because a new one
starts at the break and the old ones end below it, and the break stays aligned because sizes are rounded;
`SizesIntact` needs that a program's writes hit no size word, which is `BlocksDisjoint`, and that a new
size word lies above every block, which is `BlocksInHeap`. So the invariant is their conjunction,
`HeapInv`. `GrowKeeps`, `DropKeeps` and `WriteKeeps` show that a bump, a free and a write
preserve it; `NextHeapInv` goes through the actions. `BlocksStayApart`, `SizesStayIntact`,
`AddressesHandedOutOnce` and `CrashIsACalloc` follow. `MMallocImplementsAllocator` is the refinement: `GrowFits` says
that a bump is what `AllocatorSpec` asks of a new block, `DropImplements` and `WriteImplements` are the steps
without one, and a refused request stutters.

**What the driver's checks are worth** (`DriverProofs`), whatever the package answers. Three results:

* `RangesAreSound`: `Sound(list, b)` says of a list
  and a break what `ListedRangesAreSound` says of the driver's; `add_range` keeps it because of the two tests
  of the code, `remove_range` because it takes one element out (`RemoveKeepsSound`), and a break that moves up because no range
  minds (`SoundHigher`). The break moves down only where a pass begins or ends; `RangeInv` therefore speaks of
  the validity pass, which starts with an empty list.
* `CleanTraceMeansCorrect`: in a trace that frees its blocks and is accepted without an error, no `realloc` lost a
  byte and no fill of one block changed a byte of another, unless a changed byte was written back. The argument is the one
  of `mdriver.c:535`, that random bits will tell. As soon as a byte of a held block is changed, that block no longer has
  its random bytes (`Spoilt`, `SpoiltHasWrongByte`); it stays so until a line about another block writes that byte back,
  which `mended` records (`AcceptedLine`), and a line about this block checks it first, and counts the error (`ChecksCount`); nor does a `realloc` that
  loses bytes get by without one. `CleanInv` says this of every place in the pass (`Watched`): with no error counted, nothing is lost, and if
  something was damaged and nothing mended, a spoilt block is still held. At the end of a trace that frees
  everything there is none. It assumes `LegalTraces`, that the traces use their ids as a program uses pointers, and nothing of
  the random bytes.
* `AcceptedNeverAborts`, for every set of traces, legal or not. Whether `mm.c`
  refuses a line depends only on the break and the line's size (`LineOutcome`), and the break only on the lines before.
  The invariant `ReplayInv` says that there is a history of breaks, from 0 to the present one, that had room for every line
  so far (`Path`). `PathGrows` extends it by an accepted line; when the trace is accepted it covers every line, and the
  later replays, which start from the same empty heap, move along it (`LaterLine`).

**The replay of mm.c** (`DriverProofs`): `RangesFollowTheBlocks`, `NeverAccusesMM`, `HeldBytesAreKept` and
`UtilizationIsAtMostOne`, for every set of traces with `LegalTraces` and `TracesFit` (no request so large that its
`newsize` wraps; without it `mm.c` hands out blocks without room, and is rightly accused). None of the four
is inductive, as each check of the driver passes only because the others' accounts are right.
`MMInv` therefore has them together: `Layout` (the blocks a trace holds
lie apart in the heap, each behind a word that has its size: what `HeapInv` says of a program's blocks, said of
`blocks` and `block_sizes`, with ids not used yet still at NULL), `Checked` (no error so far, no held block has lost its bytes,
and the list has exactly the non-empty ones) and `Accounted` (`total_size` is the number of bytes held, and its highest value
is no higher than the break). `HeldStep` says which ids are held after a line, and `LegalLine` what a legal trace may do with
them; a block allocated at the break lies beside the others (`LaidOutGrows`), so both tests of `add_range` pass, and the
random bytes written into it are in no other. That `realloc` takes its range out and puts the new one in is two
steps for the list and one for the trace. `TracesFit` and `LegalTraces` are evaluated by TLC in `driver_mm`, and
`LegalTraces` in `driver_any`.

**The run** (`DriverRunProofs`), for any number of traces and errors: `IndexIsComplete`, `ValidIsMeasured` and
`TimeoutIsSound`. The three properties speak of the end of the run; on the way there, what holds depends on
whether the alarm has come. Before it (`LoopInv`), the traces below `i` are complete (valid ones
measured, and all valid if no error was counted) and those above untouched; after it (`CutInv`), the
traces below `cut` are complete, those from `cut` on are invalid, and only reading goes on. `TimerInv`
says when the jump buffer is live, so that the alarm can lead from one to the other only inside the loop.
`RunInv` is the conjunction with the loop's counters. The alarm step is where both meet: the interrupted
trace may be half measured, and becomes invalid only when it is read again.

**Timing** (`FcycProofs`), for every `kbest`, `maxsamples`, epsilon and width of the counter.
`TableHoldsTheSmallest`: that the table is sorted is not enough to say which measurements it lacks.
The invariant `RankInv` relates each entry to all measurements taken: an entry is below x exactly if
its place is among the first so many as there are measurements below x. A new measurement adds one to the count
above its value, and `Sifted` moves one entry over; both are counted by `Below`. `ResultIsTheBest` follows from
it and from the loop's condition. `CounterIsRight`: `SubtractHalves` does the arithmetic of the borrow; the invariant
`ClockInv` says that the counter is `elapsed` past its start, once around or not. `TicksAreCompensated`: `TickInv`
says that the ticks inside the function's run are among those since `start_tick`. `FcycImplementsKBest`, under the
assumption that a measurement may be any integer: the step `Stop` is `Measure`, because the loop's condition,
tested at `Begin`, still holds when the measurement is complete (`TurnInv`).

**Submission** (`DriverRunProofs`), for every answer, result and buffer size: `SubmitStreamIntact`,
`SubmitBufferNeverOverflows` and `SubmitVerdict`. The first needs the line being read to be what was taken last, and the second that `rio_readlineb`'s
count leaves room for the terminator, also when a line is broken off. The verdict is given line by line while
`VerdictFromTheAnswer` speaks of the answer as a whole; `LineInv` ties the two: the bytes taken so far
end in the line being read (`EndsIn`), which has no newline before its end (`Unended`), and what was taken before that line led
`submitr` to where it is (`Through`): no byte for the status line, a good status line for the headers, an
empty line among the headers for the body. `GotALine` moves this over the end of a line, whether a newline or
the end of the stream ended it; the latter is the case `AtEnd`, in which further headers are empty for ever.

**The trace's way to the driver** (`DriverRunProofs`), for programs of any length whose blocks fit into `memory[]`, with sizes as `%u` prints
them, every `BUFFER_LEN` and every file: `FileHoldsTheCalls`, `ConverterKeepsTheBlocks`, `RecordedTracesAreFine` and `DriverReadsTheFile`.
Four programs keep an account of the blocks one after the other, each in names of its own, and the invariant
`TraceInv` says how each account follows from the one before:

* In the recorder, `own` says of each call which earlier call made the block it releases (`Owns`), and the blocks
  held are those whose call no call owns (`Alive`, `Holds`). `CallsOK`: addresses only grow, and only a block of size 0
  shares its address with a later one. That is why the same address may stand for several blocks in
  one trace, and why `own`, rather than the address, says which is meant.
* In the converter, `Conv` says that the ids of addresses in use are all different, that each line is the line of its call,
  and that the address of each block held carries the id of the last line about it, no other address carrying
  any (`Kept`). From this `HeldLines`, the blocks the trace holds, are those of `Alive`. `OnlyZeroBlocks`: the
  script finds a new address in use, or an old one unknown, only when the program has asked for 0 bytes at some call.
* In `checktrace.pl`, `Covered` says that each id given a block is in `HASH` or has a later line; once every
  line is read and the frees of `HASH` are appended, no line is left whose block is held.
* In `read_trace`, `ReadAs` says that each operation stored is the line of the file with that number where the line has the field,
  and `max_index` bounds the ids of the blocks; the asserts at the end then speak of the file.

The assumption `TraceFileAssumption` gives the types of a file as `fscanf` sees it, of a header whose
number of operations is not negative.

**Suggestions** (`TreeProofs`), for every data file, alphabet, list size and line length:
`TheTrieHoldsTheFile`, `TheMostFrequentAreShown`, and over the network `ClientDrawsItsOwnAnswer` and `AnswersAreRightUntilCrowded`.

* While the file is read, `WordsInv` says of the texts read so far what `TrieHoldsTheFile` says at the end (`HoldsLines`):
  a terminal node has the frequency of the last text that leads to it (`LastFor`), a node that is not terminal is no text's,
  and the nodes form a finite tree (`NodesOK`). One more turn (`InsertLine`) changes one node, be its text of letters or not. A walk over
  `children[]` comes to the nodes whose path has letters only (`OfLetters`), also from a node of letters further down (`LettersBelow`),
  and these are the words of the file (`WordsMatched`). Words count as the same when they agree but for case, which is to
  have the same path (`SamePath`).
* `FindLetters`: of a line of letters `find` returns its path's node, or NULL when no word begins with it;
  `FollowedFacts` is where that needs the nodes to be closed under prefixes. What is pushed is then `Matches`.
* `TopWordsOfASet`: pops from a queue of distinct words list them once each, in order, leaving nothing ahead (`BestOf`),
  and `BestIsRight` says so of the words rather than the nodes. `SugInv` needs the queue to be empty before
  each key, which the program sees to and the server does not.
* The server's queue is empty as long as no query was crowded (`QueueIsEmptied`: all are popped when
  there is room for all). That a client in step stays in step is `InStep`: an idle client has nothing in flight in either direction, and
  a waiting one is at one of four points: its request is in flight (`Asked`), read and alone
  in the buffer up to the 0 (`Heard`, by `RequestIsTheLine`), answered (`Answered`), or the server is gone
  (`Lost`). A short read breaks it, and the properties are stated without one. Nothing is assumed of when either process ends.

`WordListAssumption` gives the types of a data file, whose texts may consist of any chars and be empty, but fit into
`data[100]` with a 0 after them; what happens when a text made the program undefined is not claimed. And
`SearchAssumption` that the longest line leaves room for its 0 in the `sizeof(std::string)` bytes sent and that these fit in the buffer.
TLC evaluates the first in `suggest` and both in `search_net`.

**Segment trees** (`TreeProofs`), for arrays and vectors of every length and all integers: `SumsAreRight`,
`QueriesAreRight`, and `TreesAreLargeEnough`, that no node of a call on n elements reaches 4n.

* A recursive function of TLA+ is a choice among the solutions of its equation, so a solution has to be found before anything can be
  said of it. `RecursionHasASolution` gives one whenever the body looks only at cells of shorter ranges. The library's induction theorems
  cannot be instantiated by the provers installed; in their place every induction here takes a least counterexample (`FirstExists`,
  `CellInduction`).
* `HalvesAreCells`: the halves of a cell are cells, which is what keeps nodes below 4n. A cell's node and range bound each other:
  a node below 2p has at most the p-th part of the range, and n elements cannot be halved
  so often that the node passes 4n.
* `SubtreesDisjoint`: the calls of the two halves write to nodes with nothing in common (`Subtree`), so what the first call did is
  still there after the second.
* `Shows(v, t, k, c)` says that the tree t has the value v at every cell a call reaches from c (`Below`). `init` and
  the two updates are walks (`IsWalk`) and show what they should (`WalkShows`), a part the update skips because it showed that before and its
  range lacks the index. `sum` and `query` are folds (`IsFold`), and return the measure of the range asked for (`QueryReads`).
* Both proofs are the same up to the measure: a sum or a minimum of a range is that of its two halves put together
  (`IsMeasure`, by `SumSplit` and `LeastJoins`). `SumOf` adds a set up in an order of its own, which `TotalRemove` shows
  to make no difference.

The invariants are `SumsInv` and `MinimaInv`: the tree shows the sums of `array`, and, when the vector has N elements,
the minima of `given`. That a query is right is not itself inductive: the nodes that an update rereads must be right each by itself.
The assumption `SegmentAssumption` gives the types of the constants, and TLC evaluates it in `segment_trees`. Integers are unbounded in
`segmentTree.c`'s part: sums that overflow an `int` are undefined in C and not covered.

**The map** (`RBMapProofs`), for every set of keys and every number of nodes: `MapHoldsItsKeys`,
`PrintIsInOrder` and `InsertIsSafe`.
Nothing is assumed but `MapAssumption`, that keys are compared as numbers.

* The invariant `MapInv` says that while no call lost keys the map is empty or a tree (`IsMap`). A tree is a set of nodes T with
  the range of keys whose search comes to each node (`Frame`, `Between`): the whole range at `head`, and its part on
  one side of a node's key at the node's child there. Every node of T but `head` is a child (`Shape`), and points to its parent (`Linked`).
  `HoldsItsKeys` is not inductive: that the keys are there says nothing of where a search for them goes.
* `TreeInduction` shows something of every node of a tree that holds at `head` and of the children of each node it
  holds of: of the nodes where it fails, take one with the widest range. `Nested`: the ranges of two nodes are apart, or one node is below the other. From these follow
  that T is exactly what `Tree` computes (`TreeIsT`), that no key is at two nodes (`KeysDiffer`), that a
  search goes down through different nodes and ends within `MaxNodes` steps (`PathFacts`), and that where it ends without the
  key, the key is nowhere (`NotThere`).
* `Attached`: of all the cases of `Attach`, a call that loses no keys is left with two. Either the new node was hung up as a leaf (`LeafAdded`),
  or a lone leaf and its parent changed places below the grandparent (`Pivoted`). The way back changes colours only (`UnwoundAll`).
  An erasure takes out a red leaf (`LeafDropped`), or moves the key of one up to its parent (`LeafMovedUp`).
* `InsertIsSafe` needs more: before the first erasure a node without a sibling is a leaf (`Paired`), so that a node two or more levels above the new
  one has both children (`ParentFull`). It also speaks of the call that loses keys, which leaves something other than a tree behind.
  `SparedWhenLost` goes through those cases of `Attach` and shows that the rotations leave the children of the nodes on the
  way back as they were, or move one of them to the place of another.
* `PrintIsInOrder` follows from `MapInv` alone. `AfterFollows`: what operator++ returns has a larger key, and every key in between is
  below a node that `LeftRun` describes. The loops of begin, operator++ and `print_map` end because along
  them the ranges only grow (climbing) or shrink (going down), or the keys only grow (printing), so that no node is passed twice (`WalkEnds`).
  `NoneBetween`: no key of the tree is between a node and the bound of its range on a side where it has no child.

**The map after keys were lost** (`RBLossProofs`): `StaysSearchable`, that what `head` leads to is a search tree after any calls,
again for every set of keys and every number of nodes and from `MapAssumption` alone. Now nodes may have two parents, `prev` may
point to any node in use, and `insert`, which follows `prev`, rewrites nodes no search comes to. The invariant `LossInv` has three parts:

* `Sane`: no pointer of a node in use leads to a deleted node, or to one never created. A call that would end otherwise ends the run as `"undefined"`.
* `Shape`, as above, of the nodes T that `head` reaches; nodes that a rotation cuts off are left out of T (`Reachable`),
  and every node of T keeps exactly one parent in T (`OneParent`).
* `Loose`, of `prev`, without which the first two are not inductive: `insert` might rotate a node of T above one elsewhere. For every x of T the node q that
  x's `prev` points to is in T, or is not x's parent, or has two children (`Sound`: the rotation does not happen).
  This alone is not an invariant. A new node that is rotated above its parent x, with a black uncle, is such a q:
  nothing in T leads to it, and x is its only child. But q's key is between x's bounds, on the side of x where x has no child (`Hook`),
  so that a later rotation of x above q adds q to T where it belongs (`LossHooked`).

Each way a call changes the pointers is shown to lead from such a tree to another: the new node hung up (`LossLeaf`), rotated above its parent
(`LossTopped`), rotated twice (`LossBent`), its parent rotated above the grandparent (`LossLifted`, by whether the grandparent is in T and known to its own parent);
and for erasure a node without left child taken out (`LossUnhung`) and the greatest key on the left moved up (`LossMerged`). The latter two rest on `Misses`:
a deletion to which no pointer is left has cut the one link that led to the node in T. So a predecessor found deeper than the left child, a child on
the right, and the root are never deleted but in a call that ends as `"undefined"`. `Carried` says once for all of these when `prev` stays harmless. TLC finds
`LossInv` in every reachable state of maps of up to six nodes, and a state where it fails without `Hook`.

Only model-checked:

* Liveness (`HangIsTimedOut`, `WaitEnds`, `ServerFollows`, `EndsWhenServerGone`), about which the proof system does not reason.

## 7. Not modelled

* `ftimer.c` and `fsecs.c`: averages over system timers, and a choice `config.h` makes at compile time. `fsecs`
  forwards to `fcyc`, which is modelled.
* `mdriver.c`'s runs of the C library's `malloc`: they repeat the calls and check nothing. `printresults`, `usage` and
  the parsing of options.
* `Red-Black tree/rb.cpp`: the first version of the map, without rotations; its insertion, lookup,
  iterator and erasure are those of the later version, which `RBMap` models.
* `Trie/basic/trie.cpp`: insertion and lookup over a fixed list of words, as in `Trie`.
* `Trie/26.2 문제/Dolphin.cpp`: does not compile.
* The `gen_*.pl` scripts print fixed patterns of lines; the `.rep` files are data.

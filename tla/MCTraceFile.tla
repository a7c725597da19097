---------------------------- MODULE MCTraceFile -----------------------------
(* Instance of TraceFile: short programs, and every small file by hand. *)
EXTENDS TraceFile

MCCallocArgs == {<<2, 1>>, <<130, 0>>}

Lines == { Op("a", <<0, 8>>), Op("a", <<1, 9>>), Op("a", <<1>>), Op("a", << >>),
           Op("a", <<0, 8, 3>>),
           Op("r", <<0, 0>>), Op("r", <<-1, 8>>), Op("f", <<0>>), Op("f", <<5>>),
           Op("f", << >>), Op("x", << >>) }

MCHandWritten ==
  [weight : {0, 1}, num_ids : 0 .. 2, num_ops : 0 .. 3, ignore_ranges : {1},
   lines : UNION {[1 .. n -> Lines] : n \in 0 .. 3}]
  \cup {[weight |-> 20000, num_ids |-> 1, num_ops |-> 1, ignore_ranges |-> 1,
         lines |-> <<Op("a", <<0, 8>>)>>]}
=============================================================================

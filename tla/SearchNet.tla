----------------------------- MODULE SearchNet ------------------------------
(***************************************************************************)
(* Network/homework_3: search_server.cpp answers the queries that          *)
(* search_client.cpp sends after every key, over one TCP connection.       *)
(* The two streams carry chars (to the server) and std::string objects (to *)
(* the client).  A read may return any first part of what is in flight; it *)
(* is short when it could have returned more.                              *)
(***************************************************************************)
EXTENDS WordList

CONSTANTS StrBytes,        \* 24: sizeof(std::string)
          BUF_SIZE,        \* 1024: length of typedWord
          StackGarbage,    \* what can follow an unterminated typedWord
          MaxShort,        \* bound: short reads
          MaxKeys          \* bound: keys typed

ASSUME SearchAssumption ==
  /\ MaxShort \in Nat /\ MaxKeys \in Nat
  /\ StrBytes \in Nat /\ MaxQuery \in 0 .. StrBytes - 2
  /\ BUF_SIZE \in Nat /\ BUF_SIZE > StrBytes

(* Of WordList's variables pq is the server's, and queryStr and shown are   *)
(* the client's: shown is array when the screen was last drawn.            *)
VARIABLES srv,             \* "load", "read", "answer", or how the server ended
          typedWord,       \* the chars of the buffer that have been written
          toServer,        \* chars in flight
          toClient,        \* strings in flight: [word: a node, query: history, what it answers]
          cli,             \* "typing", "waiting", or how the client ended
          keys,            \* keys typed
          short,           \* short reads so far
          crowded          \* history: some query had more than MaxShown words

serverVars == <<file, lineno, root, pq, srv, typedWord, crowded>>
clientVars == <<cli, queryStr, shown, keys>>
streamVars == <<toServer, toClient, short>>
netVars    == <<serverVars, clientVars, streamVars>>

(* The client has connected; the server is about to read data.txt. *)
NetInit ==
  /\ InitWords
  /\ srv = "load" /\ typedWord = << >>
  /\ toServer = << >> /\ toClient = << >>
  /\ cli = "typing" /\ keys = 0
  /\ crowded = FALSE /\ short = 0

ServerUp    == srv \in {"load", "read", "answer"}
ServerEnded == srv \in {"stopped", "crashed"}
ClientUp    == cli \in {"typing", "waiting"}

(* One read of at most max of the available units may return n of them.    *)
Read(n, available, max) ==
  LET most == IF available < max THEN available ELSE max
  IN  /\ n <= most
      /\ n < most => short < MaxShort
      /\ short' = short + (IF n < most THEN 1 ELSE 0)
-----------------------------------------------------------------------------
(* The server.                                                             *)

OpenFails ==
  /\ srv = "load" /\ lineno = 1
  /\ srv' = "stopped"
  /\ UNCHANGED <<file, lineno, root, pq, typedWord, crowded, clientVars, streamVars>>

ServerLoad ==
  /\ srv = "load"
  /\ Load
  /\ srv' \in AfterLoad(IF AnotherTurn THEN "load" ELSE "read")
  /\ UNCHANGED <<file, pq, typedWord, crowded, clientVars, streamVars>>

(* read puts its bytes at the start of typedWord; a 0 is stored after them *)
(* the first time only.                                                    *)
ReadQuery ==
  /\ srv = "read" /\ toServer # << >>
  /\ LET first == typedWord = << >>
     IN  \E n \in 1 .. Len(toServer) :
           /\ Read(n, Len(toServer), IF first THEN BUF_SIZE - 1 ELSE BUF_SIZE)
           /\ typedWord' = SubSeq(toServer, 1, n) \o
                             (IF first THEN <<0>> ELSE SubSeq(typedWord, n + 1, Len(typedWord)))
           /\ toServer' = SubSeq(toServer, n + 1, Len(toServer))
  /\ srv' = "answer"
  /\ UNCHANGED <<file, lineno, root, pq, crowded, clientVars, toClient>>

\* mutant: goes on while read does not return -1
ReadEnd_GoesOn ==
  /\ srv = "read" /\ ~ClientUp
  /\ toServer = << >> \/ toClient # << >>
  /\ srv' = IF toClient = << >> THEN "answer" ELSE "stopped"
  /\ UNCHANGED <<file, lineno, root, pq, typedWord, crowded, clientVars, streamVars>>

(* read returns 0 after the client's end, or -1 when the client ended with *)
(* strings it had not read: the server closes.                             *)
ReadEnd ==
  /\ srv = "read" /\ ~ClientUp
  /\ toServer = << >> \/ toClient # << >>
  /\ srv' = "stopped"
  /\ UNCHANGED <<file, lineno, root, pq, typedWord, crowded, clientVars, streamVars>>

(* The C strings typedWord may hold. *)
TypedStrings ==
  LET ends == {k \in DOMAIN typedWord : typedWord[k] = 0}
  IN  IF ends = {} THEN {typedWord \o g : g \in StackGarbage}
      ELSE {SubSeq(typedWord, 1, (CHOOSE k \in ends : \A j \in ends : k <= j) - 1)}

(* array after the loop: s, then strings that stayed empty. *)
Array(s, query) == [k \in 1 .. MaxShown |->
                      [word |-> IF k <= Len(s) THEN s[k] ELSE NULL_NODE, query |-> query]]

\* mutant: an empty reply is not sent
Answer_SkipsEmpty ==
  /\ srv = "answer"
  /\ \E typed \in TypedStrings : \E found \in find(root, typed) :
       IF found = BAD_NODE
       THEN srv' = "crashed" /\ UNCHANGED <<pq, toClient, crowded>>
       ELSE LET pushed == pq (+) search(root, found)
            IN  \E s \in TopWords(root, pushed, MaxShown) :
                  /\ pq' = pushed (-) BagOf(s)
                  /\ crowded' = (crowded \/ Cardinality(BagToSet(search(root, found))) > MaxShown)
                  /\ srv' = "read"
                  /\ toClient' = IF s = << >> \/ ~ClientUp THEN toClient
                                 ELSE toClient \o Array(s, typed)
  /\ UNCHANGED <<file, lineno, root, typedWord, clientVars, toServer, short>>

\* mutant: pops one word less
Answer_PopsOneLess ==
  /\ srv = "answer"
  /\ \E typed \in TypedStrings : \E found \in find(root, typed) :
       IF found = BAD_NODE
       THEN srv' = "crashed" /\ UNCHANGED <<pq, toClient, crowded>>
       ELSE LET pushed == pq (+) search(root, found)
            IN  \E s \in TopWords(root, pushed, MaxShown - 1) :
                  /\ pq' = pushed (-) BagOf(s)
                  /\ crowded' = (crowded \/ Cardinality(BagToSet(search(root, found))) > MaxShown)
                  /\ srv' = "read"
                  /\ toClient' = IF ClientUp THEN toClient \o Array(s, typed) ELSE toClient
  /\ UNCHANGED <<file, lineno, root, typedWord, clientVars, toServer, short>>

(* search pushes on what earlier queries left in pq; up to MaxShown words  *)
(* are popped and array is written.  Writing to a client that has ended is *)
(* lost, or kills the server with SIGPIPE.                                 *)
Answer ==
  /\ srv = "answer"
  /\ \E typed \in TypedStrings : \E found \in find(root, typed) :
       IF found = BAD_NODE
       THEN srv' = "crashed" /\ UNCHANGED <<pq, toClient, crowded>>
       ELSE LET pushed == pq (+) search(root, found)
            IN  \E s \in TopWords(root, pushed, MaxShown) :
                  /\ pq' = pushed (-) BagOf(s)
                  /\ crowded' = (crowded \/ Cardinality(BagToSet(search(root, found))) > MaxShown)
                  /\ IF ClientUp
                     THEN srv' = "read" /\ toClient' = toClient \o Array(s, typed)
                     ELSE srv' \in {"read", "crashed"} /\ UNCHANGED toClient
  /\ UNCHANGED <<file, lineno, root, typedWord, clientVars, toServer, short>>
-----------------------------------------------------------------------------
(* The client.                                                             *)

(* write sends StrBytes bytes from c_str(): the text, then zeros. *)
Request(q) == [k \in 1 .. StrBytes |-> IF k <= Len(q) THEN q[k] ELSE 0]

(* The drawing loop runs to sizeof(array), far beyond array's ten strings  *)
(* (search_client.cpp:117): it may crash.                                  *)
Draw(strings) ==
  /\ shown' = strings
  /\ cli' \in {"typing", "killed"}

\* mutant: an empty search line is sent, but no reply read
Send_WritesEmpty(q) ==
  /\ cli = "typing" /\ keys < MaxKeys
  /\ keys' = keys + 1
  /\ queryStr' = q
  /\ IF ServerUp THEN toServer' = toServer \o Request(q) ELSE UNCHANGED toServer
  /\ IF q = << >> THEN Draw(<< >>) ELSE cli' = "waiting" /\ UNCHANGED shown
  /\ UNCHANGED <<serverVars, toClient, short>>

(* A key has made the search line q.  Writing to a server that has ended   *)
(* is lost, or kills the client with SIGPIPE.                              *)
Send(q) ==
  /\ cli = "typing" /\ keys < MaxKeys
  /\ keys' = keys + 1
  /\ queryStr' = q
  /\ IF q = << >>
     THEN Draw(<< >>) /\ UNCHANGED toServer
     ELSE /\ IF ServerUp THEN cli' = "waiting" /\ toServer' = toServer \o Request(q)
                         ELSE cli' \in {"waiting", "killed"} /\ UNCHANGED toServer
          /\ UNCHANGED shown
  /\ UNCHANGED <<serverVars, toClient, short>>

TypeKey   == Len(queryStr) < MaxQuery /\ \E ch \in Keys : Send(Append(queryStr, ch))
DeleteKey == Send(Erased)

(* read returns as soon as there is something. *)
ReadReply ==
  /\ cli = "waiting" /\ toClient # << >>
  /\ \E n \in 1 .. Len(toClient) :
       /\ Read(n, Len(toClient), MaxShown)
       /\ Draw(SubSeq(toClient, 1, n))
       /\ toClient' = SubSeq(toClient, n + 1, Len(toClient))
  /\ UNCHANGED <<serverVars, queryStr, keys, toServer>>

(* The server has ended: read returns 0, or -1 when the server ended with  *)
(* chars it had not read, and array stays empty.                           *)
ReadNothing ==
  /\ cli = "waiting" /\ ServerEnded
  /\ toClient = << >> \/ toServer # << >>
  /\ Draw(<< >>)
  /\ UNCHANGED <<serverVars, queryStr, keys, streamVars>>

(* ESC is only looked for at the top of the loop. *)
Quit ==
  /\ cli = "typing" /\ cli' = "quit"
  /\ UNCHANGED <<serverVars, queryStr, shown, keys, streamVars>>
-----------------------------------------------------------------------------
Server == OpenFails \/ ServerLoad \/ ReadQuery \/ ReadEnd \/ Answer
Client == ReadReply \/ ReadNothing
User   == TypeKey \/ DeleteKey \/ Quit

NetNext == Server \/ Client \/ User

(* Each process runs on while it can; nobody has to type. *)
NetSpec == NetInit /\ [][NetNext]_netVars /\ WF_netVars(Server) /\ WF_netVars(Client)
-----------------------------------------------------------------------------
ShownWords == {shown[k].word : k \in DOMAIN shown} \ {NULL_NODE}

NetTypeOK ==
  /\ srv \in {"load", "read", "answer", "stopped", "crashed", "undefined"}
  /\ cli \in {"typing", "waiting", "quit", "killed"}
  /\ DOMAIN pq \subseteq DOMAIN root
  /\ Len(typedWord) <= BUF_SIZE
  /\ Len(shown) <= MaxShown /\ Len(queryStr) <= MaxQuery
  /\ ShownWords \subseteq DOMAIN root
  /\ short \in 0 .. MaxShort /\ keys \in 0 .. MaxKeys

(* search_client.cpp:108, "get the recommended words for the newly typed   *)
(* word": as long as no read was short, what is drawn answers the query    *)
(* just sent.  One short read, and every later screen may be a stale one.  *)
DrawsItsOwnAnswer ==
  cli = "typing" /\ short = 0 => \A k \in DOMAIN shown : shown[k].query = queryStr

(* As long as no query had more words than array holds, nothing is left in *)
(* pq; if no read was short either, the words drawn are exactly those of   *)
(* the file that begin with the query.  Texts of the file that are no      *)
(* words are not drawn.                                                    *)
RightUntilCrowded ==
  ~crowded /\ srv = "read" =>
    /\ pq = EmptyBag
    /\ cli = "typing" /\ short = 0 /\ LettersOnly(queryStr) /\ shown # << >> =>
         {Lower(root[n].word) : n \in ShownWords} =
           {w \in Dictionary : IsPrefix(Lower(queryStr), w)}

(* A query is answered, or fails, in finite time: the user can type on     *)
(* (unless data.txt has texts that made the server undefined).             *)
WaitEnds == cli = "waiting" ~> cli # "waiting" \/ srv = "undefined"

(* The server does not outlive its only client, with the same exception.   *)
ServerFollows == ~ClientUp ~> ServerEnded \/ srv = "undefined"
=============================================================================

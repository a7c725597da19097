------------------------------- MODULE Submit -------------------------------
(***************************************************************************)
(* Malloc/malloclab-handout/driverlib.c: driver_post sends the result of a *)
(* run to a server as one HTTP request and reads its answer line by line   *)
(* through the buffer of the rio functions.  The answer arrives in any     *)
(* pieces, reads and writes are cut short, interrupted or fail, and the    *)
(* server may go away at any moment.  Of the texts the model keeps what    *)
(* submitr looks at; the bytes of an answer are those of Byte.             *)
(***************************************************************************)
EXTENDS Integers, Sequences, FiniteSets

CONSTANTS Responses,       \* what the server may answer: sequences of Byte
          Results,         \* what may be submitted: sequences of Char
          RIO_BUFSIZE,
          SUBMITR_MAXBUF,
          RequestText,     \* the request's own characters, without the values in it
          Pad,             \* what submitr allows for them
          NamesLen         \* of course, user and lab together

(* "200" and "404" stand for a first line with that code, "OK" for itself, *)
(* "x" for any other text.                                                 *)
Byte == {"200", "404", "OK", "x", "\r", "\n"}

(* A letter, a digit, * - . or _; the blank; another printable character   *)
(* or a tab; anything else.                                                *)
Char == {"letter", "blank", "odd", "control"}

ASSUME SubmitAssumption ==
  /\ Responses \subseteq Seq(Byte) /\ Results \subseteq Seq(Char)
  /\ RIO_BUFSIZE \in Nat \ {0} /\ SUBMITR_MAXBUF \in Nat \ {0, 1}
  /\ RequestText \in Nat \ {0} /\ Pad \in Nat /\ RequestText < Pad /\ NamesLen \in Nat

VARIABLES
  stage,                      \* the step of submitr, or how the call ended
  autograded, user_set,    \* driver_post's argument; is USER in the environment?
  result, nleft,           \* driver_post's argument; what is left of the request
  rio_cnt, unread,         \* rio_t: the count, and the bytes from rio_bufptr on
  line,                    \* what rio_readlineb has stored in buf
  ret, status_msg,         \* driver_post's answer
  response, at, closed,    \* the server: its answer, the bytes sent of it, has it closed?
  wire,                    \* bytes the server sent that read has not returned
  taken                    \* history: the bytes rio_read has handed out

call   == <<autograded, user_set, result>>
rio    == <<rio_cnt, unread, line, taken>>
answer == <<ret, status_msg>>
server == <<response, at, closed>>
submitVars   == <<stage, call, nleft, rio, answer, server, wire>>

SubmitInit ==
  /\ stage = "post" /\ autograded \in BOOLEAN /\ user_set \in BOOLEAN
  /\ result \in Results /\ nleft = 0
  /\ rio_cnt = 0 /\ unread = << >> /\ line = << >> /\ taken = << >>
  /\ ret = -1 /\ status_msg = << >>
  /\ response \in Responses /\ at = 0 /\ closed = FALSE /\ wire = << >>

CallEnded == {"done", "killed"}

Fail == stage' = "done" /\ ret' = -1 /\ status_msg' = <<"Error">>
-----------------------------------------------------------------------------
(* Without -A the result goes to the server. *)
driver_post ==
  /\ stage = "post"
  /\ IF autograded THEN stage' = "done" /\ ret' = 0 /\ status_msg' = <<"OK">>
     ELSE stage' = "submit" /\ UNCHANGED answer
  /\ UNCHANGED <<call, nleft, rio, server, wire>>

(* The characters of an encoded result: %XX for an odd one. *)
Encoded(s) == Len(s) + 2 * Cardinality({b \in 1 .. Len(s) : s[b] = "odd"})

urlencode_fails(s) == \E b \in 1 .. Len(s) : s[b] = "control"

\* mutant: forgets that an encoded character takes three
req_size_OneEach(s) == NamesLen + Len(s) + Pad

req_size(s) == NamesLen + 3 * Len(s) + Pad

(* From the socket to the request in buf.  userid is what getenv returns,  *)
(* and strlen(NULL) ends the program.                                      *)
submitr ==
  /\ stage = "submit"
  /\ \/ Fail /\ UNCHANGED nleft                  \* no socket, no address, no connection
     \/ /\ ~user_set
        /\ stage' = "killed" /\ UNCHANGED <<nleft, answer>>
     \/ /\ user_set
        /\ IF req_size(result) > SUBMITR_MAXBUF \/ urlencode_fails(result)
             THEN Fail /\ UNCHANGED nleft
             ELSE /\ stage' = "write" /\ nleft' = RequestText + NamesLen + Encoded(result)
                  /\ UNCHANGED answer
  /\ UNCHANGED <<call, rio, server, wire>>

(* rio_writen, and rio_readinitb after it.  init_driver, which ignores     *)
(* SIGPIPE, is not called: a write to a server that has gone kills.        *)
rio_writen ==
  /\ stage = "write"
  /\ \/ \E n \in 1 .. nleft :                    \* write may be short
          /\ nleft' = nleft - n
          /\ IF n = nleft THEN stage' = "status" ELSE UNCHANGED stage
          /\ UNCHANGED answer
     \/ closed /\ stage' = "killed" /\ UNCHANGED <<nleft, answer>>
     \/ Fail /\ UNCHANGED nleft
  /\ UNCHANGED <<call, rio, server, wire>>
-----------------------------------------------------------------------------
(* Reading.                                                                *)

Reading == stage \in {"status", "headers", "body"}

\* mutant: reads again while the last byte is still in the buffer
Refill_Early ==
  /\ Reading /\ rio_cnt <= 1 /\ wire # << >>
  /\ \E n \in 1 .. Len(wire) :
       /\ n <= RIO_BUFSIZE
       /\ unread' = SubSeq(wire, 1, n) /\ rio_cnt' = n
       /\ wire' = SubSeq(wire, n + 1, Len(wire))
  /\ UNCHANGED <<stage, call, nleft, line, taken, answer, server>>

(* read returns some of the bytes that are there. *)
Refill ==
  /\ Reading /\ rio_cnt <= 0 /\ wire # << >>
  /\ \E n \in 1 .. Len(wire) :
       /\ n <= RIO_BUFSIZE
       /\ unread' = SubSeq(wire, 1, n) /\ rio_cnt' = n
       /\ wire' = SubSeq(wire, n + 1, Len(wire))
  /\ UNCHANGED <<stage, call, nleft, line, taken, answer, server>>

(* EINTR: rio_cnt stays -1 until the read that follows. *)
Interrupted ==
  /\ Reading /\ rio_cnt <= 0
  /\ rio_cnt' = -1
  /\ UNCHANGED <<stage, call, nleft, unread, line, taken, answer, server, wire>>

ReadFails ==
  /\ Reading /\ rio_cnt <= 0
  /\ rio_cnt' = -1 /\ Fail
  /\ UNCHANGED <<call, nleft, unread, line, taken, server, wire>>

\* mutant: takes the rest of the headers for the body
Got_NoHeaders(l) ==
  \/ stage = "status"  /\ l[1] = "200" /\ stage' = "body" /\ UNCHANGED answer
  \/ stage = "status"  /\ l[1] # "200" /\ Fail
  \/ stage = "headers" /\ UNCHANGED <<stage, answer>>
  \/ stage = "body"    /\ stage' = "done" /\ status_msg' = l /\ ret' = IF l = <<"OK">> THEN 0 ELSE -1

(* What submitr does with a line.  That the reason after an error code may  *)
(* not fit into status_msg, or not be there, is left out.                  *)
Got(l) ==
  \/ stage = "status"  /\ l[1] = "200" /\ stage' = "headers" /\ UNCHANGED answer
  \/ stage = "status"  /\ l[1] # "200" /\ Fail
  \/ stage = "headers" /\ stage' = (IF l = <<"\r", "\n">> THEN "body" ELSE "headers")
                    /\ UNCHANGED answer
  \/ stage = "body"    /\ stage' = "done" /\ status_msg' = l /\ ret' = IF l = <<"OK">> THEN 0 ELSE -1

(* rio_readlineb's loop stops after a newline, or when buf is full. *)
LineEnds(l) == l[Len(l)] = "\n" \/ Len(l) = SUBMITR_MAXBUF - 1

(* rio_read hands out one byte. *)
TakeByte ==
  LET c == Head(unread)
      l == Append(line, c)
  IN  /\ Reading /\ rio_cnt > 0
      /\ unread' = Tail(unread) /\ rio_cnt' = rio_cnt - 1
      /\ taken' = Append(taken, c)
      /\ IF LineEnds(l) THEN Got(l) /\ line' = << >>
         ELSE line' = l /\ UNCHANGED <<stage, answer>>
      /\ UNCHANGED <<call, nleft, server, wire>>

\* mutant: takes the end of the stream for an interruption
EndOfStream_Retries ==
  /\ Reading /\ rio_cnt <= 0 /\ wire = << >> /\ closed
  /\ rio_cnt' = 0
  /\ UNCHANGED <<stage, call, nleft, unread, line, taken, answer, server, wire>>

(* At the end of the stream the rest is a line, but no rest is an error.   *)
EndOfStream ==
  /\ Reading /\ rio_cnt <= 0 /\ wire = << >> /\ closed
  /\ rio_cnt' = 0
  /\ IF line = << >> THEN Fail ELSE Got(line)
  /\ line' = << >>
  /\ UNCHANGED <<call, nleft, unread, taken, server, wire>>
-----------------------------------------------------------------------------
(* The server answers while the request is written or after, and closes    *)
(* the connection when it is through, or breaks it.                        *)
ServerSends ==
  /\ stage \notin CallEnded \cup {"post", "submit"} /\ ~closed /\ at < Len(response)
  /\ at' = at + 1 /\ wire' = Append(wire, response[at + 1])
  /\ UNCHANGED <<stage, call, nleft, rio, answer, response, closed>>

ServerCloses ==
  /\ stage \notin CallEnded \cup {"post", "submit"} /\ ~closed
  /\ closed' = TRUE
  /\ UNCHANGED <<stage, call, nleft, rio, answer, response, at, wire>>

Client == driver_post \/ submitr \/ rio_writen \/ Refill \/ TakeByte \/ EndOfStream

Server == ServerSends \/ ServerCloses

SubmitNext == Client \/ Interrupted \/ ReadFails \/ Server

(* The driver runs, and a read that was interrupted is tried again.  A read *)
(* need not fail, and nothing is asked of the server.                       *)
SubmitSpec == SubmitInit /\ [][SubmitNext]_submitVars /\ WF_submitVars(Client)
-----------------------------------------------------------------------------
SubmitTypeOK ==
  /\ stage \in {"post", "submit", "write", "status", "headers", "body"} \cup CallEnded
  /\ autograded \in BOOLEAN /\ user_set \in BOOLEAN /\ result \in Results
  /\ nleft \in Nat /\ rio_cnt \in Int
  /\ unread \in Seq(Byte) /\ line \in Seq(Byte) /\ taken \in Seq(Byte) /\ wire \in Seq(Byte)
  /\ ret \in {0, -1} /\ status_msg \in Seq(Byte \cup {"Error"})
  /\ response \in Responses /\ at \in 0 .. Len(response) /\ closed \in BOOLEAN

(* However read cuts the answer up, and however often it is interrupted or  *)
(* fails, rio_read hands out what the server sent: no byte is lost, doubled *)
(* or out of its place, and rio_cnt counts the bytes that are still in the  *)
(* buffer.                                                                  *)
StreamIntact ==
  /\ taken \o unread \o wire = SubSeq(response, 1, at)
  /\ rio_cnt = Len(unread) \/ (rio_cnt = -1 /\ unread = << >>)

(* Neither the request, with an encoded result in it, nor a line of the     *)
(* answer, however long, goes past buf, the terminator included.            *)
BufferNeverOverflows ==
  /\ nleft + 1 <= SUBMITR_MAXBUF
  /\ Len(line) + 1 <= SUBMITR_MAXBUF - 1

(* Each of s's lines is read by one call of rio_readlineb. *)
LinesFit(s) ==
  \A b \in 1 .. Len(s) - (SUBMITR_MAXBUF - 2) :
    \E j \in b .. b + (SUBMITR_MAXBUF - 2) : s[j] = "\n"

(* An answer with code 200 whose text after the first empty line is OK. *)
EmptyLine(s, b) == b + 2 <= Len(s) /\ SubSeq(s, b, b + 2) = <<"\n", "\r", "\n">>

Accepts(s) ==
  /\ s # << >> /\ s[1] = "200"
  /\ \E b \in 1 .. Len(s) : /\ EmptyLine(s, b) /\ \A j \in 1 .. b - 1 : ~EmptyLine(s, j)
                            /\ SubSeq(s, b + 3, Len(s)) = <<"OK">>

(* Unless it ends with one of its own errors, submitr judges an answer whose *)
(* lines fit by what it says and not by the pieces it came in: 0 if and only *)
(* if the bytes received are a complete acceptance.                          *)
VerdictFromTheAnswer ==
  stage = "done" /\ ~autograded /\ status_msg # <<"Error">> /\ LinesFit(taken)
    => (ret = 0 <=> Accepts(taken))

(* Once the server is gone, in whatever state it leaves the connection, the *)
(* driver comes to an end.                                                  *)
EndsWhenServerGone == closed ~> stage \in CallEnded
=============================================================================

------------------------------ MODULE Framing ------------------------------
(***************************************************************************)
(* How a byte stream is cut into messages. Both ends of a connection send  *)
(* delimiter, message, delimiter, and drop empty messages; they find the   *)
(* delimiters in two different ways. The client (tcp_client::read_bytes)    *)
(* collects what it received and searches it, starting where the last      *)
(* search can have missed a delimiter. The server                          *)
(* (epoll_v2::process_read2) matches byte by byte and remembers how much   *)
(* of a delimiter it has seen. A chunk is what one call of recv returned.  *)
(***************************************************************************)
EXTENDS Integers, Sequences, SequencesExt

CONSTANTS
  Bytes,
  Delims,     \* the delimiters (det_string)
  MaxStream   \* bound: the length of the stream

VARIABLES
  delim,      \* the delimiter of the connection
  taken,      \* the bytes received so far
  cli, srv    \* the state of the two ends and the messages they have passed on

frameVars == <<delim, taken, cli, srv>>

OccursAt(m, det, i) ==
  i + Len(det) <= Len(m) /\ SubSeq(m, i + 1, i + Len(det)) = det

\* Where std::string::find(det, s) finds the delimiter, -1 for npos
FindDelim(m, det, s) ==
    LET at == {i \in s .. Len(m) : OccursAt(m, det, i)}
    IN  IF at = {} THEN -1 ELSE CHOOSE i \in at : \A j \in at : i <= j

Drop(m, n) == SubSeq(m, n + 1, Len(m))

----------------------------------------------------------------------------
(***************************************************************************)
(* The client: m and s are the thread_local variables of read_bytes.       *)
(***************************************************************************)
ClientStart == [m |-> <<>>, s |-> 0, out |-> <<>>]

\* Where the next search begins when this one found nothing
SearchFrom(m, det, s) == IF Len(m) > Len(det) THEN Len(m) - Len(det) ELSE s

\* The lambda check(), called as long as it returns true
RECURSIVE Check(_, _)
Check(st, det) ==
    LET f == FindDelim(st.m, det, st.s)
    IN  IF f = -1
        THEN [st EXCEPT !.s = SearchFrom(st.m, det, st.s)]
        ELSE Check([m   |-> Drop(st.m, f + Len(det)),
                    s   |-> 0,
                    out |-> IF f = 0 THEN st.out
                            ELSE Append(st.out, SubSeq(st.m, 1, f))], det)

ReadBytes(st, chunk, det) == Check([st EXCEPT !.m = @ \o chunk], det)

----------------------------------------------------------------------------
(***************************************************************************)
(* The server: message_helper.                                             *)
(***************************************************************************)
ServerStart == [message |-> <<>>, del_message |-> <<>>, out |-> <<>>]

\* f_add_message
AddMessage(st) ==
    [ServerStart EXCEPT !.out = IF st.message = <<>> THEN st.out
                                ELSE Append(st.out, st.message)]

\* The byte that goes on with a delimiter; seek_delimeter is the length of
\* del_message less one
Continues(st, ch, det) == ch = det[Len(st.del_message) + 1]

\* Mutant: does not look at the byte again.
MismatchSkips(st, ch, det) ==
  [st EXCEPT !.message = Append(st.message \o st.del_message, ch), !.del_message = <<>>]

\* A byte that does not go on with the delimiter may begin another one
Mismatch(st, ch, det) ==
  LET msg == st.message \o st.del_message
  IN IF ch = det[1]
     THEN [st EXCEPT !.message = msg, !.del_message = <<ch>>]
     ELSE [st EXCEPT !.message = Append(msg, ch), !.del_message = <<>>]

ServerByte(st, ch, det) ==
    LET st1 == IF Continues(st, ch, det)
               THEN [st EXCEPT !.del_message = Append(@, ch)]
               ELSE Mismatch(st, ch, det)
    IN  IF Len(st1.del_message) = Len(det) THEN AddMessage(st1) ELSE st1

ProcessRead2(st, chunk, det) ==
    FoldLeft(LAMBDA s, ch : ServerByte(s, ch, det), st, chunk)

----------------------------------------------------------------------------
(***************************************************************************)
(* What both promise: the messages of a stream, however it is cut.         *)
(***************************************************************************)
RECURSIVE Messages(_, _)
Messages(stream, det) ==
    LET f == FindDelim(stream, det, 0)
    IN  IF f = -1 THEN <<>>
        ELSE (IF f = 0 THEN <<>> ELSE <<SubSeq(stream, 1, f)>>)
             \o Messages(Drop(stream, f + Len(det)), det)

\* A delimiter for which starting again with the byte at hand is right: where a part of
\* it has been matched and ends with a shorter part of it, both go on with the same byte
Restartable(det) ==
  \A k \in 1 .. Len(det) - 1 : \A j \in 2 .. k :
    SubSeq(det, 1, j - 1) = SubSeq(det, k - j + 2, k) => det[j] = det[k + 1]

FrameInit ==
  /\ delim \in Delims
  /\ taken = <<>>
  /\ cli = ClientStart
  /\ srv = ServerStart

\* One recv at either end, of any size
Recv(chunk) ==
  /\ taken' = taken \o chunk
  /\ cli' = ReadBytes(cli, chunk, delim)
  /\ srv' = ProcessRead2(srv, chunk, delim)
  /\ UNCHANGED delim

FrameNext ==
  \E n \in 1 .. MaxStream - Len(taken) : \E chunk \in [1 .. n -> Bytes] : Recv(chunk)

\* However the stream is cut into reads, both ends have taken the same messages out of
\* what has come so far: those between the delimiters, found from the left, each as
\* soon as its delimiter is complete.  The server needs a delimiter that is Restartable.
FramesAgree ==
  /\ cli.out = Messages(taken, delim)
  /\ Restartable(delim) => srv.out = cli.out
============================================================================

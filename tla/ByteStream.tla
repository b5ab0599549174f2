----------------------------- MODULE ByteStream -----------------------------
(***************************************************************************)
(* What a pipe promises (src/kernal/include/pipe.h: "a unidirectional      *)
(* byte-stream channel"): bytes come out in the order they went in, none   *)
(* lost, invented or repeated, at most CAP of them in transit; the reader  *)
(* is told "end of file" only when the write end is closed and everything  *)
(* has been delivered, and then nothing follows.                           *)
(***************************************************************************)
EXTENDS Naturals, Sequences

CONSTANTS Data, CAP

VARIABLES
  q,      \* the bytes in transit
  out,    \* the byte delivered last
  ropen,  \* the read end is open
  wopen,  \* the write end is open
  eof     \* the reader has been told the end of the stream

Init ==
  /\ q = <<>>
  /\ out = 0
  /\ ropen = FALSE
  /\ wopen = FALSE
  /\ eof = FALSE

Open ==
  /\ ~ropen /\ ~wopen
  /\ q' = <<>>
  /\ ropen' = TRUE
  /\ wopen' = TRUE
  /\ eof' = FALSE
  /\ UNCHANGED out

Send(d) ==
  /\ wopen
  /\ Len(q) < CAP
  /\ q' = Append(q, d)
  /\ UNCHANGED <<out, ropen, wopen, eof>>

Deliver ==
  /\ ropen
  /\ q # <<>>
  /\ out' = Head(q)
  /\ q' = Tail(q)
  /\ UNCHANGED <<ropen, wopen, eof>>

EndOfFile ==
  /\ ropen
  /\ ~wopen
  /\ q = <<>>
  /\ eof' = TRUE
  /\ UNCHANGED <<q, out, ropen, wopen>>

CloseRead ==
  /\ ropen
  /\ ropen' = FALSE
  /\ UNCHANGED <<q, out, wopen, eof>>

CloseWrite ==
  /\ wopen
  /\ wopen' = FALSE
  /\ UNCHANGED <<q, out, ropen, eof>>

Next ==
  \/ Open
  \/ \E d \in Data : Send(d)
  \/ Deliver
  \/ EndOfFile
  \/ CloseRead
  \/ CloseWrite

Spec == Init /\ [][Next]_<<q, out, ropen, wopen, eof>>
=============================================================================

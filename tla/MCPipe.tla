------------------------------- MODULE MCPipe -------------------------------
(* A buffer of two bytes whose positions wrap at four, calls longer than   *)
(* the buffer, two tasks on the write end.                                 *)
EXTENDS Pipe

MCReaders == {1}
MCWriters == {2, 3}
MCData    == {0, 1}
=============================================================================

----------------------------- MODULE MCDesktop -----------------------------
EXTENDS Desktop

(* a press to the left, another button with a jump to the right, nothing   *)
(* held, and a packet that overflowed                                      *)
MCPackets ==
  {[buttons |-> {1}, dx |-> -1, over |-> FALSE], [buttons |-> {1, 2}, dx |-> 9, over |-> FALSE],
   [buttons |-> {}, dx |-> 9, over |-> FALSE], [buttons |-> {2}, dx |-> 0, over |-> TRUE]}

=============================================================================

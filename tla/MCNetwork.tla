----------------------------- MODULE MCNetwork -----------------------------
EXTENDS Network

(* One connection, most bytes one way or the other, or two connections.    *)
MCLimits == {[opens |-> 1, bytes |-> 2, peer |-> 1],
             [opens |-> 1, bytes |-> 1, peer |-> 3],
             [opens |-> 2, bytes |-> 1, peer |-> 1]}

=============================================================================

--------------------------- MODULE PriorityQueues ---------------------------
(***************************************************************************)
(* What message queues promise (src/kernal/include/msgqueue.h): messages   *)
(* of a queue are received by priority, highest first, and within a        *)
(* priority in the order they were sent; at most MAX wait in a queue.      *)
(***************************************************************************)
EXTENDS Integers, Sequences, FiniteSets

CONSTANTS
  Ids,     \* the queues, open or not
  Prios,   \* the priorities
  Msgs,    \* the messages, records with a field "prio"
  NoMsg,   \* before the first one is received
  MAX      \* MQ_MAX_MSGS

VARIABLES
  box,     \* box[i][p]: the messages of priority p that wait in queue i
  last     \* the message just received

Empty   == [p \in Prios |-> <<>>]

(* how many wait, by their priorities and places; MAX are enough to count  *)
Size(b) == Cardinality({w \in Prios \X (1 .. MAX) : w[2] <= Len(b[w[1]])})

Init ==
  /\ box = [i \in Ids |-> Empty]
  /\ last = NoMsg

Send(i, m) ==
  /\ Size(box[i]) < MAX
  /\ box' = [box EXCEPT ![i][m.prio] = Append(@, m)]
  /\ UNCHANGED last

Receive(i, p) ==
  /\ box[i][p] # <<>>
  /\ \A q \in Prios : q > p => box[i][q] = <<>>
  /\ last' = Head(box[i][p])
  /\ box' = [box EXCEPT ![i][p] = Tail(@)]

(* A queue that is closed loses its messages.                              *)
Close(i) ==
  /\ box' = [box EXCEPT ![i] = Empty]
  /\ UNCHANGED last

Forget ==
  /\ last' = NoMsg
  /\ UNCHANGED box

Next ==
  \/ Forget
  \/ \E i \in Ids, m \in Msgs : Send(i, m)
  \/ \E i \in Ids, p \in Prios : Receive(i, p)
  \/ \E i \in Ids : Close(i)

Spec == Init /\ [][Next]_<<box, last>>
=============================================================================

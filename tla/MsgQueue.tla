------------------------------ MODULE MsgQueue ------------------------------
(***************************************************************************)
(* The message queues of src/kernal/ipc/msgqueue.c: a table of named       *)
(* queues, each an array of messages sorted by priority under a mutex.     *)
(*                                                                         *)
(* The array is only touched by the owner of the mutex, so an insertion    *)
(* or a removal with its shifting is one step; finding the queue by its id *)
(* comes before the mutex and is a step of its own.                        *)
(*                                                                         *)
(* mq_open and mq_close take no lock.  The tasks keep to what that asks    *)
(* for: queues are opened by one task at a time, and a queue is closed     *)
(* when no call on it is in progress.                                      *)
(***************************************************************************)
EXTENDS Integers, Sequences, SequencesExt, Mutex

CONSTANTS
  Users,   \* task ids
  Names,   \* names of queues
  NSlots,  \* MQ_MAX_QUEUES
  MAX,     \* MQ_MAX_MSGS
  Prios,   \* the priorities that are used, 0 .. 255
  MaxId    \* bound: ids handed out by next_qid

ASSUME MsgQueueAssumption ==
  /\ Users \subseteq Nat \ {0}
  /\ NSlots \in Nat \ {0}
  /\ MAX \in Nat \ {0}
  /\ Prios \subseteq Nat
  /\ MaxId \in Nat

Slots == 1 .. NSlots
Ids   == 1 .. MaxId

(* A payload is told by its sender and the queue it was meant for.         *)
Msgs  == [prio : Prios, from : Users, to : Ids]
NoMsg == [prio |-> 0, from |-> 0, to |-> 0]

VARIABLES
  table,    \* queues[]: used, name, id, msgs and lock of every slot
  nextId,   \* next_qid
  progress, \* where each task is
  call,     \* the call it is in: op, qid, prio
  slot,     \* q: the slot it found
  last      \* ghost: the message a receiver that is about to leave has taken,
            \* and the id it asked for

queueVars == <<table, nextId, progress, call, slot, last>>

Queue == [used : BOOLEAN, name : Names \cup {""}, id : Ids \cup {0},
          msgs : BoundedSeq(Msgs, MAX), lock : Mutexes(Users, 1)]

Free == [used |-> FALSE, name |-> "", id |-> 0, msgs |-> <<>>, lock |-> Unlocked]

Ops     == {"send", "recv", "tryrecv"}
Nothing == [msg |-> NoMsg, asked |-> 0]
NoCall  == [op |-> "recv", qid |-> 0, prio |-> 0]

QueueTypeOK ==
  /\ table \in [Slots -> Queue]
  /\ nextId \in 1 .. MaxId + 1
  /\ progress \in [Users -> {"idle", "lock", "check", "again", "unlock"}]
  /\ call \in [Users -> [op : Ops, qid : Ids \cup {0}, prio : Prios \cup {0}]]
  /\ slot \in [Users -> Slots]
  /\ last \in [msg : Msgs \cup {NoMsg}, asked : Ids \cup {0}]

(* mq_init                                                                 *)
QueueInit ==
  /\ table = [s \in Slots |-> Free]
  /\ nextId = 1
  /\ progress = [t \in Users |-> "idle"]
  /\ call = [t \in Users |-> NoCall]
  /\ slot = [t \in Users |-> 1]
  /\ last = Nothing

-----------------------------------------------------------------------------
(* Opening and closing *)

First(S) == CHOOSE s \in S : \A r \in S : s <= r

(* mq_open of a name no open queue has: the first free slot.  Of a name    *)
(* that exists it only returns the id.                                     *)
Open(name) ==
  LET free == {s \in Slots : ~table[s].used}
  IN  /\ nextId <= MaxId
      /\ ~ \E s \in Slots : table[s].used /\ table[s].name = name
      /\ free # {}
      /\ table' = [table EXCEPT ![First(free)] =
                     [used |-> TRUE, name |-> name, id |-> nextId,
                      msgs |-> <<>>, lock |-> Unlocked]]
      /\ nextId' = nextId + 1
      /\ UNCHANGED <<progress, call, slot, last>>

(* mq_close: only the mark is taken away; the messages stay until the      *)
(* slot is opened again.                                                   *)
Close(s) ==
  /\ table[s].used
  /\ \A t \in Users : slot[t] = s => progress[t] = "idle"
  /\ table' = [table EXCEPT ![s].used = FALSE]
  /\ UNCHANGED <<nextId, progress, call, slot, last>>

-----------------------------------------------------------------------------
(* Sending and receiving *)

(* Mutant: a slot is found by its id, open or not.                         *)
FoundClosed(qid) == {s \in Slots : table[s].id = qid}

Found(qid) == {s \in Slots : table[s].used /\ table[s].id = qid}

(* A call on an id no open queue has returns -1.                           *)
Refused(t, c) ==
  /\ progress[t] = "idle"
  /\ Found(c.qid) = {}
  /\ UNCHANGED queueVars

(* A call that finds its queue.                                            *)
Call(t, c) ==
  /\ progress[t] = "idle"
  /\ Found(c.qid) # {}
  /\ slot' = [slot EXCEPT ![t] = First(Found(c.qid))]
  /\ call' = [call EXCEPT ![t] = c]
  /\ progress' = [progress EXCEPT ![t] = "lock"]
  /\ UNCHANGED <<table, nextId, last>>

Lock(t) ==
  LET m == table[slot[t]].lock
  IN  /\ progress[t] \in {"lock", "again"}
      /\ Lockable(m, t)
      /\ table' = [table EXCEPT ![slot[t]].lock = Locked(m, t)]
      /\ progress' = [progress EXCEPT ![t] = "check"]
      /\ UNCHANGED <<nextId, call, slot, last>>

(* The task leaves the mutex.                                              *)
GiveBack(t, place) ==
  /\ table' = [table EXCEPT ![slot[t]].lock = Released(@)]
  /\ progress' = [progress EXCEPT ![t] = place]
  /\ last' = Nothing
  /\ UNCHANGED <<nextId, slot>>

Done(t, msgs) ==
  /\ table' = [table EXCEPT ![slot[t]].msgs = msgs]
  /\ progress' = [progress EXCEPT ![t] = "unlock"]
  /\ UNCHANGED <<nextId, call, slot>>

(* The place behind the messages of at least a priority.                   *)
Behind(msgs, p) == First({k \in 1 .. Len(msgs) : msgs[k].prio < p} \cup {Len(msgs) + 1})

(* Mutant: in front of the messages of the same priority.                  *)
InsertedFirst(msgs, m) == InsertAt(msgs, Behind(msgs, m.prio + 1), m)

(* The messages from there on are shifted down.                            *)
Inserted(msgs, m) == InsertAt(msgs, Behind(msgs, m.prio), m)

Sending(t)   == progress[t] = "check" /\ call[t].op = "send"
Receiving(t) == progress[t] = "check" /\ call[t].op \in {"recv", "tryrecv"}
Messages(t)  == table[slot[t]].msgs

(* mq_send                                                                 *)
SendWaits(t) ==
  /\ Sending(t)
  /\ Len(Messages(t)) >= MAX
  /\ GiveBack(t, "again")
  /\ UNCHANGED call

(* Mutant: the limit is tested when it is already passed.                  *)
SendOver(t) ==
  /\ Sending(t)
  /\ Len(Messages(t)) <= MAX
  /\ Done(t, Inserted(Messages(t), [prio |-> call[t].prio, from |-> t, to |-> call[t].qid]))
  /\ UNCHANGED last

Send(t) ==
  /\ Sending(t)
  /\ Len(Messages(t)) < MAX
  /\ Done(t, Inserted(Messages(t), [prio |-> call[t].prio, from |-> t, to |-> call[t].qid]))
  /\ UNCHANGED last

(* Mutant: a receiver leaves the last message alone.                       *)
ReceiveNotLast(t) ==
  /\ Receiving(t)
  /\ Len(Messages(t)) > 1
  /\ last' = [msg |-> Head(Messages(t)), asked |-> call[t].qid]
  /\ Done(t, Tail(Messages(t)))

(* mq_recv, mq_tryrecv: take the head ...                                  *)
Receive(t) ==
  /\ Receiving(t)
  /\ Messages(t) # <<>>
  /\ last' = [msg |-> Head(Messages(t)), asked |-> call[t].qid]
  /\ Done(t, Tail(Messages(t)))

(* ... or find nothing: one waits, the other returns 0.                    *)
ReceiveWaits(t) ==
  /\ Receiving(t)
  /\ Messages(t) = <<>>
  /\ call[t].op = "recv"
  /\ GiveBack(t, "again")
  /\ UNCHANGED call

ReceiveNothing(t) ==
  /\ Receiving(t)
  /\ Messages(t) = <<>>
  /\ call[t].op = "tryrecv"
  /\ GiveBack(t, "idle")
  /\ call' = [call EXCEPT ![t] = NoCall]

Unlock(t) ==
  /\ progress[t] = "unlock"
  /\ GiveBack(t, "idle")
  /\ call' = [call EXCEPT ![t] = NoCall]

Step(t) ==
  \/ SendWaits(t) \/ Send(t)
  \/ Receive(t) \/ ReceiveWaits(t) \/ ReceiveNothing(t)
  \/ Unlock(t)

Calls ==
  [op : {"send"}, qid : Ids, prio : Prios] \cup [op : {"recv", "tryrecv"}, qid : Ids, prio : {0}]

QueueNext ==
  \/ \E name \in Names : Open(name)
  \/ \E s \in Slots : Close(s)
  \/ \E t \in Users : Lock(t) \/ Step(t)
  \/ \E t \in Users, c \in Calls : Refused(t, c) \/ Call(t, c)

QueueSpec == QueueInit /\ [][QueueNext]_queueVars

(* As for pipes: inside a call a task keeps running, mutex_lock polls.     *)
QueueFairSpec == QueueSpec /\ \A t \in Users : WF_queueVars(Step(t)) /\ SF_queueVars(Lock(t))

-----------------------------------------------------------------------------
(* Properties *)

(* The messages of priority p stand together in the array.                 *)
OfPriority(msgs, p) == SubSeq(msgs, Behind(msgs, p + 1), Behind(msgs, p) - 1)

Waiting(i, p) ==
  IF Found(i) = {} THEN <<>> ELSE OfPriority(table[First(Found(i))].msgs, p)

Boxes == [i \in Ids |-> [p \in Prios |-> Waiting(i, p)]]

Abstract == INSTANCE PriorityQueues WITH box <- Boxes, last <- last.msg

(* msgqueue.h: "ordered by priority (highest first), then FIFO within the  *)
(* same priority".  The sorted array, filled and emptied by several tasks  *)
(* in slots that are closed and opened again, is that queue.               *)
ImplementsQueues == Abstract!Spec

(* A receiver only gets messages that were sent to the queue it asked      *)
(* for, although a slot passes from one queue to another with the old      *)
(* messages in it and callers keep ids of queues that are closed.          *)
OwnQueue == last.msg.to = last.asked

(* A call comes to its end, or its queue is full (empty) for it: nobody    *)
(* stays blocked because a wake-up was lost.  mq_tryrecv ends always.      *)
CallsEnd ==
  \A t \in Users :
    (progress[t] # "idle") ~>
       \/ progress[t] = "idle"
       \/ call[t].op = "send" /\ Len(Messages(t)) >= MAX
       \/ call[t].op = "recv" /\ Messages(t) = <<>>
=============================================================================

------------------------------ MODULE UnixSock ------------------------------
(***************************************************************************)
(* The sockets of src/kernal/ipc/unix_sock.c.  The table is worked on      *)
(* under its spinlock, a ring under its mutex (Mutex.tla): a call that     *)
(* waits sleeps 5 ms without the mutex and looks again, so each look is    *)
(* one step.  A byte is told by its message and its place in it.           *)
(***************************************************************************)
EXTENDS Integers, Sequences, FiniteSets, SequencesExt

CONSTANTS
  SockSlots,   \* UNIX_SOCK_MAX
  SOCKBUF,     \* UNIX_SOCK_BUF_SIZE
  Rings,       \* memory the heap has for rings
  Names,       \* names of sockets
  SockTasks,   \* tasks that send and receive
  SendLens,    \* lengths of messages
  RecvLens,    \* sizes of receive buffers
  MaxIds,      \* bound: sockets ever made
  MaxMessages  \* bound: messages ever sent

ASSUME UnixSockAssumption ==
  /\ SockSlots \in Nat \ {0} /\ SOCKBUF \in Nat \ {0}
  /\ SendLens \subseteq Nat \ {0} /\ RecvLens \subseteq Nat \ {0}
  /\ MaxIds \in Nat /\ MaxMessages \in Nat

Table  == 1 .. SockSlots
Ids    == 1 .. MaxIds
Bytes  == [msg : 1 .. MaxMessages, at : Nat \ {0}, len : Nat, from : Ids]
NoRing == "no ring"

VARIABLES
  sockets,   \* the table
  ringBuf,   \* the bytes in each ring
  ringsUsed, \* rings the heap has given out
  sockTask,  \* what each task is in: the ring it was led to, and what for
  next_id,   \* naechste_id, less one: sockets made
  messages,  \* ghost: messages begun
  readOut,   \* ghost: what was read from each ring since it was made
  pulled     \* ghost: rings freed under a call

sockVars == <<sockets, ringBuf, ringsUsed, sockTask, next_id, messages, readOut, pulled>>

SockFree == [state |-> "FREI", id |-> 0, name |-> "", rx |-> NoRing, tx |-> NoRing, peer |-> 0]
TaskIdle == [op |-> "idle", ring |-> NoRing, id |-> 0, len |-> 0, msg |-> 0]

SockTypeOK ==
  /\ sockets \in [Table -> [state : {"FREI", "HOERT", "VERBUNDEN"}, id : 0 .. MaxIds,
                            name : Names \cup {""}, rx : Rings \cup {NoRing},
                            tx : Rings \cup {NoRing}, peer : 0 .. MaxIds]]
  /\ ringBuf \in [Rings -> Seq(Bytes)]
  /\ \A r \in Rings : Len(ringBuf[r]) <= SOCKBUF
  /\ ringsUsed \subseteq Rings
  /\ sockTask \in [SockTasks -> [op : {"idle", "send", "recv"}, ring : Rings \cup {NoRing},
                                 id : 0 .. MaxIds, len : Nat, msg : 0 .. MaxMessages]]
  /\ next_id \in 0 .. MaxIds /\ messages \in 0 .. MaxMessages

SockInit ==
  /\ sockets = [i \in Table |-> SockFree]
  /\ ringBuf = [r \in Rings |-> <<>>]
  /\ ringsUsed = {}
  /\ sockTask = [t \in SockTasks |-> TaskIdle]
  /\ next_id = 0 /\ messages = 0
  /\ readOut = [r \in Rings |-> <<>>]
  /\ pulled = {}

Taken == {i \in Table : sockets[i].state # "FREI"}

(* freier_slot, suche_name: the first there is                             *)
FreeSlots    == Table \ Taken
Named(name)  == {i \in Taken : sockets[i].name = name}
Numbered(id) == {i \in Taken : sockets[i].id = id}

-----------------------------------------------------------------------------
(* unix_sock_create.  Without memory for both rings there is no socket.    *)
SockCreate(name) ==
  /\ Named(name) = {} /\ FreeSlots # {}
  /\ next_id < MaxIds
  /\ \E rx, tx \in Rings \ ringsUsed :
       /\ rx # tx
       /\ sockets' = [sockets EXCEPT ![Min(FreeSlots)] =
                        [state |-> "HOERT", id |-> next_id + 1, name |-> name,
                         rx |-> rx, tx |-> tx, peer |-> 0]]
       /\ ringsUsed' = ringsUsed \cup {rx, tx}
       /\ ringBuf' = [r \in Rings |-> IF r \in {rx, tx} THEN <<>> ELSE ringBuf[r]]
       /\ readOut' = [r \in Rings |-> IF r \in {rx, tx} THEN <<>> ELSE readOut[r]]
  /\ next_id' = next_id + 1
  /\ UNCHANGED <<sockTask, messages, pulled>>

(* Mutant: the client gets the rings as the server has them.               *)
ClientStraight(server) ==
  [state |-> "VERBUNDEN", id |-> next_id + 1, name |-> server.name,
   rx |-> server.rx, tx |-> server.tx, peer |-> server.id]

(* the client's end: the server's rings crossed over                       *)
Client(server) ==
  [state |-> "VERBUNDEN", id |-> next_id + 1, name |-> server.name,
   rx |-> server.tx, tx |-> server.rx, peer |-> server.id]

(* unix_sock_connect                                                       *)
SockConnect(name) ==
  /\ Named(name) # {} /\ FreeSlots # {}
  /\ next_id < MaxIds
  /\ LET i == Min(Named(name))
     IN /\ sockets[i].state = "HOERT"
        /\ sockets' = [sockets EXCEPT ![i].state = "VERBUNDEN", ![i].peer = next_id + 1,
                                      ![Min(FreeSlots)] = Client(sockets[i])]
  /\ next_id' = next_id + 1
  /\ UNCHANGED <<ringBuf, ringsUsed, sockTask, messages, readOut, pulled>>

(* unix_sock_close: a listening socket gives its rings back, even to a     *)
(* call that waits at one; those of a connection are never given back.     *)
SockClose(id) ==
  /\ Numbered(id) # {}
  /\ LET i     == Min(Numbered(id))
         freed == IF sockets[i].state = "HOERT" THEN {sockets[i].rx, sockets[i].tx} ELSE {}
     IN /\ sockets' = [sockets EXCEPT ![i] = SockFree]
        /\ ringsUsed' = ringsUsed \ freed
        /\ pulled' = pulled \cup {r \in freed : \E t \in SockTasks : sockTask[t].ring = r}
  /\ UNCHANGED <<ringBuf, sockTask, next_id, messages, readOut>>

-----------------------------------------------------------------------------
(* unix_sock_send and unix_sock_recv find the ring without a lock and then *)
(* work on it, closed or not                                               *)

SockSend(t, id, len) ==
  /\ sockTask[t].op = "idle"
  /\ Numbered(id) # {} /\ messages < MaxMessages
  /\ LET s == sockets[Min(Numbered(id))]
     IN sockTask' = [sockTask EXCEPT ![t] = [op |-> "send", ring |-> s.tx, id |-> id,
                                             len |-> len, msg |-> messages + 1]]
  /\ messages' = messages + 1
  /\ UNCHANGED <<sockets, ringBuf, ringsUsed, next_id, readOut, pulled>>

SockRecv(t, id, len) ==
  /\ sockTask[t].op = "idle"
  /\ Numbered(id) # {}
  /\ LET s == sockets[Min(Numbered(id))]
     IN sockTask' = [sockTask EXCEPT ![t] = [op |-> "recv", ring |-> s.rx, id |-> id,
                                             len |-> len, msg |-> 0]]
  /\ UNCHANGED <<sockets, ringBuf, ringsUsed, next_id, messages, readOut, pulled>>

Message(t) ==
  [i \in 1 .. sockTask[t].len |->
     [msg |-> sockTask[t].msg, at |-> i, len |-> sockTask[t].len, from |-> sockTask[t].id]]

(* Mutant: one byte of room is enough.                                     *)
SchreibenFull(t) ==
  LET r == sockTask[t].ring
  IN /\ sockTask[t].op = "send"
     /\ Len(ringBuf[r]) < SOCKBUF
     /\ ringBuf' = [ringBuf EXCEPT ![r] = @ \o Message(t)]
     /\ sockTask' = [sockTask EXCEPT ![t] = TaskIdle]
     /\ UNCHANGED <<sockets, ringsUsed, next_id, messages, readOut, pulled>>

(* puffer_schreiben: all of the message, once there is room for it         *)
Schreiben(t) ==
  LET r == sockTask[t].ring
  IN /\ sockTask[t].op = "send"
     /\ Len(ringBuf[r]) + sockTask[t].len <= SOCKBUF
     /\ ringBuf' = [ringBuf EXCEPT ![r] = @ \o Message(t)]
     /\ sockTask' = [sockTask EXCEPT ![t] = TaskIdle]
     /\ UNCHANGED <<sockets, ringsUsed, next_id, messages, readOut, pulled>>

(* puffer_lesen: what there is, as far as the buffer goes                  *)
Lesen(t) ==
  LET r == sockTask[t].ring
      n == IF Len(ringBuf[r]) < sockTask[t].len THEN Len(ringBuf[r]) ELSE sockTask[t].len
  IN /\ sockTask[t].op = "recv"
     /\ ringBuf[r] # <<>>
     /\ readOut' = [readOut EXCEPT ![r] = @ \o SubSeq(ringBuf[r], 1, n)]
     /\ ringBuf' = [ringBuf EXCEPT ![r] = SubSeq(@, n + 1, Len(@))]
     /\ sockTask' = [sockTask EXCEPT ![t] = TaskIdle]
     /\ UNCHANGED <<sockets, ringsUsed, next_id, messages, pulled>>

SockNext ==
  \/ \E n \in Names : SockCreate(n) \/ SockConnect(n)
  \/ \E id \in Ids : SockClose(id)
  \/ \E t \in SockTasks, id \in Ids :
       (\E len \in SendLens : SockSend(t, id, len)) \/ (\E len \in RecvLens : SockRecv(t, id, len))
  \/ \E t \in SockTasks : Schreiben(t) \/ Lesen(t)

-----------------------------------------------------------------------------
(* Until a listening socket is closed under a call: every ring is one      *)
(* direction of one connection.  What went through it are whole messages,  *)
(* one after the other, from one end; the other end, if any, reads it; and *)
(* the rings of open sockets belong to the table.                          *)
Stream(r) == readOut[r] \o ringBuf[r]

MessagesWhole ==
  pulled = {} =>
    /\ \A r \in Rings : \A i \in DOMAIN Stream(r) :
         LET b == Stream(r)[i]
         IN /\ b.from = Stream(r)[1].from
            /\ b.at > 1 => i > 1 /\ Stream(r)[i - 1] = [b EXCEPT !.at = @ - 1]
            /\ b.at < b.len => i < Len(Stream(r))
    /\ \A i \in Taken :
         /\ {sockets[i].rx, sockets[i].tx} \subseteq ringsUsed
         /\ \A j \in Taken \ {i} :
              IF sockets[i].peer = sockets[j].id
              THEN sockets[j].peer = sockets[i].id /\ sockets[i].rx = sockets[j].tx
                   /\ sockets[i].tx = sockets[j].rx
              ELSE {sockets[i].rx, sockets[i].tx} \cap {sockets[j].rx, sockets[j].tx} = {}
         /\ \A b \in ToSet(Stream(sockets[i].rx)) : b.from # sockets[i].id

=============================================================================

-------------------------------- MODULE Tcp --------------------------------
(***************************************************************************)
(* The TCP of src/kernal/net/tcp.c: a table of connections, a task that    *)
(* opens, uses and closes one after the other, and tcp_receive, which      *)
(* answers segments in an interrupt.  The file has no passive open and no  *)
(* retransmission; nothing in the tree calls tcp_receive, the header says  *)
(* that the IP layer does.                                                 *)
(*                                                                         *)
(* The peer is an RFC 793 endpoint; segments in flight are a set: each may *)
(* arrive late, out of order, twice or never.  A byte of data is told by   *)
(* its position in the stream it belongs to.                               *)
(***************************************************************************)
EXTENDS Integers, Sequences, FiniteSets, SequencesExt

CONSTANTS
  NConns,   \* TCP_MAX_CONNS
  RXBUF,    \* TCP_RXBUF_SIZE
  MSS,      \* TCP_MSS
  Windows,  \* the windows the peer advertises
  Limits    \* bounds a behaviour may have: connections attempted, and bytes
            \* this side and the peer send on one

ASSUME TcpAssumption ==
  /\ NConns \in Nat \ {0}
  /\ RXBUF \in Nat \ {0, 1}
  /\ MSS \in Nat \ {0}
  /\ Windows \subseteq Nat
  /\ Limits \subseteq [opens : Nat, bytes : Nat, peer : Nat] /\ IsFiniteSet(Limits)

Conns  == 1 .. NConns
States == {"CLOSED", "SYN_SENT", "ESTABLISHED", "LAST_ACK"}

VARIABLES
  conns,   \* conns[]
  task,    \* the calling task: its connection, what it is in, bytes to go and
           \* what its send has yet to add to snd_nxt
  opens,   \* connections attempted; the n-th has local port n
  sent,    \* ghost: bytes tcp_send has put into segments of this connection
  out,     \* segments in flight to the peer
  in,      \* segments in flight from the peer
  peer,    \* the other end
  limit    \* the bounds of this behaviour

tcpVars == <<conns, task, opens, sent, out, in, peer, limit>>

Segment == [flags : SUBSET {"SYN", "ACK", "FIN"}, port : Nat, seq : Nat,
            ack : Nat, win : Nat, data : Seq(Nat)]

Unused == [used |-> FALSE, state |-> "CLOSED", port |-> 0, snd_nxt |-> 0, snd_una |-> 0,
           snd_wnd |-> 0, rcv_nxt |-> 0, rcv_wnd |-> 0, rx_head |-> 0, rx_tail |-> 0]

(* Sequence numbers start at random in the code (tcp_isn, rand_u32).  Two  *)
(* connections have disjoint ranges here and different local ports, which  *)
(* the code draws from 16383; a chance collision is left out.              *)
Isn(n)     == 20 * n
PeerIsn(n) == 20 * n + 10

TcpTypeOK ==
  /\ conns \in [Conns -> [used : BOOLEAN, state : States, port : 0 .. opens,
                          snd_nxt : Nat, snd_una : Nat, snd_wnd : Nat,
                          rcv_nxt : Nat, rcv_wnd : 0 .. RXBUF + 1,
                          rx_head : Nat, rx_tail : Nat]]
  /\ task.at \in {"none", "open", "connecting", "connected", "sending", "broken"}
  /\ IF task.at = "none" THEN task.sock = 0 ELSE task.sock \in Conns
  /\ task.todo \in 0 .. limit.bytes
  /\ task.owed \in 0 .. MSS
  /\ opens \in 0 .. limit.opens
  /\ sent \in 0 .. limit.bytes
  /\ out \cup in \subseteq Segment
  /\ peer.port \in 0 .. opens
  /\ limit \in Limits

(* tcp_init; the peer waits for a connection                               *)
TcpInit ==
  /\ conns = [c \in Conns |-> Unused]
  /\ task = [sock |-> 0, at |-> "none", todo |-> 0, owed |-> 0]
  /\ opens = 0
  /\ sent = 0
  /\ out = {}
  /\ in = {}
  /\ peer = [port |-> 0, next |-> 0, got |-> <<>>, snd |-> 0, base |-> 0, fin |-> FALSE]
  /\ limit \in Limits

-----------------------------------------------------------------------------
(* The receive ring: rx_head is where the next byte is stored *)

Used(c) == (c.rx_head - c.rx_tail) % RXBUF
Room(c) == RXBUF - 1 - Used(c)

(* tcp_send_segment: what goes out, and what it adds to snd_nxt.  A        *)
(* segment ip4_send cannot place is lost like any other.                   *)
Carried(c, flags, data) ==
  [flags |-> flags, port |-> c.port, seq |-> c.snd_nxt,
   ack |-> IF "ACK" \in flags THEN c.rcv_nxt ELSE 0, win |-> c.rcv_wnd, data |-> data]

SeqSpace(flags, data) ==
  Len(data) + Cardinality(flags \cap {"SYN", "FIN"})

Mine == conns[task.sock]

-----------------------------------------------------------------------------
(* The calls of the task *)

(* tcp_socket: the first unused entry, cleared                             *)
Socket ==
  /\ task.at = "none"
  /\ opens < limit.opens
  /\ \E c \in Conns :
       /\ ~conns[c].used
       /\ \A d \in 1 .. c - 1 : conns[d].used
       /\ conns' = [conns EXCEPT ![c] = [Unused EXCEPT !.used = TRUE, !.rcv_wnd = RXBUF + 1]]
       /\ task' = [task EXCEPT !.sock = c, !.at = "open"]
  /\ UNCHANGED <<opens, sent, out, in, peer, limit>>

(* tcp_connect up to the wait.  The SYN is on its way before snd_nxt is    *)
(* advanced: an answer can interrupt in between.                           *)
Connect ==
  /\ task.at = "open"
  /\ LET n == opens + 1
         c == [Mine EXCEPT !.port = n, !.snd_una = Isn(n), !.snd_nxt = Isn(n),
                           !.state = "SYN_SENT"]
     IN /\ opens' = n
        /\ sent' = 0
        /\ conns' = [conns EXCEPT ![task.sock] = c]
        /\ out' = out \cup {Carried(c, {"SYN"}, <<>>)}
        /\ task' = [task EXCEPT !.at = "connecting", !.owed = 1]
  /\ UNCHANGED <<in, peer, limit>>

(* the end of tcp_send_segment                                             *)
Advance ==
  /\ task.owed > 0
  /\ conns' = [conns EXCEPT ![task.sock].snd_nxt = @ + task.owed]
  /\ task' = [task EXCEPT !.owed = 0]
  /\ UNCHANGED <<opens, sent, out, in, peer, limit>>

(* the loop of tcp_connect finds the state changed                         *)
Connected ==
  /\ task.at = "connecting" /\ task.owed = 0
  /\ Mine.state # "SYN_SENT"
  /\ task' = [task EXCEPT !.at = IF Mine.state = "ESTABLISHED" THEN "connected" ELSE "broken"]
  /\ UNCHANGED <<conns, opens, sent, out, in, peer, limit>>

(* or its deadline passes: the entry stays in use                          *)
ConnectTimeout ==
  /\ task.at = "connecting" /\ task.owed = 0
  /\ Mine.state \notin {"ESTABLISHED", "CLOSED"}
  /\ conns' = [conns EXCEPT ![task.sock].state = "CLOSED"]
  /\ task' = [task EXCEPT !.at = "broken"]
  /\ UNCHANGED <<opens, sent, out, in, peer, limit>>

(* tcp_send is called with n bytes                                         *)
SendCall(n) ==
  /\ task.at = "connected"
  /\ Mine.used /\ Mine.state = "ESTABLISHED"
  /\ sent + n <= limit.bytes
  /\ task' = [task EXCEPT !.at = "sending", !.todo = n]
  /\ UNCHANGED <<conns, opens, sent, out, in, peer, limit>>

(* one chunk; with a window of zero the call sleeps and looks again        *)
SendChunk ==
  /\ task.at = "sending" /\ task.owed = 0
  /\ task.todo > 0
  /\ LET chunk == Min({task.todo, MSS, Mine.snd_wnd})
         data  == [i \in 1 .. chunk |-> sent + i]
     IN /\ chunk > 0
        /\ out' = out \cup {Carried(Mine, {"ACK"}, data)}
        /\ sent' = sent + chunk
        /\ task' = [task EXCEPT !.todo = @ - chunk, !.owed = SeqSpace({}, data)]
  /\ UNCHANGED <<conns, opens, in, peer, limit>>

SendReturns ==
  /\ task.at = "sending" /\ task.owed = 0
  /\ task.todo = 0
  /\ task' = [task EXCEPT !.at = "connected"]
  /\ UNCHANGED <<conns, opens, sent, out, in, peer, limit>>

(* tcp_recv of up to n bytes: it reads at rx_head and moves both ends, so  *)
(* the ring holds as much as before                                        *)
Recv(n) ==
  /\ task.at = "connected"
  /\ Mine.used
  /\ Used(Mine) > 0
  /\ Mine.rx_tail < limit.peer
  /\ LET avail == Min({n, Used(Mine)})
         c     == [Mine EXCEPT !.rx_head = @ + avail, !.rx_tail = @ + avail]
     IN conns' = [conns EXCEPT ![task.sock] = [c EXCEPT !.rcv_wnd = Room(c)]]
  /\ UNCHANGED <<task, opens, sent, out, in, peer, limit>>

(* tcp_close                                                               *)
TcpClose ==
  /\ task.at \in {"open", "connected", "broken"}
  /\ LET c == Mine
     IN /\ out' = IF c.used /\ c.state = "ESTABLISHED"
                  THEN out \cup {Carried(c, {"FIN", "ACK"}, <<>>)}
                  ELSE out
        /\ conns' = [conns EXCEPT ![task.sock].used = FALSE, ![task.sock].state = "CLOSED"]
  /\ task' = [task EXCEPT !.sock = 0, !.at = "none"]
  /\ UNCHANGED <<opens, sent, in, peer, limit>>

-----------------------------------------------------------------------------
(* tcp_receive *)

(* Mutant: data is taken whatever its sequence number.                     *)
WantedAny(c, s) == s.data # <<>>

Wanted(c, s) == s.data # <<>> /\ s.seq = c.rcv_nxt

(* what of a segment's data goes into the ring                             *)
Stored(c, s) ==
  IF ~Wanted(c, s) THEN c
  ELSE LET copy == Min({Len(s.data), Room(c)})
           d    == [c EXCEPT !.rx_head = @ + copy, !.rcv_nxt = @ + copy]
       IN [d EXCEPT !.rcv_wnd = Room(d)]

(* Segments that do nothing at this peer, which has nothing to send again, *)
(* are left out of flight: those without data, SYN and FIN.                *)
Flying(segments) == {s \in segments : SeqSpace(s.flags, s.data) > 0}

(* SYN_SENT                                                                *)
ReceiveSynAck(c, s) ==
  LET d == [c EXCEPT !.snd_wnd = s.win, !.rcv_nxt = s.seq + 1, !.snd_una = s.ack,
                     !.state = "ESTABLISHED"]
  IN IF {"SYN", "ACK"} \subseteq s.flags
     THEN [conn |-> d, answer |-> {Carried(d, {"ACK"}, <<>>)}]
     ELSE [conn |-> [c EXCEPT !.snd_wnd = s.win], answer |-> {}]

(* ESTABLISHED: data, then a FIN whatever its sequence number; the own FIN *)
(* follows at once                                                         *)
ReceiveEstablished(c, s) ==
  LET a    == [c EXCEPT !.snd_wnd = s.win,
                        !.snd_una = IF "ACK" \in s.flags THEN s.ack ELSE @]
      d    == Stored(a, s)
      ack  == IF Wanted(a, s) THEN {Carried(d, {"ACK"}, <<>>)} ELSE {}
      last == [d EXCEPT !.rcv_nxt = @ + 1, !.state = "LAST_ACK"]
      fin  == {"FIN", "ACK"}
  IN IF "FIN" \in s.flags
     THEN [conn   |-> [last EXCEPT !.snd_nxt = @ + SeqSpace(fin, <<>>)],
           answer |-> ack \cup {Carried(last, {"ACK"}, <<>>), Carried(last, fin, <<>>)}]
     ELSE [conn |-> d, answer |-> ack]

ReceiveLastAck(c, s) ==
  LET d == [c EXCEPT !.snd_wnd = s.win]
  IN [conn   |-> IF "ACK" \in s.flags THEN [d EXCEPT !.state = "CLOSED", !.used = FALSE] ELSE d,
      answer |-> {}]

Handled(c, s) ==
  CASE c.state = "SYN_SENT"    -> ReceiveSynAck(c, s)
    [] c.state = "ESTABLISHED" -> ReceiveEstablished(c, s)
    [] c.state = "LAST_ACK"    -> ReceiveLastAck(c, s)
    [] OTHER                   -> [conn |-> [c EXCEPT !.snd_wnd = s.win], answer |-> {}]

(* The first connection in use with the segment's ports takes it.  The     *)
(* segment may arrive again.                                               *)
TcpReceive(s) ==
  /\ \E c \in Conns :
       /\ conns[c].used /\ conns[c].port = s.port
       /\ \A d \in 1 .. c - 1 : ~(conns[d].used /\ conns[d].port = s.port)
       /\ LET h == Handled(conns[c], s)
          IN /\ conns' = [conns EXCEPT ![c] = h.conn]
             /\ out' = out \cup Flying(h.answer)
  /\ UNCHANGED <<task, opens, sent, in, peer, limit>>

-----------------------------------------------------------------------------
(* The peer *)

Answer(flags, p, w) == [flags |-> flags, port |-> p.port, seq |-> p.snd, ack |-> p.next,
                        win |-> w, data |-> <<>>]

(* a SYN it has not seen opens a new connection                            *)
PeerAccept(s, w) ==
  /\ s.flags = {"SYN"} /\ s.port > peer.port
  /\ LET p == [port |-> s.port, next |-> s.seq + 1, got |-> <<>>,
               snd |-> PeerIsn(s.port), base |-> PeerIsn(s.port) + 1, fin |-> FALSE]
     IN /\ in' = in \cup {Answer({"SYN", "ACK"}, p, w)}
        /\ peer' = [p EXCEPT !.snd = @ + 1]
  /\ UNCHANGED <<conns, task, opens, sent, out, limit>>

(* data in order is taken and acknowledged                                 *)
PeerTake(s, w) ==
  /\ s.port = peer.port /\ s.data # <<>> /\ s.seq = peer.next
  /\ peer' = [peer EXCEPT !.got = @ \o s.data, !.next = @ + Len(s.data)]
  /\ in' = in \cup {Answer({"ACK"}, peer', w)}
  /\ UNCHANGED <<conns, task, opens, sent, out, limit>>

(* its own data, here with a closed window, and the end of it              *)
PeerSend(n) ==
  /\ peer.port > 0 /\ ~peer.fin
  /\ peer.snd - peer.base + n <= limit.peer
  /\ in' = in \cup {[Answer({"ACK"}, peer, 0) EXCEPT
                       !.data = [i \in 1 .. n |-> peer.snd - peer.base + i]]}
  /\ peer' = [peer EXCEPT !.snd = @ + n]
  /\ UNCHANGED <<conns, task, opens, sent, out, limit>>

PeerFin ==
  /\ peer.port > 0 /\ ~peer.fin
  /\ in' = in \cup {Answer({"FIN", "ACK"}, peer, 1)}
  /\ peer' = [peer EXCEPT !.snd = @ + 1, !.fin = TRUE]
  /\ UNCHANGED <<conns, task, opens, sent, out, limit>>

(* it acknowledges our FIN                                                 *)
PeerAckFin(s) ==
  /\ s.port = peer.port /\ "FIN" \in s.flags /\ s.seq = peer.next
  /\ in' = in \cup {[Answer({"ACK"}, peer, 1) EXCEPT !.ack = @ + 1]}
  /\ UNCHANGED <<conns, task, opens, sent, out, peer, limit>>

TcpTask ==
  \/ Socket \/ Connect \/ Advance \/ Connected \/ ConnectTimeout
  \/ \E n \in 1 .. limit.bytes : SendCall(n)
  \/ \E n \in 1 .. RXBUF : Recv(n)
  \/ SendChunk \/ SendReturns \/ TcpClose

TcpPeer ==
  \/ \E s \in out, w \in Windows : PeerAccept(s, w) \/ PeerTake(s, w)
  \/ \E s \in out : PeerAckFin(s)
  \/ \E n \in 1 .. MSS : PeerSend(n)
  \/ PeerFin

TcpNext == TcpTask \/ (\E s \in in : TcpReceive(s)) \/ TcpPeer

-----------------------------------------------------------------------------
(* Correctness *)

(* What the peer has put together is a prefix of what tcp_send took: a     *)
(* chunk's sequence number counts every byte before it, whatever arrived   *)
(* between the chunk and the advance of snd_nxt.                           *)
PeerSeesPrefix ==
  peer.port = opens =>
    /\ Len(peer.got) <= sent
    /\ \A i \in 1 .. Len(peer.got) : peer.got[i] = i

(* tcp_receive never acknowledges what the peer has not sent, and before   *)
(* the FIN only what is in the ring: a segment that comes twice or early   *)
(* is not counted, one that does not fit only as far as it was stored.     *)
AcksWhatItHas ==
  \A c \in Conns : conns[c].used /\ conns[c].port = peer.port =>
    /\ conns[c].state \in {"ESTABLISHED", "LAST_ACK"} => conns[c].rcv_nxt <= peer.snd
    /\ conns[c].state = "ESTABLISHED" => Used(conns[c]) = conns[c].rcv_nxt - peer.base

=============================================================================

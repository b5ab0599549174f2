-------------------------------- MODULE Net --------------------------------
(***************************************************************************)
(* The IP stack of src/kernal/net/net.c and the loopback interface: the    *)
(* ARP cache, what a received frame does, how a datagram leaves, and the   *)
(* sockets with their receive rings.                                       *)
(*                                                                         *)
(* net_receive runs in the interrupt of a network card and is one step;    *)
(* the calls of a task are split where such an interrupt can make a        *)
(* difference.  Frames on their way to the machine are a set: each may     *)
(* arrive late, out of order, more than once or never.  What a station on  *)
(* the network does with a frame is joined to its sending.                 *)
(*                                                                         *)
(* A receive ring holds bytes in the code.  Here it holds cells, pieces of *)
(* a datagram of equal size: [n |-> number of its arrival, part |-> which  *)
(* piece, msg |-> the datagram]; none has more of them than the ring.      *)
(***************************************************************************)
EXTENDS Integers, Sequences, FiniteSets, SequencesExt

CONSTANTS
  NSock,     \* SOCK_MAX
  RING,      \* SOCK_RXBUF, in cells
  NArp,      \* ARP_CACHE_SIZE
  Stations,  \* neighbours that answer ARP; "gw" is one of them
  MaxArrived \* bound: datagrams that arrive

ASSUME NetAssumption ==
  /\ NSock \in Nat \ {0}
  /\ RING \in Nat \ {0, 1}
  /\ NArp \in Nat
  /\ "gw" \in Stations
  /\ MaxArrived \in Nat

Fds == 1 .. NSock

VARIABLES
  ifaces,   \* ifaces[]: the registered interfaces in order
  eth,      \* address, reach and gateway of the network card
  arp,      \* arp_cache[]: a function of the addresses it knows
  socks,    \* sockets[]
  wire,     \* frames on their way to the card
  arrived   \* datagrams that have arrived

netVars == <<ifaces, eth, arp, socks, wire, arrived>>

(* An interface: its address, the addresses its netmask covers, and the    *)
(* gateway for the others.  A card nobody configured has address and       *)
(* netmask 0, which covers everything.                                     *)
Everything  == Stations \cup {"dns", "bcast", "lo", "us"}
Bare        == [ip |-> "none", lan |-> Everything, gw |-> "none"]
Configured(ip) == [ip |-> ip, lan |-> Stations \cup {ip}, gw |-> "gw"]
Lo          == [ip |-> "lo", lan |-> {"lo"}, gw |-> "lo"]

Config(i) == IF i = "lo" THEN Lo ELSE eth

NoCell == [n |-> 0, part |-> 0, msg |-> [of |-> "none", size |-> 0]]

(* stream, taken and lost are ghosts: the cells that came since the socket *)
(* was opened, how many the reader has passed, and whether one found no    *)
(* room; from then on nothing is recorded.                                 *)
Closed == [used |-> FALSE, port |-> "none", head |-> 0, tail |-> 0,
           ring |-> [i \in 0 .. RING - 1 |-> NoCell],
           stream |-> <<>>, taken |-> 0, lost |-> FALSE]

NetTypeOK ==
  /\ ifaces \in {<<"lo", "eth">>, <<"eth">>}
  /\ eth.gw \in Stations \cup {"none"}
  /\ DOMAIN arp \subseteq Stations /\ Cardinality(DOMAIN arp) <= NArp
  /\ \A fd \in Fds : /\ socks[fd].used \in BOOLEAN
                     /\ socks[fd].head \in 0 .. RING - 1
                     /\ socks[fd].tail \in 0 .. RING - 1
  /\ arrived \in 0 .. MaxArrived

(* net_init and net_register_iface.  net_init_task registers the loopback  *)
(* interface first and leaves the card bare; the drivers also leave room   *)
(* for a card that is configured statically and registered alone.          *)
NetInit ==
  /\ \/ ifaces = <<"lo", "eth">> /\ eth = Bare
     \/ ifaces = <<"eth">> /\ eth = Configured("us")
  /\ arp = <<>>
  /\ socks = [fd \in Fds |-> Closed]
  /\ wire = {[kind |-> "arp", from |-> s] : s \in Stations} \cup {[kind |-> "echo", from |-> "gw"]}
  /\ arrived = 0

(* net_get_primary                                                         *)
Primary == ifaces[1]

-----------------------------------------------------------------------------
(* ARP *)

(* arp_add: an entry of the address, else a free one, else nothing.  The   *)
(* ttl of an entry is never counted down.                                  *)
ArpAdd(ip, mac) ==
  IF ip \in DOMAIN arp \/ Cardinality(DOMAIN arp) < NArp
  THEN [a \in DOMAIN arp \cup {ip} |-> IF a = ip THEN mac ELSE arp[a]]
  ELSE arp

(* arp_lookup                                                              *)
Known(ip) == ip \in DOMAIN arp

(* arp_send_request: what it brings, if the frame gets out                 *)
AskedFor(i, ip) ==
  IF i = "eth" /\ ip \in Stations THEN {[kind |-> "arp", from |-> ip]} ELSE {}

-----------------------------------------------------------------------------
(* Sending *)

NextHop(i, dst) == IF dst \in Config(i).lan THEN dst ELSE Config(i).gw

(* lo_send puts a second Ethernet header before the frame, and the first   *)
(* one is read as an IP header: the length it has fails the test in        *)
(* ipv4_handle, and nothing arrives.                                       *)
Loops(answer) == {}

(* ip4_send: without an entry for the next hop the datagram is gone and    *)
(* ARP asks instead; else the frame is sent, and the answer it brings is   *)
(* on the wire.                                                            *)
Sends(i, dst)         == Known(NextHop(i, dst))
Brings(i, dst, answer) ==
  IF ~Sends(i, dst) THEN AskedFor(i, NextHop(i, dst))
  ELSE IF i = "lo" THEN Loops(answer) ELSE answer

-----------------------------------------------------------------------------
(* Sockets *)

(* sock_open: the first unused entry, cleared                              *)
FirstFree(fd) == ~socks[fd].used /\ \A e \in 1 .. fd - 1 : socks[e].used
(* with sock_bind                                                          *)
Opened(port) == [Closed EXCEPT !.used = TRUE, !.port = port]

(* sock_close: only the mark                                               *)
CloseSock(fd) == socks' = [socks EXCEPT ![fd].used = FALSE]

(* Mutant: the cells go behind the tail.                                   *)
AwayBehind(s, j) == (j - s.tail - 1) % RING

(* How far behind the tail a place of the ring is.                         *)
Away(s, j) == (j - s.tail) % RING

(* Mutant: the tail does not wrap.                                         *)
TailOn(s, size)    == s.tail + size
TailAfter(s, size) == (s.tail + size) % RING

(* The loop of ipv4_handle: cell after cell goes to the tail, unless the   *)
(* place behind it is the head; the tail moves on even then, and a full    *)
(* ring looks empty afterwards.                                            *)
HasRoom(s, j) == (j + 1) % RING # s.head
Cell(n, k, msg) == [n |-> n, part |-> k, msg |-> msg]
Cells(n, msg)   == [k \in 1 .. msg.size |-> Cell(n, k, msg)]

Store(s, n, msg) ==
  LET lost == s.lost \/ Away(s, s.head - 1) < msg.size
  IN [s EXCEPT
        !.ring = [j \in 0 .. RING - 1 |->
                    IF Away(s, j) < msg.size /\ HasRoom(s, j)
                    THEN Cell(n, Away(s, j) + 1, msg) ELSE @[j]],
        !.tail = TailAfter(s, msg.size),
        !.lost = lost,
        !.taken = IF lost THEN 0 ELSE @,
        !.stream = IF lost THEN <<>> ELSE @ \o Cells(n, msg)]

(* sock_recvfrom, one pass of its loop: the cell at the head, then the     *)
(* head                                                                    *)
Readable(fd)  == socks[fd].head # socks[fd].tail
AtHead(fd)    == socks[fd].ring[socks[fd].head]
PassHead(fd)  == socks' = [socks EXCEPT ![fd].head = (@ + 1) % RING,
                                                ![fd].taken = IF socks[fd].lost THEN 0 ELSE @ + 1]

Content(s) == [i \in 1 .. (s.tail - s.head) % RING |-> s.ring[(s.head + i - 1) % RING]]

-----------------------------------------------------------------------------
(* Receiving: net_receive on the network card *)

(* arp_handle learns the sender, and answers who asks for the card         *)
ReceiveArp(f) ==
  /\ f.kind = "arp"
  /\ arp' = ArpAdd(f.from, f.from)
  /\ UNCHANGED <<ifaces, eth, socks, wire, arrived>>

(* icmp_handle: the reply takes the way of every datagram                  *)
ReceiveEcho(f) ==
  /\ f.kind = "echo"
  /\ wire' = wire \cup Brings("eth", f.from, {})
  /\ UNCHANGED <<ifaces, eth, arp, socks, arrived>>

(* ipv4_handle: datagrams to the card or to everybody reach every socket   *)
(* with their port                                                         *)
ForUs(f)       == eth.ip = "none" \/ f.dst \in {eth.ip, "bcast"}
Listens(fd, f) == socks[fd].used /\ socks[fd].port = f.port

ReceiveUdp(f) ==
  /\ f.kind = "udp"
  /\ ForUs(f)
  /\ arrived < MaxArrived
  /\ arrived' = arrived + 1
  /\ socks' = [fd \in Fds |-> IF Listens(fd, f) THEN Store(socks[fd], arrived', f.msg)
                              ELSE socks[fd]]
  /\ UNCHANGED <<ifaces, eth, arp, wire>>

Receive(f) == ReceiveArp(f) \/ ReceiveEcho(f) \/ ReceiveUdp(f)

-----------------------------------------------------------------------------
(* Until a datagram finds no room, the ring holds exactly what arrived and *)
(* was not yet read, in order, although interrupts fill it in the middle   *)
(* of a read: a reader gets every byte once.                               *)
BytesExact ==
  \A fd \in Fds : socks[fd].used /\ ~socks[fd].lost =>
    Content(socks[fd]) = SubSeq(socks[fd].stream, socks[fd].taken + 1, Len(socks[fd].stream))

=============================================================================

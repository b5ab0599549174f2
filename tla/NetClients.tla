----------------------------- MODULE NetClients -----------------------------
(***************************************************************************)
(* The clients of the IP stack: dns_resolve (src/kernal/net/dns.c) and     *)
(* dhcp_discover (src/kernal/net/dhcp.c), which open a socket, send, poll  *)
(* the socket until an answer or a deadline, and close it.  One task calls *)
(* them, one after the other, as net_init_task does.                       *)
(***************************************************************************)
EXTENDS Net

CONSTANTS
  Servers,   \* DHCP servers
  Sizes,     \* cells of a DHCP reply; dhcp_pkt_t is FULL of them
  FULL,      \* sizeof(dhcp_pkt_t)
  DNSMAX,    \* DNS_MAX_PKT, in cells; an answer is one cell
  Polls,     \* timeout_ms / 10
  MaxCalls   \* bound: calls

(* No reply is larger than a socket's ring, and no server has an address   *)
(* of the card before it was given one.                                    *)
ASSUME ClientsAssumption ==
  /\ Sizes \subseteq 1 .. RING
  /\ FULL \in Nat \ {0} /\ DNSMAX \in Nat \ {0}
  /\ Polls \in Nat /\ MaxCalls \in Nat
  /\ {"us", "none"} \cap Servers = {}

VARIABLES
  pc,        \* where the task is
  fd,        \* sock
  buf,       \* rx_buf, rxbuf
  copied,    \* recvfrom has stored a cell and not moved the head
  polls,     \* elapsed / 10
  txid,      \* dns_txid
  xid,       \* g_xid
  offer,     \* the server whose offer was taken
  fields,    \* the lease being read: whose address and options it holds
  result,    \* what the last dns_resolve returned: the name it was asked and
             \* the name the address belongs to
  acked,     \* ghost: leases the servers have acknowledged
  calls      \* calls made

clientVars == <<pc, fd, buf, copied, polls, txid, xid, offer, fields, result, acked, calls>>
allNetVars == <<netVars, clientVars>>

Waiting == {"dns", "offer", "ack"}
None    == [asked |-> 0, got |-> 0]

ClientTypeOK ==
  /\ pc \in Waiting \cup {"idle"}
  /\ fd \in Fds
  /\ Len(buf) <= DNSMAX \/ Len(buf) <= FULL
  /\ copied \in BOOLEAN
  /\ polls \in 0 .. Polls
  /\ txid \in Nat /\ xid \in Nat
  /\ offer \in Servers \cup {"none"} /\ fields \in Servers \cup {"none"}
  /\ acked \subseteq Servers
  /\ calls \in 0 .. MaxCalls

ClientInit ==
  /\ pc = "idle" /\ fd = 1 /\ buf = <<>> /\ copied = FALSE /\ polls = 0
  /\ txid = 1 /\ xid = 1 /\ offer = "none" /\ fields = "none"
  /\ result = None /\ acked = {} /\ calls = 0

Udp(dst, port, msg) == [kind |-> "udp", dst |-> dst, port |-> port, msg |-> msg]

-----------------------------------------------------------------------------
(* What the servers answer *)

Answers(id, verdict) ==
  {Udp(Config(Primary).ip, "dns", [of |-> "dns", size |-> 1, id |-> id, verdict |-> verdict])}

Reply(type, server, size) ==
  Udp("bcast", "dhcp", [of |-> type, size |-> size, id |-> xid, server |-> server])

Offers(size) == {Reply("OFFER", s, size) : s \in Servers}

-----------------------------------------------------------------------------
(* Opening a call *)

Begin(e, port, at) ==
  /\ pc = "idle" /\ calls < MaxCalls
  /\ calls' = calls + 1
  /\ FirstFree(e)
  /\ fd' = e
  /\ socks' = [socks EXCEPT ![e] = Opened(port)]
  /\ pc' = at
  /\ buf' = <<>> /\ copied' = FALSE /\ polls' = 0

(* dns_resolve.  The source port is made of the low byte of the identifier *)
(* and comes round again; here it is always the same.                      *)
Resolve(e, verdict) ==
  /\ Begin(e, "dns", "dns")
  /\ Sends(Primary, "dns")
  /\ wire' = wire \cup Brings(Primary, "dns", Answers(txid, verdict))
  /\ txid' = txid + 1
  /\ UNCHANGED <<ifaces, eth, arp, arrived, xid, offer, fields, result, acked>>

(* dns_resolve gives up at once when ip4_send does not know the next hop   *)
ResolveUnsent(e) ==
  /\ pc = "idle" /\ calls < MaxCalls
  /\ FirstFree(e)
  /\ ~Sends(Primary, "dns")
  /\ calls' = calls + 1
  /\ wire' = wire \cup Brings(Primary, "dns", {})
  /\ txid' = txid + 1
  /\ UNCHANGED <<ifaces, eth, arp, socks, arrived, pc, fd, buf, copied, polls, xid, offer,
                 fields, result, acked>>

(* dhcp_discover on the primary interface; whether the DISCOVER got out is *)
(* not looked at                                                           *)
Discover(e, size) ==
  /\ Begin(e, "dhcp", "offer")
  /\ wire' = wire \cup Brings(Primary, "bcast", Offers(size))
  /\ offer' = "none" /\ fields' = "none"
  /\ UNCHANGED <<ifaces, eth, arp, arrived, txid, xid, result, acked>>

-----------------------------------------------------------------------------
(* sock_recvfrom *)

Wants == IF pc = "dns" THEN DNSMAX ELSE FULL

CopyCell ==
  /\ pc \in Waiting /\ ~copied /\ polls < Polls
  /\ Len(buf) < Wants /\ Readable(fd)
  /\ buf' = Append(buf, AtHead(fd))
  /\ copied' = TRUE
  /\ UNCHANGED <<netVars, pc, fd, polls, txid, xid, offer, fields, result, acked, calls>>

MoveHead ==
  /\ copied
  /\ PassHead(fd)
  /\ copied' = FALSE
  /\ UNCHANGED <<ifaces, eth, arp, wire, arrived, pc, fd, buf, polls, txid, xid, offer, fields,
                 result, acked, calls>>

Received ==
  pc \in Waiting /\ ~copied /\ polls < Polls /\ (Len(buf) = Wants \/ ~Readable(fd))

-----------------------------------------------------------------------------
(* Looking at what came *)

GoOn ==
  /\ buf' = <<>>
  /\ polls' = polls + 1
  /\ UNCHANGED <<ifaces, eth, arp, socks, wire, arrived, pc, fd, copied, txid, xid, offer, result,
                 acked, calls>>

Finish ==
  /\ CloseSock(fd)
  /\ pc' = "idle"
  /\ buf' = <<>>
  /\ UNCHANGED <<ifaces, arp, arrived, fd, copied, polls, txid, calls>>

Head1(m) == buf # <<>> /\ buf[1].part = 1 /\ buf[1].msg.of = m

(* Mutant: any answer will do.                                             *)
OwnAny == Head1("dns")

(* dns_resolve: an answer under its own identifier ...                     *)
Own == Head1("dns") /\ buf[1].msg.id = txid - 1

DnsAgain ==
  /\ Received /\ pc = "dns"
  /\ ~Own
  /\ GoOn
  /\ UNCHANGED fields

(* ... ends the call, with an address when there is one                    *)
DnsDone ==
  /\ Received /\ pc = "dns"
  /\ Own
  /\ result' = IF buf[1].msg.verdict = "address"
               THEN [asked |-> txid - 1, got |-> buf[1].msg.id] ELSE None
  /\ Finish
  /\ UNCHANGED <<eth, wire, xid, offer, fields, acked>>

(* dhcp_discover: a whole dhcp_pkt_t must have come, and begin with the    *)
(* header of a reply to this transaction.  dhcp_parse_reply writes the     *)
(* fields before it looks at the type.                                     *)
Whole    == Len(buf) = FULL /\ buf[1].part = 1 /\ buf[1].msg.id = xid
Read(s)  == fields' = s
Is(type) == Whole /\ buf[1].msg.of = type

DhcpAgain ==
  /\ Received /\ pc \in {"offer", "ack"}
  /\ ~Is(IF pc = "offer" THEN "OFFER" ELSE "ACK")
  /\ GoOn
  /\ IF Whole THEN Read(buf[1].msg.server) ELSE UNCHANGED fields

(* The REQUEST goes out to the server of the offer, which acknowledges the *)
(* lease or refuses it; ack is another variable than offer, and cleared.   *)
TakeOffer(verdict, size) ==
  /\ Received /\ pc = "offer"
  /\ Is("OFFER")
  /\ LET s == buf[1].msg.server
     IN /\ offer' = s
        /\ wire' = wire \cup Brings(Primary, "bcast", {Reply(verdict, s, size)})
        /\ acked' = IF verdict = "ACK" /\ Sends(Primary, "bcast") THEN acked \cup {s} ELSE acked
  /\ pc' = "ack" /\ buf' = <<>> /\ polls' = 0 /\ fields' = "none"
  /\ UNCHANGED <<ifaces, eth, arp, socks, arrived, fd, copied, txid, xid, result, calls>>

(* The lease is applied.                                                   *)
TakeAck ==
  /\ Received /\ pc = "ack"
  /\ Is("ACK")
  /\ Read(buf[1].msg.server)
  /\ eth' = IF Primary = "eth" THEN Configured(fields') ELSE eth
  /\ xid' = xid + 1
  /\ Finish
  /\ UNCHANGED <<wire, offer, result, acked>>

(* Mutant: the socket of a call that timed out stays open.                 *)
GiveUpOpen ==
  /\ pc \in Waiting /\ polls = Polls
  /\ pc' = "idle" /\ buf' = <<>>
  /\ UNCHANGED <<netVars, fd, copied, polls, txid, xid, offer, fields, result, acked, calls>>

GiveUp ==
  /\ pc \in Waiting /\ polls = Polls
  /\ result' = IF pc = "dns" THEN None ELSE result
  /\ Finish
  /\ UNCHANGED <<eth, wire, xid, offer, fields, acked>>

ClientStep ==
  \/ CopyCell \/ MoveHead
  \/ DnsAgain \/ DnsDone \/ DhcpAgain \/ TakeAck \/ GiveUp
  \/ \E verdict \in {"ACK", "NAK"}, size \in Sizes : TakeOffer(verdict, size)

ClientCall ==
  \E e \in Fds :
    \/ \E verdict \in {"address", "error"} : Resolve(e, verdict)
    \/ ResolveUnsent(e)
    \/ \E size \in Sizes : Discover(e, size)

NetNext ==
  \/ ClientStep \/ ClientCall
  \/ \E f \in wire : Receive(f) /\ UNCHANGED clientVars

-----------------------------------------------------------------------------
(* Correctness *)

(* dns_resolve returns the address of the name it was asked for, although  *)
(* answers to earlier calls come to the same port; and the address of the  *)
(* card is only one that a server has acknowledged, although offers and    *)
(* refusals are parsed into the same lease.                                *)
AnswersAreOwn ==
  /\ result.got = result.asked
  /\ eth.ip \in Servers => eth.ip \in acked

(* Every call comes back, whatever arrives and whatever is lost, and with  *)
(* no socket left open.                                                    *)
CallsReturn == pc # "idle" ~> pc = "idle" /\ \A e \in Fds : ~socks[e].used

=============================================================================

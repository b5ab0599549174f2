------------------------------ MODULE Network ------------------------------
(***************************************************************************)
(* The network of PinguinOS: the clients on the IP stack, the receive ring *)
(* of the card that feeds it, and TCP beside them.  The three do not share *)
(* state (nothing calls tcp_receive, and net_receive returns before the    *)
(* card's handler goes on), so a behaviour is one of one of them: what the *)
(* card hands up comes to the stack as a frame of wire.                    *)
(***************************************************************************)
EXTENDS NetClients, Tcp, E1000

VARIABLE part  \* which of the three this behaviour is about

vars == <<part, allNetVars, tcpVars, e1000Vars>>

Parts == {"clients", "tcp", "card"}

Init ==
  /\ part \in Parts
  /\ NetInit /\ ClientInit /\ TcpInit /\ E1000Init
  /\ part # "clients" => ifaces = <<"eth">>
  /\ part # "tcp" => limit = CHOOSE l \in Limits : TRUE

Clients(A) == part = "clients" /\ A /\ UNCHANGED <<part, tcpVars, e1000Vars>>
Next ==
  \/ Clients(NetNext)
  \/ part = "tcp"  /\ TcpNext   /\ UNCHANGED <<part, allNetVars, e1000Vars>>
  \/ part = "card" /\ E1000Next /\ UNCHANGED <<part, allNetVars, tcpVars>>

(* The task that makes the calls is scheduled again and again, and its     *)
(* sleeps end.  The network owes nothing.                                  *)
Spec == Init /\ [][Next]_vars /\ WF_vars(Clients(ClientStep))

-----------------------------------------------------------------------------
(* The types of all parts: positions stay inside the rings, the ARP cache  *)
(* inside its table.                                                       *)
TypeOK ==
  /\ part \in Parts
  /\ NetTypeOK /\ ClientTypeOK /\ TcpTypeOK /\ E1000TypeOK

(* The sequence numbers of tcp.c tell the truth in both directions: about  *)
(* what tcp_send took and about what tcp_receive stored.                   *)
SequenceNumbersTrue == PeerSeesPrefix /\ AcksWhatItHas

=============================================================================

------------------------------ MODULE MCNetwork ------------------------------
(* The parts of the network, one beside the other: part says which one moves,  *)
(* and the others stay in their initial states.                                *)
(*   ip           IpV4, two packets and one entry of the ARP cache             *)
(*   dns, ping    Dns, two queries of two names; Ping, one request at a time   *)
(*   dhcp, dhcp2  Dhcp, one client with a lease, two without                   *)
(*   tcp          Tcp, two sockets, one of them accepted or connected          *)
(*   e1000, rtl   E1000 and Rtl8139, two threads that transmit                 *)
EXTENDS IpV4, Tcp, Adapters, Requests, TLC
CONSTANTS b1, b2, c1, c2
VARIABLE part

MCBuf == {b1, b2}
MCSender == {"t1", "t2"}
MCName == {"a", "b"}
MCAddress == "a" :> 1 @@ "b" :> 2
MCClient == {c1, c2}

ASSUME AdaptersAssumption
ASSUME IpAssumption
ASSUME TcpAssumption
ASSUME RequestsAssumption
------------------------------------------------------------------------------
MCInit ==
  /\ part \in {"ip", "dns", "ping", "dhcp", "dhcp2", "tcp", "e1000", "rtl"}
  /\ IpStart /\ N!DnsStart /\ P!PingStart /\ D!DhcpSubsystemInit
  /\ TcpStart /\ (part = "tcp" \/ (~peer.serves /\ ~peer.shuts))
  /\ E1000Start /\ R!RtlStart

(* The first packet is always one of this machine's own. *)
IpStep == /\ part = "ip" /\ IpNext /\ ~(call'[b1].pc = "input" /\ call'[b1].dev = "eth0")
          /\ UNCHANGED <<dnsV, pingV, dhcpV, tcpVars, e1000Vars, rtlV>>
DnsStep == part = "dns" /\ N!DnsNext /\ UNCHANGED <<ipVars, pingV, dhcpV, tcpVars, e1000Vars, rtlV>>
PingStep == part = "ping" /\ P!PingNext /\ UNCHANGED <<ipVars, dnsV, dhcpV, tcpVars, e1000Vars, rtlV>>
DhcpStep == /\ part = "dhcp" /\ D!DhcpNext
            /\ (\A i \in DOMAIN clients' : clients'[i] = c1) /\ Cardinality(heard') <= 4
            /\ UNCHANGED <<ipVars, dnsV, pingV, tcpVars, e1000Vars, rtlV>>
Dhcp2Step == part = "dhcp2" /\ D!DhcpNext /\ (\A c \in Client : client'[c].lease = 0)
             /\ UNCHANGED <<ipVars, dnsV, pingV, tcpVars, e1000Vars, rtlV>>
TcpStep == /\ part = "tcp" /\ TcpNext
           /\ IF peer.serves THEN iss' <= 2
              ELSE \A s \in 1..2 : sock'[s].end <= sock'[s].iss + 2 /\ sock'[s].rcvNxt <= 2
           /\ Cardinality(out') <= 3
           /\ UNCHANGED <<ipVars, dnsV, pingV, dhcpV, e1000Vars, rtlV>>
E1000Step == part = "e1000" /\ E1000Next /\ UNCHANGED <<ipVars, dnsV, pingV, dhcpV, tcpVars, rtlV>>
(* Followed until the handler has reset the buffer after an overflow, either   *)
(* with many frames received or with some sent.                                *)
RtlStep == /\ part = "rtl" /\ R!RtlNext /\ ~rx2.reset /\ (tx2'.queued = 0 \/ rx2'.stored <= 1)
           /\ UNCHANGED <<ipVars, dnsV, pingV, dhcpV, tcpVars, e1000Vars>>

MCNext == UNCHANGED part /\ (\/ IpStep \/ DnsStep \/ PingStep \/ DhcpStep \/ Dhcp2Step \/ TcpStep
                             \/ E1000Step \/ RtlStep)

(* The fairness of each part.  As part never changes, a disjunction with one   *)
(* action of each part is fair exactly when the moving part's action is.       *)
FirstFair == UNCHANGED part /\ (\/ part = "ip" /\ Clock
                                \/ part = "dns" /\ N!DnsClock
                                \/ part = "ping" /\ P!Clock
                                \/ part = "dhcp" /\ D!DhcpClock
                                \/ part = "e1000" /\ Attach)
SecondFair == UNCHANGED part /\ (\/ part = "ip" /\ ArpTick(1)
                                 \/ part = "dns" /\ N!Handler
                                 \/ part = "ping" /\ P!Handler
                                 \/ part = "dhcp" /\ D!DhcpTick(c1)
                                 \/ part = "tcp" /\ TcpTick(1)
                                 \/ part = "e1000" /\ Handler)
ThirdFair == UNCHANGED part /\ (\/ part = "ip" /\ ArpTick(2)
                                \/ part = "dns" /\ (N!DnsSendQuery \/ N!TimedOut \/ N!Unlink \/ N!Free)
                                \/ part = "ping" /\ P!Free
                                \/ part = "tcp" /\ TcpTick(2)
                                \/ part = "e1000" /\ E1000Poll)

moved == CASE part = "ip" -> ipVars [] part = "dns" -> dnsV [] part = "ping" -> pingV
           [] part = "dhcp" -> dhcpV [] part = "tcp" -> tcpVars [] part = "e1000" -> e1000Vars [] OTHER -> rtlV
MCSpec == /\ MCInit /\ [][MCNext]_<<part, ipVars, dnsV, pingV, dhcpV, tcpVars, e1000Vars, rtlV>>
          /\ WF_moved(FirstFair) /\ WF_moved(SecondFair) /\ WF_moved(ThirdFair)
          /\ SF_moved(UNCHANGED part /\ part = "ping" /\ P!Waited)
          /\ SF_moved(UNCHANGED part /\ part = "ping" /\ P!Unlink)
          /\ \A s \in MCSender : WF_moved(UNCHANGED part /\ part = "e1000" /\ Transmit(s))
------------------------------------------------------------------------------
(* What was begun ends: IpV4's PendingEnds, Dns's ResolveEnds and QueriesEnd,  *)
(* Ping's PingEnds, Dhcp's KeepsAsking, Tcp's SendEnds, E1000's FramesAreTaken *)
(* and TransmitEnds.                                                           *)
Owed(i) ==
  CASE part = "ip" /\ i <= 2 -> call[<<b1, b2>>[i]].pc = "pending"
    [] part = "dns" -> IF i <= 2 THEN i \in N!Pending ELSE i = 3 /\ resolve.pc # "none"
    [] part = "ping" /\ i = 1 -> ping.pc # "none"
    [] part = "tcp" /\ i <= 2 -> Owes(i)
    [] part = "e1000" -> IF i <= 3 THEN Waits(i) ELSE Transmits(<<"t1", "t2">>[i - 3])
    [] OTHER -> FALSE
RequestsEnd == (\A i \in 1..5 : Owed(i) ~> ~Owed(i)) /\ (part = "dhcp" => D!KeepsAsking)

(* Ping: see CheckedIsLive there. *)
CheckedIsLive == part = "ping" => P!CheckedIsLive
=============================================================================

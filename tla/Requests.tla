------------------------------- MODULE Requests -------------------------------
(* What this machine asks of others and waits for, each part with its own      *)
(* list, lock and clock: names (Dns), echoes (Ping) and an address (Dhcp).     *)
EXTENDS Integers, FiniteSets

CONSTANTS Nil,                                               \* a null pointer
          MaxQueries, Name, Address, NameTimeout, Resends,   \* Dns
          Req, Echoes, EchoTimeout, Width, MaxPings,         \* Ping
          Client, Xid, Ip, Lease, Again                      \* Dhcp

VARIABLES queries, query, names, resolve, dnsIrq,            \* Dns
          requests, req, ping, tick,                         \* Ping
          clients, client, addr, starting, heard             \* Dhcp

N == INSTANCE Dns WITH None <- Nil, Timeout <- NameTimeout, Retries <- Resends,
       head <- queries, cache <- names, irq <- dnsIrq
P == INSTANCE Ping WITH None <- Nil, Count <- Echoes, Timeout <- EchoTimeout, head <- requests
D == INSTANCE Dhcp WITH None <- Nil

dnsV == <<queries, query, names, resolve, dnsIrq>>
pingV == <<requests, req, ping, tick>>
dhcpV == <<clients, client, addr, starting, heard>>

(* What the constants are assumed to be: Remaining holds what is asked for.    *)
RequestsAssumption ==
  /\ MaxQueries \in Nat /\ NameTimeout \in Nat \ {0} /\ Resends \in Nat /\ Nil \notin Nat
  /\ Nil \notin Name
  /\ Echoes \in Nat \ {0} /\ EchoTimeout \in Nat \ {0} /\ Width \in Nat /\ Echoes < Width
  /\ MaxPings \in Nat /\ Nil \notin Req /\ IsFiniteSet(Req)
  /\ IsFiniteSet(Lease) /\ Lease \subseteq Nat /\ Again \in Nat
  /\ Nil \notin Client /\ Nil \notin Xid /\ Nil \notin Ip

RequestsSpec == N!DnsSpec /\ P!PingSpec /\ D!DhcpSpec
------------------------------------------------------------------------------
(* Dns: AnswerIsAsked there, over states of the right types; Ping: its types;  *)
(* Dhcp: LateOfferMatches.                                                     *)
RequestsSound == /\ N!DnsTypeOK /\ N!AnswerIsAsked
                 /\ P!PingTypeOK
                 /\ D!DhcpTypeOK /\ D!LateOfferMatches
=============================================================================

--------------------------------- MODULE Dhcp ---------------------------------
(* The DHCP client (Source/Network/Dhcp.c): an address is asked for at boot    *)
(* and by "net dhcp", from the shell; the answers come in the NIC's interrupt  *)
(* and the timer's tick repeats, renews and starts again, each a step of its   *)
(* own that may come between the two of DhcpStart.  Every message may be lost, *)
(* late, repeated or overtaken: a server may answer whatever it ever heard.    *)
(* RebindTime, RenewTime and LeaseExpires are the seconds left until then.     *)
EXTENDS Integers, Sequences

CONSTANTS Client,      \* the DhcpClients for eth0, each new one in front of the others
          Xid,         \* bound: the Xids, of which DhcpNewXid takes one not used before
          Ip,          \* the addresses servers offer
          Lease,       \* the lease times they give
          Again,       \* seconds until DISCOVER is sent again: 5
          None

VARIABLES clients,   \* GDhcpClients, in list order
          client,    \* each DhcpClient
          addr,      \* Dev->IpAddr
          starting,  \* the client whose DhcpStart has not yet taken a new Xid
          heard      \* all that servers may have heard

dhcpVars == <<clients, client, addr, starting, heard>>

Fresh == [running |-> FALSE, configured |-> FALSE, xid |-> None, yi |-> None, lease |-> 0,
          expires |-> 0, renew |-> 0, rebind |-> 0, asked |-> {}]

DhcpSubsystemInit ==
  /\ clients = <<>>
  /\ client = [c \in Client |-> Fresh]
  /\ addr = None
  /\ starting = None
  /\ heard = {}

(* DhcpSend.  asked is the Xids of the DISCOVERs since DhcpStart. *)
Discover(c, k) == [client EXCEPT ![c] = [k EXCEPT !.asked = @ \cup {k.xid}]]
Request(k) == [op |-> "request", xid |-> k.xid, ip |-> k.yi]
Broadcast(k) == [op |-> "discover", xid |-> k.xid, ip |-> None]

NewXid == {x \in Xid : \A c \in Client : client[c].xid # x /\ \A m \in heard : m.xid # x}
------------------------------------------------------------------------------
(* DhcpInit gives a client an Xid, which nobody hears before DhcpStart         *)
(* replaces it: a client of its own for "net dhcp" without a name, though eth0 *)
(* has one.                                                                    *)
DhcpStartOnAllInterfaces(c) ==
  /\ starting = None /\ c \notin {clients[i] : i \in DOMAIN clients}
  /\ clients' = <<c>> \o clients
  /\ client' = [client EXCEPT ![c].running = TRUE]
  /\ starting' = c
  /\ UNCHANGED <<addr, heard>>

(* "net dhcp eth0": the first client for eth0 starts over. *)
NetCmdDhcp ==
  /\ starting = None /\ clients # <<>>
  /\ LET c == clients[1]
     IN  /\ client' = [client EXCEPT ![c].running = TRUE, ![c].configured = FALSE, ![c].yi = None]
         /\ starting' = c
  /\ UNCHANGED <<clients, addr, heard>>

(* A tick or an answer to the old Xid may have come meanwhile. *)
Restarted(k, x) == [k EXCEPT !.xid = x, !.rebind = Again, !.asked = {}]
DhcpStart(x) ==
  /\ starting # None /\ x \in NewXid
  /\ LET k == Restarted(client[starting], x)
     IN  /\ client' = Discover(starting, k)
         /\ heard' = heard \cup {Broadcast(k)}
  /\ starting' = None
  /\ UNCHANGED <<clients, addr>>
------------------------------------------------------------------------------
(* DhcpRx: the first client with the Xid.  A message without a type, without   *)
(* the cookie or for nobody is only freed.                                     *)
Owner(x) ==
  LET own == {i \in DOMAIN clients : client[clients[i]].xid = x}
  IN  {clients[i] : i \in {j \in own : \A k \in own : j <= k}}

(* An OFFER is taken and asked for, whatever the client has; without an        *)
(* address it is not answered.  An option that is missing keeps the old value. *)
DhcpHandleOffer(c, ip, lease) ==
  /\ LET k == [client[c] EXCEPT !.yi = ip, !.lease = IF lease = None THEN @ ELSE lease]
     IN  /\ client' = [client EXCEPT ![c] = k]
         /\ heard' = IF ip = None THEN heard ELSE heard \cup {Request(k)}
  /\ UNCHANGED <<clients, addr, starting>>

Leased(k) == [k EXCEPT !.configured = TRUE, !.expires = k.lease, !.renew = k.lease \div 2,
                       !.rebind = (k.lease * 7) \div 8]
DhcpHandleAck(c, ip, lease) ==
  /\ LET k == [client[c] EXCEPT !.yi = IF ip = None THEN @ ELSE ip,
                                !.lease = IF lease = None THEN @ ELSE lease]
     IN  IF k.yi = None
         THEN client' = [client EXCEPT ![c] = [k EXCEPT !.configured = FALSE]] /\ UNCHANGED addr
         ELSE client' = [client EXCEPT ![c] = Leased(k)] /\ addr' = k.yi
  /\ UNCHANGED <<clients, starting, heard>>

(* RebindTime stays: the next DISCOVER leaves when it is reached. *)
DhcpHandleNak(c) ==
  /\ client' = [client EXCEPT ![c].configured = FALSE, ![c].yi = None]
  /\ UNCHANGED <<clients, addr, starting, heard>>

DhcpRx(m, lease) ==
  \E c \in Owner(m.xid) :
    IF m.op = "discover" THEN \E ip \in Ip \cup {None} : DhcpHandleOffer(c, ip, lease)
    ELSE DhcpHandleAck(c, m.ip, lease) \/ DhcpHandleAck(c, None, lease) \/ DhcpHandleNak(c)
------------------------------------------------------------------------------
Sooner(n) == IF n = 0 THEN 0 ELSE n - 1
Aged(k) == [k EXCEPT !.expires = Sooner(@), !.renew = Sooner(@), !.rebind = Sooner(@)]
DhcpClock ==
  /\ client' = [c \in Client |-> Aged(client[c])]
  /\ client' # client
  /\ UNCHANGED <<clients, addr, starting, heard>>

(* DhcpRetry keeps the Xid. *)
RetriedAtOnce(k) == k
Retried(k) == [k EXCEPT !.rebind = Again]

Expired(k) == k.configured /\ k.lease > 0 /\ k.expires = 0
Renews(k) == k.configured /\ k.lease > 0 /\ k.expires > 0 /\ (k.rebind = 0 \/ k.renew = 0)
Retries(k) == ~k.configured /\ k.rebind = 0

(* DhcpTick's pass over a client: at the end of its lease it starts over. *)
DhcpTick(c) ==
  LET k == client[c]
  IN  /\ k.running
      /\ \/ /\ Retries(k)
            /\ client' = Discover(c, Retried(k))
            /\ heard' = heard \cup {Broadcast(client'[c])}
         \/ /\ Expired(k)
            /\ \E x \in NewXid :
                 client' = Discover(c, Restarted([k EXCEPT !.configured = FALSE, !.yi = None], x))
            /\ heard' = heard \cup {Broadcast(client'[c])}
         \/ /\ Renews(k)
            /\ client' = [client EXCEPT ![c] = IF k.rebind = 0 THEN [k EXCEPT !.rebind = k.lease \div 8]
                                               ELSE [k EXCEPT !.renew = k.lease \div 2]]
            /\ heard' = heard \cup {Request(k)}
      /\ UNCHANGED <<clients, addr, starting>>
------------------------------------------------------------------------------
DhcpNext ==
  \/ \E c \in Client : DhcpStartOnAllInterfaces(c) \/ DhcpTick(c)
  \/ NetCmdDhcp \/ DhcpClock
  \/ \E x \in Xid : DhcpStart(x)
  \/ \E m \in heard, lease \in Lease \cup {None} : DhcpRx(m, lease)

(* The timer runs, and with it NetworkTickCallback. *)
DhcpFairness == WF_dhcpVars(DhcpClock) /\ \A c \in Client : WF_dhcpVars(DhcpTick(c))

DhcpSpec == DhcpSubsystemInit /\ [][DhcpNext]_dhcpVars
------------------------------------------------------------------------------
MaxTime == CHOOSE n \in Lease \cup {Again} : \A m \in Lease \cup {Again} : m <= n
DhcpTypeOK ==
  /\ clients \in Seq(Client) /\ \A i, j \in DOMAIN clients : clients[i] = clients[j] => i = j
  /\ client \in [Client -> [running : BOOLEAN, configured : BOOLEAN, xid : Xid \cup {None},
                            yi : Ip \cup {None}, lease : Lease \cup {0}, expires : 0..MaxTime,
                            renew : 0..MaxTime, rebind : 0..MaxTime, asked : SUBSET (Xid \cup {None})]]
  /\ addr \in Ip \cup {None} /\ starting \in Client \cup {None}
  /\ heard \subseteq [op : {"discover", "request"}, xid : Xid \cup {None}, ip : Ip \cup {None}]

(* "FIX: retry keeps the Xid so a late OFFER still matches" (Dhcp.c:377): the  *)
(* offer to any DISCOVER since the last DhcpStart still finds the client, and  *)
(* finds no other.                                                             *)
LateOfferMatches ==
  \A c \in Client : c # starting => \A x \in client[c].asked : Owner(x) = {c}

(* A client without an address asks for one, again and again, until it has     *)
(* one, also after a refusal.                                                  *)
Asks(c) == Retries(client[c]) /\ ~Retries(client[c])'
KeepsAsking ==
  \A c \in Client : []<>(~client[c].running \/ client[c].configured) \/ []<><<Asks(c)>>_dhcpVars
===============================================================================

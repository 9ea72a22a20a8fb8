--------------------------------- MODULE IpV4 --------------------------------
(* The way of a packet through IPv4 and ARP (Source/Network/IpV4.c, Arp.c,     *)
(* Ethernet.c, Network.c, Drivers/Network/Loopback.c): routes, the cache of    *)
(* hardware addresses, the packets that wait for one, and the buffers, each of *)
(* which somebody must free.  Threads send, the interrupt handler of eth0      *)
(* receives, and the timer's tick expires, each between any two steps of the   *)
(* others; what a lock covers is one step.                                     *)
EXTENDS Filters, Integers, Sequences, FiniteSets

CONSTANTS Buf,         \* the network buffers, each with the call that sends it
          Slots,       \* ARP_PENDING_MAX
          CacheSize,   \* ARP_CACHE_SIZE
          WaitTicks,   \* ARP_REQUEST_TIMEOUT_MS, in ticks of the network timer
          MaxRoutes,   \* bound: routes added
          None

(* A UINT32 address is a host's number in host order, or the same number with  *)
(* its bytes swapped, which Htonl and Ntohl make of one another.  "all" is the *)
(* broadcast address, the same either way.                                     *)
Station == {"gw", "peer"}
Lan == Station \cup {"me"}
Addr == [host : Lan \cup {"far", "lo"}, swapped : BOOLEAN] \cup [host : {"all"}, swapped : {FALSE}]
Plain(h) == [host |-> h, swapped |-> FALSE]
Swap(a) == IF a.host = "all" THEN a ELSE [a EXCEPT !.swapped = ~@]
Wire(h) == Swap(Plain(h))

Slot == 1..Slots

(* What the constants are assumed to be. *)
IpAssumption ==
  /\ None \notin Buf \cup Addr /\ Slots \in Nat
  /\ CacheSize \in Nat \ {0} /\ WaitTicks \in Nat \ {0} /\ MaxRoutes \in Nat \ {0}

VARIABLES routes,   \* GIpV4Routes
          set,      \* has eth0 an address?
          cache,    \* GCache, the entry with the oldest Timestamp first
          pending,  \* GPending
          call,     \* each buffer: how far its call is, and what is in its headers
          arp       \* the station whose reply ArpInput has added and not yet flushed

ipVars == <<routes, set, cache, pending, call, arp>>

Route == [net : {"lo", "lan", "any"}, gw : {"gw", None}, src : {"me", "lo", None}]
Idle == [pc |-> "free", dev |-> None, dst |-> None, src |-> None, hop |-> None,
         mac |-> None, kind |-> None, looped |-> FALSE]
Empty == [ip |-> None, buf |-> None, age |-> 0]

IpStart ==
  /\ routes = <<[net |-> "lo", gw |-> None, src |-> "lo"]>>
  /\ set = FALSE
  /\ cache = <<>>
  /\ pending = [s \in Slot |-> Empty]
  /\ call = [b \in Buf |-> Idle]
  /\ arp = None
------------------------------------------------------------------------------
(* The list of routes.  None of them is ever removed. *)
RouteAdd(new) == /\ Len(routes) + Len(new) <= MaxRoutes
                 /\ routes' = routes \o new

(* "net set", and what DhcpStart adds so that a DISCOVER can leave. *)
NetCmdIfSet ==
  /\ RouteAdd(<<[net |-> "lan", gw |-> None, src |-> "me"], [net |-> "any", gw |-> "gw", src |-> "me"]>>)
  /\ set' = TRUE
  /\ UNCHANGED <<cache, pending, call, arp>>

DefaultRoute == \E i \in DOMAIN routes : routes[i].net = "any"

AddDefault ==
  /\ ~DefaultRoute
  /\ RouteAdd(<<[net |-> "any", gw |-> None, src |-> None]>>)
  /\ UNCHANGED <<set, cache, pending, call, arp>>

(* Routes hold numbers in host order, so a swapped address is in no subnet. *)
Matches(a, r) == CASE r.net = "lo" -> a = Plain("lo")
                   [] r.net = "lan" -> a.host \in Lan /\ ~a.swapped
                   [] r.net = "any" -> TRUE

(* The longest netmask, and the first of those. *)
Longer(i, j) == routes[i].net # "any" /\ routes[j].net = "any"
Lookup(a) ==
  LET match == {i \in DOMAIN routes : Matches(a, routes[i])}
      best == {i \in match : \A j \in match : ~Longer(j, i) /\ (Longer(i, j) \/ i <= j)}
  IN  IF match = {} THEN None ELSE routes[CHOOSE i \in best : TRUE]

(* Dev->IpAddr as a number: eth0's is copied from a host order UINT32, lo's is *)
(* written byte by byte.                                                       *)
IpAddr(dev) == IF dev = "lo" THEN Wire("lo") ELSE IF set THEN Plain("me") ELSE None
DevOf(r) == IF r.net = "lo" THEN "lo" ELSE "eth0"
Source(r, dst, src) == IF src # None \/ dst.host = "all" THEN src
                       ELSE IF r.src # None THEN Wire(r.src)
                       ELSE IpAddr(DevOf(r))
NextHop(r, dst) == IF r.gw # None THEN Wire(r.gw) ELSE dst
------------------------------------------------------------------------------
Over(b, how) == [Idle EXCEPT !.pc = how, !.looped = call[b].looped]
Freed(b) == [call EXCEPT ![b] = Over(b, "freed")]
Ended == {"free", "freed", "sent", "answered"}

(* IpV4Output, or what becomes of the call: the packet is freed without a      *)
(* route, when it is larger than the MTU or no source address is known.  What  *)
(* is in the headers of one that leaves this machine is not looked at again.   *)
Output(dst, src, kind, looped, small) ==
  LET r == Lookup(dst)
      from == Source(r, dst, src)
      c == [Idle EXCEPT !.dev = DevOf(r), !.looped = looped]
  IN  IF r = None \/ ~small \/ (from = None /\ dst.host # "all")
      THEN [Idle EXCEPT !.pc = "freed", !.looped = looped]
      ELSE IF c.dev = "lo"
      THEN [c EXCEPT !.pc = "emit", !.mac = "lo", !.dst = dst, !.src = from, !.kind = kind]
      ELSE IF dst \in {Plain("all"), Plain("lo")}
      THEN [c EXCEPT !.pc = "emit", !.mac = IF dst.host = "all" THEN "all" ELSE c.dev]
      ELSE [c EXCEPT !.pc = "resolve", !.hop = NextHop(r, dst)]

(* A caller sends an echo request or a datagram to an address as the shell     *)
(* parsed it.                                                                  *)
IpV4Output(b, h, kind, small) ==
  /\ call[b].pc \in Ended
  /\ call' = [call EXCEPT ![b] = Output(Plain(h), None, kind, h = "lo", small)]
  /\ UNCHANGED <<routes, set, cache, pending, arp>>
------------------------------------------------------------------------------
(* The cache.  An entry is found by its number; a new one takes the place of   *)
(* the oldest when there is no other.  Expired ones go before a look-up.       *)
Known(a) == {i \in DOMAIN cache : cache[i].ip = a}
Others(a) == Kept(cache, {e \in Members(cache) : e.ip # a})
Added(a, mac) ==
  LET rest == Others(a)
  IN  Append(IF Len(rest) = CacheSize THEN Tail(rest) ELSE rest, [ip |-> a, mac |-> mac])

PurgeExpired ==
  /\ cache # <<>>
  /\ cache' = Tail(cache)
  /\ UNCHANGED <<routes, set, pending, call, arp>>

NetCmdArp ==
  /\ \E h \in Station : cache' = Added(Plain(h), h) \/ cache' = Others(Plain(h))
  /\ UNCHANGED <<routes, set, pending, call, arp>>

(* ArpResolve: the cache, else a request goes out. *)
ArpResolve(b) ==
  /\ call[b].pc = "resolve"
  /\ LET known == Known(Swap(call[b].hop))
     IN  call' = IF known = {} THEN [call EXCEPT ![b].pc = "queue"]
                 ELSE [call EXCEPT ![b].pc = "emit", ![b].mac = cache[CHOOSE i \in known : TRUE].mac]
  /\ UNCHANGED <<routes, set, cache, pending, arp>>

(* ArpQueuePacket: also when the request could not be sent. *)
FirstSlot == {1}
FreeSlot == {s \in Slot : pending[s] = Empty /\ \A t \in 1..(s - 1) : pending[t] # Empty}
ArpQueuePacket(b) ==
  /\ call[b].pc = "queue"
  /\ IF FreeSlot = {} THEN call' = Freed(b) /\ UNCHANGED pending
     ELSE /\ \E s \in FreeSlot :
               pending' = [pending EXCEPT ![s] = [ip |-> call[b].hop, buf |-> b, age |-> 0]]
          /\ call' = [call EXCEPT ![b].pc = "pending"]
  /\ UNCHANGED <<routes, set, cache, arp>>

(* A station announces itself, by a request or a reply. *)
ArpInput(p, op) ==
  /\ arp = None
  /\ cache' = Added(Wire(p), p)
  /\ arp' = IF op = "reply" THEN p ELSE None
  /\ UNCHANGED <<routes, set, pending, call>>

(* All packets that wait for the station that replied leave. *)
Waiting(p) == {s \in Slot : pending[s].ip = Wire(p)}
FlushPending ==
  /\ arp # None
  /\ LET out == {pending[s].buf : s \in Waiting(arp)}
     IN  call' = [b \in Buf |-> IF b \in out THEN [call[b] EXCEPT !.pc = "emit", !.mac = arp] ELSE call[b]]
  /\ pending' = [s \in Slot |-> IF s \in Waiting(arp) THEN Empty ELSE pending[s]]
  /\ arp' = None
  /\ UNCHANGED <<routes, set, cache>>

(* Time passes, and ArpTick frees what waited too long. *)
Clock ==
  /\ \E s \in Slot : pending[s] # Empty /\ pending[s].age < WaitTicks
  /\ pending' = [s \in Slot |-> IF pending[s] # Empty /\ pending[s].age < WaitTicks
                                THEN [pending[s] EXCEPT !.age = @ + 1] ELSE pending[s]]
  /\ UNCHANGED <<routes, set, cache, call, arp>>

ArpTick(s) ==
  /\ pending[s].age = WaitTicks
  /\ call' = Freed(pending[s].buf)
  /\ pending' = [pending EXCEPT ![s] = Empty]
  /\ UNCHANGED <<routes, set, cache, arp>>
------------------------------------------------------------------------------
(* EthernetOutput: to the driver, which frees b whether it sends it or not; lo *)
(* gives it back to NetworkRx.                                                 *)
EthernetOutput(b) ==
  /\ call[b].pc = "emit"
  /\ \/ call[b].dev = "lo" /\ call' = [call EXCEPT ![b].pc = "input"]
     \/ call[b].dev # "lo" /\ call' = [call EXCEPT ![b] = Over(b, "sent")]
     \/ call[b].dev # "lo" /\ call' = Freed(b)
  /\ UNCHANGED <<routes, set, cache, pending, arp>>

(* A frame from the wire, for this machine or not. *)
NetworkRx(b, p, dst, kind) ==
  /\ call[b].pc \in Ended
  /\ call' = [call EXCEPT ![b] = [Idle EXCEPT !.pc = "input", !.dev = "eth0", !.dst = dst,
                                              !.src = Wire(p), !.kind = kind]]
  /\ UNCHANGED <<routes, set, cache, pending, arp>>

Mine(dev, dst) == Swap(dst) = IpAddr(dev) \/ dst \in {Plain("all"), Plain("lo")}

(* EthernetInput, IpV4Input and ICmpRx: a frame that is "bad" in any header, a *)
(* fragment, or not for this machine goes; an echo request is turned round in  *)
(* its own buffer.                                                             *)
IpV4Input(b) ==
  LET c == call[b]
  IN  /\ c.pc = "input"
      /\ call' = IF c.kind = "bad" \/ ~Mine(c.dev, c.dst) THEN Freed(b)
                 ELSE CASE c.kind = "echo" ->
                             [call EXCEPT ![b] = Output(c.src, c.dst, "echo reply", c.looped, TRUE)]
                        [] c.kind \in {"echo reply", "datagram"} ->
                             [call EXCEPT ![b] = Over(b, "answered")]
      /\ UNCHANGED <<routes, set, cache, pending, arp>>
------------------------------------------------------------------------------
Sends(b) ==
  \/ \E h \in Station \cup {"far", "lo", "all"}, small \in BOOLEAN :
       IpV4Output(b, h, "echo", small)
  \/ ArpResolve(b) \/ ArpQueuePacket(b) \/ EthernetOutput(b)

Receives(b) ==
  \/ \E p \in Station, dst \in {Wire("me"), Wire("far"), Plain("all")},
        kind \in {"echo", "datagram", "bad"} : NetworkRx(b, p, dst, kind)
  \/ IpV4Input(b)

IpNext ==
  \/ NetCmdIfSet \/ AddDefault \/ NetCmdArp \/ PurgeExpired
  \/ \E b \in Buf : Sends(b) \/ Receives(b)
  \/ \E p \in Station, op \in {"request", "reply"} : ArpInput(p, op)
  \/ FlushPending \/ Clock
  \/ \E s \in Slot : ArpTick(s)

(* The timer's subscriber runs every 100 ticks. *)
IpFairness == WF_ipVars(Clock) /\ \A s \in Slot : WF_ipVars(ArpTick(s))

IpSpec == IpStart /\ [][IpNext]_ipVars
------------------------------------------------------------------------------
IpTypeOK ==
  /\ routes \in Seq(Route) /\ Len(routes) <= MaxRoutes /\ set \in BOOLEAN
  /\ cache \in Seq([ip : Addr, mac : Station]) /\ Len(cache) <= CacheSize
  /\ pending \in [Slot -> [ip : Addr \cup {None}, buf : Buf \cup {None}, age : 0..WaitTicks]]
  /\ call \in [Buf -> [pc : Ended \cup {"resolve", "queue", "pending", "emit", "input"},
                       dev : {"lo", "eth0", None}, dst : Addr \cup {None}, src : Addr \cup {None},
                       hop : Addr \cup {None}, mac : Station \cup {"lo", "all", None},
                       kind : {"echo", "echo reply", "datagram", "bad", None},
                       looped : BOOLEAN]]
  /\ arp \in Station \cup {None}

(* A packet that waits is in one slot, and what a slot holds waits: no packet  *)
(* is lost without being freed, and none is freed by ArpTick that a reply has  *)
(* already sent off.                                                           *)
BuffersHeld ==
  \A b \in Buf : Cardinality({s \in Slot : pending[s].buf = b}) = IF call[b].pc = "pending" THEN 1 ELSE 0

(* A packet for a station, or for the gateway on its way, goes out to that     *)
(* station's hardware address, whether it was known, had to be asked for, or   *)
(* was put in by hand, and in whichever byte order it got into the cache.      *)
RightStation ==
  \A b \in Buf : call[b].pc = "emit" /\ call[b].hop # None => call[b].mac = call[b].hop.host

(* The buffers and the addresses, over states of the right types. *)
PacketsSound == IpTypeOK /\ BuffersHeld /\ RightStation

(* No packet waits for ever for a station that does not answer. *)
PendingEnds == \A b \in Buf : call[b].pc = "pending" ~> call[b].pc # "pending"

(* "That makes ping 127.0.0.1 synchronous, which is exactly what we want for   *)
(* testing" (Loopback.c:41): an echo to this machine is answered.              *)
LoopbackAnswers == \A b \in Buf : call[b].pc = "freed" => ~call[b].looped
=============================================================================

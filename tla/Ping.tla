--------------------------------- MODULE Ping ---------------------------------
(* Requests to other stations for an echo (Source/Network/ICmp.c): the shell's *)
(* ICmpPing, which waits for its replies, the interrupt handler that counts    *)
(* them, and the timer's ICmpTick, which sends again what got no answer and    *)
(* takes a request off the list that has had all of its answers or time-outs.  *)
(* GICmpLock is held for a whole step except where the tick sends or frees;    *)
(* the two handlers run on the boot processor, one after the other.            *)
EXTENDS Integers, FiniteSets

CONSTANTS Req,       \* places in the heap for a PingRequest
          Count,     \* echos asked for
          Timeout,   \* TimeoutMs, in ticks of the network timer
          Width,     \* Remaining is a UINT32: its number of values
          MaxPings,  \* bound: pings the user starts
          None

VARIABLES head,   \* GPingRequests
          req,    \* each request: is it allocated, its Id, Remaining, age and Next
          ping,   \* how far ICmpPing is, its request and its Stats
          tick    \* how far ICmpTick is, its Req and its Prev

pingVars == <<head, req, ping, tick>>

Fresh == [live |-> FALSE, id |-> 0, left |-> 0, age |-> 0, next |-> None]
NoPing == [pc |-> "none", req |-> None, id |-> 0, i |-> 0, received |-> 0, waited |-> 0]
NoTick == [pc |-> "none", at |-> None, prev |-> None]

PingStart ==
  /\ head = None
  /\ req = [r \in Req |-> Fresh]
  /\ ping = NoPing
  /\ tick = NoTick

(* What the list's head and Next pointers reach. *)
Reach[n \in 0..Cardinality(Req)] ==
  IF n = 0 THEN {head}
  ELSE Reach[n - 1] \cup {req[r].next : r \in Reach[n - 1] \ {None}}
Listed == Reach[Cardinality(Req)] \ {None}

(* The list without r, which p comes before unless r is its head. *)
Unlinked(p, r) == IF p = None THEN head' = req[r].next /\ UNCHANGED req
                  ELSE head' = head /\ req' = [req EXCEPT ![p].next = req[r].next]
Before(r) == IF head = r THEN None ELSE CHOOSE p \in Listed : req[p].next = r

Locked == tick.pc \in {"visit", "check"}
------------------------------------------------------------------------------
(* The request goes in front of the list, and the first echo out. *)
ICmpPing(r) ==
  /\ ping.pc = "none" /\ ping.id < MaxPings /\ ~req[r].live /\ ~Locked
  /\ req' = [req EXCEPT ![r] = [live |-> TRUE, id |-> ping.id + 1, left |-> Count, age |-> 0, next |-> head]]
  /\ head' = r
  /\ ping' = [pc |-> "wait", req |-> r, id |-> ping.id + 1, i |-> 1, received |-> 0, waited |-> 0]
  /\ UNCHANGED tick

(* One echo after the other, each when the last is answered or given up. *)
Waited ==
  /\ ping.pc = "wait" /\ ~Locked
  /\ ping.received >= ping.i \/ ping.waited = Timeout
  /\ ping' = IF ping.i < Count THEN [ping EXCEPT !.i = @ + 1, !.waited = 0]
             ELSE [ping EXCEPT !.pc = "unlink"]
  /\ UNCHANGED <<head, req, tick>>

Unlink ==
  /\ ping.pc = "unlink" /\ ~Locked
  /\ IF ping.req \in Listed THEN Unlinked(Before(ping.req), ping.req)
     ELSE UNCHANGED <<head, req>>
  /\ ping' = [ping EXCEPT !.pc = "free"]
  /\ UNCHANGED tick

(* MemoryFree, whether or not the tick has freed it before. *)
Free ==
  /\ ping.pc = "free"
  /\ req' = [req EXCEPT ![ping.req].live = FALSE]
  /\ ping' = [NoPing EXCEPT !.id = ping.id]
  /\ UNCHANGED <<head, tick>>

(* A reply to any echo ever sent, late or twice: it counts when its request is *)
(* on the list.                                                                *)
ICmpHandleEchoReply(id) ==
  /\ id <= ping.id /\ tick = NoTick
  /\ \E r \in Listed :
       /\ req[r].id = id
       /\ req' = [req EXCEPT ![r].left = IF @ > 0 THEN @ - 1 ELSE 0]
  /\ ping' = IF ping.pc # "none" /\ id = ping.id /\ ping.received < Count
             THEN [ping EXCEPT !.received = @ + 1] ELSE ping
  /\ UNCHANGED <<head, tick>>

Clock ==
  /\ \/ ping.pc = "wait" /\ ping.waited < Timeout
     \/ \E r \in Listed : req[r].age < Timeout
  /\ req' = [r \in Req |-> IF r \in Listed /\ req[r].age < Timeout
                           THEN [req[r] EXCEPT !.age = @ + 1] ELSE req[r]]
  /\ ping' = IF ping.pc = "wait" /\ ping.waited < Timeout THEN [ping EXCEPT !.waited = @ + 1] ELSE ping
  /\ UNCHANGED <<head, tick>>
------------------------------------------------------------------------------
At(r, prev) == IF r = None THEN NoTick ELSE [pc |-> "visit", at |-> r, prev |-> prev]

ICmpTick == /\ tick = NoTick /\ head # None
            /\ tick' = At(head, None)
            /\ UNCHANGED <<head, req, ping>>

(* A request that had no answer for its time has lost one echo.  When there    *)
(* are more to come the lock is dropped to send the next.                      *)
Visit ==
  /\ tick.pc = "visit"
  /\ LET r == req[tick.at]
         late == r.age = Timeout
         left == IF late THEN (r.left - 1) % Width ELSE r.left
     IN  /\ req' = [req EXCEPT ![tick.at] = [r EXCEPT !.left = left, !.age = IF late THEN 0 ELSE @]]
         /\ tick' = [tick EXCEPT !.pc = IF late /\ left > 0 THEN "send" ELSE "check"]
  /\ UNCHANGED <<head, ping>>

Send == /\ tick.pc = "send"
        /\ tick' = [tick EXCEPT !.pc = "check"]
        /\ UNCHANGED <<head, req, ping>>

(* Req is looked at again, though it may have been freed meanwhile. *)
Check ==
  /\ tick.pc = "check"
  /\ IF req[tick.at].left = 0
     THEN Unlinked(tick.prev, tick.at) /\ tick' = [tick EXCEPT !.pc = "free"]
     ELSE tick' = At(req[tick.at].next, tick.at) /\ UNCHANGED <<head, req>>
  /\ UNCHANGED ping

TickFree ==
  /\ tick.pc = "free"
  /\ req' = [req EXCEPT ![tick.at].live = FALSE]
  /\ tick' = At(IF tick.prev = None THEN head ELSE req[tick.prev].next, tick.prev)
  /\ UNCHANGED <<head, ping>>
------------------------------------------------------------------------------
PingNext ==
  \/ \E r \in Req : ICmpPing(r)
  \/ Waited \/ Unlink \/ Free
  \/ \E id \in 1..MaxPings : ICmpHandleEchoReply(id)
  \/ Clock
  \/ ICmpTick \/ Visit \/ Send \/ Check \/ TickFree

(* The timer runs, its handler comes to an end, and the shell is scheduled.    *)
(* The tick holds the lock for moments, so the shell gets it at some time.     *)
Handler == ICmpTick \/ Visit \/ Send \/ Check \/ TickFree
PingFairness == WF_pingVars(Clock) /\ WF_pingVars(Handler) /\ SF_pingVars(Waited) /\ SF_pingVars(Unlink) /\ WF_pingVars(Free)

PingSpec == PingStart /\ [][PingNext]_pingVars
------------------------------------------------------------------------------
PingTypeOK ==
  /\ head \in Req \cup {None}
  /\ req \in [Req -> [live : BOOLEAN, id : 0..MaxPings, left : 0..(Width - 1), age : 0..Timeout,
                      next : Req \cup {None}]]
  /\ ping \in [pc : {"none", "wait", "unlink", "free"}, req : Req \cup {None}, id : 0..MaxPings,
               i : 0..Count, received : 0..Count, waited : 0..Timeout]
  /\ tick \in [pc : {"none", "visit", "send", "check", "free"}, at : Req \cup {None},
               prev : Req \cup {None}]

(* "copy destination and id under the lock so that another CPU cannot free Req *)
(* between release and use" (ICmp.c:413): when the tick has the lock again, the*)
(* request it goes on to look at has not been freed.                           *)
CheckedIsLive == tick.pc = "check" => req[tick.at].live

(* A ping comes to an end though no reply comes, too few or too many, and      *)
(* whoever takes the request off the list.                                     *)
PingEnds == ping.pc # "none" ~> ping.pc = "none"
===============================================================================

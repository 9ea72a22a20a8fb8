--------------------------------- MODULE Dns ---------------------------------
(* Looking up names (Source/Network/Dns.c, over Udp.c): the shell's DnsResolve *)
(* queues a query, asks twice and watches the cache; the interrupt handler of  *)
(* the NIC takes a query whose answer has come off the queue, fills the cache  *)
(* and frees it; the timer's DnsTick asks again and gives up.  Handlers do not *)
(* interrupt each other.  GDnsLock covers a whole step except where the tick   *)
(* sends or frees and between the three things DnsUdpRx does.                  *)
EXTENDS Integers, Sequences, FiniteSets

CONSTANTS MaxQueries,  \* bound: queries the user starts, each in fresh memory
          Name,
          Address,     \* the address of each name
          Timeout,     \* DNS_TIMEOUT_MS, in ticks of the network timer
          Retries,     \* DNS_MAX_RETRIES
          None

Query == 1..MaxQueries   \* GNextQueryId counts them, so a query is its Id

VARIABLES head,     \* GPending
          query,    \* each DnsQuery
          cache,    \* GCache: the address kept for each name, if it has not expired
          resolve,  \* how far DnsResolve is
          irq       \* how far DnsUdpRx or DnsTick is

dnsVars == <<head, query, cache, resolve, irq>>

Unused == [live |-> FALSE, name |-> None, age |-> 0, retries |-> 0, next |-> None]
NoResolve == [pc |-> "none", q |-> None, waited |-> 0]
NoIrq == [pc |-> "none", at |-> None, prev |-> None, next |-> None, name |-> None, answer |-> None]

DnsStart ==
  /\ head = None
  /\ query = [q \in Query |-> Unused]
  /\ cache = [n \in Name |-> None]
  /\ resolve = NoResolve
  /\ irq = NoIrq

(* The list the head and the Next pointers make. *)
Reached[n \in 0..MaxQueries] ==
  IF n = 0 THEN {head} ELSE Reached[n - 1] \cup {query[q].next : q \in Reached[n - 1] \ {None}}
Pending == Reached[MaxQueries] \ {None}
Before(q) == IF head = q THEN None ELSE CHOOSE p \in Pending : query[p].next = q

(* Whoever takes q out has walked up to it from the head, or remembers prev. *)
Unlinked(prev, next) ==
  /\ head' = IF prev = None THEN next ELSE head
  /\ query' = IF prev = None THEN query ELSE [query EXCEPT ![prev].next = next]

Unlocked == irq.pc # "visit"
------------------------------------------------------------------------------
(* DnsResolve of a name the cache does not hold, up to the first DnsSendQuery. *)
DnsResolve(q, n) ==
  /\ resolve.pc = "none" /\ cache[n] = None /\ Unlocked
  /\ query[q].name = None /\ \A p \in 1..(q - 1) : query[p].name # None
  /\ query' = [query EXCEPT ![q] = [Unused EXCEPT !.live = TRUE, !.name = n, !.next = head]]
  /\ head' = q
  /\ resolve' = [pc |-> "send", q |-> q, waited |-> 0]
  /\ UNCHANGED <<cache, irq>>

(* There may be no buffer, or no route to GNameserver. *)
DnsSendQuery ==
  /\ resolve.pc = "send"
  /\ \E pc \in {"first", "unlink"} : resolve' = [resolve EXCEPT !.pc = pc]
  /\ UNCHANGED <<head, query, cache, irq>>

(* It does not look at its query again: it returns when the name is there. *)
Found ==
  /\ resolve.pc \in {"first", "second"} /\ resolve.waited < Timeout
  /\ cache[query[resolve.q].name] # None
  /\ resolve' = NoResolve
  /\ UNCHANGED <<head, query, cache, irq>>

TimedOut ==
  /\ resolve.pc \in {"first", "second"} /\ resolve.waited = Timeout
  /\ resolve' = [resolve EXCEPT !.pc = IF @ = "first" THEN "second" ELSE "unlink", !.waited = 0]
  /\ UNCHANGED <<head, query, cache, irq>>

Unlink ==
  /\ resolve.pc = "unlink" /\ Unlocked
  /\ IF resolve.q \in Pending THEN Unlinked(Before(resolve.q), query[resolve.q].next)
     ELSE UNCHANGED <<head, query>>
  /\ resolve' = [resolve EXCEPT !.pc = "free"]
  /\ UNCHANGED <<cache, irq>>

(* Freed also when DnsUdpRx or DnsTick has freed it before. *)
Free ==
  /\ resolve.pc = "free"
  /\ query' = [query EXCEPT ![resolve.q].live = FALSE]
  /\ resolve' = NoResolve
  /\ UNCHANGED <<head, cache, irq>>

Older(q) == IF q \in Pending /\ query[q].age < Timeout THEN [query[q] EXCEPT !.age = @ + 1] ELSE query[q]
DnsClock ==
  /\ query' = [q \in Query |-> Older(q)]
  /\ resolve' = IF resolve.pc \in {"first", "second"} /\ resolve.waited < Timeout
                THEN [resolve EXCEPT !.waited = @ + 1] ELSE resolve
  /\ <<query', resolve'>> # <<query, resolve>>
  /\ UNCHANGED <<head, cache, irq>>

DnsCacheExpires(n) ==
  /\ cache[n] # None
  /\ cache' = [cache EXCEPT ![n] = None]
  /\ UNCHANGED <<head, query, resolve, irq>>
------------------------------------------------------------------------------
(* The ports UdpRx has a handler for: DNS, and the DHCP client.  What comes    *)
(* for another is freed, and so is a reply to the port that DnsAllocSrcPort    *)
(* gave a query.                                                               *)
Registered == {53, 68}

(* What a server answers: an error, or aliases and then addresses, or no end.  *)
Answer == {[rcode |-> 3, records |-> <<>>]}
          \cup [rcode : {0}, records : {<<>>, <<"cname">>, <<"a">>, <<"cname", "a">>}]

(* DnsParseResponse: is there an address?  The question is not compared. *)
Parsed(answer) == answer.rcode = 0 /\ \E i \in DOMAIN answer.records : answer.records[i] = "a"

(* The query is found by its Id alone and leaves the queue under the lock. *)
AnyAsked(q) == Pending
Asked(q) == {p \in Pending : p = q}
DnsUdpRx(port, q, answer) ==
  /\ irq.pc = "none" /\ port = 53 /\ port \in Registered
  /\ \E p \in Asked(q) :
       /\ Unlinked(Before(p), query[p].next)
       /\ irq' = [NoIrq EXCEPT !.pc = "insert", !.at = p, !.name = query[p].name,
                               !.answer = IF Parsed(answer) THEN Address[query[q].name] ELSE None]
  /\ UNCHANGED <<cache, resolve>>

(* Nothing is kept when there is no memory for a new entry. *)
DnsCacheInsert ==
  /\ irq.pc = "insert"
  /\ \/ irq.answer # None /\ cache' = [cache EXCEPT ![irq.name] = irq.answer]
     \/ UNCHANGED cache
  /\ irq' = [irq EXCEPT !.pc = "free", !.next = None, !.name = None, !.answer = None]
  /\ UNCHANGED <<head, query, resolve>>
------------------------------------------------------------------------------
Visiting(q, prev) == IF q = None THEN NoIrq ELSE [NoIrq EXCEPT !.pc = "visit", !.at = q, !.prev = prev]

DnsTick ==
  /\ irq.pc = "none" /\ \E q \in Pending : query[q].age = Timeout
  /\ irq' = Visiting(head, None)
  /\ UNCHANGED <<head, query, cache, resolve>>

(* A query that waited too long is sent again, or leaves the queue. *)
Visit ==
  /\ irq.pc = "visit"
  /\ LET q == query[irq.at]
     IN  CASE q.age < Timeout ->
                irq' = Visiting(q.next, irq.at) /\ UNCHANGED <<head, query>>
           [] q.age = Timeout /\ q.retries < Retries ->
                /\ query' = [query EXCEPT ![irq.at].retries = @ + 1, ![irq.at].age = 0]
                /\ irq' = [irq EXCEPT !.pc = "send", !.prev = irq.at, !.next = q.next]
                /\ UNCHANGED head
           [] q.age = Timeout /\ q.retries = Retries ->
                /\ Unlinked(irq.prev, q.next)
                /\ irq' = [irq EXCEPT !.pc = "free", !.next = q.next]
  /\ UNCHANGED <<cache, resolve>>

(* The lock is taken again, and the walk goes on from what it remembers. *)
TickSent ==
  /\ irq.pc = "send"
  /\ irq' = Visiting(irq.next, irq.prev)
  /\ UNCHANGED <<head, query, cache, resolve>>

IrqFree ==
  /\ irq.pc = "free"
  /\ query' = [query EXCEPT ![irq.at].live = FALSE]
  /\ irq' = Visiting(irq.next, irq.prev)
  /\ UNCHANGED <<head, cache, resolve>>
------------------------------------------------------------------------------
Shell == (\E q \in Query, n \in Name : DnsResolve(q, n)) \/ DnsSendQuery \/ Found \/ TimedOut \/ Unlink \/ Free
Handler == DnsCacheInsert \/ DnsTick \/ Visit \/ TickSent \/ IrqFree

DnsNext ==
  \/ Shell \/ Handler \/ DnsClock
  \/ \E n \in Name : DnsCacheExpires(n)
  \/ \E port \in {53, 68, 40000}, q \in {p \in Query : query[p].name # None}, answer \in Answer :
       DnsUdpRx(port, q, answer)

(* The timer runs, its handler comes to an end, and the shell is scheduled. *)
DnsFairness == WF_dnsVars(DnsClock) /\ WF_dnsVars(Handler)
               /\ WF_dnsVars(DnsSendQuery \/ TimedOut \/ Unlink \/ Free)

DnsSpec == DnsStart /\ [][DnsNext]_dnsVars
------------------------------------------------------------------------------
DnsTypeOK ==
  /\ head \in Query \cup {None}
  /\ query \in [Query -> [live : BOOLEAN, name : Name \cup {None}, age : 0..Timeout,
                          retries : 0..Retries, next : Query \cup {None}]]
  /\ cache \in [Name -> {None} \cup {Address[n] : n \in Name}]
  /\ resolve \in [pc : {"none", "send", "first", "second", "unlink", "free"},
                  q : Query \cup {None}, waited : 0..Timeout]
  /\ irq \in [pc : {"none", "insert", "free", "visit", "send"}, at : Query \cup {None},
              prev : Query \cup {None}, next : Query \cup {None}, name : Name \cup {None},
              answer : {None} \cup {Address[n] : n \in Name}]

(* The cache never holds the address of another name, though an answer may     *)
(* come after its query was given up and the next one queued, and twice.       *)
AnswerIsAsked == \A n \in Name : cache[n] \in {None, Address[n]}

(* A name that does not resolve does not keep the shell for ever, and a query  *)
(* that nobody waits for any more does not stay queued for ever, whoever takes *)
(* it out while the tick has let go of the lock.                               *)
ResolveEnds == resolve.pc # "none" ~> resolve.pc = "none"
QueriesEnd == \A q \in Query : q \in Pending ~> q \notin Pending
==============================================================================

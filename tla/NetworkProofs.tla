---------------------------- MODULE NetworkProofs ----------------------------
(* The Intel adapter's two rings, of any size, with any number of threads that *)
(* transmit: what the adapter stores the driver takes once and in order, and   *)
(* what the driver puts on the ring leaves in the order it was put there.  The *)
(* same of the Realtek adapter's ring of bytes and its transmit slots.         *)
(* Then IPv4 and ARP, with any buffers, slots and routes: no packet is lost    *)
(* on its way through them, nor sent to another station than its next hop.     *)
(* Then TCP, with any sockets and bounds: every socket's numbers add up, its   *)
(* two streams are whole, and what has left its queues the station has.        *)
(* Last the lists of requests: names, pings and the DHCP clients.              *)
EXTENDS Adapters, IpV4, Tcp, Requests, ProofBasics

(* One turn of a ring at most; how far a descriptor is ahead of another.       *)
Lap(n, a) == IF a < n THEN a ELSE a - n
Ahead(n, from, j) == IF j < from THEN j - from + n ELSE j - from

LEMMA Turn ==
  ASSUME NEW n \in Nat \ {0}, NEW a \in 0..(2 * n - 1)
  PROVE  a % n = Lap(n, a) /\ Lap(n, a) \in 0..(n - 1)
<1>1. a \in 0..(n - 1) => a % n = a
  OBVIOUS
<1>2. a \in n..(2 * n - 1) => a % n = a - n
  OBVIOUS
<1> QED BY <1>1, <1>2 DEF Lap

LEMMA Numbers ==
  ASSUME E1000Assumption
  PROVE  /\ RxRing \in Nat \ {0} /\ TxRing \in Nat \ {0} /\ MaxFrames \in Nat /\ MaxLinks \in Nat
         /\ RxSlot = 0..(RxRing - 1) /\ TxSlot = 0..(TxRing - 1)
BY DEF E1000Assumption, RxSlot, TxSlot

LEMMA NextSlot ==
  ASSUME NEW n \in Nat \ {0}, NEW j \in 0..(n - 1)
  PROVE  (j + 1) % n = Lap(n, j + 1) /\ Lap(n, j + 1) \in 0..(n - 1)
<1> DEFINE a == j + 1
<1>1. a \in 0..(2 * n - 1)
  OBVIOUS
<1> HIDE DEF a
<1>2. a % n = Lap(n, a) /\ Lap(n, a) \in 0..(n - 1)
  BY <1>1, Turn
<1> QED BY <1>2 DEF a
------------------------------------------------------------------------------
(* The receive ring.  The frames stored and not yet taken off lie from RxNext  *)
(* on, up to RDH; the first one may have been emptied before it is returned.   *)
RxDesc == [RxSlot -> [dd : BOOLEAN, frame : 0..MaxFrames]]
StillWaits(desc, j, f) == desc[j].dd /\ desc[j].frame = f
RxHolds(desc, next, rdh, before, stored, emptied) ==
  /\ before \in Nat /\ stored \in Nat /\ before <= stored /\ stored < before + RxRing
  /\ emptied => before < stored
  /\ rdh = Lap(RxRing, next + (stored - before))
  /\ \A j \in RxSlot :
       LET i == Ahead(RxRing, next, j)
       IN  IF i < stored - before /\ ~(emptied /\ j = next)
           THEN StillWaits(desc, j, before + i + 1) ELSE ~desc[j].dd
LastOf(next) == Lap(RxRing, next + RxRing - 1)

LEMMA RxStored ==
  ASSUME E1000Assumption, NEW desc \in RxDesc, NEW next \in RxSlot, NEW rdh, NEW before,
         NEW stored, NEW emptied \in BOOLEAN, RxHolds(desc, next, rdh, before, stored, emptied),
         rdh # LastOf(next), stored < MaxFrames
  PROVE  LET d == [desc EXCEPT ![rdh] = [dd |-> TRUE, frame |-> stored + 1]]
         IN  d \in RxDesc /\ RxHolds(d, next, Lap(RxRing, rdh + 1), before, stored + 1, emptied)
<1> DEFINE d == [desc EXCEPT ![rdh] = [dd |-> TRUE, frame |-> stored + 1]]
           k == stored - before
<1>1. /\ RxRing \in Nat \ {0} /\ RxSlot = 0..(RxRing - 1) /\ next \in 0..(RxRing - 1)
      /\ MaxFrames \in Nat
  BY Numbers
<1>2. /\ before \in Nat /\ stored \in Nat /\ before <= stored /\ stored < before + RxRing
      /\ emptied => before < stored
      /\ rdh = Lap(RxRing, next + k)
  BY DEF RxHolds
<1>3. k \in 0..(RxRing - 1) /\ k = stored - before
  BY <1>1, <1>2
<1> HIDE DEF k
<1>4. rdh \in RxSlot /\ k < RxRing - 1 /\ Ahead(RxRing, next, rdh) = k
  BY <1>1, <1>2, <1>3 DEF Lap, LastOf, Ahead
<1>5. Lap(RxRing, rdh + 1) = Lap(RxRing, next + (stored + 1 - before))
  BY <1>1, <1>2, <1>3, <1>4 DEF Lap
<1>6. d \in RxDesc /\ StillWaits(d, rdh, stored + 1) /\ \A j \in RxSlot \ {rdh} : d[j] = desc[j]
  BY <1>1, <1>2, <1>4 DEF RxDesc, StillWaits
<1> HIDE DEF d
<1>7. ASSUME NEW j \in RxSlot
      PROVE  LET i == Ahead(RxRing, next, j)
             IN  IF i < stored + 1 - before /\ ~(emptied /\ j = next)
                 THEN StillWaits(d, j, before + i + 1) ELSE ~d[j].dd
  <2> DEFINE i == Ahead(RxRing, next, j)
  <2>1. i \in Nat /\ (j # rdh => i # k)
    BY <1>1, <1>4 DEF Ahead
  <2>2. IF i < k /\ ~(emptied /\ j = next) THEN StillWaits(desc, j, before + i + 1) ELSE ~desc[j].dd
    BY DEF RxHolds, k
  <2>3. CASE j = rdh
    <3>1. i = k /\ (j = next => k = 0) /\ ~(emptied /\ k = 0)
      BY <1>1, <1>2, <1>3, <1>4, <2>3 DEF Ahead
    <3>2. i < stored + 1 - before /\ before + i + 1 = stored + 1
      BY <1>2, <1>3, <3>1
    <3> QED BY <1>6, <2>3, <3>1, <3>2
  <2>4. CASE j # rdh
    <3>1. i < stored + 1 - before <=> i < k
      BY <1>2, <1>3, <2>1, <2>4
    <3>2. d[j] = desc[j]
      BY <1>6, <2>4
    <3> QED BY <2>2, <3>1, <3>2 DEF StillWaits
  <2> QED BY <2>3, <2>4
<1>8. /\ stored + 1 \in Nat /\ before <= stored + 1 /\ stored + 1 < before + RxRing
      /\ emptied => before < stored + 1
  BY <1>1, <1>2, <1>3, <1>4
<1>9. RxHolds(d, next, Lap(RxRing, rdh + 1), before, stored + 1, emptied)
  BY <1>2, <1>5, <1>7, <1>8 DEF RxHolds
<1> QED BY <1>6, <1>9 DEF d

LEMMA RxEmptied ==
  ASSUME E1000Assumption, NEW desc \in RxDesc, NEW next \in RxSlot, NEW rdh, NEW before, NEW stored,
         RxHolds(desc, next, rdh, before, stored, FALSE), before < stored
  PROVE  LET d == [desc EXCEPT ![next] = Cleared(@)]
         IN  d \in RxDesc /\ RxHolds(d, next, rdh, before, stored, TRUE)
<1> DEFINE d == [desc EXCEPT ![next] = Cleared(@)]
<1>1. MaxFrames \in Nat
  BY Numbers
<1>2. d \in RxDesc /\ ~d[next].dd /\ \A j \in RxSlot \ {next} : d[j] = desc[j]
  BY <1>1 DEF RxDesc, Cleared, NoFrame
<1> HIDE DEF d
<1>3. ASSUME NEW j \in RxSlot
      PROVE  LET i == Ahead(RxRing, next, j)
             IN  IF i < stored - before /\ ~(TRUE /\ j = next)
                 THEN StillWaits(d, j, before + i + 1) ELSE ~d[j].dd
  <2>1. CASE j = next
    BY <1>2, <2>1
  <2>2. CASE j # next
    BY <1>2, <2>2 DEF RxHolds, StillWaits
  <2> QED BY <2>1, <2>2
<1>4. RxHolds(d, next, rdh, before, stored, TRUE)
  BY <1>3 DEF RxHolds
<1> QED BY <1>2, <1>4 DEF d

LEMMA RxReturned ==
  ASSUME E1000Assumption, NEW desc \in RxDesc, NEW next \in RxSlot, NEW rdh, NEW before, NEW stored,
         RxHolds(desc, next, rdh, before, stored, TRUE)
  PROVE  /\ RxHolds(desc, Lap(RxRing, next + 1), rdh, before + 1, stored, FALSE)
         /\ next = LastOf(Lap(RxRing, next + 1)) /\ Lap(RxRing, next + 1) \in RxSlot
<1> DEFINE m == Lap(RxRing, next + 1)
           k == stored - before
<1>1. RxRing \in Nat \ {0} /\ RxSlot = 0..(RxRing - 1) /\ next \in 0..(RxRing - 1)
  BY Numbers
<1>2. /\ before \in Nat /\ stored \in Nat /\ before < stored /\ stored < before + RxRing
      /\ rdh = Lap(RxRing, next + k)
  BY DEF RxHolds
<1>3. k \in 1..(RxRing - 1) /\ k = stored - before /\ stored - (before + 1) = k - 1
  BY <1>1, <1>2
<1> HIDE DEF k
<1>4. m \in RxSlot /\ next = LastOf(m) /\ m # next
  BY <1>1, <1>3 DEF Lap, LastOf
<1>5. rdh = Lap(RxRing, m + (k - 1))
  BY <1>1, <1>2, <1>3 DEF Lap
<1>6. ASSUME NEW j \in RxSlot
      PROVE  LET i == Ahead(RxRing, m, j)
             IN  IF i < stored - (before + 1) /\ ~(FALSE /\ j = m)
                 THEN StillWaits(desc, j, before + 1 + i + 1) ELSE ~desc[j].dd
  <2> DEFINE i == Ahead(RxRing, m, j)
             o == Ahead(RxRing, next, j)
  <2>1. IF o < k /\ j # next THEN StillWaits(desc, j, before + o + 1) ELSE ~desc[j].dd
    BY <1>3 DEF RxHolds
  <2>2. i \in Nat /\ o \in Nat /\ (j = next => i = RxRing - 1) /\ (j # next => o = i + 1)
    BY <1>1 DEF Ahead, Lap
  <2> HIDE DEF i, o, m
  <2>3. i < k - 1 <=> j # next /\ o < k
    BY <1>1, <1>3, <2>2
  <2>4. j # next => before + o + 1 = before + 1 + i + 1
    BY <1>2, <2>2
  <2> QED BY <1>3, <2>1, <2>3, <2>4 DEF i
<1>7. before + 1 \in Nat /\ before + 1 <= stored /\ stored < before + 1 + RxRing
  BY <1>1, <1>2
<1> HIDE DEF m
<1>8. RxHolds(desc, m, rdh, before + 1, stored, FALSE)
  BY <1>2, <1>3, <1>5, <1>6, <1>7 DEF RxHolds
<1> QED BY <1>4, <1>8 DEF m
------------------------------------------------------------------------------
(* The transmit ring.  The frames done with and not yet sent lie from TDH on,  *)
(* up to TxTail, which stays where it is while a descriptor is being filled.   *)
Stages == {"idle", "wait", "arm", "tail"}
TxDesc == [TxSlot -> [dd : BOOLEAN, frame : 0..MaxFrames]]
Armed(desc, j, f) == ~desc[j].dd /\ desc[j].frame = f
TxHolds(desc, tdh, tail, sent, done, h) ==
  /\ sent \in Nat /\ done \in Nat /\ sent <= done /\ done <= sent + TxRing
  /\ tail = Lap(TxRing, tdh + (done - sent))
  /\ h \in {"arm", "tail"} => done < sent + TxRing /\ desc[tail].frame = done + 1
  /\ \A j \in TxSlot :
       LET i == Ahead(TxRing, tdh, j)
       IN  IF i < done - sent THEN Armed(desc, j, sent + i + 1)
           ELSE desc[j].dd <=> ~(h = "tail" /\ j = tail)

(* What follows of its shape. *)
TxFacts(tdh, tail, sent, done) ==
  /\ sent \in Nat /\ done \in Nat /\ done - sent \in 0..TxRing /\ tail \in TxSlot
  /\ tail = Lap(TxRing, tdh + (done - sent))
  /\ done - sent < TxRing => Ahead(TxRing, tdh, tail) = done - sent
  /\ done - sent = TxRing => tail = tdh
  /\ \A j \in TxSlot :
       /\ Ahead(TxRing, tdh, j) \in 0..(TxRing - 1)
       /\ Ahead(TxRing, tdh, j) = done - sent => j = tail

LEMMA TxBounds ==
  ASSUME E1000Assumption, NEW desc, NEW tdh \in TxSlot, NEW tail, NEW sent, NEW done, NEW h,
         TxHolds(desc, tdh, tail, sent, done, h)
  PROVE  TxFacts(tdh, tail, sent, done)
<1> DEFINE k == done - sent
<1>1. TxRing \in Nat \ {0} /\ TxSlot = 0..(TxRing - 1) /\ tdh \in 0..(TxRing - 1)
  BY Numbers
<1>2. /\ sent \in Nat /\ done \in Nat /\ k \in 0..TxRing /\ tail = Lap(TxRing, tdh + k)
  BY <1>1 DEF TxHolds
<1> HIDE DEF k
<1>3. /\ tail \in TxSlot /\ (k < TxRing => Ahead(TxRing, tdh, tail) = k)
      /\ (k = TxRing => tail = tdh)
  BY <1>1, <1>2 DEF Lap, Ahead
<1>4. \A j \in TxSlot : Ahead(TxRing, tdh, j) \in 0..(TxRing - 1) /\ (Ahead(TxRing, tdh, j) = k => j = tail)
  BY <1>1, <1>2 DEF Lap, Ahead
<1> QED BY <1>1, <1>2, <1>3, <1>4 DEF k, TxFacts

(* TDH is not TDT: there is a frame to send, and it is the next one. *)
LEMMA TxSent ==
  ASSUME E1000Assumption, NEW desc \in TxDesc, NEW tdh \in TxSlot, NEW tail, NEW sent, NEW done, NEW h,
         TxHolds(desc, tdh, tail, sent, done, h), tdh # tail
  PROVE  LET d == [desc EXCEPT ![tdh].dd = TRUE]
         IN  /\ d \in TxDesc /\ desc[tdh].frame = sent + 1
             /\ TxHolds(d, Lap(TxRing, tdh + 1), tail, sent + 1, done, h)
<1> DEFINE d == [desc EXCEPT ![tdh].dd = TRUE]
           k == done - sent
           m == Lap(TxRing, tdh + 1)
<1>1. /\ TxRing \in Nat \ {0} /\ TxSlot = 0..(TxRing - 1) /\ tdh \in 0..(TxRing - 1)
      /\ sent \in Nat /\ done \in Nat /\ k \in 0..TxRing /\ tail \in TxSlot
      /\ tail = Lap(TxRing, tdh + k) /\ k # TxRing
  <2>1. /\ TxRing \in Nat \ {0} /\ TxSlot = 0..(TxRing - 1) /\ tdh \in 0..(TxRing - 1)
        /\ sent \in Nat /\ done \in Nat /\ done - sent \in 0..TxRing /\ tail \in TxSlot
        /\ tail = Lap(TxRing, tdh + (done - sent)) /\ (done - sent = TxRing => tail = tdh)
    <3>1. TxFacts(tdh, tail, sent, done)
      BY TxBounds
    <3> QED BY <3>1, Numbers DEF TxFacts
  <2> QED BY <2>1
<1>2. k # 0 /\ done = sent + k
  BY <1>1 DEF Lap
<1> HIDE DEF k
<1>3. k \in 1..(TxRing - 1)
  BY <1>1, <1>2
<1>4. /\ d \in TxDesc /\ d[tdh].dd = TRUE /\ \A j \in TxSlot \ {tdh} : d[j] = desc[j]
      /\ \A j \in TxSlot : d[j].frame = desc[j].frame
  BY <1>1 DEF TxDesc
<1> HIDE DEF d
<1>5. tail = Lap(TxRing, m + (k - 1)) /\ m \in TxSlot
  BY <1>1, <1>3 DEF Lap
<1>6. \A j \in TxSlot :
        LET o == Ahead(TxRing, tdh, j)
        IN  IF o < k THEN Armed(desc, j, sent + o + 1) ELSE desc[j].dd <=> ~(h = "tail" /\ j = tail)
  BY <1>1 DEF TxHolds, k
<1>7. desc[tdh].frame = sent + 1
  <2>1. Ahead(TxRing, tdh, tdh) = 0 /\ tdh \in TxSlot
    BY <1>1 DEF Ahead
  <2>2. Armed(desc, tdh, sent + 0 + 1)
    BY <1>3, <1>6, <2>1
  <2> QED BY <1>1, <2>2 DEF Armed
<1>8. ASSUME NEW j \in TxSlot
      PROVE  LET i == Ahead(TxRing, m, j)
             IN  IF i < done - (sent + 1) THEN Armed(d, j, sent + 1 + i + 1)
                 ELSE d[j].dd <=> ~(h = "tail" /\ j = tail)
  <2> DEFINE i == Ahead(TxRing, m, j)
             o == Ahead(TxRing, tdh, j)
  <2>1. i \in Nat /\ o \in Nat /\ (j = tdh => i = TxRing - 1) /\ (j # tdh => o = i + 1)
    BY <1>1 DEF Ahead, Lap
  <2>2. IF o < k THEN Armed(desc, j, sent + o + 1) ELSE desc[j].dd <=> ~(h = "tail" /\ j = tail)
    BY <1>6
  <2> HIDE DEF i, o
  <2>3. CASE j = tdh
    <3>1. ~(i < done - (sent + 1)) /\ j # tail
      BY <1>1, <1>2, <1>3, <2>1, <2>3
    <3> QED BY <1>4, <2>3, <3>1 DEF i
  <2>4. CASE j # tdh
    <3>1. i < done - (sent + 1) <=> o < k
      BY <1>1, <1>2, <2>1, <2>4
    <3>2. sent + o + 1 = sent + 1 + i + 1 /\ d[j] = desc[j]
      BY <1>1, <1>4, <2>1, <2>4
    <3> QED BY <2>2, <3>1, <3>2 DEF i, Armed
  <2> QED BY <2>3, <2>4
<1>9. /\ sent + 1 \in Nat /\ sent + 1 <= done /\ done <= sent + 1 + TxRing
      /\ done - (sent + 1) = k - 1
  BY <1>1, <1>2, <1>3
<1>10. h \in {"arm", "tail"} => done < sent + 1 + TxRing /\ d[tail].frame = done + 1
  BY <1>1, <1>2, <1>3, <1>4 DEF TxHolds
<1> HIDE DEF m
<1>11. TxHolds(d, m, tail, sent + 1, done, h)
  BY <1>1, <1>5, <1>8, <1>9, <1>10 DEF TxHolds
<1> QED BY <1>4, <1>7, <1>11 DEF d, m

(* The descriptor at TxTail is done with: there is room, and it is filled. *)
LEMMA TxCopied ==
  ASSUME E1000Assumption, NEW desc \in TxDesc, NEW tdh \in TxSlot, NEW tail, NEW sent, NEW done,
         TxHolds(desc, tdh, tail, sent, done, "wait"), desc[tail].dd, done < MaxFrames
  PROVE  LET d == [desc EXCEPT ![tail].frame = done + 1]
         IN  d \in TxDesc /\ TxHolds(d, tdh, tail, sent, done, "arm")
<1> DEFINE d == [desc EXCEPT ![tail].frame = done + 1]
           k == done - sent
<1>1. /\ TxRing \in Nat \ {0} /\ tdh \in 0..(TxRing - 1) /\ MaxFrames \in Nat
      /\ sent \in Nat /\ done \in Nat /\ k \in 0..TxRing /\ tail \in TxSlot
      /\ (k < TxRing => Ahead(TxRing, tdh, tail) = k) /\ (k = TxRing => tail = tdh)
  <2>1. /\ TxRing \in Nat \ {0} /\ tdh \in 0..(TxRing - 1)
        /\ sent \in Nat /\ done \in Nat /\ done - sent \in 0..TxRing /\ tail \in TxSlot
        /\ (done - sent < TxRing => Ahead(TxRing, tdh, tail) = done - sent)
        /\ (done - sent = TxRing => tail = tdh)
    <3>1. TxFacts(tdh, tail, sent, done)
      BY TxBounds
    <3> QED BY <3>1, Numbers DEF TxFacts
  <2>2. MaxFrames \in Nat
    BY Numbers
  <2> QED BY <2>1, <2>2
<1>2. \A j \in TxSlot :
        LET o == Ahead(TxRing, tdh, j)
        IN  IF o < k THEN Armed(desc, j, sent + o + 1) ELSE desc[j].dd
  BY DEF TxHolds
<1>3. k < TxRing
  <2> SUFFICES ASSUME k = TxRing PROVE FALSE
    BY <1>1
  <2>1. tail = tdh /\ Ahead(TxRing, tdh, tail) = 0
    BY <1>1 DEF Ahead
  <2> QED BY <1>1, <1>2, <2>1 DEF Armed
<1>4. /\ d \in TxDesc /\ d[tail].frame = done + 1 /\ \A j \in TxSlot \ {tail} : d[j] = desc[j]
      /\ \A j \in TxSlot : d[j].dd = desc[j].dd
  BY <1>1 DEF TxDesc
<1>5. ASSUME NEW j \in TxSlot
      PROVE  LET i == Ahead(TxRing, tdh, j)
             IN  IF i < done - sent THEN Armed(d, j, sent + i + 1)
                 ELSE d[j].dd <=> ~("arm" = "tail" /\ j = tail)
  <2>1. Ahead(TxRing, tdh, j) < k => j # tail
    BY <1>1, <1>3
  <2> QED BY <1>2, <1>4, <2>1 DEF Armed
<1>6. done < sent + TxRing
  BY <1>1, <1>3
<1> HIDE DEF d
<1>7. TxHolds(d, tdh, tail, sent, done, "arm")
  BY <1>4, <1>5, <1>6 DEF TxHolds
<1> QED BY <1>4, <1>7 DEF d

LEMMA TxArmed ==
  ASSUME E1000Assumption, NEW desc \in TxDesc, NEW tdh \in TxSlot, NEW tail, NEW sent, NEW done,
         TxHolds(desc, tdh, tail, sent, done, "arm")
  PROVE  LET d == [desc EXCEPT ![tail].dd = FALSE]
         IN  d \in TxDesc /\ TxHolds(d, tdh, tail, sent, done, "tail")
<1> DEFINE d == [desc EXCEPT ![tail].dd = FALSE]
<1>1. tail \in TxSlot
  BY TxBounds DEF TxFacts
<1>2. /\ d \in TxDesc /\ d[tail].dd = FALSE /\ \A j \in TxSlot \ {tail} : d[j] = desc[j]
      /\ \A j \in TxSlot : d[j].frame = desc[j].frame
  BY <1>1 DEF TxDesc
<1> HIDE DEF d
<1>3. ASSUME NEW j \in TxSlot
      PROVE  LET i == Ahead(TxRing, tdh, j)
             IN  IF i < done - sent THEN Armed(d, j, sent + i + 1)
                 ELSE d[j].dd <=> ~("tail" = "tail" /\ j = tail)
  <2>1. CASE j = tail
    BY <1>2, <2>1 DEF TxHolds, Armed
  <2>2. CASE j # tail
    BY <1>2, <2>2 DEF TxHolds, Armed
  <2> QED BY <2>1, <2>2
<1>4. TxHolds(d, tdh, tail, sent, done, "tail")
  BY <1>1, <1>2, <1>3 DEF TxHolds
<1> QED BY <1>2, <1>4 DEF d

LEMMA TxQueued ==
  ASSUME E1000Assumption, NEW desc \in TxDesc, NEW tdh \in TxSlot, NEW tail, NEW sent, NEW done,
         TxHolds(desc, tdh, tail, sent, done, "tail")
  PROVE  /\ TxHolds(desc, tdh, Lap(TxRing, tail + 1), sent, done + 1, "idle")
         /\ Lap(TxRing, tail + 1) \in TxSlot
<1> DEFINE k == done - sent
<1>1. /\ TxRing \in Nat \ {0} /\ TxSlot = 0..(TxRing - 1) /\ tdh \in 0..(TxRing - 1)
      /\ sent \in Nat /\ done \in Nat /\ k \in 0..TxRing /\ tail \in TxSlot
      /\ tail = Lap(TxRing, tdh + k)
  <2>1. TxFacts(tdh, tail, sent, done)
    BY TxBounds
  <2> QED BY <2>1, Numbers DEF TxFacts
<1>2. k < TxRing /\ done = sent + k
  BY <1>1 DEF TxHolds
<1>3. /\ desc[tail].frame = done + 1
      /\ \A j \in TxSlot :
           LET o == Ahead(TxRing, tdh, j)
           IN  IF o < k THEN Armed(desc, j, sent + o + 1) ELSE desc[j].dd <=> j # tail
  BY DEF TxHolds
<1>4. /\ Ahead(TxRing, tdh, tail) = k
      /\ \A j \in TxSlot : Ahead(TxRing, tdh, j) \in Nat /\ (Ahead(TxRing, tdh, j) = k => j = tail)
  <2>1. TxFacts(tdh, tail, sent, done)
    BY TxBounds
  <2>2. Ahead(TxRing, tdh, tail) = k
    BY <1>2, <2>1 DEF TxFacts
  <2>3. \A j \in TxSlot :
          /\ Ahead(TxRing, tdh, j) \in 0..(TxRing - 1)
          /\ Ahead(TxRing, tdh, j) = k => j = tail
    BY <2>1, Zenon DEF TxFacts
  <2>4. 0..(TxRing - 1) \subseteq Nat
    BY Numbers
  <2> HIDE DEF k
  <2> QED BY <2>2, <2>3, <2>4
<1> HIDE DEF k
<1>5. /\ Lap(TxRing, tail + 1) = Lap(TxRing, tdh + (done + 1 - sent))
      /\ Lap(TxRing, tail + 1) \in TxSlot
  <2>1. done + 1 - sent = k + 1
    BY <1>1, <1>2
  <2>2. Lap(TxRing, tail + 1) = Lap(TxRing, tdh + (k + 1)) /\ Lap(TxRing, tail + 1) \in TxSlot
    BY <1>1, <1>2 DEF Lap
  <2> QED BY <2>1, <2>2
<1>6. ASSUME NEW j \in TxSlot
      PROVE  LET i == Ahead(TxRing, tdh, j)
             IN  IF i < done + 1 - sent THEN Armed(desc, j, sent + i + 1)
                 ELSE desc[j].dd <=> ~("idle" = "tail" /\ j = Lap(TxRing, tail + 1))
  <2> DEFINE i == Ahead(TxRing, tdh, j)
  <2>1. i \in Nat /\ (i = k <=> j = tail)
    BY <1>4
  <2>2. IF i < k THEN Armed(desc, j, sent + i + 1) ELSE desc[j].dd <=> j # tail
    BY <1>3
  <2> HIDE DEF i
  <2>3. CASE j = tail
    <3>1. i = k /\ sent + i + 1 = done + 1
      BY <1>1, <1>2, <2>1, <2>3
    <3>2. i < done + 1 - sent /\ ~(i < k)
      BY <1>1, <1>2, <3>1
    <3> QED BY <1>3, <2>2, <2>3, <3>1, <3>2 DEF Armed, i
  <2>4. CASE j # tail
    <3>1. i < done + 1 - sent <=> i < k
      BY <1>1, <1>2, <2>1, <2>4
    <3> QED BY <2>2, <2>4, <3>1 DEF i
  <2> QED BY <2>3, <2>4
<1>7. done + 1 \in Nat /\ sent <= done + 1 /\ done + 1 <= sent + TxRing
  BY <1>1, <1>2
<1>8. TxHolds(desc, tdh, Lap(TxRing, tail + 1), sent, done + 1, "idle")
  BY <1>1, <1>5, <1>6, <1>7 DEF TxHolds
<1> QED BY <1>5, <1>8

LEMMA TxWaits ==
  ASSUME NEW desc, NEW tdh, NEW tail, NEW sent, NEW done, NEW h \in {"idle", "wait"},
         NEW g \in {"idle", "wait"}, TxHolds(desc, tdh, tail, sent, done, h)
  PROVE  TxHolds(desc, tdh, tail, sent, done, g)
BY DEF TxHolds
------------------------------------------------------------------------------
(* The rings in the state.  A frame counts as taken off when its descriptor is *)
(* returned, and as done with when TDT is moved; h is how far the thread that  *)
(* holds TxLock has come.                                                      *)
Numbered(q) == \A i \in 1..Len(q) : q[i] = i
Causes == SUBSET {"rx", "tx", "link"}
Chips == [rdh : RxSlot, rdt : RxSlot, tdh : TxSlot, tdt : TxSlot,
          cause : Causes, link : BOOLEAN, links : 0..MaxLinks]
Handlers == [pc : {"idle", "ack", "look", "clear", "return", "link"}, cause : Causes]
E1000Types ==
  /\ attach \in {"reset", "rings", "listed", "enabled", "counted", "failed"}
  /\ chip \in Chips
  /\ irq \in BOOLEAN /\ up \in BOOLEAN
  /\ rx \in [desc : RxDesc, next : RxSlot, stored : 0..MaxFrames, taken : Seq(Nat)]
  /\ tx \in [desc : TxDesc, tail : TxSlot, queued : 0..MaxFrames, lock : BOOLEAN, sent : Seq(Nat)]
  /\ isr \in Handlers
  /\ send \in [Sender -> Stages]

Taking == isr.pc \in {"clear", "return"}
Before == IF Taking THEN Len(rx.taken) - 1 ELSE Len(rx.taken)
RxInv ==
  /\ Numbered(rx.taken)
  /\ RxHolds(rx.desc, rx.next, chip.rdh, Before, rx.stored, isr.pc = "return")
  /\ Taking => Before < rx.stored
  /\ IF Receiving THEN chip.rdt = LastOf(rx.next) ELSE rx.next = 0
  /\ isr.pc # "idle" => attach = "counted"

Stage(all, lock, h) ==
  /\ h \in Stages /\ lock = (h # "idle")
  /\ IF h = "idle" THEN \A s \in Sender : all[s] = "idle"
     ELSE \E s \in Sender : all[s] = h /\ \A t \in Sender \ {s} : all[t] = "idle"
Done(queued, h) == IF h \in {"arm", "tail"} THEN queued - 1 ELSE queued
TxInv ==
  /\ Numbered(tx.sent) /\ chip.tdt = tx.tail
  /\ \E h \in Stages : /\ Stage(send, tx.lock, h) /\ (h = "wait" => tx.queued < MaxFrames)
                       /\ TxHolds(tx.desc, chip.tdh, tx.tail, Len(tx.sent), Done(tx.queued, h), h)

E1000Inv == E1000Types /\ RxInv /\ TxInv

LEMMA E1000InitInv == E1000Assumption /\ E1000Start => E1000Inv
<1> SUFFICES ASSUME E1000Assumption, E1000Start PROVE E1000Inv
  OBVIOUS
<1>1. /\ RxRing \in Nat \ {0} /\ TxRing \in Nat \ {0} /\ MaxFrames \in Nat /\ MaxLinks \in Nat
      /\ RxSlot = 0..(RxRing - 1) /\ TxSlot = 0..(TxRing - 1) /\ 0 \in RxSlot /\ 0 \in TxSlot
  BY Numbers
<1>2. E1000Types
  <2>1. rx.desc \in RxDesc /\ tx.desc \in TxDesc
    BY <1>1 DEF E1000Start, RxDesc, TxDesc, NoFrame
  <2>2. <<>> \in Seq(Nat) /\ 0 \in 0..MaxFrames /\ 0 \in 0..MaxLinks
    BY <1>1
  <2>3. rx \in [desc : RxDesc, next : RxSlot, stored : 0..MaxFrames, taken : Seq(Nat)]
    BY <1>1, <2>1, <2>2 DEF E1000Start
  <2>4. tx \in [desc : TxDesc, tail : TxSlot, queued : 0..MaxFrames, lock : BOOLEAN, sent : Seq(Nat)]
    BY <1>1, <2>1, <2>2 DEF E1000Start
  <2>5. chip \in Chips
    BY <1>1, <2>2 DEF E1000Start, Causes, Chips
  <2> QED BY <2>3, <2>4, <2>5 DEF E1000Start, E1000Types, Quiet, Causes, Stages, Handlers
<1>3. RxInv
  <2>1. /\ rx.next = 0 /\ rx.stored = 0 /\ chip.rdh = 0 /\ rx.taken = <<>> /\ isr.pc = "idle"
        /\ attach = "reset" /\ rx.desc = [i \in RxSlot |-> [dd |-> FALSE, frame |-> NoFrame]]
    BY DEF E1000Start, Quiet
  <2>2. Len(rx.taken) = 0 /\ ~Receiving /\ ~Taking /\ Before = 0
    BY <2>1 DEF Receiving, Taking, Before
  <2>3. \A j \in RxSlot : ~rx.desc[j].dd /\ Ahead(RxRing, 0, j) \in Nat
    BY <1>1, <2>1 DEF Ahead
  <2>4. Lap(RxRing, 0 + (0 - 0)) = 0
    BY <1>1 DEF Lap
  <2>5. RxHolds(rx.desc, 0, 0, 0, 0, FALSE)
    BY <1>1, <2>3, <2>4 DEF RxHolds
  <2>6. (isr.pc = "return") = FALSE
    BY <2>1
  <2>7. RxHolds(rx.desc, rx.next, chip.rdh, Before, rx.stored, isr.pc = "return")
    BY <2>1, <2>2, <2>5, <2>6, Zenon
  <2>8. Numbered(rx.taken)
    BY <2>2 DEF Numbered
  <2> QED BY <2>1, <2>2, <2>7, <2>8 DEF RxInv
<1>4. TxInv
  <2>1. /\ tx.tail = 0 /\ tx.queued = 0 /\ chip.tdh = 0 /\ chip.tdt = 0 /\ tx.sent = <<>>
        /\ tx.lock = FALSE /\ tx.desc = [i \in TxSlot |-> [dd |-> TRUE, frame |-> NoFrame]]
        /\ \A s \in Sender : send[s] = "idle"
    BY DEF E1000Start
  <2>2. Stage(send, tx.lock, "idle") /\ Done(tx.queued, "idle") = 0 /\ "idle" \in Stages /\ Len(tx.sent) = 0
    BY <2>1 DEF Stage, Done, Stages
  <2>3. \A j \in TxSlot : tx.desc[j].dd /\ Ahead(TxRing, 0, j) \in Nat
    BY <1>1, <2>1 DEF Ahead
  <2>4. Lap(TxRing, 0 + (0 - 0)) = 0
    BY <1>1 DEF Lap
  <2>5. TxHolds(tx.desc, 0, 0, 0, 0, "idle")
    BY <1>1, <2>3, <2>4 DEF TxHolds
  <2> QED BY <2>1, <2>2, <2>5 DEF TxInv, Numbered
<1> QED BY <1>2, <1>3, <1>4 DEF E1000Inv

(* What a step that leaves a ring alone keeps. *)
LEMMA RxKept ==
  ASSUME RxInv, UNCHANGED <<rx, attach>>, chip'.rdh = chip.rdh, chip'.rdt = chip.rdt,
         isr'.pc = isr.pc \/ (isr'.pc \in {"idle", "ack", "look", "link"} /\ ~Taking
                              /\ (attach = "counted" \/ isr'.pc = "idle"))
  PROVE  RxInv'
<1>1. Taking' = Taking /\ (isr'.pc = "return") = (isr.pc = "return")
  BY DEF Taking
<1>2. Before' = Before /\ Receiving' = Receiving
  BY <1>1 DEF Before, Receiving
<1> QED BY <1>1, <1>2 DEF RxInv, Receiving

LEMMA TxKept ==
  ASSUME TxInv, UNCHANGED <<tx, send>>, chip'.tdh = chip.tdh, chip'.tdt = chip.tdt
  PROVE  TxInv'
BY DEF TxInv, Stage, Done

LEMMA AttachStep ==
  ASSUME E1000Assumption, E1000Inv, Attach
  PROVE  E1000Inv'
<1>1. E1000Types /\ RxInv /\ TxInv /\ RxRing \in Nat \ {0} /\ RxSlot = 0..(RxRing - 1)
  BY Numbers DEF E1000Inv
<1>2. /\ UNCHANGED <<irq, rx, tx, isr, send>> /\ attach # "counted" /\ up' \in {up, TRUE}
      /\ chip' \in {chip, [chip EXCEPT !.rdt = RxRing - 1], [chip EXCEPT !.cause = {}]}
  BY DEF Attach, ProgramRings, NetworkRegisterDevice, EnableInterrupts, Count
<1>3. IF attach = "reset"
      THEN \/ attach' = "rings" /\ chip' = [chip EXCEPT !.rdt = RxRing - 1]
           \/ attach' = "failed" /\ chip' = chip
      ELSE /\ chip' \in {chip, [chip EXCEPT !.cause = {}]} /\ attach \in {"rings", "listed", "enabled"}
           /\ attach' \in {"listed", "enabled", "counted"}
  BY DEF Attach, ProgramRings, NetworkRegisterDevice, EnableInterrupts, Count
<1>4. chip \in Chips
  BY <1>1 DEF E1000Types
<1>5. /\ chip'.rdh = chip.rdh /\ chip'.tdh = chip.tdh /\ chip'.tdt = chip.tdt
      /\ IF attach = "reset"
         THEN (attach' = "rings" /\ chip'.rdt = RxRing - 1) \/ attach' = "failed"
         ELSE chip'.rdt = chip.rdt
  BY <1>2, <1>3, <1>4 DEF Chips
<1>6. E1000Types'
  <2>1. RxRing - 1 \in RxSlot
    BY <1>1
  <2>2. chip' \in Chips
    BY <1>2, <1>4, <2>1 DEF Chips, Causes
  <2> QED BY <1>1, <1>2, <1>3, <2>2 DEF E1000Types
<1>7. RxInv'
  <2>1. isr.pc = "idle" /\ ~Taking /\ (attach \in {"reset", "failed"} => rx.next = 0)
    BY <1>1, <1>2 DEF RxInv, Taking, Receiving
  <2>2. Taking' = Taking /\ Before' = Before /\ (isr'.pc = "return") = (isr.pc = "return")
    BY <1>2 DEF Before, Taking
  <2>3. IF Receiving' THEN chip'.rdt = LastOf(rx.next) ELSE rx.next = 0
    <3>1. LastOf(0) = RxRing - 1
      BY <1>1 DEF LastOf, Lap
    <3>2. CASE attach = "reset"
      BY <1>5, <2>1, <3>1, <3>2 DEF Receiving
    <3>3. CASE attach # "reset"
      BY <1>1, <1>3, <1>5, <3>3 DEF Receiving, RxInv
    <3> QED BY <3>2, <3>3
  <2>4. /\ Numbered(rx.taken) /\ (Taking => Before < rx.stored)
        /\ RxHolds(rx.desc, rx.next, chip.rdh, Before, rx.stored, isr.pc = "return")
    BY <1>1 DEF RxInv
  <2> QED BY <1>2, <1>5, <2>1, <2>2, <2>3, <2>4 DEF RxInv
<1>8. TxInv'
  BY <1>1, <1>2, <1>5, TxKept
<1> QED BY <1>6, <1>7, <1>8 DEF E1000Inv

LEMMA HandlerStep ==
  ASSUME E1000Assumption, E1000Inv, E1000Isr \/ Acknowledge \/ E1000Poll \/ Link \/ LinkChange
  PROVE  E1000Inv'
<1>1. E1000Types /\ RxInv /\ TxInv /\ MaxLinks \in Nat
  BY Numbers DEF E1000Inv
<1>2. chip \in Chips
  BY <1>1 DEF E1000Types
<1>3. /\ UNCHANGED <<attach, rx, tx, send>> /\ chip' \in Chips
      /\ chip'.rdh = chip.rdh /\ chip'.rdt = chip.rdt /\ chip'.tdh = chip.tdh /\ chip'.tdt = chip.tdt
  <2>1. CASE E1000Isr
    BY <1>2, <2>1 DEF E1000Isr, Chips, Causes
  <2>2. CASE Acknowledge
    BY <1>2, <2>2 DEF Acknowledge, Chips, Causes
  <2>3. CASE E1000Poll \/ Link
    BY <1>2, <2>3 DEF E1000Poll, Link
  <2>4. CASE LinkChange
    <3> DEFINE n == chip.links + 1
               c == chip.cause \cup {"link"}
               k == ~chip.link
    <3>1. UNCHANGED <<attach, rx, tx, isr, send, up>> /\ chip.links < MaxLinks
      BY <2>4 DEF LinkChange
    <3>2. chip' = [chip EXCEPT !.link = k, !.links = n, !.cause = c]
      BY <2>4 DEF LinkChange
    <3>3. n \in 0..MaxLinks /\ c \in Causes /\ k \in BOOLEAN
      BY <1>1, <1>2, <3>1 DEF Chips, Causes
    <3> HIDE DEF n, c, k
    <3> QED BY <1>2, <3>1, <3>2, <3>3 DEF Chips
  <2> QED BY <2>1, <2>2, <2>3, <2>4
<1>4. E1000Types'
  <2>1. isr \in Handlers /\ chip.link \in BOOLEAN /\ chip.cause \in Causes
    BY <1>1, <1>2 DEF E1000Types, Chips
  <2>2. isr' \in Handlers
    BY <2>1 DEF E1000Isr, Acknowledge, E1000Poll, Link, LinkChange, Causes, Quiet, Handlers
  <2>3. irq' \in BOOLEAN /\ up' \in BOOLEAN
    BY <1>1, <2>1 DEF E1000Isr, Acknowledge, E1000Poll, Link, LinkChange, Raised, E1000Types
  <2> QED BY <1>1, <1>3, <2>2, <2>3 DEF E1000Types
<1>5. isr'.pc = isr.pc \/ (isr'.pc \in {"idle", "ack", "look", "link"} /\ ~Taking
                           /\ (attach = "counted" \/ isr'.pc = "idle"))
  <2>1. isr.pc # "idle" => attach = "counted"
    BY <1>1 DEF RxInv
  <2>2. isr \in Handlers
    BY <1>1 DEF E1000Types
  <2> QED BY <2>1, <2>2 DEF E1000Isr, Acknowledge, E1000Poll, Link, LinkChange, Taking, Quiet, Handlers
<1>6. RxInv'
  BY <1>1, <1>3, <1>5, RxKept
<1>7. TxInv'
  BY <1>1, <1>3, TxKept
<1> QED BY <1>4, <1>6, <1>7 DEF E1000Inv

LEMMA StoreStep ==
  ASSUME E1000Assumption, E1000Inv, StoreFrame
  PROVE  E1000Inv'
<1>1. E1000Types /\ RxInv /\ TxInv /\ RxRing \in Nat \ {0} /\ RxSlot = 0..(RxRing - 1) /\ MaxFrames \in Nat
  BY Numbers DEF E1000Inv
<1>2. /\ chip \in Chips
      /\ rx \in [desc : RxDesc, next : RxSlot, stored : 0..MaxFrames, taken : Seq(Nat)]
      /\ rx.desc \in RxDesc /\ rx.next \in RxSlot /\ rx.stored \in Nat
  BY <1>1 DEF E1000Types
<1>3. /\ UNCHANGED <<attach, tx, send, isr, up>> /\ Receiving /\ rx.stored < MaxFrames
      /\ irq' = (irq \/ (Initialized /\ chip.cause = {} /\ {"rx"} # {}))
      /\ chip'.rdt = chip.rdt /\ chip'.tdh = chip.tdh /\ chip'.tdt = chip.tdt
  BY <1>2 DEF StoreFrame, Raised, Chips
<1>4. TxInv'
  BY <1>1, <1>3, TxKept
<1>5. irq' \in BOOLEAN
  BY <1>1, <1>3 DEF E1000Types, Initialized
<1>6. Before' = (IF Taking THEN Len(rx'.taken) - 1 ELSE Len(rx'.taken)) /\ Taking' = Taking /\ Receiving'
  BY <1>3 DEF Before, Taking, Receiving
<1>7. CASE chip.rdh = chip.rdt
  <2>1. UNCHANGED rx /\ chip' = [chip EXCEPT !.cause = @ \cup {"rx"}]
    BY <1>7 DEF StoreFrame
  <2>2. E1000Types'
    BY <1>1, <1>2, <1>3, <1>5, <2>1 DEF E1000Types, Causes, Chips
  <2>3. RxInv'
    BY <1>1, <1>2, <1>3, <2>1, RxKept DEF Chips
  <2> QED BY <1>4, <2>2, <2>3 DEF E1000Inv
<1>8. CASE chip.rdh # chip.rdt
  <2> DEFINE d == [rx.desc EXCEPT ![chip.rdh] = [dd |-> TRUE, frame |-> rx.stored + 1]]
  <2>1. /\ chip' = [chip EXCEPT !.cause = @ \cup {"rx"}, !.rdh = (@ + 1) % RxRing]
        /\ rx' = [rx EXCEPT !.stored = @ + 1,
                    !.desc[chip.rdh] = [dd |-> TRUE, frame |-> rx.stored + 1]]
    BY <1>8 DEF StoreFrame
  <2>2. /\ rx'.desc = d /\ rx'.next = rx.next /\ rx'.stored = rx.stored + 1 /\ rx'.taken = rx.taken
        /\ rx' = [rx EXCEPT !.stored = rx.stored + 1, !.desc = d]
    BY <1>2, <2>1
  <2>3. chip'.rdh = (chip.rdh + 1) % RxRing /\ chip.rdh \in RxSlot
    BY <1>2, <2>1 DEF Chips
  <2>4. chip'.rdh = Lap(RxRing, chip.rdh + 1) /\ chip'.rdh \in RxSlot
    BY <1>1, <2>3, NextSlot
  <2>5. /\ RxHolds(rx.desc, rx.next, chip.rdh, Before, rx.stored, isr.pc = "return")
        /\ chip.rdt = LastOf(rx.next) /\ (isr.pc = "return") \in BOOLEAN
        /\ (Taking => Before < rx.stored)
    BY <1>1, <1>3 DEF RxInv
  <2> HIDE DEF d
  <2>6. /\ d \in RxDesc
        /\ RxHolds(d, rx.next, Lap(RxRing, chip.rdh + 1), Before, rx.stored + 1, isr.pc = "return")
    BY <1>2, <1>3, <1>8, <2>5, RxStored DEF d
  <2>7. Before' = Before
    BY <1>6, <2>2 DEF Before
  <2>8. RxInv'
    <3>1. RxHolds(rx'.desc, rx'.next, chip'.rdh, Before', rx'.stored, isr'.pc = "return")
      BY <1>3, <2>2, <2>4, <2>6, <2>7
    <3>2. Before \in Nat
      BY <2>5 DEF RxHolds
    <3>3. Taking' => Before' < rx'.stored
      BY <1>2, <1>6, <2>2, <2>5, <2>7, <3>2
    <3>4. Numbered(rx'.taken) /\ chip'.rdt = LastOf(rx'.next) /\ (isr'.pc # "idle" => attach' = "counted")
      BY <1>1, <1>3, <2>2, <2>5 DEF RxInv
    <3> QED BY <1>6, <3>1, <3>3, <3>4 DEF RxInv
  <2>9. E1000Types'
    <3>1. rx.stored + 1 \in 0..MaxFrames
      BY <1>1, <1>2, <1>3
    <3>2. rx' \in [desc : RxDesc, next : RxSlot, stored : 0..MaxFrames, taken : Seq(Nat)]
      BY <1>2, <2>2, <2>6, <3>1
    <3>3. chip' \in Chips
      <4>1. (chip.rdh + 1) % RxRing \in RxSlot
        BY <2>3, <2>4
      <4> QED BY <1>2, <2>1, <4>1 DEF Causes, Chips
    <3> QED BY <1>1, <1>3, <1>5, <3>2, <3>3 DEF E1000Types
  <2> QED BY <1>4, <2>8, <2>9 DEF E1000Inv
<1> QED BY <1>7, <1>8

LEMMA LookStep ==
  ASSUME E1000Assumption, E1000Inv, Look
  PROVE  E1000Inv'
<1>1. E1000Types /\ RxInv /\ TxInv /\ RxRing \in Nat \ {0} /\ RxSlot = 0..(RxRing - 1)
  BY Numbers DEF E1000Inv
<1>2. /\ rx \in [desc : RxDesc, next : RxSlot, stored : 0..MaxFrames, taken : Seq(Nat)]
      /\ rx.desc \in RxDesc /\ rx.next \in RxSlot /\ rx.stored \in Nat /\ rx.taken \in Seq(Nat)
      /\ isr \in Handlers
  BY <1>1, Numbers DEF E1000Types
<1>3. UNCHANGED <<attach, chip, irq, tx, send, up>> /\ isr.pc = "look"
  BY DEF Look
<1>4. TxInv'
  BY <1>1, <1>3, TxKept
<1>5. CASE ~rx.desc[rx.next].dd
  <2>1. UNCHANGED rx /\ isr' = [isr EXCEPT !.pc = "link"]
    BY <1>5 DEF Look
  <2>2. isr' \in Handlers /\ isr'.pc = "link"
    BY <1>2, <2>1 DEF Handlers
  <2>3. RxInv'
    BY <1>1, <1>3, <2>1, <2>2, RxKept DEF RxInv, Taking
  <2> QED BY <1>1, <1>3, <1>4, <2>1, <2>2, <2>3 DEF E1000Inv, E1000Types
<1>6. CASE rx.desc[rx.next].dd
  <2> DEFINE n == Len(rx.taken)
             f == rx.desc[rx.next].frame
  <2>1. isr' = [isr EXCEPT !.pc = "clear"] /\ rx' = [rx EXCEPT !.taken = Append(@, f)]
    BY <1>6 DEF Look
  <2>2. f \in Nat /\ n \in Nat
    <3>1. rx.desc[rx.next].frame \in 0..MaxFrames /\ MaxFrames \in Nat
      BY <1>2, Numbers DEF RxDesc
    <3> QED BY <1>2, <3>1
  <2>3. isr' \in Handlers /\ isr'.pc = "clear"
    BY <1>2, <2>1 DEF Handlers
  <2>4. /\ rx'.taken = Append(rx.taken, f) /\ rx'.desc = rx.desc /\ rx'.next = rx.next
        /\ rx'.stored = rx.stored
        /\ rx' \in [desc : RxDesc, next : RxSlot, stored : 0..MaxFrames, taken : Seq(Nat)]
    <3> DEFINE q == Append(rx.taken, f)
    <3> HIDE DEF f
    <3>1. q \in Seq(Nat)
      BY <1>2, <2>2
    <3>2. rx' = [rx EXCEPT !.taken = q]
      BY <1>2, <2>1
    <3> HIDE DEF q
    <3>3. rx'.taken = q /\ rx'.desc = rx.desc /\ rx'.next = rx.next /\ rx'.stored = rx.stored
      BY <1>2, <3>2
    <3>4. rx' \in [desc : RxDesc, next : RxSlot, stored : 0..MaxFrames, taken : Seq(Nat)]
      BY <1>2, <3>1, <3>2
    <3> QED BY <3>3, <3>4 DEF q
  <2>5. ~Taking /\ Before = n /\ (isr.pc = "return") = FALSE
    BY <1>3 DEF Taking, Before
  <2>6. RxHolds(rx.desc, rx.next, chip.rdh, n, rx.stored, FALSE)
    BY <1>1, <2>5 DEF RxInv
  <2>7. n < rx.stored /\ f = n + 1
    <3>1. Ahead(RxRing, rx.next, rx.next) = 0
      BY <1>1, <1>2 DEF Ahead
    <3>2. /\ n <= rx.stored
          /\ IF 0 < rx.stored - n THEN f = n + 0 + 1 ELSE ~rx.desc[rx.next].dd
      BY <1>2, <2>6, <3>1 DEF RxHolds, StillWaits
    <3> HIDE DEF f, n
    <3> QED BY <1>2, <1>6, <2>2, <3>2
  <2>8. /\ Len(rx'.taken) = n + 1 /\ rx'.taken[n + 1] = f
        /\ \A i \in 1..n : rx'.taken[i] = rx.taken[i]
    <3> HIDE DEF f
    <3> QED BY <1>2, <2>2, <2>4
  <2>9. Taking' /\ Before' = n /\ (isr'.pc = "return") = FALSE /\ Receiving' = Receiving
    <3>1. Taking' /\ (isr'.pc = "return") = FALSE /\ Receiving' = Receiving
      BY <1>3, <2>3 DEF Taking, Receiving
    <3> HIDE DEF n
    <3>2. Before' = (n + 1) - 1
      BY <2>8, <3>1 DEF Before
    <3> QED BY <2>2, <3>1, <3>2
  <2>10. Numbered(rx'.taken)
    <3>1. \A i \in 1..n : rx.taken[i] = i
      BY <1>1 DEF RxInv, Numbered
    <3> HIDE DEF n
    <3> SUFFICES ASSUME NEW i \in 1..(n + 1) PROVE rx'.taken[i] = i
      BY <2>8 DEF Numbered
    <3>2. i \in 1..n \/ i = n + 1
      BY <2>2
    <3> QED BY <2>7, <2>8, <3>1, <3>2
  <2>11. attach = "counted" /\ (IF Receiving THEN chip.rdt = LastOf(rx.next) ELSE rx.next = 0)
    BY <1>1, <1>3 DEF RxInv
  <2> HIDE DEF n, f
  <2>12. RxInv'
    BY <1>3, <2>4, <2>6, <2>7, <2>9, <2>10, <2>11 DEF RxInv
  <2> QED BY <1>1, <1>3, <1>4, <2>3, <2>4, <2>12 DEF E1000Inv, E1000Types
<1> QED BY <1>5, <1>6

LEMMA ClearStep ==
  ASSUME E1000Assumption, E1000Inv, Clear
  PROVE  E1000Inv'
<1> DEFINE d == [rx.desc EXCEPT ![rx.next] = Cleared(@)]
<1>1. E1000Types /\ RxInv /\ TxInv
  BY DEF E1000Inv
<1>2. /\ rx \in [desc : RxDesc, next : RxSlot, stored : 0..MaxFrames, taken : Seq(Nat)]
      /\ rx.desc \in RxDesc /\ rx.next \in RxSlot /\ isr \in Handlers
  BY <1>1 DEF E1000Types
<1>3. /\ UNCHANGED <<attach, chip, irq, tx, send, up>> /\ isr.pc = "clear"
      /\ isr' = [isr EXCEPT !.pc = "return"] /\ rx' = [rx EXCEPT !.desc = d]
  BY <1>2 DEF Clear
<1>4. isr' \in Handlers /\ isr'.pc = "return"
  BY <1>2, <1>3 DEF Handlers
<1> HIDE DEF d
<1>5. rx'.desc = d /\ rx'.next = rx.next /\ rx'.stored = rx.stored /\ rx'.taken = rx.taken
  BY <1>2, <1>3
<1>6. /\ Taking /\ Taking' /\ Before' = Before /\ Receiving' = Receiving
      /\ (isr.pc = "return") = FALSE /\ (isr'.pc = "return") = TRUE
  BY <1>3, <1>4, <1>5 DEF Taking, Before, Receiving
<1>7. RxHolds(rx.desc, rx.next, chip.rdh, Before, rx.stored, FALSE) /\ Before < rx.stored
  BY <1>1, <1>6 DEF RxInv
<1>8. d \in RxDesc /\ RxHolds(d, rx.next, chip.rdh, Before, rx.stored, TRUE)
  BY <1>2, <1>7, RxEmptied DEF d
<1>9. RxInv'
  <2>1. RxHolds(rx'.desc, rx'.next, chip'.rdh, Before', rx'.stored, isr'.pc = "return")
    BY <1>3, <1>5, <1>6, <1>8
  <2>2. /\ Numbered(rx.taken) /\ attach = "counted"
        /\ IF Receiving THEN chip.rdt = LastOf(rx.next) ELSE rx.next = 0
    BY <1>1, <1>3 DEF RxInv
  <2> QED BY <1>3, <1>5, <1>6, <1>7, <2>1, <2>2 DEF RxInv
<1>10. rx' \in [desc : RxDesc, next : RxSlot, stored : 0..MaxFrames, taken : Seq(Nat)]
  BY <1>2, <1>3, <1>8
<1>11. TxInv'
  BY <1>1, <1>3, TxKept
<1> QED BY <1>1, <1>3, <1>4, <1>9, <1>10, <1>11 DEF E1000Inv, E1000Types

LEMMA ReturnStep ==
  ASSUME E1000Assumption, E1000Inv, Return
  PROVE  E1000Inv'
<1> DEFINE m == Lap(RxRing, rx.next + 1)
<1>1. E1000Types /\ RxInv /\ TxInv /\ RxRing \in Nat \ {0} /\ RxSlot = 0..(RxRing - 1)
  BY Numbers DEF E1000Inv
<1>2. /\ rx \in [desc : RxDesc, next : RxSlot, stored : 0..MaxFrames, taken : Seq(Nat)]
      /\ rx.desc \in RxDesc /\ rx.next \in RxSlot /\ rx.taken \in Seq(Nat) /\ isr \in Handlers
      /\ chip \in Chips
  BY <1>1 DEF E1000Types
<1>3. m \in RxSlot /\ m = (rx.next + 1) % RxRing
  BY <1>1, <1>2, NextSlot
<1>4. /\ UNCHANGED <<attach, irq, tx, send, up>> /\ isr.pc = "return"
      /\ isr' = [isr EXCEPT !.pc = "look"] /\ rx' = [rx EXCEPT !.next = m]
      /\ chip' = [chip EXCEPT !.rdt = rx.next]
  BY <1>2, <1>3 DEF Return
<1> HIDE DEF m
<1>5. isr' \in Handlers /\ isr'.pc = "look"
  BY <1>2, <1>4 DEF Handlers
<1>6. /\ rx'.desc = rx.desc /\ rx'.next = m /\ rx'.stored = rx.stored /\ rx'.taken = rx.taken
      /\ rx' \in [desc : RxDesc, next : RxSlot, stored : 0..MaxFrames, taken : Seq(Nat)]
  BY <1>2, <1>3, <1>4
<1>7. /\ chip' \in Chips /\ chip'.rdh = chip.rdh /\ chip'.rdt = rx.next
      /\ chip'.tdh = chip.tdh /\ chip'.tdt = chip.tdt
  BY <1>2, <1>4 DEF Chips
<1>8. /\ Taking /\ ~Taking' /\ Before = Len(rx.taken) - 1 /\ Before' = Len(rx.taken)
      /\ Receiving' = Receiving /\ (isr.pc = "return") = TRUE /\ (isr'.pc = "return") = FALSE
  BY <1>4, <1>5, <1>6 DEF Taking, Before, Receiving
<1>9. Before' = Before + 1
  <2>1. Len(rx.taken) \in Nat
    BY <1>2
  <2> QED BY <1>8, <2>1
<1>10. RxHolds(rx.desc, rx.next, chip.rdh, Before, rx.stored, TRUE)
  BY <1>1, <1>8 DEF RxInv
<1>11. RxHolds(rx.desc, m, chip.rdh, Before + 1, rx.stored, FALSE) /\ rx.next = LastOf(m)
  BY <1>2, <1>10, RxReturned DEF m
<1>12. RxInv'
  <2>1. RxHolds(rx'.desc, rx'.next, chip'.rdh, Before', rx'.stored, isr'.pc = "return")
    BY <1>6, <1>7, <1>8, <1>9, <1>11
  <2>2. Numbered(rx.taken) /\ attach = "counted" /\ Receiving
    BY <1>1, <1>4 DEF RxInv, Receiving
  <2> QED BY <1>4, <1>6, <1>7, <1>8, <1>11, <2>1, <2>2 DEF RxInv
<1>13. TxInv'
  BY <1>1, <1>4, <1>7, TxKept
<1> QED BY <1>1, <1>4, <1>5, <1>6, <1>7, <1>12, <1>13 DEF E1000Inv, E1000Types

(* One thread holds TxLock, and nobody else is in E1000Transmit. *)
LEMMA StageIs ==
  ASSUME NEW s \in Sender, send[s] # "idle" \/ ~tx.lock, NEW h, Stage(send, tx.lock, h)
  PROVE  h = send[s] /\ \A t \in Sender \ {s} : send[t] = "idle"
<1>1. CASE h = "idle"
  BY <1>1 DEF Stage
<1>2. CASE h # "idle"
  <2>1. tx.lock = TRUE /\ send[s] # "idle"
    BY <1>2 DEF Stage
  <2>2. PICK u \in Sender : send[u] = h /\ \A t \in Sender \ {u} : send[t] = "idle"
    BY <1>2 DEF Stage
  <2>3. s = u
    BY <2>1, <2>2
  <2> QED BY <2>2, <2>3
<1> QED BY <1>1, <1>2

(* What a step of thread s must leave behind, given what it found. *)
Making(s, g) ==
  TxHolds(tx.desc, chip.tdh, tx.tail, Len(tx.sent), Done(tx.queued, send[s]), send[s])
    => TxHolds(tx'.desc, chip.tdh, tx'.tail, Len(tx.sent), Done(tx'.queued, g), g)
LEMMA TxMade ==
  ASSUME E1000Types, TxInv, NEW s \in Sender, send[s] # "idle" \/ ~tx.lock, NEW g \in Stages,
         send' = [send EXCEPT ![s] = g], tx'.lock = (g # "idle"), chip'.tdt = tx'.tail,
         tx'.sent = tx.sent, chip'.tdh = chip.tdh, g = "wait" => tx'.queued < MaxFrames,
         Making(s, g)
  PROVE  TxInv'
<1>1. PICK h \in Stages : /\ Stage(send, tx.lock, h)
                          /\ TxHolds(tx.desc, chip.tdh, tx.tail, Len(tx.sent), Done(tx.queued, h), h)
  BY DEF TxInv
<1>2. send \in [Sender -> Stages]
  BY DEF E1000Types
<1>3. h = send[s] /\ Stage(send', tx'.lock, g)
  <2>1. h = send[s] /\ \A t \in Sender \ {s} : send[t] = "idle"
    BY <1>1, StageIs
  <2>2. send'[s] = g /\ \A t \in Sender \ {s} : send'[t] = "idle"
    BY <1>2, <2>1
  <2>3. tx'.lock = (g # "idle") /\ g \in Stages
    OBVIOUS
  <2>4. Stage(send', tx'.lock, g)
    <3>1. CASE g = "idle"
      BY <2>2, <2>3, <3>1 DEF Stage
    <3>2. CASE g # "idle"
      BY <2>2, <2>3, <3>2 DEF Stage
    <3> QED BY <3>1, <3>2
  <2> QED BY <2>1, <2>4
<1>4. TxHolds(tx'.desc, chip'.tdh, tx'.tail, Len(tx'.sent), Done(tx'.queued, g), g)
  BY <1>1, <1>3 DEF Making
<1>5. Numbered(tx'.sent)
  BY DEF TxInv
<1> QED BY <1>3, <1>4, <1>5 DEF TxInv

TxRecords == [desc : TxDesc, tail : TxSlot, queued : 0..MaxFrames, lock : BOOLEAN, sent : Seq(Nat)]

LEMMA TransmitStep ==
  ASSUME E1000Assumption, E1000Inv, NEW s \in Sender,
         Lock(s) \/ Copy(s) \/ GiveUp(s) \/ Arm(s) \/ MoveTail(s)
  PROVE  E1000Inv'
<1>1. /\ E1000Types /\ RxInv /\ TxInv /\ TxRing \in Nat \ {0} /\ TxSlot = 0..(TxRing - 1)
      /\ MaxFrames \in Nat
  BY Numbers DEF E1000Inv
<1>2. /\ tx \in TxRecords /\ tx.desc \in TxDesc /\ tx.tail \in TxSlot /\ tx.queued \in 0..MaxFrames
      /\ chip \in Chips /\ chip.tdh \in TxSlot /\ chip.tdt = tx.tail
      /\ send \in [Sender -> Stages] /\ {"idle", "wait", "arm", "tail"} = Stages
  BY <1>1 DEF E1000Types, TxRecords, Chips, TxInv, Stages
<1>3. UNCHANGED <<attach, irq, rx, isr, up>> /\ chip'.rdh = chip.rdh /\ chip'.rdt = chip.rdt
  BY <1>2 DEF Lock, Copy, GiveUp, Arm, MoveTail, Chips
<1>4. RxInv'
  BY <1>1, <1>3, RxKept
<1> DEFINE Queue(x) == TxHolds(tx.desc, chip.tdh, tx.tail, Len(tx.sent), x, send[s])
<1>5. CASE Lock(s)
  <2>1. /\ ~tx.lock /\ send[s] = "idle" /\ tx.queued < MaxFrames /\ UNCHANGED chip
        /\ send' = [send EXCEPT ![s] = "wait"] /\ tx' = [tx EXCEPT !.lock = TRUE]
    BY <1>5 DEF Lock
  <2>2. /\ tx' \in TxRecords /\ tx'.lock = TRUE /\ tx'.tail = tx.tail /\ tx'.desc = tx.desc
        /\ tx'.queued = tx.queued /\ tx'.sent = tx.sent
    BY <1>2, <2>1 DEF TxRecords
  <2>3. Queue(tx.queued) => TxHolds(tx.desc, chip.tdh, tx.tail, Len(tx.sent), tx.queued, "wait")
    BY <2>1, TxWaits
  <2> HIDE DEF Queue
  <2>4. Done(tx.queued, send[s]) = tx.queued /\ Done(tx'.queued, "wait") = tx.queued
    BY <2>1, <2>2 DEF Done
  <2>5. Making(s, "wait") /\ "wait" \in Stages
    BY <1>2, <2>2, <2>3, <2>4 DEF Making, Queue
  <2>6. tx'.lock = ("wait" # "idle") /\ chip'.tdt = tx'.tail /\ chip'.tdh = chip.tdh
    BY <1>2, <2>1, <2>2
  <2>7. send[s] # "idle" \/ ~tx.lock
    BY <2>1
  <2>8. TxInv'
    BY <1>1, <2>1, <2>2, <2>5, <2>6, <2>7, TxMade
  <2> QED BY <1>1, <1>2, <1>3, <1>4, <2>1, <2>2, <2>8 DEF E1000Inv, E1000Types, TxRecords
<1>6. CASE Copy(s)
  <2> DEFINE d == [tx.desc EXCEPT ![tx.tail].frame = tx.queued + 1]
  <2>1. /\ send[s] = "wait" /\ tx.desc[tx.tail].dd /\ UNCHANGED chip
        /\ send' = [send EXCEPT ![s] = "arm"]
        /\ tx' = [tx EXCEPT !.queued = @ + 1, !.desc[tx.tail].frame = tx.queued + 1]
    BY <1>6 DEF Copy
  <2>2. tx.queued < MaxFrames /\ tx.lock = TRUE /\ Queue(tx.queued)
    <3>1. PICK h \in Stages : /\ Stage(send, tx.lock, h) /\ (h = "wait" => tx.queued < MaxFrames)
                              /\ TxHolds(tx.desc, chip.tdh, tx.tail, Len(tx.sent), Done(tx.queued, h), h)
      BY <1>1 DEF TxInv
    <3>2. h = send[s]
      BY <2>1, <3>1, StageIs
    <3> QED BY <2>1, <3>1, <3>2 DEF Stage, Done
  <2>3. tx' = [tx EXCEPT !.queued = tx.queued + 1, !.desc = d] /\ tx.queued + 1 \in 0..MaxFrames
    BY <1>1, <1>2, <2>1, <2>2 DEF TxRecords
  <2>4. d \in TxDesc /\ TxHolds(d, chip.tdh, tx.tail, Len(tx.sent), tx.queued, "arm")
    BY <1>2, <2>1, <2>2, TxCopied
  <2> HIDE DEF d
  <2>5. /\ tx' \in TxRecords /\ tx'.lock = tx.lock /\ tx'.tail = tx.tail /\ tx'.desc = d
        /\ tx'.queued = tx.queued + 1 /\ tx'.sent = tx.sent
    BY <1>2, <2>3, <2>4 DEF TxRecords
  <2>6. Done(tx'.queued, "arm") = tx.queued
    <3>1. (tx.queued + 1) - 1 = tx.queued
      BY <1>1, <1>2
    <3> QED BY <2>5, <3>1 DEF Done
  <2>7. TxInv'
    <3>1. Making(s, "arm") /\ "arm" \in Stages
      BY <1>2, <2>4, <2>5, <2>6 DEF Making
    <3> QED BY <1>1, <1>2, <2>1, <2>2, <2>5, <3>1, TxMade
  <2> QED BY <1>1, <1>2, <1>3, <1>4, <2>1, <2>5, <2>7 DEF E1000Inv, E1000Types, TxRecords
<1>7. CASE GiveUp(s)
  <2>1. /\ send[s] = "wait" /\ UNCHANGED chip
        /\ send' = [send EXCEPT ![s] = "idle"] /\ tx' = [tx EXCEPT !.lock = FALSE]
    BY <1>7 DEF GiveUp
  <2>2. /\ tx' \in TxRecords /\ tx'.lock = FALSE /\ tx'.tail = tx.tail /\ tx'.desc = tx.desc
        /\ tx'.queued = tx.queued /\ tx'.sent = tx.sent
    BY <1>2, <2>1 DEF TxRecords
  <2>3. Queue(tx.queued) => TxHolds(tx.desc, chip.tdh, tx.tail, Len(tx.sent), tx.queued, "idle")
    BY <2>1, TxWaits
  <2> HIDE DEF Queue
  <2>4. Done(tx.queued, send[s]) = tx.queued /\ Done(tx'.queued, "idle") = tx.queued
    BY <2>1, <2>2 DEF Done
  <2>5. Making(s, "idle") /\ "idle" \in Stages
    BY <1>2, <2>2, <2>3, <2>4 DEF Making, Queue
  <2>6. tx'.lock = ("idle" # "idle") /\ chip'.tdt = tx'.tail /\ chip'.tdh = chip.tdh
    BY <1>2, <2>1, <2>2
  <2>7. send[s] # "idle" \/ ~tx.lock
    BY <2>1
  <2>8. TxInv'
    BY <1>1, <2>1, <2>2, <2>5, <2>6, <2>7, TxMade
  <2> QED BY <1>1, <1>2, <1>3, <1>4, <2>1, <2>2, <2>8 DEF E1000Inv, E1000Types, TxRecords
<1>8. CASE Arm(s)
  <2> DEFINE d == [tx.desc EXCEPT ![tx.tail].dd = FALSE]
             q == Done(tx.queued, "arm")
  <2>1. /\ send[s] = "arm" /\ UNCHANGED chip /\ send' = [send EXCEPT ![s] = "tail"]
        /\ tx' = [tx EXCEPT !.desc = d]
    BY <1>2, <1>8 DEF Arm, TxRecords
  <2>2. d \in TxDesc
    BY <1>2 DEF TxDesc
  <2>3. Queue(q) => TxHolds(d, chip.tdh, tx.tail, Len(tx.sent), q, "tail")
    BY <1>2, <2>1, TxArmed
  <2> HIDE DEF d
  <2>4. /\ tx' \in TxRecords /\ tx'.lock = tx.lock /\ tx'.tail = tx.tail /\ tx'.desc = d
        /\ tx'.queued = tx.queued /\ tx'.sent = tx.sent
    BY <1>2, <2>1, <2>2 DEF TxRecords
  <2>5. tx.lock = TRUE
    <3>1. PICK h \in Stages : Stage(send, tx.lock, h)
      BY <1>1 DEF TxInv
    <3>2. h # "idle"
      BY <2>1, <3>1 DEF Stage
    <3> QED BY <3>1, <3>2 DEF Stage
  <2>6. Done(tx'.queued, "tail") = q
    BY <2>4 DEF Done
  <2>7. TxInv'
    <3>1. Making(s, "tail") /\ "tail" \in Stages
      BY <1>2, <2>1, <2>3, <2>4, <2>6 DEF Making
    <3> QED BY <1>1, <1>2, <2>1, <2>4, <2>5, <3>1, TxMade
  <2> QED BY <1>1, <1>2, <1>3, <1>4, <2>1, <2>4, <2>7 DEF E1000Inv, E1000Types, TxRecords
<1>9. CASE MoveTail(s)
  <2> DEFINE t == Lap(TxRing, tx.tail + 1)
             q == Done(tx.queued, "tail")
  <2>1. t \in TxSlot /\ t = (tx.tail + 1) % TxRing
    BY <1>1, <1>2, NextSlot
  <2>2. /\ send[s] = "tail" /\ send' = [send EXCEPT ![s] = "idle"]
        /\ tx' = [tx EXCEPT !.tail = t, !.lock = FALSE] /\ chip' = [chip EXCEPT !.tdt = t]
    BY <1>9, <2>1 DEF MoveTail
  <2>3. Queue(q) => TxHolds(tx.desc, chip.tdh, t, Len(tx.sent), q + 1, "idle")
    BY <1>2, <2>2, TxQueued
  <2> HIDE DEF t
  <2>4. /\ tx' \in TxRecords /\ tx'.lock = FALSE /\ tx'.tail = t /\ tx'.desc = tx.desc
        /\ tx'.queued = tx.queued /\ tx'.sent = tx.sent
    BY <1>2, <2>1, <2>2 DEF TxRecords
  <2>5. chip' \in Chips /\ chip'.tdt = t /\ chip'.tdh = chip.tdh
    BY <1>2, <2>1, <2>2 DEF Chips
  <2>6. Done(tx'.queued, "idle") = q + 1
    <3>1. (tx.queued - 1) + 1 = tx.queued
      BY <1>1, <1>2
    <3> QED BY <2>4, <3>1 DEF Done
  <2>7. TxInv'
    <3> HIDE DEF q
    <3>1. "idle" \in Stages /\ q = Done(tx.queued, send[s])
      BY <1>2, <2>2 DEF q
    <3>2. Making(s, "idle")
      BY <2>2, <2>3, <2>4, <2>6, <3>1 DEF Making
    <3>3. tx'.lock = ("idle" # "idle") /\ chip'.tdt = tx'.tail
      BY <2>4, <2>5
    <3> QED BY <1>1, <2>2, <2>4, <2>5, <3>1, <3>2, <3>3, TxMade
  <2> QED BY <1>1, <1>2, <1>3, <1>4, <2>2, <2>4, <2>5, <2>7 DEF E1000Inv, E1000Types, TxRecords
<1> QED BY <1>5, <1>6, <1>7, <1>8, <1>9

LEMMA SendStep ==
  ASSUME E1000Assumption, E1000Inv, SendFrame
  PROVE  E1000Inv'
<1>1. /\ E1000Types /\ RxInv /\ TxInv /\ TxRing \in Nat \ {0} /\ TxSlot = 0..(TxRing - 1)
      /\ MaxFrames \in Nat
  BY Numbers DEF E1000Inv
<1>2. /\ tx \in TxRecords /\ tx.desc \in TxDesc /\ tx.tail \in TxSlot /\ tx.sent \in Seq(Nat)
      /\ chip \in Chips /\ chip.tdh \in TxSlot /\ chip.tdt = tx.tail
  BY <1>1 DEF E1000Types, TxRecords, Chips, TxInv
<1>3. /\ UNCHANGED <<attach, rx, isr, send, up>> /\ chip.tdh # chip.tdt
      /\ irq' = (irq \/ (Initialized /\ chip.cause = {} /\ {"tx"} # {}))
      /\ chip' = [chip EXCEPT !.tdh = (@ + 1) % TxRing, !.cause = @ \cup {"tx"}]
  BY DEF SendFrame, Raised
<1> DEFINE m == Lap(TxRing, chip.tdh + 1)
           d == [tx.desc EXCEPT ![chip.tdh].dd = TRUE]
           f == tx.desc[chip.tdh].frame
           n == Len(tx.sent)
           q == Append(tx.sent, f)
<1>4. m \in TxSlot /\ m = (chip.tdh + 1) % TxRing
  BY <1>1, <1>2, NextSlot
<1>5. /\ chip' \in Chips /\ chip'.rdh = chip.rdh /\ chip'.rdt = chip.rdt
      /\ chip'.tdt = chip.tdt /\ chip'.tdh = m
  <2> HIDE DEF m
  <2>1. chip' = [chip EXCEPT !.tdh = m, !.cause = chip.cause \cup {"tx"}]
    BY <1>2, <1>3, <1>4
  <2> QED BY <1>2, <1>4, <2>1 DEF Chips, Causes
<1>6. RxInv'
  BY <1>1, <1>3, <1>5, RxKept
<1>7. PICK h \in Stages : /\ Stage(send, tx.lock, h) /\ (h = "wait" => tx.queued < MaxFrames)
                          /\ TxHolds(tx.desc, chip.tdh, tx.tail, Len(tx.sent), Done(tx.queued, h), h)
  BY <1>1 DEF TxInv
<1>8. d \in TxDesc /\ f = n + 1 /\ TxHolds(d, m, tx.tail, n + 1, Done(tx.queued, h), h)
  <2> HIDE DEF n, m
  <2>1. TxHolds(tx.desc, chip.tdh, tx.tail, n, Done(tx.queued, h), h)
    BY <1>7 DEF n
  <2>2. LET b == [tx.desc EXCEPT ![chip.tdh].dd = TRUE]
        IN  /\ b \in TxDesc /\ tx.desc[chip.tdh].frame = n + 1
            /\ TxHolds(b, Lap(TxRing, chip.tdh + 1), tx.tail, n + 1, Done(tx.queued, h), h)
    BY <1>2, <1>3, <2>1, TxSent
  <2> QED BY <2>2 DEF m
<1>9. n \in Nat /\ f \in Nat /\ q \in Seq(Nat) /\ Len(q) = n + 1 /\ q[n + 1] = f
      /\ \A i \in 1..n : q[i] = tx.sent[i]
  <2>1. n \in Nat
    BY <1>2
  <2>2. f \in Nat
    <3> HIDE DEF f, n
    <3> QED BY <1>8, <2>1
  <2> HIDE DEF f
  <2>3. q \in Seq(Nat) /\ Len(q) = n + 1 /\ q[n + 1] = f /\ \A i \in 1..n : q[i] = tx.sent[i]
    BY <1>2, <2>2
  <2> QED BY <2>1, <2>2, <2>3
<1>10. /\ tx' \in TxRecords /\ tx'.desc = d /\ tx'.sent = q /\ tx'.tail = tx.tail
       /\ tx'.queued = tx.queued /\ tx'.lock = tx.lock
  <2>1. tx' = [tx EXCEPT !.desc = d, !.sent = q]
    BY <1>2 DEF SendFrame, TxRecords
  <2> HIDE DEF d, q
  <2> QED BY <1>2, <1>8, <1>9, <2>1 DEF TxRecords
<1> HIDE DEF d, f, q, m
<1>11. Numbered(q)
  <2>1. \A i \in 1..n : tx.sent[i] = i
    BY <1>1 DEF TxInv, Numbered
  <2> HIDE DEF n
  <2> SUFFICES ASSUME NEW i \in 1..(n + 1) PROVE q[i] = i
    BY <1>9 DEF Numbered
  <2>2. i \in 1..n \/ i = n + 1
    BY <1>9
  <2> QED BY <1>8, <1>9, <2>1, <2>2
<1> HIDE DEF n
<1>12. TxInv'
  <2>1. Stage(send', tx'.lock, h) /\ (h = "wait" => tx'.queued < MaxFrames)
    BY <1>3, <1>7, <1>10
  <2>2. TxHolds(tx'.desc, chip'.tdh, tx'.tail, Len(tx'.sent), Done(tx'.queued, h), h)
    BY <1>5, <1>8, <1>9, <1>10
  <2> QED BY <1>2, <1>5, <1>7, <1>10, <1>11, <2>1, <2>2 DEF TxInv
<1>13. irq' \in BOOLEAN
  BY <1>1, <1>3 DEF E1000Types, Initialized
<1> QED BY <1>1, <1>3, <1>5, <1>6, <1>10, <1>12, <1>13 DEF E1000Inv, E1000Types, TxRecords

LEMMA E1000Step ==
  ASSUME E1000Assumption, E1000Inv, [E1000Next]_e1000Vars
  PROVE  E1000Inv'
<1>1. CASE Attach
  BY <1>1, AttachStep
<1>2. CASE Handler \/ E1000Poll \/ LinkChange
  BY <1>2, HandlerStep, LookStep, ClearStep, ReturnStep DEF Handler
<1>3. CASE StoreFrame
  BY <1>3, StoreStep
<1>4. CASE SendFrame
  BY <1>4, SendStep
<1>5. CASE \E s \in Sender : Lock(s) \/ Transmit(s)
  BY <1>5, TransmitStep DEF Transmit
<1>6. CASE UNCHANGED e1000Vars
  <2>1. UNCHANGED <<attach, chip, irq, rx, tx, isr, send, up>>
    BY <1>6 DEF e1000Vars
  <2>2. E1000Types /\ RxInv /\ TxInv
    BY DEF E1000Inv
  <2>3. RxInv' /\ TxInv'
    BY <2>1, <2>2, RxKept, TxKept
  <2>4. E1000Types'
    BY <2>1, <2>2 DEF E1000Types
  <2> QED BY <2>3, <2>4 DEF E1000Inv
<1> QED BY <1>1, <1>2, <1>3, <1>4, <1>5, <1>6 DEF E1000Next

(* What the invariant says of the frames that wait, slot by slot from RxNext. *)
LEMMA InOrder ==
  ASSUME E1000Assumption, E1000Inv
  PROVE  FramesInOrder
<1>1. E1000Types /\ RxInv /\ RxRing \in Nat \ {0} /\ RxSlot = 0..(RxRing - 1)
  BY Numbers DEF E1000Inv
<1>2. /\ rx.next \in 0..(RxRing - 1) /\ rx.next \in RxSlot /\ rx.stored \in Nat
      /\ rx.taken \in Seq(Nat)
  BY <1>1, Numbers DEF E1000Types
<1>3. \A i \in 1..Len(rx.taken) : rx.taken[i] = i
  BY <1>1 DEF RxInv, Numbered
<1>4. ASSUME isr.pc \notin {"clear", "return"}, NEW i \in 0..(RxRing - 1)
      PROVE  LET d == rx.desc[(rx.next + i) % RxRing] f == Len(rx.taken) + i + 1
             IN  IF f <= rx.stored THEN d.dd /\ d.frame = f ELSE ~d.dd
  <2> DEFINE a == rx.next + i
             j == Lap(RxRing, a)
             n == Len(rx.taken)
  <2>1. a \in 0..(2 * RxRing - 1)
    BY <1>1, <1>2
  <2>2. (rx.next + i) % RxRing = j /\ j \in RxSlot
    <3> HIDE DEF a
    <3>1. a % RxRing = j /\ j \in RxSlot
      BY <1>1, <2>1, Turn
    <3> QED BY <3>1 DEF a
  <2>3. Ahead(RxRing, rx.next, j) = i
    BY <1>1, <1>2 DEF Ahead, Lap
  <2> HIDE DEF j
  <2>4. Before = n /\ (isr.pc = "return") = FALSE
    BY <1>4 DEF Before, Taking
  <2>5. RxHolds(rx.desc, rx.next, chip.rdh, n, rx.stored, FALSE)
    BY <1>1, <2>4 DEF RxInv
  <2>6. /\ n \in Nat
        /\ IF i < rx.stored - n THEN StillWaits(rx.desc, j, n + i + 1) ELSE ~rx.desc[j].dd
    BY <2>2, <2>3, <2>5 DEF RxHolds
  <2> HIDE DEF n
  <2>7. n + i + 1 <= rx.stored <=> i < rx.stored - n
    BY <1>1, <1>2, <2>6
  <2>8. IF n + i + 1 <= rx.stored THEN rx.desc[j].dd /\ rx.desc[j].frame = n + i + 1 ELSE ~rx.desc[j].dd
    BY <2>6, <2>7 DEF StillWaits
  <2> QED BY <2>2, <2>8 DEF n
<1> QED BY <1>3, <1>4 DEF FramesInOrder
------------------------------------------------------------------------------
(* The state of the driver and of the adapter is always what E1000TypeOK says: *)
(* no head or tail leaves its ring, whatever the interrupts and the threads do. *)
THEOREM E1000TypeCorrect == E1000Assumption => (E1000Spec => []E1000TypeOK)
<1> SUFFICES ASSUME E1000Assumption PROVE E1000Spec => []E1000TypeOK
  OBVIOUS
<1>1. E1000Start => E1000Inv
  BY E1000InitInv
<1>2. E1000Inv /\ [E1000Next]_e1000Vars => E1000Inv'
  BY E1000Step
<1>3. E1000Inv => E1000TypeOK
  BY DEF E1000Inv, E1000Types, E1000TypeOK, Chips, Causes, Handlers, Stages, RxDesc, TxDesc
<1> QED BY <1>1, <1>2, <1>3, PTL DEF E1000Spec

(* Every frame the adapter stores is taken off the receive ring once and in    *)
(* order, and the ones that wait are in the descriptors from RxNext on.        *)
THEOREM FramesInOrderAlways == E1000Assumption => (E1000Spec => []FramesInOrder)
<1> SUFFICES ASSUME E1000Assumption PROVE E1000Spec => []FramesInOrder
  OBVIOUS
<1>1. E1000Start => E1000Inv
  BY E1000InitInv
<1>2. E1000Inv /\ [E1000Next]_e1000Vars => E1000Inv'
  BY E1000Step
<1>3. E1000Inv => FramesInOrder
  BY InOrder
<1> QED BY <1>1, <1>2, <1>3, PTL DEF E1000Spec

(* No frame on the transmit ring is overwritten before the adapter sent it,    *)
(* and they leave in the order in which the threads put them there.            *)
THEOREM SentInOrderAlways == E1000Assumption => (E1000Spec => []SentInOrder)
<1> SUFFICES ASSUME E1000Assumption PROVE E1000Spec => []SentInOrder
  OBVIOUS
<1>1. E1000Start => E1000Inv
  BY E1000InitInv
<1>2. E1000Inv /\ [E1000Next]_e1000Vars => E1000Inv'
  BY E1000Step
<1>3. E1000Inv => SentInOrder
  BY DEF E1000Inv, TxInv, Numbered, SentInOrder
<1> QED BY <1>1, <1>2, <1>3, PTL DEF E1000Spec
------------------------------------------------------------------------------
(* The Realtek adapter's receive buffer in words of four bytes, and the words  *)
(* a frame with its header takes.                                              *)
Units == RxBufLen \div 4
Words(n) == (n + 7) \div 4

LEMMA UnitsIs ==
  ASSUME R!RtlAssumption
  PROVE  /\ Units \in Nat \ {0} /\ RxBufLen = 4 * Units /\ R!Unit = 0..(Units - 1)
         /\ TxSlots \in Nat \ {0} /\ R!Slot = 0..(TxSlots - 1)
         /\ MaxFrames \in Nat /\ Scratch \in Nat /\ Bias \in 0..(RxBufLen - 1)
<1>1. RxBufLen \in Nat \ {0} /\ RxBufLen % 4 = 0
  BY DEF R!RtlAssumption
<1>2. RxBufLen = 4 * (RxBufLen \div 4) /\ RxBufLen \div 4 \in Nat \ {0}
  BY <1>1
<1> QED BY <1>2 DEF Units, R!RtlAssumption, R!Unit, R!Slot

LEMMA WordsIs ==
  ASSUME R!RtlAssumption, NEW n \in Lengths
  PROVE  /\ n \in Nat /\ n > 4 /\ n <= RxBufLen - 8 /\ Words(n) \in 3..(Units - 1)
         /\ R!Size(n) = 4 * Words(n) /\ R!Size(n) \div 4 = Words(n)
         /\ \A i \in 0..(n - 5) : 1 + i \div 4 < Words(n)
<1>1. /\ Units \in Nat \ {0} /\ RxBufLen = 4 * Units
  BY UnitsIs
<1>2. n \in Nat /\ n > 4 /\ n <= RxBufLen - 8
  BY <1>1 DEF R!RtlAssumption
<1>3. Words(n) \in 3..(Units - 1)
  <2>1. (n + 7) \div 4 \in Nat /\ (n + 7) \div 4 >= 3
    BY <1>2
  <2>2. 4 * ((n + 7) \div 4) <= n + 7
    BY <1>2
  <2>3. (n + 7) \div 4 <= Units - 1
    BY <1>1, <1>2, <2>1, <2>2
  <2> QED BY <1>1, <2>1, <2>3 DEF Words
<1>4. R!Size(n) = 4 * Words(n)
  BY <1>2 DEF R!Size, Words
<1>5. R!Size(n) \div 4 = Words(n)
  BY <1>1, <1>3, <1>4
<1>6. ASSUME NEW i \in 0..(n - 5) PROVE 1 + i \div 4 < Words(n)
  <2>1. 1 + i \div 4 = (i + 4) \div 4 /\ i + 4 <= n - 1
    BY <1>2
  <2>2. (i + 4) \div 4 <= (n - 1) \div 4
    BY <1>2, <2>1
  <2>3. (n + 7) \div 4 = (n - 1) \div 4 + 2
    BY <1>2
  <2> QED BY <1>2, <2>1, <2>2, <2>3 DEF Words
<1> QED BY <1>2, <1>3, <1>4, <1>5, <1>6

LEMMA AdvanceIs ==
  ASSUME R!RtlAssumption, NEW w \in R!Unit, NEW n \in Lengths
  PROVE  /\ R!Advance(4 * w, n) = 4 * Lap(Units, w + Words(n))
         /\ Lap(Units, w + Words(n)) \in R!Unit
<1> DEFINE s == Words(n)
<1>1. /\ Units \in Nat \ {0} /\ RxBufLen = 4 * Units /\ w \in 0..(Units - 1)
      /\ R!Unit = 0..(Units - 1)
  BY UnitsIs
<1>2. n \in Nat /\ s \in 3..(Units - 1)
  BY WordsIs
<1>3. ((4 * w + n + 4 + 3) \div 4) * 4 = 4 * (w + s)
  <2>1. 4 * w + n + 4 + 3 = (n + 7) + 4 * w
    BY <1>1, <1>2
  <2>2. ((n + 7) + 4 * w) \div 4 = (n + 7) \div 4 + w
    BY <1>1, <1>2
  <2> QED BY <1>1, <1>2, <2>1, <2>2 DEF Words
<1> HIDE DEF s
<1> DEFINE a == 4 * (w + s)
<1>4. a \in 0..(2 * RxBufLen - 1) /\ RxBufLen \in Nat \ {0}
  BY <1>1, <1>2
<1>5. a % RxBufLen = Lap(RxBufLen, a)
  BY <1>4, Turn
<1>6. Lap(RxBufLen, a) = 4 * Lap(Units, w + s) /\ Lap(Units, w + s) \in 0..(Units - 1)
  BY <1>1, <1>2 DEF Lap
<1>7. R!Advance(4 * w, n) = a % RxBufLen
  BY <1>3 DEF R!Advance
<1> QED BY <1>1, <1>5, <1>6, <1>7 DEF s

LEMMA AheadIs ==
  ASSUME R!RtlAssumption, NEW w \in R!Unit, NEW u \in R!Unit
  PROVE  (u + Units - w) % Units = Ahead(Units, w, u) /\ Ahead(Units, w, u) \in 0..(Units - 1)
<1> DEFINE a == u + Units - w
<1>1. /\ Units \in Nat \ {0} /\ w \in 0..(Units - 1) /\ u \in 0..(Units - 1)
  BY UnitsIs
<1>2. a \in 0..(2 * Units - 1)
  BY <1>1
<1>3. Lap(Units, a) = Ahead(Units, w, u) /\ Ahead(Units, w, u) \in 0..(Units - 1)
  BY <1>1 DEF Lap, Ahead
<1> HIDE DEF a
<1>4. a % Units = Lap(Units, a)
  BY <1>1, <1>2, Turn
<1> QED BY <1>3, <1>4 DEF a

(* Ahead of o, and of p, s words ahead of o. *)
Shifts(n, o, s, p, u) ==
  LET d == Ahead(n, o, u)
  IN  /\ p \in 0..(n - 1) /\ Ahead(n, o, p) = s /\ d \in 0..(n - 1) /\ (p = u <=> s = d)
      /\ IF d < s THEN Ahead(n, p, u) = d - s + n ELSE Ahead(n, p, u) = d - s
LEMMA Shifted ==
  ASSUME NEW n \in Nat \ {0}, NEW o \in 0..(n - 1), NEW s \in 0..(n - 1), NEW u \in 0..(n - 1)
  PROVE  Shifts(n, o, s, Lap(n, o + s), u)
<1>1. CASE o + s < n
  BY <1>1 DEF Shifts, Lap, Ahead
<1>2. CASE ~(o + s < n)
  BY <1>2 DEF Shifts, Lap, Ahead
<1> QED BY <1>1, <1>2

LEMMA Beyond ==
  ASSUME NEW n \in Nat \ {0}, NEW o \in 0..(n - 1), NEW w \in 0..(n - 1), NEW s \in Nat,
         Ahead(n, o, w) + s < n
  PROVE  LET y == Lap(n, w + s)
         IN  /\ Ahead(n, o, w) \in 0..(n - 1) /\ y \in 0..(n - 1)
             /\ Ahead(n, o, y) = Ahead(n, o, w) + s
<1>1. CASE w < o
  BY <1>1 DEF Lap, Ahead
<1>2. CASE ~(w < o)
  BY <1>2 DEF Lap, Ahead
<1> QED BY <1>1, <1>2

(* Frames k + 1 to n lie one behind the other from word o on, up to word w.    *)
Cells == [R!Unit -> [kind : {"none", "head", "data"}, frame : 0..MaxFrames, length : Lengths \cup {0}]]
Starts(cell, f) == cell.kind = "head" /\ cell.frame = f
FrameAt(m, o, w, n, u) ==
  LET d == Ahead(Units, o, u)
      e == d + Words(m[u].length)
      all == Ahead(Units, o, w)
  IN  /\ m[u].length \in Lengths /\ m[u].frame <= n /\ e <= all
      /\ e = all => m[u].frame = n
      /\ \A v \in R!Unit : /\ d < Ahead(Units, o, v) /\ Ahead(Units, o, v) < e => m[v].frame = m[u].frame
                           /\ e < all /\ Ahead(Units, o, v) = e => Starts(m[v], m[u].frame + 1)
FramesLie(m, o, w, k, n) ==
  /\ k \in Nat /\ n \in Nat /\ k <= n /\ (o = w <=> k = n)
  /\ o # w => Starts(m[o], k + 1)
  /\ \A u \in R!Unit : Ahead(Units, o, u) < Ahead(Units, o, w) /\ m[u].kind = "head" => FrameAt(m, o, w, n, u)

Written(m, w, f, l) ==
  [u \in R!Unit |-> LET i == (u + Units - w) % Units
                    IN  IF i = 0 THEN [kind |-> "head", frame |-> f, length |-> l]
                        ELSE IF i < R!Size(l) \div 4 THEN [kind |-> "data", frame |-> f, length |-> 0] ELSE m[u]]

(* The adapter writes one more frame where there is room for it. *)
LEMMA RingStored ==
  ASSUME R!RtlAssumption, NEW m \in Cells, NEW o \in R!Unit, NEW w \in R!Unit, NEW k, NEW n,
         FramesLie(m, o, w, k, n), n < MaxFrames, NEW l \in Lengths,
         Ahead(Units, o, w) + Words(l) < Units
  PROVE  /\ Written(m, w, n + 1, l) \in Cells
         /\ FramesLie(Written(m, w, n + 1, l), o, Lap(Units, w + Words(l)), k, n + 1)
<1> DEFINE x == Written(m, w, n + 1, l)
           s == Words(l)
           y == Lap(Units, w + s)
           d(u) == Ahead(Units, o, u)
<1>1. /\ Units \in Nat \ {0} /\ R!Unit = 0..(Units - 1) /\ MaxFrames \in Nat
      /\ o \in 0..(Units - 1) /\ w \in 0..(Units - 1) /\ k \in Nat /\ n \in Nat /\ k <= n
  BY UnitsIs DEF FramesLie
<1>2. s \in 3..(Units - 1) /\ R!Size(l) \div 4 = s
  BY WordsIs
<1> HIDE DEF s
<1>3. /\ y \in R!Unit /\ d(y) = d(w) + s /\ d(w) + s < Units /\ d(w) \in 0..(Units - 1) /\ o # y
  <2>1. d(w) + s < Units
    BY DEF s
  <2>2. d(w) \in 0..(Units - 1) /\ y \in 0..(Units - 1) /\ d(y) = d(w) + s
    BY <1>1, <1>2, <2>1, Beyond
  <2>3. d(y) # 0
    BY <1>1, <1>2, <2>2
  <2>4. Ahead(Units, o, o) = 0
    BY <1>1 DEF Ahead
  <2> QED BY <1>1, <2>1, <2>2, <2>3, <2>4
<1>4. ASSUME NEW u \in R!Unit
      PROVE  /\ d(u) \in 0..(Units - 1)
             /\ d(u) < d(w) => x[u] = m[u]
             /\ d(u) = d(w) => u = w
             /\ d(w) < d(u) /\ d(u) < d(w) + s => x[u] = [kind |-> "data", frame |-> n + 1, length |-> 0]
  <2>1. (u + Units - w) % Units = Ahead(Units, w, u)
    BY AheadIs
  <2>2. x[u] = IF Ahead(Units, w, u) = 0 THEN [kind |-> "head", frame |-> n + 1, length |-> l]
               ELSE IF Ahead(Units, w, u) < s THEN [kind |-> "data", frame |-> n + 1, length |-> 0] ELSE m[u]
    BY <1>2, <2>1 DEF Written
  <2>3. /\ d(u) \in 0..(Units - 1)
        /\ d(u) = d(w) => u = w
        /\ d(u) < d(w) => Ahead(Units, w, u) = d(u) + Units - d(w)
        /\ d(w) < d(u) => Ahead(Units, w, u) = d(u) - d(w)
    BY <1>1 DEF Ahead
  <2> HIDE DEF x, d
  <2>4. d(u) < d(w) => x[u] = m[u]
    BY <1>1, <1>2, <1>3, <2>2, <2>3
  <2>5. d(w) < d(u) /\ d(u) < d(w) + s => x[u] = [kind |-> "data", frame |-> n + 1, length |-> 0]
    BY <1>1, <1>2, <1>3, <2>2, <2>3
  <2> QED BY <2>3, <2>4, <2>5
<1>5. x[w] = [kind |-> "head", frame |-> n + 1, length |-> l]
  <2>1. (w + Units - w) % Units = Ahead(Units, w, w) /\ Ahead(Units, w, w) = 0
    BY <1>1, AheadIs DEF Ahead
  <2> QED BY <2>1 DEF Written
<1>6. x \in Cells
  <2>1. \A u \in R!Unit : m[u] \in [kind : {"none", "head", "data"}, frame : 0..MaxFrames, length : Lengths \cup {0}]
    BY DEF Cells
  <2>2. [kind |-> "head", frame |-> n + 1, length |-> l] \in [kind : {"none", "head", "data"}, frame : 0..MaxFrames, length : Lengths \cup {0}]
    BY <1>1
  <2>3. [kind |-> "data", frame |-> n + 1, length |-> 0] \in [kind : {"none", "head", "data"}, frame : 0..MaxFrames, length : Lengths \cup {0}]
    BY <1>1
  <2> QED BY <2>1, <2>2, <2>3 DEF Cells, Written
<1> HIDE DEF x, y, d
<1>7. k <= n + 1 /\ n + 1 \in Nat /\ k # n + 1
  BY <1>1
<1>8. Starts(x[o], k + 1)
  <2>1. CASE o = w
    <3>1. k = n
      BY <2>1 DEF FramesLie
    <3> QED BY <1>5, <2>1, <3>1 DEF Starts
  <2>2. CASE o # w
    <3>1. d(o) < d(w) /\ Starts(m[o], k + 1)
      BY <1>1, <2>2 DEF FramesLie, Ahead, d
    <3> QED BY <1>1, <1>4, <3>1
  <2> QED BY <2>1, <2>2
<1>9. ASSUME NEW u \in R!Unit, d(u) < d(y), x[u].kind = "head"
      PROVE  FrameAt(x, o, y, n + 1, u)
  <2>1. CASE d(u) < d(w)
    <3>1. x[u] = m[u] /\ m[u].kind = "head"
      BY <1>4, <1>9, <2>1
    <3>2. FrameAt(m, o, w, n, u)
      BY <2>1, <3>1 DEF FramesLie, d
    <3> DEFINE e == d(u) + Words(m[u].length)
    <3>3. /\ m[u].length \in Lengths /\ m[u].frame <= n /\ e <= d(w) /\ (e = d(w) => m[u].frame = n)
          /\ \A v \in R!Unit : /\ d(u) < d(v) /\ d(v) < e => m[v].frame = m[u].frame
                               /\ e < d(w) /\ d(v) = e => Starts(m[v], m[u].frame + 1)
      BY <3>2 DEF FrameAt, d
    <3>4. Words(m[u].length) \in Nat /\ e \in Nat /\ m[u].frame \in Nat /\ d(u) \in Nat
      <4>1. Words(m[u].length) \in Nat
        BY <1>1, <3>3, WordsIs
      <4>2. m[u].frame \in 0..MaxFrames
        BY DEF Cells
      <4>3. d(u) \in Nat
        <5>1. d(u) \in 0..(Units - 1)
          BY <1>4
        <5> QED BY <1>1, <5>1
      <4>4. m[u].frame \in Nat
        BY <1>1, <4>2
      <4> QED BY <4>1, <4>3, <4>4
    <3>8. x[u].length \in Lengths /\ x[u].frame = m[u].frame /\ d(u) + Words(x[u].length) = e
      BY <3>1, <3>3
    <3> HIDE DEF e
    <3>5. e < d(y) /\ m[u].frame <= n + 1
      <4>1. m[u].frame <= n /\ n \in Nat /\ e <= d(w)
        BY <1>1, <3>3
      <4>2. s \in Nat \ {0} /\ d(w) \in Nat /\ d(y) = d(w) + s
        BY <1>1, <1>2, <1>3
      <4> QED BY <3>4, <4>1, <4>2
    <3>6. ASSUME NEW v \in R!Unit
          PROVE  /\ d(u) < d(v) /\ d(v) < e => x[v].frame = x[u].frame
                 /\ e < d(y) /\ d(v) = e => Starts(x[v], x[u].frame + 1)
      <4>1. d(v) < d(w) => x[v] = m[v]
        BY <1>4
      <4>2. d(v) \in Nat /\ d(w) \in Nat
        BY <1>3, <1>4
      <4>3. d(u) < d(v) /\ d(v) < e => x[v].frame = x[u].frame
        BY <3>1, <3>3, <3>4, <4>1, <4>2
      <4>4. ASSUME d(v) = e PROVE Starts(x[v], x[u].frame + 1)
        <5>1. CASE e = d(w)
          <6>1. v = w /\ m[u].frame = n
            BY <1>4, <3>3, <4>4, <5>1
          <6> QED BY <1>5, <3>1, <6>1 DEF Starts
        <5>2. CASE e < d(w)
          BY <3>1, <3>3, <4>1, <4>4, <5>2
        <5> QED BY <3>3, <3>4, <4>2, <5>1, <5>2
      <4> QED BY <4>3, <4>4
    <3>7. e # d(y)
      BY <1>1, <1>3, <1>4, <3>4, <3>5
    <3>9. e <= d(y) /\ ~(e = d(y)) /\ x[u].frame <= n + 1
      BY <1>3, <1>4, <3>4, <3>5, <3>7, <3>8
    <3> QED BY <3>6, <3>8, <3>9 DEF FrameAt, d
  <2>2. CASE d(u) = d(w)
    <3>1. u = w /\ x[u] = [kind |-> "head", frame |-> n + 1, length |-> l]
      BY <1>4, <1>5, <2>2
    <3>2. d(u) + Words(x[u].length) = d(y)
      BY <1>3, <3>1 DEF s
    <3>3. ASSUME NEW v \in R!Unit, d(u) < d(v), d(v) < d(y) PROVE x[v].frame = x[u].frame
      <4>1. x[v] = [kind |-> "data", frame |-> n + 1, length |-> 0]
        BY <1>3, <1>4, <2>2, <3>3
      <4> QED BY <3>1, <4>1
    <3>4. x[u].length \in Lengths /\ x[u].frame <= n + 1 /\ x[u].frame = n + 1 /\ d(y) <= d(y) /\ ~(d(y) < d(y))
      BY <1>1, <1>2, <1>3, <3>1
    <3> QED BY <3>2, <3>3, <3>4 DEF FrameAt, d
  <2>3. CASE d(w) < d(u)
    <3>1. x[u].kind = "data"
      BY <1>3, <1>4, <1>9, <2>3
    <3> QED BY <1>9, <3>1
  <2> QED BY <1>3, <1>4, <2>1, <2>2, <2>3
<1>10. FramesLie(x, o, y, k, n + 1)
  <2>1. \A u \in R!Unit : Ahead(Units, o, u) < Ahead(Units, o, y) /\ x[u].kind = "head" => FrameAt(x, o, y, n + 1, u)
    BY <1>9 DEF d
  <2> QED BY <1>1, <1>3, <1>7, <1>8, <2>1 DEF FramesLie
<1> QED BY <1>6, <1>10 DEF x, y, s

(* The driver passes over the first of them. *)
LEMMA RingRead ==
  ASSUME R!RtlAssumption, NEW m \in Cells, NEW o \in R!Unit, NEW w \in R!Unit, NEW k, NEW n,
         FramesLie(m, o, w, k, n), o # w
  PROVE  /\ m[o].kind = "head" /\ m[o].frame = k + 1 /\ m[o].length \in Lengths /\ k < n
         /\ FramesLie(m, Lap(Units, o + Words(m[o].length)), w, k + 1, n)
         /\ \A j \in 1..(Words(m[o].length) - 1) : m[Lap(Units, o + j)].frame = k + 1
<1> DEFINE s == Words(m[o].length)
           p == Lap(Units, o + s)
           d(u) == Ahead(Units, o, u)
           c(u) == Ahead(Units, p, u)
<1>1. /\ Units \in Nat \ {0} /\ R!Unit = 0..(Units - 1) /\ MaxFrames \in Nat
      /\ o \in 0..(Units - 1) /\ w \in 0..(Units - 1) /\ k \in Nat /\ n \in Nat /\ k <= n /\ k # n
  BY UnitsIs DEF FramesLie
<1>2. m[o].kind = "head" /\ m[o].frame = k + 1
  BY DEF FramesLie, Starts
<1>3. d(o) = 0 /\ d(w) \in 1..(Units - 1)
  BY <1>1 DEF Ahead
<1>4. FrameAt(m, o, w, n, o)
  <2>1. d(o) < d(w)
    BY <1>3
  <2> QED BY <1>2, <2>1 DEF FramesLie
<1>5. /\ m[o].length \in Lengths /\ s <= d(w) /\ (s = d(w) => k + 1 = n)
      /\ \A v \in R!Unit : /\ 0 < d(v) /\ d(v) < s => m[v].frame = k + 1
                           /\ s < d(w) /\ d(v) = s => Starts(m[v], k + 1 + 1)
  <2>1. 0 + s = s
    BY <1>4, WordsIs DEF FrameAt
  <2> QED BY <1>2, <1>3, <1>4, <2>1 DEF FrameAt
<1>6. s \in 3..(Units - 1)
  BY <1>5, WordsIs
<1> HIDE DEF s
<1>15. s \in 0..(Units - 1)
  BY <1>1, <1>6
<1>7. /\ p \in R!Unit /\ d(p) = s /\ c(w) = d(w) - s /\ (p = w <=> s = d(w))
  <2>1. Shifts(Units, o, s, p, w)
    BY <1>1, <1>15, Shifted
  <2>2. p \in 0..(Units - 1) /\ d(p) = s /\ (p = w <=> s = d(w))
        /\ IF d(w) < s THEN c(w) = d(w) - s + Units ELSE c(w) = d(w) - s
    BY <2>1 DEF Shifts
  <2> HIDE DEF p, c, d
  <2>3. ~(d(w) < s)
    BY <1>1, <1>3, <1>5, <1>15
  <2> QED BY <1>1, <2>2, <2>3
<1>8. ASSUME NEW u \in R!Unit, c(u) <= c(w)
      PROVE  c(u) \in Nat /\ d(u) = c(u) + s
  <2>1. /\ d(u) \in 0..(Units - 1)
        /\ IF d(u) < s THEN c(u) = d(u) - s + Units ELSE c(u) = d(u) - s
    <3>1. u \in 0..(Units - 1)
      BY <1>1
    <3>2. Shifts(Units, o, s, p, u)
      BY <1>1, <1>15, <3>1, Shifted
    <3> QED BY <3>2 DEF Shifts
  <2>2. ~(d(u) < s)
    BY <1>1, <1>3, <1>15, <1>7, <1>8, <2>1
  <2> HIDE DEF c, d
  <2> QED BY <1>1, <1>15, <2>1, <2>2
<1>9. ASSUME NEW j \in 1..(s - 1) PROVE m[Lap(Units, o + j)].frame = k + 1
  <2>1. Lap(Units, o + j) \in R!Unit /\ d(Lap(Units, o + j)) = j
    <3>1. j \in 0..(Units - 1)
      BY <1>1, <1>15
    <3>2. Shifts(Units, o, j, Lap(Units, o + j), w)
      BY <1>1, <3>1, Shifted
    <3> QED BY <1>1, <3>2 DEF Shifts
  <2> QED BY <1>5, <1>6, <2>1
<1> HIDE DEF p, c, d
<1>10. ASSUME NEW u \in R!Unit, c(u) < c(w), m[u].kind = "head"
       PROVE  FrameAt(m, p, w, n, u)
  <2>1. c(u) \in Nat /\ d(u) = c(u) + s /\ c(w) \in Nat /\ d(w) = c(w) + s
    <3>1. c(u) \in 0..(Units - 1) /\ c(w) \in 0..(Units - 1)
      BY <1>1, <1>7 DEF c, Ahead
    <3>2. c(u) <= c(w) /\ c(w) <= c(w)
      BY <1>1, <1>10, <3>1
    <3> QED BY <1>1, <1>8, <3>2
  <2>2. d(u) < d(w)
    BY <1>6, <1>10, <2>1
  <2>3. FrameAt(m, o, w, n, u)
    BY <1>10, <2>2 DEF FramesLie, d
  <2> DEFINE l == Words(m[u].length)
  <2>4. /\ m[u].length \in Lengths /\ m[u].frame <= n /\ d(u) + l <= d(w)
        /\ (d(u) + l = d(w) => m[u].frame = n)
        /\ \A v \in R!Unit : /\ d(u) < d(v) /\ d(v) < d(u) + l => m[v].frame = m[u].frame
                             /\ d(u) + l < d(w) /\ d(v) = d(u) + l => Starts(m[v], m[u].frame + 1)
    BY <2>3 DEF FrameAt, d
  <2>5. l \in Nat
    BY <1>1, <2>4, WordsIs
  <2> HIDE DEF l
  <2>6. c(u) + l <= c(w) /\ (c(u) + l = c(w) => m[u].frame = n)
    BY <1>6, <2>1, <2>4, <2>5
  <2>7. ASSUME NEW v \in R!Unit
        PROVE  /\ c(u) < c(v) /\ c(v) < c(u) + l => m[v].frame = m[u].frame
               /\ c(u) + l < c(w) /\ c(v) = c(u) + l => Starts(m[v], m[u].frame + 1)
    <3>1. c(v) \in 0..(Units - 1)
      BY <1>1, <1>7 DEF c, Ahead
    <3>2. c(v) <= c(w) => d(v) = c(v) + s
      BY <1>8
    <3>3. ASSUME c(u) < c(v), c(v) < c(u) + l PROVE m[v].frame = m[u].frame
      <4>1. d(u) < d(v) /\ d(v) < d(u) + l
        BY <1>1, <1>6, <2>1, <2>5, <2>6, <3>1, <3>2, <3>3
      <4> QED BY <2>4, <4>1
    <3>4. ASSUME c(u) + l < c(w), c(v) = c(u) + l PROVE Starts(m[v], m[u].frame + 1)
      <4>1. d(u) + l < d(w) /\ d(v) = d(u) + l
        BY <1>1, <1>6, <2>1, <2>5, <3>1, <3>2, <3>4
      <4> QED BY <2>4, <4>1
    <3> QED BY <3>3, <3>4
  <2> QED BY <2>4, <2>6, <2>7 DEF FrameAt, c, l
<1>11. p = w <=> k + 1 = n
  <2>1. p # w => k + 1 # n
    <3>1. ASSUME p # w PROVE k + 1 # n
      <4>1. s < d(w)
        BY <1>3, <1>5, <1>6, <1>7, <3>1
      <4>2. Starts(m[p], k + 1 + 1)
        BY <1>5, <1>7, <4>1
      <4>3. c(p) = 0 /\ c(p) < c(w)
        BY <1>1, <1>3, <1>6, <1>7, <4>1 DEF c, Ahead
      <4>4. m[p].frame <= n
        <5>1. FrameAt(m, p, w, n, p)
          BY <1>7, <1>10, <4>2, <4>3 DEF Starts
        <5> QED BY <5>1 DEF FrameAt
      <4> QED BY <1>1, <4>2, <4>4 DEF Starts
    <3> QED BY <3>1
  <2>2. p = w => k + 1 = n
    BY <1>5, <1>7
  <2> QED BY <2>1, <2>2
<1>12. p # w => Starts(m[p], k + 1 + 1)
  <2>1. ASSUME p # w PROVE Starts(m[p], k + 1 + 1)
    <3>1. s < d(w)
      BY <1>3, <1>5, <1>6, <1>7, <2>1
    <3> QED BY <1>5, <1>7, <3>1
  <2> QED BY <2>1
<1>13. FramesLie(m, p, w, k + 1, n)
  <2>1. \A u \in R!Unit : Ahead(Units, p, u) < Ahead(Units, p, w) /\ m[u].kind = "head" => FrameAt(m, p, w, n, u)
    BY <1>10 DEF c
  <2>2. k + 1 \in Nat /\ k + 1 <= n /\ k < n
    BY <1>1
  <2> QED BY <1>1, <1>11, <1>12, <2>1, <2>2 DEF FramesLie
<1>14. k < n
  BY <1>1
<1> QED BY <1>2, <1>5, <1>9, <1>13, <1>14 DEF s, p

(* The two parts of the copy are the frame's payload, all of it and no more.   *)
LEMMA PayloadIs ==
  ASSUME R!RtlAssumption, NEW o \in R!Unit, NEW i \in Nat, i < RxBufLen - 4
  PROVE  /\ R!PayloadAt(4 * o, i) < RxBufLen
         /\ R!PayloadAt(4 * o, i) \div 4 = Lap(Units, o + (1 + i \div 4))
<1> DEFINE j == 1 + i \div 4
<1>1. /\ Units \in Nat \ {0} /\ RxBufLen = 4 * Units /\ o \in 0..(Units - 1)
  BY UnitsIs
<1>2. j \in Nat /\ 4 * j <= i + 4 /\ i + 4 < 4 * j + 4
  OBVIOUS
<1> HIDE DEF j
<1>3. CASE i < RxBufLen - 4 * o - 4
  <2>1. R!PayloadAt(4 * o, i) = 4 * o + 4 + i
    BY <1>3 DEF R!PayloadAt
  <2>2. (4 * o + 4 + i) \div 4 = o + j
    BY <1>1, <1>2
  <2>3. o + j < Units
    BY <1>1, <1>2, <1>3
  <2>4. Lap(Units, o + j) = o + j
    BY <2>3 DEF Lap
  <2> QED BY <1>1, <1>3, <2>1, <2>2, <2>4 DEF j
<1>4. CASE ~(i < RxBufLen - 4 * o - 4)
  <2>1. R!PayloadAt(4 * o, i) = i - (RxBufLen - 4 * o - 4)
    BY <1>4 DEF R!PayloadAt
  <2>2. (i - (RxBufLen - 4 * o - 4)) \div 4 = o + j - Units
    BY <1>1, <1>2
  <2>3. ~(o + j < Units)
    BY <1>1, <1>2, <1>4
  <2>4. Lap(Units, o + j) = o + j - Units
    BY <1>1, <1>2, <2>3 DEF Lap
  <2>5. i - (RxBufLen - 4 * o - 4) < RxBufLen
    BY <1>1
  <2> QED BY <1>1, <1>4, <2>1, <2>2, <2>4, <2>5 DEF j
<1> QED BY <1>3, <1>4

LEMMA ReadIs ==
  ASSUME R!RtlAssumption, NEW o \in R!Unit, rx2.offset = 4 * o, NEW f, NEW n \in Lengths,
         \A j \in 1..(Words(n) - 1) : mem[Lap(Units, o + j)].frame = f
  PROVE  R!Read(f, n - 4) = {f}
<1>1. /\ RxBufLen \in Nat /\ n \in Nat /\ n > 4 /\ n <= RxBufLen - 8 /\ Words(n) \in Nat
      /\ \A i \in 0..(n - 5) : 1 + i \div 4 < Words(n)
  <2>1. RxBufLen \in Nat
    BY UnitsIs
  <2>2. Words(n) \in 3..(Units - 1) /\ Units \in Nat
    BY UnitsIs, WordsIs
  <2> QED BY <2>1, <2>2, WordsIs
<1>2. ASSUME NEW i \in 0..((n - 4) - 1)
      PROVE  /\ R!PayloadAt(rx2.offset, i) < RxBufLen
             /\ mem[R!PayloadAt(rx2.offset, i) \div 4].frame = f
  <2>1. i \in Nat /\ i < RxBufLen - 4 /\ i \in 0..(n - 5)
    BY <1>1
  <2>2. 1 + i \div 4 \in 1..(Words(n) - 1)
    BY <1>1, <2>1
  <2> QED BY <2>1, <2>2, PayloadIs
<1>3. R!Inside(rx2.offset, n - 4)
  BY <1>2 DEF R!Inside
<1>4. R!Copied(rx2.offset, n - 4) = {f}
  <2>1. 0 \in 0..((n - 4) - 1)
    BY <1>1
  <2> QED BY <1>2, <2>1 DEF R!Copied
<1> QED BY <1>3, <1>4 DEF R!Read
------------------------------------------------------------------------------
(* The transmit slots.  The frames started and not yet sent lie from the slot  *)
(* the adapter comes to next on, up to TxCur, which may be filled already.     *)
Slots2 == 0..(TxSlots - 1)
SlotsHold(own, buf, at, cur, sent, done, h) ==
  /\ sent \in Nat /\ done \in Nat /\ sent <= done /\ done <= sent + TxSlots
  /\ cur = Lap(TxSlots, at + (done - sent))
  /\ h = "start" => done < sent + TxSlots /\ buf[cur] = done + 1
  /\ \A j \in Slots2 :
       LET i == Ahead(TxSlots, at, j)
       IN  IF i < done - sent THEN own[j] /\ buf[j] = sent + i + 1 ELSE ~own[j]

SlotFacts(at, cur, sent, done) ==
  /\ TxSlots \in Nat \ {0} /\ at \in 0..(TxSlots - 1)
  /\ sent \in Nat /\ done \in Nat /\ done - sent \in 0..TxSlots /\ cur \in Slots2
  /\ cur = Lap(TxSlots, at + (done - sent))
  /\ done - sent < TxSlots => Ahead(TxSlots, at, cur) = done - sent
  /\ done - sent = TxSlots => cur = at
  /\ \A j \in Slots2 : /\ Ahead(TxSlots, at, j) \in 0..(TxSlots - 1)
                       /\ Ahead(TxSlots, at, j) = done - sent => j = cur

LEMMA SlotsAre ==
  ASSUME R!RtlAssumption, NEW own, NEW buf, NEW at \in Slots2, NEW cur, NEW sent, NEW done,
         NEW h, SlotsHold(own, buf, at, cur, sent, done, h)
  PROVE  SlotFacts(at, cur, sent, done)
<1> DEFINE k == done - sent
<1>1. TxSlots \in Nat \ {0} /\ Slots2 = 0..(TxSlots - 1) /\ at \in 0..(TxSlots - 1)
  BY UnitsIs DEF Slots2
<1>2. /\ sent \in Nat /\ done \in Nat /\ k \in 0..TxSlots /\ cur = Lap(TxSlots, at + k)
  BY <1>1 DEF SlotsHold
<1> HIDE DEF k
<1>3. /\ cur \in Slots2 /\ (k < TxSlots => Ahead(TxSlots, at, cur) = k)
      /\ (k = TxSlots => cur = at)
  BY <1>1, <1>2 DEF Lap, Ahead
<1>4. \A j \in Slots2 : Ahead(TxSlots, at, j) \in 0..(TxSlots - 1) /\ (Ahead(TxSlots, at, j) = k => j = cur)
  BY <1>1, <1>2 DEF Lap, Ahead
<1> QED BY <1>1, <1>2, <1>3, <1>4 DEF k, SlotFacts

(* The adapter sends the frame in the slot it comes to, which is the next one. *)
LEMMA SlotSent ==
  ASSUME R!RtlAssumption, NEW own \in [Slots2 -> BOOLEAN], NEW buf, NEW at \in Slots2, NEW cur,
         NEW sent, NEW done, NEW h, SlotsHold(own, buf, at, cur, sent, done, h), own[at]
  PROVE  /\ buf[at] = sent + 1
         /\ SlotsHold([own EXCEPT ![at] = FALSE], buf, Lap(TxSlots, at + 1), cur, sent + 1, done, h)
<1> DEFINE k == done - sent
           m == Lap(TxSlots, at + 1)
           x == [own EXCEPT ![at] = FALSE]
           d(j) == Ahead(TxSlots, at, j)
           e(j) == Ahead(TxSlots, m, j)
<1>1. /\ TxSlots \in Nat \ {0} /\ Slots2 = 0..(TxSlots - 1) /\ at \in 0..(TxSlots - 1)
      /\ sent \in Nat /\ done \in Nat /\ k \in 0..TxSlots /\ done = sent + k
      /\ cur = Lap(TxSlots, at + k)
  <2>1. /\ TxSlots \in Nat \ {0} /\ at \in 0..(TxSlots - 1) /\ sent \in Nat /\ done \in Nat
        /\ done - sent \in 0..TxSlots /\ cur = Lap(TxSlots, at + (done - sent))
    <3>1. SlotFacts(at, cur, sent, done)
      BY SlotsAre
    <3> QED BY <3>1 DEF SlotFacts
  <2>2. Slots2 = 0..(TxSlots - 1)
    BY DEF Slots2
  <2> QED BY <2>1, <2>2
<1>2. \A j \in Slots2 : IF d(j) < k THEN own[j] /\ buf[j] = sent + d(j) + 1 ELSE ~own[j]
  BY DEF SlotsHold
<1>3. d(at) = 0
  BY <1>1 DEF Ahead
<1>4. k # 0 /\ buf[at] = sent + 1
  <2>1. 0 < k /\ buf[at] = sent + 0 + 1
    BY <1>1, <1>2, <1>3
  <2> QED BY <1>1, <2>1
<1>5. x[at] = FALSE /\ \A j \in Slots2 \ {at} : x[j] = own[j]
  OBVIOUS
<1>6. h = "start" => done < sent + TxSlots /\ buf[cur] = done + 1
  BY DEF SlotsHold
<1> HIDE DEF k, x
<1>7. cur = Lap(TxSlots, m + (k - 1)) /\ m \in Slots2
  BY <1>1, <1>4 DEF Lap
<1>8. ASSUME NEW j \in Slots2
      PROVE  IF e(j) < k - 1 THEN x[j] /\ buf[j] = (sent + 1) + e(j) + 1 ELSE ~x[j]
  <2>1. /\ e(j) \in Nat /\ d(j) \in Nat /\ (j = at => e(j) = TxSlots - 1) /\ (j # at => d(j) = e(j) + 1)
    BY <1>1 DEF Ahead, Lap
  <2> HIDE DEF d, e, m
  <2>2. CASE j = at
    BY <1>1, <1>4, <1>5, <2>1, <2>2
  <2>3. CASE j # at
    <3>1. e(j) < k - 1 <=> d(j) < k
      BY <1>1, <2>1, <2>3
    <3>2. (sent + 1) + e(j) + 1 = sent + d(j) + 1 /\ x[j] = own[j]
      BY <1>1, <1>5, <2>1, <2>3
    <3> QED BY <1>2, <3>1, <3>2
  <2> QED BY <2>2, <2>3
<1>9. /\ sent + 1 \in Nat /\ sent + 1 <= done /\ done <= (sent + 1) + TxSlots
      /\ done - (sent + 1) = k - 1 /\ (done < sent + TxSlots => done < (sent + 1) + TxSlots)
  BY <1>1, <1>4
<1> HIDE DEF m
<1>10. SlotsHold(x, buf, m, cur, sent + 1, done, h)
  BY <1>1, <1>6, <1>7, <1>8, <1>9 DEF SlotsHold, e
<1> QED BY <1>4, <1>10 DEF m, x

(* The driver fills the slot at TxCur, which is its own, and gives it away.    *)
LEMMA SlotFilled ==
  ASSUME R!RtlAssumption, NEW own \in [Slots2 -> BOOLEAN], NEW buf \in [Slots2 -> 0..MaxFrames],
         NEW at \in Slots2, NEW cur, NEW sent, NEW done,
         SlotsHold(own, buf, at, cur, sent, done, "wait"), ~own[cur]
  PROVE  SlotsHold(own, [buf EXCEPT ![cur] = done + 1], at, cur, sent, done, "start")
<1> DEFINE x == [buf EXCEPT ![cur] = done + 1]
           k == done - sent
<1>1. /\ TxSlots \in Nat \ {0} /\ Slots2 = 0..(TxSlots - 1) /\ at \in 0..(TxSlots - 1)
      /\ sent \in Nat /\ done \in Nat /\ k \in 0..TxSlots /\ done = sent + k /\ cur \in Slots2
      /\ cur = Lap(TxSlots, at + k) /\ (k < TxSlots => Ahead(TxSlots, at, cur) = k)
      /\ (k = TxSlots => cur = at)
  <2>1. /\ TxSlots \in Nat \ {0} /\ at \in 0..(TxSlots - 1) /\ sent \in Nat /\ done \in Nat
        /\ done - sent \in 0..TxSlots /\ cur = Lap(TxSlots, at + (done - sent)) /\ cur \in Slots2
        /\ (done - sent < TxSlots => Ahead(TxSlots, at, cur) = done - sent)
        /\ (done - sent = TxSlots => cur = at)
    <3>1. SlotFacts(at, cur, sent, done)
      BY SlotsAre
    <3> QED BY <3>1 DEF SlotFacts
  <2>2. Slots2 = 0..(TxSlots - 1)
    BY DEF Slots2
  <2> QED BY <2>1, <2>2
<1>2. \A j \in Slots2 : LET i == Ahead(TxSlots, at, j)
                        IN  IF i < k THEN own[j] /\ buf[j] = sent + i + 1 ELSE ~own[j]
  BY DEF SlotsHold
<1>3. k < TxSlots
  <2>1. Ahead(TxSlots, at, at) = 0
    BY <1>1 DEF Ahead
  <2>2. ASSUME k = TxSlots PROVE FALSE
    BY <1>1, <1>2, <2>1, <2>2
  <2> QED BY <1>1, <2>2
<1>4. x[cur] = done + 1 /\ \A j \in Slots2 \ {cur} : x[j] = buf[j]
  BY <1>1
<1> HIDE DEF x, k
<1>5. ASSUME NEW j \in Slots2
      PROVE  LET i == Ahead(TxSlots, at, j)
             IN  IF i < k THEN own[j] /\ x[j] = sent + i + 1 ELSE ~own[j]
  BY <1>1, <1>2, <1>3, <1>4
<1>6. done < sent + TxSlots
  BY <1>1, <1>3
<1>7. done - sent = k /\ sent <= done /\ done <= sent + TxSlots
  BY <1>1
<1> QED BY <1>1, <1>4, <1>5, <1>6, <1>7 DEF SlotsHold, x

LEMMA SlotStarted ==
  ASSUME R!RtlAssumption, NEW own \in [Slots2 -> BOOLEAN], NEW buf, NEW at \in Slots2, NEW cur,
         NEW sent, NEW done, SlotsHold(own, buf, at, cur, sent, done, "start")
  PROVE  SlotsHold([own EXCEPT ![cur] = TRUE], buf, at, Lap(TxSlots, cur + 1), sent, done + 1, "idle")
<1> DEFINE x == [own EXCEPT ![cur] = TRUE]
           k == done - sent
           d(j) == Ahead(TxSlots, at, j)
<1>1. /\ TxSlots \in Nat \ {0} /\ Slots2 = 0..(TxSlots - 1) /\ at \in 0..(TxSlots - 1)
      /\ sent \in Nat /\ done \in Nat /\ k \in 0..TxSlots /\ done = sent + k /\ cur \in Slots2
      /\ cur = Lap(TxSlots, at + k) /\ (k < TxSlots => d(cur) = k)
      /\ \A j \in Slots2 : d(j) \in 0..(TxSlots - 1) /\ (d(j) = k => j = cur)
  <2>1. /\ TxSlots \in Nat \ {0} /\ at \in 0..(TxSlots - 1) /\ sent \in Nat /\ done \in Nat
        /\ done - sent \in 0..TxSlots /\ cur = Lap(TxSlots, at + (done - sent)) /\ cur \in Slots2
        /\ (done - sent < TxSlots => Ahead(TxSlots, at, cur) = done - sent)
        /\ \A j \in Slots2 : /\ Ahead(TxSlots, at, j) \in 0..(TxSlots - 1)
                             /\ Ahead(TxSlots, at, j) = done - sent => j = cur
    <3>1. SlotFacts(at, cur, sent, done)
      BY SlotsAre
    <3> QED BY <3>1 DEF SlotFacts
  <2>2. Slots2 = 0..(TxSlots - 1)
    BY DEF Slots2
  <2> QED BY <2>1, <2>2
<1>2. \A j \in Slots2 : IF d(j) < k THEN own[j] /\ buf[j] = sent + d(j) + 1 ELSE ~own[j]
  BY DEF SlotsHold
<1>3. done < sent + TxSlots /\ buf[cur] = done + 1
  BY DEF SlotsHold
<1>4. x[cur] = TRUE /\ \A j \in Slots2 \ {cur} : x[j] = own[j]
  BY <1>1
<1> HIDE DEF x, k
<1>5. k < TxSlots /\ Lap(TxSlots, cur + 1) = Lap(TxSlots, at + (k + 1))
  <2>1. k < TxSlots
    BY <1>1, <1>3
  <2>2. /\ TxSlots \in Nat \ {0} /\ at \in 0..(TxSlots - 1) /\ k \in 0..TxSlots
        /\ cur = Lap(TxSlots, at + k)
    BY <1>1
  <2>3. Lap(TxSlots, cur + 1) = Lap(TxSlots, at + (k + 1))
    BY <2>1, <2>2 DEF Lap
  <2> QED BY <2>1, <2>3
<1> HIDE DEF d
<1>6. ASSUME NEW j \in Slots2
      PROVE  IF d(j) < k + 1 THEN x[j] /\ buf[j] = sent + d(j) + 1 ELSE ~x[j]
  <2>1. CASE j = cur
    <3>1. d(j) = k /\ k < k + 1 /\ done + 1 = sent + k + 1
      BY <1>1, <1>5, <2>1
    <3> QED BY <1>3, <1>4, <2>1, <3>1
  <2>2. CASE j # cur
    <3>1. d(j) < k + 1 <=> d(j) < k
      <4>1. d(j) \in Nat /\ k \in Nat /\ d(j) # k
        BY <1>1, <2>2
      <4> QED BY <4>1
    <3> QED BY <1>2, <1>4, <2>2, <3>1
  <2> QED BY <2>1, <2>2
<1>7. /\ done + 1 \in Nat /\ (done + 1) - sent = k + 1 /\ sent <= done + 1 /\ done + 1 <= sent + TxSlots
  BY <1>1, <1>5
<1>8. SlotsHold(x, buf, at, Lap(TxSlots, cur + 1), sent, done + 1, "idle")
  BY <1>1, <1>5, <1>6, <1>7 DEF SlotsHold, d
<1> QED BY <1>8 DEF x
------------------------------------------------------------------------------
(* The driver's state, and the invariant.  Words o and w are where the driver  *)
(* and the adapter are; what the buffer holds between them is known until the  *)
(* handler starts again after an overflow.  h is how far the thread that holds *)
(* TxLock has come.                                                            *)
Statuses == SUBSET {"ok", "overflow", "sent"}
Chips2 == [cbr : 0..(RxBufLen - 1), read : 0..(RxBufLen - 1), isr : Statuses]
Takers == [offset : 0..(RxBufLen - 1), stored : 0..MaxFrames, taken : Seq(SUBSET Nat), reset : BOOLEAN]
Handlers2 == [pc : {"idle", "ack", "look", "errors"}, status : Statuses]
Queues2 == [own : [Slots2 -> BOOLEAN], buf : [Slots2 -> 0..MaxFrames], cur : Slots2, at : Slots2,
            queued : 0..MaxFrames, lock : BOOLEAN, sent : Seq(Nat)]
Stages2 == {"idle", "wait", "start"}
RtlTypes ==
  /\ attach2 \in {"reset", "listed", "enabled", "counted", "failed"} /\ irq2 \in BOOLEAN
  /\ chip2 \in Chips2 /\ mem \in Cells /\ rx2 \in Takers /\ isr2 \in Handlers2
  /\ tx2 \in Queues2 /\ send2 \in [Sender -> Stages2]

Whole(q) == \A i \in 1..Len(q) : q[i] = {i}
RingInv(cbr, read, m, r) ==
  /\ Whole(r.taken)
  /\ \E w \in R!Unit, o \in R!Unit :
       /\ cbr = 4 * w /\ r.offset = 4 * o
       /\ ~r.reset => read = r.offset /\ FramesLie(m, o, w, Len(r.taken), r.stored)
Rx2Inv == RingInv(chip2.cbr, chip2.read, mem, rx2)

Holds2(all, lock, h) ==
  /\ h \in Stages2 /\ lock = (h # "idle")
  /\ IF h = "idle" THEN \A s \in Sender : all[s] = "idle"
     ELSE \E s \in Sender : all[s] = h /\ \A t \in Sender \ {s} : all[t] = "idle"
Begun(queued, h) == IF h = "start" THEN queued - 1 ELSE queued
QueueInv(q, all) ==
  /\ \A i \in 1..Len(q.sent) : q.sent[i] = i
  /\ \E h \in Stages2 : /\ Holds2(all, q.lock, h) /\ (h = "wait" => q.queued < MaxFrames)
                        /\ SlotsHold(q.own, q.buf, q.at, q.cur, Len(q.sent), Begun(q.queued, h), h)
Tx2Inv == QueueInv(tx2, send2)

RtlInv == RtlTypes /\ Rx2Inv /\ Tx2Inv

LEMMA RtlInitInv ==
  ASSUME R!RtlAssumption, R!RtlStart
  PROVE  RtlInv
<1>1. /\ Units \in Nat \ {0} /\ RxBufLen = 4 * Units /\ R!Unit = 0..(Units - 1)
      /\ TxSlots \in Nat \ {0} /\ R!Slot = 0..(TxSlots - 1) /\ MaxFrames \in Nat
  BY UnitsIs
<1>2. /\ attach2 = "reset" /\ irq2 = FALSE
      /\ chip2 = [cbr |-> 0, read |-> 0, isr |-> {}]
      /\ mem = [u \in R!Unit |-> R!Nothing] /\ rx2 = [offset |-> 0, stored |-> 0, taken |-> <<>>, reset |-> FALSE]
      /\ isr2 = [pc |-> "idle", status |-> {}]
      /\ tx2 = [own |-> [i \in Slots2 |-> FALSE], buf |-> [i \in Slots2 |-> 0], cur |-> 0, at |-> 0,
                queued |-> 0, lock |-> FALSE, sent |-> <<>>]
      /\ send2 = [s \in Sender |-> "idle"]
  BY <1>1 DEF R!RtlStart, R!Quiet, Slots2
<1>3. 0 \in 0..(RxBufLen - 1) /\ 0 \in Slots2 /\ 0 \in 0..MaxFrames /\ 0 \in R!Unit
  BY <1>1 DEF Slots2
<1>4. RtlTypes
  <2>1. mem \in Cells
    BY <1>1, <1>2 DEF Cells, R!Nothing
  <2>2. chip2 \in Chips2 /\ isr2 \in Handlers2
    BY <1>2, <1>3 DEF Chips2, Handlers2, Statuses
  <2>3. rx2 \in Takers
    BY <1>2, <1>3 DEF Takers
  <2>4. tx2 \in Queues2
    BY <1>2, <1>3 DEF Queues2
  <2> QED BY <1>2, <2>1, <2>2, <2>3, <2>4 DEF RtlTypes, Stages2
<1>5. Rx2Inv
  <2>1. FramesLie(mem, 0, 0, 0, 0)
    <3>1. \A u \in R!Unit : ~(Ahead(Units, 0, u) < Ahead(Units, 0, 0))
      BY <1>1 DEF Ahead
    <3> QED BY <3>1 DEF FramesLie
  <2>2. rx2.taken = <<>> /\ rx2.offset = 4 * 0 /\ chip2.cbr = 4 * 0 /\ chip2.read = 4 * 0 /\ rx2.stored = 0 /\ Len(rx2.taken) = 0
    BY <1>2
  <2>3. Whole(rx2.taken)
    BY <2>2 DEF Whole
  <2> QED BY <1>3, <2>1, <2>2, <2>3 DEF Rx2Inv, RingInv
<1>6. Tx2Inv
  <2>1. Holds2(send2, tx2.lock, "idle") /\ Begun(tx2.queued, "idle") = 0
    BY <1>2 DEF Holds2, Begun, Stages2
  <2>2. SlotsHold(tx2.own, tx2.buf, 0, 0, 0, 0, "idle")
    <3>1. \A j \in Slots2 : Ahead(TxSlots, 0, j) \in Nat /\ ~tx2.own[j]
      BY <1>1, <1>2 DEF Ahead, Slots2
    <3>2. Lap(TxSlots, 0 + (0 - 0)) = 0
      BY <1>1 DEF Lap
    <3> QED BY <1>1, <3>1, <3>2 DEF SlotsHold
  <2>3. tx2.sent = <<>> /\ Len(tx2.sent) = 0 /\ tx2.at = 0 /\ tx2.cur = 0
    BY <1>2
  <2>4. SlotsHold(tx2.own, tx2.buf, tx2.at, tx2.cur, Len(tx2.sent), Begun(tx2.queued, "idle"), "idle")
    BY <2>1, <2>2, <2>3
  <2> QED BY <2>1, <2>3, <2>4 DEF Tx2Inv, QueueInv, Stages2
<1> QED BY <1>4, <1>5, <1>6 DEF RtlInv

(* Neither part's invariant speaks of the causes of an interrupt.              *)
LEMMA CausesOnly ==
  ASSUME RtlInv, chip2' \in Chips2, chip2'.cbr = chip2.cbr, chip2'.read = chip2.read,
         irq2' \in BOOLEAN, isr2' \in Handlers2,
         attach2' \in {"reset", "listed", "enabled", "counted", "failed"}, UNCHANGED <<mem, rx2, tx2, send2>>
  PROVE  RtlInv'
<1>1. RtlTypes /\ Rx2Inv /\ Tx2Inv
  BY DEF RtlInv
<1>2. RtlTypes'
  BY <1>1 DEF RtlTypes
<1>3. Rx2Inv' /\ Tx2Inv'
  BY <1>1 DEF Rx2Inv, Tx2Inv
<1> QED BY <1>2, <1>3 DEF RtlInv

LEMMA QuietSteps ==
  ASSUME R!RtlAssumption, RtlInv, R!Attach \/ R!Rtl8139Isr \/ R!Acknowledge
  PROVE  RtlInv'
<1>1. RtlTypes
  BY DEF RtlInv
<1>2. chip2 \in Chips2 /\ irq2 \in BOOLEAN /\ isr2 \in Handlers2
      /\ attach2 \in {"reset", "listed", "enabled", "counted", "failed"}
  BY <1>1 DEF RtlTypes
<1>3. CASE R!Attach
  <2>1. /\ attach2' \in {"reset", "listed", "enabled", "counted", "failed"}
        /\ UNCHANGED <<irq2, mem, rx2, isr2, tx2, send2>>
        /\ chip2' = chip2 \/ chip2' = [chip2 EXCEPT !.isr = {}]
    BY <1>3 DEF R!Attach, R!ProgramBuffers, R!EnableInterrupts, R!Count
  <2>2. chip2' \in Chips2 /\ chip2'.cbr = chip2.cbr /\ chip2'.read = chip2.read
    BY <1>2, <2>1 DEF Chips2, Statuses
  <2> QED BY <1>2, <2>1, <2>2, CausesOnly
<1>4. CASE R!Rtl8139Isr
  <2>1. irq2' = FALSE /\ UNCHANGED <<attach2, chip2, mem, rx2, tx2, send2>>
        /\ (isr2' = isr2 \/ isr2' = [pc |-> "ack", status |-> chip2.isr])
    BY <1>4 DEF R!Rtl8139Isr
  <2>2. isr2' \in Handlers2
    BY <1>2, <2>1 DEF Chips2, Handlers2
  <2> QED BY <1>2, <2>1, <2>2, CausesOnly
<1>5. CASE R!Acknowledge
  <2>1. /\ UNCHANGED <<attach2, irq2, mem, rx2, tx2, send2>>
        /\ chip2' = [chip2 EXCEPT !.isr = @ \ isr2.status]
        /\ isr2' = [isr2 EXCEPT !.pc = IF "ok" \in isr2.status THEN "look" ELSE "errors"]
    BY <1>5 DEF R!Acknowledge
  <2>2. chip2' \in Chips2 /\ chip2'.cbr = chip2.cbr /\ chip2'.read = chip2.read
    BY <1>2, <2>1 DEF Chips2, Statuses
  <2>3. isr2' \in Handlers2
    BY <1>2, <2>1 DEF Handlers2
  <2> QED BY <1>2, <2>1, <2>2, <2>3, CausesOnly
<1> QED BY <1>3, <1>4, <1>5

(* A step that receives: what it must leave.                                   *)
LEMMA ReceivingStep ==
  ASSUME RtlInv, chip2' \in Chips2, irq2' \in BOOLEAN, mem' \in Cells, rx2' \in Takers,
         isr2' \in Handlers2, UNCHANGED <<attach2, tx2, send2>>, RingInv(chip2'.cbr, chip2'.read, mem', rx2')
  PROVE  RtlInv'
<1>1. RtlTypes /\ Tx2Inv
  BY DEF RtlInv
<1>2. RtlTypes'
  BY <1>1 DEF RtlTypes
<1>3. Rx2Inv' /\ Tx2Inv'
  BY <1>1 DEF Rx2Inv, Tx2Inv
<1> QED BY <1>2, <1>3 DEF RtlInv

LEMMA StoreStep2 ==
  ASSUME R!RtlAssumption, RtlInv, R!StoreFrame
  PROVE  RtlInv'
<1>1. RtlTypes /\ Rx2Inv
  BY DEF RtlInv
<1>2. /\ chip2 \in Chips2 /\ irq2 \in BOOLEAN /\ mem \in Cells /\ rx2 \in Takers /\ isr2 \in Handlers2
      /\ Units \in Nat \ {0} /\ RxBufLen = 4 * Units /\ R!Unit = 0..(Units - 1)
      /\ MaxFrames \in Nat
  BY <1>1, UnitsIs DEF RtlTypes
<1>3. UNCHANGED <<attach2, isr2, tx2, send2>> /\ rx2.stored < MaxFrames
  BY DEF R!StoreFrame
<1>4. PICK n \in Lengths :
        IF R!Room # 0 /\ R!Size(n) >= R!Room
        THEN /\ chip2' = [chip2 EXCEPT !.isr = @ \cup {"overflow"}]
             /\ R!Raised({"overflow"}) /\ UNCHANGED <<mem, rx2>>
        ELSE /\ chip2' = [chip2 EXCEPT !.isr = @ \cup {"ok"}, !.cbr = R!Advance(@, n)]
             /\ mem' = Written(mem, chip2.cbr \div 4, rx2.stored + 1, n)
             /\ rx2' = [rx2 EXCEPT !.stored = @ + 1]
             /\ R!Raised({"ok"})
  BY DEF R!StoreFrame, Written, Units
<1>5. irq2' \in BOOLEAN
  BY <1>2, <1>4 DEF R!Raised
<1>6. CASE R!Room # 0 /\ R!Size(n) >= R!Room
  <2>1. chip2' = [chip2 EXCEPT !.isr = @ \cup {"overflow"}] /\ UNCHANGED <<mem, rx2>>
    BY <1>4, <1>6
  <2>2. chip2' \in Chips2 /\ chip2'.cbr = chip2.cbr /\ chip2'.read = chip2.read
    BY <1>2, <2>1 DEF Chips2, Statuses
  <2>3. attach2' \in {"reset", "listed", "enabled", "counted", "failed"} /\ isr2' \in Handlers2
    BY <1>1, <1>3 DEF RtlTypes
  <2> QED BY <1>3, <1>5, <2>1, <2>2, <2>3, CausesOnly
<1>7. CASE ~(R!Room # 0 /\ R!Size(n) >= R!Room)
  <2>1. /\ chip2' = [chip2 EXCEPT !.isr = @ \cup {"ok"}, !.cbr = R!Advance(@, n)]
        /\ mem' = Written(mem, chip2.cbr \div 4, rx2.stored + 1, n)
        /\ rx2' = [rx2 EXCEPT !.stored = @ + 1]
    BY <1>4, <1>7
  <2>2. PICK w \in R!Unit, o \in R!Unit :
          /\ chip2.cbr = 4 * w /\ rx2.offset = 4 * o
          /\ ~rx2.reset => chip2.read = rx2.offset /\ FramesLie(mem, o, w, Len(rx2.taken), rx2.stored)
    BY <1>1 DEF Rx2Inv, RingInv
  <2> DEFINE y == Lap(Units, w + Words(n))
  <2>3. R!Advance(chip2.cbr, n) = 4 * y /\ y \in R!Unit
    BY <2>2, AdvanceIs
  <2>4. chip2.cbr \div 4 = w
    BY <1>2, <2>2
  <2>5. Words(n) \in 3..(Units - 1) /\ R!Size(n) = 4 * Words(n)
    BY WordsIs
  <2> HIDE DEF y
  <2>6. /\ rx2' \in Takers /\ rx2'.offset = rx2.offset /\ rx2'.taken = rx2.taken
        /\ rx2'.reset = rx2.reset /\ rx2'.stored = rx2.stored + 1
    BY <1>2, <1>3, <2>1 DEF Takers
  <2>7. chip2' \in Chips2 /\ chip2'.cbr = 4 * y /\ chip2'.read = chip2.read
    <3>1. 4 * y \in 0..(RxBufLen - 1)
      BY <1>2, <2>3
    <3> QED BY <1>2, <2>1, <2>3, <3>1 DEF Chips2, Statuses
  <2>8. mem' \in Cells
    <3>1. \A u \in R!Unit : mem[u] \in [kind : {"none", "head", "data"}, frame : 0..MaxFrames, length : Lengths \cup {0}]
      BY <1>2 DEF Cells
    <3>2. rx2.stored + 1 \in 0..MaxFrames
      BY <1>2, <1>3 DEF Takers
    <3> QED BY <2>1, <3>1, <3>2 DEF Cells, Written
  <2>9. ASSUME ~rx2.reset PROVE FramesLie(mem', o, y, Len(rx2.taken), rx2.stored + 1)
    <3>1. Ahead(Units, o, w) + Words(n) < Units
      <4>1. R!Room = (4 * o + RxBufLen - 4 * w) % RxBufLen
        BY <2>2, <2>9 DEF R!Room
      <4>2. CASE o = w
        BY <1>2, <2>5, <4>2 DEF Ahead
      <4>3. CASE o # w
        <5> DEFINE a == 4 * o + RxBufLen - 4 * w
        <5>1. a \in 0..(2 * RxBufLen - 1) /\ RxBufLen \in Nat \ {0}
          BY <1>2
        <5>2. Lap(RxBufLen, a) = 4 * (Units - Ahead(Units, o, w)) /\ Ahead(Units, o, w) \in 1..(Units - 1)
          BY <1>2, <4>3 DEF Lap, Ahead
        <5> HIDE DEF a
        <5>3. a % RxBufLen = Lap(RxBufLen, a)
          BY <5>1, Turn
        <5>4. R!Room = 4 * (Units - Ahead(Units, o, w))
          BY <4>1, <5>2, <5>3 DEF a
        <5>5. 4 * Words(n) < 4 * (Units - Ahead(Units, o, w))
          BY <1>2, <1>7, <2>5, <5>2, <5>4
        <5> QED BY <1>2, <2>5, <5>2, <5>5
      <4> QED BY <4>2, <4>3
    <3>2. FramesLie(mem, o, w, Len(rx2.taken), rx2.stored)
      BY <2>2, <2>9
    <3>3. FramesLie(Written(mem, w, rx2.stored + 1, n), o, y, Len(rx2.taken), rx2.stored + 1)
      BY <1>2, <1>3, <3>1, <3>2, RingStored DEF y
    <3> QED BY <2>1, <2>4, <3>3
  <2>10. RingInv(chip2'.cbr, chip2'.read, mem', rx2')
    <3>1. Whole(rx2'.taken)
      BY <1>1, <2>6 DEF Rx2Inv, RingInv
    <3>2. ~rx2'.reset => chip2'.read = rx2'.offset /\ FramesLie(mem', o, y, Len(rx2'.taken), rx2'.stored)
      BY <2>2, <2>6, <2>7, <2>9
    <3>3. chip2'.cbr = 4 * y /\ rx2'.offset = 4 * o /\ y \in R!Unit
      BY <2>2, <2>3, <2>6, <2>7
    <3> QED BY <3>1, <3>2, <3>3 DEF RingInv
  <2> QED BY <1>2, <1>3, <1>5, <2>6, <2>7, <2>8, <2>10, ReceivingStep
<1> QED BY <1>6, <1>7

LEMMA ErrorsStep ==
  ASSUME R!RtlAssumption, RtlInv, R!Errors
  PROVE  RtlInv'
<1>1. RtlTypes /\ Rx2Inv
  BY DEF RtlInv
<1>2. /\ chip2 \in Chips2 /\ irq2 \in BOOLEAN /\ mem \in Cells /\ rx2 \in Takers /\ isr2 \in Handlers2
      /\ Units \in Nat \ {0} /\ RxBufLen = 4 * Units /\ R!Unit = 0..(Units - 1)
      /\ Bias \in 0..(RxBufLen - 1)
  BY <1>1, UnitsIs DEF RtlTypes
<1>3. /\ UNCHANGED <<attach2, irq2, mem, tx2, send2>> /\ isr2' = [pc |-> "idle", status |-> {}]
      /\ \/ rx2' = [rx2 EXCEPT !.offset = 0, !.reset = TRUE] /\ chip2' = [chip2 EXCEPT !.read = Bias]
         \/ UNCHANGED <<rx2, chip2>>
  BY DEF R!Errors, R!Quiet
<1>4. isr2' \in Handlers2
  BY <1>3 DEF Handlers2, Statuses
<1>5. CASE rx2' = [rx2 EXCEPT !.offset = 0, !.reset = TRUE] /\ chip2' = [chip2 EXCEPT !.read = Bias]
  <2>0. 0 \in 0..(RxBufLen - 1) /\ rx2 \in Takers
    BY <1>2
  <2>1. rx2' \in Takers /\ rx2'.offset = 0 /\ rx2'.reset = TRUE /\ rx2'.taken = rx2.taken
    BY <1>5, <2>0 DEF Takers
  <2>2. chip2' \in Chips2 /\ chip2'.cbr = chip2.cbr
    BY <1>2, <1>5 DEF Chips2
  <2>3. 0 \in R!Unit /\ 0 = 4 * 0
    BY <1>2
  <2>4. RingInv(chip2'.cbr, chip2'.read, mem', rx2')
    BY <1>1, <2>1, <2>2, <2>3 DEF Rx2Inv, RingInv
  <2> QED BY <1>2, <1>3, <1>4, <2>1, <2>2, <2>4, ReceivingStep
<1>6. CASE UNCHANGED <<rx2, chip2>>
  <2>1. RingInv(chip2'.cbr, chip2'.read, mem', rx2')
    BY <1>1, <1>3, <1>6 DEF Rx2Inv
  <2> QED BY <1>2, <1>3, <1>4, <1>6, <2>1, ReceivingStep
<1> QED BY <1>3, <1>5, <1>6

LEMMA LookStep2 ==
  ASSUME R!RtlAssumption, RtlInv, R!Look
  PROVE  RtlInv'
<1>1. RtlTypes /\ Rx2Inv
  BY DEF RtlInv
<1>2. /\ chip2 \in Chips2 /\ irq2 \in BOOLEAN /\ mem \in Cells /\ rx2 \in Takers /\ isr2 \in Handlers2
      /\ Units \in Nat \ {0} /\ RxBufLen = 4 * Units /\ R!Unit = 0..(Units - 1)
  BY <1>1, UnitsIs DEF RtlTypes
<1>3. UNCHANGED <<attach2, irq2, mem, tx2, send2>>
  BY DEF R!Look
<1>4. PICK n \in R!Found(mem[rx2.offset \div 4]) :
        IF R!Empty \/ n = 0
        THEN isr2' = [isr2 EXCEPT !.pc = "errors"] /\ UNCHANGED <<chip2, rx2>>
        ELSE /\ rx2' = [rx2 EXCEPT !.offset = R!Advance(rx2.offset, n),
                           !.taken = IF rx2.reset THEN @
                                     ELSE Append(@, R!Read(mem[rx2.offset \div 4].frame, n - 4))]
             /\ chip2' = [chip2 EXCEPT !.read = R!Advance(rx2.offset, n)]
             /\ UNCHANGED isr2
  BY DEF R!Look
<1>5. PICK w \in R!Unit, o \in R!Unit :
        /\ chip2.cbr = 4 * w /\ rx2.offset = 4 * o
        /\ ~rx2.reset => chip2.read = rx2.offset /\ FramesLie(mem, o, w, Len(rx2.taken), rx2.stored)
  BY <1>1 DEF Rx2Inv, RingInv
<1>6. rx2.offset \div 4 = o
  BY <1>2, <1>5
<1>7. CASE R!Empty \/ n = 0
  <2>1. isr2' = [isr2 EXCEPT !.pc = "errors"] /\ UNCHANGED <<chip2, rx2>>
    BY <1>4, <1>7
  <2>2. isr2' \in Handlers2
    BY <1>2, <2>1 DEF Handlers2
  <2>3. RingInv(chip2'.cbr, chip2'.read, mem', rx2')
    BY <1>1, <1>3, <2>1 DEF Rx2Inv
  <2> QED BY <1>2, <1>3, <2>1, <2>2, <2>3, ReceivingStep
<1>8. CASE ~(R!Empty \/ n = 0)
  <2>1. /\ rx2' = [rx2 EXCEPT !.offset = R!Advance(rx2.offset, n),
                      !.taken = IF rx2.reset THEN @ ELSE Append(@, R!Read(mem[o].frame, n - 4))]
        /\ chip2' = [chip2 EXCEPT !.read = R!Advance(rx2.offset, n)]
        /\ UNCHANGED isr2
    BY <1>4, <1>6, <1>8
  <2>2. n \in Lengths
    <3>1. mem[o] \in [kind : {"none", "head", "data"}, frame : 0..MaxFrames, length : Lengths \cup {0}]
      BY <1>2 DEF Cells
    <3>2. n \in R!Found(mem[o]) /\ n # 0
      BY <1>6, <1>8
    <3> QED BY <3>1, <3>2 DEF R!Found
  <2> DEFINE p == Lap(Units, o + Words(n))
  <2>3. R!Advance(rx2.offset, n) = 4 * p /\ p \in R!Unit
    BY <1>5, <2>2, AdvanceIs
  <2> HIDE DEF p
  <2>4. 4 * p \in 0..(RxBufLen - 1)
    BY <1>2, <2>3
  <2>5. chip2' \in Chips2 /\ chip2'.cbr = 4 * w /\ chip2'.read = 4 * p
    BY <1>2, <1>5, <2>1, <2>3, <2>4 DEF Chips2
  <2>6. CASE rx2.reset
    <3>1. rx2' \in Takers /\ rx2'.offset = 4 * p /\ rx2'.taken = rx2.taken /\ rx2'.reset
      BY <1>2, <2>1, <2>3, <2>4, <2>6 DEF Takers
    <3>2. RingInv(chip2'.cbr, chip2'.read, mem', rx2')
      BY <1>1, <2>3, <2>5, <3>1 DEF Rx2Inv, RingInv
    <3> QED BY <1>2, <1>3, <2>1, <2>5, <3>1, <3>2, ReceivingStep
  <2>7. CASE ~rx2.reset
    <3> DEFINE k == Len(rx2.taken)
    <3>1. o # w /\ FramesLie(mem, o, w, k, rx2.stored)
      BY <1>5, <1>8, <2>7 DEF R!Empty
    <3>2. /\ mem[o].kind = "head" /\ mem[o].frame = k + 1 /\ mem[o].length \in Lengths
          /\ FramesLie(mem, Lap(Units, o + Words(mem[o].length)), w, k + 1, rx2.stored)
          /\ \A j \in 1..(Words(mem[o].length) - 1) : mem[Lap(Units, o + j)].frame = k + 1
      BY <1>2, <3>1, RingRead
    <3>3. n = mem[o].length
      BY <1>6, <3>2 DEF R!Found
    <3>4. R!Read(k + 1, n - 4) = {k + 1}
      BY <1>5, <2>2, <3>2, <3>3, ReadIs
    <3>5. rx2.taken \in Seq(SUBSET Nat) /\ k \in Nat /\ {k + 1} \in SUBSET Nat
      BY <1>2 DEF Takers
    <3>6. /\ rx2' = [rx2 EXCEPT !.offset = 4 * p, !.taken = Append(rx2.taken, {k + 1})]
      BY <2>1, <2>3, <2>7, <3>2, <3>4
    <3>7. /\ Append(rx2.taken, {k + 1}) \in Seq(SUBSET Nat) /\ Len(Append(rx2.taken, {k + 1})) = k + 1
          /\ \A i \in 1..(k + 1) : Append(rx2.taken, {k + 1})[i] = IF i = k + 1 THEN {k + 1} ELSE rx2.taken[i]
      BY <3>5
    <3> HIDE DEF k
    <3>8. /\ rx2' \in Takers /\ rx2'.offset = 4 * p /\ rx2'.taken = Append(rx2.taken, {k + 1})
          /\ rx2'.stored = rx2.stored /\ Len(rx2'.taken) = k + 1
      BY <1>2, <2>4, <3>6, <3>7 DEF Takers
    <3>9. Whole(rx2'.taken)
      <4>1. \A i \in 1..k : rx2.taken[i] = {i}
        BY <1>1 DEF Rx2Inv, RingInv, Whole, k
      <4>2. \A i \in 1..(k + 1) : i = k + 1 \/ i \in 1..k
        BY <3>5
      <4> QED BY <3>7, <3>8, <4>1, <4>2 DEF Whole
    <3>10. FramesLie(mem', p, w, Len(rx2'.taken), rx2'.stored)
      BY <1>3, <3>2, <3>3, <3>8 DEF p
    <3>11. RingInv(chip2'.cbr, chip2'.read, mem', rx2')
      BY <2>3, <2>5, <3>8, <3>9, <3>10 DEF RingInv
    <3> QED BY <1>2, <1>3, <2>1, <2>5, <3>8, <3>11, ReceivingStep
  <2> QED BY <2>6, <2>7
<1> QED BY <1>7, <1>8

(* A step that sends: what it must leave.                                      *)
LEMMA SendingStep ==
  ASSUME RtlInv, chip2' \in Chips2, chip2'.cbr = chip2.cbr, chip2'.read = chip2.read,
         irq2' \in BOOLEAN, tx2' \in Queues2, send2' \in [Sender -> Stages2],
         UNCHANGED <<attach2, mem, rx2, isr2>>, QueueInv(tx2', send2')
  PROVE  RtlInv'
<1>1. RtlTypes /\ Rx2Inv
  BY DEF RtlInv
<1>2. RtlTypes'
  BY <1>1 DEF RtlTypes
<1>3. Rx2Inv' /\ Tx2Inv'
  BY <1>1 DEF Rx2Inv, Tx2Inv
<1> QED BY <1>2, <1>3 DEF RtlInv

LEMMA SendStep2 ==
  ASSUME R!RtlAssumption, RtlInv, R!SendFrame
  PROVE  RtlInv'
<1>1. RtlTypes /\ Tx2Inv
  BY DEF RtlInv
<1>2. /\ chip2 \in Chips2 /\ irq2 \in BOOLEAN /\ tx2 \in Queues2 /\ send2 \in [Sender -> Stages2]
      /\ TxSlots \in Nat \ {0} /\ MaxFrames \in Nat
  BY <1>1, UnitsIs DEF RtlTypes
<1>3. /\ tx2.own[tx2.at] /\ UNCHANGED <<attach2, mem, rx2, isr2, send2>>
      /\ chip2' = [chip2 EXCEPT !.isr = @ \cup {"sent"}] /\ R!Raised({"sent"})
      /\ tx2' = [tx2 EXCEPT !.own[tx2.at] = FALSE, !.at = (@ + 1) % TxSlots,
                            !.sent = Append(@, tx2.buf[tx2.at])]
  BY DEF R!SendFrame
<1>4. chip2' \in Chips2 /\ chip2'.cbr = chip2.cbr /\ chip2'.read = chip2.read /\ irq2' \in BOOLEAN
  BY <1>2, <1>3 DEF Chips2, Statuses, R!Raised
<1>5. /\ tx2.own \in [Slots2 -> BOOLEAN] /\ tx2.buf \in [Slots2 -> 0..MaxFrames] /\ tx2.at \in Slots2
      /\ tx2.queued \in 0..MaxFrames /\ tx2.sent \in Seq(Nat)
  BY <1>2 DEF Queues2
<1>6. PICK h \in Stages2 :
        /\ Holds2(send2, tx2.lock, h) /\ (h = "wait" => tx2.queued < MaxFrames)
        /\ SlotsHold(tx2.own, tx2.buf, tx2.at, tx2.cur, Len(tx2.sent), Begun(tx2.queued, h), h)
  BY <1>1 DEF Tx2Inv, QueueInv
<1> DEFINE m == Lap(TxSlots, tx2.at + 1)
           own == [tx2.own EXCEPT ![tx2.at] = FALSE]
           n == Len(tx2.sent)
           done == Begun(tx2.queued, h)
<1>7. (tx2.at + 1) % TxSlots = m /\ m \in Slots2
  BY <1>2, <1>5, NextSlot DEF Slots2
<1>8. own \in [Slots2 -> BOOLEAN] /\ n \in Nat
  BY <1>5
<1> HIDE DEF done, m
<1>9. tx2.buf[tx2.at] = n + 1 /\ SlotsHold(own, tx2.buf, m, tx2.cur, n + 1, done, h)
  <2>1. SlotsHold(tx2.own, tx2.buf, tx2.at, tx2.cur, n, done, h)
    BY <1>6 DEF done
  <2> HIDE DEF n, own
  <2> QED BY <1>3, <1>5, <2>1, SlotSent DEF m, own
<1>10. /\ Append(tx2.sent, n + 1) \in Seq(Nat) /\ Len(Append(tx2.sent, n + 1)) = n + 1
       /\ \A i \in 1..(n + 1) : Append(tx2.sent, n + 1)[i] = i
  <2>1. \A i \in 1..n : tx2.sent[i] = i
    BY <1>1 DEF Tx2Inv, QueueInv
  <2> QED BY <1>5, <2>1
<1> HIDE DEF own, n
<1>11. tx2' = [tx2 EXCEPT !.own = own, !.at = m, !.sent = Append(tx2.sent, n + 1)]
  BY <1>2, <1>3, <1>7, <1>9 DEF own, Queues2
<1>12. /\ tx2' \in Queues2 /\ tx2'.own = own /\ tx2'.at = m /\ tx2'.sent = Append(tx2.sent, n + 1)
       /\ tx2'.buf = tx2.buf /\ tx2'.cur = tx2.cur /\ tx2'.queued = tx2.queued /\ tx2'.lock = tx2.lock
  BY <1>2, <1>7, <1>8, <1>10, <1>11 DEF Queues2
<1>13. QueueInv(tx2', send2')
  <2>1. SlotsHold(tx2'.own, tx2'.buf, tx2'.at, tx2'.cur, Len(tx2'.sent), Begun(tx2'.queued, h), h)
    BY <1>9, <1>10, <1>12 DEF done
  <2>2. \A i \in 1..Len(tx2'.sent) : tx2'.sent[i] = i
    BY <1>10, <1>12
  <2>3. Holds2(send2', tx2'.lock, h) /\ (h = "wait" => tx2'.queued < MaxFrames)
    BY <1>3, <1>6, <1>12
  <2> QED BY <2>1, <2>2, <2>3 DEF QueueInv
<1> QED BY <1>2, <1>3, <1>4, <1>12, <1>13, SendingStep

LEMMA Holder2 ==
  ASSUME NEW s \in Sender, send2[s] # "idle" \/ ~tx2.lock, NEW h, Holds2(send2, tx2.lock, h)
  PROVE  h = send2[s] /\ \A t \in Sender \ {s} : send2[t] = "idle"
<1>1. CASE h = "idle"
  BY <1>1 DEF Holds2
<1>2. CASE h # "idle"
  <2>1. tx2.lock = TRUE /\ send2[s] # "idle"
    BY <1>2 DEF Holds2
  <2>2. PICK u \in Sender : send2[u] = h /\ \A t \in Sender \ {u} : send2[t] = "idle"
    BY <1>2 DEF Holds2
  <2>3. s = u
    BY <2>1, <2>2
  <2> QED BY <2>2, <2>3
<1> QED BY <1>1, <1>2

(* A step of thread s, from stage h to stage g.                                *)
LEMMA StageStep ==
  ASSUME RtlInv, NEW s \in Sender, send2[s] # "idle" \/ ~tx2.lock, NEW g \in Stages2,
         send2' = [send2 EXCEPT ![s] = g], tx2' \in Queues2, tx2'.lock = (g # "idle"),
         tx2'.sent = tx2.sent, g = "wait" => tx2'.queued < MaxFrames,
         UNCHANGED <<attach2, chip2, irq2, mem, rx2, isr2>>,
         SlotsHold(tx2.own, tx2.buf, tx2.at, tx2.cur, Len(tx2.sent), Begun(tx2.queued, send2[s]), send2[s])
           => SlotsHold(tx2'.own, tx2'.buf, tx2'.at, tx2'.cur, Len(tx2.sent), Begun(tx2'.queued, g), g)
  PROVE  RtlInv'
<1>1. RtlTypes /\ Tx2Inv
  BY DEF RtlInv
<1>2. chip2 \in Chips2 /\ irq2 \in BOOLEAN /\ send2 \in [Sender -> Stages2]
  BY <1>1 DEF RtlTypes
<1>3. PICK h \in Stages2 :
        /\ Holds2(send2, tx2.lock, h)
        /\ SlotsHold(tx2.own, tx2.buf, tx2.at, tx2.cur, Len(tx2.sent), Begun(tx2.queued, h), h)
  BY <1>1 DEF Tx2Inv, QueueInv
<1>4. h = send2[s] /\ \A t \in Sender \ {s} : send2[t] = "idle"
  BY <1>3, Holder2
<1>5. send2' \in [Sender -> Stages2] /\ send2'[s] = g /\ \A t \in Sender \ {s} : send2'[t] = "idle"
  BY <1>2, <1>4
<1>6. Holds2(send2', tx2'.lock, g)
  <2>1. CASE g = "idle"
    BY <1>5, <2>1 DEF Holds2
  <2>2. CASE g # "idle"
    BY <1>5, <2>2 DEF Holds2
  <2> QED BY <2>1, <2>2
<1>7. SlotsHold(tx2'.own, tx2'.buf, tx2'.at, tx2'.cur, Len(tx2'.sent), Begun(tx2'.queued, g), g)
  BY <1>3, <1>4
<1>8. \A i \in 1..Len(tx2'.sent) : tx2'.sent[i] = i
  BY <1>1 DEF Tx2Inv, QueueInv
<1>9. QueueInv(tx2', send2')
  BY <1>6, <1>7, <1>8 DEF QueueInv
<1> QED BY <1>2, <1>5, <1>9, SendingStep

LEMMA ThreadStep ==
  ASSUME R!RtlAssumption, RtlInv, NEW s \in Sender, R!Lock(s) \/ R!Copy(s) \/ R!GiveUp(s) \/ R!Start(s)
  PROVE  RtlInv'
<1>1. RtlTypes /\ Tx2Inv
  BY DEF RtlInv
<1>2. /\ tx2 \in Queues2 /\ tx2.own \in [Slots2 -> BOOLEAN] /\ tx2.buf \in [Slots2 -> 0..MaxFrames]
      /\ tx2.at \in Slots2 /\ tx2.cur \in Slots2 /\ tx2.queued \in 0..MaxFrames /\ tx2.sent \in Seq(Nat)
      /\ TxSlots \in Nat \ {0} /\ MaxFrames \in Nat
  BY <1>1, UnitsIs DEF RtlTypes, Queues2
<1>3. UNCHANGED <<attach2, chip2, irq2, mem, rx2, isr2>>
  BY DEF R!Lock, R!Copy, R!GiveUp, R!Start
<1>4. "idle" \in Stages2 /\ "wait" \in Stages2 /\ "start" \in Stages2
  BY DEF Stages2
<1>5. CASE R!Lock(s)
  <2>1. /\ send2[s] = "idle" /\ ~tx2.lock /\ tx2.queued < MaxFrames
        /\ send2' = [send2 EXCEPT ![s] = "wait"] /\ tx2' = [tx2 EXCEPT !.lock = TRUE]
    BY <1>5 DEF R!Lock
  <2>2. /\ tx2' \in Queues2 /\ tx2'.lock = TRUE /\ tx2'.own = tx2.own /\ tx2'.buf = tx2.buf
        /\ tx2'.at = tx2.at /\ tx2'.cur = tx2.cur /\ tx2'.queued = tx2.queued /\ tx2'.sent = tx2.sent
    BY <1>2, <2>1 DEF Queues2
  <2>3. Begun(tx2.queued, send2[s]) = tx2.queued /\ Begun(tx2'.queued, "wait") = tx2.queued
    BY <2>1, <2>2 DEF Begun
  <2>4. SlotsHold(tx2.own, tx2.buf, tx2.at, tx2.cur, Len(tx2.sent), tx2.queued, "idle")
          => SlotsHold(tx2.own, tx2.buf, tx2.at, tx2.cur, Len(tx2.sent), tx2.queued, "wait")
    BY DEF SlotsHold
  <2>5. SlotsHold(tx2.own, tx2.buf, tx2.at, tx2.cur, Len(tx2.sent), Begun(tx2.queued, send2[s]), send2[s])
          => SlotsHold(tx2'.own, tx2'.buf, tx2'.at, tx2'.cur, Len(tx2.sent), Begun(tx2'.queued, "wait"), "wait")
    BY <2>1, <2>2, <2>3, <2>4
  <2> QED BY <1>3, <1>4, <2>1, <2>2, <2>5, StageStep
<1>6. CASE R!Copy(s)
  <2>1. /\ send2[s] = "wait" /\ ~tx2.own[tx2.cur] /\ send2' = [send2 EXCEPT ![s] = "start"]
        /\ tx2' = [tx2 EXCEPT !.queued = @ + 1, !.buf[tx2.cur] = tx2.queued + 1]
    BY <1>6 DEF R!Copy, R!Free
  <2> DEFINE buf == [tx2.buf EXCEPT ![tx2.cur] = tx2.queued + 1]
  <2>2. tx2.queued < MaxFrames /\ tx2.lock = TRUE
    <3>1. PICK h \in Stages2 : Holds2(send2, tx2.lock, h) /\ (h = "wait" => tx2.queued < MaxFrames)
      BY <1>1 DEF Tx2Inv, QueueInv
    <3>2. h = send2[s]
      BY <2>1, <3>1, Holder2
    <3> QED BY <2>1, <3>1, <3>2 DEF Holds2
  <2>3. tx2.queued + 1 \in 0..MaxFrames /\ (tx2.queued + 1) - 1 = tx2.queued
    BY <1>2, <2>2
  <2>4. buf \in [Slots2 -> 0..MaxFrames]
    BY <1>2, <2>3
  <2>5. tx2' = [tx2 EXCEPT !.queued = tx2.queued + 1, !.buf = buf]
    BY <1>2, <2>1 DEF Queues2
  <2>6. SlotsHold(tx2.own, tx2.buf, tx2.at, tx2.cur, Len(tx2.sent), tx2.queued, "wait")
          => SlotsHold(tx2.own, buf, tx2.at, tx2.cur, Len(tx2.sent), tx2.queued, "start")
    BY <1>2, <2>1, SlotFilled
  <2> HIDE DEF buf
  <2>7. /\ tx2' \in Queues2 /\ tx2'.lock = tx2.lock /\ tx2'.own = tx2.own /\ tx2'.buf = buf
        /\ tx2'.at = tx2.at /\ tx2'.cur = tx2.cur /\ tx2'.queued = tx2.queued + 1 /\ tx2'.sent = tx2.sent
    BY <1>2, <2>3, <2>4, <2>5 DEF Queues2
  <2>8. Begun(tx2.queued, send2[s]) = tx2.queued /\ Begun(tx2'.queued, "start") = tx2.queued
    BY <2>1, <2>3, <2>7 DEF Begun
  <2>9. SlotsHold(tx2.own, tx2.buf, tx2.at, tx2.cur, Len(tx2.sent), Begun(tx2.queued, send2[s]), send2[s])
          => SlotsHold(tx2'.own, tx2'.buf, tx2'.at, tx2'.cur, Len(tx2.sent), Begun(tx2'.queued, "start"), "start")
    BY <2>1, <2>6, <2>7, <2>8
  <2> QED BY <1>3, <1>4, <2>1, <2>2, <2>7, <2>9, StageStep
<1>7. CASE R!GiveUp(s)
  <2>1. /\ send2[s] = "wait" /\ send2' = [send2 EXCEPT ![s] = "idle"] /\ tx2' = [tx2 EXCEPT !.lock = FALSE]
    BY <1>7 DEF R!GiveUp
  <2>2. /\ tx2' \in Queues2 /\ tx2'.lock = FALSE /\ tx2'.own = tx2.own /\ tx2'.buf = tx2.buf
        /\ tx2'.at = tx2.at /\ tx2'.cur = tx2.cur /\ tx2'.queued = tx2.queued /\ tx2'.sent = tx2.sent
    BY <1>2, <2>1 DEF Queues2
  <2>3. Begun(tx2.queued, send2[s]) = tx2.queued /\ Begun(tx2'.queued, "idle") = tx2.queued
    BY <2>1, <2>2 DEF Begun
  <2>4. SlotsHold(tx2.own, tx2.buf, tx2.at, tx2.cur, Len(tx2.sent), tx2.queued, "wait")
          => SlotsHold(tx2.own, tx2.buf, tx2.at, tx2.cur, Len(tx2.sent), tx2.queued, "idle")
    BY DEF SlotsHold
  <2>5. SlotsHold(tx2.own, tx2.buf, tx2.at, tx2.cur, Len(tx2.sent), Begun(tx2.queued, send2[s]), send2[s])
          => SlotsHold(tx2'.own, tx2'.buf, tx2'.at, tx2'.cur, Len(tx2.sent), Begun(tx2'.queued, "idle"), "idle")
    BY <2>1, <2>2, <2>3, <2>4
  <2>6. /\ tx2'.lock = ("idle" # "idle") /\ ("idle" = "wait" => tx2'.queued < MaxFrames)
        /\ tx2'.sent = tx2.sent /\ (send2[s] # "idle" \/ ~tx2.lock) /\ tx2' \in Queues2
    BY <2>1, <2>2
  <2> QED BY <1>3, <1>4, <2>1, <2>5, <2>6, StageStep
<1>8. CASE R!Start(s)
  <2>1. /\ send2[s] = "start" /\ send2' = [send2 EXCEPT ![s] = "idle"]
        /\ tx2' = [tx2 EXCEPT !.own[tx2.cur] = TRUE, !.cur = (@ + 1) % TxSlots, !.lock = FALSE]
    BY <1>8 DEF R!Start
  <2> DEFINE own == [tx2.own EXCEPT ![tx2.cur] = TRUE]
             m == Lap(TxSlots, tx2.cur + 1)
  <2>2. (tx2.cur + 1) % TxSlots = m /\ m \in Slots2
    BY <1>2, NextSlot DEF Slots2
  <2>3. own \in [Slots2 -> BOOLEAN]
    BY <1>2
  <2>4. tx2' = [tx2 EXCEPT !.own = own, !.cur = m, !.lock = FALSE]
    BY <1>2, <2>1, <2>2 DEF Queues2
  <2>5. ASSUME SlotsHold(tx2.own, tx2.buf, tx2.at, tx2.cur, Len(tx2.sent), tx2.queued - 1, "start")
        PROVE  SlotsHold(own, tx2.buf, tx2.at, m, Len(tx2.sent), tx2.queued, "idle")
    <3>1. (tx2.queued - 1) + 1 = tx2.queued
      BY <1>2
    <3>2. SlotsHold(own, tx2.buf, tx2.at, m, Len(tx2.sent), (tx2.queued - 1) + 1, "idle")
      BY <1>2, <2>5, SlotStarted
    <3> QED BY <3>1, <3>2
  <2> HIDE DEF own, m
  <2>6. /\ tx2' \in Queues2 /\ tx2'.lock = FALSE /\ tx2'.own = own /\ tx2'.buf = tx2.buf
        /\ tx2'.at = tx2.at /\ tx2'.cur = m /\ tx2'.queued = tx2.queued /\ tx2'.sent = tx2.sent
    BY <1>2, <2>2, <2>3, <2>4 DEF Queues2
  <2>7. Begun(tx2.queued, send2[s]) = tx2.queued - 1 /\ Begun(tx2'.queued, "idle") = tx2.queued
    BY <2>1, <2>6 DEF Begun
  <2>8. SlotsHold(tx2.own, tx2.buf, tx2.at, tx2.cur, Len(tx2.sent), Begun(tx2.queued, send2[s]), send2[s])
          => SlotsHold(tx2'.own, tx2'.buf, tx2'.at, tx2'.cur, Len(tx2.sent), Begun(tx2'.queued, "idle"), "idle")
    BY <2>1, <2>5, <2>6, <2>7
  <2>9. /\ tx2'.lock = ("idle" # "idle") /\ ("idle" = "wait" => tx2'.queued < MaxFrames)
        /\ tx2'.sent = tx2.sent /\ (send2[s] # "idle" \/ ~tx2.lock) /\ tx2' \in Queues2
    BY <2>1, <2>6
  <2> QED BY <1>3, <1>4, <2>1, <2>8, <2>9, StageStep
<1> QED BY <1>5, <1>6, <1>7, <1>8

LEMMA RtlStep ==
  ASSUME R!RtlAssumption, RtlInv, [R!RtlNext]_rtlV
  PROVE  RtlInv'
<1>1. CASE R!Attach \/ R!Handler
  BY <1>1, QuietSteps, LookStep2, ErrorsStep DEF R!Handler
<1>2. CASE R!StoreFrame
  BY <1>2, StoreStep2
<1>3. CASE R!SendFrame
  BY <1>3, SendStep2
<1>4. CASE \E s \in Sender : R!Lock(s) \/ R!Transmit(s)
  BY <1>4, ThreadStep DEF R!Transmit
<1>5. CASE UNCHANGED rtlV
  <2>1. UNCHANGED <<attach2, chip2, irq2, mem, rx2, isr2, tx2, send2>> /\ RtlTypes
    BY <1>5 DEF rtlV, RtlInv
  <2> QED BY <2>1, CausesOnly DEF RtlTypes
<1> QED BY <1>1, <1>2, <1>3, <1>4, <1>5 DEF R!RtlNext

LEMMA RtlIsSound ==
  ASSUME R!RtlAssumption, RtlInv
  PROVE  R!RtlTypeOK /\ R!WholeInOrder /\ R!SentInOrder
<1>1. RtlTypes /\ Rx2Inv /\ Tx2Inv /\ R!Slot = Slots2
  BY UnitsIs DEF RtlInv, Slots2
<1>2. R!WholeInOrder
  BY <1>1 DEF Rx2Inv, RingInv, Whole, R!WholeInOrder
<1>3. R!SentInOrder
  BY <1>1 DEF Tx2Inv, QueueInv, R!SentInOrder
<1>4. R!RtlTypeOK
  BY <1>1 DEF RtlTypes, Chips2, Statuses, Cells, Takers, Handlers2, Queues2, Stages2, R!RtlTypeOK
<1> QED BY <1>2, <1>3, <1>4
------------------------------------------------------------------------------
(* Until the handler starts again after an overflow, every frame the Realtek   *)
(* adapter stores is taken once, in order and whole, also one that goes on at  *)
(* the start of the buffer; and no slot is filled while the adapter owns it.   *)
THEOREM RtlInOrderAlways ==
  R!RtlAssumption => (R!RtlSpec => [](R!RtlTypeOK /\ R!WholeInOrder /\ R!SentInOrder))
<1> SUFFICES ASSUME R!RtlAssumption
             PROVE  R!RtlSpec => [](R!RtlTypeOK /\ R!WholeInOrder /\ R!SentInOrder)
  OBVIOUS
<1>1. R!RtlStart => RtlInv
  BY RtlInitInv
<1>2. RtlInv /\ [R!RtlNext]_rtlV => RtlInv'
  BY RtlStep
<1>3. RtlInv => R!RtlTypeOK /\ R!WholeInOrder /\ R!SentInOrder
  BY RtlIsSound
<1>4. R!RtlSpec => R!RtlStart /\ [][R!RtlNext]_rtlV
  BY DEF R!RtlSpec, R!rtlVars, rtlV
<1> QED BY <1>1, <1>2, <1>3, <1>4, PTL

(* FramesSound: what either adapter's driver receives and sends is whole and   *)
(* in order, over states of the right types.                                   *)
THEOREM FramesSoundAlways == AdaptersAssumption => (AdaptersSpec => []FramesSound)
<1> SUFFICES ASSUME AdaptersAssumption PROVE AdaptersSpec => []FramesSound
  OBVIOUS
<1>0. E1000Assumption /\ R!RtlAssumption
  BY DEF AdaptersAssumption
<1>1. E1000Spec => []E1000TypeOK
  BY <1>0, E1000TypeCorrect
<1>2. E1000Spec => []FramesInOrder
  BY <1>0, FramesInOrderAlways
<1>3. E1000Spec => []SentInOrder
  BY <1>0, SentInOrderAlways
<1>4. R!RtlSpec => [](R!RtlTypeOK /\ R!WholeInOrder /\ R!SentInOrder)
  BY <1>0, RtlInOrderAlways
<1>5. ASSUME E1000TypeOK, FramesInOrder, SentInOrder, R!RtlTypeOK, R!WholeInOrder, R!SentInOrder
      PROVE  FramesSound
  BY <1>5 DEF FramesSound
<1> QED BY <1>1, <1>2, <1>3, <1>4, <1>5, PTL DEF AdaptersSpec
------------------------------------------------------------------------------
(* IPv4 and ARP.  What a call is, wherever it has got to.                      *)
Hosts == Lan \cup {"far", "lo", "all"}
Kinds == {"echo", "echo reply", "datagram", "bad"}
Pcs == Ended \cup {"resolve", "queue", "pending", "emit", "input"}
CallRec == [pc : Pcs, dev : {"lo", "eth0", None}, dst : Addr \cup {None}, src : Addr \cup {None},
            hop : Addr \cup {None}, mac : Station \cup {"lo", "all", None},
            kind : Kinds \cup {None}, looped : BOOLEAN]
PendRec == [ip : Addr \cup {None}, buf : Buf \cup {None}, age : 0..WaitTicks]
Entry == {e \in [ip : Addr, mac : Station] : e.mac = e.ip.host}

CallOK(c) ==
  /\ c \in CallRec
  /\ c.pc \in {"resolve", "queue", "pending"} => c.hop \in Addr /\ c.dev # "lo"
  /\ c.pc = "input" \/ (c.pc = "emit" /\ c.dev = "lo") => c.dst \in Addr /\ c.src \in Addr /\ c.kind \in Kinds
  /\ c.pc = "emit" /\ c.hop # None => c.mac = c.hop.host

(* What a slot holds waits, for the address the call is for, in no other slot. *)
Parked ==
  /\ \A s \in Slot : pending[s].buf \in Buf => /\ call[pending[s].buf].pc = "pending"
                                              /\ call[pending[s].buf].hop = pending[s].ip
  /\ \A b \in Buf : call[b].pc = "pending" => \E s \in Slot : pending[s].buf = b
  /\ \A s, t \in Slot : pending[s].buf \in Buf /\ pending[s].buf = pending[t].buf => s = t
  /\ \A s \in Slot : pending[s].buf = None => pending[s] = Empty

CacheOK == cache \in Seq(Entry) /\ Len(cache) <= CacheSize

IpInv ==
  /\ routes \in Seq(Route) /\ Len(routes) <= MaxRoutes /\ set \in BOOLEAN
  /\ \E i \in 1..Len(routes) : routes[i].net = "lo"
  /\ CacheOK
  /\ pending \in [Slot -> PendRec]
  /\ DOMAIN call = Buf /\ call = [b \in Buf |-> call[b]] /\ \A b \in Buf : CallOK(call[b])
  /\ arp \in Station \cup {None}
  /\ Parked

(* Addresses. *)
LEMMA AddrIs ==
  /\ \A h \in Hosts : Plain(h) \in Addr /\ Plain(h).host = h
  /\ \A a \in Addr : Swap(a) \in Addr /\ Swap(a).host = a.host /\ a.host \in Hosts
  /\ \A h \in Hosts : Wire(h) \in Addr /\ Wire(h).host = h
<1>1. \A h \in Hosts : Plain(h) \in Addr /\ Plain(h).host = h
  BY DEF Hosts, Addr, Plain
<1>2. ASSUME NEW a \in Addr PROVE Swap(a) \in Addr /\ Swap(a).host = a.host /\ a.host \in Hosts
  <2>1. CASE a.host = "all"
    BY <2>1 DEF Swap, Hosts
  <2>2. CASE a.host # "all"
    <3>1. a \in [host : Lan \cup {"far", "lo"}, swapped : BOOLEAN]
      BY <2>2 DEF Addr
    <3>2. \A r \in [host : Lan \cup {"far", "lo"}, swapped : BOOLEAN] :
            /\ [r EXCEPT !.swapped = ~@] \in [host : Lan \cup {"far", "lo"}, swapped : BOOLEAN]
            /\ [r EXCEPT !.swapped = ~@].host = r.host
      OBVIOUS
    <3>3. Swap(a) = [a EXCEPT !.swapped = ~@]
      BY <2>2 DEF Swap
    <3> QED BY <3>1, <3>2, <3>3 DEF Addr, Hosts
  <2> QED BY <2>1, <2>2
<1>3. ASSUME NEW h \in Hosts PROVE Wire(h) \in Addr /\ Wire(h).host = h
  BY <1>1, <1>2 DEF Wire
<1> QED BY <1>1, <1>2, <1>3

(* The route found, if there is one, matches; lo's is never passed over.       *)
LEMMA LookupIs ==
  ASSUME NEW a \in Addr, routes \in Seq(Route), Lookup(a) # None
  PROVE  /\ Lookup(a) \in Route /\ Matches(a, Lookup(a))
         /\ a = Plain("lo") /\ (\E i \in 1..Len(routes) : routes[i].net = "lo") => Lookup(a).net = "lo"
<1> DEFINE match == {i \in DOMAIN routes : Matches(a, routes[i])}
           best == {i \in match : \A j \in match : ~Longer(j, i) /\ (Longer(i, j) \/ i <= j)}
<1>1. Lookup(a) = IF match = {} THEN None ELSE routes[CHOOSE i \in best : TRUE]
  BY DEF Lookup
<1>2. match # {} /\ DOMAIN routes = 1..Len(routes) /\ Len(routes) \in Nat /\ match \in SUBSET Nat
  BY <1>1
<1>3. best # {}
  <2> DEFINE long == {i \in match : routes[i].net # "any"}
  <2>1. CASE long # {}
    <3>1. PICK i \in long : \A j \in long : i <= j
      BY <1>2, <2>1, Least
    <3>2. i \in match /\ \A j \in match : ~Longer(j, i) /\ (Longer(i, j) \/ i <= j)
      BY <3>1 DEF Longer
    <3> QED BY <3>2
  <2>2. CASE long = {}
    <3>1. PICK i \in match : \A j \in match : i <= j
      BY <1>2, Least
    <3>2. \A j \in match : ~Longer(j, i)
      BY <2>2 DEF Longer
    <3> QED BY <3>1, <3>2
  <2> QED BY <2>1, <2>2
<1>4. (CHOOSE i \in best : TRUE) \in best
  BY <1>3
<1>5. PICK k \in best : Lookup(a) = routes[k]
  BY <1>1, <1>2, <1>4
<1>6. routes[k] \in Route /\ Matches(a, routes[k])
  BY <1>2
<1>7. ASSUME a = Plain("lo"), NEW i \in 1..Len(routes), routes[i].net = "lo" PROVE routes[k].net = "lo"
  <2>1. Matches(a, routes[i]) /\ i \in match
    BY <1>2, <1>7 DEF Matches
  <2>2. ~Longer(i, k)
    BY <2>1
  <2>3. routes[k].net # "any"
    BY <1>7, <2>2 DEF Longer
  <2>4. routes[k].net # "lan"
    BY <1>6, <1>7 DEF Matches, Plain, Lan, Station
  <2> QED BY <1>6, <2>3, <2>4 DEF Route
<1> QED BY <1>5, <1>6, <1>7

(* Records of calls. *)
LEMMA IdleIs == /\ Idle \in CallRec /\ Idle.pc = "free" /\ Idle.hop = None
BY DEF Idle, CallRec, Pcs, Ended

LEMMA OverIs ==
  ASSUME NEW how \in {"freed", "sent", "answered"}, NEW l \in BOOLEAN
  PROVE  LET c == [Idle EXCEPT !.pc = how, !.looped = l]
         IN  CallOK(c) /\ c.pc = how
<1>1. \A r \in CallRec : LET c == [r EXCEPT !.pc = how, !.looped = l]
                         IN  c \in CallRec /\ c.pc = how
  BY DEF CallRec, Pcs, Ended
<1> QED BY <1>1, IdleIs DEF CallOK

LEMMA OutputIs ==
  ASSUME IpInv, IpAssumption, NEW dst \in Addr, NEW src \in Addr \cup {None}, NEW kind \in Kinds,
         NEW looped \in BOOLEAN, NEW small \in BOOLEAN
  PROVE  CallOK(Output(dst, src, kind, looped, small)) /\ Output(dst, src, kind, looped, small).pc # "pending"
<1> DEFINE r == Lookup(dst)
           from == Source(r, dst, src)
           c == [Idle EXCEPT !.dev = DevOf(r), !.looped = looped]
           o == Output(dst, src, kind, looped, small)
<1>1. routes \in Seq(Route) /\ set \in BOOLEAN /\ None \notin Addr /\ (src # None => src \in Addr)
  BY DEF IpInv, IpAssumption
<1>2. CASE r = None \/ ~small \/ (from = None /\ dst.host # "all")
  <2>1. o = [Idle EXCEPT !.pc = "freed", !.looped = looped]
    BY <1>2 DEF Output
  <2>2. LET x == [Idle EXCEPT !.pc = "freed", !.looped = looped] IN CallOK(x) /\ x.pc = "freed"
    BY OverIs
  <2> HIDE DEF o
  <2>3. CallOK(o) /\ o.pc # "pending"
    BY <2>1, <2>2
  <2> QED BY <2>3 DEF o
<1>3. CASE r # None /\ small /\ ~(from = None /\ dst.host # "all")
  <2>1. r \in Route /\ Matches(dst, r)
    BY <1>1, <1>3, LookupIs
  <2>2. DevOf(r) \in {"lo", "eth0"} /\ (DevOf(r) = "lo" => dst = Plain("lo"))
    BY <2>1 DEF DevOf, Matches, Route
  <2>3. from \in Addr \cup {None}
    <3>1. r.src # None => r.src \in Hosts
      BY <2>1 DEF Route, Hosts, Lan
    <3>2. IpAddr(DevOf(r)) \in Addr \cup {None}
      <4>1. "lo" \in Hosts /\ "me" \in Hosts
        BY DEF Hosts, Lan
      <4> QED BY <4>1, AddrIs DEF IpAddr
    <3> QED BY <3>1, <3>2, AddrIs DEF Source
  <2>4. c \in CallRec /\ c.dev = DevOf(r) /\ c.hop = None
    <3>1. \A i \in CallRec, d \in {"lo", "eth0"} :
            LET x == [i EXCEPT !.dev = d, !.looped = looped]
            IN  x \in CallRec /\ x.dev = d /\ x.hop = i.hop
      BY DEF CallRec
    <3> QED BY <2>2, <3>1, IdleIs
  <2> HIDE DEF c, from, r
  <2>5. o = IF c.dev = "lo"
            THEN [c EXCEPT !.pc = "emit", !.mac = "lo", !.dst = dst, !.src = from, !.kind = kind]
            ELSE IF dst \in {Plain("all"), Plain("lo")}
            THEN [c EXCEPT !.pc = "emit", !.mac = IF dst.host = "all" THEN "all" ELSE c.dev]
            ELSE [c EXCEPT !.pc = "resolve", !.hop = NextHop(r, dst)]
    BY <1>3 DEF Output, c, from, r
  <2>6. CASE c.dev = "lo"
    <3>1. dst.host # "all" /\ from \in Addr
      <4>1. dst = Plain("lo") /\ "lo" \in Hosts
        BY <2>2, <2>4, <2>6 DEF Hosts
      <4> QED BY <1>3, <2>3, <4>1, AddrIs
    <3>2. \A i \in CallRec, f \in Addr :
            LET x == [i EXCEPT !.pc = "emit", !.mac = "lo", !.dst = dst, !.src = f, !.kind = kind]
            IN  x \in CallRec /\ x.pc = "emit" /\ x.hop = i.hop /\ x.dst = dst /\ x.src = f /\ x.kind = kind
      BY DEF CallRec, Pcs
    <3> HIDE DEF o
    <3>5. o = [c EXCEPT !.pc = "emit", !.mac = "lo", !.dst = dst, !.src = from, !.kind = kind]
      BY <2>5, <2>6
    <3>3. o \in CallRec /\ o.pc = "emit" /\ o.hop = None /\ o.dst = dst /\ o.src = from /\ o.kind = kind
      BY <2>4, <3>1, <3>2, <3>5
    <3>4. CallOK(o) /\ o.pc # "pending"
      BY <3>1, <3>3 DEF CallOK
    <3> QED BY <3>4 DEF o
  <2>7. CASE c.dev # "lo" /\ dst \in {Plain("all"), Plain("lo")}
    <3>1. dst.host = "all"
      <4>1. CASE dst = Plain("lo")
        <5>1. r.net = "lo"
          BY <1>1, <1>3, <4>1, LookupIs DEF IpInv, r
        <5> QED BY <2>4, <2>7, <5>1 DEF DevOf
      <4>2. CASE dst = Plain("all")
        BY <4>2, AddrIs DEF Hosts
      <4> QED BY <2>7, <4>1, <4>2
    <3>2. \A i \in CallRec :
            LET x == [i EXCEPT !.pc = "emit", !.mac = "all"]
            IN  x \in CallRec /\ x.pc = "emit" /\ x.hop = i.hop /\ x.dev = i.dev
      BY DEF CallRec, Pcs
    <3> HIDE DEF o
    <3>3. o = [c EXCEPT !.pc = "emit", !.mac = "all"]
      BY <2>5, <2>7, <3>1
    <3>4. o \in CallRec /\ o.pc = "emit" /\ o.hop = None /\ o.dev # "lo"
      BY <2>4, <2>7, <3>2, <3>3
    <3>5. CallOK(o) /\ o.pc # "pending"
      BY <3>4 DEF CallOK
    <3> QED BY <3>5 DEF o
  <2>8. CASE c.dev # "lo" /\ dst \notin {Plain("all"), Plain("lo")}
    <3>1. NextHop(r, dst) \in Addr
      <4>1. r.gw # None => r.gw \in Hosts
        BY <2>1 DEF Route, Hosts, Lan, Station
      <4> QED BY <4>1, AddrIs DEF NextHop
    <3>2. \A i \in CallRec, h \in Addr :
            LET x == [i EXCEPT !.pc = "resolve", !.hop = h]
            IN  x \in CallRec /\ x.pc = "resolve" /\ x.hop = h /\ x.dev = i.dev
      BY DEF CallRec, Pcs
    <3> HIDE DEF o
    <3>5. o = [c EXCEPT !.pc = "resolve", !.hop = NextHop(r, dst)]
      BY <2>5, <2>8
    <3>3. o \in CallRec /\ o.pc = "resolve" /\ o.hop \in Addr /\ o.dev # "lo"
      BY <2>4, <2>8, <3>1, <3>2, <3>5
    <3>4. CallOK(o) /\ o.pc # "pending"
      BY <3>3 DEF CallOK
    <3> QED BY <3>4 DEF o
  <2> QED BY <2>6, <2>7, <2>8
<1> QED BY <1>2, <1>3
LEMMA IpInit == ASSUME IpAssumption, IpStart PROVE IpInv
<1> DEFINE lo == [net |-> "lo", gw |-> None, src |-> "lo"]
           none == <<>>
<1>1. /\ routes = <<lo>> /\ set = FALSE /\ cache = none
      /\ pending = [s \in Slot |-> Empty] /\ call = [b \in Buf |-> Idle] /\ arp = None
  BY DEF IpStart
<1>2. lo \in Route /\ lo.net = "lo"
  BY DEF Route
<1>3. none \in Seq(Entry) /\ Len(none) = 0
  OBVIOUS
<1> HIDE DEF lo, none
<1>4. routes \in Seq(Route) /\ Len(routes) = 1 /\ routes[1] = lo
  BY <1>1, <1>2
<1>5. 1 \in 1..Len(routes) /\ routes[1].net = "lo" /\ Len(routes) <= MaxRoutes
  BY <1>2, <1>4 DEF IpAssumption
<1>6. CacheOK
  BY <1>1, <1>3 DEF CacheOK, IpAssumption
<1>7. pending \in [Slot -> PendRec]
  BY <1>1 DEF Empty, PendRec, IpAssumption
<1>8. DOMAIN call = Buf /\ call = [b \in Buf |-> call[b]] /\ \A b \in Buf : CallOK(call[b]) /\ call[b].pc = "free"
  <2>1. CallOK(Idle) /\ Idle.pc = "free"
    BY IdleIs DEF CallOK
  <2> QED BY <1>1, <2>1
<1>9. Parked
  <2>1. \A s \in Slot : pending[s] = Empty /\ pending[s].buf = None
    BY <1>1 DEF Empty
  <2> QED BY <1>8, <2>1 DEF Parked, IpAssumption
<1> QED BY <1>1, <1>4, <1>5, <1>6, <1>7, <1>8, <1>9 DEF IpInv

(* The call that a step carries on, when no slot is concerned.                 *)
LEMMA CallStep ==
  ASSUME IpInv, NEW b \in Buf, NEW x, call' = [call EXCEPT ![b] = x], CallOK(x), x.pc # "pending",
         call[b].pc # "pending", UNCHANGED <<routes, set, cache, pending, arp>>
  PROVE  IpInv'
<1>1. \A a \in Buf : call'[a] = IF a = b THEN x ELSE call[a]
  BY DEF IpInv
<1>2. DOMAIN call' = Buf /\ call' = [a \in Buf |-> call'[a]] /\ \A a \in Buf : CallOK(call'[a])
  BY <1>1 DEF IpInv
<1>3. Parked'
  <2>1. \A s \in Slot : pending[s].buf \in Buf => pending[s].buf # b
    BY DEF IpInv, Parked
  <2>2. \A s \in Slot : pending[s].buf \in Buf => /\ call'[pending[s].buf].pc = "pending"
                                                  /\ call'[pending[s].buf].hop = pending[s].ip
    BY <1>1, <2>1 DEF IpInv, Parked
  <2>3. \A a \in Buf : call'[a].pc = "pending" => \E s \in Slot : pending[s].buf = a
    BY <1>1 DEF IpInv, Parked
  <2> QED BY <2>2, <2>3 DEF IpInv, Parked
<1> QED BY <1>2, <1>3 DEF IpInv, CacheOK

LEMMA CallIs ==
  ASSUME IpInv, NEW b \in Buf
  PROVE  CallOK(call[b]) /\ call[b] \in CallRec /\ call[b].looped \in BOOLEAN
BY DEF IpInv, CallOK, CallRec

LEMMA EndedIs == ASSUME IpInv, NEW b \in Buf, call[b].pc \in Ended PROVE call[b].pc # "pending"
BY DEF Ended

LEMMA StepOutput ==
  ASSUME IpAssumption, IpInv, NEW b \in Buf, NEW h \in Station \cup {"far", "lo", "all"}, NEW small \in BOOLEAN,
         IpV4Output(b, h, "echo", small)
  PROVE  IpInv'
<1> DEFINE x == Output(Plain(h), None, "echo", h = "lo", small)
<1>1. call' = [call EXCEPT ![b] = x] /\ UNCHANGED <<routes, set, cache, pending, arp>> /\ call[b].pc \in Ended
  BY DEF IpV4Output
<1>2. Plain(h) \in Addr /\ (h = "lo") \in BOOLEAN /\ "echo" \in Kinds
  BY AddrIs DEF Hosts, Lan, Kinds
<1>3. CallOK(x) /\ x.pc # "pending"
  BY <1>2, OutputIs
<1> HIDE DEF x
<1> QED BY <1>1, <1>3, EndedIs, CallStep

LEMMA StepResolve ==
  ASSUME IpAssumption, IpInv, NEW b \in Buf, ArpResolve(b)
  PROVE  IpInv'
<1> DEFINE known == Known(Swap(call[b].hop))
<1>1. /\ call[b].pc = "resolve" /\ UNCHANGED <<routes, set, cache, pending, arp>>
      /\ call' = IF known = {} THEN [call EXCEPT ![b].pc = "queue"]
                 ELSE [call EXCEPT ![b].pc = "emit", ![b].mac = cache[CHOOSE i \in known : TRUE].mac]
  BY DEF ArpResolve
<1>2. CallOK(call[b]) /\ call[b] \in CallRec /\ call[b].hop \in Addr /\ call[b].dev # "lo"
  BY <1>1, CallIs DEF CallOK
<1>3. CASE known = {}
  <2> DEFINE x == [call[b] EXCEPT !.pc = "queue"]
  <2>1. call' = [call EXCEPT ![b] = x]
    BY <1>1, <1>3
  <2>2. \A r \in CallRec : LET y == [r EXCEPT !.pc = "queue"]
                           IN  y \in CallRec /\ y.pc = "queue" /\ y.hop = r.hop /\ y.dev = r.dev
    BY DEF CallRec, Pcs
  <2>4. x \in CallRec /\ x.pc = "queue" /\ x.hop = call[b].hop /\ x.dev = call[b].dev
    BY <1>2, <2>2
  <2> HIDE DEF x
  <2>3. CallOK(x) /\ x.pc # "pending"
    BY <1>2, <2>4 DEF CallOK
  <2> QED BY <1>1, <2>1, <2>3, CallStep
<1>4. CASE known # {}
  <2> DEFINE m == cache[CHOOSE i \in known : TRUE].mac
             x == [call[b] EXCEPT !.pc = "emit", !.mac = m]
  <2>1. call' = [call EXCEPT ![b] = x]
    <3> HIDE DEF m, known
    <3>1. call' = [call EXCEPT ![b].pc = "emit", ![b].mac = m]
      BY <1>1, <1>4 DEF m
    <3> QED BY <3>1 DEF IpInv
  <2>2. m \in Station /\ m = call[b].hop.host
    <3>1. PICK i \in known : m = cache[i].mac
      BY <1>4
    <3>2. i \in DOMAIN cache /\ cache[i].ip = Swap(call[b].hop)
      BY <3>1 DEF Known
    <3>3. cache[i] \in Entry
      BY <3>2 DEF IpInv, CacheOK
    <3> QED BY <1>2, <3>1, <3>2, <3>3, AddrIs DEF Entry
  <2> HIDE DEF m
  <2>3. \A r \in CallRec, s \in Station :
          LET y == [r EXCEPT !.pc = "emit", !.mac = s]
          IN  /\ y \in CallRec /\ y.pc = "emit" /\ y.hop = r.hop /\ y.mac = s /\ y.dev = r.dev
              /\ y.dst = r.dst /\ y.src = r.src /\ y.kind = r.kind
    BY DEF CallRec, Pcs
  <2>4. x \in CallRec /\ x.pc = "emit" /\ x.hop = call[b].hop /\ x.mac = m /\ x.dev = call[b].dev
    BY <1>2, <2>2, <2>3
  <2> HIDE DEF x
  <2>5. CallOK(x) /\ x.pc # "pending"
    BY <1>2, <2>2, <2>4 DEF CallOK
  <2> QED BY <1>1, <2>1, <2>5, CallStep
<1> QED BY <1>3, <1>4

(* A call that is over, one way or the other. *)
LEMMA OverStep ==
  ASSUME IpInv, NEW b \in Buf, call[b].pc # "pending", NEW how \in {"freed", "sent", "answered"},
         call' = [call EXCEPT ![b] = Over(b, how)], UNCHANGED <<routes, set, cache, pending, arp>>
  PROVE  IpInv'
<1> DEFINE x == Over(b, how)
<1>1. CallOK(x) /\ x.pc = how
  BY CallIs, OverIs DEF Over
<1> HIDE DEF x
<1>2. call' = [call EXCEPT ![b] = x] /\ x.pc # "pending"
  BY <1>1 DEF x
<1> QED BY <1>1, <1>2, CallStep

LEMMA StepQueue ==
  ASSUME IpAssumption, IpInv, NEW b \in Buf, ArpQueuePacket(b)
  PROVE  IpInv'
<1>1. call[b].pc = "queue" /\ call[b].pc # "pending" /\ UNCHANGED <<routes, set, cache, arp>>
  BY DEF ArpQueuePacket
<1>2. CallOK(call[b]) /\ call[b] \in CallRec /\ call[b].hop \in Addr /\ call[b].dev # "lo"
  BY <1>1, CallIs DEF CallOK
<1>3. CASE FreeSlot = {}
  <2>1. call' = [call EXCEPT ![b] = Over(b, "freed")] /\ UNCHANGED pending
    BY <1>3 DEF ArpQueuePacket, Freed
  <2> QED BY <1>1, <2>1, OverStep
<1>4. CASE FreeSlot # {}
  <2> DEFINE x == [call[b] EXCEPT !.pc = "pending"]
             y == [ip |-> call[b].hop, buf |-> b, age |-> 0]
  <2>1. PICK s \in FreeSlot : pending' = [pending EXCEPT ![s] = y]
    BY <1>4 DEF ArpQueuePacket
  <2>2. call' = [call EXCEPT ![b] = x]
    <3>1. call' = [call EXCEPT ![b].pc = "pending"]
      BY <1>4 DEF ArpQueuePacket
    <3> QED BY <3>1 DEF IpInv
  <2>3. s \in Slot /\ pending[s] = Empty
    BY DEF FreeSlot
  <2>4. \A r \in CallRec : LET z == [r EXCEPT !.pc = "pending"]
                           IN  z \in CallRec /\ z.pc = "pending" /\ z.hop = r.hop /\ z.dev = r.dev
    BY DEF CallRec, Pcs
  <2>5. x \in CallRec /\ x.pc = "pending" /\ x.hop = call[b].hop /\ x.dev = call[b].dev
    BY <1>2, <2>4
  <2>6. y \in PendRec /\ y.ip = call[b].hop /\ y.buf = b
    BY <1>2 DEF PendRec, IpAssumption
  <2> HIDE DEF x, y
  <2>7. CallOK(x)
    BY <1>2, <2>5 DEF CallOK
  <2>8. \A a \in Buf : call'[a] = IF a = b THEN x ELSE call[a]
    BY <2>2 DEF IpInv
  <2>9. \A t \in Slot : pending'[t] = IF t = s THEN y ELSE pending[t]
    BY <2>1, <2>3 DEF IpInv
  <2>10. DOMAIN call' = Buf /\ call' = [a \in Buf |-> call'[a]] /\ \A a \in Buf : CallOK(call'[a])
    BY <2>2, <2>7, <2>8 DEF IpInv
  <2>11. pending' \in [Slot -> PendRec]
    BY <2>1, <2>6 DEF IpInv
  <2>12. \A t \in Slot : pending[t].buf # b
    BY <1>1 DEF IpInv, Parked
  <2>13. Parked'
    <3>1. \A t \in Slot : pending'[t].buf \in Buf => /\ call'[pending'[t].buf].pc = "pending"
                                                    /\ call'[pending'[t].buf].hop = pending'[t].ip
      BY <2>5, <2>6, <2>8, <2>9, <2>12 DEF IpInv, Parked
    <3>2. ASSUME NEW a \in Buf, call'[a].pc = "pending" PROVE \E t \in Slot : pending'[t].buf = a
      <4>1. CASE a = b
        BY <2>3, <2>6, <2>9, <4>1
      <4>2. CASE a # b
        <5>1. PICK t \in Slot : pending[t].buf = a
          BY <2>8, <3>2, <4>2 DEF IpInv, Parked
        <5>2. t # s
          BY <2>3, <5>1 DEF Empty, IpAssumption
        <5> QED BY <2>9, <5>1, <5>2
      <4> QED BY <4>1, <4>2
    <3>3. \A t, u \in Slot : pending'[t].buf \in Buf /\ pending'[t].buf = pending'[u].buf => t = u
      BY <2>6, <2>9, <2>12 DEF IpInv, Parked
    <3>4. \A t \in Slot : pending'[t].buf = None => pending'[t] = Empty
      BY <2>6, <2>9 DEF IpInv, Parked, IpAssumption
    <3> QED BY <3>1, <3>2, <3>3, <3>4 DEF Parked
  <2> QED BY <1>1, <2>10, <2>11, <2>13 DEF IpInv, CacheOK
<1> QED BY <1>3, <1>4

(* Slots that are emptied, with what becomes of the packets in them. *)
LEMMA SlotsEmptied ==
  ASSUME IpAssumption, IpInv, NEW S \in SUBSET Slot,
         DOMAIN call' = Buf, call' = [b \in Buf |-> call'[b]],
         \A b \in Buf : IF \E s \in S : pending[s].buf = b THEN CallOK(call'[b]) /\ call'[b].pc # "pending"
                        ELSE call'[b] = call[b],
         pending' = [s \in Slot |-> IF s \in S THEN Empty ELSE pending[s]]
  PROVE  /\ pending' \in [Slot -> PendRec]
         /\ \A b \in Buf : CallOK(call'[b])
         /\ Parked'
<1>1. Empty \in PendRec /\ Empty.buf = None /\ None \notin Buf
  BY DEF Empty, PendRec, IpAssumption
<1>2. \A s \in Slot : pending'[s] = IF s \in S THEN Empty ELSE pending[s]
  OBVIOUS
<1>3. pending' \in [Slot -> PendRec]
  BY <1>1 DEF IpInv
<1>4. \A b \in Buf : CallOK(call'[b])
  BY DEF IpInv
<1>5. \A s \in Slot : pending'[s].buf \in Buf => /\ call'[pending'[s].buf].pc = "pending"
                                                /\ call'[pending'[s].buf].hop = pending'[s].ip
  <2> SUFFICES ASSUME NEW s \in Slot, pending'[s].buf \in Buf
               PROVE  /\ call'[pending'[s].buf].pc = "pending"
                      /\ call'[pending'[s].buf].hop = pending'[s].ip
    OBVIOUS
  <2>1. s \notin S /\ pending'[s] = pending[s]
    BY <1>1, <1>2
  <2>2. ~(\E t \in S : pending[t].buf = pending[s].buf)
    BY <2>1 DEF IpInv, Parked
  <2>3. call'[pending[s].buf] = call[pending[s].buf]
    BY <2>1, <2>2
  <2> QED BY <2>1, <2>3 DEF IpInv, Parked
<1>6. ASSUME NEW b \in Buf, call'[b].pc = "pending" PROVE \E s \in Slot : pending'[s].buf = b
  <2>1. call'[b] = call[b] /\ ~(\E s \in S : pending[s].buf = b)
    BY <1>6
  <2>2. PICK s \in Slot : pending[s].buf = b
    BY <1>6, <2>1 DEF IpInv, Parked
  <2> QED BY <1>2, <2>1, <2>2
<1>7. \A s, t \in Slot : pending'[s].buf \in Buf /\ pending'[s].buf = pending'[t].buf => s = t
  BY <1>1, <1>2 DEF IpInv, Parked
<1>8. \A s \in Slot : pending'[s].buf = None => pending'[s] = Empty
  BY <1>1, <1>2 DEF IpInv, Parked
<1> QED BY <1>3, <1>4, <1>5, <1>6, <1>7, <1>8 DEF Parked
(* What a slot that is not empty holds. *)
LEMMA HeldIs ==
  ASSUME IpAssumption, IpInv, NEW s \in Slot, pending[s] # Empty
  PROVE  /\ pending[s] \in PendRec /\ pending[s].buf \in Buf /\ call[pending[s].buf].pc = "pending"
         /\ call[pending[s].buf].hop = pending[s].ip
         /\ call[pending[s].buf].hop \in Addr /\ call[pending[s].buf].dev # "lo"
<1>1. pending[s] \in PendRec
  BY DEF IpInv
<1>2. pending[s].buf \in Buf
  BY <1>1 DEF PendRec, IpInv, Parked
<1>3. call[pending[s].buf].pc = "pending" /\ call[pending[s].buf].hop = pending[s].ip
  BY <1>2 DEF IpInv, Parked
<1> QED BY <1>1, <1>2, <1>3, CallIs DEF CallOK

LEMMA StepFlush ==
  ASSUME IpAssumption, IpInv, FlushPending
  PROVE  IpInv'
<1> DEFINE S == Waiting(arp)
           gone == {pending[s].buf : s \in S}
           X(b) == [call[b] EXCEPT !.pc = "emit", !.mac = arp]
<1>1. /\ arp \in Station /\ arp' = None /\ UNCHANGED <<routes, set, cache>>
      /\ call' = [b \in Buf |-> IF b \in gone THEN X(b) ELSE call[b]]
      /\ pending' = [s \in Slot |-> IF s \in S THEN Empty ELSE pending[s]]
  BY DEF FlushPending, IpInv
<1>2. Wire(arp) \in Addr /\ Wire(arp).host = arp
  BY <1>1, AddrIs DEF Hosts, Lan
<1>3. S \in SUBSET Slot /\ \A s \in S : pending[s].ip = Wire(arp) /\ pending[s] # Empty
  BY <1>2 DEF Waiting, Empty, IpAssumption
<1>4. \A r \in CallRec, m \in Station :
        LET y == [r EXCEPT !.pc = "emit", !.mac = m]
        IN  y \in CallRec /\ y.pc = "emit" /\ y.hop = r.hop /\ y.mac = m /\ y.dev = r.dev
  BY DEF CallRec, Pcs
<1>5. ASSUME NEW s \in S PROVE CallOK(X(pending[s].buf)) /\ X(pending[s].buf).pc # "pending"
  <2> DEFINE c == call[pending[s].buf]
             x == [c EXCEPT !.pc = "emit", !.mac = arp]
  <2>1. c \in CallRec /\ c.hop = Wire(arp) /\ c.dev # "lo"
    BY <1>3, HeldIs, CallIs
  <2>2. x \in CallRec /\ x.pc = "emit" /\ x.hop = c.hop /\ x.mac = arp /\ x.dev = c.dev
    BY <1>1, <1>4, <2>1
  <2> HIDE DEF x, c
  <2>3. CallOK(x) /\ x.pc # "pending"
    BY <1>2, <2>1, <2>2 DEF CallOK
  <2> QED BY <2>3 DEF x, c
<1> HIDE DEF X
<1>6. \A b \in Buf : call'[b] = IF b \in gone THEN X(b) ELSE call[b]
  BY <1>1
<1>7. DOMAIN call' = Buf /\ call' = [b \in Buf |-> call'[b]]
  BY <1>1
<1>8. \A b \in Buf : IF \E s \in S : pending[s].buf = b THEN CallOK(call'[b]) /\ call'[b].pc # "pending"
                     ELSE call'[b] = call[b]
  BY <1>5, <1>6
<1> HIDE DEF S, gone
<1>9. pending' \in [Slot -> PendRec] /\ (\A b \in Buf : CallOK(call'[b])) /\ Parked'
  BY <1>1, <1>3, <1>7, <1>8, SlotsEmptied
<1> QED BY <1>1, <1>7, <1>9 DEF IpInv, CacheOK

LEMMA StepTick ==
  ASSUME IpAssumption, IpInv, NEW s \in Slot, ArpTick(s)
  PROVE  IpInv'
<1> DEFINE b == pending[s].buf
           x == Over(b, "freed")
<1>1. /\ pending[s].age = WaitTicks /\ call' = [call EXCEPT ![b] = x]
      /\ pending' = [pending EXCEPT ![s] = Empty] /\ UNCHANGED <<routes, set, cache, arp>>
  BY DEF ArpTick, Freed
<1>2. pending[s] # Empty
  BY <1>1 DEF Empty, IpAssumption
<1>3. b \in Buf /\ call[b].pc = "pending"
  BY <1>2, HeldIs
<1>4. CallOK(x) /\ x.pc = "freed"
  BY <1>3, CallIs, OverIs DEF Over
<1> HIDE DEF x
<1>5. DOMAIN call' = Buf /\ call' = [a \in Buf |-> call'[a]]
  BY <1>1 DEF IpInv
<1>6. \A a \in Buf : call'[a] = IF a = b THEN x ELSE call[a]
  BY <1>1 DEF IpInv
<1>7. \A a \in Buf : IF \E t \in {s} : pending[t].buf = a THEN CallOK(call'[a]) /\ call'[a].pc # "pending"
                     ELSE call'[a] = call[a]
  BY <1>4, <1>6
<1>8. pending' = [t \in Slot |-> IF t \in {s} THEN Empty ELSE pending[t]]
  BY <1>1 DEF IpInv
<1> HIDE DEF b
<1>9. pending' \in [Slot -> PendRec] /\ (\A a \in Buf : CallOK(call'[a])) /\ Parked'
  BY <1>5, <1>7, <1>8, SlotsEmptied
<1> QED BY <1>1, <1>5, <1>9 DEF IpInv, CacheOK

LEMMA StepClock ==
  ASSUME IpAssumption, IpInv, Clock
  PROVE  IpInv'
<1> DEFINE Runs(s) == pending[s] # Empty /\ pending[s].age < WaitTicks
           Later(r) == [r EXCEPT !.age = @ + 1]
<1>1. /\ pending' = [s \in Slot |-> IF Runs(s) THEN Later(pending[s]) ELSE pending[s]]
      /\ UNCHANGED <<routes, set, cache, call, arp>>
  BY DEF Clock
<1>2. \A r \in PendRec : r.age < WaitTicks => Later(r) \in PendRec /\ Later(r).ip = r.ip /\ Later(r).buf = r.buf
  BY DEF PendRec, IpAssumption
<1> HIDE DEF Later
<1>3. \A s \in Slot : /\ pending'[s] \in PendRec /\ pending'[s].ip = pending[s].ip /\ pending'[s].buf = pending[s].buf
                      /\ pending[s] = Empty => pending'[s] = Empty
  BY <1>1, <1>2 DEF IpInv
<1>4. pending' \in [Slot -> PendRec]
  BY <1>1, <1>3
<1>5. Parked'
  BY <1>1, <1>3 DEF IpInv, Parked
<1> QED BY <1>1, <1>4, <1>5 DEF IpInv, CacheOK

LEMMA StepEthernet ==
  ASSUME IpAssumption, IpInv, NEW b \in Buf, EthernetOutput(b)
  PROVE  IpInv'
<1>1. call[b].pc = "emit" /\ call[b].pc # "pending" /\ UNCHANGED <<routes, set, cache, pending, arp>>
  BY DEF EthernetOutput
<1>2. CASE call[b].dev = "lo" /\ call' = [call EXCEPT ![b].pc = "input"]
  <2> DEFINE x == [call[b] EXCEPT !.pc = "input"]
  <2>1. call' = [call EXCEPT ![b] = x]
    BY <1>2 DEF IpInv
  <2>2. \A r \in CallRec : LET y == [r EXCEPT !.pc = "input"]
                           IN  /\ y \in CallRec /\ y.pc = "input"
                               /\ y.dst = r.dst /\ y.src = r.src /\ y.kind = r.kind
    BY DEF CallRec, Pcs
  <2>3. call[b] \in CallRec /\ call[b].dst \in Addr /\ call[b].src \in Addr /\ call[b].kind \in Kinds
    BY <1>1, <1>2, CallIs DEF CallOK
  <2>4. /\ x \in CallRec /\ x.pc = "input"
        /\ x.dst = call[b].dst /\ x.src = call[b].src /\ x.kind = call[b].kind
    BY <2>2, <2>3
  <2> HIDE DEF x
  <2>5. CallOK(x) /\ x.pc # "pending"
    BY <2>3, <2>4 DEF CallOK
  <2> QED BY <1>1, <2>1, <2>5, CallStep
<1>3. CASE call' = [call EXCEPT ![b] = Over(b, "sent")]
  BY <1>1, <1>3, OverStep
<1>4. CASE call' = Freed(b)
  BY <1>1, <1>4, OverStep DEF Freed
<1> QED BY <1>2, <1>3, <1>4 DEF EthernetOutput

LEMMA StepRx ==
  ASSUME IpAssumption, IpInv, NEW b \in Buf, NEW p \in Station, NEW dst \in {Wire("me"), Wire("far"), Plain("all")},
         NEW kind \in {"echo", "datagram", "bad"}, NetworkRx(b, p, dst, kind)
  PROVE  IpInv'
<1> DEFINE X(d, s, k) == [Idle EXCEPT !.pc = "input", !.dev = "eth0", !.dst = d, !.src = s, !.kind = k]
           x == X(dst, Wire(p), kind)
<1>1. call[b].pc \in Ended /\ call' = [call EXCEPT ![b] = x] /\ UNCHANGED <<routes, set, cache, pending, arp>>
  BY DEF NetworkRx
<1>2. dst \in Addr /\ Wire(p) \in Addr /\ kind \in Kinds
  <2>1. \A h \in {"me", "far", "gw", "peer"} : Wire(h) \in Addr
    BY AddrIs DEF Hosts, Lan, Station
  <2>2. Plain("all") \in Addr
    BY AddrIs DEF Hosts
  <2> QED BY <2>1, <2>2 DEF Kinds, Station
<1>3. ASSUME NEW d \in Addr, NEW s \in Addr, NEW k \in Kinds
      PROVE  /\ X(d, s, k) \in CallRec /\ X(d, s, k).pc = "input"
             /\ X(d, s, k).dst = d /\ X(d, s, k).src = s /\ X(d, s, k).kind = k
  <2> HIDE DEF x
  <2>1. ASSUME NEW r \in CallRec
        PROVE  LET y == [r EXCEPT !.pc = "input", !.dev = "eth0", !.dst = d, !.src = s, !.kind = k]
               IN  y \in CallRec /\ y.pc = "input" /\ y.dst = d /\ y.src = s /\ y.kind = k
    BY DEF CallRec, Pcs
  <2> QED BY <2>1, IdleIs
<1> HIDE DEF X
<1>4. x \in CallRec /\ x.pc = "input" /\ x.dst = dst /\ x.src = Wire(p) /\ x.kind = kind
  BY <1>2, <1>3
<1> HIDE DEF x
<1>5. CallOK(x) /\ x.pc # "pending"
  BY <1>2, <1>4 DEF CallOK
<1> QED BY <1>1, <1>5, EndedIs, CallStep

LEMMA StepInput ==
  ASSUME IpAssumption, IpInv, NEW b \in Buf, IpV4Input(b)
  PROVE  IpInv'
<1>1. call[b].pc = "input" /\ call[b].pc # "pending" /\ UNCHANGED <<routes, set, cache, pending, arp>>
  BY DEF IpV4Input
<1>2. call[b].dst \in Addr /\ call[b].src \in Addr /\ call[b].kind \in Kinds /\ call[b].looped \in BOOLEAN
  BY <1>1, CallIs DEF CallOK
<1> DEFINE x == Output(call[b].src, call[b].dst, "echo reply", call[b].looped, TRUE)
<1>3. CallOK(x) /\ x.pc # "pending"
  BY <1>2, OutputIs DEF Kinds
<1> HIDE DEF x
<1>4. CASE call' = Freed(b)
  BY <1>1, <1>4, OverStep DEF Freed
<1>5. CASE call' = [call EXCEPT ![b] = x]
  BY <1>1, <1>3, <1>5, CallStep
<1>6. CASE call' = [call EXCEPT ![b] = Over(b, "answered")]
  BY <1>1, <1>6, OverStep
<1>7. call' = Freed(b) \/ call' = [call EXCEPT ![b] = x] \/ call' = [call EXCEPT ![b] = Over(b, "answered")]
  BY <1>2 DEF IpV4Input, Kinds, x
<1> QED BY <1>4, <1>5, <1>6, <1>7

(* The routes. *)
LEMMA RoutesGrow ==
  ASSUME IpInv, NEW new \in Seq(Route), RouteAdd(new), set' \in BOOLEAN, UNCHANGED <<cache, pending, call, arp>>
  PROVE  IpInv'
<1>1. Len(routes) + Len(new) <= MaxRoutes /\ routes' = routes \o new /\ routes \in Seq(Route)
  BY DEF RouteAdd, IpInv
<1>2. /\ routes' \in Seq(Route) /\ Len(routes') = Len(routes) + Len(new)
      /\ \A i \in 1..Len(routes) : routes'[i] = routes[i]
  BY <1>1
<1>3. PICK i \in 1..Len(routes) : routes[i].net = "lo"
  BY DEF IpInv
<1>4. i \in 1..Len(routes') /\ routes'[i].net = "lo"
  BY <1>1, <1>2, <1>3
<1>5. CacheOK' /\ Parked'
  BY DEF IpInv, CacheOK, Parked
<1> QED BY <1>1, <1>2, <1>4, <1>5 DEF IpInv

LEMMA StepRoutes ==
  ASSUME IpAssumption, IpInv, NetCmdIfSet \/ AddDefault
  PROVE  IpInv'
<1> DEFINE lan == [net |-> "lan", gw |-> None, src |-> "me"]
           any == [net |-> "any", gw |-> "gw", src |-> "me"]
           all == [net |-> "any", gw |-> None, src |-> None]
<1>1. lan \in Route /\ any \in Route /\ all \in Route
  BY DEF Route
<1>2. CASE NetCmdIfSet
  <2>1. RouteAdd(<<lan, any>>) /\ set' = TRUE /\ UNCHANGED <<cache, pending, call, arp>>
    BY <1>2 DEF NetCmdIfSet
  <2> HIDE DEF lan, any, all
  <2>2. <<lan, any>> \in Seq(Route)
    BY <1>1
  <2> QED BY <2>1, <2>2, RoutesGrow
<1>3. CASE AddDefault
  <2>1. RouteAdd(<<all>>) /\ set' = set /\ UNCHANGED <<cache, pending, call, arp>>
    BY <1>3 DEF AddDefault
  <2> HIDE DEF lan, any, all
  <2>2. <<all>> \in Seq(Route)
    BY <1>1
  <2> QED BY <2>1, <2>2, RoutesGrow DEF IpInv
<1> QED BY <1>2, <1>3

(* The cache. *)
LEMMA OthersIs ==
  ASSUME IpAssumption, IpInv, NEW a
  PROVE  Others(a) \in Seq(Entry) /\ Len(Others(a)) <= CacheSize
<1> DEFINE T == {e \in Members(cache) : e.ip # a}
<1>1. cache \in Seq(Entry) /\ Len(cache) <= CacheSize
  BY DEF IpInv, CacheOK
<1>2. Others(a) = Kept(cache, T)
  BY DEF Others
<1> HIDE DEF T
<1>3. Kept(cache, T) \in Seq(Entry) /\ Len(Kept(cache, T)) <= Len(cache)
  BY <1>1, KeptMembers
<1>4. Len(Kept(cache, T)) \in Nat /\ Len(cache) \in Nat /\ CacheSize \in Nat
  BY <1>1, <1>3 DEF IpAssumption
<1> QED BY <1>1, <1>2, <1>3, <1>4

LEMMA AddedIs ==
  ASSUME IpAssumption, IpInv, NEW a \in Addr, a.host \in Station
  PROVE  Added(a, a.host) \in Seq(Entry) /\ Len(Added(a, a.host)) <= CacheSize
<1> DEFINE e == [ip |-> a, mac |-> a.host]
           rest == Others(a)
           room == IF Len(rest) = CacheSize THEN Tail(rest) ELSE rest
<1>1. e \in Entry
  BY DEF Entry
<1>2. Added(a, a.host) = Append(room, e)
  BY DEF Added
<1>3. rest \in Seq(Entry) /\ Len(rest) <= CacheSize
  BY OthersIs
<1> HIDE DEF e, rest
<1>4. room \in Seq(Entry) /\ Len(room) + 1 <= CacheSize
  BY <1>3 DEF IpAssumption
<1> HIDE DEF room
<1> QED BY <1>1, <1>2, <1>4

LEMMA StepCache ==
  ASSUME IpAssumption, IpInv, CacheOK', arp' \in Station \cup {None}, UNCHANGED <<routes, set, pending, call>>
  PROVE  IpInv'
BY DEF IpInv, Parked

LEMMA StepArp ==
  ASSUME IpAssumption, IpInv,
         NetCmdArp \/ PurgeExpired \/ \E p \in Station, op \in {"request", "reply"} : ArpInput(p, op)
  PROVE  IpInv'
<1>1. CASE NetCmdArp
  <2>1. PICK h \in Station : cache' = Added(Plain(h), h) \/ cache' = Others(Plain(h))
    BY <1>1 DEF NetCmdArp
  <2>2. Plain(h) \in Addr /\ Plain(h).host = h
    BY AddrIs DEF Hosts, Lan
  <2>3. CacheOK'
    BY <2>1, <2>2, AddedIs, OthersIs DEF CacheOK
  <2> QED BY <1>1, <2>3, StepCache DEF NetCmdArp, IpInv
<1>2. CASE PurgeExpired
  <2>1. cache # <<>> /\ cache' = Tail(cache) /\ cache \in Seq(Entry) /\ Len(cache) <= CacheSize
    BY <1>2 DEF PurgeExpired, IpInv, CacheOK
  <2>2. CacheOK'
    BY <2>1 DEF CacheOK, IpAssumption
  <2> QED BY <1>2, <2>2, StepCache DEF PurgeExpired, IpInv
<1>3. ASSUME NEW p \in Station, NEW op \in {"request", "reply"}, ArpInput(p, op) PROVE IpInv'
  <2>1. /\ cache' = Added(Wire(p), p) /\ arp' = (IF op = "reply" THEN p ELSE None)
        /\ UNCHANGED <<routes, set, pending, call>>
    BY <1>3 DEF ArpInput
  <2>2. Wire(p) \in Addr /\ Wire(p).host = p
    BY AddrIs DEF Hosts, Lan
  <2>3. CacheOK'
    BY <2>1, <2>2, AddedIs DEF CacheOK
  <2> QED BY <2>1, <2>3, StepCache
<1> QED BY <1>1, <1>2, <1>3

(* IpInv is inductive. *)
LEMMA IpStep ==
  ASSUME IpAssumption, IpInv, [IpNext]_ipVars
  PROVE  IpInv'
<1>1. CASE UNCHANGED ipVars
  BY <1>1 DEF ipVars, IpInv, CacheOK, Parked
<1>2. ASSUME NEW b \in Buf, Sends(b) PROVE IpInv'
  BY <1>2, StepOutput, StepResolve, StepQueue, StepEthernet DEF Sends
<1>3. ASSUME NEW b \in Buf, Receives(b) PROVE IpInv'
  BY <1>3, StepRx, StepInput DEF Receives
<1> QED BY <1>1, <1>2, <1>3, StepRoutes, StepArp, StepFlush, StepClock, StepTick DEF IpNext

LEMMA InvIsSound == ASSUME IpAssumption, IpInv PROVE PacketsSound
<1>1. IpTypeOK
  <2>1. cache \in Seq([ip : Addr, mac : Station]) /\ Len(cache) <= CacheSize
    <3> DEFINE E == [ip : Addr, mac : Station]
    <3>1. Entry \subseteq E
      BY DEF Entry
    <3> HIDE DEF E
    <3>2. cache \in Seq(E) /\ Len(cache) <= CacheSize
      BY <3>1 DEF IpInv, CacheOK
    <3> QED BY <3>2 DEF E
  <2>2. call \in [Buf -> CallRec]
    BY DEF IpInv, CallOK
  <2>3. \A s \in Slot : pending[s] \in PendRec
    BY DEF IpInv
  <2> QED BY <2>1, <2>2, <2>3 DEF IpInv, IpTypeOK, CallRec, PendRec, Pcs, Kinds
<1>2. BuffersHeld
  <2> SUFFICES ASSUME NEW b \in Buf
               PROVE  Cardinality({s \in Slot : pending[s].buf = b}) = IF call[b].pc = "pending" THEN 1 ELSE 0
    BY DEF BuffersHeld
  <2> DEFINE S == {s \in Slot : pending[s].buf = b}
  <2>1. CASE call[b].pc = "pending"
    <3>1. PICK s \in Slot : pending[s].buf = b
      BY <2>1 DEF IpInv, Parked
    <3>2. S = {s}
      BY <3>1 DEF IpInv, Parked
    <3> HIDE DEF S
    <3>3. Cardinality(S) = 1
      BY <3>2, FS_Singleton
    <3> QED BY <2>1, <3>3 DEF S
  <2>2. CASE call[b].pc # "pending"
    <3>1. S = {}
      BY <2>2 DEF IpInv, Parked
    <3> HIDE DEF S
    <3>2. Cardinality(S) = 0
      BY <3>1, FS_EmptySet
    <3> QED BY <2>2, <3>2 DEF S
  <2> QED BY <2>1, <2>2
<1>3. RightStation
  BY DEF IpInv, CallOK, RightStation
<1> QED BY <1>1, <1>2, <1>3 DEF PacketsSound

(* PacketsSound of IpV4: whatever threads send, the wire brings in and the     *)
(* timer expires, no buffer of a packet is lost or freed twice, and each goes  *)
(* to the station its next hop is (IpV4Output, ArpResolve, ArpQueuePacket,     *)
(* ArpInput and ArpTick).                                                      *)
THEOREM PacketsSoundAlways == IpAssumption => (IpSpec => []PacketsSound)
<1> SUFFICES ASSUME IpAssumption PROVE IpSpec => []PacketsSound
  OBVIOUS
<1>1. IpStart => IpInv
  BY IpInit
<1>2. IpInv /\ [IpNext]_ipVars => IpInv'
  BY IpStep
<1>3. IpInv => PacketsSound
  BY InvIsSound
<1> QED BY <1>1, <1>2, <1>3, PTL DEF IpSpec
------------------------------------------------------------------------------
(* TCP.  An initial sequence number, and beyond all that its connection sends. *)
Top == (MaxIss + 1) * IssStep
IssOf == {n * IssStep : n \in 0..MaxIss}
Number == 0..Top

Sequel == 0..MaxRcv
Tried == 0..MaxRetrans
Chunks == Seq(Number)
Arrived == Seq(1..MaxIn)
TcpRec == [state : State, own : BOOLEAN, iss : Number, una : Number, nxt : Number,
           end : Number, rcvNxt : Sequel, open : BOOLEAN, timer : BOOLEAN,
           tries : Tried, sendQ : Chunks, retransQ : Chunks, recvQ : Arrived]

(* The first number that is in one of the queues. *)
Front(k) == k.end - Len(k.retransQ) - Len(k.sendQ)
Steady(q, f) == \A i \in 1..Len(q) : q[i] = f + i - 1

(* What a connection has sent and queued. *)
StreamOK(k) ==
  /\ k.iss + 1 <= Front(k) /\ k.end <= k.nxt /\ k.nxt <= k.iss + MaxOut + 2
  /\ k.state \in {"ESTABLISHED", "CLOSE_WAIT"} => k.nxt = k.end /\ k.nxt <= k.iss + MaxOut + 1
  /\ Steady(k.retransQ, Front(k)) /\ Steady(k.sendQ, k.end - Len(k.sendQ))

SockOK(k) ==
  /\ k \in TcpRec /\ k.iss \in IssOf
  /\ k.state \in {"SYN_SENT", "SYN_RCVD"} => k.nxt = k.iss + 1 /\ k.end = k.iss + 1
  /\ k.state \in {"none", "CLOSED", "LISTEN", "SYN_SENT", "SYN_RCVD"} => k.sendQ = <<>> /\ k.retransQ = <<>>
  /\ k.state \in Data => StreamOK(k)

(* The lists of sockets. *)
Unlisted == {"none", "CLOSED", "LISTEN"}
ListsOK ==
  /\ sockets \in Seq(Sock) /\ accept \in Seq(Sock) /\ Len(accept) <= BackLog
  /\ Once(sockets) /\ Once(accept)
  /\ \A s \in Sock : ~(s \in Members(sockets) /\ s \in Members(accept))
  /\ \A s \in Sock : s \in Members(sockets) \/ s \in Members(accept) <=> sock[s].state \notin Unlisted

(* What is on its way to the station. *)
OutKinds == {"syn", "synack", "data", "fin"}
OutOK ==
  /\ out \subseteq [kind : OutKinds, seq : Number, ack : 0..MaxRcv]
  /\ \A m \in out : m.kind \in {"syn", "synack"} => m.seq \in IssOf
  /\ \A m \in out : m.kind \in {"data", "fin"} => m.seq < Top

PeerOK ==
  /\ peer \in [serves : BOOLEAN, shuts : BOOLEAN, irs : IssOf \cup {NoIss}, answered : SUBSET IssOf,
               rcv : Number, sent : 0..MaxIn, fin : BOOLEAN]
  /\ peer.irs = NoIss => peer.answered = {}
  /\ peer.irs # NoIss => peer.rcv >= peer.irs + 1

(* The station connects: nothing is sent before it has taken up an Iss, and    *)
(* this it does once.                                                          *)
Connects ==
  ~peer.serves =>
     /\ peer.answered = {}
     /\ \A s \in Sock : sock[s].state # "SYN_SENT"
     /\ peer.irs = NoIss => \A s \in Sock : sock[s].state \in {"none", "CLOSED", "LISTEN", "SYN_RCVD"}

(* The station serves: there is one socket, whose Iss is the last one taken,   *)
(* and once its data is on the way it takes no other.                          *)
Last == iss * IssStep
OneSocket ==
  /\ \A s, t \in Sock : sock[s].state # "none" /\ sock[t].state # "none" => s = t
  /\ \A s \in Sock : sock[s].state \notin {"LISTEN", "SYN_RCVD"}
  /\ \A s \in Sock : sock[s].state \notin {"none", "CLOSED"} => sock[s].iss = Last /\ iss >= 1
  /\ accept = <<>>
Connected == iss >= 1 /\ \A s \in Sock : sock[s].state \notin {"CLOSED", "SYN_SENT"}
Serves ==
  peer.serves =>
     /\ OneSocket
     /\ \A m \in out : /\ m.kind # "synack" /\ (m.kind = "syn" => m.seq <= Last)
                       /\ m.kind \in {"data", "fin"} => m.seq > Last /\ Connected
     /\ peer.irs # NoIss => peer.irs <= Last /\ (peer.rcv # peer.irs + 1 => peer.irs = Last /\ Connected)
     /\ \A i \in peer.answered : i <= Last
     /\ \A s \in Sock : sock[s].state \in Data /\ peer.irs # Last => Front(sock[s]) = Last + 1

(* What is not in the queues any more the station has. *)
Got == \A s \in Sock : sock[s].state \in Data /\ peer.irs = sock[s].iss => Front(sock[s]) <= peer.rcv

TcpInv ==
  /\ iss \in 0..MaxIss
  /\ DOMAIN sock = Sock /\ sock = [s \in Sock |-> sock[s]] /\ \A s \in Sock : SockOK(sock[s])
  /\ ListsOK /\ OutOK /\ PeerOK /\ Connects /\ Serves /\ Got

LEMMA Bases ==
  ASSUME TcpAssumption
  PROVE  /\ IssStep \in Nat /\ IssStep = MaxOut + 2 /\ Top \in Nat
         /\ \A n \in Nat : n * IssStep \in Nat /\ (n + 1) * IssStep = n * IssStep + IssStep
         /\ \A n \in 0..MaxIss : n * IssStep \in IssOf
         /\ IssOf \subseteq Number
         /\ \A k \in IssOf : k \in Nat /\ k + MaxOut + 2 <= Top
<1>1. IssStep \in Nat /\ IssStep = MaxOut + 2 /\ MaxIss \in Nat /\ MaxOut \in Nat
  BY DEF TcpAssumption, IssStep
<1> HIDE DEF IssStep
<1>2. \A n \in Nat : n * IssStep \in Nat /\ (n + 1) * IssStep = n * IssStep + IssStep
  BY <1>1
<1>3. Top \in Nat /\ Top = MaxIss * IssStep + IssStep
  BY <1>1, <1>2 DEF Top
<1>4. \A n \in 0..MaxIss : n * IssStep <= MaxIss * IssStep
  <2>1. ASSUME NEW n \in 0..MaxIss PROVE n * IssStep <= MaxIss * IssStep
    <3>1. MaxIss - n \in Nat /\ n \in Nat
      BY <1>1
    <3>2. (MaxIss - n) * IssStep \in Nat
      BY <1>2, <3>1
    <3>3. MaxIss * IssStep = n * IssStep + (MaxIss - n) * IssStep
      BY <1>1, <3>1
    <3> QED BY <1>1, <1>2, <3>1, <3>2, <3>3
  <2> QED BY <2>1
<1>5. \A k \in IssOf : k \in Nat /\ k + MaxOut + 2 <= Top
  BY <1>1, <1>2, <1>3, <1>4 DEF IssOf
<1>6. IssOf \subseteq Number
  BY <1>1, <1>3, <1>5 DEF Number
<1> QED BY <1>1, <1>2, <1>3, <1>5, <1>6 DEF IssOf

(* Membership in lists that are appended to, begun later, or filtered.         *)
LEMMA TailMembers ==
  ASSUME NEW T, NEW q \in Seq(T), q # <<>>, Once(q)
  PROVE  /\ Tail(q) \in Seq(T) /\ Len(Tail(q)) = Len(q) - 1 /\ Head(q) \in T /\ Once(Tail(q))
         /\ Members(q) = Members(Tail(q)) \cup {Head(q)} /\ Head(q) \notin Members(Tail(q))
<1> DEFINE r == Tail(q)
<1>1. r \in Seq(T) /\ Len(r) = Len(q) - 1 /\ Len(q) \in Nat \ {0} /\ \A i \in 1..Len(r) : r[i] = q[i + 1]
  OBVIOUS
<1>2. Head(q) = q[1] /\ q[1] \in T /\ DOMAIN r = 1..Len(r) /\ DOMAIN q = 1..Len(q)
  BY <1>1
<1> HIDE DEF r
<1>3. Once(r)
  <2>1. ASSUME NEW i \in 1..Len(r), NEW j \in 1..Len(r), r[i] = r[j] PROVE i = j
    <3>1. i + 1 \in 1..Len(q) /\ j + 1 \in 1..Len(q) /\ q[i + 1] = q[j + 1]
      BY <1>1, <2>1
    <3> QED BY <1>1, <3>1 DEF Once
  <2> QED BY <2>1 DEF Once
<1>4. Members(r) \subseteq Members(q)
  <2>1. \A i \in 1..Len(r) : i + 1 \in 1..Len(q)
    BY <1>1
  <2> QED BY <1>1, <1>2, <2>1 DEF Members
<1>5. Head(q) \in Members(q)
  BY <1>1, <1>2 DEF Members
<1>6. ASSUME NEW x \in Members(q), x # Head(q) PROVE x \in Members(r)
  <2>1. PICK i \in 1..Len(q) : x = q[i]
    BY <1>2 DEF Members
  <2>2. i - 1 \in 1..Len(r) /\ r[i - 1] = x
    BY <1>1, <1>2, <1>6, <2>1
  <2> QED BY <1>2, <2>2 DEF Members
<1>7. Head(q) \notin Members(r)
  <2> SUFFICES ASSUME NEW i \in 1..Len(r), r[i] = Head(q) PROVE FALSE
    BY <1>2 DEF Members
  <2>1. i + 1 \in 1..Len(q) /\ 1 \in 1..Len(q) /\ q[i + 1] = q[1]
    BY <1>1, <1>2
  <2>2. i + 1 = 1
    BY <2>1 DEF Once
  <2> QED BY <1>1, <2>2
<1> QED BY <1>1, <1>2, <1>3, <1>4, <1>5, <1>6, <1>7 DEF r

LEMMA WithoutIs ==
  ASSUME NEW q \in Seq(Sock), Once(q), NEW s \in Sock
  PROVE  /\ Without(q, s) \in Seq(Sock) /\ Len(Without(q, s)) <= Len(q) /\ Once(Without(q, s))
         /\ Members(Without(q, s)) = Members(q) \ {s}
<1> DEFINE S == Sock \ {s}
<1>1. Members(q) \subseteq Sock
  BY DEF Members
<1> HIDE DEF S
<1>2. Kept(q, S) \in Seq(Sock) /\ Len(Kept(q, S)) <= Len(q) /\ Members(Kept(q, S)) = Members(q) \cap S
  BY KeptMembers
<1>3. Once(Kept(q, S))
  BY KeptOnce
<1> QED BY <1>1, <1>2, <1>3 DEF Without, S

(* How often a socket is in a list. *)
LEMMA OnceCount ==
  ASSUME NEW q \in Seq(Sock), Once(q), NEW s
  PROVE  Cardinality({i \in DOMAIN q : q[i] = s}) = IF s \in Members(q) THEN 1 ELSE 0
<1> DEFINE I == {i \in DOMAIN q : q[i] = s}
<1>1. CASE s \in Members(q)
  <2>1. PICK i \in DOMAIN q : q[i] = s
    BY <1>1 DEF Members
  <2>2. I = {i}
    BY <2>1 DEF Once
  <2> HIDE DEF I
  <2>3. Cardinality(I) = 1
    BY <2>2, FS_Singleton
  <2> QED BY <1>1, <2>3 DEF I
<1>2. CASE s \notin Members(q)
  <2>1. I = {}
    BY <1>2 DEF Members
  <2> HIDE DEF I
  <2>2. Cardinality(I) = 0
    BY <2>1, FS_EmptySet
  <2> QED BY <1>2, <2>2 DEF I
<1> QED BY <1>1, <1>2

(* What is kept of a run of numbers from a on is the end of it. *)
LEMMA KeptFrom ==
  ASSUME NEW q \in Seq(Nat), NEW f \in Nat, Steady(q, f), NEW a \in Nat
  PROVE  \E d \in 0..Len(q) : /\ Unacked(q, a) \in Seq(Nat) /\ Len(Unacked(q, a)) = Len(q) - d
                              /\ Steady(Unacked(q, a), f + d) /\ (d = 0 \/ f + d <= a)
<1> DEFINE n == Len(q)
           S == {c \in Members(q) : c + 1 > a}
           k == Kept(q, S)
           d == IF a <= f THEN 0 ELSE IF a - f <= n THEN a - f ELSE n
<1>1. n \in Nat /\ DOMAIN q = 1..n /\ \A i \in 1..n : q[i] = f + i - 1
  BY DEF Steady
<1>2. d \in 0..n /\ (d = 0 \/ f + d <= a)
  BY <1>1
<1>3. \A i \in 1..n : q[i] \in S <=> i > d
  <2>1. ASSUME NEW i \in 1..n PROVE q[i] \in S <=> i > d
    <3>1. q[i] \in Members(q)
      BY <1>1 DEF Members
    <3>2. q[i] + 1 > a <=> i > d
      BY <1>1
    <3> QED BY <3>1, <3>2
  <2> QED BY <2>1
<1>4. Unacked(q, a) = k
  BY DEF Unacked
<1>5. PICK h : Picked(q, S, n, k, h)
  BY KeptIs
<1>6. k \in Seq(Nat) /\ Len(k) \in Nat
  BY KeptIs
<1> HIDE DEF S, k, d, n
<1>7. /\ h \in [1..Len(k) -> 1..n]
      /\ \A j \in 1..Len(k) : k[j] = q[h[j]] /\ h[j] > d
      /\ \A i, j \in 1..Len(k) : i < j => h[i] < h[j]
      /\ \A i \in 1..n : i > d => \E j \in 1..Len(k) : h[j] = i
  BY <1>3, <1>5 DEF Picked
<1>8. ASSUME NEW j \in Nat, \A i \in 1..j : i \in 1..Len(k) => h[i] = d + i, j + 1 \in 1..Len(k)
      PROVE  h[j + 1] = d + (j + 1)
  <2>1. h[j + 1] >= d + (j + 1)
    <3>1. CASE j = 0
      BY <1>2, <1>7, <1>8, <3>1
    <3>2. CASE j # 0
      <4>1. j \in 1..j /\ j \in 1..Len(k) /\ j < j + 1
        BY <1>6, <1>8, <3>2
      <4>2. h[j] = d + j /\ h[j] < h[j + 1]
        BY <1>7, <1>8, <4>1
      <4>3. h[j + 1] \in 1..n
        BY <1>7, <1>8
      <4> QED BY <1>1, <1>2, <4>2, <4>3
    <3> QED BY <3>1, <3>2
  <2>2. h[j + 1] \in 1..n
    BY <1>7, <1>8
  <2>3. CASE h[j + 1] > d + (j + 1)
    <3>1. d + (j + 1) \in 1..n /\ d + (j + 1) > d
      BY <1>1, <1>2, <2>2, <2>3
    <3>2. PICK i \in 1..Len(k) : h[i] = d + (j + 1)
      BY <1>7, <3>1
    <3>3. CASE i <= j
      <4>1. i \in 1..j
        BY <1>6, <3>3
      <4>2. h[i] = d + i
        BY <1>8, <4>1
      <4> QED BY <1>2, <1>6, <3>2, <3>3, <4>2
    <3>4. CASE i = j + 1
      <4>1. h[j + 1] = d + (j + 1)
        BY <3>2, <3>4
      <4> QED BY <1>2, <2>2, <2>3, <4>1
    <3>5. CASE i > j + 1
      <4>1. h[j + 1] < h[i]
        BY <1>7, <1>8, <3>5
      <4> QED BY <2>2, <2>3, <3>1, <3>2, <4>1
    <3> QED BY <1>6, <3>3, <3>4, <3>5
  <2>4. CASE h[j + 1] = d + (j + 1)
    BY <2>4
  <2> QED BY <1>2, <2>1, <2>2, <2>3, <2>4
<1>9. \A j \in 1..Len(k) : h[j] = d + j
  <2> DEFINE Q == {j \in Nat : \A i \in 1..j : i \in 1..Len(k) => h[i] = d + i}
  <2>1. 0 \in Q
    OBVIOUS
  <2>2. ASSUME NEW j \in Q PROVE j + 1 \in Q
    <3>1. j \in Nat /\ \A i \in 1..j : i \in 1..Len(k) => h[i] = d + i
      OBVIOUS
    <3>2. ASSUME NEW i \in 1..(j + 1), i \in 1..Len(k) PROVE h[i] = d + i
      <4>1. CASE i = j + 1
        <5>1. j + 1 \in 1..Len(k)
          BY <3>2, <4>1
        <5>2. h[j + 1] = d + (j + 1)
          BY <1>8, <3>1, <5>1
        <5> QED BY <4>1, <5>2
      <4>2. CASE i # j + 1
        <5>1. i \in 1..j
          BY <3>1, <3>2, <4>2
        <5> QED BY <3>1, <3>2, <5>1
      <4> QED BY <4>1, <4>2
    <3>3. j + 1 \in Nat
      BY <3>1
    <3> QED BY <3>2, <3>3
  <2> HIDE DEF Q
  <2>3. Q = Nat
    BY <2>1, <2>2, Counting DEF Q
  <2>4. ASSUME NEW j \in 1..Len(k) PROVE h[j] = d + j
    <3>1. j \in Q /\ j \in 1..j
      BY <1>6, <2>3
    <3> QED BY <3>1 DEF Q
  <2> QED BY <2>4
<1>10. Len(k) = n - d
  <2>1. CASE d = n
    <3>1. Len(k) = 0
      <4> SUFFICES ASSUME Len(k) # 0 PROVE FALSE
        OBVIOUS
      <4>1. 1 \in 1..Len(k)
        BY <1>6
      <4>2. h[1] \in 1..n /\ h[1] > d
        BY <1>7, <4>1
      <4> QED BY <1>1, <2>1, <4>2
    <3> QED BY <1>1, <2>1, <3>1
  <2>2. CASE d # n
    <3>1. n \in 1..n /\ n > d
      BY <1>1, <1>2, <2>2
    <3>2. PICK j \in 1..Len(k) : h[j] = n
      BY <1>7, <3>1
    <3>3. Len(k) \in 1..Len(k)
      BY <1>6, <3>2
    <3>4. h[Len(k)] = d + Len(k) /\ h[Len(k)] \in 1..n /\ d + j = n
      BY <1>7, <1>9, <3>2, <3>3
    <3> QED BY <1>1, <1>2, <1>6, <3>2, <3>4
  <2> QED BY <2>1, <2>2
<1>11. Steady(k, f + d)
  <2>1. ASSUME NEW j \in 1..Len(k) PROVE k[j] = (f + d) + j - 1
    <3>1. k[j] = q[h[j]] /\ h[j] = d + j /\ h[j] \in 1..n
      BY <1>7, <1>9
    <3>2. k[j] = f + (d + j) - 1
      BY <1>1, <3>1
    <3> QED BY <1>2, <1>6, <3>2
  <2> QED BY <2>1 DEF Steady
<1> QED BY <1>2, <1>4, <1>6, <1>10, <1>11 DEF n
------------------------------------------------------------------------------
(* The shapes a socket's record takes. *)
Same(y, k) == /\ y.own = k.own /\ y.iss = k.iss /\ y.nxt = k.nxt /\ y.end = k.end
              /\ y.sendQ = k.sendQ /\ y.retransQ = k.retransQ

ToState(k, v) == [k EXCEPT !.state = v]
ToOpen(k, v) == [k EXCEPT !.open = v]
ToTimer(k) == [k EXCEPT !.timer = FALSE]
ToTries(k, v) == [k EXCEPT !.tries = v]
ToRecv(k, q, n) == [k EXCEPT !.recvQ = q, !.rcvNxt = n]
ToGet(k, q, n) == [k EXCEPT !.rcvNxt = n, !.recvQ = q]
ToFin(k, v, n) == [k EXCEPT !.rcvNxt = n, !.state = v]
ToWait(k, v, n) == [k EXCEPT !.state = v, !.rcvNxt = n, !.timer = TRUE]
ToUp(k, v) == [k EXCEPT !.state = v, !.timer = FALSE]
ToConnected(k, v, a, n) == [k EXCEPT !.state = v, !.una = a, !.rcvNxt = n, !.timer = FALSE]
ToClosed(k, v, n) == [k EXCEPT !.state = v, !.nxt = n, !.timer = TRUE]
ToOpening(k, i, n, m, e) == [k EXCEPT !.iss = i, !.una = n, !.nxt = m, !.end = e, !.timer = TRUE]
ToSent(k, q, n, e) == [k EXCEPT !.sendQ = q, !.nxt = n, !.end = e]
ToMoved(k, q, r, b) == [k EXCEPT !.sendQ = q, !.retransQ = r, !.timer = b]
ToAcked(k, a, r, b, n) == [k EXCEPT !.una = a, !.retransQ = r, !.timer = b, !.tries = n]
ToBound(k, v, b) == [k EXCEPT !.state = v, !.own = b]
ToMade(k, v, b, n) == [k EXCEPT !.state = v, !.own = b, !.rcvNxt = n]

LEMMA SetState ==
  ASSUME NEW k \in TcpRec, NEW v \in State
  PROVE  LET y == ToState(k, v)
         IN  /\ y \in TcpRec
             /\ y.state = v /\ Same(y, k)
<1>1. ToState(k, v) \in TcpRec
  BY DEF TcpRec, ToState
<1>2. LET y == ToState(k, v)
      IN  /\ y.state = v /\ Same(y, k)
  BY DEF TcpRec, ToState, Same
<1> QED BY <1>1, <1>2

LEMMA SetOpen ==
  ASSUME NEW k \in TcpRec, NEW v \in BOOLEAN
  PROVE  LET y == ToOpen(k, v)
         IN  /\ y \in TcpRec
             /\ y.state = k.state /\ Same(y, k) /\ y.rcvNxt = k.rcvNxt
             /\ y.una = k.una /\ y.open = v /\ y.timer = k.timer /\ y.recvQ = k.recvQ
<1>1. ToOpen(k, v) \in TcpRec
  BY DEF TcpRec, ToOpen
<1>2. LET y == ToOpen(k, v)
      IN  /\ y.state = k.state /\ Same(y, k) /\ y.rcvNxt = k.rcvNxt
          /\ y.una = k.una /\ y.open = v /\ y.timer = k.timer /\ y.recvQ = k.recvQ
  BY DEF TcpRec, ToOpen, Same
<1> QED BY <1>1, <1>2

LEMMA SetTimer ==
  ASSUME NEW k \in TcpRec
  PROVE  LET y == ToTimer(k)
         IN  /\ y \in TcpRec
             /\ y.state = k.state /\ Same(y, k)
<1>1. ToTimer(k) \in TcpRec
  BY DEF TcpRec, ToTimer
<1>2. LET y == ToTimer(k)
      IN  /\ y.state = k.state /\ Same(y, k)
  BY DEF TcpRec, ToTimer, Same
<1> QED BY <1>1, <1>2

LEMMA SetTries ==
  ASSUME NEW k \in TcpRec, NEW v \in Tried
  PROVE  LET y == ToTries(k, v)
         IN  /\ y \in TcpRec
             /\ y.state = k.state /\ Same(y, k)
<1>1. ToTries(k, v) \in TcpRec
  BY DEF TcpRec, ToTries
<1>2. LET y == ToTries(k, v)
      IN  /\ y.state = k.state /\ Same(y, k)
  BY DEF TcpRec, ToTries, Same
<1> QED BY <1>1, <1>2

LEMMA SetRecv ==
  ASSUME NEW k \in TcpRec, NEW q \in Arrived, NEW n \in Sequel
  PROVE  LET y == ToRecv(k, q, n)
         IN  /\ y \in TcpRec
             /\ y.state = k.state /\ Same(y, k)
<1>1. ToRecv(k, q, n) \in TcpRec
  BY DEF TcpRec, ToRecv
<1>2. LET y == ToRecv(k, q, n)
      IN  /\ y.state = k.state /\ Same(y, k)
  BY DEF TcpRec, ToRecv, Same
<1> QED BY <1>1, <1>2

LEMMA SetGet ==
  ASSUME NEW k \in TcpRec, NEW q \in Arrived, NEW n \in Sequel
  PROVE  LET y == ToGet(k, q, n)
         IN  /\ y \in TcpRec
             /\ y.state = k.state /\ Same(y, k)
<1>1. ToGet(k, q, n) \in TcpRec
  BY DEF TcpRec, ToGet
<1>2. LET y == ToGet(k, q, n)
      IN  /\ y.state = k.state /\ Same(y, k)
  BY DEF TcpRec, ToGet, Same
<1> QED BY <1>1, <1>2

LEMMA SetFin ==
  ASSUME NEW k \in TcpRec, NEW v \in State, NEW n \in Sequel
  PROVE  LET y == ToFin(k, v, n)
         IN  /\ y \in TcpRec
             /\ y.state = v /\ Same(y, k)
<1>1. ToFin(k, v, n) \in TcpRec
  BY DEF TcpRec, ToFin
<1>2. LET y == ToFin(k, v, n)
      IN  /\ y.state = v /\ Same(y, k)
  BY DEF TcpRec, ToFin, Same
<1> QED BY <1>1, <1>2

LEMMA SetWait ==
  ASSUME NEW k \in TcpRec, NEW v \in State, NEW n \in Sequel
  PROVE  LET y == ToWait(k, v, n)
         IN  /\ y \in TcpRec
             /\ y.state = v /\ Same(y, k)
<1>1. ToWait(k, v, n) \in TcpRec
  BY DEF TcpRec, ToWait
<1>2. LET y == ToWait(k, v, n)
      IN  /\ y.state = v /\ Same(y, k)
  BY DEF TcpRec, ToWait, Same
<1> QED BY <1>1, <1>2

LEMMA SetUp ==
  ASSUME NEW k \in TcpRec, NEW v \in State
  PROVE  LET y == ToUp(k, v)
         IN  /\ y \in TcpRec
             /\ y.state = v /\ Same(y, k)
<1>1. ToUp(k, v) \in TcpRec
  BY DEF TcpRec, ToUp
<1>2. LET y == ToUp(k, v)
      IN  /\ y.state = v /\ Same(y, k)
  BY DEF TcpRec, ToUp, Same
<1> QED BY <1>1, <1>2

LEMMA SetConnected ==
  ASSUME NEW k \in TcpRec, NEW v \in State, NEW a \in Number, NEW n \in Sequel
  PROVE  LET y == ToConnected(k, v, a, n)
         IN  /\ y \in TcpRec
             /\ y.state = v /\ Same(y, k)
<1>1. ToConnected(k, v, a, n) \in TcpRec
  BY DEF TcpRec, ToConnected
<1>2. LET y == ToConnected(k, v, a, n)
      IN  /\ y.state = v /\ Same(y, k)
  BY DEF TcpRec, ToConnected, Same
<1> QED BY <1>1, <1>2

LEMMA SetClosed ==
  ASSUME NEW k \in TcpRec, NEW v \in State, NEW n \in Number
  PROVE  LET y == ToClosed(k, v, n)
         IN  /\ y \in TcpRec
             /\ y.state = v /\ y.own = k.own /\ y.iss = k.iss /\ y.nxt = n /\ y.end = k.end
             /\ y.sendQ = k.sendQ /\ y.retransQ = k.retransQ
<1>1. ToClosed(k, v, n) \in TcpRec
  BY DEF TcpRec, ToClosed
<1>2. LET y == ToClosed(k, v, n)
      IN  /\ y.state = v /\ y.own = k.own /\ y.iss = k.iss /\ y.nxt = n /\ y.end = k.end
          /\ y.sendQ = k.sendQ /\ y.retransQ = k.retransQ
  BY DEF TcpRec, ToClosed
<1> QED BY <1>1, <1>2

LEMMA SetOpening ==
  ASSUME NEW k \in TcpRec, NEW i \in Number, NEW n \in Number, NEW m \in Number, NEW e \in Number
  PROVE  LET y == ToOpening(k, i, n, m, e)
         IN  /\ y \in TcpRec
             /\ y.state = k.state /\ y.own = k.own /\ y.iss = i /\ y.nxt = m /\ y.end = e
             /\ y.sendQ = k.sendQ /\ y.retransQ = k.retransQ
<1>1. ToOpening(k, i, n, m, e) \in TcpRec
  BY DEF TcpRec, ToOpening
<1>2. LET y == ToOpening(k, i, n, m, e)
      IN  /\ y.state = k.state /\ y.own = k.own /\ y.iss = i /\ y.nxt = m /\ y.end = e
          /\ y.sendQ = k.sendQ /\ y.retransQ = k.retransQ
  BY DEF TcpRec, ToOpening
<1> QED BY <1>1, <1>2

LEMMA SetSent ==
  ASSUME NEW k \in TcpRec, NEW q \in Chunks, NEW n \in Number, NEW e \in Number
  PROVE  LET y == ToSent(k, q, n, e)
         IN  /\ y \in TcpRec
             /\ y.state = k.state /\ y.own = k.own /\ y.iss = k.iss /\ y.nxt = n /\ y.end = e
             /\ y.sendQ = q /\ y.retransQ = k.retransQ /\ y.rcvNxt = k.rcvNxt /\ y.open = k.open
<1>1. ToSent(k, q, n, e) \in TcpRec
  BY DEF TcpRec, ToSent
<1>2. LET y == ToSent(k, q, n, e)
      IN  /\ y.state = k.state /\ y.own = k.own /\ y.iss = k.iss /\ y.nxt = n /\ y.end = e
          /\ y.sendQ = q /\ y.retransQ = k.retransQ /\ y.rcvNxt = k.rcvNxt /\ y.open = k.open
  BY DEF TcpRec, ToSent
<1> QED BY <1>1, <1>2

LEMMA SetMoved ==
  ASSUME NEW k \in TcpRec, NEW q \in Chunks, NEW r \in Chunks, NEW b \in BOOLEAN
  PROVE  LET y == ToMoved(k, q, r, b)
         IN  /\ y \in TcpRec
             /\ y.state = k.state /\ y.own = k.own /\ y.iss = k.iss /\ y.nxt = k.nxt /\ y.end = k.end
             /\ y.sendQ = q /\ y.retransQ = r /\ y.rcvNxt = k.rcvNxt /\ y.recvQ = k.recvQ
<1>1. ToMoved(k, q, r, b) \in TcpRec
  BY DEF TcpRec, ToMoved
<1>2. LET y == ToMoved(k, q, r, b)
      IN  /\ y.state = k.state /\ y.own = k.own /\ y.iss = k.iss /\ y.nxt = k.nxt /\ y.end = k.end
          /\ y.sendQ = q /\ y.retransQ = r /\ y.rcvNxt = k.rcvNxt /\ y.recvQ = k.recvQ
  BY DEF TcpRec, ToMoved
<1> QED BY <1>1, <1>2

LEMMA SetAcked ==
  ASSUME NEW k \in TcpRec, NEW a \in Number, NEW r \in Chunks, NEW b \in BOOLEAN, NEW n \in Tried
  PROVE  LET y == ToAcked(k, a, r, b, n)
         IN  /\ y \in TcpRec
             /\ y.state = k.state /\ y.own = k.own /\ y.iss = k.iss /\ y.nxt = k.nxt /\ y.end = k.end
             /\ y.sendQ = k.sendQ /\ y.retransQ = r /\ y.rcvNxt = k.rcvNxt /\ y.recvQ = k.recvQ
<1>1. ToAcked(k, a, r, b, n) \in TcpRec
  BY DEF TcpRec, ToAcked
<1>2. LET y == ToAcked(k, a, r, b, n)
      IN  /\ y.state = k.state /\ y.own = k.own /\ y.iss = k.iss /\ y.nxt = k.nxt /\ y.end = k.end
          /\ y.sendQ = k.sendQ /\ y.retransQ = r /\ y.rcvNxt = k.rcvNxt /\ y.recvQ = k.recvQ
  BY DEF TcpRec, ToAcked
<1> QED BY <1>1, <1>2

LEMMA SetBound ==
  ASSUME NEW k \in TcpRec, NEW v \in State, NEW b \in BOOLEAN
  PROVE  LET y == ToBound(k, v, b)
         IN  /\ y \in TcpRec
             /\ y.state = v /\ y.own = b /\ y.iss = k.iss /\ y.sendQ = k.sendQ /\ y.retransQ = k.retransQ
<1>1. ToBound(k, v, b) \in TcpRec
  BY DEF TcpRec, ToBound
<1>2. LET y == ToBound(k, v, b)
      IN  /\ y.state = v /\ y.own = b /\ y.iss = k.iss /\ y.sendQ = k.sendQ /\ y.retransQ = k.retransQ
  BY DEF TcpRec, ToBound
<1> QED BY <1>1, <1>2

LEMMA SetMade ==
  ASSUME NEW k \in TcpRec, NEW v \in State, NEW b \in BOOLEAN, NEW n \in Sequel
  PROVE  LET y == ToMade(k, v, b, n)
         IN  /\ y \in TcpRec
             /\ y.state = v /\ y.own = b /\ y.rcvNxt = n /\ y.sendQ = k.sendQ /\ y.retransQ = k.retransQ
<1>1. ToMade(k, v, b, n) \in TcpRec
  BY DEF TcpRec, ToMade
<1>2. LET y == ToMade(k, v, b, n)
      IN  /\ y.state = v /\ y.own = b /\ y.rcvNxt = n /\ y.sendQ = k.sendQ /\ y.retransQ = k.retransQ
  BY DEF TcpRec, ToMade
<1> QED BY <1>1, <1>2

(* A socket that is made, one that is bound and one for a connection. *)
LEMMA NewSockets ==
  ASSUME TcpAssumption
  PROVE  /\ NoSocket \in TcpRec /\ SockOK(NoSocket) /\ NoSocket.state = "none"
         /\ \A own \in BOOLEAN :
              LET y == [NoSocket EXCEPT !.state = "CLOSED", !.own = own]
              IN  y \in TcpRec /\ SockOK(y) /\ y.state = "CLOSED" /\ y.own = own
         /\ \A own \in BOOLEAN :
              LET y == [NoSocket EXCEPT !.state = "SYN_RCVD", !.own = own, !.rcvNxt = 1]
              IN  /\ y \in TcpRec /\ y.state = "SYN_RCVD" /\ y.own = own /\ y.rcvNxt = 1
                  /\ y.sendQ = <<>> /\ y.retransQ = <<>>
<1> DEFINE none == <<>>
<1>1. none \in Chunks /\ none \in Arrived
  BY DEF Chunks, Arrived
<1>2. 0 \in Number /\ 0 \in IssOf /\ 0 \in Sequel /\ 1 \in Sequel /\ 0 \in Tried
  <2>1. MaxRcv \in Nat \ {0} /\ MaxRetrans \in Nat /\ MaxIss \in Nat /\ Top \in Nat
    BY Bases DEF TcpAssumption
  <2>2. 0 * IssStep = 0
    BY Bases
  <2> QED BY <2>1, <2>2 DEF Number, IssOf, Sequel, Tried
<1>3. NoSocket = [state |-> "none", own |-> FALSE, iss |-> 0, una |-> 0, nxt |-> 0, end |-> 0,
                  rcvNxt |-> 0, open |-> TRUE, timer |-> FALSE, tries |-> 0,
                  sendQ |-> none, retransQ |-> none, recvQ |-> none]
  BY DEF NoSocket
<1>4. SockOK(NoSocket) <=> NoSocket \in TcpRec
  BY <1>2, <1>3 DEF SockOK, Data
<1> HIDE DEF none
<1>5. NoSocket \in TcpRec /\ NoSocket.state = "none" /\ NoSocket.iss = 0
  BY <1>1, <1>2, <1>3 DEF TcpRec, State, Data
<1>6. NoSocket.sendQ = none /\ NoSocket.retransQ = none
  BY <1>3
<1>7. "CLOSED" \in State /\ "SYN_RCVD" \in State
  BY DEF State
<1>8. ASSUME NEW own \in BOOLEAN, NEW y, y = [NoSocket EXCEPT !.state = "CLOSED", !.own = own]
       PROVE  y \in TcpRec /\ SockOK(y) /\ y.state = "CLOSED" /\ y.own = own
  <2>1. y = ToBound(NoSocket, "CLOSED", own)
    BY <1>8 DEF ToBound
  <2>2. /\ y \in TcpRec
        /\ /\ y.state = "CLOSED" /\ y.own = own /\ y.iss = NoSocket.iss
           /\ y.sendQ = NoSocket.sendQ /\ y.retransQ = NoSocket.retransQ
    BY <1>5, <1>7, <2>1, SetBound
  <2> QED BY <1>2, <1>5, <1>6, <2>2 DEF SockOK, Data, none
<1>9. ASSUME NEW own \in BOOLEAN, NEW y, y = [NoSocket EXCEPT !.state = "SYN_RCVD", !.own = own, !.rcvNxt = 1]
       PROVE  /\ y \in TcpRec /\ y.state = "SYN_RCVD" /\ y.own = own /\ y.rcvNxt = 1
              /\ y.sendQ = none /\ y.retransQ = none
  <2>1. y = ToMade(NoSocket, "SYN_RCVD", own, 1)
    BY <1>9 DEF ToMade
  <2>2. /\ y \in TcpRec
        /\ /\ y.state = "SYN_RCVD" /\ y.own = own /\ y.rcvNxt = 1
           /\ y.sendQ = NoSocket.sendQ /\ y.retransQ = NoSocket.retransQ
    BY <1>2, <1>5, <1>7, <2>1, SetMade
  <2> QED BY <1>6, <2>2
<1> QED BY <1>4, <1>5, <1>8, <1>9 DEF none
------------------------------------------------------------------------------
(* What each of these does to the stream. *)
OpenStates == {"SYN_SENT", "SYN_RCVD"}
SendStates == {"ESTABLISHED", "CLOSE_WAIT"}

LEMMA Counted ==
  ASSUME TcpAssumption, NEW k \in TcpRec
  PROVE  /\ k.iss \in Nat /\ k.nxt \in Nat /\ k.end \in Nat /\ k.una \in Nat /\ k.state \in State
         /\ k.sendQ \in Seq(Number) /\ k.retransQ \in Seq(Number) /\ k.recvQ \in Seq(1..MaxIn)
         /\ Len(k.sendQ) \in Nat /\ Len(k.retransQ) \in Nat
         /\ k.rcvNxt \in 0..MaxRcv /\ k.rcvNxt \in Nat
<1>1. Number \subseteq Nat /\ 0..MaxRcv \subseteq Nat
  BY Bases DEF Number, TcpAssumption
<1>2. k.iss \in Number /\ k.nxt \in Number /\ k.end \in Number /\ k.una \in Number /\ k.rcvNxt \in 0..MaxRcv
  BY DEF TcpRec, Sequel
<1>3. k.sendQ \in Seq(Number) /\ k.retransQ \in Seq(Number) /\ k.recvQ \in Seq(1..MaxIn) /\ k.state \in State
  BY DEF TcpRec, Chunks, Arrived
<1>4. Len(k.sendQ) \in Nat /\ Len(k.retransQ) \in Nat
  BY <1>3
<1> QED BY <1>1, <1>2, <1>3, <1>4

LEMMA SameStream ==
  ASSUME TcpAssumption, NEW k, NEW y \in TcpRec, SockOK(k), Same(y, k),
         \/ y.state = k.state
         \/ k.state \in {"none", "CLOSED", "LISTEN"} /\ y.state \in {"CLOSED", "LISTEN"}
         \/ k.state \in OpenStates /\ y.state = "ESTABLISHED"
         \/ k.state \in Data /\ y.state \in Data /\ (y.state \in SendStates => k.state \in SendStates)
         \/ y.state = "TIME_WAIT"
  PROVE  SockOK(y) /\ Front(y) = Front(k)
<1>1. y.iss \in IssOf /\ Front(y) = Front(k)
  BY DEF SockOK, Same, Front
<1>2. k.state \in OpenStates => StreamOK(y)
  <2> SUFFICES ASSUME k.state \in OpenStates PROVE StreamOK(y)
    OBVIOUS
  <2> DEFINE none == <<>>
  <2>1. k.nxt = k.iss + 1 /\ k.end = k.iss + 1 /\ k.sendQ = none /\ k.retransQ = none
    BY DEF SockOK, OpenStates
  <2>2. Len(none) = 0
    OBVIOUS
  <2> HIDE DEF none
  <2>3. y.nxt = y.iss + 1 /\ y.end = y.iss + 1 /\ Len(y.sendQ) = 0 /\ Len(y.retransQ) = 0 /\ y.iss \in Nat
    BY <2>1, <2>2, Counted DEF Same
  <2>4. Front(y) = y.iss + 1 /\ MaxOut \in Nat
    BY <2>3 DEF Front, TcpAssumption
  <2>5. \A q, f : Len(q) = 0 => Steady(q, f)
    BY DEF Steady
  <2> QED BY <2>3, <2>4, <2>5 DEF StreamOK, SendStates
<1>3. k.state \in Data => StreamOK(k)
  BY DEF SockOK
<1>4. y.state \in Data /\ k.state \in Data => StreamOK(y)
  <2> SUFFICES ASSUME y.state \in Data, k.state \in Data PROVE StreamOK(y)
    OBVIOUS
  <2>1. StreamOK(k) /\ (y.state \in SendStates => k.state \in SendStates)
    BY <1>3 DEF OpenStates, Data, SendStates
  <2>2. y.iss = k.iss /\ y.nxt = k.nxt /\ y.end = k.end /\ y.sendQ = k.sendQ /\ y.retransQ = k.retransQ
    BY DEF Same
  <2> QED BY <1>1, <2>1, <2>2 DEF StreamOK, SendStates
<1> QED BY <1>1, <1>2, <1>4 DEF SockOK, Same, OpenStates, SendStates, Data, State

LEMMA Fresh ==
  ASSUME TcpAssumption, NEW k, SockOK(k), k.state \in OpenStates
  PROVE  Front(k) = k.iss + 1
<1> DEFINE none == <<>>
<1>1. k.end = k.iss + 1 /\ k.sendQ = none /\ k.retransQ = none /\ k \in TcpRec
  BY DEF SockOK, OpenStates
<1>2. Len(none) = 0
  OBVIOUS
<1> HIDE DEF none
<1>3. k.iss \in Nat
  BY <1>1, Counted
<1> QED BY <1>1, <1>2, <1>3 DEF Front

LEMMA OpeningIs ==
  ASSUME TcpAssumption, NEW k \in TcpRec, k.state \in OpenStates, k.sendQ = <<>>, k.retransQ = <<>>,
         NEW n \in 0..MaxIss
  PROVE  LET y == Opening(k, n)
         IN  SockOK(y) /\ y.state = k.state /\ y.iss = n * IssStep /\ y.own = k.own
<1> DEFINE i == n * IssStep
<1>1. i \in IssOf /\ i \in Number /\ i + 1 \in Number
  <2>1. i \in IssOf /\ i \in Nat /\ i + MaxOut + 2 <= Top /\ MaxOut \in Nat /\ Top \in Nat
    BY Bases DEF TcpAssumption
  <2> HIDE DEF i
  <2> QED BY <2>1 DEF Number
<1>2. Opening(k, n) = ToOpening(k, i, i, i + 1, i + 1)
  BY DEF Opening, ToOpening
<1> HIDE DEF i
<1>3. LET y == Opening(k, n)
      IN  /\ y \in TcpRec /\ y.state = k.state /\ y.own = k.own /\ y.iss = i /\ y.nxt = i + 1 /\ y.end = i + 1
          /\ y.sendQ = k.sendQ /\ y.retransQ = k.retransQ
  BY <1>1, <1>2, SetOpening
<1>4. k.state \notin Data
  BY DEF OpenStates, Data
<1> QED BY <1>1, <1>3, <1>4 DEF SockOK, OpenStates, i
(* Runs of numbers that are made longer or are cut. *)
LEMMA SteadyAppend ==
  ASSUME NEW T, T \subseteq Nat, NEW q \in Seq(T), NEW f \in Nat, Steady(q, f), NEW x \in T, x = f + Len(q)
  PROVE  Append(q, x) \in Seq(T) /\ Len(Append(q, x)) = Len(q) + 1 /\ Steady(Append(q, x), f)
<1> DEFINE r == Append(q, x)
<1>1. /\ r \in Seq(T) /\ Len(r) = Len(q) + 1 /\ Len(q) \in Nat
      /\ r[Len(q) + 1] = x /\ \A i \in 1..Len(q) : r[i] = q[i]
  OBVIOUS
<1> HIDE DEF r
<1>2. ASSUME NEW i \in 1..Len(r) PROVE r[i] = f + i - 1
  <2>1. CASE i = Len(q) + 1
    BY <1>1, <2>1
  <2>2. CASE i # Len(q) + 1
    <3>1. i \in 1..Len(q)
      BY <1>1, <2>2
    <3> QED BY <1>1, <3>1 DEF Steady
  <2> QED BY <2>1, <2>2
<1> QED BY <1>1, <1>2 DEF Steady, r

LEMMA SteadyMoved ==
  ASSUME NEW T, T \subseteq Nat, NEW q \in Seq(T), NEW p \in Seq(T), NEW f \in Nat,
         Steady(q, f), Steady(p, f + Len(q)), NEW n \in 0..Len(p)
  PROVE  LET r == q \o SubSeq(p, 1, n)
             s == SubSeq(p, n + 1, Len(p))
         IN  /\ r \in Seq(T) /\ Len(r) = Len(q) + n /\ Steady(r, f)
             /\ s \in Seq(T) /\ Len(s) = Len(p) - n /\ Steady(s, f + Len(q) + n)
<1> DEFINE r == q \o SubSeq(p, 1, n)
           s == SubSeq(p, n + 1, Len(p))
           u == SubSeq(p, 1, n)
<1>1. Len(q) \in Nat /\ Len(p) \in Nat
  OBVIOUS
<1>2. u \in Seq(T) /\ Len(u) = n /\ \A i \in 1..n : u[i] = p[i]
  OBVIOUS
<1>3. s \in Seq(T) /\ Len(s) = Len(p) - n /\ \A i \in 1..Len(s) : s[i] = p[n + i]
  OBVIOUS
<1> HIDE DEF u
<1>4. /\ r \in Seq(T) /\ Len(r) = Len(q) + n
      /\ \A i \in 1..Len(q) : r[i] = q[i]
      /\ \A i \in 1..n : r[Len(q) + i] = u[i]
  BY <1>1, <1>2 DEF u
<1> HIDE DEF r, s
<1>5. ASSUME NEW i \in 1..Len(r) PROVE r[i] = f + i - 1
  <2>1. CASE i <= Len(q)
    <3>1. i \in 1..Len(q)
      BY <2>1
    <3> QED BY <1>4, <3>1 DEF Steady
  <2>2. CASE i > Len(q)
    <3>1. i - Len(q) \in 1..n /\ i - Len(q) \in 1..Len(p) /\ Len(q) + (i - Len(q)) = i
      BY <1>1, <1>4, <2>2
    <3>2. r[i] = p[i - Len(q)]
      BY <1>2, <1>4, <3>1
    <3>3. p[i - Len(q)] = (f + Len(q)) + (i - Len(q)) - 1
      BY <3>1 DEF Steady
    <3> QED BY <1>1, <3>2, <3>3
  <2> QED BY <1>1, <2>1, <2>2
<1>6. ASSUME NEW i \in 1..Len(s) PROVE s[i] = (f + Len(q) + n) + i - 1
  <2>1. n + i \in 1..Len(p)
    BY <1>1, <1>3
  <2>2. p[n + i] = (f + Len(q)) + (n + i) - 1
    BY <2>1 DEF Steady
  <2> QED BY <1>1, <1>3, <2>1, <2>2
<1> QED BY <1>3, <1>4, <1>5, <1>6 DEF Steady, r, s

(* A stream between its first number and the last one given out. *)
LEMMA StreamBounds ==
  ASSUME TcpAssumption, NEW k, SockOK(k), k.state \in Data
  PROVE  /\ k \in TcpRec /\ StreamOK(k) /\ Front(k) \in Nat /\ Front(k) > k.iss
         /\ Front(k) + Len(k.retransQ) + Len(k.sendQ) = k.end
         /\ k.end - Len(k.sendQ) = Front(k) + Len(k.retransQ)
         /\ k.end <= k.nxt /\ k.nxt <= Top /\ k.iss + MaxOut + 2 <= Top
         /\ \A i \in 1..Len(k.retransQ) : k.retransQ[i] \in Number /\ k.retransQ[i] > k.iss /\ k.retransQ[i] < k.end
         /\ \A i \in 1..Len(k.sendQ) : k.sendQ[i] \in Number /\ k.sendQ[i] > k.iss /\ k.sendQ[i] < k.end
<1>1. k \in TcpRec /\ k.iss \in IssOf /\ StreamOK(k)
  BY DEF SockOK
<1>2. /\ k.iss \in Nat /\ k.nxt \in Nat /\ k.end \in Nat /\ Len(k.sendQ) \in Nat /\ Len(k.retransQ) \in Nat
      /\ k.sendQ \in Seq(Number) /\ k.retransQ \in Seq(Number)
  BY <1>1, Counted
<1>3. k.iss + MaxOut + 2 <= Top /\ MaxOut \in Nat /\ Top \in Nat
  BY <1>1, Bases DEF TcpAssumption
<1>4. k.iss + 1 <= Front(k) /\ k.end <= k.nxt /\ k.nxt <= k.iss + MaxOut + 2
  BY <1>1 DEF StreamOK
<1>5. /\ Front(k) \in Nat /\ Front(k) > k.iss /\ Front(k) + Len(k.retransQ) + Len(k.sendQ) = k.end
      /\ k.end - Len(k.sendQ) = Front(k) + Len(k.retransQ)
  <2> DEFINE e == k.end
             a == Len(k.retransQ)
             b == Len(k.sendQ)
             i == k.iss
             f == Front(k)
  <2>1. e \in Nat /\ a \in Nat /\ b \in Nat /\ i \in Nat /\ f = e - a - b /\ i + 1 <= f
    BY <1>2, <1>4 DEF Front
  <2> HIDE DEF e, a, b, i, f
  <2>2. f \in Nat /\ f > i /\ f + a + b = e /\ e - b = f + a
    BY <2>1
  <2> QED BY <2>2 DEF e, a, b, i, f
<1>6. ASSUME NEW i \in 1..Len(k.retransQ)
      PROVE  k.retransQ[i] \in Number /\ k.retransQ[i] > k.iss /\ k.retransQ[i] < k.end
  <2>1. k.retransQ[i] = Front(k) + i - 1
    BY <1>1 DEF StreamOK, Steady
  <2>2. k.retransQ[i] \in Number
    BY <1>2
  <2> DEFINE x == k.retransQ[i]
             f == Front(k)
             e == k.end
             a == Len(k.retransQ)
             b == Len(k.sendQ)
             n == k.iss
  <2>3. x = f + i - 1 /\ i \in 1..a /\ f + a + b = e /\ e - b = f + a /\ f > n
    BY <1>5, <2>1
  <2>4. f \in Nat /\ e \in Nat /\ a \in Nat /\ b \in Nat /\ n \in Nat
    BY <1>2, <1>5
  <2> HIDE DEF x, f, e, a, b, n
  <2>5. x > n /\ x < e
    BY <2>3, <2>4
  <2> QED BY <2>2, <2>5 DEF x, e, n
<1>7. ASSUME NEW i \in 1..Len(k.sendQ)
      PROVE  k.sendQ[i] \in Number /\ k.sendQ[i] > k.iss /\ k.sendQ[i] < k.end
  <2>1. k.sendQ[i] = (k.end - Len(k.sendQ)) + i - 1
    BY <1>1 DEF StreamOK, Steady
  <2>2. k.sendQ[i] \in Number
    BY <1>2
  <2> DEFINE x == k.sendQ[i]
             f == Front(k)
             e == k.end
             a == Len(k.retransQ)
             b == Len(k.sendQ)
             n == k.iss
  <2>3. x = (e - b) + i - 1 /\ i \in 1..b /\ f + a + b = e /\ e - b = f + a /\ f > n
    BY <1>5, <2>1
  <2>4. f \in Nat /\ e \in Nat /\ a \in Nat /\ b \in Nat /\ n \in Nat
    BY <1>2, <1>5
  <2> HIDE DEF x, f, e, a, b, n
  <2>5. x > n /\ x < e
    BY <2>3, <2>4
  <2> QED BY <2>2, <2>5 DEF x, e, n
<1> QED BY <1>1, <1>2, <1>3, <1>4, <1>5, <1>6, <1>7
(* A chunk that is given to TcpSend is the next of the stream. *)
LEMMA AppendedOK ==
  ASSUME TcpAssumption, NEW k, SockOK(k), k.state \in SendStates, k.nxt - k.iss <= MaxOut
  PROVE  LET y == [k EXCEPT !.sendQ = Append(@, k.nxt), !.nxt = @ + 1, !.end = @ + 1]
         IN  /\ SockOK(y) /\ y.state = k.state /\ y.iss = k.iss /\ y.rcvNxt = k.rcvNxt
             /\ Front(y) = Front(k)
<1> DEFINE q == Append(k.sendQ, k.nxt)
           y == ToSent(k, q, k.nxt + 1, k.end + 1)
<1>1. y = [k EXCEPT !.sendQ = Append(@, k.nxt), !.nxt = @ + 1, !.end = @ + 1]
  BY DEF ToSent
<1>2. k.state \in Data /\ k \in TcpRec /\ k.iss \in IssOf
  BY DEF SockOK, SendStates, Data
<1>3. /\ k.iss \in Nat /\ k.nxt \in Nat /\ k.end \in Nat /\ Len(k.sendQ) \in Nat /\ Len(k.retransQ) \in Nat
      /\ k.sendQ \in Seq(Number) /\ k.retransQ \in Seq(Number)
  BY <1>2, Counted
<1>4. /\ StreamOK(k) /\ Front(k) \in Nat /\ Front(k) > k.iss /\ k.iss + MaxOut + 2 <= Top
      /\ k.end - Len(k.sendQ) = Front(k) + Len(k.retransQ)
      /\ Front(k) + Len(k.retransQ) + Len(k.sendQ) = k.end
  BY <1>2, StreamBounds
<1>5. k.nxt = k.end
  BY <1>4 DEF StreamOK, SendStates
<1>6. MaxOut \in Nat /\ Top \in Nat /\ Number \subseteq Nat
  BY Bases DEF TcpAssumption, Number
<1>7. k.nxt \in Number /\ k.nxt + 1 \in Number /\ k.end + 1 \in Number
  <2> DEFINE x == k.nxt
             i == k.iss
  <2>1. x \in Nat /\ i \in Nat /\ x - i <= MaxOut /\ i + MaxOut + 2 <= Top
    BY <1>3, <1>4
  <2> HIDE DEF x, i
  <2>2. x \in 0..Top /\ x + 1 \in 0..Top
    BY <1>6, <2>1
  <2> QED BY <1>5, <2>2 DEF Number, x
<1>8. Steady(k.retransQ, Front(k)) /\ Steady(k.sendQ, k.end - Len(k.sendQ))
  BY <1>4 DEF StreamOK
<1>9. q \in Seq(Number) /\ Len(q) = Len(k.sendQ) + 1 /\ Steady(q, Front(k) + Len(k.retransQ))
  <2> DEFINE f == Front(k) + Len(k.retransQ)
  <2>1. f \in Nat /\ Steady(k.sendQ, f) /\ k.nxt = f + Len(k.sendQ)
    BY <1>3, <1>4, <1>5, <1>8
  <2> HIDE DEF f
  <2> QED BY <1>3, <1>6, <1>7, <2>1, SteadyAppend DEF f
<1> HIDE DEF q
<1>10. q \in Chunks
  BY <1>9 DEF Chunks
<1>11. /\ y \in TcpRec /\ y.state = k.state /\ y.own = k.own /\ y.iss = k.iss /\ y.nxt = k.nxt + 1 /\ y.end = k.end + 1
       /\ y.sendQ = q /\ y.retransQ = k.retransQ /\ y.rcvNxt = k.rcvNxt
  BY <1>2, <1>7, <1>10, SetSent
<1> HIDE DEF y
<1>12. Front(y) = Front(k) /\ y.end - Len(y.sendQ) = Front(k) + Len(k.retransQ)
  <2> DEFINE e == k.end
             a == Len(k.retransQ)
             c == Len(k.sendQ)
  <2>1. e \in Nat /\ a \in Nat /\ c \in Nat
    BY <1>3
  <2>2. y.end = e + 1 /\ Len(y.sendQ) = c + 1 /\ Len(y.retransQ) = a
    BY <1>9, <1>11
  <2>3. Front(k) = e - a - c /\ Front(y) = y.end - Len(y.retransQ) - Len(y.sendQ) /\ e - c = Front(k) + a
    BY <1>4 DEF Front
  <2> HIDE DEF e, a, c
  <2>4. (e + 1) - a - (c + 1) = e - a - c /\ (e + 1) - (c + 1) = e - c
    BY <2>1
  <2> QED BY <2>2, <2>3, <2>4 DEF a
<1>13. StreamOK(y)
  <2> DEFINE x == k.nxt
             i == k.iss
  <2>1. y.nxt = y.end /\ y.nxt <= y.iss + MaxOut + 1 /\ y.iss + 1 <= Front(y)
    <3>1. x \in Nat /\ i \in Nat /\ x - i <= MaxOut
      BY <1>3
    <3>2. y.nxt = x + 1 /\ y.end = x + 1 /\ y.iss = i /\ i + 1 <= Front(y)
      BY <1>4, <1>5, <1>11, <1>12 DEF StreamOK
    <3> HIDE DEF x, i
    <3>3. x + 1 <= i + MaxOut + 1
      BY <1>6, <3>1
    <3> QED BY <3>2, <3>3
  <2>2. y.end <= y.nxt /\ y.nxt <= y.iss + MaxOut + 2
    BY <1>3, <1>5, <1>6, <1>11
  <2>3. Steady(y.retransQ, Front(y)) /\ Steady(y.sendQ, y.end - Len(y.sendQ))
    BY <1>8, <1>9, <1>11, <1>12
  <2> QED BY <2>1, <2>2, <2>3 DEF StreamOK
<1>14. SockOK(y)
  BY <1>2, <1>11, <1>13 DEF SockOK, SendStates, Data
<1> QED BY <1>1, <1>11, <1>12, <1>14

(* What TcpSendFromQueue sends goes from one queue to the other. *)
LEMMA MovedOK ==
  ASSUME TcpAssumption, NEW k, SockOK(k), k.state \in Data, NEW n \in 0..Len(k.sendQ)
  PROVE  LET y == Moved(k, n)
         IN  /\ SockOK(y) /\ y.state = k.state /\ y.own = k.own /\ y.iss = k.iss
             /\ y.rcvNxt = k.rcvNxt /\ y.recvQ = k.recvQ /\ Front(y) = Front(k)
<1> DEFINE s == SubSeq(k.sendQ, n + 1, Len(k.sendQ))
           r == k.retransQ \o SubSeq(k.sendQ, 1, n)
           b == k.timer \/ n > 0
           y == ToMoved(k, s, r, b)
<1>1. y = Moved(k, n)
  BY DEF ToMoved, Moved
<1>2. k \in TcpRec /\ k.iss \in IssOf
  BY DEF SockOK
<1>3. /\ k.iss \in Nat /\ k.nxt \in Nat /\ k.end \in Nat /\ Len(k.sendQ) \in Nat /\ Len(k.retransQ) \in Nat
      /\ k.sendQ \in Seq(Number) /\ k.retransQ \in Seq(Number) /\ Number \subseteq Nat
  BY <1>2, Counted, Bases DEF Number
<1>4. /\ StreamOK(k) /\ Front(k) \in Nat
      /\ k.end - Len(k.sendQ) = Front(k) + Len(k.retransQ)
      /\ Front(k) + Len(k.retransQ) + Len(k.sendQ) = k.end
  BY <1>2, StreamBounds
<1>5. /\ s \in Seq(Number) /\ Len(s) = Len(k.sendQ) - n /\ Steady(s, Front(k) + Len(k.retransQ) + n)
      /\ r \in Seq(Number) /\ Len(r) = Len(k.retransQ) + n /\ Steady(r, Front(k))
  <2>1. Steady(k.retransQ, Front(k)) /\ Steady(k.sendQ, Front(k) + Len(k.retransQ))
    BY <1>4 DEF StreamOK
  <2> DEFINE f == Front(k)
             p == k.sendQ
             q == k.retransQ
  <2>2. /\ f \in Nat /\ Steady(q, f) /\ Steady(p, f + Len(q))
        /\ q \in Seq(Number) /\ p \in Seq(Number) /\ n \in 0..Len(p)
    BY <1>3, <1>4, <2>1
  <2> HIDE DEF f, p, q
  <2>3. LET u == q \o SubSeq(p, 1, n)
            v == SubSeq(p, n + 1, Len(p))
        IN  /\ u \in Seq(Number) /\ Len(u) = Len(q) + n /\ Steady(u, f)
            /\ v \in Seq(Number) /\ Len(v) = Len(p) - n /\ Steady(v, f + Len(q) + n)
    BY <1>3, <2>2, SteadyMoved
  <2> QED BY <2>3 DEF f, p, q
<1>6. b \in BOOLEAN
  OBVIOUS
<1> HIDE DEF s, r, b
<1>7. s \in Chunks /\ r \in Chunks
  BY <1>5 DEF Chunks
<1>8. /\ y \in TcpRec /\ y.state = k.state /\ y.own = k.own /\ y.iss = k.iss /\ y.nxt = k.nxt /\ y.end = k.end
      /\ y.sendQ = s /\ y.retransQ = r /\ y.rcvNxt = k.rcvNxt /\ y.recvQ = k.recvQ
  BY <1>2, <1>6, <1>7, SetMoved
<1> HIDE DEF y
<1>9. Front(y) = Front(k) /\ y.end - Len(y.sendQ) = Front(k) + Len(k.retransQ) + n
  <2> DEFINE e == k.end
             a == Len(k.retransQ)
             c == Len(k.sendQ)
  <2>1. e \in Nat /\ a \in Nat /\ c \in Nat /\ n \in Nat
    BY <1>3
  <2>2. y.end = e /\ Len(y.sendQ) = c - n /\ Len(y.retransQ) = a + n
    BY <1>5, <1>8
  <2>3. Front(k) = e - a - c /\ Front(y) = y.end - Len(y.retransQ) - Len(y.sendQ) /\ e - c = Front(k) + a
    BY <1>4 DEF Front
  <2> HIDE DEF e, a, c
  <2>4. e - (a + n) - (c - n) = e - a - c /\ e - (c - n) = (e - c) + n
    BY <2>1
  <2> QED BY <2>2, <2>3, <2>4 DEF a
<1>10. StreamOK(y)
  <2>1. Steady(y.retransQ, Front(y)) /\ Steady(y.sendQ, y.end - Len(y.sendQ))
    BY <1>5, <1>8, <1>9
  <2> QED BY <1>4, <1>8, <1>9, <2>1 DEF StreamOK
<1>11. SockOK(y)
  BY <1>2, <1>8, <1>10 DEF SockOK, Data
<1> QED BY <1>1, <1>8, <1>9, <1>11

(* An acknowledgement takes the first chunks, up to the number it has. *)
LEMMA AckedOK ==
  ASSUME TcpAssumption, NEW k, SockOK(k), k.state \in Data, NEW a \in Number
  PROVE  LET y == TcpAckData(k, a)
         IN  /\ SockOK(y) /\ y.state = k.state /\ y.own = k.own /\ y.iss = k.iss
             /\ y.rcvNxt = k.rcvNxt /\ y.recvQ = k.recvQ
             /\ Front(y) = Front(k) \/ Front(y) <= a
<1>1. CASE a <= k.una
  <2>1. TcpAckData(k, a) = k
    BY <1>1 DEF TcpAckData
  <2> QED BY <2>1
<1>2. CASE ~(a <= k.una)
  <2> DEFINE r == Unacked(k.retransQ, a)
             b == k.timer /\ r # <<>>
             n == IF r = <<>> THEN 0 ELSE k.tries
             y == ToAcked(k, a, r, b, n)
  <2>1. y = TcpAckData(k, a)
    BY <1>2 DEF ToAcked, TcpAckData
  <2>2. k \in TcpRec /\ k.iss \in IssOf
    BY DEF SockOK
  <2>3. /\ k.iss \in Nat /\ k.nxt \in Nat /\ k.end \in Nat /\ Len(k.sendQ) \in Nat /\ Len(k.retransQ) \in Nat
        /\ k.sendQ \in Seq(Number) /\ k.retransQ \in Seq(Number) /\ Number \subseteq Nat /\ a \in Nat
    BY <2>2, Counted, Bases DEF Number
  <2>4. /\ StreamOK(k) /\ Front(k) \in Nat
        /\ k.end - Len(k.sendQ) = Front(k) + Len(k.retransQ)
        /\ Front(k) + Len(k.retransQ) + Len(k.sendQ) = k.end
    BY <2>2, StreamBounds
  <2>5. PICK d \in 0..Len(k.retransQ) :
          /\ Len(r) = Len(k.retransQ) - d
          /\ Steady(r, Front(k) + d) /\ (d = 0 \/ Front(k) + d <= a)
    <3>1. Steady(k.retransQ, Front(k))
      BY <2>4 DEF StreamOK
    <3>2. k.retransQ \in Seq(Nat)
      <4> DEFINE A == Number
                 B == Nat
                 q == k.retransQ
      <4>1. q \in Seq(A) /\ A \subseteq B
        BY <2>3
      <4> HIDE DEF A, B, q
      <4>2. q \in Seq(B)
        BY <4>1
      <4> QED BY <4>2 DEF B, q
    <3> QED BY <2>3, <2>4, <3>1, <3>2, KeptFrom
  <2>6. r \in Chunks
    BY <2>3, KeptMembers DEF Unacked, Chunks
  <2>7. b \in BOOLEAN /\ n \in Tried
    <3>1. k.tries \in Tried /\ 0 \in Tried
      BY <2>2 DEF TcpRec, Tried, TcpAssumption
    <3> QED BY <3>1
  <2> HIDE DEF r, b, n
  <2>8. /\ y \in TcpRec /\ y.state = k.state /\ y.own = k.own /\ y.iss = k.iss /\ y.nxt = k.nxt /\ y.end = k.end
        /\ y.sendQ = k.sendQ /\ y.retransQ = r /\ y.rcvNxt = k.rcvNxt /\ y.recvQ = k.recvQ
    BY <2>2, <2>6, <2>7, SetAcked
  <2> HIDE DEF y
  <2>9. Front(y) = Front(k) + d /\ d \in Nat
    <3> DEFINE e == k.end
               m == Len(k.retransQ)
               c == Len(k.sendQ)
    <3>1. e \in Nat /\ m \in Nat /\ c \in Nat /\ d \in Nat
      BY <2>3
    <3>2. y.end = e /\ Len(y.sendQ) = c /\ Len(y.retransQ) = m - d
      BY <2>5, <2>8
    <3>3. Front(k) = e - m - c /\ Front(y) = y.end - Len(y.retransQ) - Len(y.sendQ)
      BY DEF Front
    <3> HIDE DEF e, m, c
    <3>4. e - (m - d) - c = (e - m - c) + d
      BY <3>1
    <3> QED BY <3>1, <3>2, <3>3, <3>4
  <2>10. StreamOK(y)
    <3>1. Steady(y.retransQ, Front(y)) /\ Steady(y.sendQ, y.end - Len(y.sendQ))
      BY <2>4, <2>5, <2>8, <2>9 DEF StreamOK
    <3>2. y.iss + 1 <= Front(y)
      BY <2>3, <2>4, <2>8, <2>9 DEF StreamOK
    <3> QED BY <2>4, <2>8, <3>1, <3>2 DEF StreamOK
  <2>11. SockOK(y)
    BY <2>2, <2>8, <2>10 DEF SockOK, Data
  <2>12. Front(y) = Front(k) \/ Front(y) <= a
    BY <2>4, <2>5, <2>9
  <2> QED BY <2>1, <2>8, <2>11, <2>12
<1> QED BY <1>1, <1>2

(* The number after the last chunk is that of the FIN. *)
LEMMA ClosedOK ==
  ASSUME TcpAssumption, NEW k, SockOK(k), k.state \in SendStates
  PROVE  LET y == [k EXCEPT !.state = IF @ = "ESTABLISHED" THEN "FIN_WAIT_1" ELSE "LAST_ACK",
                            !.nxt = @ + 1, !.timer = TRUE]
         IN  /\ SockOK(y) /\ y.state \in Data /\ y.iss = k.iss /\ Front(y) = Front(k)
             /\ k.nxt \in Number /\ k.nxt > k.iss /\ k.nxt < Top
<1> DEFINE v == IF k.state = "ESTABLISHED" THEN "FIN_WAIT_1" ELSE "LAST_ACK"
           y == ToClosed(k, v, k.nxt + 1)
<1>1. y = [k EXCEPT !.state = IF @ = "ESTABLISHED" THEN "FIN_WAIT_1" ELSE "LAST_ACK",
                    !.nxt = @ + 1, !.timer = TRUE]
  BY DEF ToClosed
<1>2. k.state \in Data /\ k \in TcpRec /\ k.iss \in IssOf
  BY DEF SockOK, SendStates, Data
<1>3. k.iss \in Nat /\ k.nxt \in Nat /\ k.end \in Nat /\ Len(k.sendQ) \in Nat /\ Len(k.retransQ) \in Nat
  BY <1>2, Counted
<1>4. /\ StreamOK(k) /\ Front(k) \in Nat /\ Front(k) > k.iss /\ k.iss + MaxOut + 2 <= Top
      /\ Front(k) + Len(k.retransQ) + Len(k.sendQ) = k.end
  BY <1>2, StreamBounds
<1>5. k.nxt = k.end /\ k.nxt <= k.iss + MaxOut + 1
  BY <1>4 DEF StreamOK, SendStates
<1>6. MaxOut \in Nat /\ Top \in Nat
  BY Bases DEF TcpAssumption
<1>7. k.nxt \in Number /\ k.nxt + 1 \in Number /\ k.nxt > k.iss /\ k.nxt < Top
  <2> DEFINE x == k.nxt
             i == k.iss
             f == Front(k)
             a == Len(k.retransQ)
             c == Len(k.sendQ)
  <2>1. x \in Nat /\ i \in Nat /\ f \in Nat /\ a \in Nat /\ c \in Nat
    BY <1>3, <1>4
  <2>2. x <= i + MaxOut + 1 /\ i + MaxOut + 2 <= Top /\ f > i /\ f + a + c = x
    BY <1>4, <1>5
  <2> HIDE DEF x, i, f, a, c
  <2>3. x \in 0..Top /\ x + 1 \in 0..Top /\ x > i /\ x < Top
    BY <1>6, <2>1, <2>2
  <2> QED BY <2>3 DEF Number, x, i
<1>8. v \in State /\ v \in Data /\ v \notin SendStates
  BY DEF State, Data, SendStates
<1> HIDE DEF v
<1>9. /\ y \in TcpRec /\ y.state = v /\ y.own = k.own /\ y.iss = k.iss /\ y.nxt = k.nxt + 1 /\ y.end = k.end
      /\ y.sendQ = k.sendQ /\ y.retransQ = k.retransQ
  BY <1>2, <1>7, <1>8, SetClosed
<1> HIDE DEF y
<1>10. Front(y) = Front(k)
  BY <1>9 DEF Front
<1>11. StreamOK(y)
  <2>1. y.end <= y.nxt /\ y.nxt <= y.iss + MaxOut + 2
    BY <1>3, <1>5, <1>6, <1>9
  <2> QED BY <1>4, <1>8, <1>9, <1>10, <2>1 DEF StreamOK, SendStates
<1>12. SockOK(y)
  BY <1>2, <1>8, <1>9, <1>11 DEF SockOK, Data
<1> QED BY <1>1, <1>7, <1>8, <1>9, <1>10, <1>12
------------------------------------------------------------------------------
(* What comes in answers what was sent. *)
LEMMA IncomingIs ==
  ASSUME TcpAssumption, TcpInv, NEW m \in Incoming
  PROVE  /\ m.kind \in {"syn", "synack", "ack", "data", "fin", "rst"}
         /\ m.kind = "syn" => ~peer.serves
         /\ m.kind = "data" => m.seq \in 1..MaxIn
         /\ m.kind # "syn" => peer.irs # NoIss /\ m.ack \in Number
         /\ m.kind = "synack" => peer.serves /\ \E i \in peer.answered : m.ack = i + 1
         /\ m.kind \notin {"syn", "synack"} => peer.irs + 1 <= m.ack /\ m.ack <= peer.rcv
<1>1. /\ peer.irs \in IssOf \cup {NoIss} /\ peer.answered \in SUBSET IssOf /\ peer.rcv \in Number /\ peer.sent \in 0..MaxIn
      /\ peer.irs = NoIss => peer.answered = {}
      /\ ~peer.serves => peer.answered = {}
  BY DEF TcpInv, PeerOK, Connects
<1>2. Top \in Nat /\ MaxOut \in Nat /\ MaxIn \in Nat /\ \A k \in IssOf : k \in Nat /\ k + MaxOut + 2 <= Top
  BY Bases DEF TcpAssumption
<1>3. \A a \in Acks : peer.irs # NoIss /\ a \in Number /\ peer.irs + 1 <= a /\ a <= peer.rcv
  BY <1>1, <1>2 DEF Acks, Number
<1>4. \A i \in peer.answered : i + 1 \in Number
  BY <1>1, <1>2 DEF Number
<1>5. CASE m \in IF peer.serves THEN {} ELSE {Segment("syn", 0, 0)}
  BY <1>5 DEF Segment
<1>6. CASE m \in {Segment("synack", 0, i + 1) : i \in peer.answered}
  BY <1>1, <1>4, <1>6 DEF Segment
<1>7. CASE m \in {Segment("ack", peer.sent + 1, a) : a \in Acks}
  BY <1>3, <1>7 DEF Segment
<1>8. CASE m \in {Segment("data", i, a) : i \in 1..peer.sent, a \in Acks}
  <2>1. PICK i \in 1..peer.sent, a \in Acks : m = Segment("data", i, a)
    BY <1>8
  <2>2. i \in 1..MaxIn
    BY <1>1, <1>2
  <2> QED BY <1>3, <2>1, <2>2 DEF Segment
<1>9. CASE m \in {Segment("fin", peer.sent + 1, a) : a \in IF peer.fin THEN Acks ELSE {}}
  BY <1>3, <1>9 DEF Segment
<1>10. CASE m \in {Segment("rst", 0, a) : a \in Acks}
  BY <1>3, <1>10 DEF Segment
<1> QED BY <1>5, <1>6, <1>7, <1>8, <1>9, <1>10 DEF Incoming

(* The first number in the queues of a socket, as Got and Serves bound it. *)
FrontOK(y) == /\ peer.irs = y.iss => Front(y) <= peer.rcv
              /\ peer.serves /\ peer.irs # Last => Front(y) = Last + 1

LEMMA FrontFresh ==
  ASSUME TcpAssumption, TcpInv, NEW s \in Sock, sock[s].state \in OpenStates, NEW y, y.iss = sock[s].iss,
         Front(y) = y.iss + 1
  PROVE  FrontOK(y)
<1>1. SockOK(sock[s]) /\ sock[s].iss \in IssOf /\ NoIss \notin Nat /\ IssOf \subseteq Nat
  BY Bases DEF TcpInv, SockOK, TcpAssumption
<1>2. peer.irs # NoIss => peer.rcv >= peer.irs + 1
  BY DEF TcpInv, PeerOK
<1>3. peer.serves => sock[s].iss = Last
  BY DEF TcpInv, Serves, OneSocket, OpenStates
<1>4. peer.rcv \in Nat
  BY Bases DEF TcpInv, PeerOK, Number
<1> QED BY <1>1, <1>2, <1>3, <1>4 DEF FrontOK

LEMMA FrontKept ==
  ASSUME TcpAssumption, TcpInv, NEW s \in Sock, sock[s].state \in Data, NEW y, y.iss = sock[s].iss,
         Front(y) = Front(sock[s])
  PROVE  FrontOK(y)
BY DEF TcpInv, Serves, Got, FrontOK

LEMMA FrontAcked ==
  ASSUME TcpAssumption, TcpInv, NEW s \in Sock, sock[s].state \in Data, NEW y, SockOK(y), y.iss = sock[s].iss,
         y.state \in Data, NEW m \in Incoming, m.kind # "syn", Front(y) <= m.ack
  PROVE  FrontOK(y)
<1>1. sock[s].iss \in IssOf /\ NoIss \notin Nat /\ IssOf \subseteq Nat /\ Number \subseteq Nat
  <2>1. SockOK(sock[s])
    BY DEF TcpInv
  <2>2. sock[s].iss \in IssOf
    BY <2>1 DEF SockOK
  <2>3. NoIss \notin Nat
    BY DEF TcpAssumption
  <2>4. Top \in Nat /\ IssOf \subseteq Number
    BY Bases
  <2>5. Number \subseteq Nat
    BY <2>4 DEF Number
  <2> QED BY <2>2, <2>3, <2>4, <2>5
<1>2. /\ peer.irs # NoIss /\ m.ack \in Nat
      /\ m.kind = "synack" => peer.serves /\ \E i \in peer.answered : m.ack = i + 1
      /\ m.kind # "synack" => peer.irs + 1 <= m.ack /\ m.ack <= peer.rcv
  BY <1>1, IncomingIs
<1>3. /\ peer.irs \in Nat /\ peer.rcv \in Nat /\ peer.answered \subseteq Nat /\ peer.rcv >= peer.irs + 1
  BY <1>1, <1>2 DEF TcpInv, PeerOK
<1>4. peer.serves => /\ sock[s].iss = Last /\ peer.irs <= Last /\ Last \in Nat
                     /\ peer.rcv # peer.irs + 1 => peer.irs = Last
                     /\ \A i \in peer.answered : i <= Last
  BY <1>1, <1>2 DEF TcpInv, Serves, OneSocket, Data
<1>5. Front(y) > y.iss /\ Front(y) \in Nat
  BY StreamBounds
<1>6. ASSUME peer.irs = y.iss PROVE Front(y) <= peer.rcv
  <2>1. m.ack <= peer.rcv
    <3>1. CASE m.kind = "synack"
      <4>1. PICK i \in peer.answered : m.ack = i + 1
        BY <1>2, <3>1
      <4>2. i <= Last /\ i \in Nat /\ peer.irs = Last /\ Last \in Nat
        BY <1>2, <1>3, <1>4, <1>6, <3>1
      <4> QED BY <1>3, <4>1, <4>2
    <3> QED BY <1>2, <3>1
  <2> QED BY <1>2, <1>3, <1>5, <2>1
<1>7. ASSUME peer.serves, peer.irs # Last PROVE Front(y) = Last + 1
  <2>1. m.ack <= Last + 1
    <3>1. CASE m.kind = "synack"
      BY <1>2, <1>3, <1>4, <1>7, <3>1
    <3>2. CASE m.kind # "synack"
      BY <1>2, <1>3, <1>4, <1>7, <3>2
    <3> QED BY <3>1, <3>2
  <2>2. y.iss = Last /\ Last \in Nat
    BY <1>4, <1>7
  <2> QED BY <1>2, <1>5, <2>1, <2>2
<1> QED BY <1>6, <1>7 DEF FrontOK

(* A segment that is sent of a stream. *)
OfStream(m, k) == /\ k.state \in Data
                  /\ m \in [kind : {"data", "fin"}, seq : Number, ack : 0..MaxRcv]
                  /\ m.seq > k.iss /\ m.seq < Top

(* A connected socket goes on. *)
LEMMA Evolve ==
  ASSUME TcpAssumption, TcpInv, NEW s \in Sock, NEW y,
         sock' = [sock EXCEPT ![s] = y], UNCHANGED <<sockets, accept, iss, peer>>,
         SockOK(y), y.iss = sock[s].iss, y.state \notin Unlisted, sock[s].state \notin Unlisted,
         y.state \in OpenStates => y.state = sock[s].state,
         y.state \in Data => FrontOK(y),
         ~peer.serves /\ peer.irs = NoIss => y.state = "SYN_RCVD",
         \A m \in out' : m \in out \/ OfStream(m, sock[s])
  PROVE  TcpInv'
<1> DEFINE k == sock[s]
<1>1. /\ DOMAIN sock = Sock /\ sock = [t \in Sock |-> sock[t]] /\ \A t \in Sock : SockOK(sock[t])
      /\ iss \in 0..MaxIss /\ ListsOK /\ OutOK /\ PeerOK /\ Connects /\ Serves /\ Got
  BY DEF TcpInv
<1>2. /\ \A t \in Sock : sock'[t] = IF t = s THEN y ELSE sock[t]
      /\ DOMAIN sock' = Sock
  BY <1>1
<1>3. sock' = [t \in Sock |-> sock'[t]]
  <2> DEFINE f == [t \in Sock |-> IF t = s THEN y ELSE sock[t]]
  <2>1. sock' = f
    BY <1>1
  <2> QED BY <1>2, <2>1
<1>4. \A t \in Sock : SockOK(sock'[t])
  BY <1>1, <1>2
<1>5. ListsOK'
  <2>1. \A t \in Sock : sock'[t].state \notin Unlisted <=> sock[t].state \notin Unlisted
    BY <1>2
  <2> QED BY <1>1, <2>1 DEF ListsOK
<1>6. OutOK'
  <2>1. out' \subseteq [kind : OutKinds, seq : Number, ack : 0..MaxRcv]
    BY <1>1 DEF OutOK, OfStream, OutKinds
  <2>2. \A m \in out' : m.kind \in {"syn", "synack"} => m.seq \in IssOf
    BY <1>1 DEF OutOK, OfStream
  <2>3. \A m \in out' : m.kind \in {"data", "fin"} => m.seq < Top
    BY <1>1 DEF OutOK, OfStream
  <2> QED BY <2>1, <2>2, <2>3 DEF OutOK
<1>7. PeerOK'
  BY <1>1 DEF PeerOK
<1>8. Connects'
  <2> SUFFICES ASSUME ~peer.serves PROVE Connects'
    BY DEF Connects
  <2>1. y.state # "SYN_SENT"
    BY <1>1 DEF Connects, OpenStates
  <2> QED BY <1>1, <1>2, <2>1 DEF Connects
<1>9. Serves'
  <2> SUFFICES ASSUME peer.serves PROVE Serves'
    BY DEF Serves
  <2>1. /\ OneSocket
        /\ \A m \in out : /\ m.kind # "synack" /\ (m.kind = "syn" => m.seq <= Last)
                          /\ m.kind \in {"data", "fin"} => m.seq > Last /\ Connected
        /\ peer.irs # NoIss => peer.irs <= Last /\ (peer.rcv # peer.irs + 1 => peer.irs = Last /\ Connected)
        /\ \A i \in peer.answered : i <= Last
        /\ \A t \in Sock : sock[t].state \in Data /\ peer.irs # Last => Front(sock[t]) = Last + 1
    BY <1>1 DEF Serves
  <2>2. k.iss = Last /\ iss >= 1 /\ k.state # "none" /\ k.state # "SYN_RCVD" /\ k.state # "CLOSED"
    BY <2>1 DEF OneSocket, Unlisted
  <2>3. Last' = Last
    BY DEF Last
  <2>4. OneSocket'
    <3>1. \A t \in Sock : sock'[t].state # "none" <=> sock[t].state # "none"
      BY <1>2, <2>2 DEF Unlisted
    <3>2. \A t \in Sock : sock'[t].state \notin {"LISTEN", "SYN_RCVD"}
      BY <1>2, <2>1, <2>2 DEF OneSocket, Unlisted, OpenStates
    <3>3. \A t \in Sock : sock'[t].state \notin {"none", "CLOSED"} => sock'[t].iss = Last /\ iss >= 1
      BY <1>2, <2>1, <2>2 DEF OneSocket
    <3>4. accept' = <<>>
      BY <2>1 DEF OneSocket
    <3> QED BY <2>1, <2>3, <3>1, <3>2, <3>3, <3>4 DEF OneSocket
  <2>5. k.state \in Data => Connected
    <3> SUFFICES ASSUME k.state \in Data, NEW t \in Sock PROVE sock[t].state \notin {"CLOSED", "SYN_SENT"}
      BY <2>2 DEF Connected
    <3>1. CASE t = s
      BY <3>1 DEF Data
    <3>2. CASE t # s
      BY <2>1, <2>2, <3>2 DEF OneSocket
    <3> QED BY <3>1, <3>2
  <2>6. Connected => Connected'
    BY <1>2 DEF Connected, Unlisted, OpenStates
  <2>7. ASSUME NEW m \in out'
        PROVE  /\ m.kind # "synack" /\ (m.kind = "syn" => m.seq <= Last)
               /\ m.kind \in {"data", "fin"} => m.seq > Last /\ Connected'
    <3>1. CASE m \in out
      BY <2>1, <2>6, <3>1
    <3>2. CASE OfStream(m, k)
      BY <2>2, <2>5, <2>6, <3>2 DEF OfStream
    <3> QED BY <3>1, <3>2
  <2>8. peer.irs # NoIss => peer.irs <= Last /\ (peer.rcv # peer.irs + 1 => peer.irs = Last /\ Connected')
    BY <2>1, <2>6
  <2>9. \A t \in Sock : sock'[t].state \in Data /\ peer.irs # Last => Front(sock'[t]) = Last + 1
    BY <1>2, <2>1 DEF FrontOK
  <2> QED BY <2>1, <2>3, <2>4, <2>7, <2>8, <2>9 DEF Serves
<1>10. Got'
  BY <1>1, <1>2 DEF Got, FrontOK
<1> QED BY <1>1, <1>2, <1>3, <1>4, <1>5, <1>6, <1>7, <1>8, <1>9, <1>10 DEF TcpInv
(* A socket is freed, and those that wait with it if it listens. *)
LEMMA Leaves ==
  ASSUME TcpAssumption, TcpInv, NEW s \in Sock, Gone(s), UNCHANGED <<iss, peer>>,
         \A m \in out' : m \in out \/ OfStream(m, sock[s])
  PROVE  TcpInv'
<1> DEFINE k == sock[s]
           Goes(t) == t = s \/ (s \in Listener /\ t \in Members(accept))
<1>1. /\ DOMAIN sock = Sock /\ sock = [t \in Sock |-> sock[t]] /\ \A t \in Sock : SockOK(sock[t])
      /\ iss \in 0..MaxIss /\ ListsOK /\ OutOK /\ PeerOK /\ Connects /\ Serves /\ Got
  BY DEF TcpInv
<1>2. /\ \A t \in Sock : sock'[t] = IF Goes(t) THEN NoSocket ELSE sock[t]
      /\ DOMAIN sock' = Sock /\ sock' = [t \in Sock |-> sock'[t]]
  BY DEF Gone
<1>3. SockOK(NoSocket) /\ NoSocket.state = "none"
  BY NewSockets
<1>4. \A t \in Sock : SockOK(sock'[t])
  BY <1>1, <1>2, <1>3
<1>5. \A t \in Sock : sock'[t].state = "none" \/ sock'[t] = sock[t]
  BY <1>2, <1>3
<1>6. ListsOK'
  <2>1. /\ sockets \in Seq(Sock) /\ accept \in Seq(Sock) /\ Len(accept) <= BackLog
        /\ Once(sockets) /\ Once(accept)
        /\ \A t \in Sock : ~(t \in Members(sockets) /\ t \in Members(accept))
        /\ \A t \in Sock : t \in Members(sockets) \/ t \in Members(accept) <=> sock[t].state \notin Unlisted
    BY <1>1 DEF ListsOK
  <2>2. /\ sockets' \in Seq(Sock) /\ Once(sockets') /\ Members(sockets') = Members(sockets) \ {s}
    BY <2>1, WithoutIs DEF Gone
  <2>3. /\ accept' \in Seq(Sock) /\ Once(accept') /\ Len(accept') <= BackLog
        /\ Members(accept') = IF s \in Listener THEN {} ELSE Members(accept) \ {s}
    <3>1. CASE s \in Listener
      <4> DEFINE none == <<>>
      <4>1. accept' = none
        BY <3>1 DEF Gone
      <4>2. none \in Seq(Sock) /\ Once(none) /\ Len(none) = 0 /\ Members(none) = {}
        BY DEF Once, Members
      <4>3. BackLog \in Nat
        BY DEF TcpAssumption
      <4> HIDE DEF none
      <4> QED BY <3>1, <4>1, <4>2, <4>3
    <3>2. CASE s \notin Listener
      <4>1. accept' = Without(accept, s)
        BY <3>2 DEF Gone
      <4>2. /\ Without(accept, s) \in Seq(Sock) /\ Len(Without(accept, s)) <= Len(accept) /\ Once(Without(accept, s))
            /\ Members(Without(accept, s)) = Members(accept) \ {s}
        BY <2>1, WithoutIs
      <4>3. Len(Without(accept, s)) \in Nat /\ Len(accept) \in Nat /\ BackLog \in Nat
        BY <2>1, <4>2 DEF TcpAssumption
      <4> HIDE DEF Without
      <4> QED BY <2>1, <3>2, <4>1, <4>2, <4>3
    <3> QED BY <3>1, <3>2
  <2>4. ASSUME NEW t \in Sock
        PROVE  /\ ~(t \in Members(sockets') /\ t \in Members(accept'))
               /\ t \in Members(sockets') \/ t \in Members(accept') <=> sock'[t].state \notin Unlisted
    <3>1. CASE Goes(t)
      <4>1. sock'[t].state \in Unlisted
        BY <1>2, <1>3, <3>1 DEF Unlisted
      <4>2. t \notin Members(sockets') /\ t \notin Members(accept')
        BY <2>1, <2>2, <2>3, <3>1
      <4> QED BY <4>1, <4>2
    <3>2. CASE ~Goes(t)
      <4>1. sock'[t] = sock[t]
        BY <1>2, <3>2
      <4>2. t \in Members(sockets') <=> t \in Members(sockets)
        BY <2>2, <3>2
      <4>3. t \in Members(accept') <=> t \in Members(accept)
        BY <2>3, <3>2
      <4> QED BY <2>1, <4>1, <4>2, <4>3
    <3> QED BY <3>1, <3>2
  <2> QED BY <2>2, <2>3, <2>4 DEF ListsOK
<1>7. OutOK'
  <2>1. out' \subseteq [kind : OutKinds, seq : Number, ack : 0..MaxRcv]
    BY <1>1 DEF OutOK, OfStream, OutKinds
  <2>2. \A m \in out' : m.kind \in {"syn", "synack"} => m.seq \in IssOf
    BY <1>1 DEF OutOK, OfStream
  <2>3. \A m \in out' : m.kind \in {"data", "fin"} => m.seq < Top
    BY <1>1 DEF OutOK, OfStream
  <2> QED BY <2>1, <2>2, <2>3 DEF OutOK
<1>8. PeerOK'
  BY <1>1 DEF PeerOK
<1>9. Connects'
  BY <1>1, <1>5 DEF Connects
<1>10. Serves'
  <2> SUFFICES ASSUME peer.serves PROVE Serves'
    BY DEF Serves
  <2>1. /\ OneSocket
        /\ \A m \in out : /\ m.kind # "synack" /\ (m.kind = "syn" => m.seq <= Last)
                          /\ m.kind \in {"data", "fin"} => m.seq > Last /\ Connected
        /\ peer.irs # NoIss => peer.irs <= Last /\ (peer.rcv # peer.irs + 1 => peer.irs = Last /\ Connected)
        /\ \A i \in peer.answered : i <= Last
        /\ \A t \in Sock : sock[t].state \in Data /\ peer.irs # Last => Front(sock[t]) = Last + 1
    BY <1>1 DEF Serves
  <2>2. Last' = Last
    BY DEF Last
  <2>3. accept' = <<>>
    <3> DEFINE none == <<>>
    <3>1. s \notin Listener /\ accept = none
      BY <2>1 DEF OneSocket, Listener
    <3>2. none \in Seq(Sock) /\ Members(none) = {} /\ Once(none)
      BY DEF Members, Once
    <3>3. accept' = Without(accept, s)
      BY <3>1 DEF Gone
    <3> HIDE DEF none
    <3>4. Kept(none, Sock \ {s}) = none
      BY <3>2, KeptAll
    <3> QED BY <3>1, <3>3, <3>4 DEF Without, none
  <2>4. OneSocket'
    <3>1. \A t \in Sock : sock'[t].state # "none" => sock'[t] = sock[t]
      BY <1>5
    <3>2. \A t, u \in Sock : sock'[t].state # "none" /\ sock'[u].state # "none" => t = u
      BY <2>1, <3>1 DEF OneSocket
    <3>3. \A t \in Sock : sock'[t].state \notin {"LISTEN", "SYN_RCVD"}
      BY <2>1, <3>1 DEF OneSocket
    <3>4. \A t \in Sock : sock'[t].state \notin {"none", "CLOSED"} => sock'[t].iss = Last /\ iss >= 1
      BY <2>1, <3>1 DEF OneSocket
    <3> QED BY <2>2, <2>3, <3>2, <3>3, <3>4 DEF OneSocket
  <2>5. k.state \in Data => Connected
    <3> SUFFICES ASSUME k.state \in Data PROVE Connected
      OBVIOUS
    <3>1. iss >= 1
      BY <2>1 DEF OneSocket, Data
    <3>2. ASSUME NEW t \in Sock PROVE sock[t].state \notin {"CLOSED", "SYN_SENT"}
      <4>1. CASE t = s
        BY <4>1 DEF Data
      <4>2. CASE t # s
        BY <2>1, <4>2 DEF OneSocket, Data
      <4> QED BY <4>1, <4>2
    <3> QED BY <3>1, <3>2 DEF Connected
  <2>6. Connected => Connected'
    BY <1>5 DEF Connected
  <2>7. ASSUME NEW m \in out'
        PROVE  /\ m.kind # "synack" /\ (m.kind = "syn" => m.seq <= Last)
               /\ m.kind \in {"data", "fin"} => m.seq > Last /\ Connected'
    <3>1. CASE m \in out
      BY <2>1, <2>6, <3>1
    <3>2. CASE OfStream(m, k)
      <4>1. k.iss = Last
        BY <2>1, <3>2 DEF OneSocket, OfStream, Data
      <4> QED BY <2>5, <2>6, <3>2, <4>1 DEF OfStream
    <3> QED BY <3>1, <3>2
  <2>8. peer.irs # NoIss => peer.irs <= Last /\ (peer.rcv # peer.irs + 1 => peer.irs = Last /\ Connected')
    BY <2>1, <2>6
  <2>9. \A t \in Sock : sock'[t].state \in Data /\ peer.irs # Last => Front(sock'[t]) = Last + 1
    BY <1>5, <2>1 DEF Data
  <2> QED BY <2>1, <2>2, <2>4, <2>7, <2>8, <2>9 DEF Serves
<1>11. Got'
  BY <1>1, <1>5 DEF Got, Data
<1> QED BY <1>1, <1>2, <1>4, <1>6, <1>7, <1>8, <1>9, <1>10, <1>11 DEF TcpInv
(* What is on a list is a socket that is connected, in one place. *)
LEMMA Listing ==
  ASSUME TcpAssumption, TcpInv
  PROVE  /\ \A s \in Sock : s \in Members(sockets) \/ s \in Members(accept) <=> sock[s].state \notin Unlisted
         /\ \A s \in Members(sockets) : s \in Sock /\ sock[s].state \notin Unlisted
         /\ \A s \in Sock : s \in Free => s \notin Members(sockets) /\ s \notin Members(accept) /\ sock[s].state = "none"
<1>1. /\ sockets \in Seq(Sock)
      /\ \A s \in Sock : s \in Members(sockets) \/ s \in Members(accept) <=> sock[s].state \notin Unlisted
  BY DEF TcpInv, ListsOK
<1>2. Members(sockets) \subseteq Sock
  BY <1>1 DEF Members
<1> QED BY <1>1, <1>2 DEF Free, Unlisted

(* TcpBind, TcpListen and TcpAccept. *)
LEMMA Binds ==
  ASSUME TcpAssumption, TcpInv, NEW s \in Sock, NEW own \in BOOLEAN, TcpBind(s, own)
  PROVE  TcpInv'
<1> DEFINE y == [NoSocket EXCEPT !.state = "CLOSED", !.own = own]
<1>1. /\ DOMAIN sock = Sock /\ sock = [t \in Sock |-> sock[t]] /\ \A t \in Sock : SockOK(sock[t])
      /\ iss \in 0..MaxIss /\ ListsOK /\ OutOK /\ PeerOK /\ Connects /\ Serves /\ Got
  BY DEF TcpInv
<1>2. NoSocket.state = "none" /\ SockOK(y) /\ y.state = "CLOSED"
  BY NewSockets
<1>3. sock' = [sock EXCEPT ![s] = y] /\ UNCHANGED <<sockets, accept, iss, out, peer>>
  BY DEF TcpBind
<1> HIDE DEF y
<1>4. \A t \in Sock : sock[t].state = "none"
  BY <1>2 DEF TcpBind
<1>5. /\ \A t \in Sock : sock'[t] = IF t = s THEN y ELSE sock[t]
      /\ DOMAIN sock' = Sock
  BY <1>1, <1>3
<1>6. sock' = [t \in Sock |-> sock'[t]]
  <2> DEFINE f == [t \in Sock |-> IF t = s THEN y ELSE sock[t]]
  <2>1. sock' = f
    BY <1>1, <1>3
  <2> QED BY <1>5, <2>1
<1>7. iss = 0 /\ Last = 0
  BY Bases DEF TcpBind, Last
<1>8. ListsOK'
  <2>1. \A t \in Sock : sock'[t].state \notin Unlisted <=> sock[t].state \notin Unlisted
    BY <1>2, <1>4, <1>5 DEF Unlisted
  <2> QED BY <1>1, <1>3, <2>1 DEF ListsOK
<1>9. OutOK' /\ PeerOK'
  BY <1>1, <1>3 DEF OutOK, PeerOK
<1>10. Connects'
  BY <1>1, <1>2, <1>3, <1>5 DEF Connects
<1>11. Serves'
  <2> SUFFICES ASSUME peer.serves PROVE Serves'
    BY <1>3 DEF Serves
  <2>1. /\ accept = <<>> /\ ~Connected /\ Last' = Last
        /\ \A m \in out : m.kind # "synack" /\ (m.kind = "syn" => m.seq <= Last) /\ m.kind \notin {"data", "fin"}
        /\ peer.irs # NoIss => peer.irs <= Last /\ peer.rcv = peer.irs + 1
        /\ \A i \in peer.answered : i <= Last
    BY <1>1, <1>3, <1>7 DEF Serves, OneSocket, Connected, Last
  <2>2. \A t \in Sock : sock'[t].state \in {"none", "CLOSED"} /\ (t # s => sock'[t].state = "none")
    BY <1>2, <1>4, <1>5
  <2>3. OneSocket'
    BY <1>3, <2>1, <2>2 DEF OneSocket
  <2> QED BY <1>3, <2>1, <2>2, <2>3 DEF Serves, Data
<1>12. Got'
  <2>1. \A t \in Sock : sock'[t].state \notin Data
    BY <1>2, <1>4, <1>5 DEF Data
  <2> QED BY <2>1 DEF Got
<1> QED BY <1>1, <1>2, <1>3, <1>5, <1>6, <1>8, <1>9, <1>10, <1>11, <1>12 DEF TcpInv

LEMMA Listens ==
  ASSUME TcpAssumption, TcpInv, NEW s \in Sock, TcpListen(s)
  PROVE  TcpInv'
<1> DEFINE y == ToState(sock[s], "LISTEN")
<1>1. /\ DOMAIN sock = Sock /\ sock = [t \in Sock |-> sock[t]] /\ \A t \in Sock : SockOK(sock[t])
      /\ iss \in 0..MaxIss /\ ListsOK /\ OutOK /\ PeerOK /\ Connects /\ Serves /\ Got
  BY DEF TcpInv
<1>2. sock' = [sock EXCEPT ![s] = y] /\ UNCHANGED <<sockets, accept, iss, out, peer>>
  BY <1>1 DEF TcpListen, ToState
<1>3. SockOK(y) /\ y.state = "LISTEN"
  <2>1. sock[s].state = "CLOSED" /\ SockOK(sock[s]) /\ sock[s] \in TcpRec /\ "LISTEN" \in State
    BY <1>1 DEF TcpListen, SockOK, State
  <2>2. y \in TcpRec /\ y.state = "LISTEN" /\ Same(y, sock[s])
    BY <2>1, SetState
  <2> HIDE DEF y
  <2> QED BY <2>1, <2>2, SameStream
<1> HIDE DEF y
<1>4. /\ \A t \in Sock : sock'[t] = IF t = s THEN y ELSE sock[t]
      /\ DOMAIN sock' = Sock
  BY <1>1, <1>2
<1>5. sock' = [t \in Sock |-> sock'[t]]
  <2> DEFINE f == [t \in Sock |-> IF t = s THEN y ELSE sock[t]]
  <2>1. sock' = f
    BY <1>1, <1>2
  <2> QED BY <1>4, <2>1
<1>6. ListsOK'
  <2>1. \A t \in Sock : sock'[t].state \notin Unlisted <=> sock[t].state \notin Unlisted
    BY <1>3, <1>4 DEF Unlisted, TcpListen
  <2> QED BY <1>1, <1>2, <2>1 DEF ListsOK
<1>7. OutOK' /\ PeerOK' /\ Serves'
  BY <1>1, <1>2 DEF OutOK, PeerOK, Serves, TcpListen
<1>8. Connects'
  BY <1>1, <1>2, <1>3, <1>4 DEF Connects
<1>9. Got'
  BY <1>1, <1>2, <1>3, <1>4 DEF Got, Data
<1> QED BY <1>1, <1>2, <1>3, <1>4, <1>5, <1>6, <1>7, <1>8, <1>9 DEF TcpInv

LEMMA Accepts ==
  ASSUME TcpAssumption, TcpInv, TcpAccept
  PROVE  TcpInv'
<1>1. /\ DOMAIN sock = Sock /\ sock = [t \in Sock |-> sock[t]] /\ \A t \in Sock : SockOK(sock[t])
      /\ iss \in 0..MaxIss /\ ListsOK /\ OutOK /\ PeerOK /\ Connects /\ Serves /\ Got
  BY DEF TcpInv
<1>2. /\ accept # <<>> /\ sockets' = Append(sockets, Head(accept)) /\ accept' = Tail(accept)
      /\ UNCHANGED <<sock, iss, out, peer>>
  BY DEF TcpAccept
<1>3. ListsOK'
  <2>1. /\ sockets \in Seq(Sock) /\ accept \in Seq(Sock) /\ Len(accept) <= BackLog
        /\ Once(sockets) /\ Once(accept)
        /\ \A s \in Sock : ~(s \in Members(sockets) /\ s \in Members(accept))
        /\ \A s \in Sock : s \in Members(sockets) \/ s \in Members(accept) <=> sock[s].state \notin Unlisted
    BY <1>1 DEF ListsOK
  <2>2. /\ accept' \in Seq(Sock) /\ Len(accept') = Len(accept) - 1 /\ Head(accept) \in Sock /\ Once(accept')
        /\ Members(accept) = Members(accept') \cup {Head(accept)} /\ Head(accept) \notin Members(accept')
    BY <1>2, <2>1, TailMembers
  <2>3. /\ sockets' \in Seq(Sock) /\ Once(sockets') /\ Members(sockets') = Members(sockets) \cup {Head(accept)}
    <3>1. Head(accept) \notin Members(sockets)
      BY <2>1, <2>2
    <3> QED BY <1>2, <2>1, <2>2, <3>1, AppendMembers
  <2>4. Len(accept') <= BackLog
    <3>1. Len(accept) \in Nat /\ BackLog \in Nat
      BY <2>1 DEF TcpAssumption
    <3> QED BY <2>1, <2>2, <3>1
  <2>5. \A s \in Sock : ~(s \in Members(sockets') /\ s \in Members(accept'))
    BY <2>1, <2>2, <2>3
  <2>6. \A s \in Sock : s \in Members(sockets') \/ s \in Members(accept') <=> sock'[s].state \notin Unlisted
    BY <1>2, <2>1, <2>2, <2>3
  <2> QED BY <2>2, <2>3, <2>4, <2>5, <2>6 DEF ListsOK
<1>4. OutOK' /\ PeerOK' /\ Connects' /\ Got'
  BY <1>1, <1>2 DEF OutOK, PeerOK, Connects, Got
<1>5. Serves'
  BY <1>1, <1>2 DEF Serves, OneSocket
<1> QED BY <1>1, <1>2, <1>3, <1>4, <1>5 DEF TcpInv
(* A station that is connected to takes a new Iss, while nothing of a stream   *)
(* is sent or taken.                                                           *)
LEMMA SynSent ==
  ASSUME TcpAssumption, TcpInv, NEW s \in Sock, peer.serves, sock[s].state \in {"CLOSED", "SYN_SENT"},
         NEW k \in TcpRec, k.state = "SYN_SENT", k.sendQ = <<>>, k.retransQ = <<>>,
         TcpSendSyn(s, k), UNCHANGED <<accept, peer>>, ListsOK'
  PROVE  TcpInv'
<1> DEFINE y == Opening(k, iss + 1)
           seq == (iss + 1) * IssStep
<1>1. /\ DOMAIN sock = Sock /\ sock = [t \in Sock |-> sock[t]] /\ \A t \in Sock : SockOK(sock[t])
      /\ iss \in 0..MaxIss /\ ListsOK /\ OutOK /\ PeerOK /\ Connects /\ Serves /\ Got
  BY DEF TcpInv
<1>2. /\ iss < MaxIss /\ iss' = iss + 1 /\ sock' = [sock EXCEPT ![s] = y]
      /\ out' = out \cup {Segment("syn", seq, 0)}
  BY DEF TcpSendSyn
<1>3. MaxIss \in Nat /\ iss \in Nat /\ iss + 1 \in 0..MaxIss /\ MaxRcv \in Nat /\ 0 \in 0..MaxRcv
  BY <1>1, <1>2 DEF TcpAssumption
<1>4. SockOK(y) /\ y.state = "SYN_SENT" /\ y.iss = seq
  <2>1. k.state \in OpenStates
    BY DEF OpenStates
  <2> QED BY <1>3, <2>1, OpeningIs
<1>5. Last' = seq /\ Last \in Nat /\ seq \in Nat /\ Last <= seq /\ seq \in IssOf /\ seq \in Number
  <2>1. /\ IssStep \in Nat /\ Last \in Nat /\ seq = Last + IssStep
        /\ seq \in IssOf /\ seq \in Nat /\ IssOf \subseteq Number
    BY <1>3, Bases DEF Last
  <2>2. Last' = seq
    BY <1>2 DEF Last, IssStep
  <2> HIDE DEF seq
  <2> QED BY <2>1, <2>2
<1> HIDE DEF y, seq
<1>6. /\ \A t \in Sock : sock'[t] = IF t = s THEN y ELSE sock[t]
      /\ DOMAIN sock' = Sock
  BY <1>1, <1>2
<1>7. sock' = [t \in Sock |-> sock'[t]]
  <2> DEFINE f == [t \in Sock |-> IF t = s THEN y ELSE sock[t]]
  <2>1. sock' = f
    BY <1>1, <1>2
  <2> QED BY <1>6, <2>1
<1>8. /\ OneSocket /\ ~Connected
      /\ \A m \in out : /\ m.kind # "synack" /\ (m.kind = "syn" => m.seq <= Last)
                        /\ m.kind \notin {"data", "fin"}
      /\ peer.irs # NoIss => peer.irs <= Last /\ peer.rcv = peer.irs + 1
      /\ \A i \in peer.answered : i <= Last
  BY <1>1 DEF Serves, Connected
<1>9. \A t \in Sock : t # s => sock[t].state = "none"
  BY <1>8 DEF OneSocket
<1>10. OutOK'
  <2> DEFINE g == Segment("syn", seq, 0)
  <2>1. g.kind = "syn" /\ g.seq = seq /\ g \in [kind : OutKinds, seq : Number, ack : 0..MaxRcv]
    BY <1>3, <1>5 DEF Segment, OutKinds
  <2>2. out' = out \cup {g}
    BY <1>2
  <2> HIDE DEF g
  <2> QED BY <1>1, <1>5, <2>1, <2>2 DEF OutOK
<1>11. PeerOK' /\ Connects'
  BY <1>1 DEF PeerOK, Connects
<1>12. \A t \in Sock : sock'[t].state \notin Data
  BY <1>4, <1>6, <1>9 DEF Data
<1>13. Serves'
  <2>1. OneSocket'
    <3>1. \A t, u \in Sock : sock'[t].state # "none" /\ sock'[u].state # "none" => t = u
      BY <1>6, <1>9
    <3>2. \A t \in Sock : sock'[t].state \notin {"LISTEN", "SYN_RCVD"}
      BY <1>4, <1>6, <1>9
    <3>3. \A t \in Sock : sock'[t].state \notin {"none", "CLOSED"} => sock'[t].iss = Last' /\ iss' >= 1
      BY <1>2, <1>3, <1>4, <1>5, <1>6, <1>9
    <3>4. accept' = <<>>
      BY <1>8 DEF OneSocket
    <3> QED BY <3>1, <3>2, <3>3, <3>4 DEF OneSocket
  <2>2. ASSUME NEW m \in out'
        PROVE  m.kind # "synack" /\ (m.kind = "syn" => m.seq <= Last') /\ m.kind \notin {"data", "fin"}
    <3>1. CASE m \in out
      <4>1. m.kind = "syn" => m.seq \in Nat
        BY <1>1, <3>1, Bases DEF OutOK
      <4> QED BY <1>5, <1>8, <3>1, <4>1
    <3>2. CASE m = Segment("syn", seq, 0)
      BY <1>5, <3>2 DEF Segment
    <3> QED BY <1>2, <3>1, <3>2
  <2>3. peer.irs # NoIss => peer.irs <= Last' /\ peer.rcv = peer.irs + 1
    <3>1. peer.irs # NoIss => peer.irs \in Nat
      BY <1>1, Bases DEF PeerOK
    <3> QED BY <1>5, <1>8, <3>1
  <2>4. \A i \in peer.answered : i <= Last'
    <3>1. \A i \in peer.answered : i \in Nat
      BY <1>1, Bases DEF PeerOK
    <3> QED BY <1>5, <1>8, <3>1
  <2> QED BY <1>12, <2>1, <2>2, <2>3, <2>4 DEF Serves
<1>14. Got'
  BY <1>12 DEF Got
<1>15. iss' \in 0..MaxIss /\ \A t \in Sock : SockOK(sock'[t])
  BY <1>1, <1>2, <1>3, <1>4, <1>6
<1> QED BY <1>6, <1>7, <1>10, <1>11, <1>13, <1>14, <1>15 DEF TcpInv

(* A listener's answer, with or without a socket for the connection. *)
LEMMA SynAckSent ==
  ASSUME TcpAssumption, TcpInv, ~peer.serves, UNCHANGED peer, NEW taken \in 1..2, NEW a \in 0..MaxRcv, SynAckOut(taken, a),
         DOMAIN sock' = Sock, sock' = [t \in Sock |-> sock'[t]], ListsOK',
         \A t \in Sock : \/ sock'[t] = sock[t]
                         \/ SockOK(sock'[t]) /\ sock'[t].state = "SYN_RCVD"
  PROVE  TcpInv'
<1> DEFINE seq == (iss + taken) * IssStep
<1>1. /\ \A t \in Sock : SockOK(sock[t])
      /\ iss \in 0..MaxIss /\ ListsOK /\ OutOK /\ PeerOK /\ Connects /\ Serves /\ Got
  BY DEF TcpInv
<1>2. /\ iss + taken <= MaxIss /\ iss' = iss + taken
      /\ out' = out \cup {Segment("synack", seq, a)}
  BY DEF SynAckOut
<1>3. MaxIss \in Nat /\ iss \in Nat /\ taken \in Nat /\ iss + taken \in 0..MaxIss
  BY <1>1, <1>2 DEF TcpAssumption
<1>4. seq \in IssOf /\ seq \in Number
  BY <1>3, Bases
<1> HIDE DEF seq
<1>5. OutOK'
  <2> DEFINE g == Segment("synack", seq, a)
  <2>1. g.kind = "synack" /\ g.seq = seq /\ g \in [kind : OutKinds, seq : Number, ack : 0..MaxRcv]
    BY <1>4 DEF Segment, OutKinds
  <2>2. out' = out \cup {g}
    BY <1>2
  <2> HIDE DEF g
  <2> QED BY <1>1, <1>4, <2>1, <2>2 DEF OutOK
<1>6. PeerOK' /\ Serves'
  BY <1>1 DEF PeerOK, Serves
<1>7. Connects'
  BY <1>1 DEF Connects
<1>8. Got'
  BY <1>1 DEF Got, Data
<1>9. iss' \in 0..MaxIss /\ \A t \in Sock : SockOK(sock'[t])
  BY <1>1, <1>2, <1>3
<1> QED BY <1>5, <1>6, <1>7, <1>8, <1>9 DEF TcpInv
------------------------------------------------------------------------------
(* The calls of the socket API. *)
LEMMA Connecting ==
  ASSUME TcpAssumption, TcpInv, NEW s \in Sock, TcpConnect(s)
  PROVE  TcpInv'
<1> DEFINE k == ToState(sock[s], "SYN_SENT")
<1>1. /\ DOMAIN sock = Sock /\ sock = [t \in Sock |-> sock[t]] /\ \A t \in Sock : SockOK(sock[t])
      /\ iss \in 0..MaxIss /\ ListsOK
  BY DEF TcpInv
<1>2. /\ peer.serves /\ sock[s].state = "CLOSED" /\ TcpSendSyn(s, k)
      /\ sockets' = Append(sockets, s) /\ UNCHANGED <<accept, peer>>
  BY DEF TcpConnect, ToState
<1>3. iss + 1 \in 0..MaxIss
  BY <1>1, <1>2 DEF TcpSendSyn, TcpAssumption
<1>4. /\ k \in TcpRec /\ k.state = "SYN_SENT" /\ k.sendQ = <<>> /\ k.retransQ = <<>>
      /\ LET y == Opening(k, iss + 1) IN SockOK(y) /\ y.state = "SYN_SENT" /\ y.iss = (iss + 1) * IssStep
  <2>1. SockOK(sock[s]) /\ sock[s] \in TcpRec /\ "SYN_SENT" \in State
    BY <1>1 DEF SockOK, State
  <2>2. sock[s].sendQ = <<>> /\ sock[s].retransQ = <<>>
    BY <1>2, <2>1 DEF SockOK
  <2>3. k \in TcpRec /\ k.state = "SYN_SENT" /\ Same(k, sock[s])
    BY <2>1, SetState
  <2> HIDE DEF k
  <2>4. k.sendQ = <<>> /\ k.retransQ = <<>> /\ k.state \in OpenStates
    BY <2>2, <2>3 DEF Same, OpenStates
  <2> QED BY <1>3, <2>3, <2>4, OpeningIs
<1> HIDE DEF k
<1>5. sock' = [sock EXCEPT ![s] = Opening(k, iss + 1)]
  BY <1>2 DEF TcpSendSyn
<1>6. ListsOK'
  <2> DEFINE y == Opening(k, iss + 1)
  <2>1. /\ sockets \in Seq(Sock) /\ accept \in Seq(Sock) /\ Len(accept) <= BackLog
        /\ Once(sockets) /\ Once(accept)
        /\ \A t \in Sock : ~(t \in Members(sockets) /\ t \in Members(accept))
        /\ \A t \in Sock : t \in Members(sockets) \/ t \in Members(accept) <=> sock[t].state \notin Unlisted
    BY <1>1 DEF ListsOK
  <2>2. s \notin Members(sockets) /\ s \notin Members(accept)
    BY <1>2, <2>1 DEF Unlisted
  <2>3. sockets' \in Seq(Sock) /\ Once(sockets') /\ Members(sockets') = Members(sockets) \cup {s}
    BY <1>2, <2>1, <2>2, AppendMembers
  <2>4. y.state = "SYN_SENT"
    BY <1>4
  <2>5. \A t \in Sock : sock'[t] = IF t = s THEN y ELSE sock[t]
    BY <1>1, <1>5
  <2> HIDE DEF y
  <2>6. ASSUME NEW t \in Sock
        PROVE  /\ ~(t \in Members(sockets') /\ t \in Members(accept'))
               /\ t \in Members(sockets') \/ t \in Members(accept') <=> sock'[t].state \notin Unlisted
    <3>1. CASE t = s
      BY <1>2, <2>2, <2>3, <2>4, <2>5, <3>1 DEF Unlisted
    <3>2. CASE t # s
      BY <1>2, <2>1, <2>3, <2>5, <3>2
    <3> QED BY <3>1, <3>2
  <2> QED BY <1>2, <2>1, <2>3, <2>6 DEF ListsOK
<1> QED BY <1>2, <1>4, <1>6, SynSent

(* What is sent of the queue is of the stream. *)
LEMMA SendingIs ==
  ASSUME TcpAssumption, NEW k, SockOK(k), k.state \in Data, NEW n \in 0..Len(k.sendQ)
  PROVE  \A g \in Sending(k, n) : OfStream(g, k)
<1> SUFFICES ASSUME NEW i \in 1..n PROVE OfStream(Segment("data", k.sendQ[i], k.rcvNxt), k)
  BY DEF Sending
<1>1. k \in TcpRec
  BY DEF SockOK
<1>2. k.rcvNxt \in 0..MaxRcv /\ Len(k.sendQ) \in Nat
  BY <1>1, Counted
<1>3. i \in 1..Len(k.sendQ)
  BY <1>2
<1>4. k.sendQ[i] \in Number /\ k.sendQ[i] > k.iss /\ k.sendQ[i] < k.end /\ k.end <= k.nxt /\ k.nxt <= Top
  BY <1>3, StreamBounds
<1>5. k.end \in Nat /\ k.nxt \in Nat /\ Top \in Nat /\ Number \subseteq Nat
  BY <1>1, Counted, Bases DEF Number
<1>6. k.sendQ[i] < Top
  <2> DEFINE x == k.sendQ[i]
  <2>1. x \in Nat /\ x < k.end
    BY <1>4, <1>5
  <2> HIDE DEF x
  <2>2. x < Top
    BY <1>4, <1>5, <2>1
  <2> QED BY <2>2 DEF x
<1> QED BY <1>2, <1>4, <1>6 DEF OfStream, Segment

LEMMA WindowIs ==
  ASSUME TcpAssumption, NEW k, SockOK(k), NEW n \in Window(k)
  PROVE  n \in 0..Len(k.sendQ)
<1>1. k \in TcpRec
  BY DEF SockOK
<1>2. Len(k.sendQ) \in Nat
  BY <1>1, Counted
<1> QED BY <1>2 DEF Window

LEMMA Sent ==
  ASSUME TcpAssumption, TcpInv, NEW s \in Sock, TcpSend(s)
  PROVE  TcpInv'
<1> DEFINE c == sock[s]
           k == [c EXCEPT !.sendQ = Append(@, c.nxt), !.nxt = @ + 1, !.end = @ + 1]
<1>1. c.state \in SendStates /\ c.nxt - c.iss <= MaxOut /\ SockOK(c) /\ c.state \in Data
  BY DEF TcpSend, TcpInv, SendStates, Data
<1>2. PICK n \in Window(k) :
        /\ sock' = [sock EXCEPT ![s] = Moved(k, n)]
        /\ out' = out \cup Sending(k, n)
  BY DEF TcpSend
<1>3. UNCHANGED <<sockets, accept, iss, peer>>
  BY DEF TcpSend
<1> HIDE DEF c
<1>4. /\ SockOK(k) /\ k.state = c.state /\ k.iss = c.iss /\ Front(k) = Front(c)
  BY <1>1, AppendedOK
<1> HIDE DEF k
<1>5. n \in 0..Len(k.sendQ) /\ k.state \in Data
  BY <1>1, <1>4, WindowIs
<1> DEFINE y == Moved(k, n)
<1>6. SockOK(y) /\ y.state = c.state /\ y.iss = c.iss /\ Front(y) = Front(c)
  BY <1>4, <1>5, MovedOK
<1> HIDE DEF y
<1>7. \A g \in Sending(k, n) : OfStream(g, c)
  BY <1>4, <1>5, SendingIs DEF OfStream
<1>8. FrontOK(y)
  BY <1>1, <1>6, FrontKept DEF c
<1>9. c.state \notin Unlisted /\ c.state \notin OpenStates /\ ~(~peer.serves /\ peer.irs = NoIss)
  <2>1. c.state \notin Unlisted /\ c.state \notin OpenStates
    BY <1>1 DEF SendStates, Unlisted, OpenStates
  <2>2. ~(~peer.serves /\ peer.irs = NoIss)
    BY <1>1 DEF TcpInv, Connects, c, SendStates
  <2> QED BY <2>1, <2>2
<1>10. \A g \in out' : g \in out \/ OfStream(g, c)
  BY <1>2, <1>7
<1>11. sock' = [sock EXCEPT ![s] = y]
  BY <1>2 DEF y
<1> QED BY <1>3, <1>6, <1>8, <1>9, <1>10, <1>11, Evolve DEF c

(* A socket whose stream stays as it is. *)
LEMMA Stays ==
  ASSUME TcpAssumption, TcpInv, NEW s \in Sock, NEW y, sock' = [sock EXCEPT ![s] = y],
         UNCHANGED <<sockets, accept, iss, out, peer>>, y \in TcpRec, y.state = sock[s].state, Same(y, sock[s])
  PROVE  TcpInv'
<1>1. /\ DOMAIN sock = Sock /\ sock = [t \in Sock |-> sock[t]] /\ \A t \in Sock : SockOK(sock[t])
      /\ iss \in 0..MaxIss /\ ListsOK /\ OutOK /\ PeerOK /\ Connects /\ Serves /\ Got
  BY DEF TcpInv
<1>2. SockOK(y) /\ Front(y) = Front(sock[s]) /\ y.iss = sock[s].iss
  BY <1>1, SameStream DEF Same
<1>3. /\ \A t \in Sock : sock'[t] = IF t = s THEN y ELSE sock[t]
      /\ DOMAIN sock' = Sock
  BY <1>1
<1>4. sock' = [t \in Sock |-> sock'[t]]
  <2> DEFINE f == [t \in Sock |-> IF t = s THEN y ELSE sock[t]]
  <2>1. sock' = f
    BY <1>1
  <2> QED BY <1>3, <2>1
<1>5. \A t \in Sock : /\ SockOK(sock'[t]) /\ sock'[t].state = sock[t].state /\ sock'[t].iss = sock[t].iss
                      /\ Front(sock'[t]) = Front(sock[t])
  BY <1>1, <1>2, <1>3
<1>6. ListsOK' /\ OutOK' /\ PeerOK'
  BY <1>1, <1>5 DEF ListsOK, OutOK, PeerOK
<1>7. Connects' /\ Got'
  BY <1>1, <1>5 DEF Connects, Got
<1>8. Serves'
  <2> SUFFICES ASSUME peer.serves PROVE Serves'
    BY DEF Serves
  <2>1. Last' = Last
    BY DEF Last
  <2>2. OneSocket'
    BY <1>1, <1>5, <2>1 DEF Serves, OneSocket
  <2>3. Connected => Connected'
    BY <1>5 DEF Connected
  <2>4. \A t \in Sock : sock'[t].state \in Data /\ peer.irs # Last => Front(sock'[t]) = Last + 1
    BY <1>1, <1>5 DEF Serves
  <2> QED BY <1>1, <2>1, <2>2, <2>3, <2>4 DEF Serves
<1> QED BY <1>1, <1>3, <1>4, <1>5, <1>6, <1>7, <1>8 DEF TcpInv

LEMMA Recvs ==
  ASSUME TcpAssumption, TcpInv, NEW s \in Sock, TcpRecv(s)
  PROVE  TcpInv'
<1> DEFINE k == sock[s]
           y == ToRecv(k, Tail(k.recvQ), k.rcvNxt + 1)
<1>1. k \in TcpRec /\ DOMAIN sock = Sock
  BY DEF TcpInv, SockOK
<1>2. k.recvQ # <<>> /\ k.rcvNxt < MaxRcv /\ UNCHANGED <<sockets, accept, iss, out, peer>>
  BY DEF TcpRecv
<1>3. k.recvQ \in Seq(1..MaxIn) /\ k.rcvNxt \in 0..MaxRcv /\ MaxRcv \in Nat
  BY <1>1, Counted DEF TcpAssumption
<1>4. Tail(k.recvQ) \in Arrived /\ k.rcvNxt + 1 \in Sequel
  <2>1. \A T : \A q \in Seq(T) : q # <<>> => Tail(q) \in Seq(T)
    OBVIOUS
  <2>2. Tail(k.recvQ) \in Seq(1..MaxIn)
    BY <1>2, <1>3, <2>1
  <2>3. k.rcvNxt + 1 \in 0..MaxRcv
    BY <1>2, <1>3
  <2> QED BY <2>2, <2>3 DEF Arrived, Sequel
<1>5. y \in TcpRec /\ y.state = k.state /\ Same(y, k)
  BY <1>1, <1>4, SetRecv
<1>6. sock' = [sock EXCEPT ![s] = y]
  <2>1. sock' = [sock EXCEPT ![s] = [sock[s] EXCEPT !.recvQ = Tail(@), !.rcvNxt = @ + 1]]
    BY <1>1 DEF TcpRecv
  <2>2. y = [sock[s] EXCEPT !.recvQ = Tail(@), !.rcvNxt = @ + 1]
    BY DEF ToRecv
  <2> QED BY <2>1, <2>2
<1> HIDE DEF y
<1> QED BY <1>2, <1>5, <1>6, Stays

LEMMA Closes ==
  ASSUME TcpAssumption, TcpInv, NEW s \in Sock, TcpClose(s)
  PROVE  TcpInv'
<1> DEFINE c == sock[s]
           y == [c EXCEPT !.state = IF @ = "ESTABLISHED" THEN "FIN_WAIT_1" ELSE "LAST_ACK",
                          !.nxt = @ + 1, !.timer = TRUE]
           g == Segment("fin", c.nxt, c.rcvNxt)
<1>1. c.state \in SendStates /\ SockOK(c) /\ c.state \in Data /\ c \in TcpRec
  BY DEF TcpClose, TcpInv, SendStates, Data, SockOK
<1>2. sock' = [sock EXCEPT ![s] = y] /\ out' = out \cup {g} /\ UNCHANGED <<sockets, accept, iss, peer>>
  BY DEF TcpClose
<1>3. c.rcvNxt \in 0..MaxRcv
  BY <1>1, Counted
<1> HIDE DEF c
<1>4. /\ SockOK(y) /\ y.state \in Data /\ y.iss = c.iss /\ Front(y) = Front(c)
      /\ c.nxt \in Number /\ c.nxt > c.iss /\ c.nxt < Top
  BY <1>1, ClosedOK
<1> HIDE DEF y
<1>5. OfStream(g, c)
  BY <1>1, <1>3, <1>4 DEF OfStream, Segment
<1> HIDE DEF g
<1>6. FrontOK(y)
  BY <1>1, <1>4, FrontKept DEF c
<1>7. /\ c.state \notin Unlisted /\ c.state \notin OpenStates
      /\ y.state \notin Unlisted /\ y.state \notin OpenStates
  BY <1>1, <1>4 DEF Data, Unlisted, OpenStates
<1>8. ~(~peer.serves /\ peer.irs = NoIss)
  BY <1>1 DEF TcpInv, Connects, c, SendStates
<1>9. \A m \in out' : m \in out \/ OfStream(m, c)
  BY <1>2, <1>5
<1> QED BY <1>2, <1>4, <1>6, <1>7, <1>8, <1>9, Evolve DEF c

LEMMA Aborts ==
  ASSUME TcpAssumption, TcpInv, NEW s \in Sock, TcpAbort(s)
  PROVE  TcpInv'
BY Leaves DEF TcpAbort
------------------------------------------------------------------------------
(* The tick's turn of a socket. *)
LEMMA TimerStops ==
  ASSUME TcpAssumption, TcpInv, NEW s \in Sock, sock' = [sock EXCEPT ![s].timer = FALSE],
         UNCHANGED <<sockets, accept, iss, out, peer>>
  PROVE  TcpInv'
<1> DEFINE y == ToTimer(sock[s])
<1>1. sock[s] \in TcpRec /\ DOMAIN sock = Sock
  BY DEF TcpInv, SockOK
<1>2. y \in TcpRec /\ y.state = sock[s].state /\ Same(y, sock[s])
  BY <1>1, SetTimer
<1>3. sock' = [sock EXCEPT ![s] = y]
  BY <1>1 DEF ToTimer
<1> HIDE DEF y
<1> QED BY <1>2, <1>3, Stays

LEMMA Retransmits ==
  ASSUME TcpAssumption, TcpInv, NEW s \in Sock, sock[s].state \in Data, TcpRetransmit(s), UNCHANGED <<iss, peer>>
  PROVE  TcpInv'
<1> DEFINE k == sock[s]
           g == Segment("data", Head(k.retransQ), k.rcvNxt)
<1>1. SockOK(k) /\ k \in TcpRec /\ DOMAIN sock = Sock
  BY DEF TcpInv, SockOK
<1>2. CASE k.retransQ = <<>>
  <2>1. sock' = [sock EXCEPT ![s].timer = FALSE] /\ UNCHANGED <<sockets, accept, out>>
    BY <1>2 DEF TcpRetransmit
  <2> QED BY <2>1, TimerStops
<1>3. CASE k.retransQ # <<>>
  <2>1. OfStream(g, k)
    <3> DEFINE x == Head(k.retransQ)
    <3>1. /\ k.rcvNxt \in 0..MaxRcv /\ Len(k.retransQ) \in Nat /\ k.retransQ \in Seq(Number)
          /\ k.end \in Nat /\ k.nxt \in Nat
      BY <1>1, Counted
    <3>2. 1 \in 1..Len(k.retransQ) /\ x = k.retransQ[1]
      BY <1>3, <3>1
    <3>3. x \in Number /\ x > k.iss /\ x < k.end /\ k.end <= k.nxt /\ k.nxt <= Top /\ Top \in Nat
      BY <1>1, <3>2, StreamBounds, Bases
    <3> HIDE DEF x
    <3>4. x < Top
      <4>1. x \in Nat
        BY <3>3 DEF Number
      <4>2. x < k.end /\ k.end <= k.nxt /\ k.nxt <= Top
        BY <3>3
      <4> QED BY <3>1, <3>3, <4>1, <4>2
    <3> QED BY <3>1, <3>3, <3>4 DEF OfStream, Segment, x
  <2>2. out' = out \cup {g}
    BY <1>3 DEF TcpRetransmit
  <2> HIDE DEF g
  <2>3. \A m \in out' : m \in out \/ OfStream(m, k)
    BY <2>1, <2>2
  <2>4. CASE k.tries + 1 >= MaxRetrans
    <3>1. Gone(s)
      BY <1>3, <2>4 DEF TcpRetransmit
    <3> QED BY <2>3, <3>1, Leaves
  <2>5. CASE ~(k.tries + 1 >= MaxRetrans)
    <3> DEFINE y == ToTries(k, k.tries + 1)
    <3>1. sock' = [sock EXCEPT ![s] = y] /\ UNCHANGED <<sockets, accept>>
      <4>1. sock' = [sock EXCEPT ![s].tries = @ + 1] /\ UNCHANGED <<sockets, accept>>
        BY <1>3, <2>5 DEF TcpRetransmit
      <4> QED BY <1>1, <4>1 DEF ToTries
    <3>2. k.tries + 1 \in Tried
      <4>1. k.tries \in 0..MaxRetrans /\ MaxRetrans \in Nat
        BY <1>1 DEF TcpRec, Tried, TcpAssumption
      <4> QED BY <2>5, <4>1 DEF Tried
    <3>3. y \in TcpRec /\ y.state = k.state /\ Same(y, k)
      BY <1>1, <3>2, SetTries
    <3> HIDE DEF y
    <3>4. SockOK(y) /\ Front(y) = Front(k) /\ y.iss = k.iss
      BY <1>1, <3>3, SameStream DEF Same
    <3>5. FrontOK(y)
      BY <3>4, FrontKept
    <3>6. y.state \notin Unlisted /\ k.state \notin Unlisted /\ y.state \notin OpenStates
      BY <3>3 DEF Data, Unlisted, OpenStates
    <3>7. ~(~peer.serves /\ peer.irs = NoIss)
      BY DEF TcpInv, Connects, Data
    <3> QED BY <2>3, <3>1, <3>4, <3>5, <3>6, <3>7, Evolve
  <2> QED BY <2>4, <2>5
<1> QED BY <1>2, <1>3

LEMMA SynSentTick ==
  ASSUME TcpAssumption, TcpInv, NEW s \in Sock, sock[s].state = "SYN_SENT", TcpSendSyn(s, sock[s]),
         UNCHANGED <<sockets, accept, peer>>
  PROVE  TcpInv'
<1> DEFINE k == sock[s]
           y == Opening(k, iss + 1)
<1>1. /\ DOMAIN sock = Sock /\ SockOK(k) /\ iss \in 0..MaxIss /\ ListsOK
  BY DEF TcpInv
<1>2. /\ k \in TcpRec /\ k.sendQ = <<>> /\ k.retransQ = <<>> /\ k.state \in OpenStates
  BY <1>1 DEF SockOK, OpenStates
<1>3. peer.serves
  BY DEF TcpInv, Connects
<1>4. iss + 1 \in 0..MaxIss /\ sock' = [sock EXCEPT ![s] = y]
  BY <1>1 DEF TcpSendSyn, TcpAssumption
<1>5. y.state = "SYN_SENT"
  BY <1>2, <1>4, OpeningIs
<1> HIDE DEF y
<1>6. ListsOK'
  <2>1. \A t \in Sock : sock'[t].state \notin Unlisted <=> sock[t].state \notin Unlisted
    BY <1>1, <1>4, <1>5 DEF Unlisted
  <2> QED BY <1>1, <2>1 DEF ListsOK
<1> QED BY <1>2, <1>3, <1>6, SynSent
LEMMA SynRcvdTick ==
  ASSUME TcpAssumption, TcpInv, NEW s \in Sock, sock[s].state = "SYN_RCVD", TcpSendSynAck(s, sock[s], 1),
         UNCHANGED <<sockets, accept, peer>>
  PROVE  TcpInv'
<1> DEFINE k == sock[s]
           y == Opening(k, iss + 1)
<1>1. /\ DOMAIN sock = Sock /\ SockOK(k) /\ iss \in 0..MaxIss /\ ListsOK /\ \A t \in Sock : SockOK(sock[t])
      /\ sock = [t \in Sock |-> sock[t]]
  BY DEF TcpInv
<1>2. /\ k \in TcpRec /\ k.sendQ = <<>> /\ k.retransQ = <<>> /\ k.state \in OpenStates
  BY <1>1 DEF SockOK, OpenStates
<1>3. ~peer.serves
  BY DEF TcpInv, Serves, OneSocket
<1>4. /\ iss + 1 \in 0..MaxIss /\ sock' = [sock EXCEPT ![s] = y]
      /\ SynAckOut(1, k.rcvNxt) /\ k.rcvNxt \in 0..MaxRcv
  <2>1. SynAckOut(1, k.rcvNxt) /\ sock' = [sock EXCEPT ![s] = y]
    BY DEF TcpSendSynAck
  <2>2. iss + 1 \in 0..MaxIss
    BY <1>1, <2>1 DEF SynAckOut, TcpAssumption
  <2>3. k.rcvNxt \in 0..MaxRcv
    BY <1>2, Counted
  <2> QED BY <2>1, <2>2, <2>3
<1>5. SockOK(y) /\ y.state = "SYN_RCVD"
  BY <1>2, <1>4, OpeningIs
<1> HIDE DEF y
<1>6. \A t \in Sock : sock'[t] = IF t = s THEN y ELSE sock[t]
  BY <1>1, <1>4
<1>7. ListsOK'
  <2>1. \A t \in Sock : sock'[t].state \notin Unlisted <=> sock[t].state \notin Unlisted
    BY <1>5, <1>6 DEF Unlisted
  <2> QED BY <1>1, <2>1 DEF ListsOK
<1>8. DOMAIN sock' = Sock /\ sock' = [t \in Sock |-> sock'[t]]
  <2> DEFINE f == [t \in Sock |-> IF t = s THEN y ELSE sock[t]]
  <2>1. sock' = f /\ DOMAIN f = Sock
    BY <1>1, <1>4
  <2> QED BY <1>6, <2>1
<1>9. \A t \in Sock : sock'[t] = sock[t] \/ (SockOK(sock'[t]) /\ sock'[t].state = "SYN_RCVD")
  BY <1>5, <1>6
<1>10. 1 \in 1..2
  OBVIOUS
<1> QED BY <1>3, <1>4, <1>7, <1>8, <1>9, <1>10, SynAckSent

LEMMA Ticks ==
  ASSUME TcpAssumption, TcpInv, NEW s \in Sock, TcpTick(s)
  PROVE  TcpInv'
<1> DEFINE v == sock[s].state
<1>1. s \in Members(sockets) /\ UNCHANGED peer
  BY DEF TcpTick
<1>2. v \in State \ Unlisted
  <2>1. v \notin Unlisted
    BY <1>1, Listing
  <2>2. v \in State
    BY DEF TcpInv, SockOK, TcpRec
  <2> QED BY <2>1, <2>2
<1>3. CASE v = "SYN_SENT"
  <2>1. TcpSendSyn(s, sock[s]) /\ UNCHANGED <<sockets, accept>>
    BY <1>3 DEF TcpTick
  <2> QED BY <1>1, <1>3, <2>1, SynSentTick
<1>4. CASE v = "SYN_RCVD"
  <2>1. TcpSendSynAck(s, sock[s], 1) /\ UNCHANGED <<sockets, accept>>
    BY <1>4 DEF TcpTick
  <2> QED BY <1>1, <1>4, <2>1, SynRcvdTick
<1>5. CASE v \in {"ESTABLISHED", "FIN_WAIT_1", "LAST_ACK"}
  <2>1. TcpRetransmit(s) /\ UNCHANGED iss
    BY <1>5 DEF TcpTick
  <2>2. v \in Data
    BY <1>5 DEF Data
  <2> QED BY <1>1, <2>1, <2>2, Retransmits
<1>6. CASE v = "TIME_WAIT"
  <2>1. Gone(s) /\ UNCHANGED <<iss, out>>
    BY <1>6 DEF TcpTick
  <2> QED BY <1>1, <2>1, Leaves
<1>7. CASE v \in {"FIN_WAIT_2", "CLOSE_WAIT"}
  <2>1. sock' = [sock EXCEPT ![s].timer = FALSE] /\ UNCHANGED <<sockets, accept, iss, out>>
    BY <1>7 DEF TcpTick
  <2> QED BY <1>1, <2>1, TimerStops
<1> QED BY <1>2, <1>3, <1>4, <1>5, <1>6, <1>7 DEF State, Data, Unlisted

------------------------------------------------------------------------------
(* The handlers of a segment, for a socket with the window just received. *)
LEMMA Windowed ==
  ASSUME TcpAssumption, TcpInv, NEW s \in Sock, NEW open \in BOOLEAN
  PROVE  LET k == [sock[s] EXCEPT !.open = open]
         IN  SockOK(k) /\ k \in TcpRec /\ k.state = sock[s].state /\ Same(k, sock[s]) /\ Front(k) = Front(sock[s])
             /\ k.rcvNxt = sock[s].rcvNxt
<1> DEFINE k == ToOpen(sock[s], open)
<1>1. SockOK(sock[s]) /\ sock[s] \in TcpRec
  BY DEF TcpInv, SockOK
<1>2. k \in TcpRec /\ k.state = sock[s].state /\ Same(k, sock[s]) /\ k.rcvNxt = sock[s].rcvNxt
  BY <1>1, SetOpen
<1>3. k = [sock[s] EXCEPT !.open = open]
  BY DEF ToOpen
<1> HIDE DEF k
<1>4. SockOK(k) /\ Front(k) = Front(sock[s])
  BY <1>1, <1>2, SameStream
<1> QED BY <1>2, <1>3, <1>4

(* A socket of a connection whose record changes, but not its lists. *)
LEMMA Becoming ==
  ASSUME TcpAssumption, TcpInv, NEW s \in Sock, NEW m \in Incoming, m.kind # "syn", NEW y, Becomes(s, y), UNCHANGED peer,
         SockOK(y), y.iss = sock[s].iss, sock[s].state \notin Unlisted, y.state \notin Unlisted,
         y.state \notin OpenStates, y.state \in Data => FrontOK(y),
         \A g \in out' : g \in out \/ OfStream(g, sock[s])
  PROVE  TcpInv'
<1>1. peer.irs # NoIss
  BY IncomingIs
<1>2. sock' = [sock EXCEPT ![s] = y] /\ UNCHANGED <<sockets, accept, iss, peer>>
  BY DEF Becomes
<1> QED BY <1>1, <1>2, Evolve
LEMMA ListenHandled ==
  ASSUME TcpAssumption, TcpInv, NEW s \in Sock, sock[s].state = "LISTEN", NEW k \in TcpRec, NEW m,
         HandleListen(s, k, m), UNCHANGED peer
  PROVE  TcpInv'
<1> DEFINE new == [NoSocket EXCEPT !.state = "SYN_RCVD", !.own = k.own, !.rcvNxt = 1]
<1>1. /\ DOMAIN sock = Sock /\ iss \in 0..MaxIss /\ ListsOK /\ \A t \in Sock : SockOK(sock[t])
      /\ sock = [t \in Sock |-> sock[t]]
  BY DEF TcpInv
<1>2. ~peer.serves
  BY DEF TcpInv, Serves, OneSocket
<1>3. 1 \in 0..MaxRcv /\ 2 \in 1..2
  BY DEF TcpAssumption
<1>4. new \in TcpRec /\ new.state = "SYN_RCVD" /\ new.rcvNxt = 1 /\ new.sendQ = <<>> /\ new.retransQ = <<>>
  <2>1. k.own \in BOOLEAN
    BY DEF TcpRec
  <2> QED BY <2>1, NewSockets
<1>5. CASE Len(accept) < BackLog
  <2>1. PICK t \in Free : TcpSendSynAck(t, new, 2) /\ accept' = Append(accept, t)
    BY <1>5 DEF HandleListen
  <2>2. sockets' = sockets /\ t \in Sock
    BY DEF HandleListen, Free
  <2> HIDE DEF new
  <2> DEFINE y == Opening(new, iss + 2)
  <2>3. SynAckOut(2, 1) /\ sock' = [sock EXCEPT ![t] = y]
    BY <1>4, <2>1 DEF TcpSendSynAck
  <2>4. iss + 2 \in 0..MaxIss
    BY <1>1, <2>3 DEF SynAckOut, TcpAssumption
  <2>5. SockOK(y) /\ y.state = "SYN_RCVD"
    <3>1. new.state \in OpenStates
      BY <1>4 DEF OpenStates
    <3> QED BY <1>4, <2>4, <3>1, OpeningIs
  <2> HIDE DEF y
  <2>6. \A u \in Sock : sock'[u] = IF u = t THEN y ELSE sock[u]
    BY <1>1, <2>2, <2>3
  <2>7. DOMAIN sock' = Sock /\ sock' = [u \in Sock |-> sock'[u]]
    <3> DEFINE f == [u \in Sock |-> IF u = t THEN y ELSE sock[u]]
    <3>1. sock' = f /\ DOMAIN f = Sock
      BY <1>1, <2>3
    <3> QED BY <2>6, <3>1
  <2>8. ListsOK'
    <3>1. /\ sockets \in Seq(Sock) /\ accept \in Seq(Sock) /\ Len(accept) <= BackLog
          /\ Once(sockets) /\ Once(accept)
          /\ \A u \in Sock : ~(u \in Members(sockets) /\ u \in Members(accept))
          /\ \A u \in Sock : u \in Members(sockets) \/ u \in Members(accept) <=> sock[u].state \notin Unlisted
      BY <1>1 DEF ListsOK
    <3>2. t \notin Members(sockets) /\ t \notin Members(accept)
      BY <2>1, <2>2, Listing
    <3>3. /\ accept' \in Seq(Sock) /\ Once(accept') /\ Members(accept') = Members(accept) \cup {t}
          /\ Len(accept') = Len(accept) + 1
      BY <2>1, <2>2, <3>1, <3>2, AppendMembers
    <3>4. Len(accept') <= BackLog
      <4>1. Len(accept) \in Nat /\ BackLog \in Nat
        BY <3>1 DEF TcpAssumption
      <4> QED BY <1>5, <3>3, <4>1
    <3>5. ASSUME NEW u \in Sock
          PROVE  /\ ~(u \in Members(sockets') /\ u \in Members(accept'))
                 /\ u \in Members(sockets') \/ u \in Members(accept') <=> sock'[u].state \notin Unlisted
      <4>1. CASE u = t
        BY <2>2, <2>5, <2>6, <3>2, <3>3, <4>1 DEF Unlisted
      <4>2. CASE u # t
        BY <2>2, <2>6, <3>1, <3>3, <4>2
      <4> QED BY <4>1, <4>2
    <3> QED BY <2>2, <3>1, <3>3, <3>4, <3>5 DEF ListsOK
  <2>9. \A u \in Sock : sock'[u] = sock[u] \/ (SockOK(sock'[u]) /\ sock'[u].state = "SYN_RCVD")
    BY <2>5, <2>6
  <2> QED BY <1>2, <1>3, <2>3, <2>7, <2>8, <2>9, SynAckSent
<1>6. CASE ~(Len(accept) < BackLog)
  <2>1. SynAckOut(2, 1) /\ UNCHANGED <<sock, accept, sockets>>
    BY <1>6 DEF HandleListen
  <2>2. ListsOK' /\ DOMAIN sock' = Sock /\ sock' = [t \in Sock |-> sock'[t]]
    BY <1>1, <2>1 DEF ListsOK
  <2>3. \A u \in Sock : sock'[u] = sock[u]
    BY <2>1
  <2> QED BY <1>2, <1>3, <2>1, <2>2, <2>3, SynAckSent
<1> QED BY <1>5, <1>6

LEMMA SynSentHandled ==
  ASSUME TcpAssumption, TcpInv, NEW s \in Sock, sock[s].state = "SYN_SENT", NEW m \in Incoming,
         NEW k \in TcpRec, SockOK(k), k.state = "SYN_SENT", Same(k, sock[s]),
         HandleSynSent(s, k, m), UNCHANGED peer
  PROVE  TcpInv'
<1>1. m.kind \in {"synack", "rst"} /\ UNCHANGED out
  BY DEF HandleSynSent
<1>2. CASE m.kind = "rst"
  <2>1. Gone(s) /\ UNCHANGED iss
    BY <1>2 DEF HandleSynSent
  <2> QED BY <1>1, <2>1, Leaves
<1>3. CASE m.kind = "synack"
  <2> DEFINE y == ToConnected(k, "ESTABLISHED", m.ack, 1)
  <2>1. Becomes(s, y)
    BY <1>3 DEF HandleSynSent, ToConnected
  <2>2. "ESTABLISHED" \in State /\ m.ack \in Number /\ 1 \in Sequel
    BY <1>3, IncomingIs DEF State, Data, Sequel, TcpAssumption
  <2>3. y \in TcpRec /\ y.state = "ESTABLISHED" /\ Same(y, k)
    BY <2>2, SetConnected
  <2> HIDE DEF y
  <2>4. k.state \in OpenStates /\ y.iss = k.iss /\ k.iss = sock[s].iss
    BY <2>3 DEF OpenStates, Same
  <2>5. SockOK(y) /\ Front(y) = y.iss + 1
    BY <2>3, <2>4, SameStream, Fresh
  <2>6. FrontOK(y)
    BY <2>4, <2>5, FrontFresh
  <2>7. y.state \notin Unlisted /\ y.state \notin OpenStates /\ sock[s].state \notin Unlisted /\ m.kind # "syn"
    BY <1>3, <2>3 DEF Unlisted, OpenStates
  <2> QED BY <1>1, <2>1, <2>4, <2>5, <2>6, <2>7, Becoming
<1> QED BY <1>1, <1>2, <1>3

LEMMA SynRcvdHandled ==
  ASSUME TcpAssumption, TcpInv, NEW s \in Sock, sock[s].state = "SYN_RCVD", NEW m \in Incoming,
         NEW k \in TcpRec, SockOK(k), k.state = "SYN_RCVD", Same(k, sock[s]),
         HandleSynRcvd(s, k, m), UNCHANGED peer
  PROVE  TcpInv'
<1> DEFINE y == ToUp(k, "ESTABLISHED")
<1>1. m.kind # "syn" /\ UNCHANGED out /\ Becomes(s, y)
  BY DEF HandleSynRcvd, ToUp
<1>2. "ESTABLISHED" \in State
  BY DEF State, Data
<1>3. y \in TcpRec /\ y.state = "ESTABLISHED" /\ Same(y, k)
  BY <1>2, SetUp
<1> HIDE DEF y
<1>4. k.state \in OpenStates /\ y.iss = k.iss /\ k.iss = sock[s].iss
  BY <1>3 DEF OpenStates, Same
<1>5. SockOK(y) /\ Front(y) = y.iss + 1
  BY <1>3, <1>4, SameStream, Fresh
<1>6. FrontOK(y)
  BY <1>4, <1>5, FrontFresh
<1>7. y.state \notin Unlisted /\ y.state \notin OpenStates /\ sock[s].state \notin Unlisted
  BY <1>3 DEF Unlisted, OpenStates
<1> QED BY <1>1, <1>4, <1>5, <1>6, <1>7, Becoming
LEMMA ReceivedOK ==
  ASSUME TcpAssumption, TcpInv, NEW m \in Incoming, NEW k, SockOK(k), k.state = "ESTABLISHED",
         m.kind \in {"data", "fin"} => k.rcvNxt < MaxRcv
  PROVE  LET y == Received(k, m)
         IN  SockOK(y) /\ y.state \in {"ESTABLISHED", "CLOSE_WAIT"} /\ y.iss = k.iss /\ Front(y) = Front(k)
<1>1. k \in TcpRec
  BY DEF SockOK
<1>2. k.rcvNxt \in 0..MaxRcv /\ MaxRcv \in Nat /\ k.recvQ \in Seq(1..MaxIn)
  BY <1>1, Counted DEF TcpAssumption
<1>3. CASE m.kind = "fin"
  <2> DEFINE y == ToFin(k, "CLOSE_WAIT", k.rcvNxt + 1)
  <2>1. Received(k, m) = y
    BY <1>3 DEF Received, ToFin
  <2>2. k.rcvNxt + 1 \in Sequel /\ "CLOSE_WAIT" \in State
    BY <1>2, <1>3 DEF Sequel, State, Data
  <2>3. y \in TcpRec /\ y.state = "CLOSE_WAIT" /\ Same(y, k)
    BY <1>1, <2>2, SetFin
  <2> HIDE DEF y
  <2>4. k.state \in Data /\ y.state \in Data /\ k.state \in SendStates
    BY <2>3 DEF Data, SendStates
  <2>5. SockOK(y) /\ Front(y) = Front(k)
    BY <2>3, <2>4, SameStream
  <2> QED BY <2>1, <2>3, <2>5 DEF Same
<1>4. CASE m.kind = "data"
  <2> DEFINE y == ToGet(k, Append(k.recvQ, m.seq), k.rcvNxt + 1)
  <2>1. Received(k, m) = y
    BY <1>4 DEF Received, ToGet
  <2>2. k.rcvNxt + 1 \in Sequel
    BY <1>2, <1>4 DEF Sequel
  <2>3. Append(k.recvQ, m.seq) \in Arrived
    <3>1. m.seq \in 1..MaxIn
      BY <1>4, IncomingIs
    <3> QED BY <1>2, <3>1, AppendMembers DEF Arrived
  <2>4. y \in TcpRec /\ y.state = k.state /\ Same(y, k)
    BY <1>1, <2>2, <2>3, SetGet
  <2> HIDE DEF y
  <2>5. SockOK(y) /\ Front(y) = Front(k)
    BY <2>4, SameStream
  <2> QED BY <2>1, <2>4, <2>5 DEF Same
<1>5. CASE m.kind \notin {"data", "fin"}
  <2>1. Received(k, m) = k
    BY <1>5 DEF Received
  <2> QED BY <2>1
<1> QED BY <1>3, <1>4, <1>5

LEMMA EstablishedHandled ==
  ASSUME TcpAssumption, TcpInv, NEW s \in Sock, sock[s].state = "ESTABLISHED", NEW m \in Incoming,
         NEW k \in TcpRec, SockOK(k), k.state = "ESTABLISHED", Same(k, sock[s]), Front(k) = Front(sock[s]),
         m.kind \in {"data", "fin"} => k.rcvNxt < MaxRcv,
         HandleEstablished(s, k, m), UNCHANGED peer
  PROVE  TcpInv'
<1> DEFINE c == TcpAckData(k, m.ack)
<1>1. m.kind # "syn"
  BY DEF HandleEstablished
<1>2. PICK n \in (IF c = k THEN {0} ELSE Window(c)) :
        /\ Becomes(s, Received(Moved(c, n), m))
        /\ out' = out \cup Sending(c, n)
  BY DEF HandleEstablished
<1>3. k.state \in Data /\ k.iss = sock[s].iss /\ sock[s].state \in Data /\ m.ack \in Number
  BY <1>1, IncomingIs DEF Data, Same
<1>4. /\ SockOK(c) /\ c.state = "ESTABLISHED" /\ c.iss = sock[s].iss /\ c.rcvNxt = k.rcvNxt
      /\ Front(c) = Front(sock[s]) \/ Front(c) <= m.ack
  BY <1>3, AckedOK
<1> HIDE DEF c
<1>5. c.state \in Data /\ c \in TcpRec
  BY <1>4 DEF Data, SockOK
<1>6. n \in 0..Len(c.sendQ)
  <2>1. Len(c.sendQ) \in Nat
    BY <1>5, Counted
  <2>2. CASE n = 0
    BY <2>1, <2>2
  <2>3. CASE n \in Window(c)
    BY <1>4, <2>3, WindowIs
  <2> QED BY <1>2, <2>2, <2>3
<1> DEFINE d == Moved(c, n)
<1>7. SockOK(d) /\ d.state = "ESTABLISHED" /\ d.iss = sock[s].iss /\ d.rcvNxt = k.rcvNxt /\ Front(d) = Front(c)
  BY <1>4, <1>5, <1>6, MovedOK
<1> HIDE DEF d
<1> DEFINE y == Received(d, m)
<1>8. SockOK(y) /\ y.state \in {"ESTABLISHED", "CLOSE_WAIT"} /\ y.iss = sock[s].iss /\ Front(y) = Front(c)
  BY <1>7, ReceivedOK
<1>9. Becomes(s, y)
  BY <1>2 DEF d
<1> HIDE DEF y
<1>10. y.state \in Data /\ y.state \notin Unlisted /\ y.state \notin OpenStates /\ sock[s].state \notin Unlisted
  BY <1>8 DEF Data, Unlisted, OpenStates
<1>11. FrontOK(y)
  <2>1. CASE Front(c) = Front(sock[s])
    BY <1>3, <1>8, <2>1, FrontKept
  <2>2. CASE Front(c) <= m.ack
    BY <1>1, <1>3, <1>8, <1>10, <2>2, FrontAcked
  <2> QED BY <1>4, <2>1, <2>2
<1>12. \A g \in out' : g \in out \/ OfStream(g, sock[s])
  <2>1. \A g \in Sending(c, n) : OfStream(g, sock[s])
    BY <1>3, <1>4, <1>5, <1>6, SendingIs DEF OfStream
  <2> QED BY <1>2, <2>1
<1> QED BY <1>1, <1>8, <1>9, <1>10, <1>11, <1>12, Becoming

LEMMA ClosingHandled ==
  ASSUME TcpAssumption, TcpInv, NEW s \in Sock, NEW m \in Incoming,
         sock[s].state \in (Data \ {"ESTABLISHED"}) \cup {"TIME_WAIT"},
         NEW k \in TcpRec, SockOK(k), k.state = sock[s].state, Same(k, sock[s]), Front(k) = Front(sock[s]),
         m.kind \in {"data", "fin"} => k.rcvNxt < MaxRcv,
         HandleClosing(s, k, m), UNCHANGED peer
  PROVE  TcpInv'
<1>1. /\ m.kind # "syn" /\ UNCHANGED out /\ k.iss = sock[s].iss
      /\ sock[s].state \notin Unlisted /\ k.state \notin Unlisted
  BY DEF HandleClosing, Same, Data, Unlisted
<1>2. CASE k.state = "LAST_ACK"
  <2>1. Gone(s) /\ UNCHANGED iss
    BY <1>2 DEF HandleClosing
  <2> QED BY <1>1, <2>1, Leaves
<1>3. CASE k.state \in {"FIN_WAIT_1", "FIN_WAIT_2"} /\ m.kind = "fin"
  <2> DEFINE y == ToWait(k, "TIME_WAIT", k.rcvNxt + 1)
  <2>1. Becomes(s, y)
    BY <1>3 DEF HandleClosing, ToWait
  <2>2. k.rcvNxt + 1 \in Sequel /\ "TIME_WAIT" \in State
    <3>1. k.rcvNxt \in 0..MaxRcv /\ k.rcvNxt < MaxRcv /\ MaxRcv \in Nat
      BY <1>3, Counted DEF TcpAssumption
    <3> QED BY <3>1 DEF Sequel, State
  <2>3. y \in TcpRec /\ y.state = "TIME_WAIT" /\ Same(y, k)
    BY <2>2, SetWait
  <2> HIDE DEF y
  <2>4. SockOK(y) /\ y.iss = sock[s].iss
    BY <1>1, <2>3, SameStream DEF Same
  <2>5. y.state \notin Data /\ y.state \notin Unlisted /\ y.state \notin OpenStates
    BY <2>3 DEF Data, Unlisted, OpenStates
  <2> QED BY <1>1, <2>1, <2>4, <2>5, Becoming
<1>4. CASE k.state = "FIN_WAIT_1" /\ m.kind # "fin"
  <2> DEFINE y == ToState(k, "FIN_WAIT_2")
  <2>1. Becomes(s, y)
    BY <1>4 DEF HandleClosing, ToState
  <2>2. "FIN_WAIT_2" \in State
    BY DEF State, Data
  <2>3. y \in TcpRec /\ y.state = "FIN_WAIT_2" /\ Same(y, k)
    BY <2>2, SetState
  <2> HIDE DEF y
  <2>4. /\ k.state \in Data /\ y.state \in Data /\ y.state \notin SendStates
        /\ y.state \notin Unlisted /\ y.state \notin OpenStates
    BY <1>4, <2>3 DEF Data, SendStates, Unlisted, OpenStates
  <2>5. SockOK(y) /\ y.iss = sock[s].iss /\ Front(y) = Front(sock[s])
    BY <1>1, <2>3, <2>4, SameStream DEF Same
  <2>6. FrontOK(y)
    BY <2>4, <2>5, FrontKept
  <2> QED BY <1>1, <2>1, <2>4, <2>5, <2>6, Becoming
<1>5. CASE /\ k.state # "LAST_ACK"
           /\ ~(k.state \in {"FIN_WAIT_1", "FIN_WAIT_2"} /\ m.kind = "fin")
           /\ ~(k.state = "FIN_WAIT_1" /\ m.kind # "fin")
  <2>1. Becomes(s, k)
    BY <1>5 DEF HandleClosing
  <2>2. k.state \notin OpenStates
    BY DEF Data, OpenStates
  <2>3. k.state \in Data => FrontOK(k)
    BY <1>1, FrontKept
  <2> QED BY <1>1, <2>1, <2>2, <2>3, Becoming
<1> QED BY <1>2, <1>3, <1>4, <1>5

LEMMA Handled ==
  ASSUME TcpAssumption, TcpInv, NEW m \in Incoming, NEW open \in BOOLEAN, TcpRx(m, open)
  PROVE  TcpInv'
<1>1. PICK s \in TcpFindSocket :
        LET k == [sock[s] EXCEPT !.open = open]
        IN  /\ m.kind \in {"data", "fin"} => k.rcvNxt < MaxRcv
            /\ CASE k.state = "LISTEN" -> HandleListen(s, k, m)
                 [] k.state = "SYN_SENT" -> HandleSynSent(s, k, m)
                 [] k.state = "SYN_RCVD" -> HandleSynRcvd(s, k, m)
                 [] k.state = "ESTABLISHED" -> HandleEstablished(s, k, m)
                 [] OTHER -> HandleClosing(s, k, m)
            /\ UNCHANGED peer
  BY DEF TcpRx
<1>2. s \in Sock /\ sock[s].state \notin {"none", "CLOSED"}
  <2>1. CASE s \in Listener
    BY <2>1 DEF Listener
  <2>2. CASE s \notin Listener
    <3>1. PICK i \in DOMAIN sockets : s = sockets[i]
      BY <2>2 DEF TcpFindSocket
    <3>2. s \in Members(sockets)
      BY <3>1 DEF Members
    <3> QED BY <3>2, Listing DEF Unlisted
  <2> QED BY <2>1, <2>2
<1> DEFINE k == [sock[s] EXCEPT !.open = open]
<1>3. /\ SockOK(k) /\ k \in TcpRec /\ k.state = sock[s].state /\ Same(k, sock[s]) /\ Front(k) = Front(sock[s])
      /\ k.rcvNxt = sock[s].rcvNxt
  BY <1>2, Windowed
<1>4. /\ m.kind \in {"data", "fin"} => k.rcvNxt < MaxRcv
      /\ CASE k.state = "LISTEN" -> HandleListen(s, k, m)
           [] k.state = "SYN_SENT" -> HandleSynSent(s, k, m)
           [] k.state = "SYN_RCVD" -> HandleSynRcvd(s, k, m)
           [] k.state = "ESTABLISHED" -> HandleEstablished(s, k, m)
           [] OTHER -> HandleClosing(s, k, m)
      /\ UNCHANGED peer
  BY <1>1
<1> HIDE DEF k
<1>5. CASE k.state = "LISTEN"
  BY <1>2, <1>3, <1>4, <1>5, ListenHandled
<1>6. CASE k.state = "SYN_SENT"
  BY <1>2, <1>3, <1>4, <1>6, SynSentHandled
<1>7. CASE k.state = "SYN_RCVD"
  BY <1>2, <1>3, <1>4, <1>7, SynRcvdHandled
<1>8. CASE k.state = "ESTABLISHED"
  BY <1>2, <1>3, <1>4, <1>8, EstablishedHandled
<1>9. CASE k.state \notin {"LISTEN", "SYN_SENT", "SYN_RCVD", "ESTABLISHED"}
  <2>1. HandleClosing(s, k, m)
    BY <1>4, <1>9
  <2>2. sock[s].state \in (Data \ {"ESTABLISHED"}) \cup {"TIME_WAIT"}
    <3>1. k.state \in State
      BY <1>3 DEF TcpRec
    <3> QED BY <1>2, <1>3, <1>9, <3>1 DEF State
  <2> QED BY <1>2, <1>3, <1>4, <2>1, <2>2, ClosingHandled
<1> QED BY <1>5, <1>6, <1>7, <1>8, <1>9
------------------------------------------------------------------------------
(* The station. *)
LEMMA SynTaken ==
  ASSUME TcpAssumption, TcpInv, NEW m \in out, m.kind = "syn", PeerTakes(m)
  PROVE  TcpInv'
<1>1. /\ DOMAIN sock = Sock /\ sock = [t \in Sock |-> sock[t]] /\ \A t \in Sock : SockOK(sock[t])
      /\ iss \in 0..MaxIss /\ ListsOK /\ OutOK /\ PeerOK /\ Connects /\ Serves /\ Got
  BY DEF TcpInv
<1>2. /\ peer.serves /\ (peer.irs # NoIss => peer.rcv = peer.irs + 1 /\ peer.sent = 0)
      /\ peer' = [peer EXCEPT !.irs = m.seq, !.rcv = m.seq + 1, !.answered = @ \cup {m.seq}]
      /\ UNCHANGED <<sock, sockets, accept, iss, out>>
  BY DEF PeerTakes
<1>3. /\ m.seq \in IssOf /\ m.seq \in Nat /\ m.seq + 1 \in Number
      /\ m.seq <= Last /\ m.seq # NoIss /\ NoIss \notin IssOf
  <2>1. m.seq \in IssOf /\ m.seq <= Last
    BY <1>1, <1>2 DEF OutOK, Serves
  <2>2. /\ m.seq \in Nat /\ m.seq + MaxOut + 2 <= Top /\ Top \in Nat
        /\ MaxOut \in Nat /\ IssOf \subseteq Nat /\ NoIss \notin Nat
    BY <2>1, Bases DEF TcpAssumption
  <2>3. m.seq + 1 \in Number
    BY <2>2 DEF Number
  <2>4. m.seq # NoIss /\ NoIss \notin IssOf
    BY <2>2
  <2> QED BY <2>1, <2>2, <2>3, <2>4
<1>4. /\ peer'.serves = peer.serves /\ peer'.shuts = peer.shuts /\ peer'.irs = m.seq /\ peer'.rcv = m.seq + 1
      /\ peer'.answered = peer.answered \cup {m.seq} /\ peer'.sent = peer.sent /\ peer'.fin = peer.fin
  BY <1>1, <1>2 DEF PeerOK
<1>5. PeerOK'
  <2>1. peer' \in [serves : BOOLEAN, shuts : BOOLEAN, irs : IssOf \cup {NoIss}, answered : SUBSET IssOf,
                   rcv : Number, sent : 0..MaxIn, fin : BOOLEAN]
    BY <1>1, <1>2, <1>3 DEF PeerOK
  <2> QED BY <1>3, <1>4, <2>1 DEF PeerOK
<1>6. ListsOK' /\ OutOK' /\ Connects'
  BY <1>1, <1>2, <1>4 DEF ListsOK, OutOK, Connects
<1>7. \A t \in Sock : sock[t].state \in Data => sock[t].iss = Last /\ Front(sock[t]) = Last + 1
  <2> SUFFICES ASSUME NEW t \in Sock, sock[t].state \in Data PROVE sock[t].iss = Last /\ Front(sock[t]) = Last + 1
    OBVIOUS
  <2>1. sock[t].iss = Last /\ SockOK(sock[t])
    BY <1>1, <1>2 DEF Serves, OneSocket, Data
  <2>2. CASE peer.irs # Last
    BY <1>1, <1>2, <2>1, <2>2 DEF Serves
  <2>3. CASE peer.irs = Last
    <3>1. Front(sock[t]) <= peer.rcv
      BY <1>1, <2>1, <2>3 DEF Got
    <3>2. Last \in Nat /\ Last # NoIss
      BY <1>1, Bases DEF Last, TcpAssumption
    <3>3. peer.rcv = Last + 1
      BY <1>2, <2>3, <3>2
    <3>4. Front(sock[t]) \in Nat /\ Front(sock[t]) > Last
      BY <2>1, StreamBounds
    <3>5. Front(sock[t]) = Last + 1
      BY <3>1, <3>2, <3>3, <3>4
    <3> QED BY <2>1, <3>5
  <2> QED BY <2>2, <2>3
<1>8. Last \in Nat
  BY <1>1, Bases DEF Last
<1>9. Serves'
  <2>1. Last' = Last /\ OneSocket' /\ (Connected => Connected')
    BY <1>1, <1>2 DEF Last, Serves, OneSocket, Connected
  <2>2. \A g \in out : /\ g.kind # "synack" /\ (g.kind = "syn" => g.seq <= Last)
                       /\ g.kind \in {"data", "fin"} => g.seq > Last /\ Connected
    BY <1>1, <1>2 DEF Serves
  <2>3. \A i \in peer'.answered : i <= Last
    BY <1>1, <1>2, <1>3, <1>4 DEF Serves
  <2>4. peer'.irs <= Last /\ peer'.rcv = peer'.irs + 1
    BY <1>3, <1>4
  <2> QED BY <1>2, <1>4, <1>7, <2>1, <2>2, <2>3, <2>4 DEF Serves
<1>10. Got'
  <2> SUFFICES ASSUME NEW t \in Sock, sock'[t].state \in Data, peer'.irs = sock'[t].iss
               PROVE  Front(sock'[t]) <= peer'.rcv
    BY DEF Got
  <2>1. Front(sock[t]) = Last + 1 /\ m.seq = Last
    BY <1>2, <1>4, <1>7
  <2> QED BY <1>2, <1>4, <1>8, <2>1
<1> QED BY <1>1, <1>2, <1>5, <1>6, <1>9, <1>10 DEF TcpInv

LEMMA SynAckTaken ==
  ASSUME TcpAssumption, TcpInv, NEW m \in out, m.kind = "synack", PeerTakes(m)
  PROVE  TcpInv'
<1>1. /\ DOMAIN sock = Sock /\ sock = [t \in Sock |-> sock[t]] /\ \A t \in Sock : SockOK(sock[t])
      /\ iss \in 0..MaxIss /\ ListsOK /\ OutOK /\ PeerOK /\ Connects /\ Serves /\ Got
  BY DEF TcpInv
<1>2. /\ peer.irs = NoIss /\ peer' = [peer EXCEPT !.irs = m.seq, !.rcv = m.seq + 1]
      /\ UNCHANGED <<sock, sockets, accept, iss, out>>
  BY DEF PeerTakes
<1>3. m.seq \in IssOf /\ m.seq \in Nat /\ m.seq + 1 \in Number /\ m.seq # NoIss
  <2>1. m.seq \in IssOf
    BY <1>1 DEF OutOK
  <2>2. m.seq \in Nat /\ m.seq + MaxOut + 2 <= Top /\ Top \in Nat /\ MaxOut \in Nat /\ NoIss \notin Nat
    BY <2>1, Bases DEF TcpAssumption
  <2> QED BY <2>1, <2>2 DEF Number
<1>4. /\ peer'.serves = peer.serves /\ peer'.irs = m.seq /\ peer'.rcv = m.seq + 1 /\ peer'.answered = peer.answered
  BY <1>1, <1>2 DEF PeerOK
<1>5. PeerOK'
  <2>1. peer' \in [serves : BOOLEAN, shuts : BOOLEAN, irs : IssOf \cup {NoIss}, answered : SUBSET IssOf,
                   rcv : Number, sent : 0..MaxIn, fin : BOOLEAN]
    BY <1>1, <1>2, <1>3 DEF PeerOK
  <2> QED BY <1>3, <1>4, <2>1 DEF PeerOK
<1>6. ~peer.serves
  BY <1>1 DEF Serves
<1>7. ListsOK' /\ OutOK' /\ Connects' /\ Serves'
  BY <1>1, <1>2, <1>3, <1>4, <1>6 DEF ListsOK, OutOK, Connects, Serves
<1>8. \A t \in Sock : sock[t].state \notin Data
  BY <1>1, <1>2, <1>6 DEF Connects, Data
<1>9. Got'
  BY <1>2, <1>8 DEF Got
<1> QED BY <1>1, <1>2, <1>5, <1>7, <1>9 DEF TcpInv

LEMMA DataTaken ==
  ASSUME TcpAssumption, TcpInv, NEW m \in out, m.kind \in {"data", "fin"}, PeerTakes(m)
  PROVE  TcpInv'
<1>1. /\ DOMAIN sock = Sock /\ sock = [t \in Sock |-> sock[t]] /\ \A t \in Sock : SockOK(sock[t])
      /\ iss \in 0..MaxIss /\ ListsOK /\ OutOK /\ PeerOK /\ Connects /\ Serves /\ Got
  BY DEF TcpInv
<1>2. /\ peer.irs # NoIss /\ m.seq = peer.rcv /\ peer' = [peer EXCEPT !.rcv = @ + 1]
      /\ UNCHANGED <<sock, sockets, accept, iss, out>>
  BY DEF PeerTakes
<1>3. peer.rcv \in Nat /\ peer.rcv < Top /\ Top \in Nat /\ peer.irs \in Nat /\ peer.rcv >= peer.irs + 1
  <2>1. peer.rcv \in Number /\ m.seq < Top /\ Top \in Nat /\ peer.irs \in IssOf /\ peer.rcv >= peer.irs + 1
    BY <1>1, <1>2, Bases DEF OutOK, PeerOK
  <2> QED BY <1>2, <2>1, Bases DEF Number
<1>4. /\ peer'.serves = peer.serves /\ peer'.irs = peer.irs /\ peer'.rcv = peer.rcv + 1 /\ peer'.answered = peer.answered
  BY <1>1, <1>2 DEF PeerOK
<1>5. PeerOK'
  <2>1. peer.rcv + 1 \in Number
    BY <1>3 DEF Number
  <2>2. peer' \in [serves : BOOLEAN, shuts : BOOLEAN, irs : IssOf \cup {NoIss}, answered : SUBSET IssOf,
                   rcv : Number, sent : 0..MaxIn, fin : BOOLEAN]
    BY <1>1, <1>2, <2>1 DEF PeerOK
  <2> QED BY <1>2, <1>3, <1>4, <2>2 DEF PeerOK
<1>6. ListsOK' /\ OutOK' /\ Connects'
  BY <1>1, <1>2, <1>4 DEF ListsOK, OutOK, Connects
<1>7. Serves'
  <2> SUFFICES ASSUME peer.serves PROVE Serves'
    BY <1>4 DEF Serves
  <2>1. Last' = Last /\ OneSocket' /\ (Connected => Connected') /\ Last \in Nat
    BY <1>1, <1>2, Bases DEF Last, Serves, OneSocket, Connected
  <2>2. \A g \in out : /\ g.kind # "synack" /\ (g.kind = "syn" => g.seq <= Last)
                       /\ g.kind \in {"data", "fin"} => g.seq > Last /\ Connected
    BY <1>1 DEF Serves
  <2>3. peer.irs <= Last /\ (peer.rcv # peer.irs + 1 => peer.irs = Last /\ Connected)
    BY <1>1, <1>2 DEF Serves
  <2>4. peer.rcv > Last /\ Connected
    BY <1>2, <2>2
  <2>5. peer.irs = Last
    BY <1>3, <2>1, <2>3, <2>4
  <2>6. \A i \in peer.answered : i <= Last
    BY <1>1 DEF Serves
  <2> QED BY <1>2, <1>4, <2>1, <2>2, <2>3, <2>4, <2>5, <2>6 DEF Serves
<1>8. Got'
  <2> SUFFICES ASSUME NEW t \in Sock, sock'[t].state \in Data, peer'.irs = sock'[t].iss
               PROVE  Front(sock'[t]) <= peer'.rcv
    BY DEF Got
  <2>1. Front(sock[t]) <= peer.rcv /\ sock' = sock
    BY <1>1, <1>2, <1>4 DEF Got
  <2>2. Front(sock[t]) \in Nat
    BY <1>1, <2>1, StreamBounds
  <2> QED BY <1>3, <1>4, <2>1, <2>2
<1> QED BY <1>1, <1>2, <1>5, <1>6, <1>7, <1>8 DEF TcpInv

LEMMA StationSends ==
  ASSUME TcpAssumption, TcpInv, PeerSends
  PROVE  TcpInv'
<1>1. /\ DOMAIN sock = Sock /\ sock = [t \in Sock |-> sock[t]] /\ \A t \in Sock : SockOK(sock[t])
      /\ iss \in 0..MaxIss /\ ListsOK /\ OutOK /\ PeerOK /\ Connects /\ Serves /\ Got
  BY DEF TcpInv
<1>2. /\ peer' \in {[peer EXCEPT !.sent = @ + 1], [peer EXCEPT !.fin = TRUE]} /\ peer'.sent <= MaxIn
      /\ UNCHANGED <<sock, sockets, accept, iss, out>>
  BY DEF PeerSends
<1>3. /\ peer'.serves = peer.serves /\ peer'.irs = peer.irs /\ peer'.rcv = peer.rcv /\ peer'.answered = peer.answered
  BY <1>1, <1>2 DEF PeerOK
<1>4. PeerOK'
  <2>1. CASE peer' = [peer EXCEPT !.sent = @ + 1]
    <3>1. peer.sent + 1 \in 0..MaxIn
      <4>1. peer.sent \in 0..MaxIn /\ MaxIn \in Nat /\ peer'.sent = peer.sent + 1
        BY <1>1, <2>1 DEF PeerOK, TcpAssumption
      <4> QED BY <1>2, <4>1
    <3>2. peer' \in [serves : BOOLEAN, shuts : BOOLEAN, irs : IssOf \cup {NoIss}, answered : SUBSET IssOf,
                     rcv : Number, sent : 0..MaxIn, fin : BOOLEAN]
      BY <1>1, <2>1, <3>1 DEF PeerOK
    <3> QED BY <1>1, <1>3, <3>2 DEF PeerOK
  <2>2. CASE peer' = [peer EXCEPT !.fin = TRUE]
    <3>1. peer' \in [serves : BOOLEAN, shuts : BOOLEAN, irs : IssOf \cup {NoIss}, answered : SUBSET IssOf,
                     rcv : Number, sent : 0..MaxIn, fin : BOOLEAN]
      BY <1>1, <2>2 DEF PeerOK
    <3> QED BY <1>1, <1>3, <3>1 DEF PeerOK
  <2> QED BY <1>2, <2>1, <2>2
<1>5. ListsOK' /\ OutOK' /\ Connects' /\ Got'
  BY <1>1, <1>2, <1>3 DEF ListsOK, OutOK, Connects, Got
<1>6. Serves'
  <2>1. Last' = Last /\ (OneSocket => OneSocket') /\ (Connected => Connected')
    BY <1>2 DEF Last, OneSocket, Connected
  <2> QED BY <1>1, <1>2, <1>3, <2>1 DEF Serves
<1> QED BY <1>1, <1>2, <1>4, <1>5, <1>6 DEF TcpInv
------------------------------------------------------------------------------
(* The inductive invariant, and what it says of the property. *)
LEMMA TcpStarts ==
  ASSUME TcpAssumption, TcpStart
  PROVE  TcpInv
<1> DEFINE none == <<>>
<1>1. /\ sock = [s \in Sock |-> NoSocket] /\ sockets = none /\ accept = none /\ iss = 0 /\ out = {}
      /\ peer \in [serves : BOOLEAN, shuts : BOOLEAN, irs : {NoIss}, answered : {{}}, rcv : {0},
                   sent : {0}, fin : {FALSE}]
  BY DEF TcpStart
<1>2. SockOK(NoSocket) /\ NoSocket.state = "none"
  BY NewSockets
<1>3. none \in Seq(Sock) /\ Once(none) /\ Members(none) = {} /\ Len(none) = 0
  BY DEF Once, Members
<1> HIDE DEF none
<1>4. DOMAIN sock = Sock /\ sock = [s \in Sock |-> sock[s]] /\ \A s \in Sock : sock[s] = NoSocket
  BY <1>1
<1>5. ListsOK
  <2>1. BackLog \in Nat
    BY DEF TcpAssumption
  <2> QED BY <1>1, <1>2, <1>3, <1>4, <2>1 DEF ListsOK, Unlisted
<1>6. OutOK
  BY <1>1 DEF OutOK
<1>7. PeerOK
  <2>1. 0 \in Number /\ 0 \in 0..MaxIn
    BY Bases DEF Number, TcpAssumption
  <2> QED BY <1>1, <2>1 DEF PeerOK
<1>8. Connects
  BY <1>1, <1>2, <1>4 DEF Connects
<1>9. Serves
  BY <1>1, <1>2, <1>4 DEF Serves, OneSocket, Data, none
<1>10. Got
  BY <1>2, <1>4 DEF Got, Data
<1>11. iss \in 0..MaxIss
  BY <1>1 DEF TcpAssumption
<1> QED BY <1>2, <1>4, <1>5, <1>6, <1>7, <1>8, <1>9, <1>10, <1>11 DEF TcpInv

LEMMA TcpSteps ==
  ASSUME TcpAssumption, TcpInv, [TcpNext]_tcpVars
  PROVE  TcpInv'
<1>1. CASE UNCHANGED tcpVars
  BY <1>1 DEF tcpVars, TcpInv, ListsOK, OutOK, PeerOK, Connects, Serves, Got, OneSocket, Connected, Last
<1>2. ASSUME NEW s \in Sock, NEW own \in BOOLEAN, TcpBind(s, own) PROVE TcpInv'
  BY <1>2, Binds
<1>3. ASSUME NEW s \in Sock, TcpListen(s) PROVE TcpInv'
  BY <1>3, Listens
<1>4. ASSUME NEW s \in Sock, TcpConnect(s) PROVE TcpInv'
  BY <1>4, Connecting
<1>5. ASSUME NEW s \in Sock, TcpSend(s) PROVE TcpInv'
  BY <1>5, Sent
<1>6. ASSUME NEW s \in Sock, TcpRecv(s) PROVE TcpInv'
  BY <1>6, Recvs
<1>7. ASSUME NEW s \in Sock, TcpClose(s) PROVE TcpInv'
  BY <1>7, Closes
<1>8. ASSUME NEW s \in Sock, TcpAbort(s) PROVE TcpInv'
  BY <1>8, Aborts
<1>9. ASSUME NEW s \in Sock, TcpTick(s) PROVE TcpInv'
  BY <1>9, Ticks
<1>10. CASE TcpAccept
  BY <1>10, Accepts
<1>11. ASSUME NEW m \in Incoming, NEW open \in {TRUE, ~peer.shuts}, TcpRx(m, open) PROVE TcpInv'
  <2>1. open \in BOOLEAN
    OBVIOUS
  <2> QED BY <1>11, <2>1, Handled
<1>12. ASSUME NEW m \in out, PeerTakes(m) PROVE TcpInv'
  <2>1. m.kind \in OutKinds
    BY DEF TcpInv, OutOK
  <2> QED BY <1>12, <2>1, SynTaken, SynAckTaken, DataTaken DEF OutKinds
<1>13. CASE PeerSends
  BY <1>13, StationSends
<1> QED BY <1>1, <1>2, <1>3, <1>4, <1>5, <1>6, <1>7, <1>8, <1>9, <1>10, <1>11, <1>12, <1>13 DEF TcpNext

LEMMA TcpTypes ==
  ASSUME TcpAssumption, TcpInv
  PROVE  TcpTypeOK
<1>1. /\ DOMAIN sock = Sock /\ sock = [t \in Sock |-> sock[t]] /\ \A t \in Sock : sock[t] \in TcpRec
      /\ iss \in 0..MaxIss /\ ListsOK /\ OutOK
  BY DEF TcpInv, SockOK
<1>2. sock \in [Sock -> TcpRec]
  BY <1>1
<1>3. 0..((MaxIss + 1) * IssStep) = Number
  BY DEF Number, Top
<1>4. sock \in [Sock -> [state : State, own : BOOLEAN, iss : Number, una : Number, nxt : Number,
                         end : Number, rcvNxt : 0..MaxRcv, open : BOOLEAN, timer : BOOLEAN,
                         tries : 0..MaxRetrans, sendQ : Seq(Number), retransQ : Seq(Number),
                         recvQ : Seq(1..MaxIn)]]
  BY <1>2 DEF TcpRec, Sequel, Tried, Chunks, Arrived
<1>5. sockets \in Seq(Sock) /\ accept \in Seq(Sock) /\ Len(accept) <= BackLog
  BY <1>1 DEF ListsOK
<1>6. out \subseteq [kind : {"syn", "synack", "data", "fin"}, seq : Number, ack : 0..MaxRcv]
  BY <1>1 DEF OutOK, OutKinds
<1> QED BY <1>1, <1>3, <1>4, <1>5, <1>6, Zenon DEF TcpTypeOK

LEMMA TcpLists ==
  ASSUME TcpAssumption, TcpInv
  PROVE  ListedOnce
<1> SUFFICES ASSUME NEW s \in Sock
             PROVE  Cardinality({i \in DOMAIN sockets : sockets[i] = s}) + Cardinality({i \in DOMAIN accept : accept[i] = s})
                      = IF sock[s].state \in {"none", "CLOSED", "LISTEN"} THEN 0 ELSE 1
  BY DEF ListedOnce
<1>1. /\ sockets \in Seq(Sock) /\ accept \in Seq(Sock) /\ Once(sockets) /\ Once(accept)
      /\ ~(s \in Members(sockets) /\ s \in Members(accept))
      /\ s \in Members(sockets) \/ s \in Members(accept) <=> sock[s].state \notin Unlisted
  BY DEF TcpInv, ListsOK
<1>2. /\ Cardinality({i \in DOMAIN sockets : sockets[i] = s}) = IF s \in Members(sockets) THEN 1 ELSE 0
      /\ Cardinality({i \in DOMAIN accept : accept[i] = s}) = IF s \in Members(accept) THEN 1 ELSE 0
  BY <1>1, OnceCount
<1> QED BY <1>1, <1>2 DEF Unlisted

LEMMA TcpStreams ==
  ASSUME TcpAssumption, TcpInv
  PROVE  StreamHeld
<1> SUFFICES ASSUME NEW s \in Sock, sock[s].state \in Data
             PROVE  LET k == sock[s]
                        q == Queued(k)
                    IN  /\ \A i \in DOMAIN q : q[i] = k.end - Len(q) + i - 1
                        /\ peer.irs = k.iss => \A c \in (k.iss + 1)..(k.end - 1) : c \in Members(q) \/ c < peer.rcv
  BY DEF StreamHeld
<1> DEFINE k == sock[s]
           f == Front(k)
           a == k.retransQ
           b == k.sendQ
           q == a \o b
<1>1. SockOK(k) /\ k \in TcpRec
  BY DEF TcpInv, SockOK
<1>2. /\ StreamOK(k) /\ f \in Nat /\ f > k.iss /\ f + Len(a) + Len(b) = k.end /\ k.end - Len(b) = f + Len(a)
  BY <1>1, StreamBounds
<1>3. /\ k.iss \in Nat /\ k.end \in Nat /\ Len(a) \in Nat /\ Len(b) \in Nat /\ a \in Seq(Number) /\ b \in Seq(Number)
  BY <1>1, Counted
<1>4. Steady(a, f) /\ Steady(b, f + Len(a))
  BY <1>2 DEF StreamOK
<1>5. Queued(k) = q
  BY DEF Queued
<1>6. peer.irs = k.iss => f <= peer.rcv
  BY DEF TcpInv, Got
<1>7. peer.rcv \in Nat
  BY Bases DEF TcpInv, PeerOK, Number
<1> DEFINE e == k.end
           first == k.iss
<1>8. e \in Nat /\ first \in Nat /\ f + Len(a) + Len(b) = e /\ f > first
  BY <1>2, <1>3
<1> HIDE DEF f, a, b, e, first
<1>9. /\ q \in Seq(Number) /\ Len(q) = Len(a) + Len(b)
      /\ \A i \in 1..Len(a) : q[i] = a[i]
      /\ \A i \in 1..Len(b) : q[Len(a) + i] = b[i]
  BY <1>3
<1> HIDE DEF q
<1>10. DOMAIN q = 1..Len(q) /\ Len(q) \in Nat
  BY <1>9
<1>11. ASSUME NEW i \in 1..Len(q) PROVE q[i] = f + i - 1
  <2>1. CASE i <= Len(a)
    <3>1. i \in 1..Len(a)
      BY <1>3, <2>1
    <3> QED BY <1>4, <1>9, <3>1 DEF Steady
  <2>2. CASE i > Len(a)
    <3>1. i - Len(a) \in 1..Len(b) /\ Len(a) + (i - Len(a)) = i
      BY <1>3, <1>9, <2>2
    <3>2. q[i] = b[i - Len(a)] /\ b[i - Len(a)] = (f + Len(a)) + (i - Len(a)) - 1
      BY <1>4, <1>9, <3>1 DEF Steady
    <3> QED BY <1>2, <1>3, <3>2
  <2> QED BY <1>3, <2>1, <2>2
<1>12. \A i \in DOMAIN q : q[i] = e - Len(q) + i - 1
  <2>1. e - Len(q) = f
    BY <1>2, <1>3, <1>8, <1>9
  <2> QED BY <1>10, <1>11, <2>1
<1>13. ASSUME peer.irs = first, NEW c \in (first + 1)..(e - 1) PROVE c \in Members(q) \/ c < peer.rcv
  <2>1. f <= peer.rcv
    BY <1>6, <1>13 DEF first
  <2>2. CASE c < f
    BY <1>2, <1>7, <1>8, <2>1, <2>2
  <2>3. CASE c >= f
    <3>1. c - f + 1 \in 1..Len(q) /\ f + (c - f + 1) - 1 = c
      BY <1>2, <1>3, <1>8, <1>9, <2>3
    <3>2. q[c - f + 1] = c
      BY <1>11, <3>1
    <3> QED BY <1>10, <3>1, <3>2 DEF Members
  <2> QED BY <1>2, <1>8, <2>2, <2>3
<1> QED BY <1>5, <1>12, <1>13 DEF e, first

(* TcpSound holds in every state of TcpSpec: see Tcp. *)
THEOREM TcpSoundAlways == TcpAssumption => (TcpSpec => []TcpSound)
<1> SUFFICES ASSUME TcpAssumption PROVE TcpSpec => []TcpSound
  OBVIOUS
<1>1. TcpStart => TcpInv
  BY TcpStarts
<1>2. TcpInv /\ [TcpNext]_tcpVars => TcpInv'
  BY TcpSteps
<1>3. TcpInv => TcpSound
  BY TcpTypes, TcpLists, TcpStreams DEF TcpSound
<1> QED BY <1>1, <1>2, <1>3, PTL DEF TcpSpec
------------------------------------------------------------------------------
(* Names.  Whoever is at a query is at one that there is, and an answer on its *)
(* way into the cache is that of the name it will be kept under.               *)
DnsInv ==
  /\ N!DnsTypeOK /\ N!AnswerIsAsked
  /\ resolve.pc # "none" => resolve.q \in N!Query
  /\ dnsIrq.pc # "none" => dnsIrq.at \in N!Query
  /\ dnsIrq.pc = "insert" =>
       dnsIrq.name \in Name /\ dnsIrq.answer \in {Nil, Address[dnsIrq.name]}

QueryRec == [live : BOOLEAN, name : Name \cup {Nil}, age : 0..NameTimeout, retries : 0..Resends,
             next : N!Query \cup {Nil}]
ResolveRec == [pc : {"none", "send", "first", "second", "unlink", "free"}, q : N!Query \cup {Nil},
               waited : 0..NameTimeout]
Addresses == {Nil} \cup {Address[n] : n \in Name}
DnsIrqRec == [pc : {"none", "insert", "free", "visit", "send"}, at : N!Query \cup {Nil},
              prev : N!Query \cup {Nil}, next : N!Query \cup {Nil}, name : Name \cup {Nil},
              answer : Addresses]

LEMMA DnsTypes ==
  N!DnsTypeOK <=> /\ queries \in N!Query \cup {Nil} /\ query \in [N!Query -> QueryRec]
                  /\ names \in [Name -> Addresses] /\ resolve \in ResolveRec /\ dnsIrq \in DnsIrqRec
BY DEF N!DnsTypeOK, QueryRec, ResolveRec, Addresses, DnsIrqRec

LEMMA NameNumbers ==
  ASSUME RequestsAssumption
  PROVE  /\ NameTimeout \in Nat \ {0} /\ Resends \in Nat /\ Nil \notin Name /\ Nil \notin N!Query
         /\ N!Query \subseteq Nat
BY DEF RequestsAssumption, N!Query

LEMMA DnsStarts ==
  ASSUME RequestsAssumption, N!DnsStart
  PROVE  DnsInv
<1>1. /\ queries = Nil /\ query = [q \in N!Query |-> N!Unused] /\ names = [n \in Name |-> Nil]
      /\ resolve = N!NoResolve /\ dnsIrq = N!NoIrq
  BY DEF N!DnsStart
<1>2. N!Unused \in QueryRec /\ N!NoResolve \in ResolveRec /\ N!NoIrq \in DnsIrqRec
  BY NameNumbers DEF N!Unused, N!NoResolve, N!NoIrq, QueryRec, ResolveRec, DnsIrqRec, Addresses
<1>3. N!DnsTypeOK
  BY <1>1, <1>2, DnsTypes DEF Addresses
<1>4. resolve.pc = "none" /\ dnsIrq.pc = "none"
  BY <1>1 DEF N!NoResolve, N!NoIrq
<1> QED BY <1>1, <1>3, <1>4 DEF DnsInv, N!AnswerIsAsked

LEMMA NameUnlinked ==
  ASSUME DnsInv, NEW prev, NEW next \in N!Query \cup {Nil}, N!Unlinked(prev, next)
  PROVE  queries' \in N!Query \cup {Nil} /\ query' \in [N!Query -> QueryRec]
<1>1. queries \in N!Query \cup {Nil} /\ query \in [N!Query -> QueryRec]
  BY DnsTypes DEF DnsInv
<1>2. /\ queries' = IF prev = Nil THEN next ELSE queries
      /\ query' = IF prev = Nil THEN query ELSE [query EXCEPT ![prev].next = next]
  BY DEF N!Unlinked
<1>3. \A r \in QueryRec : [r EXCEPT !.next = next] \in QueryRec
  BY DEF QueryRec
<1>4. [query EXCEPT ![prev].next = next] \in [N!Query -> QueryRec]
  BY <1>1, <1>3
<1> QED BY <1>1, <1>2, <1>4

(* The walk goes on, at a query or at the end.                                 *)
LEMMA NameVisited ==
  ASSUME RequestsAssumption, NEW q \in N!Query \cup {Nil}, NEW prev \in N!Query \cup {Nil},
         dnsIrq' = N!Visiting(q, prev)
  PROVE  /\ dnsIrq' \in DnsIrqRec /\ dnsIrq'.pc \in {"none", "visit"}
         /\ dnsIrq'.pc # "none" => dnsIrq'.at \in N!Query
<1>1. N!NoIrq \in DnsIrqRec /\ N!NoIrq.pc = "none"
  BY DEF N!NoIrq, DnsIrqRec, Addresses
<1>2. CASE q = Nil
  BY <1>1, <1>2 DEF N!Visiting
<1>3. CASE q # Nil
  <2>1. dnsIrq' = [N!NoIrq EXCEPT !.pc = "visit", !.at = q, !.prev = prev]
    BY <1>3 DEF N!Visiting
  <2> QED BY <1>1, <1>3, <2>1 DEF DnsIrqRec
<1> QED BY <1>2, <1>3

LEMMA DnsAct ==
  ASSUME RequestsAssumption, DnsInv, N!DnsNext
  PROVE  DnsInv'
<1>1. /\ queries \in N!Query \cup {Nil} /\ query \in [N!Query -> QueryRec]
      /\ names \in [Name -> Addresses] /\ resolve \in ResolveRec /\ dnsIrq \in DnsIrqRec
      /\ \A n \in Name : names[n] \in {Nil, Address[n]}
      /\ (resolve.pc # "none" => resolve.q \in N!Query)
      /\ (dnsIrq.pc # "none" => dnsIrq.at \in N!Query)
      /\ (dnsIrq.pc = "insert" => /\ dnsIrq.name \in Name
                                  /\ dnsIrq.answer \in {Nil, Address[dnsIrq.name]})
  BY DnsTypes DEF DnsInv, N!AnswerIsAsked
<1> DEFINE Lists == queries' \in N!Query \cup {Nil} /\ query' \in [N!Query -> QueryRec]
           Cached == names' \in [Name -> Addresses] /\ \A n \in Name : names'[n] \in {Nil, Address[n]}
           Shell == resolve' \in ResolveRec /\ (resolve'.pc # "none" => resolve'.q \in N!Query)
           Irq == /\ dnsIrq' \in DnsIrqRec /\ (dnsIrq'.pc # "none" => dnsIrq'.at \in N!Query)
                  /\ (dnsIrq'.pc = "insert" => /\ dnsIrq'.name \in Name
                                               /\ dnsIrq'.answer \in {Nil, Address[dnsIrq'.name]})
<1>2. Lists /\ Cached /\ Shell /\ Irq => DnsInv'
  <2>1. N!DnsTypeOK' <=> /\ queries' \in N!Query \cup {Nil} /\ query' \in [N!Query -> QueryRec]
                         /\ names' \in [Name -> Addresses] /\ resolve' \in ResolveRec /\ dnsIrq' \in DnsIrqRec
    BY DEF N!DnsTypeOK, QueryRec, ResolveRec, Addresses, DnsIrqRec
  <2> QED BY <2>1 DEF DnsInv, N!AnswerIsAsked
<1>3. /\ UNCHANGED names => Cached
      /\ UNCHANGED resolve => Shell
      /\ UNCHANGED dnsIrq => Irq
      /\ UNCHANGED <<queries, query>> => Lists
  BY <1>1
<1>n. /\ NameTimeout \in Nat \ {0} /\ Resends \in Nat /\ Nil \notin Name /\ Nil \notin N!Query
  BY NameNumbers
<1>4. ASSUME NEW q \in N!Query, NEW n \in Name, N!DnsResolve(q, n) PROVE DnsInv'
  <2>1. /\ query' = [query EXCEPT ![q] = [N!Unused EXCEPT !.live = TRUE, !.name = n, !.next = queries]]
        /\ queries' = q /\ resolve' = [pc |-> "send", q |-> q, waited |-> 0]
        /\ UNCHANGED <<names, dnsIrq>>
    BY <1>4 DEF N!DnsResolve
  <2>2. [N!Unused EXCEPT !.live = TRUE, !.name = n, !.next = queries] \in QueryRec
    <3>1. 0 \in 0..NameTimeout /\ 0 \in 0..Resends
      BY <1>n
    <3> QED BY <1>1, <3>1 DEF N!Unused, QueryRec
  <2>3. Shell
    BY <1>n, <2>1 DEF ResolveRec
  <2> QED BY <1>1, <1>2, <1>3, <2>1, <2>2, <2>3
<1>5. CASE N!DnsSendQuery
  <2>1. PICK pc \in {"first", "unlink"} : /\ resolve.pc = "send" /\ resolve' = [resolve EXCEPT !.pc = pc]
                                          /\ UNCHANGED <<queries, query, names, dnsIrq>>
    BY <1>5 DEF N!DnsSendQuery
  <2>2. Shell
    BY <1>1, <2>1 DEF ResolveRec
  <2> QED BY <1>2, <1>3, <2>1, <2>2
<1>6. CASE N!Found
  <2>1. resolve' = N!NoResolve /\ UNCHANGED <<queries, query, names, dnsIrq>>
    BY <1>6 DEF N!Found
  <2>2. Shell
    BY <1>n, <2>1 DEF ResolveRec, N!NoResolve
  <2> QED BY <1>2, <1>3, <2>1, <2>2
<1>7. CASE N!TimedOut
  <2>1. /\ resolve.pc \in {"first", "second"} /\ UNCHANGED <<queries, query, names, dnsIrq>>
        /\ resolve' = [resolve EXCEPT !.pc = IF @ = "first" THEN "second" ELSE "unlink", !.waited = 0]
    BY <1>7 DEF N!TimedOut
  <2>2. Shell
    <3>1. 0 \in 0..NameTimeout
      BY <1>n
    <3>2. resolve \in ResolveRec /\ resolve.q \in N!Query
      BY <1>1, <2>1
    <3>3. \E pc \in {"second", "unlink"} : resolve' = [resolve EXCEPT !.pc = pc, !.waited = 0]
      BY <2>1, <3>2 DEF ResolveRec
    <3> QED BY <3>1, <3>2, <3>3 DEF ResolveRec
  <2> QED BY <1>2, <1>3, <2>1, <2>2
<1>8. CASE N!Unlink
  <2>1. /\ resolve.pc = "unlink" /\ resolve' = [resolve EXCEPT !.pc = "free"] /\ UNCHANGED <<names, dnsIrq>>
        /\ \/ N!Unlinked(N!Before(resolve.q), query[resolve.q].next)
           \/ UNCHANGED <<queries, query>>
    BY <1>8 DEF N!Unlink
  <2>2. Shell
    BY <1>1, <2>1 DEF ResolveRec
  <2>3. query[resolve.q].next \in N!Query \cup {Nil}
    BY <1>1, <2>1 DEF QueryRec
  <2>4. Lists
    BY <1>3, <2>1, <2>3, NameUnlinked
  <2> QED BY <1>2, <1>3, <2>1, <2>2, <2>4
<1>9. CASE N!Free
  <2>1. /\ resolve.pc = "free" /\ query' = [query EXCEPT ![resolve.q].live = FALSE]
        /\ resolve' = N!NoResolve /\ UNCHANGED <<queries, names, dnsIrq>>
    BY <1>9 DEF N!Free
  <2>2. Shell
    BY <1>n, <2>1 DEF ResolveRec, N!NoResolve
  <2>3. \A r \in QueryRec : [r EXCEPT !.live = FALSE] \in QueryRec
    BY DEF QueryRec
  <2> QED BY <1>1, <1>2, <1>3, <2>1, <2>2, <2>3
<1>10. CASE N!DnsClock
  <2>1. /\ query' = [q \in N!Query |-> N!Older(q)] /\ UNCHANGED <<queries, names, dnsIrq>>
        /\ resolve' = IF resolve.pc \in {"first", "second"} /\ resolve.waited < NameTimeout
                      THEN [resolve EXCEPT !.waited = @ + 1] ELSE resolve
    BY <1>10 DEF N!DnsClock
  <2>2. ASSUME NEW r \in QueryRec, r.age < NameTimeout PROVE [r EXCEPT !.age = @ + 1] \in QueryRec
    BY <1>n, <2>2 DEF QueryRec
  <2>3. ASSUME NEW q \in N!Query PROVE N!Older(q) \in QueryRec
    <3>1. query[q] \in QueryRec
      BY <1>1
    <3> QED BY <2>2, <3>1 DEF N!Older
  <2>4. Shell
    BY <1>1, <1>n, <2>1 DEF ResolveRec
  <2> QED BY <1>1, <1>2, <1>3, <2>1, <2>3, <2>4
<1>11. ASSUME NEW n \in Name, N!DnsCacheExpires(n) PROVE DnsInv'
  <2>1. names' = [names EXCEPT ![n] = Nil] /\ UNCHANGED <<queries, query, resolve, dnsIrq>>
    BY <1>11 DEF N!DnsCacheExpires
  <2>2. Cached
    BY <1>1, <2>1 DEF Addresses
  <2> QED BY <1>2, <1>3, <2>1, <2>2
<1>12. ASSUME NEW port, NEW q \in N!Query, query[q].name # Nil, NEW answer, N!DnsUdpRx(port, q, answer)
       PROVE  DnsInv'
  <2>1. /\ N!Unlinked(N!Before(q), query[q].next) /\ UNCHANGED <<names, resolve>>
        /\ dnsIrq' = [N!NoIrq EXCEPT !.pc = "insert", !.at = q, !.name = query[q].name,
                        !.answer = IF N!Parsed(answer) THEN Address[query[q].name] ELSE Nil]
    BY <1>12 DEF N!DnsUdpRx, N!Asked
  <2>2. query[q].name \in Name /\ query[q].next \in N!Query \cup {Nil}
    BY <1>1, <1>12 DEF QueryRec
  <2>3. Lists
    BY <2>1, <2>2, NameUnlinked
  <2>4. Irq
    BY <2>1, <2>2 DEF N!NoIrq, DnsIrqRec, Addresses
  <2> QED BY <1>2, <1>3, <2>1, <2>3, <2>4
<1>13. CASE N!DnsCacheInsert
  <2>1. /\ dnsIrq.pc = "insert" /\ UNCHANGED <<queries, query, resolve>>
        /\ \/ names' = [names EXCEPT ![dnsIrq.name] = dnsIrq.answer]
           \/ UNCHANGED names
        /\ dnsIrq' = [dnsIrq EXCEPT !.pc = "free", !.next = Nil, !.name = Nil, !.answer = Nil]
    BY <1>13 DEF N!DnsCacheInsert
  <2>2. Cached
    BY <1>1, <2>1 DEF Addresses, DnsIrqRec
  <2>3. Irq
    BY <1>1, <2>1 DEF DnsIrqRec, Addresses
  <2> QED BY <1>2, <1>3, <2>1, <2>2, <2>3
<1>14. CASE N!DnsTick
  <2>1. dnsIrq' = N!Visiting(queries, Nil) /\ UNCHANGED <<queries, query, names, resolve>>
    BY <1>14 DEF N!DnsTick
  <2>2. Irq
    BY <1>1, <2>1, NameVisited
  <2> QED BY <1>2, <1>3, <2>1, <2>2
<1>15. CASE N!Visit
  <2> DEFINE q == query[dnsIrq.at]
  <2>1. dnsIrq.pc = "visit" /\ UNCHANGED <<names, resolve>> /\ dnsIrq.at \in N!Query /\ q \in QueryRec
    BY <1>1, <1>15 DEF N!Visit
  <2>2. \/ dnsIrq' = N!Visiting(q.next, dnsIrq.at) /\ UNCHANGED <<queries, query>>
        \/ /\ q.age = NameTimeout /\ q.retries < Resends
           /\ query' = [query EXCEPT ![dnsIrq.at].retries = @ + 1, ![dnsIrq.at].age = 0]
           /\ dnsIrq' = [dnsIrq EXCEPT !.pc = "send", !.prev = dnsIrq.at, !.next = q.next]
           /\ UNCHANGED queries
        \/ /\ N!Unlinked(dnsIrq.prev, q.next)
           /\ dnsIrq' = [dnsIrq EXCEPT !.pc = "free", !.next = q.next]
    <3>1. q.age \in 0..NameTimeout /\ q.retries \in 0..Resends
      BY <2>1 DEF QueryRec
    <3>2. \/ q.age < NameTimeout
          \/ q.age = NameTimeout /\ q.retries < Resends
          \/ q.age = NameTimeout /\ q.retries = Resends
      BY <1>n, <3>1
    <3> QED BY <1>15, <3>2 DEF N!Visit
  <2>3. q.next \in N!Query \cup {Nil}
    BY <2>1 DEF QueryRec
  <2>4. CASE dnsIrq' = N!Visiting(q.next, dnsIrq.at) /\ UNCHANGED <<queries, query>>
    <3>1. Irq
      BY <2>1, <2>3, <2>4, NameVisited
    <3> QED BY <1>2, <1>3, <2>1, <2>4, <3>1
  <2>5. CASE /\ q.age = NameTimeout /\ q.retries < Resends
             /\ query' = [query EXCEPT ![dnsIrq.at].retries = @ + 1, ![dnsIrq.at].age = 0]
             /\ dnsIrq' = [dnsIrq EXCEPT !.pc = "send", !.prev = dnsIrq.at, !.next = q.next]
             /\ UNCHANGED queries
    <3>1. Irq
      BY <1>1, <2>1, <2>3, <2>5 DEF DnsIrqRec
    <3>2. [q EXCEPT !.retries = @ + 1, !.age = 0] \in QueryRec
      <4>1. q.retries \in 0..Resends
        BY <2>1 DEF QueryRec
      <4>2. q.retries + 1 \in 0..Resends /\ 0 \in 0..NameTimeout
        BY <1>n, <2>5, <4>1
      <4> QED BY <2>1, <4>2 DEF QueryRec
    <3>3. query' = [query EXCEPT ![dnsIrq.at] = [q EXCEPT !.retries = @ + 1, !.age = 0]]
      BY <1>1, <2>1, <2>5 DEF QueryRec
    <3>4. Lists
      BY <1>1, <2>1, <2>5, <3>2, <3>3
    <3> QED BY <1>2, <1>3, <2>1, <3>1, <3>4
  <2>6. CASE /\ N!Unlinked(dnsIrq.prev, q.next)
             /\ dnsIrq' = [dnsIrq EXCEPT !.pc = "free", !.next = q.next]
    <3>1. Irq
      BY <1>1, <2>1, <2>3, <2>6 DEF DnsIrqRec
    <3>2. Lists
      BY <2>3, <2>6, NameUnlinked
    <3> QED BY <1>2, <1>3, <2>1, <3>1, <3>2
  <2> QED BY <2>2, <2>4, <2>5, <2>6
<1>16. CASE N!TickSent
  <2>1. dnsIrq' = N!Visiting(dnsIrq.next, dnsIrq.prev) /\ UNCHANGED <<queries, query, names, resolve>>
    BY <1>16 DEF N!TickSent
  <2>2. Irq
    BY <1>1, <2>1, NameVisited DEF DnsIrqRec
  <2> QED BY <1>2, <1>3, <2>1, <2>2
<1>17. CASE N!IrqFree
  <2>1. /\ dnsIrq.pc = "free" /\ query' = [query EXCEPT ![dnsIrq.at].live = FALSE]
        /\ dnsIrq' = N!Visiting(dnsIrq.next, dnsIrq.prev) /\ UNCHANGED <<queries, names, resolve>>
    BY <1>17 DEF N!IrqFree
  <2>2. Irq
    BY <1>1, <2>1, NameVisited DEF DnsIrqRec
  <2>3. \A r \in QueryRec : [r EXCEPT !.live = FALSE] \in QueryRec
    BY DEF QueryRec
  <2> QED BY <1>1, <1>2, <1>3, <2>1, <2>2, <2>3
<1> QED BY <1>4, <1>5, <1>6, <1>7, <1>8, <1>9, <1>10, <1>11, <1>12, <1>13, <1>14, <1>15, <1>16, <1>17
        DEF N!DnsNext, N!Shell, N!Handler

------------------------------------------------------------------------------
(* Echoes.  Whoever is at a request is at one that there is.                   *)
PingInv ==
  /\ P!PingTypeOK
  /\ (ping.pc # "none" => ping.req \in Req) /\ (tick.pc # "none" => tick.at \in Req)

ReqRec == [live : BOOLEAN, id : 0..MaxPings, left : 0..(Width - 1), age : 0..EchoTimeout,
           next : Req \cup {Nil}]
PingRec == [pc : {"none", "wait", "unlink", "free"}, req : Req \cup {Nil}, id : 0..MaxPings,
            i : 0..Echoes, received : 0..Echoes, waited : 0..EchoTimeout]
TickRec == [pc : {"none", "visit", "send", "check", "free"}, at : Req \cup {Nil}, prev : Req \cup {Nil}]

LEMMA EchoNumbers ==
  ASSUME RequestsAssumption
  PROVE  /\ Echoes \in Nat \ {0} /\ EchoTimeout \in Nat \ {0} /\ Width \in Nat /\ Echoes < Width
         /\ MaxPings \in Nat /\ Nil \notin Req
         /\ 0 \in 0..MaxPings /\ 0 \in 0..(Width - 1) /\ 0 \in 0..EchoTimeout /\ 0 \in 0..Echoes
         /\ 1 \in 0..Echoes /\ Echoes \in 0..(Width - 1)
BY DEF RequestsAssumption

LEMMA PingStarts ==
  ASSUME RequestsAssumption, P!PingStart
  PROVE  PingInv
<1>1. /\ requests = Nil /\ req = [r \in Req |-> P!Fresh] /\ ping = P!NoPing /\ tick = P!NoTick
  BY DEF P!PingStart
<1>2. P!Fresh \in ReqRec /\ P!NoPing \in PingRec /\ P!NoTick \in TickRec
  BY EchoNumbers DEF P!Fresh, P!NoPing, P!NoTick, ReqRec, PingRec, TickRec
<1>3. P!PingTypeOK
  BY <1>1, <1>2 DEF P!PingTypeOK, ReqRec, PingRec, TickRec
<1> QED BY <1>1, <1>3 DEF PingInv, P!NoPing, P!NoTick

LEMMA EchoUnlinked ==
  ASSUME requests \in Req \cup {Nil}, req \in [Req -> ReqRec], NEW p, NEW r \in Req, P!Unlinked(p, r)
  PROVE  requests' \in Req \cup {Nil} /\ req' \in [Req -> ReqRec]
<1>1. req[r].next \in Req \cup {Nil}
  BY DEF ReqRec
<1>2. \/ requests' = req[r].next /\ req' = req
      \/ requests' = requests /\ req' = [req EXCEPT ![p].next = req[r].next]
  BY DEF P!Unlinked
<1>3. \A x \in ReqRec : [x EXCEPT !.next = req[r].next] \in ReqRec
  BY <1>1 DEF ReqRec
<1>4. [req EXCEPT ![p].next = req[r].next] \in [Req -> ReqRec]
  BY <1>3
<1> QED BY <1>1, <1>2, <1>4

LEMMA EchoVisited ==
  ASSUME RequestsAssumption, NEW r \in Req \cup {Nil}, NEW prev \in Req \cup {Nil}, tick' = P!At(r, prev)
  PROVE  tick' \in TickRec /\ (tick'.pc # "none" => tick'.at \in Req)
BY EchoNumbers DEF P!At, P!NoTick, TickRec

LEMMA PingAct ==
  ASSUME RequestsAssumption, PingInv, P!PingNext
  PROVE  PingInv'
<1>1. /\ requests \in Req \cup {Nil} /\ req \in [Req -> ReqRec] /\ ping \in PingRec /\ tick \in TickRec
      /\ (ping.pc # "none" => ping.req \in Req) /\ (tick.pc # "none" => tick.at \in Req)
  BY DEF PingInv, P!PingTypeOK, ReqRec, PingRec, TickRec
<1> DEFINE Lists == requests' \in Req \cup {Nil} /\ req' \in [Req -> ReqRec]
           Shell == ping' \in PingRec /\ (ping'.pc # "none" => ping'.req \in Req)
           Irq == tick' \in TickRec /\ (tick'.pc # "none" => tick'.at \in Req)
<1>2. Lists /\ Shell /\ Irq => PingInv'
  BY DEF PingInv, P!PingTypeOK, ReqRec, PingRec, TickRec
<1>3. /\ UNCHANGED <<requests, req>> => Lists
      /\ UNCHANGED ping => Shell
      /\ UNCHANGED tick => Irq
  BY <1>1
<1> HIDE DEF Lists, Shell, Irq
<1>n. /\ Echoes \in Nat \ {0} /\ EchoTimeout \in Nat \ {0} /\ Width \in Nat /\ Echoes < Width
      /\ MaxPings \in Nat /\ Nil \notin Req
      /\ 0 \in 0..MaxPings /\ 0 \in 0..(Width - 1) /\ 0 \in 0..EchoTimeout /\ 0 \in 0..Echoes
      /\ 1 \in 0..Echoes /\ Echoes \in 0..(Width - 1)
  BY EchoNumbers
<1>4. ASSUME NEW r \in Req, P!ICmpPing(r) PROVE PingInv'
  <2> DEFINE new == [live |-> TRUE, id |-> ping.id + 1, left |-> Echoes, age |-> 0, next |-> requests]
  <2>1. /\ ping.id < MaxPings /\ req' = [req EXCEPT ![r] = new] /\ requests' = r /\ UNCHANGED tick
        /\ ping' = [pc |-> "wait", req |-> r, id |-> ping.id + 1, i |-> 1, received |-> 0, waited |-> 0]
    BY <1>4 DEF P!ICmpPing
  <2>2. ping.id + 1 \in 0..MaxPings
    <3>1. ping.id \in 0..MaxPings
      BY <1>1 DEF PingRec
    <3> QED BY <1>n, <2>1, <3>1
  <2>3. new \in ReqRec
    BY <1>1, <1>n, <2>2 DEF ReqRec
  <2> HIDE DEF new
  <2>4. Lists
    BY <1>1, <2>1, <2>3 DEF Lists
  <2>5. Shell
    BY <1>n, <2>1, <2>2 DEF Shell, PingRec
  <2> QED BY <1>2, <1>3, <2>1, <2>4, <2>5
<1>5. CASE P!Waited
  <2>1. /\ ping.pc = "wait" /\ UNCHANGED <<requests, req, tick>>
        /\ \/ ping.i < Echoes /\ ping' = [ping EXCEPT !.i = @ + 1, !.waited = 0]
           \/ ping' = [ping EXCEPT !.pc = "unlink"]
    BY <1>5 DEF P!Waited
  <2>2. ping.i < Echoes => ping.i + 1 \in 0..Echoes
    <3>1. ping.i \in 0..Echoes
      BY <1>1 DEF PingRec
    <3> QED BY <1>n, <3>1
  <2>3. Shell
    BY <1>1, <1>n, <2>1, <2>2 DEF Shell, PingRec
  <2> QED BY <1>2, <1>3, <2>1, <2>3
<1>6. CASE P!Unlink
  <2>1. /\ ping.pc = "unlink" /\ ping' = [ping EXCEPT !.pc = "free"] /\ UNCHANGED tick
        /\ \/ P!Unlinked(P!Before(ping.req), ping.req)
           \/ UNCHANGED <<requests, req>>
    BY <1>6 DEF P!Unlink
  <2>2. Shell
    BY <1>1, <2>1 DEF Shell, PingRec
  <2>3. Lists
    BY <1>1, <1>3, <2>1, EchoUnlinked DEF Lists
  <2> QED BY <1>2, <1>3, <2>1, <2>2, <2>3
<1>7. CASE P!Free
  <2>1. /\ req' = [req EXCEPT ![ping.req].live = FALSE] /\ UNCHANGED <<requests, tick>>
        /\ ping' = [P!NoPing EXCEPT !.id = ping.id]
    BY <1>7 DEF P!Free
  <2>2. \A x \in ReqRec : [x EXCEPT !.live = FALSE] \in ReqRec
    BY DEF ReqRec
  <2>3. Lists
    BY <1>1, <2>1, <2>2 DEF Lists
  <2>4. Shell
    <3>1. ping.id \in 0..MaxPings
      BY <1>1 DEF PingRec
    <3> QED BY <1>n, <2>1, <3>1 DEF Shell, PingRec, P!NoPing
  <2> QED BY <1>2, <1>3, <2>1, <2>3, <2>4
<1>8. ASSUME NEW id, P!ICmpHandleEchoReply(id) PROVE PingInv'
  <2>1. PICK r : req' = [req EXCEPT ![r].left = IF @ > 0 THEN @ - 1 ELSE 0]
    BY <1>8 DEF P!ICmpHandleEchoReply
  <2>2. /\ \/ ping.pc # "none" /\ ping.received < Echoes /\ ping' = [ping EXCEPT !.received = @ + 1]
           \/ ping' = ping
        /\ UNCHANGED <<requests, tick>>
    BY <1>8 DEF P!ICmpHandleEchoReply
  <2>3. ASSUME NEW x \in ReqRec PROVE [x EXCEPT !.left = IF @ > 0 THEN @ - 1 ELSE 0] \in ReqRec
    <3>1. x.left \in 0..(Width - 1)
      BY DEF ReqRec
    <3>2. (IF x.left > 0 THEN x.left - 1 ELSE 0) \in 0..(Width - 1)
      BY <1>n, <3>1
    <3> QED BY <3>2 DEF ReqRec
  <2>4. Lists
    BY <1>1, <2>1, <2>2, <2>3 DEF Lists
  <2>5. ping.received < Echoes => ping.received + 1 \in 0..Echoes
    <3>1. ping.received \in 0..Echoes
      BY <1>1 DEF PingRec
    <3> QED BY <1>n, <3>1
  <2>6. Shell
    BY <1>1, <2>2, <2>5 DEF Shell, PingRec
  <2> QED BY <1>2, <1>3, <2>2, <2>4, <2>6
<1>9. CASE P!Clock
  <2>1. /\ req' = [r \in Req |-> IF r \in P!Listed /\ req[r].age < EchoTimeout
                                 THEN [req[r] EXCEPT !.age = @ + 1] ELSE req[r]]
        /\ \/ ping.pc = "wait" /\ ping.waited < EchoTimeout /\ ping' = [ping EXCEPT !.waited = @ + 1]
           \/ ping' = ping
        /\ UNCHANGED <<requests, tick>>
    BY <1>9 DEF P!Clock
  <2>2. ASSUME NEW x \in ReqRec, x.age < EchoTimeout PROVE [x EXCEPT !.age = @ + 1] \in ReqRec
    <3>1. x.age \in 0..EchoTimeout
      BY DEF ReqRec
    <3>2. x.age + 1 \in 0..EchoTimeout
      BY <1>n, <2>2, <3>1
    <3> QED BY <3>2 DEF ReqRec
  <2>3. Lists
    BY <1>1, <2>1, <2>2 DEF Lists
  <2>4. ping.waited < EchoTimeout => ping.waited + 1 \in 0..EchoTimeout
    <3>1. ping.waited \in 0..EchoTimeout
      BY <1>1 DEF PingRec
    <3> QED BY <1>n, <3>1
  <2>5. Shell
    BY <1>1, <2>1, <2>4 DEF Shell, PingRec
  <2> QED BY <1>2, <1>3, <2>1, <2>3, <2>5
<1>10. CASE P!ICmpTick
  <2>1. tick' = P!At(requests, Nil) /\ UNCHANGED <<requests, req, ping>>
    BY <1>10 DEF P!ICmpTick
  <2>2. Irq
    BY <1>1, <2>1, EchoVisited DEF Irq
  <2> QED BY <1>2, <1>3, <2>1, <2>2
<1>11. CASE P!Visit
  <2> DEFINE r == req[tick.at]
             left == IF r.age = EchoTimeout THEN (r.left - 1) % Width ELSE r.left
             age == IF r.age = EchoTimeout THEN 0 ELSE r.age
  <2>1. /\ tick.pc = "visit" /\ UNCHANGED <<requests, ping>>
        /\ req' = [req EXCEPT ![tick.at] = [r EXCEPT !.left = left, !.age = age]]
        /\ \E pc \in {"send", "check"} : tick' = [tick EXCEPT !.pc = pc]
    BY <1>11 DEF P!Visit
  <2>2. r \in ReqRec /\ r.left \in 0..(Width - 1) /\ r.age \in 0..EchoTimeout
    BY <1>1, <2>1 DEF ReqRec
  <2>3. left \in 0..(Width - 1) /\ age \in 0..EchoTimeout
    <3>1. (r.left - 1) % Width \in 0..(Width - 1)
      BY <1>n, <2>2
    <3> QED BY <1>n, <2>2, <3>1
  <2> HIDE DEF left, age
  <2>4. [r EXCEPT !.left = left, !.age = age] \in ReqRec
    BY <2>2, <2>3 DEF ReqRec
  <2> HIDE DEF r
  <2>5. Lists
    BY <1>1, <2>1, <2>4 DEF Lists
  <2>6. Irq
    BY <1>1, <2>1 DEF Irq, TickRec
  <2> QED BY <1>2, <1>3, <2>1, <2>5, <2>6
<1>12. CASE P!Send
  <2>1. tick.pc = "send" /\ tick' = [tick EXCEPT !.pc = "check"] /\ UNCHANGED <<requests, req, ping>>
    BY <1>12 DEF P!Send
  <2>2. Irq
    BY <1>1, <2>1 DEF Irq, TickRec
  <2> QED BY <1>2, <1>3, <2>1, <2>2
<1>13. CASE P!Check
  <2>1. /\ tick.pc = "check" /\ UNCHANGED ping
        /\ \/ P!Unlinked(tick.prev, tick.at) /\ tick' = [tick EXCEPT !.pc = "free"]
           \/ tick' = P!At(req[tick.at].next, tick.at) /\ UNCHANGED <<requests, req>>
    BY <1>13 DEF P!Check
  <2>2. req[tick.at].next \in Req \cup {Nil}
    BY <1>1, <2>1 DEF ReqRec
  <2>3. CASE P!Unlinked(tick.prev, tick.at) /\ tick' = [tick EXCEPT !.pc = "free"]
    <3>1. Lists
      BY <1>1, <2>1, <2>3, EchoUnlinked DEF Lists
    <3>2. Irq
      BY <1>1, <2>1, <2>3 DEF Irq, TickRec
    <3> QED BY <1>2, <1>3, <2>1, <3>1, <3>2
  <2>4. CASE tick' = P!At(req[tick.at].next, tick.at) /\ UNCHANGED <<requests, req>>
    <3>1. Irq
      BY <1>1, <2>1, <2>2, <2>4, EchoVisited DEF Irq
    <3> QED BY <1>2, <1>3, <2>1, <2>4, <3>1
  <2> QED BY <2>1, <2>3, <2>4
<1>14. CASE P!TickFree
  <2> DEFINE next == IF tick.prev = Nil THEN requests ELSE req[tick.prev].next
  <2>1. /\ req' = [req EXCEPT ![tick.at].live = FALSE] /\ UNCHANGED <<requests, ping>>
        /\ tick' = P!At(next, tick.prev)
    BY <1>14 DEF P!TickFree
  <2>2. tick.prev \in Req \cup {Nil}
    BY <1>1 DEF TickRec
  <2>3. next \in Req \cup {Nil}
    <3>1. tick.prev # Nil => req[tick.prev] \in ReqRec
      BY <1>1, <2>2
    <3> QED BY <1>1, <3>1 DEF ReqRec
  <2> HIDE DEF next
  <2>4. \A x \in ReqRec : [x EXCEPT !.live = FALSE] \in ReqRec
    BY DEF ReqRec
  <2>5. Lists
    BY <1>1, <2>1, <2>4 DEF Lists
  <2>6. Irq
    BY <2>1, <2>2, <2>3, EchoVisited DEF Irq
  <2> QED BY <1>2, <1>3, <2>1, <2>5, <2>6
<1> QED BY <1>4, <1>5, <1>6, <1>7, <1>8, <1>9, <1>10, <1>11, <1>12, <1>13, <1>14 DEF P!PingNext

------------------------------------------------------------------------------
(* An address.  MaxTime bounds every clock of a client, because there is one.  *)
LEMMA Greatest ==
  ASSUME NEW S \in SUBSET Nat, IsFiniteSet(S), S # {}
  PROVE  \E n \in S : \A m \in S : m <= n
<1> DEFINE Tops(n) == \A T \in SUBSET Nat : IsFiniteSet(T) /\ Cardinality(T) = n + 1 =>
                         \E t \in T : \A m \in T : m <= t
           Q == {n \in Nat : Tops(n)}
<1>1. 0 \in Q
  <2>1. ASSUME NEW T \in SUBSET Nat, IsFiniteSet(T), Cardinality(T) = 1
        PROVE  \E t \in T : \A m \in T : m <= t
    <3>1. PICK t : T = {t}
      BY <2>1, FS_Singleton
    <3> QED BY <3>1
  <2> QED BY <2>1
<1>2. ASSUME NEW n \in Q PROVE n + 1 \in Q
  <2>1. ASSUME NEW T \in SUBSET Nat, IsFiniteSet(T), Cardinality(T) = (n + 1) + 1
        PROVE  \E t \in T : \A m \in T : m <= t
    <3>1. T # {}
      BY <1>2, <2>1, FS_EmptySet
    <3>2. PICK x \in T : TRUE
      BY <3>1
    <3>3. IsFiniteSet(T \ {x}) /\ Cardinality(T \ {x}) = n + 1
      BY <1>2, <2>1, FS_RemoveElement
    <3>4. PICK t \in T \ {x} : \A m \in T \ {x} : m <= t
      BY <3>3
    <3>5. x \in Nat /\ t \in Nat
      OBVIOUS
    <3>6. CASE x <= t
      BY <3>4, <3>6
    <3>7. CASE t < x
      BY <3>4, <3>5, <3>7
    <3> QED BY <3>5, <3>6, <3>7
  <2>2. Tops(n + 1)
    BY <2>1
  <2> HIDE DEF Tops
  <2>3. n \in Nat
    OBVIOUS
  <2> QED BY <2>2, <2>3
<1>3. Q = Nat
  <2> HIDE DEF Q
  <2>1. Q \in SUBSET Nat
    BY DEF Q
  <2> QED BY <1>1, <1>2, <2>1, Counting
<1>4. Cardinality(S) \in Nat /\ Cardinality(S) # 0
  BY FS_CardinalityType, FS_EmptySet
<1>5. Cardinality(S) - 1 \in Q /\ Cardinality(S) = (Cardinality(S) - 1) + 1
  BY <1>3, <1>4
<1> QED BY <1>5

LEMMA TimeIs ==
  ASSUME RequestsAssumption
  PROVE  /\ D!MaxTime \in Nat /\ Again \in 0..D!MaxTime
         /\ \A l \in Lease \cup {0} : l \in 0..D!MaxTime /\ l \div 2 \in 0..D!MaxTime
                /\ l \div 8 \in 0..D!MaxTime /\ (l * 7) \div 8 \in 0..D!MaxTime
<1> DEFINE S == Lease \cup {Again}
<1>1. S \in SUBSET Nat /\ S # {} /\ IsFiniteSet(S)
  BY FS_AddElement DEF RequestsAssumption
<1>2. \E n \in S : \A m \in S : m <= n
  BY <1>1, Greatest
<1>3. D!MaxTime \in S /\ \A m \in S : m <= D!MaxTime
  BY <1>2 DEF D!MaxTime
<1>4. D!MaxTime \in Nat
  BY <1>1, <1>3
<1> HIDE DEF S
<1>5. \A l \in S : l \in Nat /\ l <= D!MaxTime
  BY <1>1, <1>3
<1>6. Again \in S /\ Lease \subseteq S
  BY DEF S
<1>7. \A l \in Lease \cup {0} : l \in Nat /\ l <= D!MaxTime
  BY <1>4, <1>5, <1>6
<1>8. ASSUME NEW l \in Nat, l <= D!MaxTime
      PROVE  l \div 2 \in 0..D!MaxTime /\ l \div 8 \in 0..D!MaxTime /\ (l * 7) \div 8 \in 0..D!MaxTime
  BY <1>4, <1>8
<1> QED BY <1>4, <1>5, <1>6, <1>7, <1>8

ClientRec == [running : BOOLEAN, configured : BOOLEAN, xid : Xid \cup {Nil}, yi : Ip \cup {Nil},
              lease : Lease \cup {0}, expires : 0..D!MaxTime, renew : 0..D!MaxTime,
              rebind : 0..D!MaxTime, asked : SUBSET (Xid \cup {Nil})]
Heard == [op : {"discover", "request"}, xid : Xid \cup {Nil}, ip : Ip \cup {Nil}]

(* A client not yet in the list is as it was made; no two have the same Xid;   *)
(* and one that is not about to take a new Xid has asked under its own only.   *)
XidsOK(q, m, s) ==
  /\ \A c \in Client : c \notin Members(q) => m[c] = D!Fresh
  /\ \A c, d \in Client : c # d /\ m[c].xid = m[d].xid => m[c].xid = Nil
  /\ \A c \in Members(q) : c # s => m[c].xid \in Xid /\ m[c].asked \subseteq {m[c].xid}
  /\ s # Nil => s \in Members(q)

DhcpInv ==
  /\ clients \in Seq(Client) /\ Once(clients)
  /\ client \in [Client -> ClientRec] /\ addr \in Ip \cup {Nil}
  /\ starting \in Client \cup {Nil} /\ heard \subseteq Heard
  /\ XidsOK(clients, client, starting)

LEMMA FreshClient ==
  ASSUME RequestsAssumption
  PROVE  D!Fresh \in ClientRec
BY TimeIs DEF D!Fresh, ClientRec

LEMMA DhcpStarts ==
  ASSUME RequestsAssumption, D!DhcpSubsystemInit
  PROVE  DhcpInv
<1>1. /\ clients = <<>> /\ client = [c \in Client |-> D!Fresh] /\ addr = Nil /\ starting = Nil
      /\ heard = {}
  BY DEF D!DhcpSubsystemInit
<1>2. D!Fresh.xid = Nil
  BY DEF D!Fresh
<1>3. Members(clients) = {} /\ Once(clients) /\ clients \in Seq(Client)
  BY <1>1 DEF Members, Once
<1> QED BY <1>1, <1>2, <1>3, FreshClient DEF DhcpInv, XidsOK

LEMMA Unshared ==
  ASSUME RequestsAssumption, DhcpInv
  PROVE  D!LateOfferMatches
<1>1. ASSUME NEW c \in Client, c # starting, NEW x \in client[c].asked PROVE D!Owner(x) = {c}
  <2>1. c \in Members(clients)
    BY <1>1 DEF DhcpInv, XidsOK, D!Fresh
  <2>2. client[c].xid = x /\ x \in Xid /\ x # Nil
    BY <1>1, <2>1 DEF DhcpInv, XidsOK, RequestsAssumption
  <2>3. /\ DOMAIN clients = 1..Len(clients) /\ \A j \in 1..Len(clients) : clients[j] \in Client
        /\ \A i, j \in 1..Len(clients) : clients[i] = clients[j] => i = j
    BY DEF DhcpInv, Once
  <2>4. PICK i \in 1..Len(clients) : clients[i] = c
    BY <2>1, <2>3 DEF Members
  <2>5. \A j \in 1..Len(clients) : client[clients[j]].xid = x => clients[j] = c
    BY <2>2, <2>3 DEF DhcpInv, XidsOK
  <2> DEFINE own == {j \in DOMAIN clients : client[clients[j]].xid = x}
  <2>6. own = {i}
    BY <2>2, <2>3, <2>4, <2>5
  <2>7. D!Owner(x) = {clients[j] : j \in {k \in own : \A h \in own : k <= h}}
    BY DEF D!Owner
  <2> HIDE DEF own
  <2>8. {k \in own : \A h \in own : k <= h} = {i}
    BY <2>4, <2>6
  <2> QED BY <2>4, <2>7, <2>8
<1> QED BY <1>1 DEF D!LateOfferMatches

LEMMA DhcpTypes ==
  ASSUME RequestsAssumption, DhcpInv
  PROVE  D!DhcpTypeOK
<1>3. /\ clients \in Seq(Client) /\ client \in [Client -> ClientRec] /\ addr \in Ip \cup {Nil}
      /\ starting \in Client \cup {Nil} /\ heard \subseteq Heard
  BY DEF DhcpInv
<1>4. \A i, j \in DOMAIN clients : clients[i] = clients[j] => i = j
  BY DEF DhcpInv, Once
<1>5. client \in [Client -> [running : BOOLEAN, configured : BOOLEAN, xid : Xid \cup {Nil},
                            yi : Ip \cup {Nil}, lease : Lease \cup {0}, expires : 0..D!MaxTime,
                            renew : 0..D!MaxTime, rebind : 0..D!MaxTime, asked : SUBSET (Xid \cup {Nil})]]
  BY <1>3 DEF ClientRec
<1>6. heard \subseteq [op : {"discover", "request"}, xid : Xid \cup {Nil}, ip : Ip \cup {Nil}]
  BY <1>3 DEF Heard
<1> QED BY <1>3, <1>4, <1>5, <1>6 DEF D!DhcpTypeOK

(* One client of the list changes, and keeps its Xid or takes a new one.       *)
LEMMA ClientChanged ==
  ASSUME RequestsAssumption, DhcpInv, NEW c \in Members(clients), NEW k \in ClientRec,
         NEW s \in {starting, Nil},
         starting = c \/ s = starting,
         k.xid = client[c].xid \/ k.xid \in D!NewXid,
         c # s => k.xid \in Xid /\ k.asked \subseteq {k.xid},
         clients' = clients, client' = [client EXCEPT ![c] = k], starting' = s,
         addr' \in Ip \cup {Nil}, heard' \subseteq Heard
  PROVE  DhcpInv'
<1>1. c \in Client /\ client \in [Client -> ClientRec]
  BY DEF DhcpInv, Members
<1>2. client'[c] = k /\ \A d \in Client \ {c} : client'[d] = client[d]
  BY <1>1
<1>3. ASSUME NEW d \in Client, d # c, k.xid = client[d].xid PROVE k.xid = Nil
  <2>1. CASE k.xid = client[c].xid
    BY <1>1, <1>3, <2>1 DEF DhcpInv, XidsOK
  <2>2. CASE k.xid \in D!NewXid
    BY <1>3, <2>2 DEF D!NewXid
  <2> QED BY <2>1, <2>2
<1>4. XidsOK(clients, client', s)
  <2>1. \A d \in Client : d \notin Members(clients) => client'[d] = D!Fresh
    BY <1>2 DEF DhcpInv, XidsOK
  <2>2. \A d, e \in Client : d # e /\ client'[d].xid = client'[e].xid => client'[d].xid = Nil
    BY <1>2, <1>3 DEF DhcpInv, XidsOK
  <2>3. ASSUME NEW d \in Members(clients), d # s
        PROVE  client'[d].xid \in Xid /\ client'[d].asked \subseteq {client'[d].xid}
    <3>1. CASE d = c
      BY <1>2, <2>3, <3>1
    <3>2. CASE d # c
      <4>1. d # starting /\ d \in Client
        BY <2>3, <3>2 DEF DhcpInv, Members
      <4> QED BY <1>2, <2>3, <3>2, <4>1 DEF DhcpInv, XidsOK
    <3> QED BY <3>1, <3>2
  <2>4. s # Nil => s \in Members(clients)
    BY DEF DhcpInv, XidsOK
  <2> HIDE DEF Members
  <2> QED BY <2>1, <2>2, <2>3, <2>4 DEF XidsOK
<1>5. XidsOK(clients', client', starting')
  BY <1>4
<1>6. client' \in [Client -> ClientRec] /\ starting' \in Client \cup {Nil}
  BY <1>1 DEF DhcpInv
<1> QED BY <1>5, <1>6 DEF DhcpInv

LEMMA ClientAsks ==
  ASSUME NEW k \in ClientRec
  PROVE  /\ D!Broadcast(k) \in Heard /\ D!Request(k) \in Heard
         /\ [k EXCEPT !.asked = @ \cup {k.xid}] \in ClientRec
BY DEF ClientRec, Heard, D!Broadcast, D!Request

LEMMA FirstAdded ==
  ASSUME NEW q \in Seq(Client), Once(q), NEW c \in Client, c \notin Members(q)
  PROVE  /\ <<c>> \o q \in Seq(Client) /\ Once(<<c>> \o q)
         /\ Members(<<c>> \o q) = Members(q) \cup {c}
<1> DEFINE r == <<c>> \o q
<1>1. /\ r \in Seq(Client) /\ Len(r) = Len(q) + 1 /\ Len(q) \in Nat
      /\ r[1] = c /\ \A i \in 1..Len(q) : r[i + 1] = q[i]
  OBVIOUS
<1>2. DOMAIN r = 1..(Len(q) + 1) /\ DOMAIN q = 1..Len(q)
  BY <1>1
<1> HIDE DEF r
<1>3. \A i \in 1..(Len(q) + 1) : i = 1 \/ (i - 1 \in 1..Len(q) /\ r[i] = q[i - 1])
  BY <1>1
<1>4. 1 \in 1..(Len(q) + 1) /\ \A i \in 1..Len(q) : i + 1 \in 1..(Len(q) + 1)
  BY <1>1
<1>5. Members(r) = Members(q) \cup {c}
  <2>1. ASSUME NEW y \in Members(r) PROVE y \in Members(q) \cup {c}
    <3>1. PICK i \in 1..(Len(q) + 1) : r[i] = y
      BY <1>2, <2>1 DEF Members
    <3> QED BY <1>1, <1>2, <1>3, <3>1 DEF Members
  <2>2. ASSUME NEW y \in Members(q) PROVE y \in Members(r)
    <3>1. PICK i \in 1..Len(q) : q[i] = y
      BY <1>2, <2>2 DEF Members
    <3> QED BY <1>1, <1>2, <1>4, <3>1 DEF Members
  <2>3. c \in Members(r)
    BY <1>1, <1>2, <1>4 DEF Members
  <2> QED BY <2>1, <2>2, <2>3
<1>6. ASSUME NEW i \in 1..(Len(q) + 1), NEW j \in 1..(Len(q) + 1), r[i] = r[j] PROVE i = j
  <2>1. \A k \in 1..Len(q) : q[k] # c
    BY <1>2 DEF Members
  <2>2. CASE i = 1 \/ j = 1
    BY <1>1, <1>3, <1>6, <2>1, <2>2
  <2>3. CASE i # 1 /\ j # 1
    <3>1. q[i - 1] = q[j - 1] /\ i - 1 \in 1..Len(q) /\ j - 1 \in 1..Len(q)
      BY <1>3, <1>6, <2>3
    <3>2. i - 1 = j - 1
      BY <3>1 DEF Once
    <3> QED BY <3>2
  <2> QED BY <2>2, <2>3
<1> QED BY <1>1, <1>5, <1>6 DEF Once, r

LEMMA DhcpAct ==
  ASSUME RequestsAssumption, DhcpInv, D!DhcpNext
  PROVE  DhcpInv'
<1>1. /\ clients \in Seq(Client) /\ Once(clients)
      /\ client \in [Client -> ClientRec] /\ addr \in Ip \cup {Nil}
      /\ starting \in Client \cup {Nil} /\ heard \subseteq Heard
      /\ XidsOK(clients, client, starting) /\ Members(clients) \subseteq Client
      /\ Members(clients) = {clients[i] : i \in DOMAIN clients}
  BY DEF DhcpInv, Members
<1>n. /\ Nil \notin Client /\ Nil \notin Xid /\ Nil \notin Ip
      /\ Again \in 0..D!MaxTime /\ D!MaxTime \in Nat /\ D!NewXid \subseteq Xid
  BY TimeIs DEF RequestsAssumption, D!NewXid
<1>m. \A c \in Members(clients) : /\ client[c] \in ClientRec
                                  /\ c # starting => client[c].xid \in Xid /\ client[c].asked \subseteq {client[c].xid}
  BY <1>1 DEF XidsOK
<1>2. ASSUME NEW c \in Client, D!DhcpStartOnAllInterfaces(c) PROVE DhcpInv'
  <2>1. /\ starting = Nil /\ c \notin Members(clients) /\ clients' = <<c>> \o clients
        /\ client' = [client EXCEPT ![c].running = TRUE] /\ starting' = c /\ UNCHANGED <<addr, heard>>
    BY <1>1, <1>2 DEF D!DhcpStartOnAllInterfaces
  <2>2. /\ clients' \in Seq(Client) /\ Once(clients') /\ Members(clients') = Members(clients) \cup {c}
    BY <1>1, <2>1, FirstAdded
  <2>3. client[c] \in ClientRec /\ [client[c] EXCEPT !.running = TRUE] \in ClientRec
        /\ [client[c] EXCEPT !.running = TRUE].xid = client[c].xid
    BY <1>1 DEF ClientRec
  <2>4. /\ client' \in [Client -> ClientRec] /\ client'[c].xid = client[c].xid
        /\ \A d \in Client \ {c} : client'[d] = client[d]
    BY <1>1, <2>1, <2>3
  <2>5. \A d \in Client : client'[d].xid = client[d].xid
    BY <2>4
  <2>6. XidsOK(clients', client', starting')
    <3>1. \A d \in Client : d \notin Members(clients') => client'[d] = D!Fresh
      BY <1>1, <2>2, <2>4 DEF XidsOK
    <3>2. \A d, e \in Client : d # e /\ client'[d].xid = client'[e].xid => client'[d].xid = Nil
      BY <1>1, <2>5 DEF XidsOK
    <3>3. \A d \in Members(clients') : d # starting' =>
             client'[d].xid \in Xid /\ client'[d].asked \subseteq {client'[d].xid}
      BY <1>1, <1>m, <1>n, <2>1, <2>2, <2>4
    <3> QED BY <2>1, <2>2, <3>1, <3>2, <3>3 DEF XidsOK
  <2> QED BY <1>1, <2>1, <2>2, <2>4, <2>6 DEF DhcpInv
<1>3. CASE D!NetCmdDhcp
  <2> DEFINE c == clients[1]
             k == [client[c] EXCEPT !.running = TRUE, !.configured = FALSE, !.yi = Nil]
  <2>1. /\ starting = Nil /\ clients # <<>> /\ starting' = c /\ UNCHANGED <<clients, addr, heard>>
        /\ client' = [client EXCEPT ![c].running = TRUE, ![c].configured = FALSE, ![c].yi = Nil]
    BY <1>3 DEF D!NetCmdDhcp
  <2>2. c \in Members(clients)
    BY <1>1, <2>1 DEF Members
  <2>3. client' = [client EXCEPT ![c] = k]
    BY <1>1, <2>1, <2>2 DEF ClientRec
  <2> HIDE DEF c
  <2>0. client[c] \in ClientRec /\ Nil \in Ip \cup {Nil}
    BY <1>m, <2>2
  <2>4. k \in ClientRec /\ k.xid = client[c].xid /\ k.asked = client[c].asked
    BY <2>0 DEF ClientRec
  <2> HIDE DEF k
  <2>5. c \in Client /\ c # Nil
    BY <1>1, <1>n, <2>2
  <2>6. client'[c] = k /\ client' \in [Client -> ClientRec] /\ \A d \in Client \ {c} : client'[d] = client[d]
    BY <1>1, <2>3, <2>4, <2>5
  <2>7. XidsOK(clients', client', starting')
    <3>1. \A d \in Client : d \notin Members(clients) => client'[d] = D!Fresh
      BY <1>1, <2>2, <2>6 DEF XidsOK
    <3>2. \A d \in Client : client'[d].xid = client[d].xid
      BY <2>4, <2>6
    <3>3. \A d, e \in Client : d # e /\ client'[d].xid = client'[e].xid => client'[d].xid = Nil
      BY <1>1, <3>2 DEF XidsOK
    <3>4. \A d \in Members(clients) : d # c => client'[d].xid \in Xid /\ client'[d].asked \subseteq {client'[d].xid}
      BY <1>1, <1>m, <1>n, <2>1, <2>6
    <3> QED BY <2>1, <2>2, <3>1, <3>3, <3>4 DEF XidsOK
  <2> QED BY <1>1, <2>1, <2>5, <2>6, <2>7 DEF DhcpInv
<1>4. ASSUME NEW x \in Xid, D!DhcpStart(x) PROVE DhcpInv'
  <2> DEFINE k == D!Restarted(client[starting], x)
             j == [k EXCEPT !.asked = @ \cup {k.xid}]
  <2>1. /\ starting # Nil /\ x \in D!NewXid /\ client' = [client EXCEPT ![starting] = j]
        /\ heard' = heard \cup {D!Broadcast(k)} /\ starting' = Nil /\ UNCHANGED <<clients, addr>>
    BY <1>4 DEF D!DhcpStart, D!Discover
  <2>2. starting \in Members(clients)
    BY <1>1, <2>1 DEF XidsOK
  <2>3. k \in ClientRec /\ k.xid = x /\ k.asked = {}
    BY <1>m, <1>n, <2>2 DEF ClientRec, D!Restarted
  <2>4. j \in ClientRec /\ j.xid = x /\ j.asked = {x} /\ D!Broadcast(k) \in Heard
    BY <2>3, ClientAsks DEF ClientRec
  <2> HIDE DEF j, k
  <2> QED BY <1>1, <2>1, <2>2, <2>4, ClientChanged
<1>5. CASE D!DhcpClock
  <2>1. /\ client' = [c \in Client |-> D!Aged(client[c])] /\ UNCHANGED <<clients, addr, starting, heard>>
    BY <1>5 DEF D!DhcpClock
  <2>2. \A n \in 0..D!MaxTime : D!Sooner(n) \in 0..D!MaxTime
    BY <1>n DEF D!Sooner
  <2>3. ASSUME NEW k \in ClientRec
        PROVE  D!Aged(k) \in ClientRec /\ D!Aged(k).xid = k.xid /\ D!Aged(k).asked = k.asked
    BY <2>2 DEF D!Aged, ClientRec
  <2>4. D!Aged(D!Fresh) = D!Fresh
    BY DEF D!Aged, D!Fresh, D!Sooner
  <2>5. /\ client' \in [Client -> ClientRec]
        /\ \A c \in Client : client'[c] = D!Aged(client[c]) /\ client'[c].xid = client[c].xid
                             /\ client'[c].asked = client[c].asked
    BY <1>1, <2>1, <2>3
  <2>6. XidsOK(clients', client', starting')
    <3>1. \A d \in Client : d \notin Members(clients) => client'[d] = D!Fresh
      BY <1>1, <2>4, <2>5 DEF XidsOK
    <3>2. \A d, e \in Client : d # e /\ client'[d].xid = client'[e].xid => client'[d].xid = Nil
      BY <1>1, <2>5 DEF XidsOK
    <3>3. \A d \in Members(clients) : d # starting => client'[d].xid \in Xid /\ client'[d].asked \subseteq {client'[d].xid}
      BY <1>1, <1>m, <2>5
    <3> QED BY <1>1, <2>1, <3>1, <3>2, <3>3 DEF XidsOK
  <2> QED BY <1>1, <2>1, <2>5, <2>6 DEF DhcpInv
<1>6. ASSUME NEW c \in Client, D!DhcpTick(c) PROVE DhcpInv'
  <2> DEFINE k == client[c]
  <2>1. k.running /\ UNCHANGED <<clients, addr, starting>>
    BY <1>6 DEF D!DhcpTick
  <2>2. c \in Members(clients)
    BY <1>1, <2>1 DEF XidsOK, D!Fresh
  <2>3. k \in ClientRec /\ (c # starting => k.xid \in Xid /\ k.asked \subseteq {k.xid})
    BY <1>m, <2>2
  <2>4. CASE /\ client' = D!Discover(c, D!Retried(k)) /\ heard' = heard \cup {D!Broadcast(client'[c])}
    <3> DEFINE j == [D!Retried(k) EXCEPT !.asked = @ \cup {D!Retried(k).xid}]
    <3>1. client' = [client EXCEPT ![c] = j]
      BY <2>4 DEF D!Discover
    <3>2. D!Retried(k) \in ClientRec /\ D!Retried(k).xid = k.xid /\ D!Retried(k).asked = k.asked
      BY <1>n, <2>3 DEF D!Retried, ClientRec
    <3>3. j \in ClientRec /\ j.xid = k.xid /\ j.asked = k.asked \cup {k.xid}
      BY <3>2, ClientAsks DEF ClientRec
    <3> HIDE DEF j
    <3>4. D!Broadcast(client'[c]) \in Heard
      BY <1>1, <3>1, <3>3, ClientAsks
    <3> QED BY <1>1, <2>1, <2>2, <2>3, <2>4, <3>1, <3>3, <3>4, ClientChanged
  <2>5. ASSUME NEW x \in D!NewXid,
               client' = D!Discover(c, D!Restarted([k EXCEPT !.configured = FALSE, !.yi = Nil], x)),
               heard' = heard \cup {D!Broadcast(client'[c])}
        PROVE  DhcpInv'
    <3> DEFINE i == D!Restarted([k EXCEPT !.configured = FALSE, !.yi = Nil], x)
               j == [i EXCEPT !.asked = @ \cup {i.xid}]
    <3>1. client' = [client EXCEPT ![c] = j]
      BY <2>5 DEF D!Discover
    <3>2. x \in Xid /\ i \in ClientRec /\ i.xid = x /\ i.asked = {}
      BY <1>n, <2>3 DEF D!Restarted, ClientRec
    <3> HIDE DEF i
    <3>3. j \in ClientRec /\ j.xid = x /\ j.asked = {x}
      BY <3>2, ClientAsks DEF ClientRec
    <3> HIDE DEF j
    <3>4. D!Broadcast(client'[c]) \in Heard
      BY <1>1, <3>1, <3>3, ClientAsks
    <3> QED BY <1>1, <2>1, <2>2, <2>5, <3>1, <3>2, <3>3, <3>4, ClientChanged
  <2>6. CASE /\ client' = [client EXCEPT ![c] = IF k.rebind = 0 THEN [k EXCEPT !.rebind = k.lease \div 8]
                                               ELSE [k EXCEPT !.renew = k.lease \div 2]]
             /\ heard' = heard \cup {D!Request(k)}
    <3> DEFINE j == IF k.rebind = 0 THEN [k EXCEPT !.rebind = k.lease \div 8]
                    ELSE [k EXCEPT !.renew = k.lease \div 2]
    <3>1. k.lease \div 8 \in 0..D!MaxTime /\ k.lease \div 2 \in 0..D!MaxTime
      BY <2>3, TimeIs DEF ClientRec
    <3>2. j \in ClientRec /\ j.xid = k.xid /\ j.asked = k.asked
      BY <2>3, <3>1 DEF ClientRec
    <3>3. D!Request(k) \in Heard
      BY <2>3, ClientAsks
    <3> HIDE DEF j
    <3>4. client' = [client EXCEPT ![c] = j]
      BY <2>6 DEF j
    <3> QED BY <1>1, <2>1, <2>2, <2>3, <2>6, <3>2, <3>3, <3>4, ClientChanged
  <2> QED BY <1>6, <2>4, <2>5, <2>6 DEF D!DhcpTick
<1>7. ASSUME NEW m \in heard, NEW lease \in Lease \cup {Nil}, D!DhcpRx(m, lease) PROVE DhcpInv'
  <2>1. PICK c \in D!Owner(m.xid) :
          \/ \E ip \in Ip \cup {Nil} : D!DhcpHandleOffer(c, ip, lease)
          \/ D!DhcpHandleAck(c, m.ip, lease) \/ D!DhcpHandleAck(c, Nil, lease) \/ D!DhcpHandleNak(c)
    BY <1>7 DEF D!DhcpRx
  <2>2. c \in Members(clients)
    BY <1>1 DEF D!Owner
  <2>3. m.ip \in Ip \cup {Nil}
    BY <1>1 DEF Heard
  <2> DEFINE k == client[c]
             Fit(j) == j \in ClientRec /\ j.xid = k.xid /\ j.asked = k.asked
  <2>4. Fit(k) /\ (c # starting => k.xid \in Xid /\ k.asked \subseteq {k.xid})
    BY <1>m, <2>2
  <2>5. ASSUME NEW j, Fit(j), client' = [client EXCEPT ![c] = j], UNCHANGED <<clients, starting>>,
               addr' \in Ip \cup {Nil}, heard' \subseteq Heard
        PROVE  DhcpInv'
    BY <2>2, <2>4, <2>5, ClientChanged
  <2>6. ASSUME NEW ip \in Ip \cup {Nil}, D!DhcpHandleOffer(c, ip, lease) PROVE DhcpInv'
    <3> DEFINE j == [k EXCEPT !.yi = ip, !.lease = IF lease = Nil THEN @ ELSE lease]
    <3>1. /\ client' = [client EXCEPT ![c] = j] /\ UNCHANGED <<clients, addr, starting>>
          /\ heard' = IF ip = Nil THEN heard ELSE heard \cup {D!Request(j)}
      BY <2>6 DEF D!DhcpHandleOffer
    <3>2. Fit(j)
      BY <2>4 DEF ClientRec
    <3> HIDE DEF j
    <3>3. D!Request(j) \in Heard
      BY <3>2, ClientAsks
    <3> QED BY <1>1, <2>5, <3>1, <3>2, <3>3
  <2>7. ASSUME NEW ip \in Ip \cup {Nil}, D!DhcpHandleAck(c, ip, lease) PROVE DhcpInv'
    <3> DEFINE j == [k EXCEPT !.yi = IF ip = Nil THEN @ ELSE ip,
                              !.lease = IF lease = Nil THEN @ ELSE lease]
    <3>1. /\ UNCHANGED <<clients, starting, heard>>
          /\ \/ client' = [client EXCEPT ![c] = [j EXCEPT !.configured = FALSE]] /\ UNCHANGED addr
             \/ client' = [client EXCEPT ![c] = D!Leased(j)] /\ addr' = j.yi
      BY <2>7 DEF D!DhcpHandleAck
    <3>2. Fit(j)
      BY <2>4 DEF ClientRec
    <3> HIDE DEF j
    <3>3. Fit([j EXCEPT !.configured = FALSE])
      BY <3>2 DEF ClientRec
    <3>4. /\ j.lease \in 0..D!MaxTime /\ j.lease \div 2 \in 0..D!MaxTime
          /\ (j.lease * 7) \div 8 \in 0..D!MaxTime /\ j.yi \in Ip \cup {Nil}
      BY <3>2, TimeIs DEF ClientRec
    <3>5. Fit(D!Leased(j))
      BY <3>2, <3>4 DEF ClientRec, D!Leased
    <3> QED BY <1>1, <2>5, <3>1, <3>3, <3>4, <3>5
  <2>8. CASE D!DhcpHandleNak(c)
    <3> DEFINE j == [k EXCEPT !.configured = FALSE, !.yi = Nil]
    <3>1. /\ client' = [client EXCEPT ![c].configured = FALSE, ![c].yi = Nil]
          /\ UNCHANGED <<clients, addr, starting, heard>>
      BY <2>8 DEF D!DhcpHandleNak
    <3>2. client' = [client EXCEPT ![c] = j]
      BY <1>1, <2>2, <3>1 DEF ClientRec
    <3>3. Fit(j)
      BY <2>4 DEF ClientRec
    <3> HIDE DEF j
    <3> QED BY <1>1, <2>5, <3>1, <3>2, <3>3
  <2> QED BY <2>1, <2>3, <2>6, <2>7, <2>8
<1> QED BY <1>2, <1>3, <1>4, <1>5, <1>6, <1>7 DEF D!DhcpNext

(* RequestsSound: a name is resolved to its own address (DnsResolve and        *)
(* DnsInput), a late offer is the one its client asks for (DhcpInput), and     *)
(* who waits for an echo is at a request that there is (PingTick, PingWait).   *)
THEOREM RequestsSoundAlways == RequestsAssumption => (RequestsSpec => []RequestsSound)
<1> SUFFICES ASSUME RequestsAssumption PROVE RequestsSpec => []RequestsSound
  OBVIOUS
<1>1. N!DnsStart => DnsInv
  BY DnsStarts
<1>2. DnsInv /\ [N!DnsNext]_(N!dnsVars) => DnsInv'
  <2>1. ASSUME DnsInv, UNCHANGED N!dnsVars PROVE DnsInv'
    BY <2>1 DEF N!dnsVars, DnsInv, N!DnsTypeOK, N!AnswerIsAsked
  <2> QED BY <2>1, DnsAct
<1>3. P!PingStart => PingInv
  BY PingStarts
<1>4. PingInv /\ [P!PingNext]_(P!pingVars) => PingInv'
  <2>1. ASSUME PingInv, UNCHANGED P!pingVars PROVE PingInv'
    BY <2>1 DEF P!pingVars, PingInv, P!PingTypeOK
  <2> QED BY <2>1, PingAct
<1>5. D!DhcpSubsystemInit => DhcpInv
  BY DhcpStarts
<1>6. DhcpInv /\ [D!DhcpNext]_(D!dhcpVars) => DhcpInv'
  <2>1. ASSUME DhcpInv, UNCHANGED D!dhcpVars PROVE DhcpInv'
    BY <2>1 DEF D!dhcpVars, DhcpInv
  <2> QED BY <2>1, DhcpAct
<1>7. DnsInv /\ PingInv /\ DhcpInv => RequestsSound
  BY Unshared, DhcpTypes DEF DnsInv, PingInv, RequestsSound
<1> QED BY <1>1, <1>2, <1>3, <1>4, <1>5, <1>6, <1>7, PTL
        DEF RequestsSpec, N!DnsSpec, P!PingSpec, D!DhcpSpec
==============================================================================

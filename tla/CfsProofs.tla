------------------------------ MODULE CfsProofs ------------------------------
(* One CPU's run queue, for any threads and weights: the ring of RunNext       *)
(* pointers holds the tasks whose OnRunQueue flag is set, its counters follow  *)
(* it, no thread is forgotten and a tick picks the least virtual runtime.      *)
EXTENDS Cfs, ProofBasics, FiniteSetTheorems

CpuRec == [queue : CfsTask \cup {NoTask}, count : Nat, load : Nat, minV : 0..VMax,
           frac : Nat, current : CfsTask \cup {NoTask}]
TaskRec == [state : States, next : CfsTask \cup {NoTask}, onRq : BOOLEAN,
            vr : 0..VMax, weight : Nat]
Worlds == [cpu : CpuRec, task : [CfsTask -> TaskRec]]

Flagged(w) == {t \in CfsTask : w.task[t].onRq}
NextIn(w) == [t \in CfsTask |-> w.task[t].next]

(* The tasks of F in a ring: q is their order from the head to the tail.       *)
Chained(F, tail, nx, n, q) ==
  /\ n \in Nat \ {0} /\ q \in [1..n -> F]
  /\ \A i, j \in 1..n : q[i] = q[j] => i = j
  /\ \A t \in F : \E i \in 1..n : q[i] = t
  /\ q[n] = tail /\ nx[q[n]] = q[1]
  /\ \A i \in 1..(n - 1) : nx[q[i]] = q[i + 1]
Chain(F, tail, nx) == IF F = {} THEN tail = NoTask ELSE \E n, q : Chained(F, tail, nx, n, q)

(* A pair for each unit of the weight of each task in S. *)
Units(wt, S) == UNION {{t} \X (1..wt[t].weight) : t \in S}

RingOK(w, k) ==
  /\ w \in Worlds
  /\ Chain(Flagged(w), w.cpu.queue, NextIn(w))
  /\ w.cpu.count = Cardinality(Flagged(w)) + k
  /\ w.cpu.load = Cardinality(Units(w.task, Flagged(w)))
------------------------------------------------------------------------------
(* Rings. *)
LEMMA ChainAdd ==
  ASSUME NEW F, NEW tail, NEW nx, NEW mx, NEW t, t \notin F, Chain(F, tail, nx),
         mx[t] = IF F = {} THEN t ELSE nx[tail],
         F # {} => mx[tail] = t,
         \A u \in F \ {tail} : mx[u] = nx[u]
  PROVE  Chain(F \cup {t}, t, mx)
<1>1. CASE F = {}
  <2> DEFINE q == [i \in 1..1 |-> t]
  <2>1. Chained(F \cup {t}, t, mx, 1, q)
    BY <1>1 DEF Chained
  <2> QED BY <2>1 DEF Chain
<1>2. CASE F # {}
  <2>1. PICK n, q : Chained(F, tail, nx, n, q)
    BY <1>2 DEF Chain
  <2> DEFINE p == [i \in 1..(n + 1) |-> IF i = n + 1 THEN t ELSE q[i]]
  <2>2. n \in Nat \ {0} /\ q \in [1..n -> F] /\ q[n] = tail /\ nx[tail] = q[1]
    BY <2>1 DEF Chained
  <2>3. p \in [1..(n + 1) -> F \cup {t}]
    BY <2>2
  <2>4. ASSUME NEW i \in 1..(n + 1), NEW j \in 1..(n + 1), p[i] = p[j] PROVE i = j
    BY <2>1, <2>2, <2>4 DEF Chained
  <2>5. ASSUME NEW u \in F \cup {t} PROVE \E i \in 1..(n + 1) : p[i] = u
    <3>1. CASE u = t
      <4>1. n + 1 \in 1..(n + 1) /\ p[n + 1] = t
        BY <2>2
      <4> QED BY <3>1, <4>1
    <3>2. CASE u \in F
      <4>1. PICK i \in 1..n : q[i] = u
        BY <2>1, <3>2 DEF Chained
      <4>2. i \in 1..(n + 1) /\ p[i] = u
        BY <2>2, <4>1
      <4> QED BY <4>2
    <3> QED BY <3>1, <3>2
  <2>6. p[n + 1] = t /\ mx[p[n + 1]] = p[1]
    BY <1>2, <2>2
  <2>7. ASSUME NEW i \in 1..n PROVE mx[p[i]] = p[i + 1]
    <3>1. CASE i = n
      BY <1>2, <2>2, <3>1
    <3>2. CASE i # n
      <4>1. q[i] \in F \ {tail} /\ i \in 1..(n - 1)
        <5>1. i \in 1..(n - 1) /\ n \in 1..n
          BY <2>2, <3>2
        <5>2. q[i] # q[n]
          BY <2>1, <3>2, <5>1 DEF Chained
        <5> QED BY <2>2, <5>1, <5>2
      <4>2. nx[q[i]] = q[i + 1]
        BY <2>1, <4>1 DEF Chained
      <4>3. p[i] = q[i] /\ p[i + 1] = q[i + 1]
        BY <2>2, <4>1
      <4> QED BY <4>1, <4>2, <4>3
    <3> QED BY <3>1, <3>2
  <2>8. n + 1 \in Nat \ {0} /\ (n + 1) - 1 = n
    BY <2>2
  <2> HIDE DEF p
  <2>9. Chained(F \cup {t}, t, mx, n + 1, p)
    BY <2>3, <2>4, <2>5, <2>6, <2>7, <2>8 DEF Chained
  <2> QED BY <2>9 DEF Chain
<1> QED BY <1>1, <1>2

LEMMA ChainPrev ==
  ASSUME NEW F, NEW tail, NEW nx, Chain(F, tail, nx), NEW t \in F
  PROVE  \E p \in F : nx[p] = t
<1>1. PICK n, q : Chained(F, tail, nx, n, q)
  BY DEF Chain
<1>2. PICK i \in 1..n : q[i] = t
  BY <1>1 DEF Chained
<1>3. n \in Nat \ {0} /\ q \in [1..n -> F]
  BY <1>1 DEF Chained
<1>4. CASE i = 1
  BY <1>1, <1>2, <1>3, <1>4 DEF Chained
<1>5. CASE i # 1
  <2>1. i - 1 \in 1..(n - 1) /\ i - 1 \in 1..n /\ (i - 1) + 1 = i
    BY <1>3, <1>5
  <2>2. nx[q[i - 1]] = q[i]
    BY <1>1, <2>1 DEF Chained
  <2> QED BY <1>2, <1>3, <2>1, <2>2
<1> QED BY <1>4, <1>5

LEMMA ChainDel ==
  ASSUME NEW F, NEW tail, NEW nx, NEW mx, Chain(F, tail, nx), NEW t \in F, NEW p \in F, nx[p] = t,
         p # t => mx[p] = nx[t],
         \A u \in F \ {t, p} : mx[u] = nx[u]
  PROVE  Chain(F \ {t}, IF p = t THEN NoTask ELSE IF tail = t THEN p ELSE tail, mx)
<1>1. PICK n, q : Chained(F, tail, nx, n, q)
  BY DEF Chain
<1>2. n \in Nat \ {0} /\ q \in [1..n -> F] /\ n \in 1..n /\ q[n] = tail /\ nx[tail] = q[1]
  BY <1>1 DEF Chained
<1>3. PICK k \in 1..n : q[k] = t
  BY <1>1 DEF Chained
<1>4. PICK j \in 1..n : q[j] = p
  BY <1>1 DEF Chained
<1>5. k = IF j = n THEN 1 ELSE j + 1
  <2>1. CASE j = n
    BY <1>1, <1>2, <1>3, <1>4, <2>1 DEF Chained
  <2>2. CASE j # n
    <3>1. j \in 1..(n - 1) /\ j + 1 \in 1..n
      BY <1>2, <2>2
    <3>2. q[j + 1] = t
      BY <1>1, <1>4, <3>1 DEF Chained
    <3> QED BY <1>1, <1>3, <2>2, <3>1, <3>2 DEF Chained
  <2> QED BY <2>1, <2>2
<1>6. \A a, b \in 1..n : q[a] = q[b] => a = b
  BY <1>1 DEF Chained
<1>7. \A u \in F : \E i \in 1..n : q[i] = u
  BY <1>1 DEF Chained
<1>8. \A i \in 1..(n - 1) : nx[q[i]] = q[i + 1]
  BY <1>1 DEF Chained
<1>9. CASE p = t
  <2>1. k = j
    BY <1>3, <1>4, <1>6, <1>9
  <2>2. n = 1
    BY <1>2, <1>5, <2>1
  <2>3. F \ {t} = {}
    BY <1>3, <1>7, <2>2
  <2> QED BY <1>9, <2>3 DEF Chain
<1>10. CASE p # t
  <2> DEFINE m == n - 1
             r == [i \in 1..m |-> IF i < k THEN q[i] ELSE q[i + 1]]
  <2>1. k # j
    BY <1>3, <1>4, <1>10
  <2>2. m \in Nat \ {0} /\ n = m + 1 /\ k \in 1..n /\ j \in 1..n
    BY <1>2, <1>5, <2>1
  <2>3. \A i \in 1..m : i \in 1..n /\ i + 1 \in 1..n
    BY <2>2
  <2>4. r \in [1..m -> F \ {t}]
    <3>1. ASSUME NEW i \in 1..m PROVE r[i] \in F \ {t}
      <4>1. CASE i < k
        <5>1. q[i] \in F /\ q[i] # q[k]
          BY <1>2, <1>6, <2>3, <4>1, <2>2
        <5> QED BY <1>3, <4>1, <5>1
      <4>2. CASE ~(i < k)
        <5>1. q[i + 1] \in F /\ q[i + 1] # q[k]
          BY <1>2, <1>6, <2>3, <4>2, <2>2
        <5> QED BY <1>3, <4>2, <5>1
      <4> QED BY <4>1, <4>2
    <3> QED BY <3>1
  <2>5. ASSUME NEW a \in 1..m, NEW b \in 1..m, r[a] = r[b] PROVE a = b
    <3>1. r[a] = q[IF a < k THEN a ELSE a + 1] /\ r[b] = q[IF b < k THEN b ELSE b + 1]
      OBVIOUS
    <3>2. (IF a < k THEN a ELSE a + 1) = (IF b < k THEN b ELSE b + 1)
      BY <1>6, <2>3, <2>5, <3>1
    <3> QED BY <2>2, <3>2
  <2>6. ASSUME NEW u \in F \ {t} PROVE \E i \in 1..m : r[i] = u
    <3>1. PICK i \in 1..n : q[i] = u
      BY <1>7
    <3>2. i # k
      BY <1>3, <3>1
    <3>3. CASE i < k
      <4>1. i \in 1..m /\ r[i] = q[i]
        BY <2>2, <3>3
      <4> QED BY <3>1, <4>1
    <3>4. CASE k < i
      <4>1. i - 1 \in 1..m /\ r[i - 1] = q[(i - 1) + 1] /\ (i - 1) + 1 = i
        BY <2>2, <3>4
      <4> QED BY <3>1, <4>1
    <3> QED BY <2>2, <3>2, <3>3, <3>4
  <2>7. r[m] = IF tail = t THEN p ELSE tail
    <3>1. m \in 1..m
      BY <2>2
    <3>2. CASE k = n
      <4>1. j = m
        BY <1>2, <1>5, <2>2, <2>1, <3>2
      <4>2. r[m] = q[m] /\ tail = t
        BY <1>2, <1>3, <2>2, <3>1, <3>2
      <4> QED BY <1>4, <4>1, <4>2
    <3>3. CASE k # n
      <4>1. r[m] = q[m + 1]
        BY <2>2, <3>1, <3>3
      <4>2. tail # t
        BY <1>2, <1>3, <1>6, <3>3
      <4> QED BY <1>2, <2>2, <4>1, <4>2
    <3> QED BY <3>2, <3>3
  <2>8. \A u \in F \ {t, p} : mx[u] = nx[u]
    OBVIOUS
  <2>9. mx[p] = nx[t]
    BY <1>10
  <2>10. ASSUME NEW i \in 1..m PROVE mx[r[i]] = IF i = m THEN r[1] ELSE r[i + 1]
    <3> DEFINE s == IF i < k THEN i ELSE i + 1
    <3>1. s \in 1..n /\ s # k /\ r[i] = q[s]
      BY <2>2, <2>3
    <3>2. 1 \in 1..m /\ (i # m => i + 1 \in 1..m)
      BY <2>2
    <3>3. CASE s = j
      <4>1. mx[r[i]] = nx[q[k]]
        BY <1>3, <1>4, <2>9, <3>1, <3>3
      <4>2. CASE k = n
        <5>1. i = m /\ r[1] = q[1]
          BY <1>5, <2>2, <2>1, <3>3, <4>2
        <5> QED BY <1>2, <4>1, <4>2, <5>1
      <4>3. CASE k # n
        <5>1. k \in 1..(n - 1)
          BY <2>2, <4>3
        <5>2. nx[q[k]] = q[k + 1]
          BY <1>8, <5>1
        <5>3. CASE i = m
          <6>1. k = 1
            BY <1>5, <2>2, <3>3, <4>3, <5>3
          <6>2. r[1] = q[2]
            BY <3>2, <6>1
          <6> QED BY <4>1, <5>2, <5>3, <6>1, <6>2
        <5>4. CASE i # m
          <6>1. k = i + 1
            BY <1>5, <2>2, <3>3, <5>4
          <6>2. r[i + 1] = q[(i + 1) + 1]
            BY <3>2, <5>4, <6>1
          <6> QED BY <4>1, <5>2, <5>4, <6>1, <6>2
        <5> QED BY <5>3, <5>4
      <4> QED BY <4>2, <4>3
    <3>4. CASE s # j
      <4>1. q[s] \in F \ {t, p}
        BY <1>2, <1>3, <1>4, <1>6, <3>1, <3>4
      <4>2. mx[r[i]] = nx[q[s]]
        BY <2>8, <3>1, <4>1
      <4>3. CASE s = n
        <5>1. i = m /\ k # 1
          BY <1>5, <2>2, <3>4, <4>3
        <5>2. r[1] = q[1]
          BY <2>2, <3>2, <5>1
        <5> QED BY <1>2, <4>2, <4>3, <5>1, <5>2
      <4>4. CASE s # n
        <5>1. s \in 1..(n - 1)
          BY <3>1, <4>4, <2>2
        <5>2. nx[q[s]] = q[s + 1]
          BY <1>8, <5>1
        <5>3. i # m /\ s + 1 # k
          BY <1>5, <2>2, <3>1, <3>4, <4>4
        <5>4. r[i + 1] = q[s + 1]
          BY <2>2, <3>2, <5>3
        <5> QED BY <4>2, <5>2, <5>3, <5>4
      <4> QED BY <4>3, <4>4
    <3> QED BY <3>3, <3>4
  <2>11. mx[r[m]] = r[1] /\ \A i \in 1..(m - 1) : mx[r[i]] = r[i + 1]
    <3>1. m \in 1..m /\ \A i \in 1..(m - 1) : i \in 1..m /\ i # m
      BY <2>2
    <3> HIDE DEF r, m
    <3> QED BY <2>10, <3>1
  <2> HIDE DEF r, m
  <2>12. Chained(F \ {t}, IF tail = t THEN p ELSE tail, mx, m, r)
    BY <2>2, <2>4, <2>5, <2>6, <2>7, <2>11 DEF Chained
  <2>13. F \ {t} # {}
    BY <1>10
  <2> QED BY <1>10, <2>12, <2>13 DEF Chain
<1> QED BY <1>9, <1>10

LEMMA ChainEnds ==
  ASSUME NEW F, NEW tail, NEW nx, Chain(F, tail, nx), F # {}
  PROVE  tail \in F /\ nx[tail] \in F /\ \A t \in F : nx[t] \in F
<1>1. PICK n, q : Chained(F, tail, nx, n, q)
  BY DEF Chain
<1>2. n \in Nat \ {0} /\ q \in [1..n -> F] /\ 1 \in 1..n /\ n \in 1..n /\ q[n] = tail /\ nx[q[n]] = q[1]
  BY <1>1 DEF Chained
<1>3. ASSUME NEW t \in F PROVE nx[t] \in F
  <2>1. PICK i \in 1..n : q[i] = t
    BY <1>1 DEF Chained
  <2>2. CASE i = n
    BY <1>2, <2>1, <2>2
  <2>3. CASE i # n
    <3>1. i \in 1..(n - 1) /\ i + 1 \in 1..n
      BY <1>2, <2>3
    <3>2. nx[q[i]] = q[i + 1]
      BY <1>1, <3>1 DEF Chained
    <3> QED BY <1>2, <2>1, <3>1, <3>2
  <2> QED BY <2>2, <2>3
<1> QED BY <1>2, <1>3
------------------------------------------------------------------------------
(* The walk along the ring meets all of it. *)
Size == Cardinality(CfsTask)
After(w, x) == IF x = NoTask THEN NoTask ELSE w.task[x].next

LEMMA SizeIs == CfsAssumption => IsFiniteSet(CfsTask) /\ Size \in Nat
<1> SUFFICES ASSUME CfsAssumption PROVE IsFiniteSet(CfsTask) /\ Size \in Nat
  OBVIOUS
<1>1. IsFiniteSet({BootThread, IdleThread})
  <2>1. IsFiniteSet({BootThread} \cup {IdleThread})
    BY FS_Singleton, FS_AddElement
  <2>2. {BootThread, IdleThread} = {BootThread} \cup {IdleThread}
    OBVIOUS
  <2> QED BY <2>1, <2>2
<1>2. IsFiniteSet(CfsThread)
  BY DEF CfsAssumption
<1>3. IsFiniteSet(CfsTask)
  BY <1>1, <1>2, FS_Union DEF CfsTask
<1> QED BY <1>3, FS_CardinalityType DEF Size

LEMMA WalkIs ==
  ASSUME CfsAssumption, NEW w \in Worlds
  PROVE  /\ Walk(w) \in [0..Size -> CfsTask \cup {NoTask}] /\ Walk(w)[0] = w.cpu.queue
         /\ \A n \in 1..Size : Walk(w)[n] = After(w, Walk(w)[n - 1])
<1> DEFINE S == CfsTask \cup {NoTask}
           g == [x \in S |-> After(w, x)]
           Is(f) == f = [n \in 0..Size |-> IF n = 0 THEN w.cpu.queue
                                            ELSE IF f[n - 1] = NoTask THEN NoTask ELSE w.task[f[n - 1]].next]
<1>1. \A x \in S : After(w, x) \in S
  BY DEF After, Worlds, TaskRec
<1>2. g \in [S -> S] /\ w.cpu.queue \in S /\ \A x \in S : g[x] = After(w, x)
  BY <1>1 DEF Worlds, CpuRec
<1>3. PICK f : Iterated(f, g, w.cpu.queue, S)
  <2>1. Within(g, S)
    BY <1>2 DEF Within
  <2> HIDE DEF g, S
  <2> QED BY <1>2, <2>1, Iterates
<1>4. Size \in Nat
  BY SizeIs
<1> DEFINE h == [n \in 0..Size |-> f[n]]
<1>5. f \in [Nat -> S] /\ f[0] = w.cpu.queue /\ \A n \in Nat : f[n + 1] = g[f[n]]
  BY <1>3 DEF Iterated
<1>6. Is(h)
  <2>1. ASSUME NEW n \in 0..Size
        PROVE  h[n] = IF n = 0 THEN w.cpu.queue
                      ELSE IF h[n - 1] = NoTask THEN NoTask ELSE w.task[h[n - 1]].next
    <3>1. CASE n = 0
      BY <1>5, <1>4, <3>1
    <3>2. CASE n # 0
      <4>1. n - 1 \in Nat /\ n - 1 \in 0..Size /\ (n - 1) + 1 = n
        BY <1>4, <3>2
      <4>2. h[n] = g[h[n - 1]] /\ h[n - 1] \in S
        BY <1>5, <4>1
      <4>3. h[n] = After(w, h[n - 1])
        BY <1>2, <4>2
      <4> QED BY <3>2, <4>3 DEF After
    <3> QED BY <3>1, <3>2
  <2> QED BY <2>1
<1>7. Walk(w) = CHOOSE u : Is(u)
  BY DEF Walk, Size
<1>8. Is(Walk(w))
  <2> HIDE DEF Is
  <2> QED BY <1>6, <1>7
<1>9. DOMAIN Walk(w) = 0..Size /\ Walk(w)[0] = w.cpu.queue
  BY <1>4, <1>8
<1>10. \A n \in 1..Size : Walk(w)[n] = After(w, Walk(w)[n - 1])
  BY <1>4, <1>8 DEF After
<1>11. \A n \in 0..Size : Walk(w)[n] \in S
  <2> DEFINE P == {n \in Nat : n <= Size => Walk(w)[n] \in S}
  <2>1. 0 \in P
    BY <1>2, <1>9
  <2>2. ASSUME NEW n \in P PROVE n + 1 \in P
    <3>1. CASE n + 1 <= Size
      <4>1. n + 1 \in 1..Size /\ (n + 1) - 1 = n /\ n <= Size
        BY <1>4, <3>1
      <4>2. Walk(w)[n] \in S
        BY <4>1
      <4>3. Walk(w)[n + 1] = After(w, Walk(w)[n])
        BY <1>10, <4>1
      <4>4. Walk(w)[n + 1] \in S
        BY <1>1, <4>2, <4>3
      <4> QED BY <4>4
    <3> QED BY <3>1
  <2>3. P = Nat
    <3> HIDE DEF P
    <3> QED BY <2>1, <2>2, Counting DEF P
  <2> QED BY <1>4, <2>3
<1>12. Walk(w) = [n \in 0..Size |-> Walk(w)[n]]
  BY <1>8, <1>9
<1> QED BY <1>9, <1>10, <1>11, <1>12

LEMMA RingSize ==
  ASSUME CfsAssumption, NEW F \in SUBSET CfsTask, NEW tail, NEW nx, NEW n, NEW q,
         Chained(F, tail, nx, n, q)
  PROVE  n \in 1..Size
<1>1. n \in Nat \ {0} /\ q \in [1..n -> F] /\ \A i, j \in 1..n : q[i] = q[j] => i = j
  BY DEF Chained
<1>2. q \in [1..n -> CfsTask]
  BY <1>1
<1>3. q \in Injection(1..n, CfsTask)
  BY <1>1, <1>2 DEF Injection, IsInjective
<1>4. IsFiniteSet(CfsTask) /\ Size \in Nat
  BY SizeIs
<1>5. Cardinality(1..n) <= Cardinality(CfsTask)
  BY <1>3, <1>4, FS_Injection
<1>6. Cardinality(1..n) = n
  BY <1>1, FS_Interval
<1> QED BY <1>1, <1>4, <1>5, <1>6 DEF Size

(* The tasks met are those of the ring, and the walk comes back to the tail.   *)
LEMMA RingIs ==
  ASSUME CfsAssumption, NEW w \in Worlds, Chain(Flagged(w), w.cpu.queue, NextIn(w))
  PROVE  /\ \A t \in CfsTask : (\E n \in 1..Size : Walk(w)[n] = t) <=> t \in Flagged(w)
         /\ Ring(w) = Flagged(w)
         /\ Flagged(w) # {} => \E n \in 1..Size : Walk(w)[n] = w.cpu.queue
<1> DEFINE F == Flagged(w)
           nx == NextIn(w)
<1>1. /\ Walk(w) \in [0..Size -> CfsTask \cup {NoTask}] /\ Walk(w)[0] = w.cpu.queue
      /\ \A n \in 1..Size : Walk(w)[n] = After(w, Walk(w)[n - 1])
  BY WalkIs
<1>2. Size \in Nat /\ NoTask \notin CfsTask /\ F \subseteq CfsTask
  BY SizeIs DEF CfsAssumption, Flagged
<1>3. \A t \in F : After(w, t) = nx[t]
  BY <1>2 DEF After, NextIn
<1>4. CASE F = {}
  <2> DEFINE P == {n \in Nat : n <= Size => Walk(w)[n] = NoTask}
  <2>1. 0 \in P
    BY <1>1, <1>4 DEF Chain
  <2>2. ASSUME NEW n \in P PROVE n + 1 \in P
    <3>1. CASE n + 1 <= Size
      <4>1. n + 1 \in 1..Size /\ (n + 1) - 1 = n /\ n <= Size
        BY <1>2, <3>1
      <4>2. Walk(w)[n + 1] = After(w, Walk(w)[n]) /\ Walk(w)[n] = NoTask
        BY <1>1, <4>1
      <4> QED BY <4>2 DEF After
    <3> QED BY <3>1
  <2>3. P = Nat
    <3> HIDE DEF P
    <3> QED BY <2>1, <2>2, Counting DEF P
  <2>4. \A n \in 1..Size : Walk(w)[n] = NoTask
    BY <1>2, <2>3
  <2>5. Ring(w) = {}
    BY <2>4 DEF Ring, Size
  <2> QED BY <1>2, <1>4, <2>4, <2>5
<1>5. CASE F # {}
  <2>1. PICK n, q : Chained(F, w.cpu.queue, nx, n, q)
    BY <1>5 DEF Chain
  <2>2. n \in 1..Size
    BY <1>2, <2>1, RingSize
  <2>3. q \in [1..n -> F] /\ q[n] = w.cpu.queue /\ nx[q[n]] = q[1] /\ \A i \in 1..(n - 1) : nx[q[i]] = q[i + 1]
    BY <2>1 DEF Chained
  <2>4. w.cpu.queue \in F /\ \A t \in F : nx[t] \in F
    BY <1>5, ChainEnds
  <2> DEFINE P == {i \in Nat : i <= Size => Walk(w)[i] \in F}
  <2>5. P = Nat
    <3>1. 0 \in P
      BY <1>1, <2>4
    <3>2. ASSUME NEW i \in P PROVE i + 1 \in P
      <4>1. CASE i + 1 <= Size
        <5>1. i + 1 \in 1..Size /\ (i + 1) - 1 = i /\ i <= Size
          BY <1>2, <4>1
        <5>2. Walk(w)[i + 1] = After(w, Walk(w)[i]) /\ Walk(w)[i] \in F
          BY <1>1, <5>1
        <5>3. Walk(w)[i + 1] \in F
          BY <1>3, <2>4, <5>2
        <5> QED BY <5>3
      <4> QED BY <4>1
    <3> HIDE DEF P
    <3> QED BY <3>1, <3>2, Counting DEF P
  <2> DEFINE Q == {i \in Nat : i + 1 <= n => Walk(w)[i + 1] = q[i + 1]}
  <2>6. Q = Nat
    <3>1. 0 \in Q
      <4>1. 1 \in 1..Size /\ 1 - 1 = 0
        BY <1>2, <2>2
      <4>2. Walk(w)[1] = After(w, Walk(w)[0])
        BY <1>1, <4>1
      <4>3. Walk(w)[1] = q[1]
        BY <1>1, <1>3, <2>3, <2>4, <4>2
      <4> QED BY <4>3
    <3>2. ASSUME NEW i \in Q PROVE i + 1 \in Q
      <4>1. CASE (i + 1) + 1 <= n
        <5>1. (i + 1) + 1 \in 1..Size /\ ((i + 1) + 1) - 1 = i + 1 /\ i + 1 <= n /\ i + 1 \in 1..(n - 1) /\ i + 1 \in 1..n
          BY <1>2, <2>2, <4>1
        <5>2. Walk(w)[(i + 1) + 1] = After(w, Walk(w)[i + 1]) /\ Walk(w)[i + 1] = q[i + 1]
          BY <1>1, <5>1
        <5>3. q[i + 1] \in F /\ nx[q[i + 1]] = q[(i + 1) + 1]
          BY <2>3, <5>1
        <5>4. Walk(w)[(i + 1) + 1] = q[(i + 1) + 1]
          BY <1>3, <5>2, <5>3
        <5> QED BY <5>4
      <4> QED BY <4>1
    <3> HIDE DEF Q
    <3> QED BY <3>1, <3>2, Counting DEF Q
  <2>7. \A i \in 1..Size : Walk(w)[i] \in F
    BY <1>2, <2>5
  <2>8. ASSUME NEW i \in 1..n PROVE i \in 1..Size /\ Walk(w)[i] = q[i]
    <3>1. i - 1 \in Nat /\ (i - 1) + 1 = i /\ i <= n
      BY <2>2
    <3>2. i - 1 \in Q
      BY <2>6, <3>1
    <3>3. Walk(w)[i] = q[i]
      BY <3>1, <3>2
    <3> QED BY <1>2, <2>2, <3>3
  <2>9. ASSUME NEW t \in F PROVE \E i \in 1..Size : Walk(w)[i] = t
    <3>1. PICK i \in 1..n : q[i] = t
      BY <2>1 DEF Chained
    <3> QED BY <2>8, <3>1
  <2>10. \A t \in CfsTask : (\E i \in 1..Size : Walk(w)[i] = t) <=> t \in F
    BY <2>7, <2>9
  <2>11. Ring(w) = F
    BY <1>2, <2>7, <2>9 DEF Ring, Size
  <2>12. \E i \in 1..Size : Walk(w)[i] = w.cpu.queue
    BY <2>4, <2>9
  <2> QED BY <2>10, <2>11, <2>12
<1> QED BY <1>4, <1>5
------------------------------------------------------------------------------
(* Sets of weights. *)
Weighed(wt) == \A t \in CfsTask : wt[t].weight \in Nat

LEMMA OneUnits ==
  ASSUME NEW t, NEW n \in Nat
  PROVE  IsFiniteSet({t} \X (1..n)) /\ Cardinality({t} \X (1..n)) = n
<1>1. IsFiniteSet({t}) /\ Cardinality({t}) = 1
  BY FS_Singleton
<1>2. IsFiniteSet(1..n) /\ Cardinality(1..n) = n
  BY FS_Interval
<1>3. IsFiniteSet({t} \X (1..n)) /\ Cardinality({t} \X (1..n)) = Cardinality({t}) * Cardinality(1..n)
  BY <1>1, <1>2, FS_Product
<1> QED BY <1>1, <1>2, <1>3

LEMMA UnitsFinite ==
  ASSUME NEW wt, Weighed(wt), CfsAssumption, NEW S \in SUBSET CfsTask
  PROVE  IsFiniteSet(Units(wt, S)) /\ Cardinality(Units(wt, S)) \in Nat /\ IsFiniteSet(S) /\ Cardinality(S) \in Nat
<1> DEFINE T == {{t} \X (1..wt[t].weight) : t \in S}
           f == [t \in S |-> {t} \X (1..wt[t].weight)]
<1>1. IsFiniteSet(S)
  BY SizeIs, FS_Subset
<1>2. f \in Surjection(S, T)
  BY DEF Surjection
<1>3. IsFiniteSet(T)
  <2> HIDE DEF f, T
  <2> QED BY <1>1, <1>2, FS_Surjection
<1>4. ASSUME NEW u \in T PROVE IsFiniteSet(u)
  <2>1. PICK t \in S : u = {t} \X (1..wt[t].weight)
    OBVIOUS
  <2>2. wt[t].weight \in Nat
    BY DEF Weighed
  <2> QED BY <2>1, <2>2, OneUnits
<1>5. IsFiniteSet(UNION T)
  <2> HIDE DEF T
  <2> QED BY <1>3, <1>4, FS_UNION
<1>6. IsFiniteSet(Units(wt, S))
  BY <1>5 DEF Units
<1> QED BY <1>1, <1>6, FS_CardinalityType

LEMMA UnitsAdd ==
  ASSUME NEW wt, Weighed(wt), CfsAssumption, NEW S \in SUBSET CfsTask, NEW t \in CfsTask, t \notin S
  PROVE  Cardinality(Units(wt, S \cup {t})) = Cardinality(Units(wt, S)) + wt[t].weight
<1> DEFINE U == Units(wt, S)
           V == {t} \X (1..wt[t].weight)
<1>1. Units(wt, S \cup {t}) = U \cup V
  BY DEF Units
<1>2. U \cap V = {}
  BY DEF Units
<1>3. IsFiniteSet(U) /\ IsFiniteSet(V) /\ Cardinality(V) = wt[t].weight /\ Cardinality(U) \in Nat /\ wt[t].weight \in Nat
  BY UnitsFinite, OneUnits DEF Weighed
<1>4. Cardinality(U \cup V) = Cardinality(U) + Cardinality(V) - Cardinality(U \cap V)
  BY <1>3, FS_Union
<1>5. Cardinality(U \cap V) = 0
  BY <1>2, FS_EmptySet
<1> QED BY <1>1, <1>3, <1>4, <1>5

LEMMA UnitsDel ==
  ASSUME NEW wt, Weighed(wt), CfsAssumption, NEW S \in SUBSET CfsTask, NEW t \in S
  PROVE  Cardinality(Units(wt, S)) = Cardinality(Units(wt, S \ {t})) + wt[t].weight
<1>1. S \ {t} \in SUBSET CfsTask /\ t \in CfsTask /\ t \notin S \ {t} /\ (S \ {t}) \cup {t} = S
  OBVIOUS
<1> QED BY <1>1, UnitsAdd

LEMMA UnitsSame ==
  ASSUME NEW wt, NEW vt, NEW S, \A t \in S : vt[t].weight = wt[t].weight
  PROVE  Units(vt, S) = Units(wt, S)
<1>1. \A t \in S : {t} \X (1..vt[t].weight) = {t} \X (1..wt[t].weight)
  OBVIOUS
<1> QED BY <1>1 DEF Units
------------------------------------------------------------------------------
(* The operations on the run queue, field by field. *)
LEMMA WorldIs ==
  ASSUME NEW w \in Worlds
  PROVE  /\ w.cpu \in CpuRec /\ w.task \in [CfsTask -> TaskRec] /\ w = [cpu |-> w.cpu, task |-> w.task]
         /\ w.cpu.queue \in CfsTask \cup {NoTask} /\ w.cpu.count \in Nat /\ w.cpu.load \in Nat
         /\ w.cpu.minV \in 0..VMax /\ w.cpu.frac \in Nat /\ w.cpu.current \in CfsTask \cup {NoTask}
         /\ \A t \in CfsTask : /\ w.task[t] \in TaskRec /\ w.task[t].state \in States
                               /\ w.task[t].next \in CfsTask \cup {NoTask} /\ w.task[t].onRq \in BOOLEAN
                               /\ w.task[t].vr \in 0..VMax /\ w.task[t].weight \in Nat
BY DEF Worlds, CpuRec, TaskRec

Same(w, v, t) == v.task[t] = w.task[t]

(* The run queue after t, which was off it, was added. *)
Added(w, v, t) ==
  /\ v.cpu.queue = t /\ v.cpu.count = w.cpu.count + 1 /\ v.cpu.load = w.cpu.load + w.task[t].weight
  /\ v.cpu.minV = w.cpu.minV /\ v.cpu.frac = w.cpu.frac /\ v.cpu.current = w.cpu.current
  /\ \A u \in CfsTask : /\ v.task[u].state = w.task[u].state
                        /\ v.task[u].weight = w.task[u].weight
                        /\ v.task[u].onRq <=> (u = t \/ w.task[u].onRq)
                        /\ u # t => v.task[u].vr = w.task[u].vr
                        /\ v.task[u].next = IF u = w.cpu.queue THEN t
                                            ELSE IF u # t THEN w.task[u].next
                                            ELSE IF w.cpu.queue = NoTask THEN t
                                            ELSE w.task[w.cpu.queue].next

LEMMA AddIs ==
  ASSUME CfsAssumption, NEW w \in Worlds, NEW t \in CfsTask, ~w.task[t].onRq
  PROVE  RqAddLocked(w, t) \in Worlds /\ Added(w, RqAddLocked(w, t), t)
<1> DEFINE tail == w.cpu.queue
           queued == [w.task[t] EXCEPT !.onRq = TRUE,
                                       !.vr = IF @ < w.cpu.minV THEN w.cpu.minV ELSE @,
                                       !.next = IF tail = NoTask THEN t ELSE w.task[tail].next]
           linked == [w.task EXCEPT ![t] = queued]
           cv == [w.cpu EXCEPT !.queue = t, !.count = @ + 1, !.load = @ + w.task[t].weight]
           tv == IF tail = NoTask THEN linked ELSE [linked EXCEPT ![tail].next = t]
           v == RqAddLocked(w, t)
<1>1. v = [cpu |-> cv, task |-> tv]
  BY DEF RqAddLocked
<1>2. /\ w.cpu \in CpuRec /\ w.task \in [CfsTask -> TaskRec]
      /\ tail \in CfsTask \cup {NoTask} /\ NoTask \notin CfsTask
  BY WorldIs DEF CfsAssumption
<1>3. w.task[t] \in TaskRec /\ (tail # NoTask => tail \in CfsTask /\ w.task[tail] \in TaskRec)
  BY <1>2
<1>4. cv \in CpuRec
  <2>1. /\ w.cpu.count + 1 \in Nat /\ w.cpu.load + w.task[t].weight \in Nat
    BY WorldIs
  <2>2. \A a, b \in Nat : [w.cpu EXCEPT !.queue = t, !.count = a, !.load = b] \in CpuRec
    BY <1>2 DEF CpuRec
  <2> QED BY <2>1, <2>2
<1>5. /\ cv.queue = t /\ cv.count = w.cpu.count + 1 /\ cv.load = w.cpu.load + w.task[t].weight
      /\ cv.minV = w.cpu.minV /\ cv.frac = w.cpu.frac /\ cv.current = w.cpu.current
  BY <1>2 DEF CpuRec
<1>6. /\ queued \in TaskRec /\ queued.onRq = TRUE /\ queued.state = w.task[t].state
      /\ queued.weight = w.task[t].weight
      /\ queued.next = IF tail = NoTask THEN t ELSE w.task[tail].next
  BY <1>2, <1>3 DEF TaskRec, CpuRec
<1> HIDE DEF queued, cv
<1>7. linked \in [CfsTask -> TaskRec] /\ \A u \in CfsTask : linked[u] = IF u = t THEN queued ELSE w.task[u]
  BY <1>2, <1>6
<1> HIDE DEF linked
<1>8. ASSUME NEW r \in TaskRec PROVE [r EXCEPT !.next = t] \in TaskRec
  BY DEF TaskRec
<1>9. tv \in [CfsTask -> TaskRec] /\ \A u \in CfsTask : tv[u] = IF u = tail THEN [linked[u] EXCEPT !.next = t] ELSE linked[u]
  <2>1. CASE tail = NoTask
    BY <1>2, <1>7, <2>1
  <2>2. CASE tail # NoTask
    <3>1. tail \in CfsTask /\ tv = [linked EXCEPT ![tail].next = t]
      BY <1>2, <2>2
    <3> HIDE DEF tail, tv
    <3> QED BY <1>7, <1>8, <3>1
  <2> QED BY <2>1, <2>2
<1> HIDE DEF tv
<1>10. ASSUME NEW u \in CfsTask
       PROVE  /\ tv[u].state = w.task[u].state
              /\ tv[u].weight = w.task[u].weight
              /\ tv[u].onRq <=> (u = t \/ w.task[u].onRq)
              /\ u # t => tv[u].vr = w.task[u].vr
              /\ tv[u].next = IF u = tail THEN t
                              ELSE IF u # t THEN w.task[u].next
                              ELSE IF tail = NoTask THEN t ELSE w.task[tail].next
  <2>1. w.task[u] \in TaskRec /\ linked[u] \in TaskRec
    BY <1>2, <1>7
  <2>2. CASE u = tail
    <3>1. tv[u] = [linked[u] EXCEPT !.next = t]
      BY <1>9, <2>2
    <3>2. /\ tv[u].next = t /\ tv[u].state = linked[u].state /\ tv[u].weight = linked[u].weight
          /\ tv[u].onRq = linked[u].onRq /\ tv[u].vr = linked[u].vr
      BY <2>1, <3>1 DEF TaskRec
    <3> QED BY <1>6, <1>7, <2>1, <2>2, <3>2 DEF TaskRec
  <2>3. CASE u # tail
    <3>1. tv[u] = linked[u]
      BY <1>9, <2>3
    <3> QED BY <1>6, <1>7, <2>1, <2>3, <3>1 DEF TaskRec
  <2> QED BY <2>2, <2>3
<1>11. v \in Worlds /\ v.cpu = cv /\ v.task = tv
  BY <1>1, <1>4, <1>9 DEF Worlds
<1> HIDE DEF v, tail
<1>12. Added(w, v, t)
  BY <1>5, <1>10, <1>11 DEF Added, tail
<1> QED BY <1>11, <1>12 DEF v

(* What a world that differs in nothing the ring depends on keeps of it. *)
LEMMA RingSame ==
  ASSUME NEW w, NEW k, RingOK(w, k), NEW v \in Worlds,
         v.cpu.queue = w.cpu.queue, v.cpu.count = w.cpu.count, v.cpu.load = w.cpu.load,
         \A t \in CfsTask : v.task[t].onRq = w.task[t].onRq,
         \A t \in Flagged(w) : v.task[t].next = w.task[t].next /\ v.task[t].weight = w.task[t].weight
  PROVE  RingOK(v, k) /\ Flagged(v) = Flagged(w)
<1>1. Flagged(v) = Flagged(w)
  BY DEF Flagged
<1>2. Units(v.task, Flagged(w)) = Units(w.task, Flagged(w))
  BY UnitsSame
<1>3. \A t \in Flagged(w) : NextIn(v)[t] = NextIn(w)[t]
  BY DEF NextIn, Flagged
<1>4. Chain(Flagged(w), v.cpu.queue, NextIn(v))
  <2>1. Chain(Flagged(w), v.cpu.queue, NextIn(w))
    BY DEF RingOK
  <2>2. ASSUME NEW n, NEW q, Chained(Flagged(w), v.cpu.queue, NextIn(w), n, q)
        PROVE  Chained(Flagged(w), v.cpu.queue, NextIn(v), n, q)
    <3>1. n \in Nat \ {0} /\ q \in [1..n -> Flagged(w)]
      BY <2>2 DEF Chained
    <3>2. \A i \in 1..n : NextIn(v)[q[i]] = NextIn(w)[q[i]]
      BY <1>3, <3>1
    <3>3. n \in 1..n /\ \A i \in 1..(n - 1) : i \in 1..n
      BY <3>1
    <3> QED BY <2>2, <3>2, <3>3 DEF Chained
  <2> QED BY <2>1, <2>2 DEF Chain
<1> QED BY <1>1, <1>2, <1>4 DEF RingOK

LEMMA AddRing ==
  ASSUME CfsAssumption, NEW w, NEW k \in Nat, RingOK(w, k), NEW t \in CfsTask, ~w.task[t].onRq
  PROVE  RingOK(RqAddLocked(w, t), k)
<1> DEFINE v == RqAddLocked(w, t)
           tail == w.cpu.queue
           F == Flagged(w)
<1>1. w \in Worlds
  BY DEF RingOK
<1>2. v \in Worlds /\ Added(w, v, t)
  BY <1>1, AddIs
<1> HIDE DEF v
<1>3. /\ v.cpu.queue = t /\ v.cpu.count = w.cpu.count + 1 /\ v.cpu.load = w.cpu.load + w.task[t].weight
      /\ \A u \in CfsTask : /\ v.task[u].weight = w.task[u].weight
                            /\ v.task[u].onRq <=> (u = t \/ w.task[u].onRq)
                            /\ v.task[u].next = IF u = tail THEN t
                                                ELSE IF u # t THEN w.task[u].next
                                                ELSE IF tail = NoTask THEN t ELSE w.task[tail].next
  BY <1>2 DEF Added
<1>4. F \in SUBSET CfsTask /\ t \notin F /\ Chain(F, tail, NextIn(w)) /\ NoTask \notin CfsTask
  BY DEF Flagged, RingOK, CfsAssumption
<1>5. Flagged(v) = F \cup {t}
  BY <1>3 DEF Flagged
<1>6. Chain(F \cup {t}, t, NextIn(v))
  <2>1. F = {} => tail = NoTask
    BY <1>4 DEF Chain
  <2>2. F # {} => tail \in F
    BY <1>4, ChainEnds
  <2>3. NextIn(v)[t] = IF F = {} THEN t ELSE NextIn(w)[tail]
    <3>1. tail # t
      BY <1>4, <2>1, <2>2
    <3>2. NextIn(v)[t] = IF tail = NoTask THEN t ELSE w.task[tail].next
      BY <1>3, <3>1 DEF NextIn
    <3>3. CASE F = {}
      BY <2>1, <3>2, <3>3
    <3>4. CASE F # {}
      <4>1. tail \in CfsTask /\ tail # NoTask
        BY <1>4, <2>2, <3>4
      <4> QED BY <3>2, <3>4, <4>1 DEF NextIn
    <3> QED BY <3>3, <3>4
  <2>4. F # {} => NextIn(v)[tail] = t
    <3> SUFFICES ASSUME F # {} PROVE NextIn(v)[tail] = t
      OBVIOUS
    <3>1. tail \in CfsTask
      BY <1>4, <2>2
    <3> QED BY <1>3, <3>1 DEF NextIn
  <2>5. \A u \in F \ {tail} : NextIn(v)[u] = NextIn(w)[u]
    BY <1>3, <1>4 DEF NextIn
  <2> HIDE DEF F, tail
  <2> QED BY <1>4, <2>3, <2>4, <2>5, ChainAdd
<1>7. IsFiniteSet(F) /\ Cardinality(F) \in Nat
  BY <1>4, SizeIs, FS_Subset, FS_CardinalityType
<1>8. v.cpu.count = Cardinality(F \cup {t}) + k
  <2>1. Cardinality(F \cup {t}) = Cardinality(F) + 1
    BY <1>4, <1>7, FS_AddElement
  <2>2. w.cpu.count = Cardinality(F) + k
    BY DEF RingOK
  <2> QED BY <1>3, <1>7, <2>1, <2>2
<1>9. v.cpu.load = Cardinality(Units(v.task, F \cup {t}))
  <2>1. Weighed(w.task)
    BY <1>1, WorldIs DEF Weighed
  <2>2. Units(v.task, F \cup {t}) = Units(w.task, F \cup {t})
    BY <1>3, <1>4, UnitsSame
  <2>3. Cardinality(Units(w.task, F \cup {t})) = Cardinality(Units(w.task, F)) + w.task[t].weight
    BY <1>4, <2>1, UnitsAdd
  <2>4. w.cpu.load = Cardinality(Units(w.task, F))
    BY DEF RingOK
  <2> QED BY <1>3, <2>2, <2>3, <2>4
<1>10. RingOK(v, k)
  BY <1>2, <1>3, <1>5, <1>6, <1>8, <1>9 DEF RingOK
<1> QED BY <1>10 DEF v

(* The run queue after t, which was on it, was taken off. *)
Deleted(w, v, t) ==
  /\ v.cpu.minV = w.cpu.minV /\ v.cpu.frac = w.cpu.frac /\ v.cpu.current = w.cpu.current
  /\ \A u \in CfsTask : /\ v.task[u].state = w.task[u].state
                        /\ v.task[u].weight = w.task[u].weight
                        /\ v.task[u].onRq <=> (u # t /\ w.task[u].onRq)
                        /\ v.task[u].vr = w.task[u].vr

LEMMA DelIs ==
  ASSUME CfsAssumption, NEW w, NEW k \in Nat, RingOK(w, k), NEW t \in CfsTask, w.task[t].onRq
  PROVE  RingOK(RqDelLocked(w, t), k) /\ Deleted(w, RqDelLocked(w, t), t)
<1> DEFINE F == Flagged(w)
           tail == w.cpu.queue
           prev == CHOOSE p \in Ring(w) : w.task[p].next = t
           gone == [w.task EXCEPT ![prev].next = w.task[t].next,
                                  ![t].next = NoTask, ![t].onRq = FALSE]
           to == TailAfter(w, t, prev)
           cv == [w.cpu EXCEPT !.queue = to, !.count = @ - 1, !.load = @ - w.task[t].weight]
           v == RqDelLocked(w, t)
<1>1. w \in Worlds /\ Chain(F, tail, NextIn(w)) /\ w.cpu.count = Cardinality(F) + k
      /\ w.cpu.load = Cardinality(Units(w.task, F))
  BY DEF RingOK
<1>2. F \in SUBSET CfsTask /\ t \in F /\ NoTask \notin CfsTask
  BY DEF Flagged, CfsAssumption
<1>3. Ring(w) = F
  BY <1>1, RingIs
<1>4. prev \in F /\ w.task[prev].next = t
  <2>1. \E p \in F : NextIn(w)[p] = t
    BY <1>1, <1>2, ChainPrev
  <2>2. \E p \in F : w.task[p].next = t
    BY <1>2, <2>1 DEF NextIn
  <2> QED BY <1>3, <2>2
<1> HIDE DEF prev
<1>5. v = [cpu |-> cv, task |-> gone]
  BY <1>2, <1>3 DEF RqDelLocked, prev
<1>6. /\ w.cpu \in CpuRec /\ w.task \in [CfsTask -> TaskRec]
      /\ tail \in CfsTask \cup {NoTask} /\ w.task[t].weight \in Nat
      /\ prev \in CfsTask /\ w.task[t].next \in CfsTask \cup {NoTask}
  BY <1>1, <1>2, <1>4, WorldIs
<1>7. to = IF prev = t THEN NoTask ELSE IF tail = t THEN prev ELSE tail
  BY DEF TailAfter
<1>8. to \in CfsTask \cup {NoTask}
  BY <1>6, <1>7
<1> HIDE DEF to
<1>9. IsFiniteSet(F) /\ Cardinality(F) \in Nat /\ Cardinality(F \ {t}) = Cardinality(F) - 1 /\ Cardinality(F \ {t}) \in Nat
  <2>1. IsFiniteSet(F) /\ IsFiniteSet(F \ {t})
    BY <1>2, SizeIs, FS_Subset
  <2> QED BY <1>2, <2>1, FS_RemoveElement, FS_CardinalityType
<1>10. Weighed(w.task)
  BY <1>1, WorldIs DEF Weighed
<1>11. /\ Cardinality(Units(w.task, F)) = Cardinality(Units(w.task, F \ {t})) + w.task[t].weight
       /\ Cardinality(Units(w.task, F \ {t})) \in Nat
  <2>1. F \ {t} \in SUBSET CfsTask
    BY <1>2
  <2> QED BY <1>2, <1>10, <2>1, UnitsDel, UnitsFinite
<1>12. w.cpu.count - 1 = Cardinality(F \ {t}) + k /\ w.cpu.count - 1 \in Nat
  BY <1>1, <1>9
<1>13. w.cpu.load - w.task[t].weight = Cardinality(Units(w.task, F \ {t})) /\ w.cpu.load - w.task[t].weight \in Nat
  BY <1>1, <1>6, <1>11
<1>14. cv \in CpuRec
  <2>1. \A a, b \in Nat : [w.cpu EXCEPT !.queue = to, !.count = a, !.load = b] \in CpuRec
    BY <1>6, <1>8 DEF CpuRec
  <2> QED BY <1>12, <1>13, <2>1
<1>15. /\ cv.queue = to /\ cv.count = w.cpu.count - 1 /\ cv.load = w.cpu.load - w.task[t].weight
       /\ cv.minV = w.cpu.minV /\ cv.frac = w.cpu.frac /\ cv.current = w.cpu.current
  BY <1>6 DEF CpuRec
<1> HIDE DEF cv
<1>16. ASSUME NEW u \in CfsTask
       PROVE  /\ gone[u] \in TaskRec
              /\ gone[u].state = w.task[u].state /\ gone[u].weight = w.task[u].weight
              /\ gone[u].vr = w.task[u].vr
              /\ gone[u].onRq <=> (u # t /\ w.task[u].onRq)
              /\ u # t => gone[u].next = IF u = prev THEN w.task[t].next ELSE w.task[u].next
  <2> DEFINE a == [w.task EXCEPT ![prev].next = w.task[t].next]
             b == [a EXCEPT ![t].next = NoTask]
  <2>1. \A r \in TaskRec : \A x \in CfsTask \cup {NoTask} :
           LET s == [r EXCEPT !.next = x]
           IN  s \in TaskRec /\ s.next = x /\ s.state = r.state /\ s.weight = r.weight /\ s.vr = r.vr /\ s.onRq = r.onRq
    BY DEF TaskRec
  <2>2. \A r \in TaskRec :
           LET s == [r EXCEPT !.onRq = FALSE]
           IN  s \in TaskRec /\ s.next = r.next /\ s.state = r.state /\ s.weight = r.weight /\ s.vr = r.vr /\ s.onRq = FALSE
    BY DEF TaskRec
  <2>3. w.task[prev] \in TaskRec /\ w.task[t] \in TaskRec /\ w.task[u] \in TaskRec
    BY <1>6
  <2>4. a \in [CfsTask -> TaskRec]
    BY <1>6, <2>1, <2>3
  <2>5. a[u] = IF u = prev THEN [w.task[u] EXCEPT !.next = w.task[t].next] ELSE w.task[u]
    BY <1>6
  <2>6. b \in [CfsTask -> TaskRec] /\ b[u] = IF u = t THEN [a[u] EXCEPT !.next = NoTask] ELSE a[u]
    <3> HIDE DEF a
    <3>1. a[t] \in TaskRec
      BY <2>4
    <3> QED BY <2>1, <2>4, <3>1
  <2>7. gone[u] = IF u = t THEN [b[u] EXCEPT !.onRq = FALSE] ELSE b[u]
    <3>1. gone = [b EXCEPT ![t].onRq = FALSE]
      OBVIOUS
    <3> HIDE DEF b, gone
    <3> QED BY <2>6, <3>1
  <2>8. w.task[u].onRq \in BOOLEAN /\ a[u] \in TaskRec /\ b[u] \in TaskRec
    <3> HIDE DEF a, b
    <3> QED BY <1>6, <2>4, <2>6 DEF TaskRec
  <2> HIDE DEF a, b, gone
  <2>9. /\ a[u].state = w.task[u].state /\ a[u].weight = w.task[u].weight /\ a[u].vr = w.task[u].vr
        /\ a[u].onRq = w.task[u].onRq
        /\ a[u].next = IF u = prev THEN w.task[t].next ELSE w.task[u].next
    BY <1>6, <2>1, <2>3, <2>5
  <2>10. /\ b[u].state = a[u].state /\ b[u].weight = a[u].weight /\ b[u].vr = a[u].vr
         /\ b[u].onRq = a[u].onRq /\ (u # t => b[u].next = a[u].next)
    BY <2>1, <2>6, <2>8
  <2>11. /\ gone[u] \in TaskRec /\ gone[u].state = b[u].state /\ gone[u].weight = b[u].weight /\ gone[u].vr = b[u].vr
         /\ gone[u].onRq <=> (u # t /\ b[u].onRq)
         /\ u # t => gone[u].next = b[u].next
    <3>1. b[u].onRq \in BOOLEAN
      BY <2>8 DEF TaskRec
    <3>2. CASE u = t
      BY <2>2, <2>7, <2>8, <3>1, <3>2
    <3>3. CASE u # t
      BY <2>7, <2>8, <3>1, <3>3
    <3> QED BY <3>2, <3>3
  <2>12. gone[u].onRq <=> (u # t /\ w.task[u].onRq)
    BY <2>9, <2>10, <2>11
  <2>13. u # t => gone[u].next = IF u = prev THEN w.task[t].next ELSE w.task[u].next
    BY <2>9, <2>10, <2>11
  <2>14. gone[u].state = w.task[u].state /\ gone[u].weight = w.task[u].weight /\ gone[u].vr = w.task[u].vr
    BY <2>9, <2>10, <2>11
  <2> QED BY <2>11, <2>12, <2>13, <2>14
<1>17. gone \in [CfsTask -> TaskRec]
  <2>1. gone = [u \in CfsTask |-> gone[u]]
    BY <1>6
  <2> HIDE DEF gone
  <2> QED BY <1>16, <2>1
<1> HIDE DEF gone
<1>18. v \in Worlds /\ v.cpu = cv /\ v.task = gone
  BY <1>5, <1>14, <1>17 DEF Worlds
<1> HIDE DEF v
<1>19. Flagged(v) = F \ {t}
  BY <1>16, <1>18 DEF Flagged
<1>20. Chain(F \ {t}, to, NextIn(v))
  <2>1. NextIn(w)[prev] = t
    BY <1>4, <1>6 DEF NextIn
  <2>2. prev # t => NextIn(v)[prev] = NextIn(w)[t]
    BY <1>2, <1>6, <1>16, <1>18 DEF NextIn
  <2>3. \A u \in F \ {t, prev} : NextIn(v)[u] = NextIn(w)[u]
    BY <1>2, <1>16, <1>18 DEF NextIn
  <2> HIDE DEF F, tail
  <2> QED BY <1>1, <1>2, <1>4, <1>7, <2>1, <2>2, <2>3, ChainDel
<1>21. Units(v.task, F \ {t}) = Units(w.task, F \ {t})
  BY <1>2, <1>16, <1>18, UnitsSame
<1>22. RingOK(v, k)
  <2>1. v.cpu.queue = to /\ v.cpu.count = Cardinality(F \ {t}) + k
    BY <1>12, <1>15, <1>18
  <2>2. v.cpu.load = Cardinality(Units(v.task, F \ {t}))
    BY <1>13, <1>15, <1>18, <1>21
  <2> QED BY <1>18, <1>19, <1>20, <2>1, <2>2 DEF RingOK
<1>23. Deleted(w, v, t)
  BY <1>15, <1>16, <1>18 DEF Deleted
<1> QED BY <1>22, <1>23 DEF v
------------------------------------------------------------------------------
(* What a tick does to the world: it charges the current task, and takes the   *)
(* one with the least virtual runtime off the ring.                            *)
LEMMA PickIs ==
  ASSUME CfsAssumption, NEW w, NEW k, RingOK(w, k)
  PROVE  LET p == RqPickMin(w)
         IN  IF p = NoTask THEN \A t \in CfsTask : ~MayRun(w, t)
             ELSE /\ p \in CfsTask /\ MayRun(w, p)
                  /\ \A t \in CfsTask : MayRun(w, t) => w.task[p].vr <= w.task[t].vr
<1> DEFINE at == Walk(w)
           can == {n \in 1..Size : at[n] # NoTask /\ MayRun(w, at[n])}
           Vr(n) == w.task[at[n]].vr
           best == {n \in can : \A m \in can : RunsBefore(Vr(n), n, Vr(m), m)}
           p == RqPickMin(w)
<1>1. w \in Worlds /\ Chain(Flagged(w), w.cpu.queue, NextIn(w))
  BY DEF RingOK
<1>2. \A t \in CfsTask : MayRun(w, t) => t \in Flagged(w)
  BY DEF MayRun, Flagged
<1>3. \A t \in CfsTask : t \in Flagged(w) => \E n \in 1..Size : at[n] = t
  BY <1>1, RingIs
<1>4. \A n \in 1..Size : at[n] \in CfsTask \cup {NoTask}
  <2>1. Size \in Nat
    BY SizeIs
  <2> QED BY <1>1, <2>1, WalkIs
<1>5. NoTask \notin CfsTask
  BY DEF CfsAssumption
<1>6. p = IF can = {} THEN NoTask ELSE at[CHOOSE n \in best : TRUE]
  BY DEF RqPickMin, Size
<1>7. \A t \in CfsTask : MayRun(w, t) => \E n \in can : at[n] = t
  BY <1>2, <1>3, <1>5
<1>8. \A n \in can : n \in Nat /\ at[n] \in CfsTask /\ MayRun(w, at[n]) /\ Vr(n) \in Nat
  <2> SUFFICES ASSUME NEW n \in can PROVE n \in Nat /\ at[n] \in CfsTask /\ MayRun(w, at[n]) /\ Vr(n) \in Nat
    OBVIOUS
  <2>1. at[n] \in CfsTask /\ n \in Nat
    BY <1>4, SizeIs
  <2>2. Vr(n) \in 0..VMax
    BY <1>1, <2>1, WorldIs
  <2> QED BY <2>1, <2>2
<1> HIDE DEF at, p
<1>9. CASE can = {}
  BY <1>6, <1>7, <1>9 DEF p
<1>10. CASE can # {}
  <2> DEFINE V == {Vr(n) : n \in can}
  <2>1. V \in SUBSET Nat /\ V # {}
    BY <1>8, <1>10
  <2>2. PICK v \in V : \A u \in V : v <= u
    <3> HIDE DEF V
    <3> QED BY <2>1, Least
  <2> DEFINE C == {n \in can : Vr(n) = v}
  <2>3. C \in SUBSET Nat /\ C # {}
    BY <1>8, <2>2
  <2>4. PICK n \in C : \A m \in C : n <= m
    <3> HIDE DEF C
    <3> QED BY <2>3, Least
  <2>5. n \in best
    <3> SUFFICES ASSUME NEW m \in can PROVE RunsBefore(Vr(n), n, Vr(m), m)
      BY <2>4
    <3>1. Vr(n) = v /\ Vr(n) <= Vr(m) /\ Vr(n) \in Nat /\ Vr(m) \in Nat
      BY <1>8, <2>2, <2>4
    <3>2. Vr(m) = v => n <= m
      BY <2>4
    <3> HIDE DEF Vr
    <3> QED BY <3>1, <3>2 DEF RunsBefore
  <2> DEFINE c == CHOOSE x \in best : TRUE
  <2>6. c \in best
    <3> HIDE DEF best
    <3> QED BY <2>5
  <2> HIDE DEF c
  <2>7. c \in can /\ p = at[c] /\ \A m \in can : RunsBefore(Vr(c), c, Vr(m), m)
    BY <1>6, <1>10, <2>6 DEF c
  <2>8. p \in CfsTask /\ MayRun(w, p)
    BY <1>8, <2>7
  <2>9. ASSUME NEW t \in CfsTask, MayRun(w, t) PROVE w.task[p].vr <= w.task[t].vr
    <3>1. PICK m \in can : at[m] = t
      BY <1>7, <2>9
    <3>2. Vr(c) <= Vr(m)
      <4>1. Vr(c) \in Nat /\ Vr(m) \in Nat /\ RunsBefore(Vr(c), c, Vr(m), m)
        BY <1>8, <2>7
      <4> HIDE DEF Vr
      <4> QED BY <4>1 DEF RunsBefore
    <3> QED BY <2>7, <3>1, <3>2
  <2> QED BY <1>5, <2>8, <2>9 DEF p
<1> QED BY <1>9, <1>10

(* Nothing changes but what the current task has run. *)
Charged(w, v) ==
  /\ v \in Worlds
  /\ v.cpu.queue = w.cpu.queue /\ v.cpu.count = w.cpu.count /\ v.cpu.load = w.cpu.load
  /\ v.cpu.current = w.cpu.current
  /\ \A t \in CfsTask : /\ v.task[t].state = w.task[t].state /\ v.task[t].next = w.task[t].next
                        /\ v.task[t].onRq = w.task[t].onRq /\ v.task[t].weight = w.task[t].weight

LEMMA AccountIs ==
  ASSUME CfsAssumption, NEW w \in Worlds, w.cpu.current \in CfsTask, NEW delta \in Nat
  PROVE  Charged(w, Account(w, delta))
<1> DEFINE cur == w.cpu.current
           wt == IF w.task[cur].weight = 0 THEN Nice0Weight ELSE w.task[cur].weight
           num == delta * Nice0Weight + w.cpu.frac
           x == WrappedSum(w.task[cur].vr, num \div wt)
           cv == [w.cpu EXCEPT !.frac = num % wt, !.minV = IF x < @ THEN x ELSE @]
           tv == [w.task EXCEPT ![cur].vr = x]
           v == Account(w, delta)
<1>1. CASE delta = 0
  <2>1. v = w
    BY <1>1 DEF Account
  <2> QED BY <2>1 DEF Charged
<1>2. CASE delta # 0
  <2>1. v = [cpu |-> cv, task |-> tv]
    BY <1>2 DEF Account
  <2>2. /\ w.cpu \in CpuRec /\ w.task \in [CfsTask -> TaskRec] /\ w.cpu.minV \in 0..VMax
        /\ w.cpu.frac \in Nat /\ w.task[cur].weight \in Nat /\ w.task[cur].vr \in 0..VMax
    BY WorldIs
  <2>3. VMax \in Nat /\ Nice0Weight \in Nat \ {0}
    BY DEF CfsAssumption
  <2>4. wt \in Nat \ {0} /\ delta * Nice0Weight \in Nat
    BY <2>2, <2>3
  <2>5. num \in Nat
    BY <2>2, <2>4
  <2> HIDE DEF num, wt
  <2>6. num % wt \in Nat /\ num \div wt \in Nat
    BY <2>4, <2>5
  <2>7. x \in 0..VMax
    <3> DEFINE s == w.task[cur].vr + (num \div wt)
    <3>1. s \in Nat /\ VMax + 1 \in Nat \ {0}
      BY <2>2, <2>3, <2>6
    <3>2. x = s % (VMax + 1)
      BY DEF WrappedSum
    <3> HIDE DEF s, x
    <3> QED BY <2>3, <3>1, <3>2
  <2> HIDE DEF x
  <2>8. cv \in CpuRec /\ cv.queue = w.cpu.queue /\ cv.count = w.cpu.count /\ cv.load = w.cpu.load
        /\ cv.current = w.cpu.current
    BY <2>2, <2>6, <2>7 DEF CpuRec
  <2>9. ASSUME NEW t \in CfsTask
        PROVE  /\ tv[t] \in TaskRec /\ tv[t].state = w.task[t].state /\ tv[t].next = w.task[t].next
               /\ tv[t].onRq = w.task[t].onRq /\ tv[t].weight = w.task[t].weight
    <3>1. \A r \in TaskRec : LET s == [r EXCEPT !.vr = x]
                             IN  /\ s \in TaskRec /\ s.state = r.state /\ s.next = r.next
                                 /\ s.onRq = r.onRq /\ s.weight = r.weight
      BY <2>7 DEF TaskRec
    <3>2. w.task[t] \in TaskRec /\ tv[t] = IF t = cur THEN [w.task[t] EXCEPT !.vr = x] ELSE w.task[t]
      BY <2>2
    <3> HIDE DEF tv
    <3>3. CASE t = cur
      BY <3>1, <3>2, <3>3
    <3>4. CASE t # cur
      BY <3>2, <3>4
    <3> QED BY <3>3, <3>4
  <2>10. tv \in [CfsTask -> TaskRec]
    <3>1. tv = [t \in CfsTask |-> tv[t]]
      BY <2>2
    <3> HIDE DEF tv
    <3> QED BY <2>9, <3>1
  <2> HIDE DEF cv, tv
  <2>11. v \in Worlds /\ v.cpu = cv /\ v.task = tv
    BY <2>1, <2>8, <2>10 DEF Worlds
  <2> HIDE DEF v
  <2>12. Charged(w, v)
    BY <2>8, <2>9, <2>11 DEF Charged
  <2> QED BY <2>12 DEF v
<1> QED BY <1>1, <1>2

LEMMA ChargedRing ==
  ASSUME NEW w, NEW k, RingOK(w, k), NEW v, Charged(w, v)
  PROVE  RingOK(v, k)
<1>1. \A t \in Flagged(w) : t \in CfsTask
  BY DEF Flagged
<1>2. /\ v \in Worlds /\ v.cpu.queue = w.cpu.queue /\ v.cpu.count = w.cpu.count /\ v.cpu.load = w.cpu.load
      /\ \A t \in CfsTask : v.task[t].onRq = w.task[t].onRq
      /\ \A t \in Flagged(w) : v.task[t].next = w.task[t].next /\ v.task[t].weight = w.task[t].weight
  BY <1>1 DEF Charged
<1> QED BY <1>2, RingSame

(* A change of one task's state alone. *)
Restated(w, v, t, s) ==
  /\ v \in Worlds /\ v.cpu = w.cpu
  /\ \A u \in CfsTask : /\ v.task[u].state = IF u = t THEN s ELSE w.task[u].state
                        /\ v.task[u].next = w.task[u].next /\ v.task[u].onRq = w.task[u].onRq
                        /\ v.task[u].weight = w.task[u].weight /\ v.task[u].vr = w.task[u].vr

LEMMA StateIs ==
  ASSUME NEW w \in Worlds, NEW t \in CfsTask, NEW s \in States
  PROVE  /\ Restated(w, [w EXCEPT !.task[t].state = s], t, s)
         /\ Restated(w, [cpu |-> w.cpu, task |-> [w.task EXCEPT ![t].state = s]], t, s)
<1> DEFINE tv == [w.task EXCEPT ![t].state = s]
           v == [cpu |-> w.cpu, task |-> tv]
<1>1. w.cpu \in CpuRec /\ w.task \in [CfsTask -> TaskRec] /\ w = [cpu |-> w.cpu, task |-> w.task]
  BY WorldIs
<1>2. [w EXCEPT !.task[t].state = s] = v
  BY <1>1
<1>3. \A r \in TaskRec : LET q == [r EXCEPT !.state = s]
                         IN  /\ q \in TaskRec /\ q.state = s /\ q.next = r.next
                             /\ q.onRq = r.onRq /\ q.weight = r.weight /\ q.vr = r.vr
  BY DEF TaskRec
<1>4. ASSUME NEW u \in CfsTask
      PROVE  /\ tv[u] \in TaskRec
             /\ tv[u].state = IF u = t THEN s ELSE w.task[u].state
             /\ tv[u].next = w.task[u].next /\ tv[u].onRq = w.task[u].onRq
             /\ tv[u].weight = w.task[u].weight /\ tv[u].vr = w.task[u].vr
  <2>1. w.task[u] \in TaskRec /\ tv[u] = IF u = t THEN [w.task[u] EXCEPT !.state = s] ELSE w.task[u]
    BY <1>1
  <2> HIDE DEF tv
  <2>2. CASE u = t
    BY <1>3, <2>1, <2>2
  <2>3. CASE u # t
    BY <2>1, <2>3
  <2> QED BY <2>2, <2>3
<1>5. tv \in [CfsTask -> TaskRec]
  <2>1. tv = [u \in CfsTask |-> tv[u]]
    BY <1>1
  <2> HIDE DEF tv
  <2> QED BY <1>4, <2>1
<1> HIDE DEF tv
<1>6. v \in Worlds /\ v.cpu = w.cpu /\ v.task = tv
  BY <1>1, <1>5 DEF Worlds
<1> HIDE DEF v
<1>7. Restated(w, v, t, s)
  BY <1>4, <1>6 DEF Restated
<1> QED BY <1>2, <1>7 DEF v, tv

LEMMA StateRing ==
  ASSUME NEW w, NEW k, RingOK(w, k), NEW v, NEW t, NEW s, Restated(w, v, t, s)
  PROVE  RingOK(v, k)
<1>1. \A u \in Flagged(w) : u \in CfsTask
  BY DEF Flagged
<1>2. /\ v \in Worlds /\ v.cpu.queue = w.cpu.queue /\ v.cpu.count = w.cpu.count /\ v.cpu.load = w.cpu.load
      /\ \A u \in CfsTask : v.task[u].onRq = w.task[u].onRq
      /\ \A u \in Flagged(w) : v.task[u].next = w.task[u].next /\ v.task[u].weight = w.task[u].weight
  BY <1>1 DEF Restated
<1> QED BY <1>2, RingSame
------------------------------------------------------------------------------
(* The inductive invariant.  From the first tick on, and on an application     *)
(* processor always, the queue is a ring and no thread is off it that should   *)
(* be on it; before that the BSP's queue holds InitTask, which SchedulerInit   *)
(* has taken the flag from.                                                    *)
Threads == CfsThread \cup {BootThread}

Alive(w, bsp) ==
  /\ \A t \in CfsTask : w.task[t].onRq => w.task[t].state \in {"READY", "RUNNING"}
  /\ \A t \in Threads : w.task[t].state = "READY" => w.task[t].onRq
  /\ \A t \in Threads : w.task[t].state = "RUNNING" => t = w.cpu.current \/ (t = BootThread /\ ~bsp)

(* The same between ScheduleFromIsr's requeueing and its switch. *)
Requeued(w, bsp) ==
  /\ \A t \in CfsTask : w.task[t].onRq => w.task[t].state \in {"READY", "RUNNING"}
  /\ \A t \in Threads : w.task[t].state = "READY" => w.task[t].onRq
  /\ \A t \in Threads : w.task[t].state = "RUNNING" => t = BootThread /\ ~bsp

BootOnly(w) == w.cpu.queue = BootThread /\ w.cpu.count = 1 /\ w.cpu.load = 0 /\ w.cpu.current = BootThread

Booting(w, ph) ==
  /\ \A t \in CfsTask \ {BootThread} :
       ~w.task[t].onRq /\ w.task[t].state = IF t = IdleThread THEN "READY" ELSE "NEW"
  /\ ph = "smp" => w.cpu = ZeroCpu(NoTask) /\ w.task[BootThread] = ZeroTask
  /\ ph # "smp" => BootOnly(w)
  /\ ph \in {"pcache", "run"} =>
       w.task[BootThread].state = "RUNNING" /\ ~w.task[BootThread].onRq /\ w.task[BootThread].next = BootThread

Extra == IF isBsp THEN 1 ELSE 0
Started == ticked \/ ~isBsp

CfsInv ==
  /\ isBsp \in BOOLEAN /\ phase \in {"smp", "wipe", "pcache", "run"} /\ ticked \in BOOLEAN
  /\ World \in Worlds
  /\ Started => phase = "run"
  /\ phase # "smp" => cpu.current \in CfsTask
  /\ Started => RingOK(World, Extra) /\ Alive(World, isBsp)
  /\ ~Started => Booting(World, phase)
------------------------------------------------------------------------------
LEMMA WorldOf == World.cpu = cpu /\ World.task = task
BY DEF World

LEMMA BecomeIs == ASSUME NEW w, Become(w) PROVE World' = [cpu |-> w.cpu, task |-> w.task]
BY DEF Become, World

LEMMA BecomeWorld == ASSUME NEW w \in Worlds, Become(w) PROVE World' = w
BY WorldIs, BecomeIs

LEMMA ConstantsAre ==
  ASSUME CfsAssumption
  PROVE  /\ BootThread \in CfsTask /\ IdleThread \in CfsTask /\ Threads \subseteq CfsTask /\ CfsThread \subseteq Threads
         /\ BootThread # IdleThread /\ IdleThread \notin Threads /\ BootThread \notin CfsThread /\ BootThread \in Threads
         /\ NoTask \notin CfsTask /\ CfsTask = Threads \cup {IdleThread}
         /\ VMax \in Nat /\ Nice0Weight \in Nat \ {0} /\ MaxDelta \in Nat /\ WbThread \in CfsThread
         /\ Weights \subseteq Nat
BY DEF CfsAssumption, CfsTask, Threads

(* A preempted task is on the ring again, the first time as well. *)
LEMMA RequeueIs ==
  ASSUME CfsAssumption, CfsInv, phase = "run"
  PROVE  /\ RingOK(Requeue(World), Extra) /\ Requeued(Requeue(World), isBsp)
         /\ Requeue(World).cpu.current = cpu.current
<1> DEFINE cur == cpu.current
           w1 == [World EXCEPT !.task[cur].state = "READY"]
           v == Requeue(World)
<1>1. World \in Worlds /\ World.cpu = cpu /\ World.task = task /\ cur \in CfsTask /\ Extra \in Nat
  BY WorldOf DEF CfsInv, Extra
<1>2. CASE task[cur].state # "RUNNING"
  <2>1. v = World
    BY <1>1, <1>2 DEF Requeue
  <2>2. Started
    BY <1>1, <1>2 DEF CfsInv, Booting, BootOnly
  <2>3. RingOK(World, Extra) /\ Alive(World, isBsp)
    BY <2>2 DEF CfsInv
  <2>4. Requeued(World, isBsp)
    BY <1>1, <1>2, <2>3 DEF Alive, Requeued
  <2> QED BY <1>1, <2>1, <2>3, <2>4
<1>3. CASE task[cur].state = "RUNNING"
  <2>1. v = RqAddLocked(w1, cur)
    BY <1>1, <1>3 DEF Requeue
  <2>2. "READY" \in States
    BY DEF States
  <2>3. Restated(World, w1, cur, "READY")
    BY <1>1, <2>2, StateIs
  <2>4. w1 \in Worlds /\ w1.cpu = cpu
    BY <1>1, <2>3 DEF Restated
  <2>5. \A u \in CfsTask : /\ w1.task[u].state = IF u = cur THEN "READY" ELSE task[u].state
                           /\ w1.task[u].next = task[u].next /\ w1.task[u].onRq = task[u].onRq
                           /\ w1.task[u].weight = task[u].weight
    BY <1>1, <2>3 DEF Restated
  <2> HIDE DEF w1, v
  <2>6. CASE Started
    <3>1. RingOK(World, Extra) /\ Alive(World, isBsp)
      BY <2>6 DEF CfsInv
    <3>2. RingOK(w1, Extra)
      BY <2>3, <3>1, StateRing
    <3>3. CASE w1.task[cur].onRq
      <4>1. v = w1
        BY <2>1, <3>3 DEF RqAddLocked
      <4>2. Requeued(w1, isBsp)
        BY <1>1, <2>5, <3>1, <3>3, ConstantsAre DEF Alive, Requeued
      <4> QED BY <2>4, <3>2, <4>1, <4>2 DEF v
    <3>4. CASE ~w1.task[cur].onRq
      <4>1. v \in Worlds /\ Added(w1, v, cur) /\ RingOK(v, Extra)
        BY <1>1, <2>1, <2>4, <3>2, <3>4, AddIs, AddRing
      <4>2. \A u \in CfsTask : /\ v.task[u].state = IF u = cur THEN "READY" ELSE task[u].state
                               /\ v.task[u].onRq <=> (u = cur \/ task[u].onRq)
        BY <2>5, <4>1 DEF Added
      <4>3. Requeued(v, isBsp)
        BY <1>1, <3>1, <4>2, ConstantsAre DEF Alive, Requeued
      <4>4. v.cpu.current = cur
        BY <2>4, <4>1 DEF Added
      <4> QED BY <4>1, <4>3, <4>4 DEF v
    <3> QED BY <3>3, <3>4
  <2>7. CASE ~Started
    <3>1. Booting(World, phase) /\ isBsp /\ Extra = 1
      BY <2>7 DEF CfsInv, Started, Extra
    <3>2. /\ cur = BootThread /\ cpu.queue = BootThread /\ cpu.count = 1 /\ cpu.load = 0
          /\ ~task[BootThread].onRq /\ task[BootThread].next = BootThread
          /\ \A t \in CfsTask \ {BootThread} :
               ~task[t].onRq /\ task[t].state = IF t = IdleThread THEN "READY" ELSE "NEW"
      BY <1>1, <3>1 DEF Booting, BootOnly
    <3>3. ~w1.task[cur].onRq
      BY <1>1, <2>5, <3>2
    <3>4. v \in Worlds /\ Added(w1, v, BootThread)
      BY <1>1, <2>1, <2>4, <3>2, <3>3, AddIs
    <3>5. /\ v.cpu.queue = BootThread /\ v.cpu.count = 2 /\ v.cpu.load = task[BootThread].weight
          /\ v.cpu.current = cur
      <4>1. task[BootThread].weight \in Nat
        BY <1>1, <3>2, WorldIs
      <4>2. w1.task[BootThread].weight = task[BootThread].weight
        BY <1>1, <2>5, <3>2
      <4> QED BY <2>4, <3>2, <3>4, <4>1, <4>2 DEF Added
    <3>6. \A u \in CfsTask : /\ v.task[u].state = IF u = cur THEN "READY" ELSE task[u].state
                             /\ v.task[u].onRq <=> u = cur
                             /\ v.task[u].weight = task[u].weight
      BY <2>5, <3>2, <3>4 DEF Added
    <3>7. v.task[BootThread].next = BootThread
      BY <1>1, <2>4, <3>2, <3>4 DEF Added
    <3>8. Flagged(v) = {BootThread}
      BY <1>1, <3>2, <3>6 DEF Flagged
    <3>9. Chain({BootThread}, BootThread, NextIn(v))
      <4> DEFINE q == [i \in 1..1 |-> BootThread]
      <4>1. NextIn(v)[BootThread] = BootThread
        BY <3>7, ConstantsAre DEF NextIn
      <4>2. Chained({BootThread}, BootThread, NextIn(v), 1, q)
        BY <4>1 DEF Chained
      <4> QED BY <4>2 DEF Chain
    <3>10. Cardinality(Units(v.task, {BootThread})) = task[BootThread].weight
      <4>1. Units(v.task, {BootThread}) = {BootThread} \X (1..v.task[BootThread].weight)
        BY DEF Units
      <4>2. v.task[BootThread].weight = task[BootThread].weight /\ task[BootThread].weight \in Nat
        BY <1>1, <3>2, <3>6, WorldIs
      <4>3. Cardinality({BootThread} \X (1..v.task[BootThread].weight)) = v.task[BootThread].weight
        BY <4>2, OneUnits
      <4> QED BY <4>1, <4>2, <4>3
    <3>11. Cardinality({BootThread}) = 1
      BY FS_Singleton
    <3>12. RingOK(v, Extra)
      BY <3>1, <3>4, <3>5, <3>8, <3>9, <3>10, <3>11 DEF RingOK
    <3>13. Requeued(v, isBsp)
      BY <3>2, <3>6, ConstantsAre DEF Requeued
    <3> QED BY <3>5, <3>12, <3>13 DEF v
  <2> QED BY <2>6, <2>7
<1> QED BY <1>2, <1>3

LEMMA SwitchIs ==
  ASSUME CfsAssumption, NEW w, NEW k \in Nat, RingOK(w, k), NEW bsp, Requeued(w, bsp)
  PROVE  LET v == SwitchTo(w)
         IN  /\ RingOK(v, k) /\ Alive(v, bsp) /\ v.cpu.current \in CfsTask
             /\ \A t \in CfsTask : (v.task[t].state = "READY" /\ v.task[t].onRq) =>
                                   v.task[t].vr >= v.task[v.cpu.current].vr
<1> DEFINE picked == RqPickMin(w)
           next == IF picked = NoTask THEN IdleThread ELSE picked
           off == IF picked = NoTask THEN w ELSE RqDelLocked(w, picked)
           run == [cpu |-> off.cpu, task |-> [off.task EXCEPT ![next].state = "RUNNING"]]
           v == SwitchTo(w)
<1>1. v = [cpu |-> [off.cpu EXCEPT !.current = next], task |-> [off.task EXCEPT ![next].state = "RUNNING"]]
  BY DEF SwitchTo
<1>2. w \in Worlds /\ \A t \in CfsTask : w.task[t].vr \in 0..VMax /\ VMax \in Nat
  BY WorldIs, ConstantsAre DEF RingOK
<1>3. IF picked = NoTask THEN \A t \in CfsTask : ~MayRun(w, t)
      ELSE /\ picked \in CfsTask /\ MayRun(w, picked)
           /\ \A t \in CfsTask : MayRun(w, t) => w.task[picked].vr <= w.task[t].vr
  BY PickIs
<1>4. next \in CfsTask
  BY <1>3, ConstantsAre
<1>5. RingOK(off, k) /\ \A t \in CfsTask : /\ off.task[t].state = w.task[t].state
                                           /\ off.task[t].onRq <=> (t # picked /\ w.task[t].onRq)
                                           /\ off.task[t].vr = w.task[t].vr
  <2>1. CASE picked = NoTask
    <3>1. off = w
      BY <2>1
    <3> HIDE DEF off, picked
    <3> QED BY <2>1, <3>1, ConstantsAre
  <2>2. CASE picked # NoTask
    <3>1. picked \in CfsTask /\ w.task[picked].onRq /\ off = RqDelLocked(w, picked)
      BY <1>3, <2>2 DEF MayRun
    <3> HIDE DEF off, picked
    <3>2. RingOK(off, k) /\ Deleted(w, off, picked)
      BY <3>1, DelIs
    <3> QED BY <3>2 DEF Deleted
  <2> QED BY <2>1, <2>2
<1> HIDE DEF off, picked
<1>6. Restated(off, run, next, "RUNNING")
  <2>1. off \in Worlds /\ "RUNNING" \in States
    BY <1>5 DEF RingOK, States
  <2> QED BY <1>4, <2>1, StateIs
<1>7. RingOK(run, k)
  BY <1>5, <1>6, StateRing
<1>8. v.cpu = [run.cpu EXCEPT !.current = next] /\ v.task = run.task
  BY <1>1
<1> HIDE DEF run, v
<1>9. /\ v \in Worlds /\ v.cpu.queue = run.cpu.queue /\ v.cpu.count = run.cpu.count /\ v.cpu.load = run.cpu.load
      /\ v.cpu.current = next
  <2>1. run.cpu \in CpuRec /\ run.task \in [CfsTask -> TaskRec]
    BY <1>7, WorldIs DEF RingOK
  <2>2. /\ v.cpu \in CpuRec /\ v.cpu.queue = run.cpu.queue /\ v.cpu.count = run.cpu.count
        /\ v.cpu.load = run.cpu.load /\ v.cpu.current = next
    BY <1>4, <1>8, <2>1 DEF CpuRec
  <2>3. v = [cpu |-> v.cpu, task |-> v.task]
    BY <1>1, <1>8 DEF v, run
  <2>4. v \in Worlds
    BY <1>8, <2>1, <2>2, <2>3 DEF Worlds
  <2> QED BY <2>2, <2>4
<1>10. RingOK(v, k)
  <2>1. \A t \in Flagged(run) : v.task[t].next = run.task[t].next /\ v.task[t].weight = run.task[t].weight
    BY <1>8
  <2>2. \A t \in CfsTask : v.task[t].onRq = run.task[t].onRq
    BY <1>8
  <2> QED BY <1>7, <1>9, <2>1, <2>2, RingSame
<1>11. \A t \in CfsTask : /\ v.task[t].state = IF t = next THEN "RUNNING" ELSE w.task[t].state
                          /\ v.task[t].onRq <=> (t # picked /\ w.task[t].onRq)
                          /\ v.task[t].vr = w.task[t].vr
  <2>1. \A t \in CfsTask : /\ run.task[t].state = IF t = next THEN "RUNNING" ELSE off.task[t].state
                           /\ run.task[t].onRq = off.task[t].onRq
                           /\ run.task[t].vr = off.task[t].vr
    BY <1>6 DEF Restated
  <2> QED BY <1>5, <1>8, <2>1
<1>12. Alive(v, bsp)
  <2>1. \A t \in CfsTask : v.task[t].onRq => v.task[t].state \in {"READY", "RUNNING"}
    BY <1>11 DEF Requeued
  <2>2. \A t \in Threads : v.task[t].state = "READY" => v.task[t].onRq
    BY <1>11, ConstantsAre DEF Requeued
  <2>3. \A t \in Threads : v.task[t].state = "RUNNING" => t = v.cpu.current \/ (t = BootThread /\ ~bsp)
    BY <1>9, <1>11, ConstantsAre DEF Requeued
  <2> QED BY <2>1, <2>2, <2>3 DEF Alive
<1>13. ASSUME NEW t \in CfsTask, v.task[t].state = "READY", v.task[t].onRq
       PROVE  v.task[t].vr >= v.task[next].vr
  <2>1. t # next /\ w.task[t].state = "READY" /\ w.task[t].onRq
    BY <1>11, <1>13
  <2>2. w.task[t].vr >= w.task[next].vr
    <3>1. CASE MayRun(w, t)
      BY <1>2, <1>3, <1>4, <3>1
    <3>2. CASE ~MayRun(w, t)
      BY <1>2, <1>4, <2>1, <3>2 DEF MayRun
    <3> QED BY <3>1, <3>2
  <2> QED BY <1>4, <1>11, <2>2
<1>14. v.cpu.current \in CfsTask /\ \A t \in CfsTask : (v.task[t].state = "READY" /\ v.task[t].onRq) =>
                                   v.task[t].vr >= v.task[v.cpu.current].vr
  BY <1>4, <1>9, <1>13
<1> QED BY <1>10, <1>12, <1>14 DEF v
------------------------------------------------------------------------------
(* Every step keeps the invariant.                                             *)
LEMMA StartedStep ==
  ASSUME CfsInv, NEW w, RingOK(w, Extra), Alive(w, isBsp), w.cpu.current \in CfsTask,
         Become(w), isBsp' = isBsp, phase' = "run", ticked' \in BOOLEAN, ticked' \/ ~isBsp
  PROVE  CfsInv'
<1>1. w \in Worlds
  BY DEF RingOK
<1>2. World' = w /\ cpu' = w.cpu
  BY <1>1, BecomeWorld DEF Become
<1>3. Extra' = Extra /\ Started'
  BY DEF Extra, Started
<1>4. RingOK(World', Extra') /\ Alive(World', isBsp')
  BY <1>2, <1>3
<1> QED BY <1>1, <1>2, <1>3, <1>4 DEF CfsInv

LEMMA InitIs == ASSUME CfsAssumption, CfsInit PROVE CfsInv
<1>1. /\ isBsp \in BOOLEAN /\ ticked = FALSE
      /\ isBsp => phase = "smp" /\ cpu = ZeroCpu(NoTask) /\ task = TasksAtStart("READY")
      /\ ~isBsp => phase = "run" /\ cpu = ZeroCpu(IdleThread) /\ task = TasksAtStart("RUNNING")
  BY DEF CfsInit
<1>2. \A s \in States : TasksAtStart(s) \in [CfsTask -> TaskRec]
  <2> SUFFICES ASSUME NEW s \in States, NEW t \in CfsTask
               PROVE  (IF t = IdleThread THEN IdleTask(s)
                       ELSE IF t = BootThread THEN ZeroTask ELSE NewThreads[t]) \in TaskRec
    BY DEF TasksAtStart
  <2>1. 0 \in 0..VMax /\ VMax \in 0..VMax
    BY ConstantsAre
  <2>2. IdleTask(s) \in TaskRec /\ ZeroTask \in TaskRec
    BY <2>1 DEF IdleTask, ZeroTask, TaskRec, States
  <2>3. ASSUME NEW u \in CfsThread PROVE NewThreads[u] \in TaskRec
    BY <2>1 DEF NewThreads, ZeroTask, TaskRec, States
  <2> QED BY <2>2, <2>3 DEF CfsTask
<1>3. /\ \A s \in States : \A t \in CfsTask :
           /\ TasksAtStart(s)[t].onRq = FALSE
           /\ TasksAtStart(s)[t].state = IF t = IdleThread THEN s ELSE IF t = BootThread THEN "RUNNING" ELSE "NEW"
      /\ \A s \in States : TasksAtStart(s)[BootThread] = ZeroTask
  <2> SUFFICES ASSUME NEW s \in States, NEW t \in CfsTask
               PROVE  /\ TasksAtStart(s)[t].onRq = FALSE
                      /\ TasksAtStart(s)[t].state = IF t = IdleThread THEN s ELSE IF t = BootThread THEN "RUNNING" ELSE "NEW"
                      /\ TasksAtStart(s)[BootThread] = ZeroTask
    BY ConstantsAre
  <2>1. TasksAtStart(s)[BootThread] = ZeroTask
    BY ConstantsAre DEF TasksAtStart
  <2>2. CASE t = IdleThread
    <3>1. TasksAtStart(s)[t] = IdleTask(s)
      BY <2>2 DEF TasksAtStart
    <3> QED BY <2>1, <2>2, <3>1 DEF IdleTask
  <2>3. CASE t = BootThread
    BY <2>1, <2>3, ConstantsAre DEF ZeroTask
  <2>4. CASE t # IdleThread /\ t # BootThread
    <3>1. TasksAtStart(s)[t] = [ZeroTask EXCEPT !.state = "NEW"]
      BY <2>4 DEF TasksAtStart, NewThreads, CfsTask
    <3> QED BY <2>1, <2>4, <3>1 DEF ZeroTask
  <2> QED BY <2>2, <2>3, <2>4
<1>4. \A c \in CfsTask \cup {NoTask} : ZeroCpu(c) \in CpuRec
  BY ConstantsAre DEF ZeroCpu, CpuRec
<1>5. "READY" \in States /\ "RUNNING" \in States
  BY DEF States
<1>6. World \in Worlds
  <2>1. cpu \in CpuRec /\ task \in [CfsTask -> TaskRec]
    BY <1>1, <1>2, <1>4, <1>5, ConstantsAre
  <2> QED BY <2>1 DEF World, Worlds
<1>7. CASE isBsp
  <2>1. ~Started /\ phase = "smp"
    BY <1>1, <1>7 DEF Started
  <2>2. Booting(World, phase)
    BY <1>1, <1>3, <1>5, <1>7, WorldOf DEF Booting
  <2> QED BY <1>1, <1>6, <2>1, <2>2 DEF CfsInv
<1>8. CASE ~isBsp
  <2>1. Started /\ phase = "run" /\ Extra = 0 /\ cpu = ZeroCpu(IdleThread) /\ task = TasksAtStart("RUNNING")
    BY <1>1, <1>8 DEF Started, Extra
  <2>2. Flagged(World) = {}
    BY <1>3, <1>5, <2>1, WorldOf DEF Flagged
  <2>3. Units(World.task, {}) = {}
    BY DEF Units
  <2>4. cpu.queue = NoTask /\ cpu.count = 0 /\ cpu.load = 0 /\ cpu.current = IdleThread
    BY <2>1 DEF ZeroCpu
  <2>5. RingOK(World, Extra)
    BY <1>6, <2>1, <2>2, <2>3, <2>4, FS_EmptySet, WorldOf DEF RingOK, Chain
  <2>6. Alive(World, isBsp)
    BY <1>3, <1>5, <1>8, <2>1, <2>4, WorldOf, ConstantsAre DEF Alive
  <2> QED BY <1>1, <1>6, <2>1, <2>4, <2>5, <2>6, ConstantsAre DEF CfsInv
<1> QED BY <1>7, <1>8

LEMMA StepSmp == ASSUME CfsAssumption, CfsInv, SchedulerInitPerCpu PROVE CfsInv'
<1> DEFINE w == [World EXCEPT !.cpu.current = BootThread]
           v == RqAddLocked(w, BootThread)
<1>1. /\ phase = "smp" /\ phase' = "wipe" /\ isBsp' = isBsp /\ ticked' = ticked /\ Become(v)
  BY DEF SchedulerInitPerCpu
<1>2. ~Started /\ Booting(World, phase) /\ World \in Worlds /\ isBsp /\ ticked = FALSE
  BY <1>1 DEF CfsInv, Started
<1>3. cpu = ZeroCpu(NoTask) /\ task[BootThread] = ZeroTask
  BY <1>1, <1>2, WorldOf DEF Booting
<1>4. /\ \A t \in CfsTask \ {BootThread} :
           ~task[t].onRq /\ task[t].state = IF t = IdleThread THEN "READY" ELSE "NEW"
  BY <1>2, WorldOf DEF Booting
<1>5. w = [cpu |-> [cpu EXCEPT !.current = BootThread], task |-> task]
  BY DEF World
<1>6. [cpu EXCEPT !.current = BootThread] = ZeroCpu(BootThread) /\ ZeroCpu(BootThread) \in CpuRec
  BY <1>3, ConstantsAre DEF ZeroCpu, CpuRec
<1>7. w \in Worlds /\ w.cpu = ZeroCpu(BootThread) /\ w.task = task
  BY <1>2, <1>5, <1>6, WorldIs, WorldOf DEF Worlds
<1> HIDE DEF w, v
<1>8. v \in Worlds /\ Added(w, v, BootThread)
  <2>1. ~w.task[BootThread].onRq
    BY <1>3, <1>7 DEF ZeroTask
  <2> QED BY <1>7, <2>1, AddIs, ConstantsAre DEF v
<1>9. World' = v
  BY <1>1, <1>8, BecomeWorld
<1>10. BootOnly(v)
  <2>1. w.cpu.count = 0 /\ w.cpu.load = 0 /\ w.cpu.current = BootThread /\ w.task[BootThread].weight = 0
    BY <1>3, <1>7 DEF ZeroCpu, ZeroTask
  <2> QED BY <1>8, <2>1 DEF Added, BootOnly
<1>11. \A t \in CfsTask \ {BootThread} :
           ~v.task[t].onRq /\ v.task[t].state = IF t = IdleThread THEN "READY" ELSE "NEW"
  BY <1>4, <1>7, <1>8 DEF Added
<1>12. Booting(World', phase')
  BY <1>1, <1>9, <1>10, <1>11 DEF Booting
<1>13. cpu'.current \in CfsTask
  BY <1>1, <1>10, ConstantsAre DEF Become, BootOnly
<1>14. ~(ticked' \/ ~isBsp')
  BY <1>1, <1>2
<1> QED BY <1>1, <1>2, <1>8, <1>9, <1>12, <1>13, <1>14 DEF CfsInv, Started

LEMMA StepWipe == ASSUME CfsAssumption, CfsInv, SchedulerInit PROVE CfsInv'
<1> DEFINE r == [ZeroTask EXCEPT !.next = BootThread, !.weight = Nice0Weight]
<1>1. /\ phase = "wipe" /\ phase' = "pcache" /\ isBsp' = isBsp /\ ticked' = ticked /\ cpu' = cpu
      /\ task' = [task EXCEPT ![BootThread] = r]
  BY DEF SchedulerInit
<1>2. ~Started /\ Booting(World, phase) /\ World \in Worlds /\ isBsp /\ ticked = FALSE /\ cpu.current \in CfsTask
  BY <1>1 DEF CfsInv, Started
<1>3. BootOnly(World) /\ \A t \in CfsTask \ {BootThread} :
           ~task[t].onRq /\ task[t].state = IF t = IdleThread THEN "READY" ELSE "NEW"
  BY <1>1, <1>2, WorldOf DEF Booting
<1>4. r \in TaskRec /\ r.state = "RUNNING" /\ ~r.onRq /\ r.next = BootThread
  <2>1. 0 \in 0..VMax /\ Nice0Weight \in Nat /\ BootThread \in CfsTask /\ "RUNNING" \in States
    BY ConstantsAre DEF States
  <2>2. ZeroTask \in TaskRec /\ ZeroTask.state = "RUNNING" /\ ~ZeroTask.onRq
    BY <2>1 DEF ZeroTask, TaskRec
  <2>3. \A z \in TaskRec, x \in CfsTask, n \in Nat :
          LET y == [z EXCEPT !.next = x, !.weight = n]
          IN  y \in TaskRec /\ y.state = z.state /\ y.onRq = z.onRq /\ y.next = x
    BY DEF TaskRec
  <2> HIDE DEF r
  <2>4. LET y == [ZeroTask EXCEPT !.next = BootThread, !.weight = Nice0Weight]
        IN  y \in TaskRec /\ y.state = ZeroTask.state /\ y.onRq = ZeroTask.onRq /\ y.next = BootThread
    BY <2>1, <2>2, <2>3
  <2>5. r \in TaskRec /\ r.state = ZeroTask.state /\ r.onRq = ZeroTask.onRq /\ r.next = BootThread
    BY <2>4 DEF r
  <2> QED BY <2>2, <2>5
<1> HIDE DEF r
<1>5. task \in [CfsTask -> TaskRec] /\ cpu \in CpuRec
  BY <1>2, WorldIs, WorldOf
<1>6. task' \in [CfsTask -> TaskRec] /\ task'[BootThread] = r /\ \A t \in CfsTask \ {BootThread} : task'[t] = task[t]
  BY <1>1, <1>4, <1>5, ConstantsAre
<1>7. World' \in Worlds /\ World'.cpu = cpu /\ World'.task = task'
  BY <1>1, <1>5, <1>6 DEF World, Worlds
<1>8. BootOnly(World')
  BY <1>3, <1>7, WorldOf DEF BootOnly
<1>9. Booting(World', phase')
  <2>1. \A t \in CfsTask \ {BootThread} :
           ~task'[t].onRq /\ task'[t].state = IF t = IdleThread THEN "READY" ELSE "NEW"
    BY <1>3, <1>6
  <2>2. task'[BootThread].state = "RUNNING" /\ ~task'[BootThread].onRq /\ task'[BootThread].next = BootThread
    BY <1>4, <1>6
  <2> QED BY <1>1, <1>7, <1>8, <2>1, <2>2 DEF Booting
<1>10. ~(ticked' \/ ~isBsp')
  BY <1>1, <1>2
<1> QED BY <1>1, <1>2, <1>7, <1>9, <1>10 DEF CfsInv, Started

LEMMA StepPCache == ASSUME CfsAssumption, ~WbHere, CfsInv, PCacheInit PROVE CfsInv'
<1>1. /\ phase = "pcache" /\ phase' = "run" /\ isBsp' = isBsp /\ ticked' = ticked /\ cpu' = cpu /\ task' = task
  BY DEF PCacheInit
<1>2. ~Started /\ Booting(World, phase) /\ World \in Worlds /\ isBsp /\ ticked = FALSE /\ cpu.current \in CfsTask
  BY <1>1 DEF CfsInv, Started
<1>3. World' = World
  BY <1>1 DEF World
<1>4. Booting(World', phase')
  BY <1>1, <1>2, <1>3 DEF Booting
<1>5. ~(ticked' \/ ~isBsp')
  BY <1>1, <1>2
<1> QED BY <1>1, <1>2, <1>3, <1>4, <1>5 DEF CfsInv, Started
(* A task that goes on the queue once its other fields are set.                *)
LEMMA AddStep ==
  ASSUME CfsAssumption, CfsInv, Started, NEW w1 \in Worlds, NEW t \in CfsThread,
         ~task[t].onRq, w1.cpu = cpu,
         \A u \in CfsTask : u # t => w1.task[u] = task[u],
         w1.task[t].state = "READY", ~w1.task[t].onRq,
         Become(RqAddLocked(w1, t)), isBsp' = isBsp, phase' = "run", ticked' = ticked
  PROVE  CfsInv' /\ cpu'.current = cpu.current
<1> DEFINE v == RqAddLocked(w1, t)
<1>1. /\ RingOK(World, Extra) /\ Alive(World, isBsp) /\ cpu.current \in CfsTask /\ ticked \in BOOLEAN /\ Extra \in Nat
      /\ World.cpu = cpu /\ World.task = task
  BY WorldOf DEF CfsInv, Started, Extra
<1>2. t \in CfsTask /\ t \in Threads /\ t # IdleThread
  BY ConstantsAre
<1>3. \A u \in CfsTask : w1.task[u].onRq = task[u].onRq
  <2>1. task[t].onRq \in BOOLEAN /\ w1.task[t].onRq \in BOOLEAN
    BY <1>1, <1>2, WorldIs DEF RingOK
  <2> QED BY <2>1
<1>4. RingOK(w1, Extra)
  <2>1. \A u \in Flagged(World) : w1.task[u].next = World.task[u].next /\ w1.task[u].weight = World.task[u].weight
    <3>1. \A u \in Flagged(World) : u \in CfsTask /\ u # t
      BY <1>1 DEF Flagged
    <3> QED BY <1>1, <3>1
  <2> QED BY <1>1, <1>3, <2>1, RingSame
<1>5. v \in Worlds /\ Added(w1, v, t) /\ RingOK(v, Extra)
  BY <1>1, <1>2, <1>4, AddIs, AddRing
<1> HIDE DEF v
<1>6. \A u \in CfsTask : /\ v.task[u].state = IF u = t THEN "READY" ELSE task[u].state
                         /\ v.task[u].onRq <=> (u = t \/ task[u].onRq)
  BY <1>3, <1>5 DEF Added
<1>7. v.cpu.current = cpu.current
  BY <1>5 DEF Added
<1>8. Alive(v, isBsp)
  BY <1>1, <1>6, <1>7, ConstantsAre DEF Alive
<1>9. (ticked' \/ ~isBsp) /\ Become(v)
  BY DEF Started, v
<1>10. CfsInv'
  BY <1>1, <1>5, <1>7, <1>8, <1>9, StartedStep
<1> QED BY <1>7, <1>9, <1>10 DEF Become

LEMMA StepCreate == ASSUME CfsAssumption, CfsInv, NEW t \in CfsThread, CfsTaskCreate(t)
  PROVE  CfsInv' /\ cpu'.current = cpu.current
<1> DEFINE w1 == [World EXCEPT !.task[t] = FreshTask]
<1>1. /\ phase = "run" /\ isBsp' = isBsp /\ phase' = "run" /\ ticked' = ticked /\ task[t].state = "NEW"
      /\ Become(RqAddLocked(w1, t)) /\ Started
  BY DEF CfsTaskCreate, Started, CfsInv
<1>2. World \in Worlds /\ World.cpu = cpu /\ World.task = task /\ Alive(World, isBsp)
  BY <1>1, WorldOf DEF CfsInv
<1>3. t \in CfsTask
  BY ConstantsAre
<1>4. ~task[t].onRq
  BY <1>1, <1>2, <1>3 DEF Alive
<1>5. FreshTask \in TaskRec /\ FreshTask.state = "READY" /\ ~FreshTask.onRq
  <2>1. 0 \in 0..VMax /\ Nice0Weight \in Nat /\ "RUNNING" \in States /\ "READY" \in States
    BY ConstantsAre DEF States
  <2>2. ZeroTask \in TaskRec /\ ~ZeroTask.onRq
    BY <2>1 DEF ZeroTask, TaskRec
  <2>3. \A z \in TaskRec, s \in States, n \in Nat :
          LET y == [z EXCEPT !.state = s, !.weight = n]
          IN  y \in TaskRec /\ y.state = s /\ y.onRq = z.onRq
    BY DEF TaskRec
  <2>4. LET y == [ZeroTask EXCEPT !.state = "READY", !.weight = Nice0Weight]
        IN  y \in TaskRec /\ y.state = "READY" /\ y.onRq = ZeroTask.onRq
    BY <2>1, <2>2, <2>3
  <2>5. FreshTask \in TaskRec /\ FreshTask.state = "READY" /\ FreshTask.onRq = ZeroTask.onRq
    BY <2>4 DEF FreshTask
  <2> QED BY <2>2, <2>5
<1>6. w1 = [cpu |-> cpu, task |-> [task EXCEPT ![t] = FreshTask]]
  BY DEF World
<1>7. cpu \in CpuRec /\ task \in [CfsTask -> TaskRec]
  BY <1>2, WorldIs
<1>8. [task EXCEPT ![t] = FreshTask] \in [CfsTask -> TaskRec]
  BY <1>3, <1>5, <1>7
<1>9. w1 \in Worlds /\ w1.cpu = cpu /\ w1.task = [task EXCEPT ![t] = FreshTask]
  BY <1>6, <1>7, <1>8 DEF Worlds
<1>10. w1.task[t] = FreshTask /\ \A u \in CfsTask : u # t => w1.task[u] = task[u]
  BY <1>3, <1>7, <1>9
<1> HIDE DEF w1
<1> QED BY <1>1, <1>4, <1>5, <1>9, <1>10, AddStep

LEMMA StepWakeup == ASSUME CfsAssumption, CfsInv, NEW t \in CfsThread, CfsTaskWakeup(t)
  PROVE  CfsInv' /\ cpu'.current = cpu.current
<1> DEFINE w1 == [World EXCEPT !.task[t].state = "READY"]
<1>1. /\ isBsp' = isBsp /\ phase' = "run" /\ ticked' = ticked /\ task[t].state = "BLOCKED"
      /\ Become(RqAddLocked(w1, t))
  BY DEF CfsTaskWakeup
<1>2. t \in CfsTask /\ t # BootThread /\ t # IdleThread
  BY ConstantsAre
<1>3. Started
  BY <1>1, <1>2, WorldOf DEF CfsInv, Booting
<1>4. World \in Worlds /\ World.cpu = cpu /\ World.task = task /\ Alive(World, isBsp)
  BY <1>3, WorldOf DEF CfsInv
<1>5. ~task[t].onRq
  BY <1>1, <1>2, <1>4 DEF Alive
<1>6. Restated(World, w1, t, "READY")
  BY <1>2, <1>4, StateIs DEF States
<1>7. w1 = [cpu |-> cpu, task |-> [task EXCEPT ![t].state = "READY"]]
  BY DEF World
<1>8. w1 \in Worlds /\ w1.cpu = cpu /\ w1.task[t].state = "READY" /\ ~w1.task[t].onRq
  BY <1>2, <1>4, <1>5, <1>6 DEF Restated
<1>9. \A u \in CfsTask : u # t => w1.task[u] = task[u]
  BY <1>4, <1>7, WorldIs
<1> HIDE DEF w1
<1> QED BY <1>1, <1>3, <1>5, <1>8, <1>9, AddStep

(* A current task that stops being ready leaves the queue, if it was on it.    *)
LEMMA LeaveStep ==
  ASSUME CfsAssumption, CfsInv, NEW t \in CfsThread, Executing(t), NEW s \in {"BLOCKED", "ZOMBIE"},
         Become(RqDelLocked([World EXCEPT !.task[t].state = s], t)),
         isBsp' = isBsp, phase' = phase, ticked' = ticked
  PROVE  CfsInv' /\ cpu'.current = cpu.current
<1> DEFINE w1 == [World EXCEPT !.task[t].state = s]
           v == RqDelLocked(w1, t)
<1>1. cpu.current = t /\ phase = "run"
  BY DEF Executing
<1>2. t \in CfsTask /\ t \in Threads /\ t # BootThread /\ t # IdleThread
  BY ConstantsAre
<1>3. Started
  BY <1>1, <1>2, WorldOf DEF CfsInv, Booting, BootOnly
<1>4. /\ RingOK(World, Extra) /\ Alive(World, isBsp) /\ World.cpu = cpu /\ World.task = task /\ World \in Worlds
      /\ Extra \in Nat /\ ticked \in BOOLEAN
  BY <1>3, WorldOf DEF CfsInv, Extra
<1>5. Restated(World, w1, t, s)
  BY <1>2, <1>4, StateIs DEF States
<1>6. RingOK(w1, Extra)
  BY <1>4, <1>5, StateRing
<1>7. w1.cpu = cpu /\ \A u \in CfsTask : /\ w1.task[u].state = IF u = t THEN s ELSE task[u].state
                                         /\ w1.task[u].onRq = task[u].onRq
  BY <1>4, <1>5 DEF Restated
<1> HIDE DEF w1, v
<1>8. /\ RingOK(v, Extra) /\ v.cpu.current = t
      /\ \A u \in CfsTask : /\ v.task[u].state = IF u = t THEN s ELSE task[u].state
                            /\ v.task[u].onRq <=> (u # t /\ task[u].onRq)
  <2>1. CASE w1.task[t].onRq
    <3>1. RingOK(v, Extra) /\ Deleted(w1, v, t)
      BY <1>2, <1>4, <1>6, <2>1, DelIs DEF v
    <3> QED BY <1>1, <1>7, <3>1 DEF Deleted
  <2>2. CASE ~w1.task[t].onRq
    <3>1. v = w1
      BY <2>2 DEF v, RqDelLocked
    <3>2. \A u \in CfsTask : task[u].onRq \in BOOLEAN
      BY <1>4, WorldIs
    <3> QED BY <1>1, <1>2, <1>6, <1>7, <2>2, <3>1, <3>2
  <2> QED BY <2>1, <2>2
<1>9. Alive(v, isBsp)
  <2>1. \A u \in CfsTask : v.task[u].onRq => v.task[u].state \in {"READY", "RUNNING"}
    BY <1>4, <1>8 DEF Alive
  <2>2. \A u \in Threads : v.task[u].state = "READY" => v.task[u].onRq
    BY <1>4, <1>8, ConstantsAre DEF Alive
  <2>3. \A u \in Threads : v.task[u].state = "RUNNING" => u = v.cpu.current \/ (u = BootThread /\ ~isBsp)
    BY <1>1, <1>4, <1>8, ConstantsAre DEF Alive
  <2> QED BY <2>1, <2>2, <2>3 DEF Alive
<1>10. Become(v) /\ phase' = "run" /\ (ticked' \/ ~isBsp) /\ ticked' \in BOOLEAN
  BY <1>1, <1>3, <1>4 DEF Started, v, w1
<1>11. CfsInv'
  BY <1>2, <1>8, <1>9, <1>10, StartedStep
<1> QED BY <1>1, <1>8, <1>10, <1>11 DEF Become

LEMMA StepBlock == ASSUME CfsAssumption, CfsInv, NEW t \in CfsThread, CfsTaskBlock(t)
  PROVE  CfsInv' /\ cpu'.current = cpu.current
BY LeaveStep DEF CfsTaskBlock

LEMMA StepExit == ASSUME CfsAssumption, CfsInv, NEW t \in CfsThread, CfsTaskExit(t)
  PROVE  CfsInv' /\ cpu'.current = cpu.current
BY LeaveStep DEF CfsTaskExit
LEMMA StepNice ==
  ASSUME CfsAssumption, CfsInv, NEW t \in CfsTask, NEW n \in Weights, TaskSetNice(t, n)
  PROVE  CfsInv'
<1>1. /\ phase = "run" /\ t # IdleThread /\ isBsp' = isBsp /\ phase' = "run" /\ ticked' = ticked
      /\ cpu' = IF task[t].onRq THEN [cpu EXCEPT !.load = Reweighed(@, task[t].weight, n)] ELSE cpu
      /\ task' = [task EXCEPT ![t].weight = n]
  BY DEF TaskSetNice, InTaskRing
<1>2. n \in Nat
  BY ConstantsAre
<1>3. World \in Worlds /\ World.cpu = cpu /\ World.task = task /\ cpu.current \in CfsTask /\ ticked \in BOOLEAN /\ isBsp \in BOOLEAN
  BY <1>1, WorldOf DEF CfsInv
<1>4. /\ cpu \in CpuRec /\ task \in [CfsTask -> TaskRec] /\ cpu.load \in Nat
      /\ \A u \in CfsTask : task[u] \in TaskRec /\ task[u].weight \in Nat
  BY <1>3, WorldIs
<1>5. \A r \in TaskRec : LET q == [r EXCEPT !.weight = n]
                         IN  /\ q \in TaskRec /\ q.state = r.state /\ q.next = r.next
                             /\ q.onRq = r.onRq /\ q.weight = n /\ q.vr = r.vr
  BY <1>2 DEF TaskRec
<1>6. \A u \in CfsTask : task'[u] = IF u = t THEN [task[u] EXCEPT !.weight = n] ELSE task[u]
  BY <1>1, <1>4
<1>7. \A u \in CfsTask : /\ task'[u] \in TaskRec /\ task'[u].state = task[u].state /\ task'[u].next = task[u].next
                         /\ task'[u].onRq = task[u].onRq /\ task'[u].vr = task[u].vr
                         /\ task'[u].weight = IF u = t THEN n ELSE task[u].weight
  <2> TAKE u \in CfsTask
  <2>1. CASE u = t
    <3>1. task'[u] = [task[u] EXCEPT !.weight = n] /\ task[u] \in TaskRec
      BY <1>4, <1>6, <2>1
    <3>2. /\ task'[u] \in TaskRec /\ task'[u].state = task[u].state /\ task'[u].next = task[u].next
          /\ task'[u].onRq = task[u].onRq /\ task'[u].vr = task[u].vr /\ task'[u].weight = n
      BY <1>5, <3>1
    <3> QED BY <2>1, <3>2
  <2>2. CASE u # t
    <3>1. task'[u] = task[u] /\ task[u] \in TaskRec
      BY <1>4, <1>6, <2>2
    <3> QED BY <2>2, <3>1
  <2> QED BY <2>1, <2>2
<1>8. task' \in [CfsTask -> TaskRec]
  <2>1. task' = [u \in CfsTask |-> task'[u]]
    BY <1>1, <1>4
  <2> QED BY <1>7, <2>1
<1>9. \A l \in Nat : LET c == [cpu EXCEPT !.load = l]
                     IN  /\ c \in CpuRec /\ c.queue = cpu.queue /\ c.count = cpu.count /\ c.load = l
                         /\ c.current = cpu.current
  BY <1>4 DEF CpuRec
<1>10. Reweighed(cpu.load, task[t].weight, n) \in Nat
  BY <1>2, <1>4 DEF Reweighed
<1>11. /\ cpu' \in CpuRec /\ cpu'.queue = cpu.queue /\ cpu'.count = cpu.count /\ cpu'.current = cpu.current
       /\ cpu'.load = IF task[t].onRq THEN Reweighed(cpu.load, task[t].weight, n) ELSE cpu.load
  <2>1. CASE task[t].onRq
    BY <1>1, <1>9, <1>10, <2>1
  <2>2. CASE ~task[t].onRq
    BY <1>1, <1>4, <2>2
  <2> QED BY <2>1, <2>2
<1> DEFINE v == [cpu |-> cpu', task |-> task']
<1>12. v \in Worlds /\ v.cpu = cpu' /\ v.task = task' /\ World' = v
  BY <1>8, <1>11 DEF Worlds, World
<1> HIDE DEF v
<1>13. CASE Started
  <2>1. RingOK(World, Extra) /\ Alive(World, isBsp) /\ Extra \in Nat
    BY <1>13 DEF CfsInv, Extra
  <2>2. Chain(Flagged(World), cpu.queue, NextIn(World)) /\ cpu.count = Cardinality(Flagged(World)) + Extra
    BY <1>3, <2>1 DEF RingOK
  <2>3. cpu.load = Cardinality(Units(task, Flagged(World)))
    BY <1>3, <2>1 DEF RingOK
  <2>4. Flagged(v) = Flagged(World)
    BY <1>3, <1>7, <1>12 DEF Flagged
  <2>5. NextIn(v) = NextIn(World)
    BY <1>3, <1>7, <1>12 DEF NextIn
  <2>6. cpu'.load = Cardinality(Units(task', Flagged(World)))
    <3> DEFINE F == Flagged(World)
    <3>1. F \subseteq CfsTask /\ Weighed(task) /\ Weighed(task')
      BY <1>2, <1>4, <1>7 DEF Flagged, Weighed
    <3>2. t \in F <=> task[t].onRq
      BY <1>3 DEF Flagged
    <3> HIDE DEF F
    <3>3. Units(task', F \ {t}) = Units(task, F \ {t})
      <4>1. \A u \in F \ {t} : task'[u].weight = task[u].weight
        BY <1>7, <3>1
      <4> QED BY <4>1, UnitsSame
    <3>4. CASE t \in F
      <4>1. Cardinality(Units(task, F)) = Cardinality(Units(task, F \ {t})) + task[t].weight
        BY <3>1, <3>4, UnitsDel
      <4>2. Cardinality(Units(task', F)) = Cardinality(Units(task', F \ {t})) + n
        BY <1>7, <3>1, <3>4, UnitsDel
      <4>3. Cardinality(Units(task, F \ {t})) \in Nat
        BY <3>1, UnitsFinite
      <4>4. cpu'.load = Reweighed(cpu.load, task[t].weight, n)
        BY <1>11, <3>2, <3>4
      <4>5. cpu.load >= task[t].weight /\ cpu.load - task[t].weight = Cardinality(Units(task, F \ {t}))
        BY <1>4, <2>3, <4>1, <4>3 DEF F
      <4> QED BY <3>3, <4>2, <4>4, <4>5 DEF Reweighed, F
    <3>5. CASE t \notin F
      <4>1. F \ {t} = F
        BY <3>5
      <4>2. cpu'.load = cpu.load
        BY <1>11, <3>2, <3>5
      <4> QED BY <2>3, <3>3, <4>1, <4>2 DEF F
    <3> QED BY <3>4, <3>5
  <2>7. RingOK(v, Extra)
    BY <1>11, <1>12, <2>2, <2>4, <2>5, <2>6 DEF RingOK
  <2>8. Alive(v, isBsp)
    <3>1. \A u \in CfsTask : v.task[u].state = task[u].state /\ v.task[u].onRq = task[u].onRq
      BY <1>7, <1>12
    <3> QED BY <1>3, <1>11, <1>12, <2>1, <3>1, ConstantsAre DEF Alive
  <2>9. Become(v) /\ v.cpu.current \in CfsTask
    BY <1>3, <1>11, <1>12 DEF Become
  <2>10. ticked' \in BOOLEAN /\ (ticked' \/ ~isBsp)
    BY <1>1, <1>3, <1>13 DEF Started
  <2> QED BY <1>1, <2>7, <2>8, <2>9, <2>10, StartedStep
<1>14. CASE ~Started
  <2>1. Booting(World, phase)
    BY <1>14 DEF CfsInv
  <2>2. /\ BootOnly(World) /\ task[BootThread].state = "RUNNING" /\ ~task[BootThread].onRq
        /\ task[BootThread].next = BootThread
        /\ \A u \in CfsTask \ {BootThread} : ~task[u].onRq /\ task[u].state = IF u = IdleThread THEN "READY" ELSE "NEW"
    BY <1>1, <1>3, <2>1 DEF Booting
  <2>3. ~task[t].onRq /\ cpu' = cpu
    BY <1>1, <2>2
  <2>4. BootOnly(v)
    BY <1>3, <1>12, <2>2, <2>3 DEF BootOnly
  <2>5. \A u \in CfsTask : v.task[u].state = task[u].state /\ v.task[u].onRq = task[u].onRq /\ v.task[u].next = task[u].next
    BY <1>7, <1>12
  <2>6. Booting(v, "run")
    BY <2>2, <2>4, <2>5, ConstantsAre DEF Booting
  <2>7. ~(ticked' \/ ~isBsp')
    BY <1>1, <1>14 DEF Started
  <2> QED BY <1>1, <1>3, <1>11, <1>12, <2>6, <2>7 DEF CfsInv, Started
<1> QED BY <1>13, <1>14

(* A timer interrupt keeps the ring, and picks the least virtual runtime.      *)
LEMMA StepTick ==
  ASSUME CfsAssumption, CfsInv, NEW d \in 0..MaxDelta, Tick(d)
  PROVE  /\ CfsInv'
         /\ \A t \in CfsTask : (task'[t].state = "READY" /\ task'[t].onRq) =>
                               task'[t].vr >= task'[cpu'.current].vr
<1> DEFINE q == Requeue(World)
           c == Account(q, d)
           v == SwitchTo(c)
<1>1. phase = "run" /\ Become(v) /\ ticked' = TRUE /\ isBsp' = isBsp /\ phase' = phase
  BY DEF Tick
<1>2. RingOK(q, Extra) /\ Requeued(q, isBsp) /\ q.cpu.current = cpu.current
  BY <1>1, RequeueIs
<1>3. cpu.current \in CfsTask /\ Extra \in Nat /\ d \in Nat /\ q \in Worlds
  <2>1. 0..MaxDelta \subseteq Nat
    BY ConstantsAre
  <2> QED BY <1>1, <1>2, <2>1 DEF CfsInv, Extra, RingOK
<1> HIDE DEF q
<1>4. Charged(q, c)
  BY <1>2, <1>3, AccountIs
<1> HIDE DEF c
<1>5. RingOK(c, Extra)
  BY <1>2, <1>4, ChargedRing
<1>6. Requeued(c, isBsp)
  BY <1>2, <1>4, ConstantsAre DEF Charged, Requeued
<1>7. /\ RingOK(v, Extra) /\ Alive(v, isBsp) /\ v.cpu.current \in CfsTask
      /\ \A t \in CfsTask : (v.task[t].state = "READY" /\ v.task[t].onRq) =>
                                   v.task[t].vr >= v.task[v.cpu.current].vr
  BY <1>3, <1>5, <1>6, SwitchIs
<1> HIDE DEF v
<1>8. CfsInv'
  BY <1>1, <1>7, StartedStep
<1>9. task' = v.task /\ cpu' = v.cpu
  BY <1>1 DEF Become
<1> QED BY <1>7, <1>8, <1>9
LEMMA CfsInductive ==
  ASSUME CfsAssumption, ~WbHere, CfsInv, [CfsNext]_cfsVars
  PROVE  CfsInv'
<1>1. CASE SchedulerInitPerCpu
  BY <1>1, StepSmp
<1>2. CASE SchedulerInit
  BY <1>2, StepWipe
<1>3. CASE PCacheInit
  BY <1>3, StepPCache
<1>4. ASSUME NEW t \in CfsThread, CfsTaskCreate(t) PROVE CfsInv'
  BY <1>4, StepCreate
<1>5. ASSUME NEW t \in CfsThread, CfsTaskBlock(t) PROVE CfsInv'
  BY <1>5, StepBlock
<1>6. ASSUME NEW t \in CfsThread, CfsTaskExit(t) PROVE CfsInv'
  BY <1>6, StepExit
<1>7. ASSUME NEW t \in CfsThread, CfsTaskWakeup(t) PROVE CfsInv'
  BY <1>7, StepWakeup
<1>8. ASSUME NEW t \in CfsTask, NEW n \in Weights, TaskSetNice(t, n) PROVE CfsInv'
  BY <1>8, StepNice
<1>9. ASSUME NEW d \in 0..MaxDelta, Tick(d) PROVE CfsInv'
  BY <1>9, StepTick
<1>10. CASE UNCHANGED cfsVars
  BY <1>10 DEF cfsVars, CfsInv, World, Started, Extra
<1> QED BY <1>1, <1>2, <1>3, <1>4, <1>5, <1>6, <1>7, <1>8, <1>9, <1>10 DEF CfsNext

LEMMA InvIsSound == ASSUME CfsAssumption, CfsInv PROVE RingSound
<1>1. World \in Worlds /\ World.cpu = cpu /\ World.task = task /\ World = [cpu |-> cpu, task |-> task]
  BY WorldOf DEF CfsInv, World
<1>2. CfsTypeOK
  <2>1. cpu \in CpuRec /\ task \in [CfsTask -> TaskRec]
    BY <1>1, WorldIs
  <2> QED BY <2>1 DEF CfsInv, CfsTypeOK, CpuRec, TaskRec
<1>3. CASE ticked
  <2>1. RingOK(World, Extra) /\ Alive(World, isBsp)
    BY <1>3 DEF CfsInv, Started
  <2>2. Ring(World) = Flagged(World) /\ (Flagged(World) # {} => \E n \in 1..Size : Walk(World)[n] = World.cpu.queue)
    BY <1>1, <2>1, RingIs DEF RingOK
  <2>3. RingIsQueue
    BY <1>1, <2>2 DEF RingIsQueue, Flagged, Size
  <2>4. AccountingExact
    <3>1. SumWeight(Ring(World)) = Cardinality(Units(task, Ring(World)))
      BY DEF SumWeight, Units
    <3> QED BY <1>1, <2>1, <2>2, <3>1 DEF AccountingExact, RingOK, Extra
  <2>5. NoTaskForgotten
    <3>1. \A t \in CfsTask : task[t].onRq => t \in Ring(World)
      BY <1>1, <2>2 DEF Flagged
    <3> QED BY <1>1, <2>1, <3>1, ConstantsAre DEF NoTaskForgotten, Alive, Threads
  <2> QED BY <1>2, <2>3, <2>4, <2>5 DEF RingSound
<1>4. CASE ~ticked
  BY <1>2, <1>4 DEF RingSound, RingIsQueue, AccountingExact, NoTaskForgotten
<1> QED BY <1>3, <1>4
------------------------------------------------------------------------------
(* On a CPU that is not given the write-back thread before SchedulerInit has   *)
(* finished, the ring is sound: from the first tick on it is closed and holds  *)
(* exactly the flagged tasks, RunQueueCount and Load agree with it, every      *)
(* READY thread is on it and only the current one is RUNNING.                  *)
THEOREM RingSoundAlways == ASSUME CfsAssumption, ~WbHere PROVE CfsSpec => []RingSound
<1>1. CfsInit => CfsInv
  BY InitIs
<1>2. CfsInv /\ [CfsNext]_cfsVars => CfsInv'
  BY CfsInductive
<1>3. CfsInv => RingSound
  BY InvIsSound
<1> QED BY <1>1, <1>2, <1>3, PTL DEF CfsSpec

(* After a tick that switches tasks no READY task left on the queue has run    *)
(* less than the one chosen, whatever the walk along the ring met first.       *)
THEOREM TickPicksLeastAlways == ASSUME CfsAssumption, ~WbHere PROVE CfsSpec => TickPicksLeast
<1>1. CfsInit => CfsInv
  BY InitIs
<1>2. CfsInv /\ [CfsNext]_cfsVars => CfsInv'
  BY CfsInductive
<1> DEFINE PicksLeast == ticked' /\ cpu'.current # cpu.current =>
                      \A t \in CfsTask : (task'[t].state = "READY" /\ task'[t].onRq) =>
                                         task'[t].vr >= task'[cpu'.current].vr
<1>3. ASSUME CfsInv, [CfsNext]_cfsVars PROVE [PicksLeast]_cfsVars
  <2>1. CASE SchedulerInitPerCpu \/ SchedulerInit \/ PCacheInit
    <3>1. ticked' = ticked /\ phase # "run"
      BY <2>1 DEF SchedulerInitPerCpu, SchedulerInit, PCacheInit
    <3>2. ~ticked
      BY <1>3, <3>1 DEF CfsInv, Started
    <3> QED BY <3>1, <3>2
  <2>2. ASSUME NEW t \in CfsThread,
               CfsTaskCreate(t) \/ CfsTaskBlock(t) \/ CfsTaskExit(t) \/ CfsTaskWakeup(t)
        PROVE  PicksLeast
    BY <1>3, <2>2, StepCreate, StepBlock, StepExit, StepWakeup
  <2>3. ASSUME NEW t \in CfsTask, NEW n \in Weights, TaskSetNice(t, n) PROVE PicksLeast
    <3>1. cpu \in CpuRec
      BY <1>3, WorldIs, WorldOf DEF CfsInv
    <3>2. \A l : [cpu EXCEPT !.load = l].current = cpu.current
      BY <3>1 DEF CpuRec
    <3> QED BY <2>3, <3>2 DEF TaskSetNice
  <2>4. ASSUME NEW d \in 0..MaxDelta, Tick(d) PROVE PicksLeast
    BY <1>3, <2>4, StepTick
  <2> QED BY <1>3, <2>1, <2>2, <2>3, <2>4 DEF CfsNext
<1> QED BY <1>1, <1>2, <1>3, PTL DEF CfsSpec, TickPicksLeast
=============================================================================

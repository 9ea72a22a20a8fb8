----------------------------- MODULE ProofBasics -----------------------------
(* What the proofs of several modules need of numbers, functions and lists.    *)
EXTENDS Filters, Integers, Sequences, TLAPS, WellFoundedInduction, FiniteSetTheorems

(* A set of numbers that is not empty has a least member. *)
LEMMA Least ==
  ASSUME NEW T \in SUBSET Nat, T # {}
  PROVE  \E n \in T : \A m \in T : n <= m
<1>1. \E n \in T : \A m \in T : ~(<<m, n>> \in OpToRel(<, Nat))
  BY NatLessThanWellFounded, WFMin
<1>2. \A m, n \in T : ~(<<m, n>> \in OpToRel(<, Nat)) => n <= m
  BY DEF OpToRel
<1> QED BY <1>1, <1>2

(* What is true of zero, and of each number's successor with the number.       *)
LEMMA Counting ==
  ASSUME NEW P \in SUBSET Nat, 0 \in P, \A n \in P : n + 1 \in P
  PROVE  P = Nat
<1> SUFFICES ASSUME P # Nat PROVE FALSE
  OBVIOUS
<1>1. PICK n \in Nat \ P : \A m \in Nat \ P : n <= m
  <2>1. Nat \ P # {} /\ Nat \ P \in SUBSET Nat
    OBVIOUS
  <2> QED BY <2>1, Least
<1>2. n # 0 /\ n - 1 \in P
  BY <1>1
<1> QED BY <1>1, <1>2

Steps(g, x, f, n) == f[0] = x /\ \A i \in 0..(n - 1) : f[i + 1] = g[f[i]]

(* Iterating a function from a starting point makes one sequence. *)
Within(g, S) == g \in [S -> S]
Iterated(f, g, x, S) == f \in [Nat -> S] /\ f[0] = x /\ \A n \in Nat : f[n + 1] = g[f[n]]

LEMMA Iterates ==
  ASSUME NEW S, NEW g, NEW x, Within(g, S), x \in S
  PROVE  \E f : Iterated(f, g, x, S)
<1> USE DEF Within, Iterated
<1> DEFINE Prefix(n) == {f \in [0..n -> S] : Steps(g, x, f, n)}
           P == {n \in Nat : Prefix(n) # {}}
           Q == {n \in Nat : \A m \in Nat : n <= m => \A f \in Prefix(n), h \in Prefix(m) : f[n] = h[n]}
<1>1. P = Nat
  <2>1. 0 \in P
    <3>1. [i \in 0..0 |-> x] \in Prefix(0)
      BY DEF Steps
    <3> QED BY <3>1
  <2>2. ASSUME NEW n \in P PROVE n + 1 \in P
    <3>1. PICK f \in [0..n -> S] : Steps(g, x, f, n)
      BY <2>2
    <3> DEFINE h == [i \in 0..(n + 1) |-> IF i <= n THEN f[i] ELSE g[f[n]]]
    <3>2. n \in Nat /\ f[n] \in S /\ h \in [0..(n + 1) -> S]
      BY <2>2
    <3>3. h[0] = x
      BY <3>1, <3>2 DEF Steps
    <3>4. ASSUME NEW i \in 0..n PROVE h[i + 1] = g[h[i]]
      <4>1. CASE i = n
        BY <3>2, <4>1
      <4>2. CASE i # n
        BY <3>1, <3>2, <4>2 DEF Steps
      <4> QED BY <4>1, <4>2
    <3> HIDE DEF h
    <3>5. Steps(g, x, h, n + 1)
      BY <3>2, <3>3, <3>4 DEF Steps
    <3> QED BY <3>2, <3>5
  <2> HIDE DEF P
  <2> QED BY <2>1, <2>2, Counting DEF P
<1>2. Q = Nat
  <2>1. 0 \in Q
    BY DEF Steps
  <2>2. ASSUME NEW n \in Q PROVE n + 1 \in Q
    <3> SUFFICES ASSUME NEW m \in Nat, n + 1 <= m, NEW f \in Prefix(n + 1), NEW h \in Prefix(m)
                 PROVE  f[n + 1] = h[n + 1]
      BY <2>2
    <3> DEFINE k == [i \in 0..n |-> f[i]]
    <3>1. n \in Nat /\ n <= m /\ k \in [0..n -> S]
      BY <2>2
    <3>2. Steps(g, x, k, n)
      BY <3>1 DEF Steps
    <3>3. k[n] = h[n]
      BY <2>2, <3>1, <3>2
    <3>4. f[n] = h[n]
      BY <3>1, <3>3
    <3> QED BY <3>1, <3>4 DEF Steps
  <2> HIDE DEF Q
  <2> QED BY <2>1, <2>2, Counting DEF Q
<1> DEFINE F == [n \in Nat |-> (CHOOSE f \in Prefix(n) : TRUE)[n]]
<1>3. \A n \in Nat : (CHOOSE f \in Prefix(n) : TRUE) \in Prefix(n)
  BY <1>1
<1>4. F \in [Nat -> S]
  BY <1>3
<1>5. F[0] = x
  BY <1>3 DEF Steps
<1>6. ASSUME NEW n \in Nat PROVE F[n + 1] = g[F[n]]
  <2>1. PICK f \in Prefix(n), h \in Prefix(n + 1) : F[n] = f[n] /\ F[n + 1] = h[n + 1]
    <3>1. n + 1 \in Nat
      OBVIOUS
    <3> DEFINE f == CHOOSE f \in Prefix(n) : TRUE
               h == CHOOSE u \in Prefix(n + 1) : TRUE
    <3>2. f \in Prefix(n) /\ h \in Prefix(n + 1) /\ F[n] = f[n] /\ F[n + 1] = h[n + 1]
      BY <1>3, <3>1
    <3> HIDE DEF f, h, Prefix, F
    <3> QED BY <3>2
  <2>2. f[n] = h[n]
    <3> HIDE DEF Prefix
    <3>1. n \in Q /\ n + 1 \in Nat /\ n <= n + 1
      BY <1>2
    <3>2. \A m \in Nat : n <= m => \A u \in Prefix(n), v \in Prefix(m) : u[n] = v[n]
      BY <3>1
    <3> HIDE DEF Q
    <3>3. \A u \in Prefix(n), v \in Prefix(n + 1) : u[n] = v[n]
      BY <3>1, <3>2
    <3> QED BY <3>3
  <2>3. h[n + 1] = g[h[n]]
    BY DEF Steps
  <2> QED BY <2>1, <2>2, <2>3
<1> QED BY <1>4, <1>5, <1>6
------------------------------------------------------------------------------
(* k is what S keeps of the first n entries of q: h gives each of its places   *)
(* the place in q it comes from.                                               *)
Picked(q, S, n, k, h) ==
  /\ h \in [1..Len(k) -> 1..n]
  /\ \A j \in 1..Len(k) : k[j] = q[h[j]] /\ q[h[j]] \in S
  /\ \A i, j \in 1..Len(k) : i < j => h[i] < h[j]
  /\ \A i \in 1..n : q[i] \in S => \E j \in 1..Len(k) : h[j] = i

LEMMA PickedNext ==
  ASSUME NEW T, NEW S, NEW q \in Seq(T), NEW n \in Nat, n + 1 <= Len(q),
         NEW k \in Seq(T), NEW h, Picked(q, S, n, k, h)
  PROVE  LET m == IF q[n + 1] \in S THEN Append(k, q[n + 1]) ELSE k
         IN  m \in Seq(T) /\ \E g : Picked(q, S, n + 1, m, g)
<1>1. n + 1 \in 1..Len(q) /\ q[n + 1] \in T /\ Len(k) \in Nat
  OBVIOUS
<1>2. /\ h \in [1..Len(k) -> 1..n]
      /\ \A j \in 1..Len(k) : k[j] = q[h[j]] /\ q[h[j]] \in S
      /\ \A i, j \in 1..Len(k) : i < j => h[i] < h[j]
      /\ \A i \in 1..n : q[i] \in S => \E j \in 1..Len(k) : h[j] = i
  BY DEF Picked
<1>3. CASE q[n + 1] \in S
  <2> DEFINE m == Append(k, q[n + 1])
             g == [j \in 1..(Len(k) + 1) |-> IF j = Len(k) + 1 THEN n + 1 ELSE h[j]]
  <2>1. /\ m \in Seq(T) /\ Len(m) = Len(k) + 1 /\ m[Len(k) + 1] = q[n + 1]
        /\ \A j \in 1..Len(k) : m[j] = k[j]
    BY <1>1
  <2>2. g[Len(k) + 1] = n + 1 /\ \A j \in 1..Len(k) : g[j] = h[j] /\ h[j] \in 1..n
    BY <1>1, <1>2
  <2>3. \A j \in 1..(Len(k) + 1) : j = Len(k) + 1 \/ j \in 1..Len(k)
    BY <1>1
  <2>4. g \in [1..(Len(k) + 1) -> 1..(n + 1)]
    BY <1>1, <1>2
  <2> HIDE DEF g, m
  <2>5. \A j \in 1..Len(m) : m[j] = q[g[j]] /\ q[g[j]] \in S
    BY <1>2, <1>3, <2>1, <2>2, <2>3
  <2>6. ASSUME NEW i \in 1..Len(m), NEW j \in 1..Len(m), i < j PROVE g[i] < g[j]
    <3>1. i \in 1..Len(k) /\ g[i] = h[i] /\ h[i] \in 1..n
      BY <1>1, <2>1, <2>2, <2>6
    <3>2. CASE j = Len(k) + 1
      BY <2>2, <3>1, <3>2
    <3>3. CASE j \in 1..Len(k)
      BY <1>2, <2>2, <2>6, <3>1, <3>3
    <3> QED BY <2>1, <2>3, <3>2, <3>3
  <2>7. ASSUME NEW i \in 1..(n + 1), q[i] \in S PROVE \E j \in 1..Len(m) : g[j] = i
    <3>1. CASE i = n + 1
      <4>1. Len(k) + 1 \in 1..Len(m)
        BY <1>1, <2>1
      <4> QED BY <2>2, <3>1, <4>1
    <3>2. CASE i # n + 1
      <4>1. i \in 1..n
        BY <3>2
      <4>2. PICK j \in 1..Len(k) : h[j] = i
        BY <1>2, <2>7, <4>1
      <4>3. j \in 1..Len(m) /\ g[j] = i
        BY <1>1, <2>1, <2>2, <4>2
      <4> QED BY <4>3
    <3> QED BY <3>1, <3>2
  <2>8. Picked(q, S, n + 1, m, g)
    BY <2>1, <2>4, <2>5, <2>6, <2>7 DEF Picked
  <2> QED BY <1>3, <2>1, <2>8 DEF m
<1>4. CASE q[n + 1] \notin S
  <2>1. h \in [1..Len(k) -> 1..(n + 1)]
    BY <1>2
  <2>2. \A i \in 1..(n + 1) : q[i] \in S => i \in 1..n
    BY <1>4
  <2>3. Picked(q, S, n + 1, k, h)
    BY <1>2, <2>1, <2>2 DEF Picked
  <2> QED BY <1>4, <2>3
<1> QED BY <1>3, <1>4

LEMMA KeptIs ==
  ASSUME NEW T, NEW S, NEW q \in Seq(T)
  PROVE  Kept(q, S) \in Seq(T) /\ \E h : Picked(q, S, Len(q), Kept(q, S), h)
<1> DEFINE N == Len(q)
           C == Nat \X Seq(T)
           none == <<>>
           More(n, s) == IF n <= N /\ q[n] \in S THEN Append(s, q[n]) ELSE s
           Goes(p) == <<p[1] + 1, More(p[1] + 1, p[2])>>
           g == [p \in C |-> Goes(p)]
           Is(f) == f = [i \in 0..N |-> IF i = 0 THEN none
                                        ELSE IF q[i] \in S THEN Append(f[i - 1], q[i]) ELSE f[i - 1]]
<1>1. N \in Nat /\ none \in Seq(T)
  OBVIOUS
<1>2. \A p \in C : Goes(p) \in C
  <2> TAKE p \in C
  <2>1. p[1] \in Nat /\ p[2] \in Seq(T)
    OBVIOUS
  <2>2. More(p[1] + 1, p[2]) \in Seq(T)
    BY <2>1
  <2>3. p[1] + 1 \in Nat
    BY <2>1
  <2> HIDE DEF More
  <2> QED BY <2>2, <2>3
<1>3. <<0, none>> \in C
  <2> HIDE DEF none
  <2> QED BY <1>1
<1> HIDE DEF N, none
<1>4. PICK f : Iterated(f, g, <<0, none>>, C)
  <2>1. Within(g, C)
    BY <1>2 DEF Within
  <2> HIDE DEF g, C
  <2> QED BY <1>3, <2>1, Iterates
<1>5. f \in [Nat -> C] /\ f[0] = <<0, none>> /\ \A n \in Nat : f[n + 1] = Goes(f[n])
  BY <1>4 DEF Iterated
<1>6. \A n \in Nat : f[n][1] = n /\ f[n][2] \in Seq(T)
  <2> DEFINE P == {n \in Nat : f[n][1] = n}
  <2>1. 0 \in P
    BY <1>5
  <2>2. ASSUME NEW n \in P PROVE n + 1 \in P
    <3>1. f[n + 1] = Goes(f[n]) /\ f[n][1] = n /\ n \in Nat
      BY <1>5
    <3>2. Goes(f[n])[1] = n + 1
      BY <3>1
    <3> QED BY <3>1, <3>2
  <2>3. P = Nat
    <3> HIDE DEF P
    <3> QED BY <2>1, <2>2, Counting DEF P
  <2>4. \A n \in Nat : f[n] \in C
    BY <1>5
  <2> QED BY <2>3, <2>4
<1> DEFINE h == [i \in 0..N |-> f[i][2]]
<1>7. h[0] = none
  BY <1>1, <1>5
<1>8. \A i \in 0..N : i # 0 => h[i] = IF q[i] \in S THEN Append(h[i - 1], q[i]) ELSE h[i - 1]
  <2> SUFFICES ASSUME NEW i \in 0..N, i # 0
               PROVE  h[i] = IF q[i] \in S THEN Append(h[i - 1], q[i]) ELSE h[i - 1]
    OBVIOUS
  <2>1. i - 1 \in Nat /\ i - 1 \in 0..N /\ (i - 1) + 1 = i /\ i <= N
    BY <1>1
  <2>2. f[i] = Goes(f[i - 1]) /\ f[i - 1][1] = i - 1
    BY <1>5, <1>6, <2>1
  <2>3. Goes(f[i - 1])[2] = IF q[i] \in S THEN Append(f[i - 1][2], q[i]) ELSE f[i - 1][2]
    BY <2>1, <2>2
  <2> QED BY <2>1, <2>2, <2>3
<1>9. Is(h)
  BY <1>7, <1>8
<1> DEFINE k == CHOOSE u : Is(u)
<1>10. Kept(q, S) = k[N]
  BY DEF Kept, N, none
<1>11. Is(k)
  <2> HIDE DEF Is, h
  <2> QED BY <1>9
<1> HIDE DEF h, k
<1>12. k[0] = none /\ \A i \in 1..N : k[i] = IF q[i] \in S THEN Append(k[i - 1], q[i]) ELSE k[i - 1]
  <2>1. \A i \in 0..N : k[i] = IF i = 0 THEN none
                                ELSE IF q[i] \in S THEN Append(k[i - 1], q[i]) ELSE k[i - 1]
    BY <1>11, Zenon
  <2> QED BY <1>1, <2>1
<1> DEFINE P == {n \in Nat : n <= N => k[n] \in Seq(T) /\ \E u : Picked(q, S, n, k[n], u)}
<1>13. 0 \in P
  <2> DEFINE e == [j \in 1..0 |-> 0]
  <2>1. Len(none) = 0 /\ e \in [1..0 -> 1..0]
    BY DEF none
  <2>2. Picked(q, S, 0, none, e)
    BY <2>1 DEF Picked
  <2> HIDE DEF e
  <2> QED BY <1>1, <1>12, <2>2
<1>14. ASSUME NEW n \in P PROVE n + 1 \in P
  <2> SUFFICES ASSUME n + 1 <= N
               PROVE  k[n + 1] \in Seq(T) /\ \E u : Picked(q, S, n + 1, k[n + 1], u)
    OBVIOUS
  <2>1. n \in Nat /\ n <= N /\ n + 1 \in 1..N /\ (n + 1) - 1 = n
    BY <1>1
  <2>2. k[n] \in Seq(T)
    BY <2>1
  <2>3. PICK u : Picked(q, S, n, k[n], u)
    BY <2>1
  <2>4. k[n + 1] = IF q[n + 1] \in S THEN Append(k[n], q[n + 1]) ELSE k[n]
    BY <1>12, <2>1
  <2> QED BY <2>1, <2>2, <2>3, <2>4, PickedNext DEF N
<1>15. P = Nat
  <2> HIDE DEF P
  <2> QED BY <1>13, <1>14, Counting DEF P
<1> QED BY <1>1, <1>10, <1>15 DEF N

LEMMA PickedLength ==
  ASSUME NEW S, NEW n \in Nat, NEW q, NEW T, NEW k \in Seq(T), NEW h, Picked(q, S, n, k, h)
  PROVE  Len(k) <= n /\ \A j \in 1..Len(k) : j <= h[j]
<1> DEFINE P == {j \in Nat : j \in 1..Len(k) => j <= h[j]}
<1>1. Len(k) \in Nat /\ h \in [1..Len(k) -> 1..n] /\ \A i, j \in 1..Len(k) : i < j => h[i] < h[j]
  BY DEF Picked
<1>2. 0 \in P
  OBVIOUS
<1>3. ASSUME NEW j \in P PROVE j + 1 \in P
  <2> SUFFICES ASSUME j + 1 \in 1..Len(k) PROVE j + 1 <= h[j + 1]
    OBVIOUS
  <2>1. CASE j = 0
    BY <1>1, <2>1
  <2>2. CASE j # 0
    <3>1. j \in 1..Len(k) /\ j < j + 1
      BY <1>1, <2>2
    <3>2. j <= h[j] /\ h[j] < h[j + 1] /\ h[j] \in 1..n /\ h[j + 1] \in 1..n
      BY <1>1, <3>1
    <3> QED BY <3>1, <3>2
  <2> QED BY <2>1, <2>2
<1>4. P = Nat
  <2> HIDE DEF P
  <2> QED BY <1>2, <1>3, Counting DEF P
<1>5. \A j \in 1..Len(k) : j <= h[j]
  BY <1>4
<1>6. CASE Len(k) # 0
  <2>1. Len(k) \in 1..Len(k)
    BY <1>1, <1>6
  <2>2. Len(k) <= h[Len(k)] /\ h[Len(k)] \in 1..n
    BY <1>1, <1>5, <2>1
  <2> QED BY <1>1, <1>5, <2>2
<1>7. CASE Len(k) = 0
  BY <1>5, <1>7
<1> QED BY <1>6, <1>7

(* What is kept of a list: its entries in S, each as often as in the list.     *)
LEMMA KeptMembers ==
  ASSUME NEW T, NEW S, NEW q \in Seq(T)
  PROVE  Kept(q, S) \in Seq(T) /\ Len(Kept(q, S)) <= Len(q) /\ Members(Kept(q, S)) = Members(q) \cap S
<1>1. PICK h : Picked(q, S, Len(q), Kept(q, S), h)
  BY KeptIs
<1> DEFINE k == Kept(q, S)
<1>2. k \in Seq(T) /\ Len(q) \in Nat
  BY KeptIs
<1> HIDE DEF k
<1>3. /\ h \in [1..Len(k) -> 1..Len(q)]
      /\ \A j \in 1..Len(k) : k[j] = q[h[j]] /\ q[h[j]] \in S
      /\ \A i \in 1..Len(q) : q[i] \in S => \E j \in 1..Len(k) : h[j] = i
  BY <1>1 DEF Picked, k
<1>4. Len(k) <= Len(q)
  BY <1>1, <1>2, PickedLength DEF k
<1>5. DOMAIN k = 1..Len(k) /\ DOMAIN q = 1..Len(q)
  BY <1>2
<1>6. ASSUME NEW x \in Members(k) PROVE x \in Members(q) \cap S
  BY <1>3, <1>5, <1>6 DEF Members
<1>7. ASSUME NEW x \in Members(q), x \in S PROVE x \in Members(k)
  <2>1. PICK i \in 1..Len(q) : q[i] = x
    BY <1>5, <1>7 DEF Members
  <2>2. PICK j \in 1..Len(k) : h[j] = i
    BY <1>3, <1>7, <2>1
  <2> QED BY <1>3, <1>5, <2>1, <2>2 DEF Members
<1> QED BY <1>2, <1>4, <1>6, <1>7 DEF k

(* One that keeps all stays as it is.                                          *)
LEMMA KeptAll ==
  ASSUME NEW T, NEW S, NEW q \in Seq(T), Members(q) \subseteq S
  PROVE  Kept(q, S) = q
<1>1. PICK h : Picked(q, S, Len(q), Kept(q, S), h)
  BY KeptIs
<1> DEFINE k == Kept(q, S)
<1>2. k \in Seq(T) /\ Len(q) \in Nat /\ Len(k) \in Nat
  BY KeptIs
<1> HIDE DEF k
<1>3. /\ h \in [1..Len(k) -> 1..Len(q)]
      /\ \A j \in 1..Len(k) : k[j] = q[h[j]]
      /\ \A i, j \in 1..Len(k) : i < j => h[i] < h[j]
      /\ \A i \in 1..Len(q) : q[i] \in S => \E j \in 1..Len(k) : h[j] = i
  BY <1>1 DEF Picked, k
<1>4. Len(k) <= Len(q) /\ \A j \in 1..Len(k) : j <= h[j]
  BY <1>1, <1>2, PickedLength DEF k
<1>5. \A i \in 1..Len(q) : q[i] \in S
  BY DEF Members
<1> DEFINE P == {n \in Nat : \A i \in 1..n : i <= Len(q) => i \in 1..Len(k) /\ h[i] = i}
<1>6. 0 \in P
  OBVIOUS
<1>7. ASSUME NEW n \in P PROVE n + 1 \in P
  <2> SUFFICES ASSUME n + 1 <= Len(q) PROVE n + 1 \in 1..Len(k) /\ h[n + 1] = n + 1
    OBVIOUS
  <2>1. n + 1 \in 1..Len(q) /\ \A i \in 1..n : i \in 1..Len(k) /\ h[i] = i
    BY <1>2
  <2>2. PICK j \in 1..Len(k) : h[j] = n + 1
    BY <1>3, <1>5, <2>1
  <2>3. ~(j <= n)
    BY <2>1, <2>2
  <2>4. n + 1 \in 1..Len(k) /\ n + 1 <= h[n + 1]
    BY <1>2, <1>4, <2>3
  <2>5. ~(n + 1 < j)
    <3>1. h[n + 1] \in 1..Len(q) /\ (n + 1 < j => h[n + 1] < h[j])
      BY <1>3, <2>4
    <3> QED BY <2>2, <2>4, <3>1
  <2> QED BY <2>2, <2>3, <2>4, <2>5
<1>8. P = Nat
  <2> HIDE DEF P
  <2> QED BY <1>6, <1>7, Counting DEF P
<1>9. \A i \in 1..Len(q) : i \in 1..Len(k) /\ h[i] = i
  BY <1>2, <1>8
<1>10. Len(k) = Len(q)
  BY <1>2, <1>4, <1>9
<1>11. \A i \in 1..Len(q) : k[i] = q[i]
  BY <1>3, <1>9
<1>12. k = q
  BY <1>2, <1>10, <1>11
<1> QED BY <1>12 DEF k

Once(q) == \A i, j \in 1..Len(q) : q[i] = q[j] => i = j

LEMMA KeptOnce ==
  ASSUME NEW T, NEW S, NEW q \in Seq(T), Once(q)
  PROVE  Once(Kept(q, S))
<1>1. PICK h : Picked(q, S, Len(q), Kept(q, S), h)
  BY KeptIs
<1> DEFINE k == Kept(q, S)
<1>2. k \in Seq(T) /\ Len(k) \in Nat /\ Len(q) \in Nat
  BY KeptIs
<1> HIDE DEF k
<1>3. /\ h \in [1..Len(k) -> 1..Len(q)]
      /\ \A j \in 1..Len(k) : k[j] = q[h[j]]
      /\ \A i, j \in 1..Len(k) : i < j => h[i] < h[j]
  BY <1>1 DEF Picked, k
<1>4. ASSUME NEW i \in 1..Len(k), NEW j \in 1..Len(k), k[i] = k[j] PROVE i = j
  <2>1. h[i] = h[j] /\ h[i] \in 1..Len(q)
    BY <1>3, <1>4 DEF Once
  <2> QED BY <1>2, <1>3, <2>1
<1> QED BY <1>4 DEF Once, k
(* A list without repetitions is as long as it has members.                    *)
LEMMA OnceSize ==
  ASSUME NEW T, NEW q \in Seq(T), Once(q)
  PROVE  IsFiniteSet(Members(q)) /\ Cardinality(Members(q)) = Len(q)
<1>1. Len(q) \in Nat /\ DOMAIN q = 1..Len(q)
  OBVIOUS
<1>2. q \in Bijection(1..Len(q), Members(q))
  <2>1. q \in [1..Len(q) -> Members(q)]
    BY <1>1 DEF Members
  <2>2. \A i, j \in 1..Len(q) : q[i] = q[j] => i = j
    BY DEF Once
  <2>3. \A x \in Members(q) : \E i \in 1..Len(q) : q[i] = x
    BY <1>1 DEF Members
  <2> QED BY <2>1, <2>2, <2>3 DEF Bijection, Injection, Surjection, IsInjective
<1>3. IsFiniteSet(1..Len(q)) /\ Cardinality(1..Len(q)) = Len(q)
  BY <1>1, FS_Interval
<1>4. ExistsBijection(1..Len(q), Members(q))
  BY <1>2 DEF ExistsBijection
<1> QED BY <1>3, <1>4, FS_Bijection
LEMMA AppendMembers ==
  ASSUME NEW T, NEW q \in Seq(T), NEW x \in T
  PROVE  /\ Append(q, x) \in Seq(T) /\ Len(Append(q, x)) = Len(q) + 1
         /\ Members(Append(q, x)) = Members(q) \cup {x}
         /\ Once(q) /\ x \notin Members(q) => Once(Append(q, x))
<1> DEFINE r == Append(q, x)
<1>1. /\ r \in Seq(T) /\ Len(r) = Len(q) + 1 /\ Len(q) \in Nat
      /\ r[Len(q) + 1] = x /\ \A i \in 1..Len(q) : r[i] = q[i]
  OBVIOUS
<1>2. DOMAIN r = 1..(Len(q) + 1) /\ DOMAIN q = 1..Len(q)
  OBVIOUS
<1> HIDE DEF r
<1>3. \A i \in 1..(Len(q) + 1) : i = Len(q) + 1 \/ i \in 1..Len(q)
  BY <1>1
<1>4. Len(q) + 1 \in 1..(Len(q) + 1) /\ \A i \in 1..Len(q) : i \in 1..(Len(q) + 1)
  BY <1>1
<1>5. Members(r) = Members(q) \cup {x}
  <2>1. ASSUME NEW y \in Members(r) PROVE y \in Members(q) \cup {x}
    <3>1. PICK i \in 1..(Len(q) + 1) : r[i] = y
      BY <1>2, <2>1 DEF Members
    <3> QED BY <1>1, <1>2, <1>3, <3>1 DEF Members
  <2>2. ASSUME NEW y \in Members(q) PROVE y \in Members(r)
    <3>1. PICK i \in 1..Len(q) : q[i] = y
      BY <1>2, <2>2 DEF Members
    <3> QED BY <1>1, <1>2, <1>4, <3>1 DEF Members
  <2>3. x \in Members(r)
    BY <1>1, <1>2, <1>4 DEF Members
  <2> QED BY <2>1, <2>2, <2>3
<1>6. ASSUME Once(q), x \notin Members(q) PROVE Once(r)
  <2>1. \A i \in 1..Len(q) : q[i] # x
    BY <1>2, <1>6 DEF Members
  <2>2. ASSUME NEW i \in 1..Len(r), NEW j \in 1..Len(r), r[i] = r[j] PROVE i = j
    BY <1>1, <1>3, <1>6, <2>1, <2>2 DEF Once
  <2> QED BY <2>2 DEF Once
<1> QED BY <1>1, <1>5, <1>6 DEF r
=============================================================================

--------------------------- MODULE PageCacheProofs ---------------------------
(* The page cache, for any disk and cache: its lists, flags and counters agree *)
(* however threads interleave; and, with one thread, it is the disk that       *)
(* BlockStore describes.                                                       *)
EXTENDS PageCache, ProofBasics, FiniteSetTheorems

(* The hypothesis on who works at once.  A flush, or the write-back thread,    *)
(* sets the reference count of the page it wrote to zero (MarkClean, KeepDirty) *)
(* even when another thread has got the page meanwhile, which a second user    *)
(* may then evict.  So: several users, or one beside flushes and write-back.   *)
OneByOne == \A s \in Setups : (s.flush \/ s.wb) => \A u, v \in s.users : u = v
------------------------------------------------------------------------------
(* What the variables are. *)
Owning == {"fill", "insert", "evict", "put", "clean", "keep"}
Holding == {"copy", "mark", "release"}
Looping == {"scan", "put", "clean", "keep", "scanned"}
Asking == {"lookup", "room", "victim", "evict", "alloc"}
Pcs == Owning \cup Holding \cup Looping \cup Asking \cup {"idle", "direct", "finish"}

Contents == {[s \in {} |-> NoData]} \cup UNION {[InPage(l) -> Data] : l \in Lba}
PageRec == [life : {"free", "private", "cached", "evicted"}, lba : Lba, ref : Nat,
            dirty : BOOLEAN, wb : BOOLEAN, data : Contents]
LocRec == [pc : Pcs, op : {"read", "write", "done", "failed"}, cur : 0..Sectors,
           end : 0..Sectors, val : Data \cup {NoData}, page : Buf \cup {NoBuf}, tries : Nat,
           next : Buf \cup {NoBuf}, pass : {0, 1}, flushed : Nat]

Types == /\ setup \in Setups /\ disk \in [Lba -> Data]
         /\ page \in [Buf -> PageRec] /\ loc \in [Thread -> LocRec]

(* A page that is free, or not in the hash yet, is nobody's and clean. *)
PagesOK == \A b \in Buf : page[b].life \in {"free", "private"} =>
             page[b].ref = 0 /\ ~page[b].dirty /\ ~page[b].wb

(* A block has one page. *)
Blocks == \A a, b \in Buf : (page[a].life = "cached" /\ page[b].life = "cached" /\ a # b)
                              => page[a].lba # page[b].lba

(* The lists are the pages they should be, once each. *)
Lists(q, S) == q \in Seq(Buf) /\ IsInjective(q) /\ Range(q) = S
Cached == {b \in Buf : page[b].life = "cached"}
Dirty == {b \in Cached : page[b].dirty}
LruOK == Lists(lru, Cached) /\ pageCount = Len(lru)
DirtiesOK == Lists(dirties, Dirty) /\ dirtyCount = Len(dirties)

(* What a thread's place in the code says of the page it has in its hands.     *)
OK(t, r, st, pg) ==
  /\ r.pc # "idle" => t = Wb \/ t \in st.users
  /\ t = Wb => r.pc \in Looping \cup {"idle"}
  /\ t = Wb /\ r.pc # "idle" => st.wb
  /\ r.pc \in Looping => st.wb \/ st.flush
  /\ r.pc \in Asking => r.cur < r.end
  /\ r.op \in {"read", "write"} <=> r.pc \notin Looping \cup {"idle"}
  /\ r.op = "write" => r.val \in Data
  /\ r.pc \in Owning \cup Holding => r.page \in Buf
  /\ r.pc \in {"fill", "insert"} => pg[r.page].life = "private"
  /\ r.pc = "evict" => pg[r.page].life = "evicted"
  /\ r.pc \in {"put", "clean", "keep"} =>
       pg[r.page].life = "cached" /\ pg[r.page].dirty /\ pg[r.page].wb
  /\ r.pc \in Holding => pg[r.page].life = "cached"
LocalsOK == \A t \in Thread : OK(t, loc[t], setup, page)

(* Two threads never work on one page outside the lock. *)
Apart == \A t, v \in Thread : (t # v /\ loc[t].pc \in Owning /\ loc[v].pc \in Owning)
           => loc[t].page # loc[v].page

(* The threads that got a page and did not release it are counted. *)
Users(b) == {u \in User : loc[u].pc \in Holding /\ loc[u].page = b}
Counted == ~setup.flush /\ ~setup.wb => \A b \in Cached : page[b].ref = Cardinality(Users(b))

CacheInv == /\ Types /\ PagesOK /\ Blocks /\ LruOK /\ DirtiesOK /\ LocalsOK /\ Apart /\ Counted
------------------------------------------------------------------------------
(* Sequences without repetition. *)
LEMMA Joined ==
  ASSUME NEW A, NEW x \in Seq(A), NEW y \in Seq(A)
  PROVE  /\ x \o y \in Seq(A) /\ Len(x \o y) = Len(x) + Len(y)
         /\ \A i \in 1..Len(x \o y) : (x \o y)[i] = IF i <= Len(x) THEN x[i] ELSE y[i - Len(x)]
OBVIOUS

LEMMA WithoutIs ==
  ASSUME NEW q \in Seq(Buf), IsInjective(q), NEW k \in 1..Len(q)
  PROVE  Without(q, q[k]) = SubSeq(q, 1, k - 1) \o SubSeq(q, k + 1, Len(q))
<1> DEFINE I == {i \in 1..Len(q) : q[i] = q[k]}
<1>1. I = {k}
  BY DEF IsInjective
<1>2. SelectInSeq(q, LAMBDA v : v = q[k]) = k
  BY <1>1 DEF SelectInSeq, Min
<1> QED BY <1>2 DEF Without, RemoveFirst, RemoveAt

LEMMA Removed ==
  ASSUME NEW q, NEW S, Lists(q, S), NEW b \in S
  PROVE  Lists(Without(q, b), S \ {b}) /\ Len(Without(q, b)) = Len(q) - 1 /\ Len(q) \in Nat
<1> USE DEF Lists
<1>1. PICK k \in 1..Len(q) : q[k] = b
  BY DEF Range
<1> DEFINE w == Without(q, b)
<1>2. w = SubSeq(q, 1, k - 1) \o SubSeq(q, k + 1, Len(q))
  BY <1>1, WithoutIs
<1>3. /\ w \in Seq(Buf) /\ Len(w) = Len(q) - 1
      /\ \A i \in 1..Len(w) : w[i] = IF i < k THEN q[i] ELSE q[i + 1]
  <2> DEFINE x == SubSeq(q, 1, k - 1)
             y == SubSeq(q, k + 1, Len(q))
  <2>1. x \in Seq(Buf) /\ Len(x) = k - 1 /\ \A i \in 1..Len(x) : x[i] = q[i]
    OBVIOUS
  <2>2. y \in Seq(Buf) /\ Len(y) = Len(q) - k /\ \A i \in 1..Len(y) : y[i] = q[i + k]
    <3>1. Len(q) \in Nat /\ k \in 1..Len(q) /\ \A i \in 1..Len(q) : q[i] \in Buf
      OBVIOUS
    <3>2. Len(y) = Len(q) - k
      BY <3>1
    <3>3. \A i \in 1..Len(q) - k : y[i] = q[i + k]
      BY <3>1
    <3>4. y \in Seq(Buf)
      OBVIOUS
    <3> QED BY <3>2, <3>3, <3>4, Zenon
  <2>3. w = x \o y
    BY <1>2
  <2> HIDE DEF w, x, y
  <2>4. /\ w \in Seq(Buf) /\ Len(w) = Len(x) + Len(y)
        /\ \A i \in 1..Len(w) : w[i] = IF i <= Len(x) THEN x[i] ELSE y[i - Len(x)]
    BY <2>1, <2>2, <2>3, Joined
  <2>5. ASSUME NEW i \in 1..Len(w) PROVE w[i] = IF i < k THEN q[i] ELSE q[i + 1]
    <3>1. CASE i < k
      BY <2>1, <2>2, <2>3, <2>4, <3>1
    <3>2. CASE i >= k
      <4>1. i - (k - 1) \in 1..Len(y)
        BY <2>1, <2>2, <2>4, <3>2
      <4>2. w[i] = y[i - (k - 1)]
        BY <2>1, <2>4, <3>2
      <4>3. y[i - (k - 1)] = q[i - (k - 1) + k]
        BY <4>1, <2>2
      <4>4. i - (k - 1) + k = i + 1
        OBVIOUS
      <4> QED BY <4>2, <4>3, <4>4, <3>2
    <3> QED BY <3>1, <3>2
  <2>6. Len(w) = Len(q) - 1
    <3>1. Len(w) = Len(x) + Len(y) /\ Len(x) = k - 1 /\ Len(y) = Len(q) - k
      BY <2>1, <2>2, <2>4, Zenon
    <3>2. Len(q) \in Nat /\ k \in Nat
      OBVIOUS
    <3> QED BY <3>1, <3>2
  <2> QED BY <2>4, <2>5, <2>6, Zenon
<1> HIDE DEF w
<1>4. IsInjective(w)
  <2>1. DOMAIN w = 1..Len(w)
    BY <1>3
  <2> SUFFICES ASSUME NEW i \in 1..Len(w), NEW j \in 1..Len(w), w[i] = w[j] PROVE i = j
    BY <2>1, Zenon DEF IsInjective
  <2>2. \A m, n \in 1..Len(q) : q[m] = q[n] => m = n
    BY DEF IsInjective
  <2>3. w[i] = IF i < k THEN q[i] ELSE q[i + 1]
    BY <1>3
  <2>4. w[j] = IF j < k THEN q[j] ELSE q[j + 1]
    BY <1>3
  <2>5. Len(w) = Len(q) - 1 /\ Len(q) \in Nat
    BY <1>3
  <2>6. CASE i < k /\ j < k
    <3>1. i \in 1..Len(q)
      BY <2>6, <2>5
    <3>2. j \in 1..Len(q)
      BY <2>6, <2>5
    <3>3. q[i] = q[j]
      BY <2>3, <2>4, <2>6
    <3>4. i = j
      BY <3>1, <3>2, <3>3, <2>2
    <3> QED BY <3>4, <2>6
  <2>7. CASE i >= k /\ j >= k
    <3>1. i + 1 \in 1..Len(q)
      BY <2>7, <2>5
    <3>2. j + 1 \in 1..Len(q)
      BY <2>7, <2>5
    <3>3. q[i + 1] = q[j + 1]
      <4>1. w[i] = q[i + 1]
        BY <2>3, <2>7
      <4>2. w[j] = q[j + 1]
        BY <2>4, <2>7
      <4> QED BY <4>1, <4>2
    <3>4. i + 1 = j + 1
      BY <3>1, <3>2, <3>3, <2>2
    <3> QED BY <3>4, <2>7
  <2>8. CASE i < k /\ j >= k
    <3>1. i \in 1..Len(q)
      BY <2>8, <2>5
    <3>2. j + 1 \in 1..Len(q)
      BY <2>8, <2>5
    <3>3. q[i] = q[j + 1]
      <4>1. w[i] = q[i]
        BY <2>3, <2>8
      <4>2. w[j] = q[j + 1]
        BY <2>4, <2>8
      <4> QED BY <4>1, <4>2
    <3>4. i = j + 1
      BY <3>1, <3>2, <3>3, <2>2
    <3> QED BY <3>4, <2>8
  <2>9. CASE i >= k /\ j < k
    <3>1. i + 1 \in 1..Len(q)
      BY <2>9, <2>5
    <3>2. j \in 1..Len(q)
      BY <2>9, <2>5
    <3>3. q[i + 1] = q[j]
      <4>1. w[i] = q[i + 1]
        BY <2>3, <2>9
      <4>2. w[j] = q[j]
        BY <2>4, <2>9
      <4> QED BY <4>1, <4>2
    <3>4. i + 1 = j
      BY <3>1, <3>2, <3>3, <2>2
    <3> QED BY <3>4, <2>9
  <2> QED BY <2>6, <2>7, <2>8, <2>9
<1>5. Range(w) = S \ {b}
  <2>1. ASSUME NEW x \in Range(w) PROVE x \in S \ {b}
    <3>1. PICK i \in 1..Len(w) : x = w[i]
      BY <1>3, <2>1 DEF Range
    <3>2. PICK j \in 1..Len(q) : x = q[j] /\ j # k
      BY <1>3, <3>1
    <3>3. q[j] # q[k]
      BY <3>2 DEF IsInjective
    <3> QED BY <1>1, <3>2, <3>3 DEF Range
  <2>2. ASSUME NEW x \in S \ {b} PROVE x \in Range(w)
    <3>1. PICK j \in 1..Len(q) : x = q[j] /\ j # k
      BY <1>1, <2>2 DEF Range
    <3>2. \E i \in 1..Len(w) : w[i] = x
      <4>1. CASE j < k
        BY <4>1, <3>1, <1>3
      <4>2. CASE j > k
        <5>1. j - 1 \in 1..Len(w) /\ ~(j - 1 < k) /\ (j - 1) + 1 = j
          BY <4>2, <1>3
        <5> QED BY <5>1, <3>1, <1>3
      <4> QED BY <4>1, <4>2, <3>1
    <3> QED BY <1>3, <3>2 DEF Range
  <2> QED BY <2>1, <2>2
<1> QED BY <1>3, <1>4, <1>5 DEF w

LEMMA Absent ==
  ASSUME NEW q, NEW S, Lists(q, S), NEW b, b \notin S
  PROVE  Without(q, b) = q
BY DEF Lists, Without, RemoveFirst, Range

LEMMA Added ==
  ASSUME NEW q, NEW S, Lists(q, S), NEW b \in Buf \ S
  PROVE  Lists(<<b>> \o q, S \cup {b}) /\ Len(<<b>> \o q) = Len(q) + 1 /\ Len(q) \in Nat
<1> USE DEF Lists
<1> DEFINE w == <<b>> \o q
<1>1. /\ w \in Seq(Buf) /\ Len(w) = Len(q) + 1 /\ Len(q) \in Nat
      /\ \A i \in 1..Len(w) : w[i] = IF i = 1 THEN b ELSE q[i - 1]
  OBVIOUS
<1> HIDE DEF w
<1>2. \A i \in 1..Len(q) : q[i] # b
  BY DEF Range
<1>3. IsInjective(w)
  <2>1. DOMAIN w = 1..Len(w)
    BY <1>1
  <2> SUFFICES ASSUME NEW i \in 1..Len(w), NEW j \in 1..Len(w), w[i] = w[j] PROVE i = j
    BY <2>1, Zenon DEF IsInjective
  <2>2. \A m, n \in 1..Len(q) : q[m] = q[n] => m = n
    BY DEF IsInjective
  <2>3. CASE i = 1 \/ j = 1
    <3>1. ASSUME NEW m \in 1..Len(w), m # 1 PROVE w[m] # b
      <4>1. m - 1 \in 1..Len(q)
        BY <3>1, <1>1
      <4> QED BY <4>1, <3>1, <1>1, <1>2
    <3>2. w[1] = b
      BY <1>1
    <3> QED BY <2>3, <3>1, <3>2
  <2>4. CASE i # 1 /\ j # 1
    <3>1. i - 1 \in 1..Len(q)
      BY <2>4, <1>1
    <3>2. j - 1 \in 1..Len(q)
      BY <2>4, <1>1
    <3>3. q[i - 1] = q[j - 1]
      <4>1. w[i] = q[i - 1]
        BY <1>1, <2>4
      <4>2. w[j] = q[j - 1]
        BY <1>1, <2>4
      <4> QED BY <4>1, <4>2
    <3>4. i - 1 = j - 1
      BY <3>1, <3>2, <3>3, <2>2
    <3> QED BY <3>4
  <2> QED BY <2>3, <2>4
<1>4. Range(w) = S \cup {b}
  <2>1. ASSUME NEW x \in Range(w) PROVE x \in S \cup {b}
    <3>1. PICK i \in 1..Len(w) : x = w[i]
      BY <1>1, <2>1 DEF Range
    <3>2. CASE i = 1
      BY <3>1, <3>2, <1>1
    <3>3. CASE i # 1
      BY <3>1, <3>3, <1>1 DEF Range
    <3> QED BY <3>2, <3>3
  <2>2. b \in Range(w)
    BY <1>1 DEF Range
  <2>3. ASSUME NEW x \in S PROVE x \in Range(w)
    <3>1. PICK j \in 1..Len(q) : x = q[j]
      BY <2>3 DEF Range
    <3>2. j + 1 \in 1..Len(w) /\ w[j + 1] = x
      BY <1>1, <3>1
    <3> QED BY <1>1, <3>2 DEF Range
  <2> QED BY <2>1, <2>2, <2>3
<1> QED BY <1>1, <1>3, <1>4 DEF w

LEMMA Fronted ==
  ASSUME NEW q, NEW S, Lists(q, S), NEW b \in S
  PROVE  Lists(<<b>> \o Without(q, b), S) /\ Len(<<b>> \o Without(q, b)) = Len(q)
<1>1. Lists(Without(q, b), S \ {b}) /\ Len(Without(q, b)) = Len(q) - 1 /\ Len(q) \in Nat
  BY Removed
<1>2. b \in Buf
  BY DEF Lists, Range
<1>3. (S \ {b}) \cup {b} = S
  OBVIOUS
<1> DEFINE w == Without(q, b)
<1> HIDE DEF w
<1>4. Lists(w, S \ {b})
  BY <1>1 DEF w
<1>5. Lists(<<b>> \o w, (S \ {b}) \cup {b}) /\ Len(<<b>> \o w) = Len(w) + 1
  BY <1>2, <1>4, Added
<1>6. Len(w) = Len(q) - 1 /\ Len(q) \in Nat
  BY <1>1 DEF w
<1> DEFINE z == <<b>> \o w
<1> HIDE DEF z
<1>7. Lists(z, S) /\ Len(z) = Len(q)
  <2>1. Lists(z, S)
    BY <1>3, <1>5, Zenon DEF z
  <2>2. Len(z) = Len(q)
    BY <1>5, <1>6 DEF z
  <2> QED BY <2>1, <2>2
<1> QED BY <1>7 DEF w, z
------------------------------------------------------------------------------
(* What a thread has in its hands, and how many have a page.                   *)
LEMMA UsersFinite ==
  ASSUME PageCacheAssumption, NEW b
  PROVE  IsFiniteSet(Users(b)) /\ Cardinality(Users(b)) \in Nat
BY FS_Subset, FS_CardinalityType DEF PageCacheAssumption, Users

Turned(t, r) == loc' = [loc EXCEPT ![t] = r]

LEMMA UsersSame ==
  ASSUME Types, NEW t \in Thread, NEW r \in LocRec, Turned(t, r), NEW b,
         r.pc \in Holding <=> loc[t].pc \in Holding,
         r.pc \in Holding => r.page = loc[t].page
  PROVE  Users(b)' = Users(b)
<1>1. \A u \in User : loc'[u] = IF u = t THEN r ELSE loc[u]
  BY DEF Types, Turned, Thread
<1> QED BY <1>1 DEF Users

LEMMA UsersMore ==
  ASSUME PageCacheAssumption, Types, NEW u \in User, NEW r \in LocRec, Turned(u, r), NEW b,
         loc[u].pc \notin Holding, r.pc \in Holding
  PROVE  /\ b # r.page => Cardinality(Users(b)') = Cardinality(Users(b))
         /\ b = r.page => Cardinality(Users(b)') = Cardinality(Users(b)) + 1
<1>1. \A v \in User : loc'[v] = IF v = u THEN r ELSE loc[v]
  BY DEF Types, Turned, Thread
<1>2. CASE b # r.page
  <2>1. Users(b)' = Users(b)
    BY <1>1, <1>2 DEF Users
  <2> QED BY <2>1, <1>2
<1>3. CASE b = r.page
  <2>1. Users(b)' = Users(b) \cup {u}
    BY <1>1, <1>3 DEF Users
  <2>2. u \notin Users(b)
    BY DEF Users
  <2>3. Cardinality(Users(b) \cup {u}) = Cardinality(Users(b)) + 1
    BY <2>2, UsersFinite, FS_AddElement
  <2> QED BY <2>1, <2>3, <1>3
<1> QED BY <1>2, <1>3

LEMMA UsersLess ==
  ASSUME PageCacheAssumption, Types, NEW u \in User, NEW r \in LocRec, Turned(u, r), NEW b,
         loc[u].pc \in Holding, r.pc \notin Holding
  PROVE  /\ b # loc[u].page => Cardinality(Users(b)') = Cardinality(Users(b))
         /\ b = loc[u].page => /\ Cardinality(Users(b)') = Cardinality(Users(b)) - 1
                               /\ Cardinality(Users(b)) > 0
<1>1. \A v \in User : loc'[v] = IF v = u THEN r ELSE loc[v]
  BY DEF Types, Turned, Thread
<1>2. CASE b # loc[u].page
  <2>1. Users(b)' = Users(b)
    BY <1>1, <1>2 DEF Users
  <2> QED BY <2>1, <1>2
<1>3. CASE b = loc[u].page
  <2>1. Users(b)' = Users(b) \ {u}
    BY <1>1, <1>3 DEF Users
  <2>2. u \in Users(b)
    BY <1>3 DEF Users
  <2>3. Cardinality(Users(b) \ {u}) = Cardinality(Users(b)) - 1
    BY <2>2, UsersFinite, FS_RemoveElement
  <2>4. Cardinality(Users(b)) \in Nat /\ Cardinality(Users(b) \ {u}) \in Nat
    BY UsersFinite, FS_RemoveElement, FS_CardinalityType
  <2>5. Cardinality(Users(b)) > 0
    BY <2>3, <2>4
  <2> QED BY <2>1, <2>3, <2>5, <1>3
<1> QED BY <1>2, <1>3

(* A step of one thread that leaves to the others what they work on.           *)
SamePage(b) == page'[b].life = page[b].life /\ page'[b].dirty = page[b].dirty
                                            /\ page'[b].wb = page[b].wb

LEMMA Moved ==
  ASSUME Types, LocalsOK, Apart, NEW t \in Thread, NEW r \in LocRec, Turned(t, r),
         setup' = setup, disk' \in [Lba -> Data], page' \in [Buf -> PageRec],
         \A v \in Thread \ {t} : loc[v].pc \in Owning => SamePage(loc[v].page),
         \A v \in Thread \ {t} : loc[v].pc \in Holding => page'[loc[v].page].life = "cached",
         OK(t, r, setup', page'),
         r.pc \in Owning =>
           \A v \in Thread \ {t} : loc[v].pc \in Owning => loc[v].page # r.page
  PROVE  Types' /\ LocalsOK' /\ Apart'
<1>1. \A v \in Thread : loc'[v] = IF v = t THEN r ELSE loc[v]
  BY DEF Types, Turned
<1>2. Types'
  BY <1>1 DEF Types, Turned
<1>3. ASSUME NEW v \in Thread PROVE OK(v, loc'[v], setup', page')
  <2>1. CASE v = t
    BY <1>1, <2>1
  <2>2. CASE v # t
    <3>1. OK(v, loc[v], setup, page) /\ loc'[v] = loc[v]
      BY <1>1, <2>2 DEF LocalsOK
    <3>2. /\ loc[v].pc \in Owning => SamePage(loc[v].page)
          /\ loc[v].pc \in Holding => page'[loc[v].page].life = "cached"
      BY <2>2
    <3> QED BY <3>1, <3>2 DEF OK, SamePage, Owning, Holding
  <2> QED BY <2>1, <2>2
<1>4. Apart'
  BY <1>1 DEF Apart
<1> QED BY <1>2, <1>3, <1>4 DEF LocalsOK

(* A step that touches neither pages nor lists. *)
LEMMA OnlyLocals ==
  ASSUME CacheInv, PageCacheAssumption, NEW t \in Thread, NEW r \in LocRec, Turned(t, r),
         UNCHANGED <<setup, page, lists>>, disk' \in [Lba -> Data], OK(t, r, setup, page),
         r.pc \in Owning => loc[t].pc \in Owning /\ r.page = loc[t].page,
         r.pc \in Holding <=> loc[t].pc \in Holding,
         r.pc \in Holding => r.page = loc[t].page
  PROVE  CacheInv'
<1>1. Types' /\ LocalsOK' /\ Apart'
  <2>1. OK(t, r, setup', page')
    BY DEF OK
  <2>2. \A v \in Thread \ {t} : loc[v].pc \in Owning => SamePage(loc[v].page)
    BY DEF SamePage
  <2>3. \A v \in Thread \ {t} : loc[v].pc \in Holding => page'[loc[v].page].life = "cached"
    BY DEF CacheInv, LocalsOK, OK
  <2>4. page' \in [Buf -> PageRec]
    BY DEF CacheInv, Types
  <2>5. r.pc \in Owning =>
           \A v \in Thread \ {t} : loc[v].pc \in Owning => loc[v].page # r.page
    BY DEF CacheInv, Apart
  <2> QED BY <2>1, <2>2, <2>3, <2>4, <2>5, Moved DEF CacheInv
<1>2. PagesOK' /\ Blocks'
  BY DEF CacheInv, PagesOK, Blocks
<1>3. LruOK' /\ DirtiesOK'
  BY DEF CacheInv, LruOK, DirtiesOK, Cached, Dirty, lists
<1>4. Counted'
  <2>1. \A b : Users(b)' = Users(b)
    BY UsersSame DEF CacheInv
  <2> QED BY <2>1 DEF CacheInv, Counted, Cached
<1> QED BY <1>1, <1>2, <1>3, <1>4 DEF CacheInv
------------------------------------------------------------------------------
LEMMA SetupIs ==
  ASSUME PageCacheAssumption, Types
  PROVE  /\ setup.users \subseteq User /\ setup.size \in Nat
         /\ \A q \in setup.requests : /\ q[1] \in 0..Sectors /\ q[2] \in 0..Sectors /\ q[1] < q[2]
                                        /\ q = <<q[1], q[2]>>
BY DEF PageCacheAssumption, Types

LEMMA EndedIs ==
  ASSUME PageCacheAssumption, NEW op \in {"read", "write", "done", "failed"}
  PROVE  Ended(op) \in LocRec
BY DEF LocRec, Ended, Pcs, PageCacheAssumption

LEMMA LocsAre ==
  ASSUME CacheInv, NEW t \in Thread
  PROVE  loc \in [Thread -> LocRec] /\ loc[t] \in LocRec
BY DEF CacheInv, Types

LEMMA RecPc ==
  ASSUME NEW l \in LocRec, NEW pc \in Pcs
  PROVE  [l EXCEPT !.pc = pc] \in LocRec
BY DEF LocRec

LEMMA PcOnly ==
  ASSUME NEW l \in LocRec, NEW pc
  PROVE  LET r == [l EXCEPT !.pc = pc]
         IN  /\ r.pc = pc /\ r.op = l.op /\ r.cur = l.cur /\ r.end = l.end /\ r.val = l.val
             /\ r.page = l.page
BY DEF LocRec

LEMMA RecCur ==
  ASSUME NEW l \in LocRec, NEW pc \in Pcs, NEW lo \in 0..Sectors
  PROVE  [l EXCEPT !.pc = pc, !.cur = lo] \in LocRec
BY DEF LocRec

LEMMA RecPage ==
  ASSUME NEW l \in LocRec, NEW pc \in Pcs, NEW b \in Buf \cup {NoBuf}
  PROVE  [l EXCEPT !.pc = pc, !.page = b] \in LocRec
BY DEF LocRec

LEMMA RecTries ==
  ASSUME NEW l \in LocRec, NEW pc \in Pcs, NEW k \in Nat
  PROVE  [l EXCEPT !.pc = pc, !.tries = k] \in LocRec
BY DEF LocRec

LEMMA RecEvict ==
  ASSUME NEW l \in LocRec, NEW pc \in Pcs, NEW b \in Buf \cup {NoBuf}, NEW k \in Nat
  PROVE  [l EXCEPT !.pc = pc, !.page = b, !.tries = k] \in LocRec
BY DEF LocRec

LEMMA RecPut ==
  ASSUME NEW l \in LocRec, NEW pc \in Pcs, NEW b \in Buf \cup {NoBuf}, NEW n \in Buf \cup {NoBuf}
  PROVE  [l EXCEPT !.pc = pc, !.page = b, !.next = n] \in LocRec
BY DEF LocRec

LEMMA RecCleaned ==
  ASSUME NEW l \in LocRec, NEW pc \in Pcs, NEW b \in Buf \cup {NoBuf}, NEW k \in Nat
  PROVE  [l EXCEPT !.pc = pc, !.page = b, !.flushed = k] \in LocRec
BY DEF LocRec

LEMMA RecNext ==
  ASSUME NEW l \in LocRec, NEW pc \in Pcs, NEW n \in Buf \cup {NoBuf}
  PROVE  [l EXCEPT !.pc = pc, !.next = n] \in LocRec
BY DEF LocRec

LEMMA RecAgain ==
  ASSUME NEW l \in LocRec, NEW pc \in Pcs, NEW n \in Buf \cup {NoBuf}
  PROVE  [l EXCEPT !.pc = pc, !.pass = 1, !.next = n] \in LocRec
BY DEF LocRec

LEMMA RecAsked ==
  ASSUME NEW l \in LocRec, NEW pc \in Pcs, NEW lo \in 0..Sectors,
         NEW hi \in 0..Sectors, NEW v \in Data \cup {NoData}
  PROVE  [l EXCEPT !.pc = pc, !.cur = lo, !.end = hi, !.val = v] \in LocRec
BY DEF LocRec

LEMMA RequestStep ==
  ASSUME CacheInv, PageCacheAssumption, NEW u \in User, NEW op \in {"read", "write"}, NEW lo, NEW hi,
         NEW v \in Data \cup {NoData}, op = "write" => v \in Data, Request(u, op, lo, hi, v)
  PROVE  CacheInv'
<1> DEFINE r == [Ended(op) EXCEPT !.pc = "lookup", !.cur = lo, !.end = hi, !.val = v]
<1>1. u \in Thread /\ u # Wb /\ Types
  BY DEF Thread, PageCacheAssumption, CacheInv
<1>2. lo \in 0..Sectors /\ hi \in 0..Sectors /\ lo < hi
  BY <1>1, SetupIs DEF Request
<1>3. r.pc = "lookup" /\ r.cur = lo /\ r.end = hi /\ r.op = op /\ r.val = v
  BY DEF Ended
<1>4. r \in LocRec
  <2>1. Ended(op) \in LocRec /\ "lookup" \in Pcs
    BY EndedIs DEF Pcs, Asking
  <2> QED BY <1>2, <2>1, RecAsked, Zenon
<1>5. Turned(u, r) /\ loc[u].pc = "idle" /\ u \in setup.users
      /\ UNCHANGED <<setup, disk, page, lists>>
  BY DEF Request, Turned
<1>6. OK(u, r, setup, page)
  BY <1>1, <1>2, <1>3, <1>5 DEF OK, Owning, Holding, Looping, Asking
<1>7. disk' \in [Lba -> Data]
  BY <1>1, <1>5 DEF Types
<1>8. r.pc \notin Owning \cup Holding /\ loc[u].pc \notin Owning \cup Holding
  BY <1>3, <1>5 DEF Owning, Holding
<1> HIDE DEF r
<1> QED BY <1>1, <1>4, <1>5, <1>6, <1>7, <1>8, OnlyLocals

(* A thread that has no page before the step and none after it.                *)
LEMMA Idly ==
  ASSUME CacheInv, PageCacheAssumption, NEW t \in Thread, NEW r \in LocRec, Turned(t, r),
         UNCHANGED <<setup, page, lists>>, disk' \in [Lba -> Data], OK(t, r, setup, page),
         r.pc \notin Owning \cup Holding, loc[t].pc \notin Owning \cup Holding
  PROVE  CacheInv'
BY OnlyLocals

LEMMA LocOf ==
  ASSUME CacheInv, PageCacheAssumption, NEW t \in Thread
  PROVE  /\ loc[t] \in LocRec /\ OK(t, loc[t], setup, page)
         /\ disk \in [Lba -> Data] /\ \A b \in Buf : page[b] \in PageRec
         /\ t \in User => t # Wb
         /\ Sectors \in Nat /\ Sectors > 0 /\ SectorsPerPage \in Nat /\ SectorsPerPage > 0
BY DEF CacheInv, Types, LocalsOK, PageCacheAssumption

LEMMA MissStep ==
  ASSUME CacheInv, PageCacheAssumption, NEW u \in User, Miss(u)
  PROVE  CacheInv'
<1> DEFINE r == [loc[u] EXCEPT !.pc = "room", !.tries = 0]
<1>1. u \in Thread
  BY DEF Thread
<1>2. r \in LocRec
  <2>1. "room" \in Pcs /\ 0 \in Nat /\ loc[u] \in LocRec
    BY <1>1, LocsAre DEF Pcs, Asking
  <2> QED BY <2>1, RecTries, Zenon
<1>3. Turned(u, r)
  BY <1>1, LocsAre DEF Miss, Turned
<1>4. OK(u, r, setup, page)
  BY <1>1, LocOf DEF OK, Owning, Holding, Looping, Asking, Miss, LocRec
<1>5. r.pc \notin Owning \cup Holding /\ loc[u].pc \notin Owning \cup Holding
  BY <1>1, LocOf DEF Owning, Holding, Miss, LocRec
<1> HIDE DEF r
<1> QED BY <1>1, <1>2, <1>3, <1>4, <1>5, Idly, LocOf DEF Miss

(* Asking for a page goes on, or ends without one. *)
LEMMA Asks ==
  ASSUME CacheInv, PageCacheAssumption, NEW u \in User, NEW pc \in {"room", "victim", "alloc", "direct"},
         Goto(u, pc), loc[u].pc \in {"room", "victim", "alloc"}, UNCHANGED <<setup, disk, page, lists>>
  PROVE  CacheInv'
<1> DEFINE r == [loc[u] EXCEPT !.pc = pc]
<1>1. u \in Thread /\ pc \in Pcs
  BY DEF Thread, Pcs, Asking
<1>2. r \in LocRec
  BY <1>1, LocsAre, RecPc
<1>3. Turned(u, r)
  BY <1>1, LocsAre DEF Goto, Turned
<1>4. r.pc = pc /\ r.op = loc[u].op /\ r.val = loc[u].val /\ r.cur = loc[u].cur /\ r.end = loc[u].end
  <2>1. loc[u] \in LocRec
    BY <1>1, LocsAre
  <2> QED BY <2>1, PcOnly
<1>5. OK(u, r, setup, page)
  <2> HIDE DEF r
  <2> QED BY <1>1, <1>4, LocOf DEF OK, Owning, Holding, Looping, Asking
<1>6. r.pc \notin Owning \cup Holding /\ loc[u].pc \notin Owning \cup Holding
  BY <1>4 DEF Owning, Holding
<1> HIDE DEF r
<1> QED BY <1>1, <1>2, <1>3, <1>5, <1>6, Idly, LocOf

LEMMA EnsureRoomStep ==
  ASSUME CacheInv, PageCacheAssumption, NEW u \in User, EnsureRoom(u)
  PROVE  CacheInv'
<1>1. PICK pc \in {"room", "victim", "alloc", "direct"} : Goto(u, pc)
  BY DEF EnsureRoom
<1> QED BY <1>1, Asks DEF EnsureRoom

LEMMA AfterChunkIs ==
  ASSUME CacheInv, PageCacheAssumption, NEW u \in User, loc[u].pc = "copy"
  PROVE  AfterChunk(u) \in 0..Sectors
<1>1. u \in Thread
  BY DEF Thread
<1>2. page[loc[u].page].lba \in Lba /\ loc[u].end \in 0..Sectors
  BY <1>1, LocOf DEF OK, Holding, PageRec, LocRec
<1> QED BY <1>1, <1>2, LocOf DEF AfterChunk, Min2, Lba

LEMMA CopyOutStep ==
  ASSUME CacheInv, PageCacheAssumption, NEW u \in User, CopyOut(u)
  PROVE  CacheInv'
<1> DEFINE r == [loc[u] EXCEPT !.pc = "release", !.cur = AfterChunk(u)]
<1>1. u \in Thread
  BY DEF Thread
<1>2. AfterChunk(u) \in 0..Sectors
  BY AfterChunkIs DEF CopyOut
<1>3. r \in LocRec
  <2>1. "release" \in Pcs /\ loc[u] \in LocRec
    BY <1>1, LocsAre DEF Pcs, Holding
  <2> QED BY <1>2, <2>1, RecCur, Zenon
<1>4. Turned(u, r)
  BY <1>1, LocsAre DEF CopyOut, Turned
<1>5. OK(u, r, setup, page)
  BY <1>1, LocOf DEF OK, Owning, Holding, Looping, Asking, CopyOut, LocRec
<1>6. r.pc \in Holding /\ loc[u].pc \in Holding /\ r.page = loc[u].page /\ r.pc \notin Owning
  BY <1>1, LocOf DEF Owning, Holding, CopyOut, LocRec
<1> HIDE DEF r
<1> QED BY <1>1, <1>3, <1>4, <1>5, <1>6, OnlyLocals, LocOf DEF CopyOut

LEMMA DirectStep ==
  ASSUME CacheInv, PageCacheAssumption, NEW u \in User, Direct(u)
  PROVE  CacheInv'
<1> DEFINE f == Ended("failed")
           r == [loc[u] EXCEPT !.pc = "finish", !.cur = loc[u].end]
<1>1. u \in Thread /\ loc[u].pc = "direct" /\ UNCHANGED <<setup, page, lists>>
  BY DEF Thread, Direct
<1>2. loc[u].pc \notin Owning \cup Holding
  BY <1>1 DEF Owning, Holding
<1>3. CASE Turned(u, f) /\ disk' = disk
  <2>1. f \in LocRec
    BY EndedIs
  <2>2. f.pc = "idle" /\ f.op = "failed"
    BY DEF Ended
  <2>3. OK(u, f, setup, page)
    BY <1>1, <2>2, LocOf DEF OK, Owning, Holding, Looping, Asking
  <2>4. f.pc \notin Owning \cup Holding
    BY <2>2 DEF Owning, Holding
  <2> HIDE DEF f
  <2> QED BY <1>1, <1>2, <1>3, <2>1, <2>3, <2>4, Idly, LocOf
<1>4. CASE Turned(u, r) /\ disk' \in [Lba -> Data]
  <2>1. r \in LocRec
    <3>1. "finish" \in Pcs /\ loc[u] \in LocRec /\ loc[u].end \in 0..Sectors
      BY <1>1, LocsAre DEF Pcs, LocRec
    <3> QED BY <3>1, RecCur, Zenon
  <2>2. r.pc = "finish" /\ r.op = loc[u].op /\ r.val = loc[u].val
    BY <1>1, LocsAre DEF LocRec
  <2>3. OK(u, r, setup, page)
    BY <1>1, <2>2, LocOf DEF OK, Owning, Holding, Looping, Asking
  <2>4. r.pc \notin Owning \cup Holding
    BY <2>2 DEF Owning, Holding
  <2> HIDE DEF r
  <2> QED BY <1>1, <1>2, <1>4, <2>1, <2>3, <2>4, Idly
<1>5. CASE ~(Turned(u, f) /\ disk' = disk)
  <2>1. loc' = [loc EXCEPT ![u].pc = "finish", ![u].cur = loc[u].end]
    BY <1>5 DEF Direct, Turned
  <2>2. Turned(u, r)
    BY <2>1, <1>1, LocsAre DEF Turned
  <2>3. disk' \in [Lba -> Data]
    <3>1. CASE disk' = disk
      BY <3>1, <1>1, LocOf
    <3>2. CASE loc[u].op # "read" /\ disk' = [s \in Lba |->
                 IF s \in loc[u].cur..(loc[u].end - 1) THEN loc[u].val ELSE disk[s]]
      <4>1. loc[u].val \in Data
        BY <1>1, <3>2, LocOf DEF OK, Looping
      <4> QED BY <1>1, <3>2, <4>1, LocOf
    <3> QED BY <1>5, <3>1, <3>2 DEF Direct, Turned
  <2> QED BY <1>4, <2>2, <2>3
<1> QED BY <1>3, <1>5

(* The end of a request, or of a flush. *)
LEMMA Ends ==
  ASSUME CacheInv, PageCacheAssumption, NEW t \in Thread, NEW how \in {"done", "failed"},
         loc[t].pc \notin Owning \cup Holding, Turned(t, Ended(how)), UNCHANGED <<setup, disk, page, lists>>
  PROVE  CacheInv'
<1> DEFINE f == Ended(how)
<1>1. f \in LocRec
  BY EndedIs
<1>2. f.pc = "idle" /\ f.op = how
  BY DEF Ended
<1>3. OK(t, f, setup, page)
  BY <1>2, LocOf DEF OK, Owning, Holding, Looping, Asking
<1>4. f.pc \notin Owning \cup Holding /\ disk' \in [Lba -> Data] /\ Turned(t, f)
  BY <1>2, LocOf DEF Owning, Holding
<1> HIDE DEF f
<1> QED BY <1>1, <1>3, <1>4, Idly

LEMMA FinishStep ==
  ASSUME CacheInv, PageCacheAssumption, NEW u \in User, Finish(u)
  PROVE  CacheInv'
BY Ends DEF Finish, Turned, Thread, Owning, Holding

FirstDirty == IF dirties = <<>> THEN NoBuf ELSE Head(dirties)

LEMMA FirstDirtyIs == ASSUME CacheInv PROVE FirstDirty \in Buf \cup {NoBuf}
BY DEF CacheInv, DirtiesOK, Lists, FirstDirty

LEMMA ScanRecs ==
  ASSUME CacheInv, NEW l \in LocRec
  PROVE  LET r == [l EXCEPT !.pc = "scan", !.next = FirstDirty]
             a == [l EXCEPT !.pc = "scan", !.pass = 1, !.next = FirstDirty]
         IN  /\ r \in LocRec /\ r.pc = "scan" /\ r.op = l.op
             /\ a \in LocRec /\ a.pc = "scan" /\ a.op = l.op
<1> DEFINE n == FirstDirty
<1>1. "scan" \in Pcs /\ n \in Buf \cup {NoBuf}
  BY FirstDirtyIs DEF Pcs, Looping
<1> HIDE DEF n
<1>2. [l EXCEPT !.pc = "scan", !.next = n].pc = "scan" /\ [l EXCEPT !.pc = "scan", !.next = n].op = l.op
  BY DEF LocRec
<1>3. /\ [l EXCEPT !.pc = "scan", !.pass = 1, !.next = n].pc = "scan"
      /\ [l EXCEPT !.pc = "scan", !.pass = 1, !.next = n].op = l.op
  BY DEF LocRec
<1>4. [l EXCEPT !.pc = "scan", !.next = n] \in LocRec
  BY <1>1, RecNext
<1>5. [l EXCEPT !.pc = "scan", !.pass = 1, !.next = n] \in LocRec
  BY <1>1, RecAgain
<1> QED BY <1>2, <1>3, <1>4, <1>5 DEF n

(* A flush or a write-back goes from the start of the dirty list, or again.    *)
LEMMA Scans ==
  ASSUME CacheInv, PageCacheAssumption, NEW t \in Thread, NEW r \in LocRec,
         r.pc = "scan", r.op \in {"done", "failed"},
         (t \in setup.users /\ setup.flush) \/ (t = Wb /\ setup.wb) \/ loc[t].pc \in Looping,
         loc[t].pc \notin Owning \cup Holding,
         Turned(t, r), UNCHANGED <<setup, disk, page, lists>>
  PROVE  CacheInv'
<1>1. OK(t, r, setup, page)
  <2>1. (t = Wb \/ t \in setup.users) /\ (t = Wb => setup.wb) /\ (setup.wb \/ setup.flush)
    <3>1. loc[t].pc \in Looping => loc[t].pc # "idle"
      BY DEF Looping
    <3>2. OK(t, loc[t], setup, page)
      BY LocOf
    <3>3. t \in setup.users => t # Wb
      BY LocOf, SetupIs DEF CacheInv
    <3> QED BY <3>1, <3>2, <3>3 DEF OK
  <2> QED BY <2>1 DEF OK, Owning, Holding, Looping, Asking
<1>2. r.pc \notin Owning \cup Holding /\ disk' \in [Lba -> Data]
  BY LocOf DEF Owning, Holding
<1> QED BY <1>1, <1>2, Idly

LEMMA FlushAllStep ==
  ASSUME CacheInv, PageCacheAssumption, NEW u \in User, FlushAll(u)
  PROVE  CacheInv'
<1> DEFINE l == Ended(loc[u].op)
           r == [l EXCEPT !.pc = "scan", !.next = FirstDirty]
<1>1. u \in Thread /\ loc[u].pc \notin Owning \cup Holding /\ loc[u].pc = "idle"
  BY DEF Thread, FlushAll, Owning, Holding
<1>2. loc[u].op \in {"done", "failed"}
  BY <1>1, LocOf DEF OK, LocRec
<1>3. l \in LocRec /\ l.op \in {"done", "failed"}
  BY <1>2, EndedIs DEF Ended
<1>4. Turned(u, r)
  BY DEF FlushAll, Turned, FirstDirty
<1>5. u \in setup.users /\ setup.flush /\ UNCHANGED <<setup, disk, page, lists>>
  BY DEF FlushAll
<1> HIDE DEF l
<1>6. r \in LocRec /\ r.pc = "scan" /\ r.op \in {"done", "failed"}
  BY <1>3, ScanRecs
<1> HIDE DEF r
<1> QED BY <1>1, <1>4, <1>5, <1>6, Scans

LEMMA WritebackWakesStep ==
  ASSUME CacheInv, PageCacheAssumption, WritebackWakes
  PROVE  CacheInv'
<1> DEFINE l == Ended("done")
           r == [l EXCEPT !.pc = "scan", !.next = FirstDirty]
<1>1. Wb \in Thread /\ loc[Wb].pc \notin Owning \cup Holding
  BY DEF Thread, WritebackWakes, Owning, Holding
<1>2. l \in LocRec /\ l.op \in {"done", "failed"}
  BY EndedIs DEF Ended
<1>3. Turned(Wb, r)
  BY DEF WritebackWakes, Turned, FirstDirty
<1>4. setup.wb /\ UNCHANGED <<setup, disk, page, lists>>
  BY DEF WritebackWakes
<1> HIDE DEF l
<1>5. r \in LocRec /\ r.pc = "scan" /\ r.op \in {"done", "failed"}
  BY <1>2, ScanRecs
<1> HIDE DEF r
<1> QED BY <1>1, <1>3, <1>4, <1>5, Scans

LEMMA EndScanStep ==
  ASSUME CacheInv, PageCacheAssumption, NEW t \in Thread, EndScan(t)
  PROVE  CacheInv'
<1>1. loc[t].pc = "scanned" /\ UNCHANGED <<setup, disk, page, lists>>
  BY DEF EndScan
<1>2. loc[t].op \in {"done", "failed"}
  BY <1>1, LocOf DEF OK, Looping, LocRec
<1>3. loc[t].pc \in Looping /\ loc[t].pc \notin Owning \cup Holding
  BY <1>1 DEF Looping, Owning, Holding
<1>4. CASE t # Wb /\ loc[t].pass = 0 /\ dirtyCount > 0
  <2> DEFINE r == [loc[t] EXCEPT !.pc = "scan", !.pass = 1, !.next = FirstDirty]
  <2>1. Turned(t, r)
    BY <1>4 DEF EndScan, Turned, FirstDirty
  <2>2. loc[t] \in LocRec
    BY LocsAre
  <2>3. r \in LocRec /\ r.pc = "scan" /\ r.op = loc[t].op
    BY <2>2, ScanRecs
  <2>4. r.op \in {"done", "failed"}
    BY <2>3, <1>2
  <2> HIDE DEF r
  <2> QED BY <2>1, <2>3, <2>4, <1>1, <1>3, Scans
<1>5. CASE ~(t # Wb /\ loc[t].pass = 0 /\ dirtyCount > 0)
  <2>1. Turned(t, Ended(loc[t].op))
    BY <1>5 DEF EndScan, Turned
  <2> QED BY <2>1, <1>1, <1>2, <1>3, Ends
<1> QED BY <1>4, <1>5

LEMMA StoredIs ==
  ASSUME CacheInv, NEW b \in Buf
  PROVE  Stored(b) \in [Lba -> Data]
<1>1. page[b].data \in Contents /\ disk \in [Lba -> Data]
  BY DEF CacheInv, Types, PageRec
<1>2. \A s \in DOMAIN page[b].data : page[b].data[s] \in Data
  BY <1>1 DEF Contents
<1> QED BY <1>1, <1>2 DEF Stored

LEMMA PutPageStep ==
  ASSUME CacheInv, PageCacheAssumption, NEW t \in Thread, PutPage(t)
  PROVE  CacheInv'
<1>1. PICK pc \in {"clean", "keep"} : Goto(t, pc)
  BY DEF PutPage
<1> DEFINE r == [loc[t] EXCEPT !.pc = pc]
<1>2. loc[t] \in LocRec /\ loc[t].pc = "put" /\ UNCHANGED <<setup, page, lists>> /\ pc \in Pcs
  BY LocsAre DEF PutPage, Pcs, Looping
<1>3. r \in LocRec /\ Turned(t, r)
  BY <1>1, <1>2, RecPc DEF Goto, Turned
<1>4. r.pc = pc /\ r.op = loc[t].op /\ r.val = loc[t].val /\ r.cur = loc[t].cur /\ r.end = loc[t].end
      /\ r.page = loc[t].page
  BY <1>2, PcOnly
<1> HIDE DEF r
<1>5. OK(t, r, setup, page)
  BY <1>2, <1>4, LocOf DEF OK, Owning, Holding, Looping, Asking
<1>6. disk' \in [Lba -> Data]
  <2>1. loc[t].page \in Buf
    BY <1>2, LocOf DEF OK, Owning
  <2> QED BY <2>1, StoredIs, LocOf DEF PutPage
<1>7. r.pc \notin Holding /\ loc[t].pc \notin Holding /\ loc[t].pc \in Owning
  BY <1>2, <1>4 DEF Owning, Holding
<1> QED BY <1>2, <1>3, <1>4, <1>5, <1>6, <1>7, OnlyLocals
------------------------------------------------------------------------------
(* Steps that change pages. *)
LEMMA PageMoved ==
  ASSUME Types, NEW b \in Buf, NEW p \in PageRec, page' = [page EXCEPT ![b] = p]
  PROVE  /\ page' \in [Buf -> PageRec] /\ page'[b] = p
         /\ \A c \in Buf : c # b => page'[c] = page[c]
BY DEF Types

LEMMA PageOf ==
  ASSUME CacheInv, NEW b \in Buf
  PROVE  page[b] \in PageRec /\ page[b].ref \in Nat /\ page \in [Buf -> PageRec]
BY DEF CacheInv, Types, PageRec

LEMMA RefOnly ==
  ASSUME NEW p \in PageRec, NEW k \in Nat
  PROVE  LET q == [p EXCEPT !.ref = k]
         IN  /\ q \in PageRec /\ q.life = p.life /\ q.lba = p.lba /\ q.dirty = p.dirty
             /\ q.wb = p.wb /\ q.ref = k /\ q.data = p.data
BY DEF PageRec

(* Pages whose place does not change leave the lists as they are. *)
Alike(c) == page'[c].life = page[c].life /\ page'[c].lba = page[c].lba /\ page'[c].dirty = page[c].dirty

LEMMA AllAlike ==
  ASSUME CacheInv, \A c \in Buf : Alike(c)
  PROVE  Cached' = Cached /\ Dirty' = Dirty /\ Blocks'
<1>1. Cached' = Cached /\ Dirty' = Dirty
  BY DEF Cached, Dirty, Alike
<1>2. Blocks'
  BY DEF CacheInv, Blocks, Alike
<1> QED BY <1>1, <1>2

LEMMA GetCachedStep ==
  ASSUME CacheInv, PageCacheAssumption, NEW u \in User, NEW b \in Buf, GetCached(u, b)
  PROVE  CacheInv'
<1> DEFINE r == [loc[u] EXCEPT !.pc = "copy", !.page = b]
           p == [page[b] EXCEPT !.ref = page[b].ref + 1]
<1>1. u \in Thread /\ u # Wb /\ loc[u].pc = "lookup" /\ b \in Cached /\ page[b].life = "cached"
  BY LocOf DEF Thread, GetCached, Hashed, Cached
<1>2. loc[u] \in LocRec /\ OK(u, loc[u], setup, page)
  BY <1>1, LocOf
<1>3. r \in LocRec
  <2>1. "copy" \in Pcs
    BY DEF Pcs, Holding
  <2> QED BY <1>2, <2>1, RecPage
<1>4. r.pc = "copy" /\ r.page = b /\ r.op = loc[u].op /\ r.val = loc[u].val
  BY <1>2 DEF LocRec
<1>5. Turned(u, r)
  BY <1>1, LocsAre DEF GetCached, Turned
<1>6. /\ p \in PageRec /\ p.life = "cached" /\ p.lba = page[b].lba /\ p.dirty = page[b].dirty
      /\ p.wb = page[b].wb /\ p.ref = page[b].ref + 1
  BY <1>1, PageOf, RefOnly
<1>7. page' = [page EXCEPT ![b] = p]
  BY DEF GetCached, Use
<1>8. UNCHANGED <<setup, disk, dirties, pageCount, dirtyCount>> /\ lru' = <<b>> \o Without(lru, b)
  BY DEF GetCached, Use
<1> HIDE DEF r, p
<1>9. page' \in [Buf -> PageRec] /\ page'[b] = p /\ \A c \in Buf : c # b => page'[c] = page[c]
  BY <1>6, <1>7, PageMoved DEF CacheInv
<1>10. \A c \in Buf : Alike(c) /\ SamePage(c)
  BY <1>1, <1>6, <1>9 DEF Alike, SamePage
<1>11. Cached' = Cached /\ Dirty' = Dirty /\ Blocks'
  BY <1>10, AllAlike
<1>12. OK(u, r, setup', page')
  BY <1>1, <1>2, <1>4, <1>6, <1>8, <1>9 DEF OK, Owning, Holding, Looping, Asking
<1>13. Types' /\ LocalsOK' /\ Apart'
  <2>1. \A v \in Thread \ {u} : loc[v].pc \in Owning => SamePage(loc[v].page)
    BY <1>10 DEF CacheInv, LocalsOK, OK
  <2>2. \A v \in Thread \ {u} : loc[v].pc \in Holding => page'[loc[v].page].life = "cached"
    BY <1>10 DEF CacheInv, LocalsOK, OK, SamePage
  <2>3. disk' \in [Lba -> Data] /\ setup' = setup
    BY <1>1, <1>8, LocOf
  <2>4. r.pc \notin Owning
    BY <1>4 DEF Owning
  <2> QED BY <1>1, <1>3, <1>5, <1>9, <1>12, <2>1, <2>2, <2>3, <2>4, Moved DEF CacheInv
<1>14. PagesOK'
  BY <1>1, <1>6, <1>9 DEF CacheInv, PagesOK
<1>15. LruOK' /\ DirtiesOK'
  BY <1>1, <1>8, <1>11, Fronted DEF CacheInv, LruOK, DirtiesOK
<1>16. Counted'
  <2> SUFFICES ASSUME ~setup.flush, ~setup.wb, NEW c \in Cached
               PROVE  page'[c].ref = Cardinality(Users(c)')
    BY <1>8, <1>11 DEF Counted
  <2>1. page[c].ref = Cardinality(Users(c)) /\ c \in Buf
    BY DEF CacheInv, Counted, Cached
  <2>2. loc[u].pc \notin Holding /\ r.pc \in Holding
    BY <1>1, <1>4 DEF Holding
  <2>3. /\ c # r.page => Cardinality(Users(c)') = Cardinality(Users(c))
        /\ c = r.page => Cardinality(Users(c)') = Cardinality(Users(c)) + 1
    BY <1>3, <1>5, <2>2, UsersMore DEF CacheInv
  <2> QED BY <1>4, <1>6, <1>9, <2>1, <2>3
<1> QED BY <1>11, <1>13, <1>14, <1>15, <1>16 DEF CacheInv

(* A step that leaves every page in its place and every count as it is. *)
LEMMA AlikeStep ==
  ASSUME CacheInv, PageCacheAssumption, NEW t \in Thread, NEW r \in LocRec, Turned(t, r),
         UNCHANGED <<setup, lists>>, disk' \in [Lba -> Data], page' \in [Buf -> PageRec],
         \A c \in Buf : Alike(c) /\ SamePage(c) /\ page'[c].ref = page[c].ref,
         OK(t, r, setup', page'),
         r.pc \in Owning => loc[t].pc \in Owning /\ r.page = loc[t].page,
         r.pc \in Holding <=> loc[t].pc \in Holding,
         r.pc \in Holding => r.page = loc[t].page
  PROVE  CacheInv'
<1>1. Cached' = Cached /\ Dirty' = Dirty /\ Blocks'
  BY AllAlike
<1>2. Types' /\ LocalsOK' /\ Apart'
  <2>1. \A v \in Thread \ {t} : loc[v].pc \in Owning => SamePage(loc[v].page)
    BY DEF CacheInv, LocalsOK, OK
  <2>2. \A v \in Thread \ {t} : loc[v].pc \in Holding => page'[loc[v].page].life = "cached"
    BY DEF CacheInv, LocalsOK, OK, SamePage
  <2>3. r.pc \in Owning =>
           \A v \in Thread \ {t} : loc[v].pc \in Owning => loc[v].page # r.page
    BY DEF CacheInv, Apart
  <2> QED BY <2>1, <2>2, <2>3, Moved DEF CacheInv
<1>3. PagesOK'
  BY DEF CacheInv, PagesOK, SamePage
<1>4. LruOK' /\ DirtiesOK'
  BY <1>1 DEF CacheInv, LruOK, DirtiesOK, lists
<1>5. Counted'
  <2>1. \A b : Users(b)' = Users(b)
    BY UsersSame DEF CacheInv
  <2>2. \A c \in Cached : c \in Buf
    BY DEF Cached
  <2> QED BY <1>1, <2>1, <2>2 DEF CacheInv, Counted
<1> QED BY <1>1, <1>2, <1>3, <1>4, <1>5 DEF CacheInv

LEMMA DataOnly ==
  ASSUME NEW p \in PageRec, NEW d \in Contents
  PROVE  LET q == [p EXCEPT !.data = d]
         IN  /\ q \in PageRec /\ q.life = p.life /\ q.lba = p.lba /\ q.dirty = p.dirty
             /\ q.wb = p.wb /\ q.ref = p.ref /\ q.data = d
BY DEF PageRec

LEMMA CopyInStep ==
  ASSUME CacheInv, PageCacheAssumption, NEW u \in User, CopyIn(u)
  PROVE  CacheInv'
<1> DEFINE r == [loc[u] EXCEPT !.pc = "mark", !.cur = AfterChunk(u)]
           b == loc[u].page
           d == [s \in DOMAIN page[b].data |-> IF s \in Chunk(u) THEN loc[u].val ELSE page[b].data[s]]
           p == [page[b] EXCEPT !.data = d]
<1>1. u \in Thread /\ loc[u].pc = "copy" /\ loc[u].op = "write"
      /\ UNCHANGED <<setup, disk, lists>>
  BY DEF Thread, CopyIn
<1>2. loc[u] \in LocRec /\ OK(u, loc[u], setup, page)
  BY <1>1, LocOf
<1>3. r \in LocRec
  <2>1. "mark" \in Pcs
    BY DEF Pcs, Holding
  <2> QED BY <1>1, <1>2, <2>1, AfterChunkIs, RecCur
<1>4. r.pc = "mark" /\ r.page = b /\ r.op = loc[u].op /\ r.val = loc[u].val
  BY <1>2 DEF LocRec
<1>5. Turned(u, r)
  BY <1>1, LocsAre DEF CopyIn, Turned
<1>6. b \in Buf /\ page[b].life = "cached" /\ loc[u].val \in Data
  BY <1>1, <1>2 DEF OK, Holding
<1>7. d \in Contents
  <2>1. page[b].data \in Contents
    BY <1>6, PageOf DEF PageRec
  <2>2. CASE page[b].data = [s \in {} |-> NoData]
    BY <2>2 DEF Contents
  <2>3. CASE \E l \in Lba : page[b].data \in [InPage(l) -> Data]
    BY <1>6, <2>3 DEF Contents
  <2> QED BY <2>1, <2>2, <2>3 DEF Contents
<1>8. page' = [page EXCEPT ![b] = p]
  BY DEF CopyIn
<1> HIDE DEF d
<1>9. /\ p \in PageRec /\ p.life = page[b].life /\ p.lba = page[b].lba /\ p.dirty = page[b].dirty
      /\ p.wb = page[b].wb /\ p.ref = page[b].ref
  BY <1>6, <1>7, PageOf, DataOnly
<1> HIDE DEF r, p
<1>10. page' \in [Buf -> PageRec] /\ page'[b] = p /\ \A c \in Buf : c # b => page'[c] = page[c]
  BY <1>6, <1>8, <1>9, PageMoved DEF CacheInv
<1> HIDE DEF b
<1>11. \A c \in Buf : Alike(c) /\ SamePage(c) /\ page'[c].ref = page[c].ref
  BY <1>9, <1>10 DEF Alike, SamePage
<1>12. OK(u, r, setup', page')
  BY <1>1, <1>2, <1>4, <1>6, <1>9, <1>10 DEF OK, Owning, Holding, Looping, Asking
<1>13. r.pc \notin Owning /\ r.pc \in Holding /\ loc[u].pc \in Holding /\ r.page = loc[u].page
  BY <1>1, <1>4 DEF Owning, Holding, b
<1> QED BY <1>1, <1>3, <1>5, <1>10, <1>11, <1>12, <1>13, AlikeStep, LocOf

LEMMA ReleaseStep ==
  ASSUME CacheInv, PageCacheAssumption, NEW u \in User, Release(u)
  PROVE  CacheInv'
<1> DEFINE r == IF loc[u].cur < loc[u].end
                THEN [loc[u] EXCEPT !.pc = "lookup", !.page = NoBuf] ELSE Ended("done")
           b == loc[u].page
           k == IF page[b].ref > 0 THEN page[b].ref - 1 ELSE 0
           p == [page[b] EXCEPT !.ref = k]
<1>1. u \in Thread /\ u # Wb /\ loc[u].pc = "release" /\ UNCHANGED <<setup, disk, lists>>
  BY LocOf DEF Thread, Release
<1>2. loc[u] \in LocRec /\ OK(u, loc[u], setup, page)
  BY <1>1, LocOf
<1>3. r \in LocRec /\ OK(u, r, setup, page) /\ r.pc \in {"lookup", "idle"}
  <2>1. CASE loc[u].cur < loc[u].end
    <3> DEFINE q == [loc[u] EXCEPT !.pc = "lookup", !.page = NoBuf]
    <3>1. "lookup" \in Pcs
      BY DEF Pcs, Asking
    <3>2. q \in LocRec
      BY <1>2, <3>1, RecPage
    <3>3. q.pc = "lookup" /\ q.op = loc[u].op /\ q.val = loc[u].val /\ q.cur = loc[u].cur /\ q.end = loc[u].end
      BY <1>2 DEF LocRec
    <3>4. r = q
      BY <2>1
    <3> HIDE DEF q, r
    <3>5. OK(u, q, setup, page)
      BY <1>1, <1>2, <2>1, <3>3 DEF OK, Owning, Holding, Looping, Asking
    <3> QED BY <3>2, <3>3, <3>4, <3>5
  <2>2. CASE ~(loc[u].cur < loc[u].end)
    <3> DEFINE q == Ended("done")
    <3>1. q \in LocRec
      BY EndedIs
    <3>2. q.pc = "idle" /\ q.op = "done"
      BY DEF Ended
    <3>3. r = q
      BY <2>2
    <3> HIDE DEF q, r
    <3>4. OK(u, q, setup, page)
      BY <1>1, <3>2 DEF OK, Owning, Holding, Looping, Asking
    <3> QED BY <3>1, <3>2, <3>3, <3>4
  <2> QED BY <2>1, <2>2
<1>4. Turned(u, r)
  BY DEF Release, Turned
<1> HIDE DEF r
<1>5. b \in Buf /\ page[b].life = "cached"
  BY <1>1, <1>2 DEF OK, Holding
<1>6. k \in Nat
  BY <1>5, PageOf
<1>7. page' = [page EXCEPT ![b] = p]
  BY DEF Release
<1>8. /\ p \in PageRec /\ p.life = page[b].life /\ p.lba = page[b].lba /\ p.dirty = page[b].dirty
      /\ p.wb = page[b].wb /\ p.ref = k
  <2> HIDE DEF k
  <2> QED BY <1>5, <1>6, PageOf, RefOnly
<1> HIDE DEF p
<1>9. page' \in [Buf -> PageRec] /\ page'[b] = p /\ \A c \in Buf : c # b => page'[c] = page[c]
  BY <1>5, <1>7, <1>8, PageMoved DEF CacheInv
<1>10. \A c \in Buf : Alike(c) /\ SamePage(c)
  BY <1>8, <1>9 DEF Alike, SamePage
<1>11. Cached' = Cached /\ Dirty' = Dirty /\ Blocks'
  BY <1>10, AllAlike
<1>12. Types' /\ LocalsOK' /\ Apart'
  <2>1. \A v \in Thread \ {u} : loc[v].pc \in Owning => SamePage(loc[v].page)
    BY <1>10 DEF CacheInv, LocalsOK, OK
  <2>2. \A v \in Thread \ {u} : loc[v].pc \in Holding => page'[loc[v].page].life = "cached"
    BY <1>10 DEF CacheInv, LocalsOK, OK, SamePage
  <2>3. disk' \in [Lba -> Data] /\ setup' = setup
    BY <1>1, LocOf
  <2>4. r.pc \notin Owning
    BY <1>3 DEF Owning
  <2>5. OK(u, r, setup', page')
    BY <1>1, <1>3 DEF OK, Owning, Holding
  <2> QED BY <1>1, <1>3, <1>4, <1>9, <2>1, <2>2, <2>3, <2>4, <2>5, Moved DEF CacheInv
<1>13. PagesOK'
  BY <1>5, <1>8, <1>9 DEF CacheInv, PagesOK
<1>14. LruOK' /\ DirtiesOK'
  BY <1>1, <1>11 DEF CacheInv, LruOK, DirtiesOK, lists
<1>15. Counted'
  <2> SUFFICES ASSUME ~setup.flush, ~setup.wb, NEW c \in Cached
               PROVE  page'[c].ref = Cardinality(Users(c)')
    BY <1>1, <1>11 DEF Counted
  <2>1. page[c].ref = Cardinality(Users(c)) /\ c \in Buf
    BY DEF CacheInv, Counted, Cached
  <2>2. loc[u].pc \in Holding /\ r.pc \notin Holding
    BY <1>1, <1>3 DEF Holding
  <2>3. /\ c # loc[u].page => Cardinality(Users(c)') = Cardinality(Users(c))
        /\ c = loc[u].page => /\ Cardinality(Users(c)') = Cardinality(Users(c)) - 1
                              /\ Cardinality(Users(c)) > 0
    BY <1>3, <1>4, <2>2, UsersLess DEF CacheInv
  <2> QED BY <1>8, <1>9, <2>1, <2>3
<1> QED BY <1>11, <1>12, <1>13, <1>14, <1>15 DEF CacheInv

LEMMA GotoIs ==
  ASSUME CacheInv, PageCacheAssumption, NEW t \in Thread, NEW pc \in Pcs, Goto(t, pc)
  PROVE  LET r == [loc[t] EXCEPT !.pc = pc]
         IN  /\ r \in LocRec /\ Turned(t, r)
             /\ r.pc = pc /\ r.op = loc[t].op /\ r.cur = loc[t].cur /\ r.end = loc[t].end
             /\ r.val = loc[t].val /\ r.page = loc[t].page
<1>1. loc[t] \in LocRec /\ loc \in [Thread -> LocRec]
  BY LocsAre
<1> QED BY <1>1, RecPc, PcOnly DEF Goto, Turned

LEMMA MarkDirtyStep ==
  ASSUME CacheInv, PageCacheAssumption, NEW u \in User, MarkDirty(u)
  PROVE  CacheInv'
<1> DEFINE r == [loc[u] EXCEPT !.pc = "release"]
           b == loc[u].page
           p == [page[b] EXCEPT !.dirty = TRUE]
<1>1. u \in Thread /\ loc[u].pc = "mark" /\ Goto(u, "release")
      /\ UNCHANGED <<setup, disk, lru, pageCount>>
  BY DEF Thread, MarkDirty
<1>2. loc[u] \in LocRec /\ OK(u, loc[u], setup, page)
  BY <1>1, LocOf
<1>3. /\ r \in LocRec /\ Turned(u, r)
      /\ r.pc = "release" /\ r.op = loc[u].op /\ r.val = loc[u].val /\ r.page = b
  <2>1. "release" \in Pcs
    BY DEF Pcs, Holding
  <2> QED BY <1>1, <2>1, GotoIs
<1> HIDE DEF r
<1>4. b \in Buf /\ page[b].life = "cached" /\ b \in Cached
  BY <1>1, <1>2 DEF OK, Holding, Cached
<1>5. r.pc \notin Owning /\ r.pc \in Holding /\ loc[u].pc \in Holding /\ disk' \in [Lba -> Data]
  BY <1>1, <1>3, LocOf DEF Owning, Holding
<1>6. CASE page[b].dirty
  <2>1. UNCHANGED <<setup, page, lists>>
    BY <1>1, <1>6 DEF MarkDirty, lists
  <2>2. OK(u, r, setup, page)
    BY <1>1, <1>2, <1>3, <1>4 DEF OK, Owning, Holding, Looping, Asking
  <2> QED BY <1>1, <1>3, <1>5, <2>1, <2>2, OnlyLocals
<1>7. CASE ~page[b].dirty
  <2>1. page' = [page EXCEPT ![b] = p] /\ dirties' = <<b>> \o dirties /\ dirtyCount' = dirtyCount + 1
    BY <1>7 DEF MarkDirty
  <2>2. /\ p \in PageRec /\ p.life = "cached" /\ p.lba = page[b].lba /\ p.dirty = TRUE
        /\ p.wb = page[b].wb /\ p.ref = page[b].ref
    BY <1>4, PageOf DEF PageRec
  <2> HIDE DEF p
  <2>3. page' \in [Buf -> PageRec] /\ page'[b] = p /\ \A c \in Buf : c # b => page'[c] = page[c]
    BY <1>4, <2>1, <2>2, PageMoved DEF CacheInv
  <2> HIDE DEF b
  <2>4. Cached' = Cached /\ Dirty' = Dirty \cup {b} /\ b \notin Dirty
    BY <1>4, <1>7, <2>2, <2>3 DEF Cached, Dirty
  <2>5. Types' /\ LocalsOK' /\ Apart'
    <3>1. ASSUME NEW v \in Thread \ {u}, loc[v].pc \in Owning PROVE SamePage(loc[v].page)
      <4>1. loc[v].page # b /\ loc[v].page \in Buf
        BY <1>4, <1>7, <3>1 DEF CacheInv, LocalsOK, OK, Owning
      <4> QED BY <2>3, <4>1 DEF SamePage
    <3>2. \A v \in Thread \ {u} : loc[v].pc \in Holding => page'[loc[v].page].life = "cached"
      BY <2>2, <2>3 DEF CacheInv, LocalsOK, OK
    <3>3. OK(u, r, setup', page')
      BY <1>1, <1>2, <1>3, <1>4, <2>2, <2>3 DEF OK, Owning, Holding, Looping, Asking
    <3> QED BY <1>1, <1>3, <1>5, <2>3, <3>1, <3>2, <3>3, Moved DEF CacheInv
  <2>6. PagesOK' /\ Blocks'
    BY <1>4, <2>2, <2>3 DEF CacheInv, PagesOK, Blocks
  <2>7. LruOK'
    BY <1>1, <2>4 DEF CacheInv, LruOK
  <2>8. DirtiesOK'
    <3>1. Lists(dirties, Dirty) /\ dirtyCount = Len(dirties)
      BY DEF CacheInv, DirtiesOK
    <3>2. Lists(<<b>> \o dirties, Dirty \cup {b}) /\ Len(<<b>> \o dirties) = Len(dirties) + 1
      BY <3>1, <1>4, <2>4, Added
    <3> QED BY <2>1, <2>4, <3>1, <3>2 DEF DirtiesOK, b
  <2>9. Counted'
    <3>1. \A c : Users(c)' = Users(c)
      BY <1>1, <1>3, <1>5, UsersSame DEF CacheInv, b
    <3>2. \A c \in Cached : c \in Buf /\ page'[c].ref = page[c].ref
      BY <2>2, <2>3 DEF Cached
    <3> QED BY <1>1, <2>4, <3>1, <3>2 DEF CacheInv, Counted
  <2> QED BY <2>5, <2>6, <2>7, <2>8, <2>9 DEF CacheInv
<1> QED BY <1>6, <1>7

LEMMA EvictWriteStep ==
  ASSUME CacheInv, PageCacheAssumption, NEW u \in User, EvictWrite(u)
  PROVE  CacheInv'
<1> DEFINE r == [loc[u] EXCEPT !.pc = "room", !.page = NoBuf]
           b == loc[u].page
<1>1. u \in Thread /\ u # Wb /\ loc[u].pc = "evict" /\ UNCHANGED <<setup, lists>>
  BY LocOf DEF Thread, EvictWrite
<1>2. loc[u] \in LocRec /\ OK(u, loc[u], setup, page)
  BY <1>1, LocOf
<1>3. r \in LocRec
  <2>1. "room" \in Pcs
    BY DEF Pcs, Asking
  <2> QED BY <1>2, <2>1, RecPage
<1>4. r.pc = "room" /\ r.op = loc[u].op /\ r.val = loc[u].val /\ r.cur = loc[u].cur /\ r.end = loc[u].end
  BY <1>2 DEF LocRec
<1>5. Turned(u, r)
  BY <1>1, LocsAre DEF EvictWrite, Turned
<1> HIDE DEF r
<1>6. b \in Buf /\ page[b].life = "evicted"
  BY <1>1, <1>2 DEF OK, Owning
<1>7. page' = [page EXCEPT ![b] = NoPage] /\ disk' \in [Lba -> Data]
  BY <1>1, <1>6, StoredIs, LocOf DEF EvictWrite, Evicted
<1>8. NoPage \in PageRec /\ NoPage.life = "free" /\ NoPage.ref = 0 /\ ~NoPage.dirty /\ ~NoPage.wb
  BY LocOf, <1>1 DEF NoPage, PageRec, Contents, Lba
<1>9. page' \in [Buf -> PageRec] /\ page'[b] = NoPage /\ \A c \in Buf : c # b => page'[c] = page[c]
  BY <1>6, <1>7, <1>8, PageMoved DEF CacheInv
<1>10. Cached' = Cached /\ Dirty' = Dirty
  BY <1>6, <1>8, <1>9 DEF Cached, Dirty
<1>11. Types' /\ LocalsOK' /\ Apart'
  <2>1. ASSUME NEW v \in Thread \ {u}, loc[v].pc \in Owning PROVE SamePage(loc[v].page)
    <3>1. loc[v].page # b
      BY <1>1, <2>1 DEF CacheInv, Apart, Owning
    <3>2. loc[v].page \in Buf
      BY <2>1 DEF CacheInv, LocalsOK, OK
    <3> QED BY <1>9, <3>1, <3>2 DEF SamePage
  <2>2. ASSUME NEW v \in Thread \ {u}, loc[v].pc \in Holding PROVE page'[loc[v].page].life = "cached"
    <3>1. loc[v].page \in Buf /\ page[loc[v].page].life = "cached"
      BY <2>2 DEF CacheInv, LocalsOK, OK
    <3> QED BY <1>6, <1>9, <3>1
  <2>3. OK(u, r, setup', page')
    BY <1>1, <1>2, <1>4 DEF OK, Owning, Holding, Looping, Asking
  <2>4. r.pc \notin Owning
    BY <1>4 DEF Owning
  <2> QED BY <1>1, <1>3, <1>5, <1>7, <1>9, <2>1, <2>2, <2>3, <2>4, Moved DEF CacheInv
<1>12. PagesOK' /\ Blocks'
  BY <1>8, <1>9 DEF CacheInv, PagesOK, Blocks
<1>13. LruOK' /\ DirtiesOK'
  BY <1>1, <1>10 DEF CacheInv, LruOK, DirtiesOK, lists
<1>14. Counted'
  <2>1. r.pc \notin Holding /\ loc[u].pc \notin Holding
    BY <1>1, <1>4 DEF Holding
  <2>2. \A c : Users(c)' = Users(c)
    BY <1>1, <1>3, <1>5, <2>1, UsersSame DEF CacheInv
  <2>3. \A c \in Cached : c \in Buf /\ page'[c].ref = page[c].ref
    BY <1>6, <1>9 DEF Cached
  <2> QED BY <1>1, <1>10, <2>2, <2>3 DEF CacheInv, Counted
<1> QED BY <1>11, <1>12, <1>13, <1>14 DEF CacheInv

(* Nobody who got an idle page still has it, so that it may go. *)
LEMMA IdleUnheld ==
  ASSUME CacheInv, PageCacheAssumption, OneByOne, NEW u \in User, loc[u].pc = "victim",
         NEW b \in Cached, Idle(b), NEW v \in Thread \ {u}, loc[v].pc \in Holding
  PROVE  loc[v].page # b
<1>1. OK(u, loc[u], setup, page) /\ u \in Thread /\ OK(v, loc[v], setup, page) /\ u # Wb
  BY LocOf DEF Thread
<1>2. v \in User /\ v \in setup.users /\ u \in setup.users
  BY <1>1 DEF OK, Holding, Looping, Thread
<1>3. CASE setup.flush \/ setup.wb
  <2>1. u = v
    BY <1>2, <1>3 DEF CacheInv, Types, OneByOne
  <2> QED BY <2>1
<1>4. CASE ~setup.flush /\ ~setup.wb
  <2>1. Cardinality(Users(b)) = 0
    BY <1>4 DEF CacheInv, Counted, Idle
  <2>2. Users(b) = {}
    BY <2>1, UsersFinite, FS_EmptySet
  <2> QED BY <1>2, <2>2 DEF Users
<1> QED BY <1>3, <1>4

LEMMA OldestIs ==
  ASSUME CacheInv, NEW v \in Oldest
  PROVE  v \in Buf /\ v \in Cached /\ page[v].life = "cached" /\ Idle(v)
<1>1. v \in Range(lru) /\ Idle(v)
  BY DEF Oldest, Victims, Range, CacheInv, LruOK, Lists
<1> QED BY <1>1 DEF CacheInv, LruOK, Lists, Cached

LEMMA EvictOneStep ==
  ASSUME CacheInv, PageCacheAssumption, OneByOne, NEW u \in User, EvictOne(u)
  PROVE  CacheInv'
<1>1. u \in Thread /\ u # Wb /\ loc[u].pc = "victim" /\ UNCHANGED <<setup, disk>>
  BY LocOf DEF Thread, EvictOne
<1>2. CASE Victims = {}
  <2>1. PICK pc \in {"direct", "room"} : Goto(u, pc)
    BY <1>2 DEF EvictOne
  <2>2. UNCHANGED <<setup, disk, page, lists>>
    BY <1>1, <1>2 DEF EvictOne
  <2> QED BY <1>1, <2>1, <2>2, Asks
<1>3. CASE Victims # {}
  <2>1. PICK v \in Oldest :
          /\ page' = [page EXCEPT ![v].life = "evicted", ![v].ref = 1, ![v].wb = TRUE]
          /\ lru' = Without(lru, v) /\ pageCount' = pageCount - 1
          /\ dirties' = Without(dirties, v)
          /\ dirtyCount' = dirtyCount - (IF page[v].dirty THEN 1 ELSE 0)
          /\ loc' = [loc EXCEPT ![u].pc = "evict", ![u].page = v, ![u].tries = @ + 1]
    BY <1>3 DEF EvictOne
  <2> DEFINE r == [loc[u] EXCEPT !.pc = "evict", !.page = v, !.tries = loc[u].tries + 1]
             p == [page[v] EXCEPT !.life = "evicted", !.ref = 1, !.wb = TRUE]
  <2>2. v \in Buf /\ v \in Cached /\ page[v].life = "cached" /\ Idle(v)
    BY OldestIs
  <2>3. loc[u] \in LocRec /\ OK(u, loc[u], setup, page)
    BY <1>1, LocOf
  <2>4. r \in LocRec
    <3>1. "evict" \in Pcs /\ loc[u].tries + 1 \in Nat
      BY <2>3 DEF Pcs, Asking, LocRec
    <3> QED BY <2>2, <2>3, <3>1, RecEvict
  <2>5. /\ r.pc = "evict" /\ r.page = v /\ r.op = loc[u].op /\ r.val = loc[u].val
        /\ r.cur = loc[u].cur /\ r.end = loc[u].end
    BY <2>3 DEF LocRec
  <2>6. Turned(u, r)
    <3>1. loc \in [Thread -> LocRec]
      BY <1>1, LocsAre
    <3> QED BY <1>1, <2>1, <3>1 DEF Turned
  <2> HIDE DEF r
  <2>7. page' = [page EXCEPT ![v] = p]
    BY <2>1, <2>2, PageOf
  <2>8. p \in PageRec /\ p.life = "evicted"
    BY <2>2, PageOf DEF PageRec
  <2> HIDE DEF p
  <2>9. page' \in [Buf -> PageRec] /\ page'[v] = p /\ \A c \in Buf : c # v => page'[c] = page[c]
    BY <2>2, <2>7, <2>8, PageMoved DEF CacheInv
  <2>10. Cached' = Cached \ {v} /\ Dirty' = Dirty \ {v}
    BY <2>2, <2>8, <2>9 DEF Cached, Dirty
  <2>11. Types' /\ LocalsOK' /\ Apart'
    <3>1. ASSUME NEW w \in Thread \ {u}, loc[w].pc \in Owning
          PROVE  loc[w].page # v /\ SamePage(loc[w].page)
      <4>1. loc[w].page \in Buf /\ (page[loc[w].page].life # "cached" \/ page[loc[w].page].wb)
        BY <3>1 DEF CacheInv, LocalsOK, OK, Owning
      <4> QED BY <2>2, <2>9, <4>1 DEF SamePage, Idle
    <3>2. ASSUME NEW w \in Thread \ {u}, loc[w].pc \in Holding PROVE page'[loc[w].page].life = "cached"
      <4>1. loc[w].page \in Buf /\ page[loc[w].page].life = "cached"
        BY <3>2 DEF CacheInv, LocalsOK, OK
      <4>2. loc[w].page # v
        BY <1>1, <2>2, <3>2, IdleUnheld
      <4> QED BY <2>9, <4>1, <4>2
    <3>3. OK(u, r, setup', page')
      BY <1>1, <2>2, <2>3, <2>5, <2>8, <2>9 DEF OK, Owning, Holding, Looping, Asking
    <3>4. disk' \in [Lba -> Data]
      BY <1>1, LocOf
    <3> QED BY <1>1, <2>4, <2>5, <2>6, <2>9, <3>1, <3>2, <3>3, <3>4, Moved DEF CacheInv
  <2>12. PagesOK' /\ Blocks'
    BY <2>2, <2>8, <2>9 DEF CacheInv, PagesOK, Blocks
  <2>13. LruOK'
    <3>1. Lists(lru, Cached) /\ pageCount = Len(lru)
      BY DEF CacheInv, LruOK
    <3>2. Lists(Without(lru, v), Cached \ {v}) /\ Len(Without(lru, v)) = Len(lru) - 1
      BY <3>1, <2>2, Removed
    <3> QED BY <2>1, <2>10, <3>1, <3>2 DEF LruOK
  <2>14. DirtiesOK'
    <3>1. Lists(dirties, Dirty) /\ dirtyCount = Len(dirties)
      BY DEF CacheInv, DirtiesOK
    <3>2. CASE page[v].dirty
      <4>1. v \in Dirty
        BY <2>2, <3>2 DEF Dirty
      <4>2. Lists(Without(dirties, v), Dirty \ {v}) /\ Len(Without(dirties, v)) = Len(dirties) - 1
        BY <3>1, <4>1, Removed
      <4> QED BY <2>1, <2>10, <3>1, <3>2, <4>2 DEF DirtiesOK
    <3>3. CASE ~page[v].dirty
      <4>1. v \notin Dirty /\ Dirty \ {v} = Dirty
        BY <3>3 DEF Dirty
      <4>2. Without(dirties, v) = dirties
        BY <3>1, <4>1, Absent
      <4>3. dirtyCount' = dirtyCount
        BY <2>1, <3>1, <3>3 DEF Lists
      <4> QED BY <2>1, <2>10, <3>1, <4>1, <4>2, <4>3 DEF DirtiesOK
    <3> QED BY <3>2, <3>3
  <2>15. Counted'
    <3>1. r.pc \notin Holding /\ loc[u].pc \notin Holding
      BY <1>1, <2>5 DEF Holding
    <3>2. \A c : Users(c)' = Users(c)
      BY <1>1, <2>4, <2>6, <3>1, UsersSame DEF CacheInv
    <3>3. \A c \in Cached \ {v} : c \in Buf /\ page'[c].ref = page[c].ref
      BY <2>9 DEF Cached
    <3> QED BY <1>1, <2>10, <3>2, <3>3 DEF CacheInv, Counted
  <2> QED BY <2>11, <2>12, <2>13, <2>14, <2>15 DEF CacheInv
<1> QED BY <1>2, <1>3

(* The first sector of the page a sector is on. *)
LEMMA PageLbaIs ==
  ASSUME NEW s \in Nat, NEW n \in Nat, n > 0
  PROVE  (s \div n) * n \in 0..s
<1>1. s \div n \in Nat /\ s % n \in 0..(n - 1) /\ s = n * (s \div n) + (s % n)
  OBVIOUS
<1> DEFINE q == s \div n
           m == s % n
<1>2. n * q = q * n /\ q * n \in Nat
  BY <1>1
<1> QED BY <1>1, <1>2

LEMMA AllocPageStep ==
  ASSUME CacheInv, PageCacheAssumption, NEW u \in User, AllocPage(u)
  PROVE  CacheInv'
<1>1. u \in Thread /\ u # Wb /\ loc[u].pc = "alloc" /\ UNCHANGED <<setup, disk, lists>>
  BY LocOf DEF Thread, AllocPage
<1>2. CASE Goto(u, "direct") /\ UNCHANGED page
  BY <1>1, <1>2, Asks
<1>3. CASE ~(Goto(u, "direct") /\ UNCHANGED page)
  <2> DEFINE b == CHOOSE b \in Unallocated : TRUE
             r == [loc[u] EXCEPT !.pc = "fill", !.page = b]
             a == PageLba(loc[u].cur)
             p == [page[b] EXCEPT !.life = "private", !.lba = a]
  <2>1. /\ Unallocated # {}
        /\ page' = [page EXCEPT ![b].life = "private", ![b].lba = a]
        /\ loc' = [loc EXCEPT ![u].pc = "fill", ![u].page = b]
    BY <1>3 DEF AllocPage
  <2>2. b \in Buf /\ page[b].life = "free"
    BY <2>1 DEF Unallocated
  <2> HIDE DEF b
  <2>3. loc[u] \in LocRec /\ OK(u, loc[u], setup, page)
    BY <1>1, LocOf
  <2>4. r \in LocRec
    <3>1. "fill" \in Pcs
      BY DEF Pcs, Owning
    <3> QED BY <2>2, <2>3, <3>1, RecPage
  <2>5. r.pc = "fill" /\ r.page = b /\ r.op = loc[u].op /\ r.val = loc[u].val
    BY <2>3 DEF LocRec
  <2>6. Turned(u, r)
    BY <1>1, <2>1, LocsAre DEF Turned
  <2> HIDE DEF r
  <2>7. a \in Lba
    <3>1. loc[u].cur \in Nat /\ loc[u].cur < Sectors
      BY <1>1, <2>3, LocOf DEF OK, Asking, LocRec
    <3>2. a \in 0..loc[u].cur
      BY <1>1, <3>1, LocOf, PageLbaIs DEF PageLba
    <3> HIDE DEF a
    <3> QED BY <1>1, <3>1, <3>2, LocOf DEF Lba
  <2> HIDE DEF a
  <2>8. page' = [page EXCEPT ![b] = p]
    BY <2>1, <2>2, PageOf
  <2>9. p \in PageRec /\ p.life = "private" /\ p.ref = page[b].ref /\ p.dirty = page[b].dirty /\ p.wb = page[b].wb
    BY <2>2, <2>7, PageOf DEF PageRec
  <2> HIDE DEF p
  <2>10. page' \in [Buf -> PageRec] /\ page'[b] = p /\ \A c \in Buf : c # b => page'[c] = page[c]
    BY <2>2, <2>8, <2>9, PageMoved DEF CacheInv
  <2>11. Cached' = Cached /\ Dirty' = Dirty
    BY <2>2, <2>9, <2>10 DEF Cached, Dirty
  <2>12. Types' /\ LocalsOK' /\ Apart'
    <3>1. ASSUME NEW v \in Thread \ {u}, loc[v].pc \in Owning
          PROVE  loc[v].page # b /\ SamePage(loc[v].page)
      <4>1. loc[v].page \in Buf /\ page[loc[v].page].life # "free"
        BY <3>1 DEF CacheInv, LocalsOK, OK, Owning
      <4> QED BY <2>2, <2>10, <4>1 DEF SamePage
    <3>2. ASSUME NEW v \in Thread \ {u}, loc[v].pc \in Holding PROVE page'[loc[v].page].life = "cached"
      <4>1. loc[v].page \in Buf /\ page[loc[v].page].life = "cached"
        BY <3>2 DEF CacheInv, LocalsOK, OK
      <4> QED BY <2>2, <2>10, <4>1
    <3>3. OK(u, r, setup', page')
      BY <1>1, <2>2, <2>3, <2>5, <2>9, <2>10 DEF OK, Owning, Holding, Looping, Asking
    <3>4. disk' \in [Lba -> Data]
      BY <1>1, LocOf
    <3> QED BY <1>1, <2>4, <2>5, <2>6, <2>10, <3>1, <3>2, <3>3, <3>4, Moved DEF CacheInv
  <2>13. PagesOK' /\ Blocks'
    BY <2>2, <2>9, <2>10 DEF CacheInv, PagesOK, Blocks
  <2>14. LruOK' /\ DirtiesOK'
    BY <1>1, <2>11 DEF CacheInv, LruOK, DirtiesOK, lists
  <2>15. Counted'
    <3>1. r.pc \notin Holding /\ loc[u].pc \notin Holding
      BY <1>1, <2>5 DEF Holding
    <3>2. \A c : Users(c)' = Users(c)
      BY <1>1, <2>4, <2>6, <3>1, UsersSame DEF CacheInv
    <3>3. \A c \in Cached : c \in Buf /\ page'[c].ref = page[c].ref
      BY <2>2, <2>10 DEF Cached
    <3> QED BY <1>1, <2>11, <3>2, <3>3 DEF CacheInv, Counted
  <2> QED BY <2>12, <2>13, <2>14, <2>15 DEF CacheInv
<1> QED BY <1>2, <1>3

LEMMA NoPageIs ==
  ASSUME PageCacheAssumption
  PROVE  NoPage \in PageRec /\ NoPage.life = "free" /\ NoPage.ref = 0 /\ ~NoPage.dirty /\ ~NoPage.wb
BY DEF NoPage, PageRec, Contents, Lba, PageCacheAssumption

LEMMA FillPageStep ==
  ASSUME CacheInv, PageCacheAssumption, NEW u \in User, FillPage(u)
  PROVE  CacheInv'
<1> DEFINE b == loc[u].page
<1>1. u \in Thread /\ u # Wb /\ loc[u].pc = "fill" /\ UNCHANGED <<setup, disk, lists>>
  BY LocOf DEF Thread, FillPage
<1>2. loc[u] \in LocRec /\ OK(u, loc[u], setup, page)
  BY <1>1, LocOf
<1>3. b \in Buf /\ page[b].life = "private"
  BY <1>1, <1>2 DEF OK, Owning
<1>4. disk' \in [Lba -> Data]
  BY <1>1, LocOf
<1>5. CASE /\ InPage(page[b].lba) \subseteq Lba /\ Goto(u, "insert")
           /\ page' = [page EXCEPT ![b].data = [s \in InPage(page[b].lba) |-> disk[s]]]
  <2> DEFINE r == [loc[u] EXCEPT !.pc = "insert"]
             d == [s \in InPage(page[b].lba) |-> disk[s]]
             p == [page[b] EXCEPT !.data = d]
  <2>1. /\ r \in LocRec /\ Turned(u, r) /\ r.pc = "insert" /\ r.op = loc[u].op /\ r.val = loc[u].val
        /\ r.page = b
    <3>1. "insert" \in Pcs
      BY DEF Pcs, Owning
    <3> QED BY <1>1, <1>5, <3>1, GotoIs
  <2>2. page[b] \in PageRec /\ page[b].lba \in Lba
    BY <1>3, PageOf DEF PageRec
  <2>3. d \in Contents
    <3>1. disk \in [Lba -> Data]
      BY <1>1, LocOf
    <3>2. d \in [InPage(page[b].lba) -> Data]
      BY <1>5, <3>1
    <3> HIDE DEF d
    <3> QED BY <2>2, <3>2 DEF Contents
  <2>4. page' = [page EXCEPT ![b] = p]
    BY <1>5
  <2> HIDE DEF d
  <2>5. /\ p \in PageRec /\ p.life = page[b].life /\ p.lba = page[b].lba /\ p.dirty = page[b].dirty
        /\ p.wb = page[b].wb /\ p.ref = page[b].ref
    BY <2>2, <2>3, DataOnly
  <2> HIDE DEF r, p
  <2>6. page' \in [Buf -> PageRec] /\ page'[b] = p /\ \A c \in Buf : c # b => page'[c] = page[c]
    BY <1>3, <2>4, <2>5, PageMoved DEF CacheInv
  <2> HIDE DEF b
  <2>7. \A c \in Buf : Alike(c) /\ SamePage(c) /\ page'[c].ref = page[c].ref
    BY <2>5, <2>6 DEF Alike, SamePage
  <2>8. OK(u, r, setup', page')
    BY <1>1, <1>2, <1>3, <2>1, <2>5, <2>6 DEF OK, Owning, Holding, Looping, Asking
  <2>9. /\ r.pc \notin Holding /\ r.pc \in Owning /\ loc[u].pc \notin Holding /\ loc[u].pc \in Owning
        /\ r.page = loc[u].page
    BY <1>1, <2>1 DEF Owning, Holding, b
  <2> QED BY <1>1, <1>4, <2>1, <2>6, <2>7, <2>8, <2>9, AlikeStep
<1>6. CASE /\ page' = [page EXCEPT ![b] = NoPage]
           /\ loc' = [loc EXCEPT ![u].pc = "direct", ![u].page = NoBuf]
  <2> DEFINE r == [loc[u] EXCEPT !.pc = "direct", !.page = NoBuf]
  <2>1. r \in LocRec
    <3>1. "direct" \in Pcs
      BY DEF Pcs
    <3> QED BY <1>2, <3>1, RecPage
  <2>2. r.pc = "direct" /\ r.op = loc[u].op /\ r.val = loc[u].val
    BY <1>2 DEF LocRec
  <2>3. Turned(u, r)
    BY <1>1, <1>6, LocsAre DEF Turned
  <2> HIDE DEF r
  <2>4. page' \in [Buf -> PageRec] /\ page'[b] = NoPage /\ \A c \in Buf : c # b => page'[c] = page[c]
    BY <1>3, <1>6, NoPageIs, PageMoved DEF CacheInv
  <2>5. Cached' = Cached /\ Dirty' = Dirty
    BY <1>3, <2>4, NoPageIs DEF Cached, Dirty
  <2>6. Types' /\ LocalsOK' /\ Apart'
    <3>1. ASSUME NEW v \in Thread \ {u}, loc[v].pc \in Owning PROVE SamePage(loc[v].page)
      <4>1. loc[v].page # b
        BY <1>1, <3>1 DEF CacheInv, Apart, Owning
      <4>2. loc[v].page \in Buf
        BY <3>1 DEF CacheInv, LocalsOK, OK
      <4> QED BY <2>4, <4>1, <4>2 DEF SamePage
    <3>2. ASSUME NEW v \in Thread \ {u}, loc[v].pc \in Holding PROVE page'[loc[v].page].life = "cached"
      <4>1. loc[v].page \in Buf /\ page[loc[v].page].life = "cached"
        BY <3>2 DEF CacheInv, LocalsOK, OK
      <4> QED BY <1>3, <2>4, <4>1
    <3>3. OK(u, r, setup', page')
      BY <1>1, <1>2, <2>2 DEF OK, Owning, Holding, Looping, Asking
    <3>4. r.pc \notin Owning
      BY <2>2 DEF Owning
    <3> QED BY <1>1, <1>4, <2>1, <2>3, <2>4, <3>1, <3>2, <3>3, <3>4, Moved DEF CacheInv
  <2>7. PagesOK' /\ Blocks'
    BY <2>4, NoPageIs DEF CacheInv, PagesOK, Blocks
  <2>8. LruOK' /\ DirtiesOK'
    BY <1>1, <2>5 DEF CacheInv, LruOK, DirtiesOK, lists
  <2>9. Counted'
    <3>1. r.pc \notin Holding /\ loc[u].pc \notin Holding
      BY <1>1, <2>2 DEF Holding
    <3>2. \A c : Users(c)' = Users(c)
      BY <1>1, <2>1, <2>3, <3>1, UsersSame DEF CacheInv
    <3>3. \A c \in Cached : c \in Buf /\ page'[c].ref = page[c].ref
      BY <1>3, <2>4 DEF Cached
    <3> QED BY <1>1, <2>5, <3>2, <3>3 DEF CacheInv, Counted
  <2> QED BY <2>6, <2>7, <2>8, <2>9 DEF CacheInv
<1> QED BY <1>5, <1>6 DEF FillPage

LEMMA InsertPageStep ==
  ASSUME CacheInv, PageCacheAssumption, NEW u \in User, InsertPage(u)
  PROVE  CacheInv'
<1> DEFINE new == loc[u].page
           found == Hashed(page[new].lba)
<1>1. u \in Thread /\ u # Wb /\ loc[u].pc = "insert" /\ UNCHANGED <<setup, disk, dirties, dirtyCount>>
  BY LocOf DEF Thread, InsertPage
<1>2. loc[u] \in LocRec /\ OK(u, loc[u], setup, page)
  BY <1>1, LocOf
<1>3. /\ new \in Buf /\ page[new].life = "private" /\ ~page[new].dirty
      /\ \A v \in Thread : loc[v].pc \in Holding => loc[v].page # new
      /\ \A v \in Thread \ {u} : loc[v].pc \in Owning => loc[v].page # new
  <2>1. new \in Buf /\ page[new].life = "private"
    BY <1>1, <1>2 DEF OK, Owning
  <2>2. \A v \in Thread \ {u} : loc[v].pc \in Owning => loc[v].page # new
    BY <1>1 DEF CacheInv, Apart, Owning
  <2>3. \A v \in Thread : loc[v].pc \in Holding => loc[v].page # new
    BY <2>1 DEF CacheInv, LocalsOK, OK
  <2> QED BY <2>1, <2>2, <2>3 DEF CacheInv, PagesOK
<1>4. disk' \in [Lba -> Data]
  BY <1>1, LocOf
<1>5. CASE found = {}
  <2> DEFINE r == [loc[u] EXCEPT !.pc = "copy"]
             p == [page[new] EXCEPT !.life = "cached", !.ref = 1]
  <2>1. /\ page' = [page EXCEPT ![new].life = "cached", ![new].ref = 1]
        /\ lru' = <<new>> \o lru /\ pageCount' = pageCount + 1 /\ Goto(u, "copy")
    BY <1>5 DEF InsertPage, Recheck
  <2>2. /\ r \in LocRec /\ Turned(u, r) /\ r.pc = "copy" /\ r.op = loc[u].op /\ r.val = loc[u].val
        /\ r.page = new
    <3>1. "copy" \in Pcs
      BY DEF Pcs, Holding
    <3> QED BY <1>1, <2>1, <3>1, GotoIs
  <2> HIDE DEF r
  <2>3. page' = [page EXCEPT ![new] = p]
    BY <1>3, <2>1, PageOf
  <2>4. p \in PageRec /\ p.life = "cached" /\ p.lba = page[new].lba /\ ~p.dirty /\ p.ref = 1
    BY <1>3, PageOf DEF PageRec
  <2> HIDE DEF p
  <2>5. page' \in [Buf -> PageRec] /\ page'[new] = p /\ \A c \in Buf : c # new => page'[c] = page[c]
    BY <1>3, <2>3, <2>4, PageMoved DEF CacheInv
  <2>6. new \notin Cached /\ Cached' = Cached \cup {new} /\ Dirty' = Dirty
    BY <1>3, <2>4, <2>5 DEF Cached, Dirty
  <2>7. Types' /\ LocalsOK' /\ Apart'
    <3>1. \A v \in Thread \ {u} : loc[v].pc \in Owning => SamePage(loc[v].page)
      BY <1>3, <2>5 DEF SamePage, CacheInv, LocalsOK, OK
    <3>2. \A v \in Thread \ {u} : loc[v].pc \in Holding => page'[loc[v].page].life = "cached"
      BY <1>3, <2>5 DEF CacheInv, LocalsOK, OK
    <3>3. OK(u, r, setup', page')
      BY <1>1, <1>2, <1>3, <2>2, <2>4, <2>5 DEF OK, Owning, Holding, Looping, Asking
    <3>4. r.pc \notin Owning
      BY <2>2 DEF Owning
    <3> QED BY <1>1, <1>4, <2>2, <2>5, <3>1, <3>2, <3>3, <3>4, Moved DEF CacheInv
  <2>8. PagesOK'
    BY <2>4, <2>5 DEF CacheInv, PagesOK
  <2>9. Blocks'
    <3>1. \A c \in Buf : page[c].life = "cached" => page[c].lba # page[new].lba
      BY <1>5 DEF Hashed
    <3>2. \A a, c \in Buf : page[a].life = "cached" /\ page[c].life = "cached" /\ a # c
                            => page[a].lba # page[c].lba
      BY DEF CacheInv, Blocks
    <3> HIDE DEF new
    <3>3. \A c \in Buf : page'[c].lba = page[c].lba /\ (page'[c].life = "cached" => page[c].life = "cached" \/ c = new)
      BY <2>4, <2>5
    <3> QED BY <3>1, <3>2, <3>3 DEF Blocks
  <2>10. LruOK' /\ DirtiesOK'
    <3>1. Lists(lru, Cached) /\ pageCount = Len(lru) /\ Lists(dirties, Dirty) /\ dirtyCount = Len(dirties)
      BY DEF CacheInv, LruOK, DirtiesOK
    <3>2. Lists(<<new>> \o lru, Cached \cup {new}) /\ Len(<<new>> \o lru) = Len(lru) + 1
      BY <1>3, <2>6, <3>1, Added
    <3> QED BY <1>1, <2>1, <2>6, <3>1, <3>2 DEF LruOK, DirtiesOK
  <2>11. Counted'
    <3> SUFFICES ASSUME ~setup.flush, ~setup.wb, NEW c \in Cached \cup {new}
                 PROVE  page'[c].ref = Cardinality(Users(c)')
      BY <1>1, <2>6 DEF Counted
    <3>1. loc[u].pc \notin Holding /\ r.pc \in Holding
      BY <1>1, <2>2 DEF Holding
    <3>2. /\ c # r.page => Cardinality(Users(c)') = Cardinality(Users(c))
          /\ c = r.page => Cardinality(Users(c)') = Cardinality(Users(c)) + 1
      BY <2>2, <3>1, UsersMore DEF CacheInv
    <3>3. CASE c = new
      <4>1. Users(new) = {}
        BY <1>3 DEF Users, Thread
      <4>2. Cardinality(Users(new)) = 0
        BY <4>1, FS_EmptySet
      <4> QED BY <2>2, <2>4, <2>5, <3>2, <3>3, <4>2
    <3>4. CASE c # new
      <4>1. page[c].ref = Cardinality(Users(c)) /\ c \in Buf
        BY <3>4 DEF CacheInv, Counted, Cached
      <4> QED BY <2>2, <2>5, <3>2, <3>4, <4>1
    <3> QED BY <3>3, <3>4
  <2> QED BY <2>7, <2>8, <2>9, <2>10, <2>11 DEF CacheInv
<1>6. CASE found # {}
  <2>1. PICK b \in found :
          /\ page' = [page EXCEPT ![b].ref = @ + 1, ![new] = NoPage]
          /\ lru' = <<b>> \o Without(lru, b) /\ pageCount' = pageCount
          /\ loc' = [loc EXCEPT ![u].pc = "copy", ![u].page = b]
    BY <1>6 DEF InsertPage, Recheck
  <2> DEFINE r == [loc[u] EXCEPT !.pc = "copy", !.page = b]
             p == [page[b] EXCEPT !.ref = page[b].ref + 1]
  <2>2. b \in Buf /\ page[b].life = "cached" /\ b \in Cached /\ b # new
    BY <1>3 DEF Hashed, Cached
  <2>3. r \in LocRec
    <3>1. "copy" \in Pcs
      BY DEF Pcs, Holding
    <3> QED BY <1>2, <2>2, <3>1, RecPage
  <2>4. r.pc = "copy" /\ r.page = b /\ r.op = loc[u].op /\ r.val = loc[u].val
    BY <1>2 DEF LocRec
  <2>5. Turned(u, r)
    BY <1>1, <2>1, LocsAre DEF Turned
  <2>6. /\ p \in PageRec /\ p.life = "cached" /\ p.lba = page[b].lba /\ p.dirty = page[b].dirty
        /\ p.wb = page[b].wb /\ p.ref = page[b].ref + 1
    BY <2>2, PageOf, RefOnly
  <2> HIDE DEF r, found
  <2>7. /\ page' \in [Buf -> PageRec] /\ page'[b] = p /\ page'[new] = NoPage
        /\ \A c \in Buf : c # new /\ c # b => page'[c] = page[c]
    <3>1. page \in [Buf -> PageRec]
      BY <2>2, PageOf
    <3>2. page' = [[page EXCEPT ![b] = p] EXCEPT ![new] = NoPage]
      BY <2>1
    <3> HIDE DEF p, new
    <3> QED BY <1>3, <2>2, <2>6, <3>1, <3>2, NoPageIs
  <2> HIDE DEF p
  <2>8. Cached' = Cached /\ Dirty' = Dirty
    BY <1>3, <2>2, <2>6, <2>7, NoPageIs DEF Cached, Dirty
  <2>9. Types' /\ LocalsOK' /\ Apart'
    <3>1. \A v \in Thread \ {u} : loc[v].pc \in Owning => SamePage(loc[v].page)
      BY <1>3, <2>2, <2>6, <2>7 DEF SamePage, CacheInv, LocalsOK, OK
    <3>2. \A v \in Thread \ {u} : loc[v].pc \in Holding => page'[loc[v].page].life = "cached"
      BY <1>3, <2>2, <2>6, <2>7 DEF CacheInv, LocalsOK, OK
    <3>3. OK(u, r, setup', page')
      BY <1>1, <1>2, <2>2, <2>4, <2>6, <2>7 DEF OK, Owning, Holding, Looping, Asking
    <3>4. r.pc \notin Owning
      BY <2>4 DEF Owning
    <3> QED BY <1>1, <1>4, <2>3, <2>5, <2>7, <3>1, <3>2, <3>3, <3>4, Moved DEF CacheInv
  <2>10. PagesOK' /\ Blocks'
    BY <2>2, <2>6, <2>7, NoPageIs DEF CacheInv, PagesOK, Blocks
  <2>11. LruOK' /\ DirtiesOK'
    BY <1>1, <2>1, <2>2, <2>8, Fronted DEF CacheInv, LruOK, DirtiesOK
  <2>12. Counted'
    <3> SUFFICES ASSUME ~setup.flush, ~setup.wb, NEW c \in Cached
                 PROVE  page'[c].ref = Cardinality(Users(c)')
      BY <1>1, <2>8 DEF Counted
    <3>1. loc[u].pc \notin Holding /\ r.pc \in Holding
      BY <1>1, <2>4 DEF Holding
    <3>2. /\ c # r.page => Cardinality(Users(c)') = Cardinality(Users(c))
          /\ c = r.page => Cardinality(Users(c)') = Cardinality(Users(c)) + 1
      BY <2>3, <2>5, <3>1, UsersMore DEF CacheInv
    <3>3. page[c].ref = Cardinality(Users(c)) /\ c \in Buf /\ c # new
      BY <1>3 DEF CacheInv, Counted, Cached
    <3> QED BY <2>4, <2>6, <2>7, <3>2, <3>3
  <2> QED BY <2>9, <2>10, <2>11, <2>12 DEF CacheInv
<1> QED BY <1>5, <1>6
------------------------------------------------------------------------------
(* The two loops over the dirty list. *)
LEMMA LoopStep ==
  ASSUME CacheInv, PageCacheAssumption, NEW t \in Thread, NEW r \in LocRec, Turned(t, r),
         UNCHANGED <<setup, disk, lists>>, loc[t].pc \in Looping, r.pc \notin Holding,
         NEW b \in Dirty, NEW p \in PageRec, page' = [page EXCEPT ![b] = p],
         p.life = page[b].life, p.lba = page[b].lba, p.dirty = page[b].dirty,
         OK(t, r, setup', page'), r.pc \in Owning => r.page = b,
         \A v \in Thread \ {t} : loc[v].pc \in Owning => loc[v].page # b
  PROVE  CacheInv'
<1>1. b \in Buf /\ page[b].life = "cached" /\ page[b].dirty
  BY DEF Dirty, Cached
<1>2. page' \in [Buf -> PageRec] /\ page'[b] = p /\ \A c \in Buf : c # b => page'[c] = page[c]
  BY <1>1, PageMoved DEF CacheInv
<1>3. \A c \in Buf : Alike(c)
  BY <1>1, <1>2 DEF Alike
<1>4. Cached' = Cached /\ Dirty' = Dirty /\ Blocks'
  BY <1>3, AllAlike
<1>5. Types' /\ LocalsOK' /\ Apart'
  <2>1. ASSUME NEW v \in Thread \ {t}, loc[v].pc \in Owning PROVE SamePage(loc[v].page)
    <3>1. loc[v].page \in Buf /\ loc[v].page # b
      BY <2>1 DEF CacheInv, LocalsOK, OK
    <3> QED BY <1>2, <3>1 DEF SamePage
  <2>2. ASSUME NEW v \in Thread \ {t}, loc[v].pc \in Holding PROVE page'[loc[v].page].life = "cached"
    <3>1. loc[v].page \in Buf /\ page[loc[v].page].life = "cached"
      BY <2>2 DEF CacheInv, LocalsOK, OK
    <3> QED BY <1>3, <3>1 DEF Alike
  <2>3. disk' \in [Lba -> Data]
    BY LocOf
  <2> QED BY <1>2, <2>1, <2>2, <2>3, Moved DEF CacheInv
<1>6. PagesOK'
  BY <1>1, <1>2 DEF CacheInv, PagesOK
<1>7. LruOK' /\ DirtiesOK'
  BY <1>4 DEF CacheInv, LruOK, DirtiesOK, lists
<1>8. Counted'
  <2>1. setup.wb \/ setup.flush
    BY LocOf DEF OK
  <2> QED BY <2>1 DEF Counted
<1> QED BY <1>4, <1>5, <1>6, <1>7, <1>8 DEF CacheInv

LEMMA ClaimStep ==
  ASSUME CacheInv, PageCacheAssumption, NEW t \in Thread, Claim(t)
  PROVE  CacheInv'
<1> DEFINE can == {i \in Onward(t) : Idle(dirties[i])}
<1>1. loc[t].pc = "scan" /\ UNCHANGED <<setup, disk, lists>>
  BY DEF Claim
<1>2. loc[t] \in LocRec /\ OK(t, loc[t], setup, page) /\ disk' \in [Lba -> Data]
  BY <1>1, LocOf
<1>3. CASE Goto(t, "scanned") /\ UNCHANGED page
  <2> DEFINE r == [loc[t] EXCEPT !.pc = "scanned"]
  <2>1. r \in LocRec /\ Turned(t, r) /\ r.pc = "scanned" /\ r.op = loc[t].op
    <3>1. "scanned" \in Pcs
      BY DEF Pcs, Looping
    <3> QED BY <1>3, <3>1, GotoIs
  <2> HIDE DEF r
  <2>2. OK(t, r, setup, page)
    BY <1>1, <1>2, <2>1 DEF OK, Owning, Holding, Looping, Asking
  <2>3. r.pc \notin Owning \cup Holding /\ loc[t].pc \notin Owning \cup Holding
    BY <1>1, <2>1 DEF Owning, Holding
  <2> QED BY <1>1, <1>2, <1>3, <2>1, <2>2, <2>3, Idly
<1>4. CASE ~(Goto(t, "scanned") /\ UNCHANGED page)
  <2>1. PICK i \in can :
          /\ page' = [page EXCEPT ![dirties[i]].ref = 1, ![dirties[i]].wb = TRUE]
          /\ loc' = [loc EXCEPT ![t].pc = "put", ![t].page = dirties[i],
                        ![t].next = IF i < Len(dirties) THEN dirties[i + 1] ELSE NoBuf]
    BY <1>4 DEF Claim
  <2> DEFINE b == dirties[i]
             n == IF i < Len(dirties) THEN dirties[i + 1] ELSE NoBuf
             r == [loc[t] EXCEPT !.pc = "put", !.page = b, !.next = n]
             p == [page[b] EXCEPT !.ref = 1, !.wb = TRUE]
  <2>2. Lists(dirties, Dirty)
    BY DEF CacheInv, DirtiesOK
  <2>3. b \in Dirty /\ n \in Buf \cup {NoBuf} /\ Idle(b)
    BY <2>2 DEF Onward, Lists, Range
  <2>4. b \in Buf /\ page[b].life = "cached" /\ page[b].dirty
    BY <2>3 DEF Dirty, Cached
  <2> HIDE DEF b, n
  <2>5. r \in LocRec
    <3>1. "put" \in Pcs
      BY DEF Pcs, Owning
    <3> QED BY <1>2, <2>3, <2>4, <3>1, RecPut
  <2>6. r.pc = "put" /\ r.page = b /\ r.op = loc[t].op
    BY <1>2 DEF LocRec
  <2>7. Turned(t, r)
    BY <2>1, LocsAre DEF Turned, b, n
  <2>8. page' = [page EXCEPT ![b] = p]
    BY <2>1, <2>4, PageOf DEF b
  <2>9. /\ p \in PageRec /\ p.life = page[b].life /\ p.lba = page[b].lba /\ p.dirty = page[b].dirty
        /\ p.wb
    BY <2>4, PageOf DEF PageRec
  <2> HIDE DEF r, p
  <2>10. page'[b] = p
    BY <2>4, <2>8, <2>9, PageMoved DEF CacheInv
  <2>11. OK(t, r, setup', page')
    BY <1>1, <1>2, <2>4, <2>6, <2>9, <2>10 DEF OK, Owning, Holding, Looping, Asking
  <2>12. ASSUME NEW v \in Thread \ {t}, loc[v].pc \in Owning PROVE loc[v].page # b
    <3>1. page[loc[v].page].life # "cached" \/ page[loc[v].page].wb
      BY <2>12 DEF CacheInv, LocalsOK, OK, Owning
    <3> QED BY <2>3, <2>4, <3>1 DEF Idle
  <2>13. loc[t].pc \in Looping /\ r.pc \notin Holding
    BY <1>1, <2>6 DEF Looping, Holding
  <2> QED BY <1>1, <2>3, <2>5, <2>6, <2>7, <2>8, <2>9, <2>11, <2>12, <2>13, LoopStep
<1> QED BY <1>3, <1>4

(* The page a writing thread has in its hands. *)
LEMMA PutOf ==
  ASSUME CacheInv, NEW t \in Thread, loc[t].pc \in {"clean", "keep"}
  PROVE  /\ loc[t].page \in Dirty /\ \A v \in Thread \ {t} : loc[v].pc \in Owning => loc[v].page # loc[t].page
<1>1. loc[t].pc \in Owning
  BY DEF Owning
<1> QED BY <1>1 DEF CacheInv, Apart, LocalsOK, OK, Dirty, Cached

LEMMA KeepDirtyStep ==
  ASSUME CacheInv, PageCacheAssumption, NEW t \in Thread, KeepDirty(t)
  PROVE  CacheInv'
<1> DEFINE b == loc[t].page
           r == [loc[t] EXCEPT !.pc = "scan", !.page = NoBuf]
           p == [page[b] EXCEPT !.wb = FALSE, !.ref = 0]
<1>1. loc[t].pc = "keep" /\ UNCHANGED <<setup, disk, lists>>
  BY DEF KeepDirty
<1>2. loc[t] \in LocRec /\ OK(t, loc[t], setup, page)
  BY <1>1, LocOf
<1>3. b \in Dirty /\ b \in Buf /\ \A v \in Thread \ {t} : loc[v].pc \in Owning => loc[v].page # b
  BY <1>1, PutOf DEF Dirty, Cached
<1>4. r \in LocRec
  <2>1. "scan" \in Pcs
    BY DEF Pcs, Looping
  <2> QED BY <1>2, <2>1, RecPage
<1>5. r.pc = "scan" /\ r.op = loc[t].op
  BY <1>2 DEF LocRec
<1>6. Turned(t, r)
  BY LocsAre DEF Turned, KeepDirty
<1>7. page' = [page EXCEPT ![b] = p]
  BY <1>3, PageOf DEF KeepDirty
<1>8. p \in PageRec /\ p.life = page[b].life /\ p.lba = page[b].lba /\ p.dirty = page[b].dirty
  BY <1>3, PageOf DEF PageRec
<1> HIDE DEF r, p
<1>9. OK(t, r, setup', page')
  BY <1>1, <1>2, <1>5 DEF OK, Owning, Holding, Looping, Asking
<1>10. loc[t].pc \in Looping /\ r.pc \notin Holding /\ r.pc \notin Owning
  BY <1>1, <1>5 DEF Looping, Holding, Owning
<1> HIDE DEF b
<1> QED BY <1>1, <1>3, <1>4, <1>6, <1>7, <1>8, <1>9, <1>10, LoopStep

LEMMA MarkCleanStep ==
  ASSUME CacheInv, PageCacheAssumption, NEW t \in Thread, MarkClean(t)
  PROVE  CacheInv'
<1> DEFINE b == loc[t].page
           k == loc[t].flushed + 1
           r == [loc[t] EXCEPT !.pc = "scan", !.page = NoBuf, !.flushed = k]
           p == Cleaned(page[b])
<1>1. loc[t].pc = "clean" /\ UNCHANGED <<setup, disk, lru, pageCount>>
  BY DEF MarkClean
<1>2. loc[t] \in LocRec /\ OK(t, loc[t], setup, page) /\ k \in Nat
  BY <1>1, LocOf DEF LocRec
<1>3. b \in Dirty /\ b \in Buf /\ \A v \in Thread \ {t} : loc[v].pc \in Owning => loc[v].page # b
  BY <1>1, PutOf DEF Dirty, Cached
<1>4. r \in LocRec
  <2>1. "scan" \in Pcs
    BY DEF Pcs, Looping
  <2> HIDE DEF k
  <2> QED BY <1>2, <2>1, RecCleaned
<1>5. r.pc = "scan" /\ r.op = loc[t].op
  BY <1>2 DEF LocRec
<1>6. Turned(t, r)
  BY LocsAre DEF Turned, MarkClean
<1>7. page' = [page EXCEPT ![b] = p]
  BY DEF MarkClean
<1>8. p \in PageRec /\ p.life = page[b].life /\ p.lba = page[b].lba /\ ~p.dirty
  BY <1>3, PageOf DEF PageRec, Cleaned
<1> HIDE DEF r, p
<1>9. OK(t, r, setup', page')
  BY <1>1, <1>2, <1>5 DEF OK, Owning, Holding, Looping, Asking
<1>10. loc[t].pc \in Looping /\ r.pc \notin Holding /\ r.pc \notin Owning
  BY <1>1, <1>5 DEF Looping, Holding, Owning
<1>11. dirties' = Without(dirties, b) /\ dirtyCount' = dirtyCount - 1
  BY DEF MarkClean
<1> HIDE DEF b
<1>12. page' \in [Buf -> PageRec] /\ page'[b] = p /\ \A c \in Buf : c # b => page'[c] = page[c]
  BY <1>3, <1>7, <1>8, PageMoved DEF CacheInv
<1>13. page[b].life = "cached" /\ Cached' = Cached /\ Dirty' = Dirty \ {b}
  BY <1>3, <1>8, <1>12 DEF Cached, Dirty
<1>14. Types' /\ LocalsOK' /\ Apart'
  <2>1. ASSUME NEW v \in Thread \ {t}, loc[v].pc \in Owning PROVE SamePage(loc[v].page)
    <3>1. loc[v].page \in Buf /\ loc[v].page # b
      BY <1>3, <2>1 DEF CacheInv, LocalsOK, OK
    <3> QED BY <1>12, <3>1 DEF SamePage
  <2>2. ASSUME NEW v \in Thread \ {t}, loc[v].pc \in Holding PROVE page'[loc[v].page].life = "cached"
    <3>1. loc[v].page \in Buf /\ page[loc[v].page].life = "cached"
      BY <2>2 DEF CacheInv, LocalsOK, OK
    <3> QED BY <1>8, <1>12, <1>13, <3>1
  <2>3. disk' \in [Lba -> Data]
    BY <1>1, LocOf
  <2> QED BY <1>1, <1>4, <1>6, <1>9, <1>10, <1>12, <2>1, <2>2, <2>3, Moved DEF CacheInv
<1>15. PagesOK' /\ Blocks'
  BY <1>3, <1>8, <1>12, <1>13 DEF CacheInv, PagesOK, Blocks
<1>16. LruOK' /\ DirtiesOK'
  <2>1. Lists(lru, Cached) /\ pageCount = Len(lru) /\ Lists(dirties, Dirty) /\ dirtyCount = Len(dirties)
    BY DEF CacheInv, LruOK, DirtiesOK
  <2>2. Lists(Without(dirties, b), Dirty \ {b}) /\ Len(Without(dirties, b)) = Len(dirties) - 1
    BY <1>3, <2>1, Removed
  <2> QED BY <1>1, <1>11, <1>13, <2>1, <2>2 DEF LruOK, DirtiesOK
<1>17. Counted'
  <2>1. setup.wb \/ setup.flush
    BY <1>2, <1>10 DEF OK
  <2> QED BY <1>1, <2>1 DEF Counted
<1> QED BY <1>14, <1>15, <1>16, <1>17 DEF CacheInv
------------------------------------------------------------------------------
LEMMA InitStep ==
  ASSUME PageCacheAssumption, CacheInit
  PROVE  CacheInv
<1>1. Types
  <2>1. "done" \in {"read", "write", "done", "failed"} /\ 0 \in Nat
    OBVIOUS
  <2>2. Ended("done") \in LocRec
    BY <2>1, EndedIs
  <2>3. (CHOOSE d \in Data : TRUE) \in Data
    BY DEF PageCacheAssumption
  <2> QED BY <2>2, <2>3, NoPageIs DEF Types, CacheInit
<1>2. \A b \in Buf : page[b] = NoPage
  BY DEF CacheInit
<1>3. PagesOK /\ Blocks /\ Cached = {} /\ Dirty = {}
  BY <1>2, NoPageIs DEF PagesOK, Blocks, Cached, Dirty
<1>4. LruOK /\ DirtiesOK
  <2>1. lru = <<>> /\ dirties = <<>> /\ pageCount = 0 /\ dirtyCount = 0
    BY DEF CacheInit
  <2>2. <<>> \in Seq(Buf) /\ IsInjective(<<>>) /\ Range(<<>>) = {} /\ Len(<<>>) = 0
    BY DEF IsInjective, Range
  <2> QED BY <1>3, <2>1, <2>2 DEF LruOK, DirtiesOK, Lists
<1>5. \A t \in Thread : loc[t].pc = "idle" /\ loc[t].op = "done"
  BY DEF CacheInit, Ended
<1>6. LocalsOK /\ Apart
  BY <1>5 DEF LocalsOK, OK, Apart, Owning, Holding, Looping, Asking
<1>7. Counted
  BY <1>3 DEF Counted
<1> QED BY <1>1, <1>3, <1>4, <1>6, <1>7 DEF CacheInv

LEMMA Stutter ==
  ASSUME CacheInv, UNCHANGED cacheVars
  PROVE  CacheInv'
BY DEF CacheInv, cacheVars, Types, PagesOK, Blocks, LruOK, DirtiesOK, Cached, Dirty,
       LocalsOK, Apart, Counted, Users

LEMMA CacheStep ==
  ASSUME CacheInv, PageCacheAssumption, OneByOne, [CacheNext]_cacheVars
  PROVE  CacheInv'
<1>1. ASSUME NEW u \in User, NEW q \in setup.requests, Request(u, "read", q[1], q[2], NoData)
      PROVE  CacheInv'
  BY <1>1, RequestStep
<1>2. ASSUME NEW u \in User, NEW q \in setup.requests, NEW v \in Data,
             Request(u, "write", q[1], q[2], v)
      PROVE  CacheInv'
  BY <1>2, RequestStep
<1>3. ASSUME NEW u \in User, Access(u) PROVE CacheInv'
  <2>1. ASSUME NEW b \in Buf, GetCached(u, b) PROVE CacheInv'
    BY <2>1, GetCachedStep
  <2>2. CASE Miss(u)
    BY <2>2, MissStep
  <2>3. CASE EnsureRoom(u)
    BY <2>3, EnsureRoomStep
  <2>4. CASE EvictOne(u)
    BY <2>4, EvictOneStep
  <2>5. CASE EvictWrite(u)
    BY <2>5, EvictWriteStep
  <2>6. CASE AllocPage(u)
    BY <2>6, AllocPageStep
  <2>7. CASE FillPage(u)
    BY <2>7, FillPageStep
  <2>8. CASE InsertPage(u)
    BY <2>8, InsertPageStep
  <2>9. CASE CopyOut(u)
    BY <2>9, CopyOutStep
  <2>10. CASE CopyIn(u)
    BY <2>10, CopyInStep
  <2>11. CASE MarkDirty(u)
    BY <2>11, MarkDirtyStep
  <2>12. CASE Release(u)
    BY <2>12, ReleaseStep
  <2>13. CASE Direct(u)
    BY <2>13, DirectStep
  <2>14. CASE Finish(u)
    BY <2>14, FinishStep
  <2> QED BY <1>3, <2>1, <2>2, <2>3, <2>4, <2>5, <2>6, <2>7, <2>8, <2>9, <2>10, <2>11, <2>12,
             <2>13, <2>14 DEF Access
<1>4. ASSUME NEW u \in User, FlushAll(u) PROVE CacheInv'
  BY <1>4, FlushAllStep
<1>5. CASE WritebackWakes
  BY <1>5, WritebackWakesStep
<1>6. ASSUME NEW t \in Thread,
             Claim(t) \/ PutPage(t) \/ MarkClean(t) \/ KeepDirty(t) \/ EndScan(t)
      PROVE  CacheInv'
  BY <1>6, ClaimStep, PutPageStep, MarkCleanStep, KeepDirtyStep, EndScanStep
<1>7. CASE UNCHANGED cacheVars
  BY <1>7, Stutter
<1> QED BY <1>1, <1>2, <1>3, <1>4, <1>5, <1>6, <1>7 DEF CacheNext

(* The inductive invariant of the cache, in every reachable state. *)
THEOREM CacheInductive ==
  ASSUME PageCacheAssumption, OneByOne
  PROVE  CacheSpec => []CacheInv
<1>1. CacheInit => CacheInv
  BY InitStep
<1>2. CacheInv /\ [CacheNext]_cacheVars => CacheInv'
  BY CacheStep
<1> QED BY <1>1, <1>2, PTL DEF CacheSpec

(* The structures, the lists and every thread's locals keep their types.       *)
THEOREM CacheTypeCorrect ==
  ASSUME PageCacheAssumption, OneByOne
  PROVE  CacheSpec => []CacheTypeOK
<1>1. ASSUME CacheInv PROVE CacheTypeOK
  <2>1. pageCount \in Nat /\ dirtyCount \in Nat /\ lru \in Seq(Buf) /\ dirties \in Seq(Buf)
    BY <1>1 DEF CacheInv, LruOK, DirtiesOK, Lists
  <2>2. \A b \in Buf : page[b] \in PageRec
    BY <1>1 DEF CacheInv, Types
  <2>3. \A t \in Thread : loc[t] \in LocRec
    BY <1>1 DEF CacheInv, Types
  <2>4. \A t \in Thread : loc[t].page \in Buf \cup {NoBuf} /\ loc[t].cur \in 0..Sectors
    BY <2>3 DEF LocRec
  <2>5. \A b \in Buf : /\ page[b].life \in {"free", "private", "cached", "evicted"}
                       /\ page[b].ref \in Nat /\ page[b].lba \in Lba
                       /\ page[b].dirty \in BOOLEAN /\ page[b].wb \in BOOLEAN
    BY <2>2 DEF PageRec
  <2> QED BY <1>1, <2>1, <2>4, <2>5 DEF CacheInv, Types, CacheTypeOK
<1> QED BY <1>1, CacheInductive, PTL

(* The hash, the LRU list, the dirty list, the flags and both counters agree   *)
(* at every moment, however many threads miss, evict and insert at once.       *)
THEOREM ListsAgreeAlways ==
  ASSUME PageCacheAssumption, OneByOne
  PROVE  CacheSpec => []ListsAgree
<1>1. ASSUME CacheInv PROVE ListsAgree
  <2>1. Lists(lru, Cached) /\ pageCount = Len(lru) /\ Lists(dirties, Dirty) /\ dirtyCount = Len(dirties)
    BY <1>1 DEF CacheInv, LruOK, DirtiesOK
  <2> QED BY <1>1, <2>1 DEF CacheInv, Blocks, Lists, Cached, Dirty, ListsAgree
<1> QED BY <1>1, CacheInductive, PTL
------------------------------------------------------------------------------
(* The cache implements the plain disk of BlockStore.  Hypotheses: one thread  *)
(* reads, writes and flushes, and the write-back thread does not run; no write *)
(* to the disk fails, and other faults come with a cache of a page at most; a  *)
(* PCachePage is to be had for every page the cache may hold.                  *)
Alone == /\ IsFiniteSet(Buf)
         /\ \A s \in Setups : /\ \E u \in User : s.users = {u}
                              /\ ~s.wb /\ "write" \notin s.faults
                              /\ s.faults # {} => s.size <= 1
                              /\ s.size <= Cardinality(Buf)

Me == CHOOSE u \in User : setup.users = {u}
at == loc[Me]

(* The pages a reader sees, and what the disk holds of a page.                 *)
Live == {b \in Buf : page[b].life \in {"cached", "evicted"}}
OnDisk(l) == [s \in InPage(l) |-> disk[s]]
Whole(b) == /\ page[b].lba = PageLba(page[b].lba) /\ InPage(page[b].lba) \subseteq Lba
            /\ page[b].data \in [InPage(page[b].lba) -> Data]
Fresh(b) == page[b].data = OnDisk(page[b].lba)

AllWhole == \A b \in Live : Whole(b)
OnePage == \A a, b \in Live : page[a].lba = page[b].lba => a = b
CleanFresh == \A b \in Live : page[b].dirty \/ (at.pc = "mark" /\ at.page = b) \/ Fresh(b)

(* A page is at rest, or it is the one the thread works on.                    *)
InHand == Holding \cup {"put", "clean", "keep"}
AtRest == \A b \in Buf :
            /\ page[b].life = "cached" => Idle(b) \/ (at.pc \in InHand /\ at.page = b)
            /\ page[b].life = "evicted" => at.pc = "evict" /\ at.page = b
            /\ page[b].life = "private" => at.pc \in {"fill", "insert"} /\ at.page = b
Few == pageCount <= setup.size

(* What the thread's place in the code says of its request. *)
Missed == {"room", "victim", "evict", "alloc", "fill", "insert"}
Place ==
  /\ at.pc \in Looping \cup {"idle"} => at.cur = 0 /\ at.end = 0 /\ at.val = NoData
  /\ at.pc \in Missed \cup {"lookup", "copy", "direct"} => at.cur < at.end
  /\ at.pc \in {"mark", "release"} => at.cur <= at.end
  /\ at.pc = "finish" => at.cur = at.end
  /\ at.pc \in Missed => \A b \in Live : page[b].lba # PageLba(at.cur)
  /\ at.pc \in {"fill", "insert", "copy"} => page[at.page].lba = PageLba(at.cur)
  /\ at.pc = "insert" => Whole(at.page) /\ Fresh(at.page)
  /\ at.pc = "clean" => Fresh(at.page)
  /\ at.pc # "keep"
  /\ at.pc \in Holding => page[at.page].ref = 1 /\ ~page[at.page].wb
  /\ at.pc = "room" => at.tries = 0 \/ pageCount < setup.size
  /\ at.pc = "victim" => pageCount >= setup.size /\ setup.size > 0
  /\ at.pc \in {"evict", "alloc", "fill", "insert"} => pageCount < setup.size
  /\ at.pc = "direct" => \A s \in at.cur..(at.end - 1), b \in Live : page[b].lba # PageLba(s)

AloneInv == CacheInv /\ AllWhole /\ OnePage /\ CleanFresh /\ AtRest /\ Few /\ Place

AloneRest == AllWhole /\ OnePage /\ CleanFresh /\ AtRest /\ Few /\ Place
------------------------------------------------------------------------------
(* Sectors and the first sectors of their pages. *)
LEMMA Times ==
  ASSUME NEW n \in Nat, NEW d \in Nat, d > 0
  PROVE  n * d >= n /\ d * n >= n
<1>1. d - 1 \in Nat
  OBVIOUS
<1>2. n * (d - 1) >= 0
  BY <1>1
<1>3. n * d = n * (d - 1) + n
  OBVIOUS
<1>4. n * d = d * n
  OBVIOUS
<1> QED BY <1>2, <1>3, <1>4

LEMMA DivIs ==
  ASSUME NEW s \in Nat, NEW n \in Nat, n > 0
  PROVE  /\ s \div n \in Nat /\ (s \div n) * n \in Nat
         /\ (s \div n) * n <= s /\ s < (s \div n) * n + n
<1>1. s \div n \in Nat /\ s % n \in 0..(n - 1) /\ s = n * (s \div n) + (s % n)
  OBVIOUS
<1> DEFINE q == s \div n
           m == s % n
<1>2. n * q = q * n /\ q * n \in Nat
  BY <1>1
<1> QED BY <1>1, <1>2

LEMMA DivUnique ==
  ASSUME NEW s \in Nat, NEW n \in Nat, n > 0, NEW k \in Nat, k * n <= s, s < k * n + n
  PROVE  s \div n = k
<1> DEFINE q == s \div n
<1>1. q \in Nat /\ q * n <= s /\ s < q * n + n
  BY DivIs
<1> HIDE DEF q
<1>2. CASE q < k
  <2>1. (k - q) * n >= n
    BY <1>1, <1>2, Times
  <2>2. (k - q) * n = k * n - q * n
    BY <1>1
  <2> QED BY <1>1, <2>1, <2>2
<1>3. CASE k < q
  <2>1. (q - k) * n >= n
    BY <1>1, <1>3, Times
  <2>2. (q - k) * n = q * n - k * n
    BY <1>1
  <2> QED BY <1>1, <2>1, <2>2
<1> QED BY <1>1, <1>2, <1>3 DEF q

LEMMA DivMono ==
  ASSUME NEW s \in Nat, NEW t \in Nat, NEW n \in Nat, n > 0, s <= t
  PROVE  (s \div n) * n <= (t \div n) * n
<1> DEFINE q == s \div n
           k == t \div n
<1>1. q \in Nat /\ q * n <= s /\ s < q * n + n /\ q * n \in Nat
  BY DivIs
<1>2. k \in Nat /\ k * n <= t /\ t < k * n + n /\ k * n \in Nat
  BY DivIs
<1> HIDE DEF q, k
<1>3. CASE k < q
  <2>1. (q - k) * n >= n
    BY <1>1, <1>2, <1>3, Times
  <2>2. (q - k) * n = q * n - k * n
    BY <1>1, <1>2
  <2> QED BY <1>1, <1>2, <2>1, <2>2
<1>4. CASE q <= k
  <2>1. (k - q) * n >= 0
    BY <1>1, <1>2, <1>4
  <2>2. (k - q) * n = k * n - q * n
    BY <1>1, <1>2
  <2>3. q * n <= k * n
    BY <1>1, <1>2, <2>1, <2>2
  <2> QED BY <2>3 DEF q, k
<1> QED BY <1>1, <1>2, <1>3, <1>4

LEMMA PageLbaOf ==
  ASSUME PageCacheAssumption, NEW s \in Lba
  PROVE  /\ s \in Nat /\ s < Sectors /\ PageLba(s) \in Lba /\ PageLba(s) <= s
         /\ s < PageLba(s) + SectorsPerPage /\ PageLba(s) \in Nat
         /\ s \in InPage(PageLba(s)) /\ PageLba(PageLba(s)) = PageLba(s)
<1> DEFINE n == SectorsPerPage
           k == s \div n
           l == PageLba(s)
<1>1. s \in Nat /\ s < Sectors /\ n \in Nat /\ n > 0 /\ Sectors \in Nat
  BY DEF PageCacheAssumption, Lba
<1>2. k \in Nat /\ l = k * n /\ l \in Nat /\ l <= s /\ s < l + n
  BY <1>1, DivIs DEF PageLba
<1>3. l \div n = k
  <2>1. k * n <= l /\ l < k * n + n
    BY <1>1, <1>2
  <2> HIDE DEF k, l
  <2> QED BY <1>1, <1>2, <2>1, DivUnique
<1>4. PageLba(l) = (l \div n) * n
  BY DEF PageLba
<1> HIDE DEF k, l
<1>5. PageLba(l) = l
  BY <1>2, <1>3, <1>4
<1>6. l \in Lba /\ s \in InPage(l)
  BY <1>1, <1>2 DEF Lba, InPage
<1> QED BY <1>1, <1>2, <1>5, <1>6 DEF l

LEMMA SamePageLba ==
  ASSUME PageCacheAssumption, NEW l \in Lba, PageLba(l) = l, NEW s \in InPage(l)
  PROVE  PageLba(s) = l
<1> DEFINE n == SectorsPerPage
           k == l \div n
<1>1. l \in Nat /\ n \in Nat /\ n > 0
  BY DEF PageCacheAssumption, Lba
<1>2. k \in Nat /\ l = k * n
  BY <1>1, DivIs DEF PageLba
<1> HIDE DEF k
<1>3. s \in Nat /\ k * n <= s /\ s < k * n + n
  BY <1>1, <1>2 DEF InPage
<1>4. s \div n = k
  BY <1>1, <1>2, <1>3, DivUnique
<1> QED BY <1>2, <1>4 DEF PageLba

LEMMA PageLbaMono ==
  ASSUME PageCacheAssumption, NEW s \in Nat, NEW t \in Nat, s <= t
  PROVE  PageLba(s) <= PageLba(t)
BY DivMono DEF PageLba, PageCacheAssumption
------------------------------------------------------------------------------
(* The one thread. *)
LEMMA Solo ==
  ASSUME CacheInv, PageCacheAssumption, Alone
  PROVE  /\ Me \in User /\ Me \in Thread /\ Me # Wb /\ setup.users = {Me}
         /\ ~setup.wb /\ "write" \notin setup.faults
         /\ (setup.faults # {} => setup.size <= 1) /\ setup.size <= Cardinality(Buf)
         /\ setup.size \in Nat
         /\ at \in LocRec /\ OK(Me, at, setup, page)
         /\ \A t \in Thread : loc[t].pc # "idle" \/ t \in setup.users => t = Me
<1>1. setup \in Setups
  BY DEF CacheInv, Types
<1>2. Me \in User /\ setup.users = {Me}
  BY <1>1 DEF Alone, Me
<1>3. Me \in Thread /\ Me # Wb
  BY <1>2 DEF Thread, PageCacheAssumption
<1>4. at \in LocRec /\ OK(Me, at, setup, page)
  BY <1>3, LocOf DEF at
<1>5. ASSUME NEW t \in Thread, loc[t].pc # "idle" \/ t \in setup.users PROVE t = Me
  BY <1>1, <1>2, <1>5, LocOf DEF OK, Alone
<1>6. setup.size \in Nat
  BY SetupIs DEF CacheInv
<1> QED BY <1>1, <1>2, <1>3, <1>4, <1>5, <1>6 DEF Alone

LEMMA Turns ==
  ASSUME CacheInv, PageCacheAssumption, Alone, NEW r \in LocRec, Turned(Me, r), setup' = setup
  PROVE  Me' = Me /\ at' = r
<1>1. Me' = Me
  BY DEF Me
<1>2. Me \in Thread /\ loc \in [Thread -> LocRec]
  BY Solo DEF CacheInv, Types
<1> QED BY <1>1, <1>2 DEF at, Turned

(* What a reader sees. *)
Seen(b) == /\ b \in Live' <=> b \in Live
           /\ b \in Live => page'[b].lba = page[b].lba /\ page'[b].data = page[b].data

TheOne(S) == CHOOSE b \in S : TRUE
Holds(pg, s) == {b \in Buf : pg[b].life \in {"cached", "evicted"} /\ pg[b].lba = PageLba(s)}
Shown(pg, dk, s) == IF Holds(pg, s) = {} THEN dk[s] ELSE pg[TheOne(Holds(pg, s))].data[s]

LEMMA CurrentIs ==
  /\ Current = [s \in Lba |-> Shown(page, disk, s)]
  /\ Current' = [s \in Lba |-> Shown(page', disk', s)]
BY DEF Current, Shown, Holds, TheOne

LEMMA SeenSame ==
  ASSUME disk' = disk, \A b \in Buf : Seen(b)
  PROVE  Current' = Current
<1>1. ASSUME NEW s PROVE Holds(page', s) = Holds(page, s)
  BY DEF Holds, Seen, Live
<1>2. ASSUME NEW s PROVE Shown(page', disk', s) = Shown(page, disk, s)
  <2>1. CASE Holds(page, s) = {}
    BY <1>1, <2>1 DEF Shown
  <2>2. CASE Holds(page, s) # {}
    <3>1. TheOne(Holds(page, s)) \in Holds(page, s)
      BY <2>2 DEF TheOne
    <3>2. page'[TheOne(Holds(page, s))].data = page[TheOne(Holds(page, s))].data
      BY <3>1 DEF Holds, Seen, Live
    <3> QED BY <1>1, <2>2, <3>2 DEF Shown
  <2> QED BY <2>1, <2>2
<1> QED BY <1>2, CurrentIs

Only(pg, s, b) == Holds(pg, s) = {b}

LEMMA HeldBy ==
  ASSUME OnePage, NEW s, NEW b \in Live, page[b].lba = PageLba(s)
  PROVE  Only(page, s, b)
BY DEF OnePage, Holds, Live, Only

LEMMA HeldByNext ==
  ASSUME OnePage', NEW s, NEW b \in Live', page'[b].lba = PageLba(s)
  PROVE  Only(page', s, b)
BY DEF OnePage, Holds, Live, Only

LEMMA ShownOn ==
  ASSUME NEW pg, NEW dk, NEW s, NEW b, Only(pg, s, b)
  PROVE  Shown(pg, dk, s) = pg[b].data[s]
<1>1. TheOne({b}) = b
  BY DEF TheOne
<1> QED BY <1>1 DEF Shown, Only

LEMMA ShownOff ==
  ASSUME NEW pg, NEW dk, NEW s, Holds(pg, s) = {}
  PROVE  Shown(pg, dk, s) = dk[s]
BY DEF Shown

LEMMA SeenInv ==
  ASSUME AllWhole, OnePage, \A b \in Buf : Seen(b)
  PROVE  AllWhole' /\ OnePage' /\ Live' = Live
<1>1. Live' = Live
  BY DEF Seen, Live
<1>2. \A b \in Live : page'[b].lba = page[b].lba /\ page'[b].data = page[b].data
  BY DEF Seen, Live
<1> QED BY <1>1, <1>2 DEF AllWhole, OnePage, Whole

(* The request of the thread, as BlockStore sees it. *)
Part(r) == [op |-> r.op, cur |-> r.cur, end |-> r.end, val |-> r.val]

LEMMA PendingIs ==
  ASSUME CacheInv, NEW u \in User, NEW r \in LocRec, Turned(u, r)
  PROVE  Pending' = [Pending EXCEPT ![u] = Part(r)] /\ Pending[u] = Part(loc[u])
<1>1. \A v \in User : loc'[v] = IF v = u THEN r ELSE loc[v]
  BY DEF CacheInv, Types, Turned, Thread
<1> QED BY <1>1 DEF Pending, Part

LEMMA PendingSame ==
  ASSUME CacheInv, NEW u \in User, NEW r \in LocRec, Turned(u, r),
         r.op = loc[u].op, r.cur = loc[u].cur, r.end = loc[u].end, r.val = loc[u].val
  PROVE  Pending' = Pending
<1>1. \A v \in User : loc'[v] = IF v = u THEN r ELSE loc[v]
  BY DEF CacheInv, Types, Turned, Thread
<1> QED BY <1>1 DEF Pending
------------------------------------------------------------------------------
(* The steps of BlockStore. *)
LEMMA Asked ==
  ASSUME NEW u \in User, NEW op \in {"read", "write"}, NEW lo \in 0..Sectors, NEW hi \in 0..Sectors,
         NEW v \in Data \cup {NoData}, Pending[u].op \in {"done", "failed"},
         Pending' = [Pending EXCEPT ![u] = [op |-> op, cur |-> lo, end |-> hi, val |-> v]],
         Pending'[u].op = op, answer' = [answer EXCEPT ![u] = [s \in Lba |-> NoData]],
         Current' = Current
  PROVE  Store!StoreNext
<1>1. Pending'[u] # Pending[u]
  OBVIOUS
<1>2. Store!Ask(u, op, lo, hi, v)
  BY DEF Store!Ask, Store!Outcome, Store!NothingRead, Store!Lba, Lba
<1> QED BY <1>1, <1>2 DEF Store!StoreNext

LEMMA ReadServed ==
  ASSUME NEW u \in User, NEW n \in 1..Sectors, Pending[u].op = "read",
         n \in (Pending[u].cur + 1)..Pending[u].end, Pending[u].cur \in Nat,
         Pending' = [Pending EXCEPT ![u].cur = n], Pending'[u].cur = n,
         answer' = [answer EXCEPT ![u] =
                      [s \in Lba |-> IF s \in Pending[u].cur..(n - 1) THEN Current[s] ELSE @[s]]],
         Current' = Current
  PROVE  Store!StoreNext
<1>1. Pending'[u] # Pending[u]
  <2>1. n # Pending[u].cur
    OBVIOUS
  <2> QED BY <2>1
<1>2. Store!Serve(u, n)
  BY DEF Store!Serve, Store!Lba, Lba
<1> QED BY <1>1, <1>2 DEF Store!StoreNext

LEMMA WriteServed ==
  ASSUME NEW u \in User, NEW n \in 1..Sectors, Pending[u].op = "write",
         n \in (Pending[u].cur + 1)..Pending[u].end, Pending[u].cur \in Nat,
         Pending' = [Pending EXCEPT ![u].cur = n], Pending'[u].cur = n, answer' = answer,
         Current' = [s \in Lba |-> IF s \in Pending[u].cur..(n - 1) THEN Pending[u].val ELSE Current[s]]
  PROVE  Store!StoreNext
<1>1. Pending'[u] # Pending[u]
  <2>1. n # Pending[u].cur
    OBVIOUS
  <2> QED BY <2>1
<1>2. Store!Serve(u, n)
  BY DEF Store!Serve, Store!Lba, Lba
<1> QED BY <1>1, <1>2 DEF Store!StoreNext

LEMMA Returned ==
  ASSUME NEW u \in User, NEW how \in {"done", "failed"}, Pending[u].op \in {"read", "write"},
         how = "done" => Pending[u].cur = Pending[u].end,
         Pending' = [Pending EXCEPT ![u] = Part(Ended(how))], Pending'[u].op = how,
         answer' = answer, Current' = Current
  PROVE  Store!StoreNext
<1>1. Pending'[u] # Pending[u]
  OBVIOUS
<1>2. Part(Ended(how)) = Store!Ended(how)
  BY DEF Part, Ended, Store!Ended
<1>3. Store!Return(u, how)
  BY <1>2 DEF Store!Return, Store!Outcome
<1> QED BY <1>1, <1>3 DEF Store!StoreNext, Store!Outcome

Hidden == Current' = Current /\ Pending' = Pending /\ answer' = answer
------------------------------------------------------------------------------
(* Steps that leave the pages and the disk as they are. *)
LEMMA StillStep ==
  ASSUME CacheInv, AloneRest, PageCacheAssumption, Alone, NEW r \in LocRec, Turned(Me, r),
         UNCHANGED <<setup, page, disk, pageCount>>,
         at.pc \notin {"evict", "fill", "insert", "mark"},
         at.pc \in InHand => r.pc \in InHand /\ r.page = at.page,
         Place'
  PROVE  AloneRest' /\ Current' = Current
<1>1. Me' = Me /\ at' = r
  BY Turns
<1>2. \A b \in Buf : Seen(b)
  BY DEF Seen, Live
<1>3. AllWhole' /\ OnePage' /\ Live' = Live
  BY <1>2, SeenInv DEF AloneRest
<1>4. CleanFresh'
  BY <1>1, <1>3 DEF AloneRest, CleanFresh, Fresh, OnDisk
<1>5. AtRest'
  BY <1>1 DEF AloneRest, AtRest, Idle
<1>6. Few'
  BY DEF AloneRest, Few
<1>7. Current' = Current
  BY <1>2, SeenSame
<1> QED BY <1>3, <1>4, <1>5, <1>6, <1>7 DEF AloneRest

LEMMA RequestMoves ==
  ASSUME CacheInv, AloneRest, PageCacheAssumption, Alone, NEW op \in {"read", "write"}, NEW lo, NEW hi,
         NEW v \in Data \cup {NoData}, Request(Me, op, lo, hi, v)
  PROVE  AloneRest' /\ Store!StoreNext
<1> DEFINE r == [Ended(op) EXCEPT !.pc = "lookup", !.cur = lo, !.end = hi, !.val = v]
<1>1. lo \in 0..Sectors /\ hi \in 0..Sectors /\ lo < hi
  BY SetupIs DEF Request, CacheInv
<1>2. r.pc = "lookup" /\ r.cur = lo /\ r.end = hi /\ r.op = op /\ r.val = v
  BY DEF Ended
<1>3. r \in LocRec
  <2>1. Ended(op) \in LocRec /\ "lookup" \in Pcs
    BY EndedIs DEF Pcs, Asking
  <2> QED BY <1>1, <2>1, RecAsked, Zenon
<1>4. /\ Turned(Me, r) /\ at.pc = "idle" /\ UNCHANGED <<setup, disk, page, lists>>
      /\ answer' = [answer EXCEPT ![Me] = [s \in Lba |-> NoData]]
  BY DEF Request, Turned, at
<1> HIDE DEF r
<1>5. Me' = Me /\ at' = r
  BY <1>3, <1>4, Turns
<1>6. Place'
  BY <1>1, <1>2, <1>5 DEF Place, Looping, Missed, Holding
<1>7. AloneRest' /\ Current' = Current
  <2>1. at.pc \notin InHand
    BY <1>4 DEF InHand, Holding
  <2> QED BY <1>3, <1>4, <1>6, <2>1, StillStep DEF lists
<1>8. Pending[Me].op \in {"done", "failed"}
  BY <1>4, Solo, PendingIs DEF OK, LocRec, Part, Pending, at
<1>9. /\ Pending' = [Pending EXCEPT ![Me] = [op |-> op, cur |-> lo, end |-> hi, val |-> v]]
      /\ Pending'[Me].op = op
  <2>1. Pending' = [Pending EXCEPT ![Me] = Part(r)]
    BY <1>3, <1>4, Solo, PendingIs
  <2>2. Part(r) = [op |-> op, cur |-> lo, end |-> hi, val |-> v]
    BY <1>2 DEF Part
  <2> QED BY <2>1, <2>2, Solo DEF Pending
<1> QED BY <1>1, <1>4, <1>7, <1>8, <1>9, Solo, Asked

LEMMA AtIs ==
  ASSUME CacheInv, PageCacheAssumption, Alone
  PROVE  /\ at = loc[Me] /\ at.cur \in Nat /\ at.end \in Nat /\ at.cur <= Sectors /\ at.end <= Sectors
         /\ Sectors \in Nat /\ at.tries \in Nat /\ pageCount \in Nat
<1>1. pageCount \in Nat
  BY DEF CacheInv, LruOK, Lists
<1> QED BY <1>1, Solo, LocOf DEF LocRec, at

LEMMA LiveIs ==
  ASSUME AloneRest, at.pc # "evict"
  PROVE  Live = Cached
BY DEF AloneRest, AtRest, Live, Cached

LEMMA NoneCached ==
  ASSUME CacheInv, pageCount <= 0
  PROVE  Cached = {}
BY DEF CacheInv, LruOK, Lists, Range

(* The thread goes on to pc, its request is as it was. *)
LEMMA Gone ==
  ASSUME CacheInv, PageCacheAssumption, Alone, NEW pc \in Pcs, Goto(Me, pc), setup' = setup
  PROVE  /\ Me' = Me /\ at'.pc = pc /\ at'.op = at.op /\ at'.cur = at.cur /\ at'.end = at.end
         /\ at'.val = at.val /\ at'.page = at.page /\ at'.tries = at.tries
         /\ Pending' = Pending
<1> DEFINE r == [at EXCEPT !.pc = pc]
<1>1. r \in LocRec /\ Turned(Me, r)
  BY GotoIs, Solo DEF at
<1>2. r.pc = pc /\ r.op = at.op /\ r.cur = at.cur /\ r.end = at.end
      /\ r.val = at.val /\ r.page = at.page /\ r.tries = at.tries
  BY Solo DEF LocRec
<1> HIDE DEF r
<1>3. Me' = Me /\ at' = r
  BY <1>1, Turns
<1>4. Pending' = Pending
  BY <1>1, <1>2, Solo, PendingSame, AtIs
<1> QED BY <1>2, <1>3, <1>4

LEMMA GotoMoves ==
  ASSUME CacheInv, AloneRest, PageCacheAssumption, Alone, NEW pc \in Pcs, Goto(Me, pc),
         UNCHANGED <<setup, page, disk, pageCount, answer>>,
         at.pc \notin InHand \cup {"evict", "fill", "insert"}, Place'
  PROVE  AloneRest' /\ Hidden
<1> DEFINE r == [at EXCEPT !.pc = pc]
<1>1. r \in LocRec /\ Turned(Me, r)
  BY GotoIs, Solo DEF at
<1> HIDE DEF r
<1>2. at.pc \notin {"evict", "fill", "insert", "mark"} /\ at.pc \notin InHand
  BY DEF InHand, Holding
<1>3. AloneRest' /\ Current' = Current
  BY <1>1, <1>2, StillStep
<1> QED BY <1>3, Gone DEF Hidden

LEMMA MissMoves ==
  ASSUME CacheInv, AloneRest, PageCacheAssumption, Alone, Miss(Me)
  PROVE  AloneRest' /\ Hidden
<1> DEFINE r == [at EXCEPT !.pc = "room", !.tries = 0]
<1>1. at.pc = "lookup" /\ UNCHANGED <<setup, disk, page, lists, answer>> /\ Hashed(PageLba(at.cur)) = {}
  BY AtIs DEF Miss
<1>2. r \in LocRec
  <2>1. "room" \in Pcs
    BY DEF Pcs, Asking
  <2> QED BY <2>1, Solo, RecTries
<1>3. Turned(Me, r)
  BY Solo, LocsAre DEF Miss, Turned, at
<1>4. /\ r.pc = "room" /\ r.tries = 0 /\ r.op = at.op /\ r.cur = at.cur /\ r.end = at.end
      /\ r.val = at.val
  BY Solo DEF LocRec
<1> HIDE DEF r
<1>5. Me' = Me /\ at' = r
  BY <1>1, <1>2, <1>3, Turns
<1>6. \A b \in Live : page[b].lba # PageLba(at.cur)
  BY <1>1, LiveIs DEF Hashed, Cached
<1>7. Place'
  <2>1. at.cur < at.end
    BY <1>1 DEF AloneRest, Place
  <2>2. Live' = Live
    BY <1>1 DEF Live
  <2> QED BY <1>1, <1>4, <1>5, <1>6, <2>1, <2>2 DEF Place, Looping, Missed, Holding
<1>8. AloneRest' /\ Current' = Current
  <2>1. at.pc \notin InHand
    BY <1>1 DEF InHand, Holding
  <2> QED BY <1>1, <1>2, <1>3, <1>7, <2>1, StillStep DEF lists
<1>9. Pending' = Pending
  BY <1>2, <1>3, <1>4, Solo, AtIs, PendingSame
<1> QED BY <1>1, <1>8, <1>9 DEF Hidden

LEMMA EnsureRoomMoves ==
  ASSUME CacheInv, AloneRest, PageCacheAssumption, Alone, EnsureRoom(Me)
  PROVE  AloneRest' /\ Hidden
<1>1. at.pc = "room" /\ UNCHANGED <<setup, disk, page, lists, answer>>
  BY AtIs DEF EnsureRoom
<1>2. /\ at.cur < at.end /\ \A b \in Live : page[b].lba # PageLba(at.cur)
      /\ at.tries = 0 \/ pageCount < setup.size
  BY <1>1 DEF AloneRest, Place, Missed
<1>3. /\ pageCount \in Nat /\ at.tries \in Nat /\ setup.size \in Nat
  BY AtIs, Solo
<1>4. PICK pc \in {"alloc", "direct", "victim"} :
        /\ Goto(Me, pc)
        /\ pc = "alloc" => pageCount < setup.size
        /\ pc # "alloc" => ~(pageCount < setup.size)
        /\ pc = "direct" => at.tries > setup.size * 2 \/ setup.size = 0
        /\ pc = "victim" => setup.size # 0
  BY AtIs DEF EnsureRoom
<1>5. pc = "direct" => setup.size = 0
  BY <1>2, <1>3, <1>4
<1>6. pc = "direct" => Live = {}
  <2>1. pc = "direct" => pageCount <= 0
    BY <1>3, <1>5 DEF AloneRest, Few
  <2> QED BY <1>1, <2>1, NoneCached, LiveIs
<1>7. pc \in Pcs
  BY DEF Pcs, Asking
<1>8. Live' = Live
  BY <1>1 DEF Live
<1>9. Place'
  <2>1. at'.pc = pc /\ at'.cur = at.cur /\ at'.end = at.end /\ pageCount' = pageCount /\ setup' = setup
    BY <1>1, <1>4, <1>7, Gone DEF lists
  <2>2. CASE pc = "alloc"
    BY <1>1, <1>2, <1>4, <1>8, <2>1, <2>2 DEF Place, Looping, Missed, Holding
  <2>3. CASE pc = "direct"
    BY <1>1, <1>2, <1>6, <1>8, <2>1, <2>3 DEF Place, Looping, Missed, Holding
  <2>4. CASE pc = "victim"
    <3>1. pageCount >= setup.size /\ setup.size > 0
      BY <1>3, <1>4, <2>4
    <3> QED BY <1>1, <1>2, <1>8, <2>1, <2>4, <3>1 DEF Place, Looping, Missed, Holding
  <2> QED BY <2>2, <2>3, <2>4
<1>10. at.pc \notin InHand \cup {"evict", "fill", "insert"}
  BY <1>1 DEF InHand, Holding
<1> QED BY <1>1, <1>4, <1>7, <1>9, <1>10, GotoMoves DEF lists

(* The sectors a copy serves: those of the request that are on the page.       *)
LEMMA ChunkIs ==
  ASSUME CacheInv, AloneRest, PageCacheAssumption, Alone, at.pc = "copy"
  PROVE  /\ at.page \in Live /\ AfterChunk(Me) \in (at.cur + 1)..at.end /\ AfterChunk(Me) \in 1..Sectors
         /\ Chunk(Me) = at.cur..(AfterChunk(Me) - 1)
         /\ \A s \in Chunk(Me) : /\ s \in Lba /\ s \in InPage(page[at.page].lba)
                                 /\ PageLba(s) = page[at.page].lba
<1> DEFINE b == at.page
           l == page[b].lba
           n == AfterChunk(Me)
<1>1. b \in Live /\ b \in Buf
  BY Solo DEF OK, Holding, Live
<1>2. l \in Lba /\ PageLba(l) = l /\ InPage(l) \subseteq Lba
  BY <1>1, PageOf DEF AloneRest, AllWhole, Whole, PageRec
<1>3. l = PageLba(at.cur) /\ at.cur < at.end
  BY DEF AloneRest, Place
<1>4. at.cur \in Lba
  BY <1>3, AtIs DEF Lba
<1>5. l \in Nat /\ l <= at.cur /\ at.cur < l + SectorsPerPage /\ SectorsPerPage \in Nat
  BY <1>3, <1>4, PageLbaOf DEF PageCacheAssumption
<1>6. n = Min2(at.end, l + SectorsPerPage) /\ Chunk(Me) = at.cur..(n - 1)
  BY AtIs DEF AfterChunk, Chunk
<1> HIDE DEF l, n
<1>7. n \in (at.cur + 1)..at.end /\ n \in 1..Sectors /\ n <= l + SectorsPerPage
  <2>1. at.cur \in Nat /\ at.end \in Nat /\ at.end <= Sectors /\ Sectors \in Nat
    BY AtIs
  <2>2. CASE at.end < l + SectorsPerPage
    <3>1. n = at.end
      BY <1>6, <2>2 DEF Min2
    <3> QED BY <1>3, <1>5, <2>1, <2>2, <3>1
  <2>3. CASE ~(at.end < l + SectorsPerPage)
    <3>1. n = l + SectorsPerPage
      BY <1>6, <2>3 DEF Min2
    <3> QED BY <1>3, <1>5, <2>1, <2>3, <3>1
  <2> QED BY <2>2, <2>3
<1>8. ASSUME NEW s \in Chunk(Me) PROVE s \in Lba /\ s \in InPage(l) /\ PageLba(s) = l
  <2>1. s \in InPage(l)
    BY <1>5, <1>6, <1>7, <1>8, AtIs DEF InPage
  <2> QED BY <1>2, <2>1, SamePageLba
<1> QED BY <1>1, <1>6, <1>7, <1>8 DEF l, n

LEMMA ChunkSeen ==
  ASSUME CacheInv, AloneRest, PageCacheAssumption, Alone, at.pc = "copy", NEW s \in Chunk(Me)
  PROVE  Current[s] = page[at.page].data[s]
<1>1. Only(page, s, at.page)
  BY ChunkIs, HeldBy DEF AloneRest
<1>2. Shown(page, disk, s) = page[at.page].data[s]
  BY <1>1, ShownOn
<1>3. s \in Lba
  BY ChunkIs
<1> QED BY <1>2, <1>3, CurrentIs

LEMMA CopyOutMoves ==
  ASSUME CacheInv, AloneRest, PageCacheAssumption, Alone, CopyOut(Me)
  PROVE  AloneRest' /\ Store!StoreNext
<1> DEFINE n == AfterChunk(Me)
           r == [at EXCEPT !.pc = "release", !.cur = n]
<1>1. at.pc = "copy" /\ at.op = "read" /\ UNCHANGED <<setup, disk, page, lists>>
  BY AtIs DEF CopyOut
<1>2. n \in (at.cur + 1)..at.end /\ n \in 1..Sectors /\ n \in 0..Sectors
  BY <1>1, ChunkIs
<1>3. loc' = [loc EXCEPT ![Me].pc = "release", ![Me].cur = n]
  BY DEF CopyOut
<1>4. answer' = [answer EXCEPT ![Me] =
                   [s \in Lba |-> IF s \in at.cur..(n - 1) THEN Current[s] ELSE @[s]]]
  <2> DEFINE f == [s \in Lba |-> IF s \in Chunk(Me) THEN page[at.page].data[s] ELSE answer[Me][s]]
             g == [s \in Lba |-> IF s \in at.cur..(n - 1) THEN Current[s] ELSE answer[Me][s]]
  <2>1. answer' = [answer EXCEPT ![Me] = f]
    BY AtIs DEF CopyOut
  <2>2. Chunk(Me) = at.cur..(n - 1)
    BY <1>1, ChunkIs
  <2> HIDE DEF n
  <2>3. ASSUME NEW s \in Lba PROVE f[s] = g[s]
    BY <1>1, <2>2, ChunkSeen
  <2>4. f = g
    BY <2>3
  <2> HIDE DEF f
  <2> QED BY <2>1, <2>4
<1> HIDE DEF n
<1>5. r \in LocRec
  <2>1. "release" \in Pcs
    BY DEF Pcs, Holding
  <2> QED BY <1>2, <2>1, Solo, RecCur, Zenon
<1>6. Turned(Me, r)
  BY <1>3, Solo, LocsAre DEF Turned, at
<1>7. /\ r.pc = "release" /\ r.op = at.op /\ r.cur = n /\ r.end = at.end /\ r.val = at.val
      /\ r.page = at.page
  BY Solo DEF LocRec
<1> HIDE DEF r
<1>8. Me' = Me /\ at' = r
  BY <1>1, <1>5, <1>6, Turns
<1>9. Place'
  <2>1. r.cur <= r.end
    BY <1>2, <1>7, AtIs
  <2>2. page'[r.page].ref = 1 /\ ~page'[r.page].wb
    BY <1>1, <1>7 DEF AloneRest, Place, Holding
  <2> QED BY <1>7, <1>8, <2>1, <2>2 DEF Place, Looping, Missed, Holding
<1>10. AloneRest' /\ Current' = Current
  <2>1. r.pc \in InHand
    BY <1>7 DEF InHand, Holding
  <2> QED BY <1>1, <1>5, <1>6, <1>7, <1>9, <2>1, StillStep DEF lists
<1>11. Pending[Me] = Part(at) /\ Pending' = [Pending EXCEPT ![Me] = Part(r)]
  BY <1>5, <1>6, Solo, AtIs, PendingIs
<1>12. Pending' = [Pending EXCEPT ![Me].cur = n] /\ Pending'[Me].cur = n
  <2>1. [Part(at) EXCEPT !.cur = n] = Part(r)
    BY <1>7 DEF Part
  <2>2. Me \in DOMAIN Pending /\ Part(r).cur = n
    BY <1>7, Solo DEF Pending, Part
  <2> QED BY <1>11, <2>1, <2>2
<1>13. Pending[Me].cur = at.cur /\ Pending[Me].end = at.end /\ Pending[Me].op = "read"
  BY <1>1, <1>11 DEF Part
<1> QED BY <1>2, <1>4, <1>10, <1>12, <1>13, Solo, AtIs, ReadServed

LEMMA FinishMoves ==
  ASSUME CacheInv, AloneRest, PageCacheAssumption, Alone, Finish(Me)
  PROVE  AloneRest' /\ Store!StoreNext
<1> DEFINE r == Ended("done")
<1>1. at.pc = "finish" /\ UNCHANGED <<setup, disk, page, lists, answer>> /\ Turned(Me, r)
  BY AtIs DEF Finish, Turned
<1>2. r \in LocRec
  BY EndedIs
<1>3. r.pc = "idle" /\ r.op = "done" /\ r.cur = 0 /\ r.end = 0 /\ r.val = NoData
  BY DEF Ended
<1>4. Pending[Me] = Part(at) /\ Pending' = [Pending EXCEPT ![Me] = Part(r)]
  BY <1>1, <1>2, Solo, AtIs, PendingIs
<1>5. Pending'[Me].op = "done"
  BY <1>3, <1>4, Solo DEF Pending, Part
<1>6. Pending[Me].op \in {"read", "write"} /\ Pending[Me].cur = Pending[Me].end
  BY <1>1, <1>4, Solo DEF Part, OK, Looping, AloneRest, Place
<1>7. AloneRest' /\ Current' = Current
  <2>1. Me' = Me /\ at' = r
    BY <1>1, <1>2, Turns
  <2> HIDE DEF r
  <2>2. Place'
    BY <1>3, <2>1 DEF Place, Looping, Missed, Holding
  <2>3. at.pc \notin InHand
    BY <1>1 DEF InHand, Holding
  <2> QED BY <1>1, <1>2, <2>2, <2>3, StillStep DEF lists
<1> QED BY <1>1, <1>4, <1>5, <1>6, <1>7, Solo, Returned

LEMMA FlushAllMoves ==
  ASSUME CacheInv, AloneRest, PageCacheAssumption, Alone, FlushAll(Me)
  PROVE  AloneRest' /\ Hidden
<1> DEFINE l == Ended(at.op)
           r == [l EXCEPT !.pc = "scan", !.next = FirstDirty]
<1>1. at.pc = "idle" /\ UNCHANGED <<setup, disk, page, lists, answer>> /\ Turned(Me, r)
  BY AtIs DEF FlushAll, Turned, FirstDirty
<1>2. at.cur = 0 /\ at.end = 0 /\ at.val = NoData
  BY <1>1 DEF AloneRest, Place
<1>3. l \in LocRec /\ l.op = at.op /\ l.cur = 0 /\ l.end = 0 /\ l.val = NoData
  BY Solo, EndedIs DEF Ended, LocRec
<1> HIDE DEF l
<1>4. r \in LocRec /\ r.pc = "scan" /\ r.op = at.op
  BY <1>3, ScanRecs
<1>5. r.cur = 0 /\ r.end = 0 /\ r.val = NoData
  BY <1>3 DEF LocRec
<1> HIDE DEF r
<1>6. Me' = Me /\ at' = r
  BY <1>1, <1>4, Turns
<1>7. Place'
  BY <1>4, <1>5, <1>6 DEF Place, Looping, Missed, Holding
<1>8. AloneRest' /\ Current' = Current
  <2>1. at.pc \notin InHand
    BY <1>1 DEF InHand, Holding
  <2> QED BY <1>1, <1>4, <1>7, <2>1, StillStep DEF lists
<1>9. Pending' = Pending
  BY <1>1, <1>2, <1>4, <1>5, Solo, AtIs, PendingSame
<1> QED BY <1>1, <1>8, <1>9 DEF Hidden

LEMMA EndScanMoves ==
  ASSUME CacheInv, AloneRest, PageCacheAssumption, Alone, EndScan(Me)
  PROVE  AloneRest' /\ Hidden
<1>1. at.pc = "scanned" /\ UNCHANGED <<setup, disk, page, lists, answer>>
  BY AtIs DEF EndScan
<1>2. at.cur = 0 /\ at.end = 0 /\ at.val = NoData
  BY <1>1 DEF AloneRest, Place, Looping
<1>3. PICK r \in LocRec : /\ Turned(Me, r) /\ r.pc \in {"scan", "idle"} /\ r.op = at.op
                          /\ r.cur = 0 /\ r.end = 0 /\ r.val = NoData
  <2>1. CASE at.pass = 0 /\ dirtyCount > 0
    <3> DEFINE r == [at EXCEPT !.pc = "scan", !.pass = 1, !.next = FirstDirty]
    <3>1. Turned(Me, r)
      BY <2>1, Solo DEF EndScan, Turned, FirstDirty, at
    <3>2. r \in LocRec /\ r.pc = "scan" /\ r.op = at.op
      BY Solo, ScanRecs
    <3>3. r.cur = 0 /\ r.end = 0 /\ r.val = NoData
      BY <1>2, Solo DEF LocRec
    <3> QED BY <3>1, <3>2, <3>3
  <2>2. CASE ~(at.pass = 0 /\ dirtyCount > 0)
    <3> DEFINE r == Ended(at.op)
    <3>1. Turned(Me, r)
      BY <2>2 DEF EndScan, Turned, at
    <3>2. r \in LocRec /\ r.pc = "idle" /\ r.op = at.op /\ r.cur = 0 /\ r.end = 0 /\ r.val = NoData
      BY Solo, EndedIs DEF Ended, LocRec
    <3> QED BY <3>1, <3>2
  <2> QED BY <2>1, <2>2
<1>4. Me' = Me /\ at' = r
  BY <1>1, <1>3, Turns
<1>5. Place'
  BY <1>3, <1>4 DEF Place, Looping, Missed, Holding
<1>6. AloneRest' /\ Current' = Current
  <2>1. at.pc \notin InHand
    BY <1>1 DEF InHand, Holding
  <2> QED BY <1>1, <1>3, <1>5, <2>1, StillStep DEF lists
<1>7. Pending' = Pending
  BY <1>1, <1>2, <1>3, Solo, AtIs, PendingSame
<1> QED BY <1>1, <1>6, <1>7 DEF Hidden
------------------------------------------------------------------------------
(* Steps that change no page a reader sees. *)
LEMMA SeenStep ==
  ASSUME CacheInv, AloneRest, PageCacheAssumption, Alone, NEW r \in LocRec, Turned(Me, r),
         UNCHANGED <<setup, disk>>, \A b \in Buf : Seen(b),
         \A b \in Live : (page[b].dirty => page'[b].dirty) \/ Fresh(b),
         at.pc = "mark" => page'[at.page].dirty,
         AtRest', Few', Place'
  PROVE  AloneRest' /\ Current' = Current
<1>1. AllWhole' /\ OnePage' /\ Live' = Live
  BY SeenInv DEF AloneRest
<1>2. CleanFresh'
  <2> SUFFICES ASSUME NEW b \in Live, ~page'[b].dirty PROVE Fresh(b)'
    BY <1>1 DEF CleanFresh
  <2>1. Fresh(b)
    BY DEF AloneRest, CleanFresh
  <2>2. page'[b].lba = page[b].lba /\ page'[b].data = page[b].data
    BY DEF Seen, Live
  <2> QED BY <2>1, <2>2 DEF Fresh, OnDisk
<1>3. Current' = Current
  BY SeenSame
<1> QED BY <1>1, <1>2, <1>3 DEF AloneRest

(* ... those that change no more of one page than who uses it, and its flags.  *)
LEMMA FlagsSeen ==
  ASSUME Types, NEW b \in Buf, NEW p \in PageRec, page' = [page EXCEPT ![b] = p],
         p.life = page[b].life, p.lba = page[b].lba, p.data = page[b].data
  PROVE  /\ \A c \in Buf : Seen(c)
         /\ page'[b] = p /\ \A c \in Buf : c # b => page'[c] = page[c]
         /\ Live' = Live
BY PageMoved DEF Seen, Live

LEMMA GetCachedMoves ==
  ASSUME CacheInv, AloneRest, PageCacheAssumption, Alone, NEW b \in Buf, GetCached(Me, b)
  PROVE  AloneRest' /\ Hidden
<1> DEFINE r == [at EXCEPT !.pc = "copy", !.page = b]
           p == [page[b] EXCEPT !.ref = page[b].ref + 1]
<1>1. /\ at.pc = "lookup" /\ UNCHANGED <<setup, disk, pageCount, answer>> /\ b \in Hashed(PageLba(at.cur))
      /\ page' = [page EXCEPT ![b] = p]
  BY AtIs DEF GetCached, Use
<1>2. r \in LocRec
  <2>1. "copy" \in Pcs
    BY DEF Pcs, Holding
  <2> QED BY <2>1, Solo, RecPage
<1>3. Turned(Me, r)
  BY Solo, LocsAre DEF GetCached, Turned, at
<1>4. r.pc = "copy" /\ r.page = b /\ r.op = at.op /\ r.cur = at.cur /\ r.end = at.end /\ r.val = at.val
  BY Solo DEF LocRec
<1>5. /\ p \in PageRec /\ p.life = page[b].life /\ p.lba = page[b].lba /\ p.dirty = page[b].dirty
      /\ p.wb = page[b].wb /\ p.ref = page[b].ref + 1 /\ p.data = page[b].data
  BY PageOf, RefOnly
<1> HIDE DEF r, p
<1>6. Me' = Me /\ at' = r
  BY <1>1, <1>2, <1>3, Turns
<1>7. /\ \A c \in Buf : Seen(c)
      /\ page'[b] = p /\ \A c \in Buf : c # b => page'[c] = page[c]
      /\ Live' = Live
  BY <1>1, <1>5, FlagsSeen DEF CacheInv
<1>8. b \in Buf /\ page[b].life = "cached" /\ page[b].lba = PageLba(at.cur) /\ Idle(b)
  <2>1. at.pc \notin InHand
    BY <1>1 DEF InHand, Holding
  <2> QED BY <1>1, <2>1 DEF Hashed, AloneRest, AtRest
<1>9. AtRest'
  <2>1. at.pc \notin InHand /\ at.pc \notin {"evict", "fill", "insert"} /\ r.pc \in InHand
    BY <1>1, <1>4 DEF InHand, Holding
  <2> QED BY <1>4, <1>5, <1>6, <1>7, <2>1 DEF AloneRest, AtRest, Idle
<1>10. Few'
  BY <1>1 DEF AloneRest, Few
<1>11. Place'
  <2>1. at.cur < at.end
    BY <1>1 DEF AloneRest, Place
  <2>2. p.ref = 1 /\ ~p.wb /\ p.lba = PageLba(at.cur)
    BY <1>5, <1>8 DEF Idle
  <2> QED BY <1>4, <1>6, <1>7, <2>1, <2>2 DEF Place, Looping, Missed, Holding
<1>12. \A c \in Live : page[c].dirty => page'[c].dirty
  BY <1>5, <1>7 DEF Live
<1>13. AloneRest' /\ Current' = Current
  BY <1>1, <1>2, <1>3, <1>7, <1>9, <1>10, <1>11, <1>12, SeenStep
<1>14. Pending' = Pending
  BY <1>2, <1>3, <1>4, Solo, AtIs, PendingSame
<1> QED BY <1>1, <1>13, <1>14 DEF Hidden

LEMMA MarkDirtyMoves ==
  ASSUME CacheInv, AloneRest, PageCacheAssumption, Alone, MarkDirty(Me)
  PROVE  AloneRest' /\ Hidden
<1> DEFINE b == at.page
           r == [at EXCEPT !.pc = "release"]
           p == [page[b] EXCEPT !.dirty = TRUE]
<1>1. at.pc = "mark" /\ UNCHANGED <<setup, disk, pageCount, answer>> /\ Goto(Me, "release")
  BY AtIs DEF MarkDirty
<1>2. b \in Buf /\ page[b].life = "cached" /\ page[b] \in PageRec
  BY <1>1, Solo, PageOf DEF OK, Holding
<1>3. page' = [page EXCEPT ![b] = p]
  <2>1. CASE page[b].dirty
    <3>1. page' = page
      BY <2>1, AtIs DEF MarkDirty
    <3>2. p = page[b]
      BY <1>2, <2>1 DEF PageRec
    <3> QED BY <1>2, <3>1, <3>2, PageOf
  <2>2. CASE ~page[b].dirty
    BY <2>2, AtIs DEF MarkDirty
  <2> QED BY <2>1, <2>2
<1>4. /\ p \in PageRec /\ p.life = page[b].life /\ p.lba = page[b].lba /\ p.dirty
      /\ p.wb = page[b].wb /\ p.ref = page[b].ref /\ p.data = page[b].data
  BY <1>2 DEF PageRec
<1>5. r \in LocRec /\ Turned(Me, r) /\ r.pc = "release" /\ r.page = b /\ r.cur = at.cur /\ r.end = at.end
  <2>1. "release" \in Pcs
    BY DEF Pcs, Holding
  <2> QED BY <1>1, <2>1, Solo, GotoIs DEF at
<1> HIDE DEF r, p
<1>6. Me' = Me /\ at' = r
  BY <1>1, <1>5, Turns
<1>7. /\ \A c \in Buf : Seen(c)
      /\ page'[b] = p /\ \A c \in Buf : c # b => page'[c] = page[c]
      /\ Live' = Live
  BY <1>2, <1>3, <1>4, FlagsSeen DEF CacheInv
<1> HIDE DEF b
<1>8. AtRest'
  <2>1. r.pc \in InHand
    BY <1>5 DEF InHand, Holding
  <2>2. ASSUME NEW c \in Buf, c # b PROVE page[c].life # "evicted" /\ page[c].life # "private"
                                          /\ (page[c].life = "cached" => Idle(c))
    BY <1>1, <2>2 DEF AloneRest, AtRest, b
  <2> QED BY <1>2, <1>4, <1>5, <1>6, <1>7, <2>1, <2>2 DEF AtRest, Idle
<1>9. Few'
  BY <1>1 DEF AloneRest, Few
<1>10. Place'
  <2>1. at.cur <= at.end /\ page[b].ref = 1 /\ ~page[b].wb
    BY <1>1 DEF AloneRest, Place, Holding, b
  <2> QED BY <1>4, <1>5, <1>6, <1>7, <2>1 DEF Place, Looping, Missed, Holding
<1>11. (\A c \in Live : page[c].dirty => page'[c].dirty) /\ page'[b].dirty
  BY <1>4, <1>7 DEF Live
<1>12. AloneRest' /\ Current' = Current
  BY <1>1, <1>5, <1>7, <1>8, <1>9, <1>10, <1>11, SeenStep DEF b
<1>13. Pending' = Pending
  <2>1. "release" \in Pcs
    BY DEF Pcs, Holding
  <2> QED BY <1>1, <2>1, Gone
<1> QED BY <1>1, <1>12, <1>13 DEF Hidden

LEMMA ReleaseMoves ==
  ASSUME CacheInv, AloneRest, PageCacheAssumption, Alone, Release(Me)
  PROVE  AloneRest' /\ (Hidden \/ Store!StoreNext)
<1> DEFINE b == at.page
           p == [page[b] EXCEPT !.ref = 0]
<1>1. at.pc = "release" /\ UNCHANGED <<setup, disk, lists, answer>>
  BY AtIs DEF Release
<1>2. b \in Buf /\ page[b].life = "cached"
  BY <1>1, Solo DEF OK, Holding
<1>3. page[b].ref = 1 /\ ~page[b].wb /\ at.cur <= at.end
  BY <1>1 DEF AloneRest, Place, Holding
<1>4. page' = [page EXCEPT ![b] = p]
  <2>1. page' = [page EXCEPT ![b].ref = IF @ > 0 THEN @ - 1 ELSE 0]
    BY AtIs DEF Release
  <2> QED BY <1>2, <1>3, <2>1
<1>5. /\ p \in PageRec /\ p.life = page[b].life /\ p.lba = page[b].lba /\ p.dirty = page[b].dirty
      /\ p.wb = page[b].wb /\ p.ref = 0 /\ p.data = page[b].data
  BY <1>2, PageOf, RefOnly
<1> HIDE DEF p
<1>6. /\ \A c \in Buf : Seen(c)
      /\ page'[b] = p /\ \A c \in Buf : c # b => page'[c] = page[c]
      /\ Live' = Live
  BY <1>2, <1>4, <1>5, FlagsSeen DEF CacheInv
<1> HIDE DEF b
<1>7. ASSUME NEW c \in Buf PROVE /\ page'[c].life # "evicted" /\ page'[c].life # "private"
                                 /\ (page'[c].life = "cached" => page'[c].ref = 0 /\ ~page'[c].wb)
  <2>1. CASE c = b
    BY <1>2, <1>3, <1>5, <1>6, <2>1
  <2>2. CASE c # b
    <3>1. /\ page[c].life # "evicted" /\ page[c].life # "private"
          /\ (page[c].life = "cached" => Idle(c))
      BY <1>1, <2>2 DEF AloneRest, AtRest, b
    <3> QED BY <1>6, <2>2, <3>1 DEF Idle
  <2> QED BY <2>1, <2>2
<1>8. AtRest' /\ Few'
  BY <1>1, <1>7 DEF AloneRest, AtRest, Few, Idle, lists
<1>9. \A c \in Live : page[c].dirty => page'[c].dirty
  BY <1>5, <1>6 DEF Live
<1>10. CASE at.cur < at.end
  <2> DEFINE r == [at EXCEPT !.pc = "lookup", !.page = NoBuf]
  <2>1. Turned(Me, r)
    BY <1>10, Solo DEF Release, Turned, at
  <2>2. r \in LocRec
    <3>1. "lookup" \in Pcs
      BY DEF Pcs, Asking
    <3> QED BY <3>1, Solo, RecPage
  <2>3. r.pc = "lookup" /\ r.op = at.op /\ r.cur = at.cur /\ r.end = at.end /\ r.val = at.val
    BY Solo DEF LocRec
  <2> HIDE DEF r
  <2>4. Me' = Me /\ at' = r
    BY <1>1, <2>1, <2>2, Turns
  <2>5. Place'
    BY <1>10, <2>3, <2>4 DEF Place, Looping, Missed, Holding
  <2>6. AloneRest' /\ Current' = Current
    BY <1>1, <1>6, <1>8, <1>9, <2>1, <2>2, <2>5, SeenStep
  <2>7. Pending' = Pending
    BY <2>1, <2>2, <2>3, Solo, AtIs, PendingSame
  <2> QED BY <1>1, <2>6, <2>7 DEF Hidden
<1>11. CASE ~(at.cur < at.end)
  <2> DEFINE r == Ended("done")
  <2>1. Turned(Me, r)
    BY <1>11 DEF Release, Turned, at
  <2>2. r \in LocRec
    BY EndedIs
  <2>3. r.pc = "idle" /\ r.op = "done" /\ r.cur = 0 /\ r.end = 0 /\ r.val = NoData
    BY DEF Ended
  <2>4. Pending[Me] = Part(at) /\ Pending' = [Pending EXCEPT ![Me] = Part(r)]
    BY <2>1, <2>2, Solo, AtIs, PendingIs
  <2>5. Pending'[Me].op = "done"
    BY <2>3, <2>4, Solo DEF Pending, Part
  <2>6. Pending[Me].op \in {"read", "write"} /\ Pending[Me].cur = Pending[Me].end
    <3>1. at.op \in {"read", "write"}
      BY <1>1, Solo DEF OK, Looping
    <3>2. at.cur = at.end
      BY <1>3, <1>11, AtIs
    <3> QED BY <2>4, <3>1, <3>2 DEF Part
  <2>7. AloneRest' /\ Current' = Current
    <3>1. Me' = Me /\ at' = r
      BY <1>1, <2>1, <2>2, Turns
    <3> HIDE DEF r
    <3>2. Place'
      BY <2>3, <3>1 DEF Place, Looping, Missed, Holding
    <3> QED BY <1>1, <1>6, <1>8, <1>9, <2>1, <2>2, <3>2, SeenStep
  <2> QED BY <1>1, <2>4, <2>5, <2>6, <2>7, Solo, Returned
<1> QED BY <1>10, <1>11

LEMMA ClaimMoves ==
  ASSUME CacheInv, AloneRest, PageCacheAssumption, Alone, Claim(Me)
  PROVE  AloneRest' /\ Hidden
<1> DEFINE can == {i \in Onward(Me) : Idle(dirties[i])}
<1>1. /\ at.pc = "scan" /\ UNCHANGED <<setup, disk, lists, answer>>
      /\ at.cur = 0 /\ at.end = 0 /\ at.val = NoData
  BY AtIs DEF Claim, AloneRest, Place, Looping
<1>2. at.pc \notin InHand \cup {"evict", "fill", "insert"}
  BY <1>1 DEF InHand, Holding
<1>3. CASE Goto(Me, "scanned") /\ UNCHANGED page
  <2>1. "scanned" \in Pcs
    BY DEF Pcs, Looping
  <2>2. at'.pc = "scanned" /\ at'.cur = 0 /\ at'.end = 0 /\ at'.val = NoData
    BY <1>1, <1>3, <2>1, Gone
  <2>3. Place'
    BY <2>2 DEF Place, Looping, Missed, Holding
  <2> QED BY <1>1, <1>2, <1>3, <2>1, <2>3, GotoMoves DEF lists
<1>4. CASE ~(Goto(Me, "scanned") /\ UNCHANGED page)
  <2>1. PICK i \in can :
          /\ page' = [page EXCEPT ![dirties[i]].ref = 1, ![dirties[i]].wb = TRUE]
          /\ loc' = [loc EXCEPT ![Me].pc = "put", ![Me].page = dirties[i],
                        ![Me].next = IF i < Len(dirties) THEN dirties[i + 1] ELSE NoBuf]
    BY <1>4 DEF Claim
  <2> DEFINE b == dirties[i]
             n == IF i < Len(dirties) THEN dirties[i + 1] ELSE NoBuf
             r == [at EXCEPT !.pc = "put", !.page = b, !.next = n]
             p == [page[b] EXCEPT !.ref = 1, !.wb = TRUE]
  <2>2. b \in Dirty /\ n \in Buf \cup {NoBuf}
    BY DEF Onward, CacheInv, DirtiesOK, Lists, Range
  <2>3. b \in Buf /\ page[b].life = "cached" /\ page[b] \in PageRec
    BY <2>2, PageOf DEF Dirty, Cached
  <2> HIDE DEF b, n
  <2>4. r \in LocRec
    <3>1. "put" \in Pcs
      BY DEF Pcs, Owning
    <3> QED BY <2>2, <2>3, <3>1, Solo, RecPut
  <2>5. r.pc = "put" /\ r.page = b /\ r.op = at.op /\ r.cur = at.cur /\ r.end = at.end /\ r.val = at.val
    BY Solo DEF LocRec
  <2>6. Turned(Me, r)
    BY <2>1, Solo, LocsAre DEF Turned, at, b, n
  <2>7. page' = [page EXCEPT ![b] = p]
    BY <2>1, <2>3, PageOf DEF b
  <2>8. /\ p \in PageRec /\ p.life = page[b].life /\ p.lba = page[b].lba /\ p.dirty = page[b].dirty
        /\ p.data = page[b].data
    BY <2>3 DEF PageRec
  <2> HIDE DEF r, p
  <2>9. Me' = Me /\ at' = r
    BY <1>1, <2>4, <2>6, Turns
  <2>10. /\ \A c \in Buf : Seen(c)
         /\ page'[b] = p /\ \A c \in Buf : c # b => page'[c] = page[c]
         /\ Live' = Live
    BY <2>3, <2>7, <2>8, FlagsSeen DEF CacheInv
  <2>11. AtRest'
    <3>1. r.pc \in InHand
      BY <2>5 DEF InHand
    <3> QED BY <1>2, <2>3, <2>5, <2>8, <2>9, <2>10, <3>1 DEF AloneRest, AtRest, Idle
  <2>12. Few'
    BY <1>1 DEF AloneRest, Few, lists
  <2>13. Place'
    BY <1>1, <2>5, <2>9 DEF Place, Looping, Missed, Holding
  <2>14. \A c \in Live : page[c].dirty => page'[c].dirty
    BY <2>8, <2>10 DEF Live
  <2>15. AloneRest' /\ Current' = Current
    BY <1>1, <2>4, <2>6, <2>10, <2>11, <2>12, <2>13, <2>14, SeenStep
  <2>16. Pending' = Pending
    BY <2>4, <2>5, <2>6, Solo, AtIs, PendingSame
  <2> QED BY <1>1, <2>15, <2>16 DEF Hidden
<1> QED BY <1>3, <1>4

LEMMA MarkCleanMoves ==
  ASSUME CacheInv, AloneRest, PageCacheAssumption, Alone, MarkClean(Me)
  PROVE  AloneRest' /\ Hidden
<1> DEFINE b == at.page
           k == at.flushed + 1
           r == [at EXCEPT !.pc = "scan", !.page = NoBuf, !.flushed = k]
           p == Cleaned(page[b])
<1>1. /\ at.pc = "clean" /\ UNCHANGED <<setup, disk, pageCount, answer>>
      /\ at.cur = 0 /\ at.end = 0 /\ at.val = NoData /\ Fresh(b)
  BY AtIs DEF MarkClean, AloneRest, Place, Looping
<1>2. b \in Buf /\ page[b].life = "cached" /\ page[b] \in PageRec
  BY <1>1, Solo, PageOf DEF OK, Owning
<1>3. r \in LocRec
  <2>1. "scan" \in Pcs /\ k \in Nat
    BY Solo DEF Pcs, Looping, LocRec
  <2> HIDE DEF k
  <2> QED BY <2>1, Solo, RecCleaned
<1>4. Turned(Me, r)
  BY Solo, LocsAre DEF MarkClean, Turned, at
<1>5. r.pc = "scan" /\ r.op = at.op /\ r.cur = at.cur /\ r.end = at.end /\ r.val = at.val
  BY Solo DEF LocRec
<1>6. page' = [page EXCEPT ![b] = p]
  BY AtIs DEF MarkClean
<1>7. /\ p \in PageRec /\ p.life = page[b].life /\ p.lba = page[b].lba /\ p.ref = 0 /\ ~p.wb
      /\ p.data = page[b].data
  BY <1>2 DEF PageRec, Cleaned
<1> HIDE DEF r, p
<1>8. Me' = Me /\ at' = r
  BY <1>1, <1>3, <1>4, Turns
<1>9. /\ \A c \in Buf : Seen(c)
      /\ page'[b] = p /\ \A c \in Buf : c # b => page'[c] = page[c]
      /\ Live' = Live
  BY <1>2, <1>6, <1>7, FlagsSeen DEF CacheInv
<1> HIDE DEF b
<1>10. AtRest'
  <2>1. ASSUME NEW c \in Buf, c # b PROVE page[c].life # "evicted" /\ page[c].life # "private"
                                          /\ (page[c].life = "cached" => Idle(c))
    BY <1>1, <2>1 DEF AloneRest, AtRest, b
  <2> QED BY <1>2, <1>7, <1>9, <2>1 DEF AtRest, Idle
<1>11. Few'
  BY <1>1 DEF AloneRest, Few
<1>12. Place'
  BY <1>1, <1>5, <1>8 DEF Place, Looping, Missed, Holding
<1>13. \A c \in Live : (page[c].dirty => page'[c].dirty) \/ Fresh(c)
  BY <1>1, <1>9 DEF Live
<1>14. AloneRest' /\ Current' = Current
  BY <1>1, <1>3, <1>4, <1>9, <1>10, <1>11, <1>12, <1>13, SeenStep
<1>15. Pending' = Pending
  BY <1>3, <1>4, <1>5, Solo, AtIs, PendingSame
<1> QED BY <1>1, <1>14, <1>15 DEF Hidden

LEMMA KeepDirtyNever ==
  ASSUME AloneRest, KeepDirty(Me)
  PROVE  FALSE
BY DEF KeepDirty, AloneRest, Place, at

(* A page is idle when the thread has none in its hands, so one can be evicted. *)
LEMMA VictimThere ==
  ASSUME CacheInv, AloneRest, PageCacheAssumption, Alone, at.pc = "victim"
  PROVE  Victims # {}
<1>1. pageCount >= setup.size /\ setup.size > 0 /\ setup.size \in Nat
  BY Solo DEF AloneRest, Place
<1>2. Lists(lru, Cached) /\ pageCount = Len(lru) /\ Len(lru) \in Nat
  BY DEF CacheInv, LruOK, Lists
<1>3. 1 \in 1..Len(lru)
  BY <1>1, <1>2
<1>4. lru[1] \in Cached
  BY <1>2, <1>3 DEF Lists, Range
<1>5. Idle(lru[1])
  BY <1>4 DEF AloneRest, AtRest, InHand, Holding, Cached
<1> QED BY <1>3, <1>5 DEF Victims

LEMMA EvictOneMoves ==
  ASSUME CacheInv, AloneRest, PageCacheAssumption, Alone, EvictOne(Me)
  PROVE  AloneRest' /\ Hidden
<1>1. at.pc = "victim" /\ UNCHANGED <<setup, disk, answer>>
  BY AtIs DEF EvictOne
<1>2. PICK v \in Oldest :
        /\ page' = [page EXCEPT ![v].life = "evicted", ![v].ref = 1, ![v].wb = TRUE]
        /\ pageCount' = pageCount - 1
        /\ loc' = [loc EXCEPT ![Me].pc = "evict", ![Me].page = v, ![Me].tries = @ + 1]
  BY <1>1, VictimThere DEF EvictOne
<1> DEFINE k == at.tries + 1
           r == [at EXCEPT !.pc = "evict", !.page = v, !.tries = k]
           p == [page[v] EXCEPT !.life = "evicted", !.ref = 1, !.wb = TRUE]
<1>3. v \in Buf /\ v \in Cached /\ page[v].life = "cached" /\ page[v] \in PageRec
  BY OldestIs, PageOf
<1>4. r \in LocRec
  <2>1. "evict" \in Pcs /\ k \in Nat
    BY AtIs DEF Pcs, Owning
  <2> HIDE DEF k
  <2> QED BY <1>3, <2>1, Solo, RecEvict
<1>5. Turned(Me, r)
  BY <1>2, Solo, LocsAre DEF Turned, at
<1>6. r.pc = "evict" /\ r.page = v /\ r.op = at.op /\ r.cur = at.cur /\ r.end = at.end /\ r.val = at.val
  BY Solo DEF LocRec
<1>7. page' = [page EXCEPT ![v] = p]
  BY <1>2, <1>3, PageOf
<1>8. /\ p \in PageRec /\ p.life = "evicted" /\ p.lba = page[v].lba /\ p.dirty = page[v].dirty
      /\ p.data = page[v].data
  BY <1>3 DEF PageRec
<1> HIDE DEF r, p
<1>9. Me' = Me /\ at' = r
  BY <1>1, <1>4, <1>5, Turns
<1>10. page'[v] = p /\ \A c \in Buf : c # v => page'[c] = page[c]
  BY <1>3, <1>7, <1>8, PageMoved DEF CacheInv
<1>11. (\A c \in Buf : Seen(c)) /\ Live' = Live
  BY <1>3, <1>8, <1>10 DEF Seen, Live
<1>12. pageCount' < setup'.size /\ pageCount' <= setup'.size
  BY <1>1, <1>2, AtIs, Solo DEF AloneRest, Few
<1>13. AtRest'
  <2>1. ASSUME NEW c \in Buf, c # v PROVE page[c].life # "evicted" /\ page[c].life # "private"
                                          /\ (page[c].life = "cached" => Idle(c))
    BY <1>1, <2>1 DEF AloneRest, AtRest, InHand, Holding
  <2> QED BY <1>6, <1>8, <1>9, <1>10, <2>1 DEF AtRest, Idle
<1>14. Few'
  BY <1>12 DEF Few
<1>15. Place'
  <2>1. at.cur < at.end /\ \A c \in Live : page[c].lba # PageLba(at.cur)
    BY <1>1 DEF AloneRest, Place, Missed
  <2>2. \A c \in Live' : page'[c].lba # PageLba(at.cur)
    BY <1>11, <2>1 DEF Seen, Live
  <2> QED BY <1>6, <1>9, <1>12, <2>1, <2>2 DEF Place, Looping, Missed, Holding
<1>16. \A c \in Live : page[c].dirty => page'[c].dirty
  BY <1>8, <1>10 DEF Live
<1>17. AloneRest' /\ Current' = Current
  BY <1>1, <1>4, <1>5, <1>11, <1>13, <1>14, <1>15, <1>16, SeenStep
<1>18. Pending' = Pending
  BY <1>4, <1>5, <1>6, Solo, AtIs, PendingSame
<1> QED BY <1>1, <1>17, <1>18 DEF Hidden

(* There is a PCachePage for every page the cache may hold. *)
LEMMA BufferThere ==
  ASSUME CacheInv, AloneRest, PageCacheAssumption, Alone, at.pc = "alloc"
  PROVE  Unallocated # {}
<1> SUFFICES ASSUME Unallocated = {} PROVE FALSE
  OBVIOUS
<1>1. \A b \in Buf : page[b].life \in {"cached", "evicted", "private", "free"}
  BY PageOf DEF PageRec
<1>2. Cached = Buf
  BY <1>1 DEF AloneRest, AtRest, Unallocated, Cached
<1>3. Lists(lru, Buf) /\ pageCount = Len(lru) /\ Len(lru) \in Nat
  BY <1>2 DEF CacheInv, LruOK, Lists
<1>4. lru \in [1..Len(lru) -> Buf]
  BY <1>3 DEF Lists
<1>5. \A b \in Buf : \E i \in 1..Len(lru) : lru[i] = b
  BY <1>3 DEF Lists, Range
<1>6. lru \in Bijection(1..Len(lru), Buf)
  BY <1>3, <1>4, <1>5 DEF Lists, Bijection, Injection, Surjection, IsInjective
<1>7. Cardinality(Buf) = Len(lru)
  BY <1>3, <1>6, FS_CountingElements DEF ExistsBijection
<1>8. pageCount < setup.size /\ setup.size <= Cardinality(Buf) /\ setup.size \in Nat
  BY Solo DEF AloneRest, Place
<1> QED BY <1>3, <1>7, <1>8

(* With a fault beside writes, the cache holds a page at most: none is left.   *)
LEMMA NoneLeft ==
  ASSUME CacheInv, AloneRest, PageCacheAssumption, Alone, at.pc \in {"alloc", "fill"}, setup.faults # {}
  PROVE  Live = {}
<1>1. pageCount < setup.size /\ setup.size <= 1 /\ setup.size \in Nat /\ pageCount \in Nat
  BY Solo, AtIs DEF AloneRest, Place
<1> QED BY <1>1, NoneCached, LiveIs

LEMMA AllocPageMoves ==
  ASSUME CacheInv, AloneRest, PageCacheAssumption, Alone, AllocPage(Me)
  PROVE  AloneRest' /\ Hidden
<1>1. at.pc = "alloc" /\ UNCHANGED <<setup, disk, lists, answer>>
  BY AtIs DEF AllocPage
<1>2. at.cur < at.end /\ pageCount < setup.size /\ \A c \in Live : page[c].lba # PageLba(at.cur)
  BY <1>1 DEF AloneRest, Place, Missed
<1>3. CASE Goto(Me, "direct") /\ UNCHANGED page
  <2>1. setup.faults # {}
    <3>1. CASE "alloc" \in setup.faults
      BY <3>1
    <3>2. CASE "alloc" \notin setup.faults
      <4>1. loc' # [loc EXCEPT ![Me].pc = "direct"]
        <5>1. PICK new : loc' = [loc EXCEPT ![Me].pc = "fill", ![Me].page = new]
          BY <1>1, <3>2, BufferThere DEF AllocPage, MayFail
        <5>2. loc'[Me].pc = "fill"
          <6>1. Me \in Thread /\ loc \in [Thread -> LocRec] /\ loc[Me] \in LocRec
            BY Solo, LocsAre
          <6> QED BY <5>1, <6>1 DEF LocRec
        <5>3. at'.pc = "direct"
          BY <1>1, <1>3, Gone DEF Pcs
        <5> QED BY <1>1, <5>2, <5>3 DEF at, Me
      <4> QED BY <1>3, <4>1 DEF Goto
    <3> QED BY <3>1, <3>2
  <2>2. Live = {} /\ Live' = {}
    BY <1>1, <1>3, <2>1, NoneLeft DEF Live
  <2>3. "direct" \in Pcs
    BY DEF Pcs
  <2>4. at'.pc = "direct" /\ at'.cur = at.cur /\ at'.end = at.end
    BY <1>1, <1>3, <2>3, Gone
  <2>5. Place'
    BY <1>2, <2>2, <2>4 DEF Place, Looping, Missed, Holding
  <2>6. at.pc \notin InHand \cup {"evict", "fill", "insert"}
    BY <1>1 DEF InHand, Holding
  <2> QED BY <1>1, <1>3, <2>3, <2>5, <2>6, GotoMoves DEF lists
<1>4. CASE ~(Goto(Me, "direct") /\ UNCHANGED page)
  <2> DEFINE b == CHOOSE b \in Unallocated : TRUE
             a == PageLba(at.cur)
             r == [at EXCEPT !.pc = "fill", !.page = b]
             p == [page[b] EXCEPT !.life = "private", !.lba = a]
  <2>1. /\ Unallocated # {}
        /\ page' = [page EXCEPT ![b].life = "private", ![b].lba = a]
        /\ loc' = [loc EXCEPT ![Me].pc = "fill", ![Me].page = b]
    BY <1>4, AtIs DEF AllocPage
  <2>2. b \in Buf /\ page[b].life = "free" /\ page[b] \in PageRec
    BY <2>1, PageOf DEF Unallocated
  <2> HIDE DEF b
  <2>3. a \in Lba
    <3>1. at.cur \in Lba
      BY <1>2, AtIs DEF Lba
    <3> QED BY <3>1, PageLbaOf
  <2> HIDE DEF a
  <2>4. r \in LocRec
    <3>1. "fill" \in Pcs
      BY DEF Pcs, Owning
    <3> QED BY <2>2, <3>1, Solo, RecPage
  <2>5. r.pc = "fill" /\ r.page = b /\ r.op = at.op /\ r.cur = at.cur /\ r.end = at.end /\ r.val = at.val
    BY Solo DEF LocRec
  <2>6. Turned(Me, r)
    BY <2>1, Solo, LocsAre DEF Turned, at
  <2>7. page' = [page EXCEPT ![b] = p]
    BY <2>1, <2>2, PageOf
  <2>8. p \in PageRec /\ p.life = "private" /\ p.lba = a
    BY <2>2, <2>3 DEF PageRec
  <2> HIDE DEF r, p
  <2>9. Me' = Me /\ at' = r
    BY <1>1, <2>4, <2>6, Turns
  <2>10. page'[b] = p /\ \A c \in Buf : c # b => page'[c] = page[c]
    BY <2>2, <2>7, <2>8, PageMoved DEF CacheInv
  <2>11. (\A c \in Buf : Seen(c)) /\ Live' = Live
    BY <2>2, <2>8, <2>10 DEF Seen, Live
  <2>12. AtRest'
    <3>1. ASSUME NEW c \in Buf, c # b PROVE page[c].life # "evicted" /\ page[c].life # "private"
                                            /\ (page[c].life = "cached" => Idle(c))
      BY <1>1, <3>1 DEF AloneRest, AtRest, InHand, Holding
    <3> QED BY <2>5, <2>8, <2>9, <2>10, <3>1 DEF AtRest, Idle
  <2>13. Few'
    BY <1>1 DEF AloneRest, Few, lists
  <2>14. Place'
    <3>1. \A c \in Live' : page'[c].lba # PageLba(at.cur)
      BY <1>2, <2>11 DEF Seen, Live
    <3>2. page'[b].lba = PageLba(at.cur) /\ pageCount' < setup'.size
      BY <1>1, <1>2, <2>8, <2>10 DEF a, lists
    <3> QED BY <1>2, <2>5, <2>9, <3>1, <3>2 DEF Place, Looping, Missed, Holding
  <2>15. \A c \in Live : page[c].dirty => page'[c].dirty
    BY <2>2, <2>10 DEF Live
  <2>16. at.pc # "mark"
    BY <1>1
  <2>17. AloneRest' /\ Current' = Current
    BY <1>1, <2>4, <2>6, <2>11, <2>12, <2>13, <2>14, <2>15, <2>16, SeenStep
  <2>18. Pending' = Pending
    BY <2>4, <2>5, <2>6, Solo, AtIs, PendingSame
  <2> QED BY <1>1, <2>17, <2>18 DEF Hidden
<1> QED BY <1>3, <1>4

(* Beyond the last whole page of the disk nothing is cached. *)
LEMMA Beyond ==
  ASSUME PageCacheAssumption, AllWhole, CacheInv, NEW k \in Lba, NEW s \in Lba, k <= s,
         ~(InPage(PageLba(k)) \subseteq Lba), NEW c \in Live
  PROVE  page[c].lba # PageLba(s)
<1> SUFFICES ASSUME page[c].lba = PageLba(s) PROVE FALSE
  OBVIOUS
<1> DEFINE a == PageLba(k)
           l == PageLba(s)
<1>1. a \in Nat /\ l \in Nat /\ a <= l
  BY PageLbaOf, PageLbaMono
<1>2. InPage(l) \subseteq Lba /\ Sectors \in Nat /\ SectorsPerPage \in Nat /\ SectorsPerPage > 0
  BY DEF AllWhole, Whole, PageCacheAssumption
<1>3. ~(InPage(a) \subseteq Lba)
  OBVIOUS
<1> HIDE DEF a, l
<1>4. l + SectorsPerPage - 1 \in InPage(l)
  BY <1>1, <1>2 DEF InPage
<1>5. l + SectorsPerPage - 1 < Sectors
  BY <1>1, <1>2, <1>4 DEF Lba
<1>6. InPage(a) \subseteq Lba
  BY <1>1, <1>2, <1>5 DEF InPage, Lba
<1> QED BY <1>3, <1>6

LEMMA FillPageMoves ==
  ASSUME CacheInv, AloneRest, PageCacheAssumption, Alone, FillPage(Me)
  PROVE  AloneRest' /\ Hidden
<1> DEFINE b == at.page
           l == page[b].lba
<1>1. at.pc = "fill" /\ UNCHANGED <<setup, disk, lists, answer>>
  BY AtIs DEF FillPage
<1>2. b \in Buf /\ page[b].life = "private" /\ page[b] \in PageRec
  BY <1>1, Solo, PageOf DEF OK, Owning
<1>3. /\ at.cur < at.end /\ pageCount < setup.size /\ \A c \in Live : page[c].lba # PageLba(at.cur)
      /\ l = PageLba(at.cur)
  BY <1>1 DEF AloneRest, Place, Missed
<1>4. at.cur \in Lba /\ l \in Lba /\ PageLba(l) = l
  <2>1. at.cur \in Lba
    BY <1>3, AtIs DEF Lba
  <2> QED BY <1>3, <2>1, PageLbaOf
<1>5. ASSUME NEW c \in Buf, c # b PROVE page[c].life # "evicted" /\ page[c].life # "private"
                                        /\ (page[c].life = "cached" => Idle(c))
  BY <1>1, <1>5 DEF AloneRest, AtRest, InHand, Holding
<1>6. CASE /\ InPage(l) \subseteq Lba /\ Goto(Me, "insert")
           /\ page' = [page EXCEPT ![b].data = [s \in InPage(l) |-> disk[s]]]
  <2> DEFINE d == [s \in InPage(l) |-> disk[s]]
             p == [page[b] EXCEPT !.data = d]
             r == [at EXCEPT !.pc = "insert"]
  <2>1. d \in [InPage(l) -> Data] /\ d \in Contents
    <3>1. d \in [InPage(l) -> Data]
      BY <1>6 DEF CacheInv, Types
    <3> HIDE DEF d
    <3> QED BY <1>4, <3>1 DEF Contents
  <2>2. d = OnDisk(l)
    BY DEF OnDisk
  <2>3. page' = [page EXCEPT ![b] = p]
    BY <1>6
  <2> HIDE DEF d
  <2>4. p \in PageRec /\ p.life = "private" /\ p.lba = l /\ p.data = d
    BY <1>2, <2>1, DataOnly
  <2>5. "insert" \in Pcs
    BY DEF Pcs, Owning
  <2>6. /\ r \in LocRec /\ Turned(Me, r) /\ r.pc = "insert" /\ r.page = b /\ r.cur = at.cur
        /\ r.end = at.end
    BY <1>6, <2>5, Solo, GotoIs DEF at
  <2> HIDE DEF r, p
  <2>7. Me' = Me /\ at' = r
    BY <1>1, <2>6, Turns
  <2>8. page'[b] = p /\ \A c \in Buf : c # b => page'[c] = page[c]
    BY <1>2, <2>3, <2>4, PageMoved DEF CacheInv
  <2>9. (\A c \in Buf : Seen(c)) /\ Live' = Live
    BY <1>2, <2>4, <2>8 DEF Seen, Live
  <2>10. AtRest'
    BY <1>2, <1>5, <2>4, <2>6, <2>7, <2>8 DEF AtRest, Idle
  <2>11. Few'
    BY <1>1 DEF AloneRest, Few, lists
  <2>12. Place'
    <3>1. \A c \in Live' : page'[c].lba # PageLba(at.cur)
      BY <1>3, <2>9 DEF Seen, Live
    <3>2. pageCount' < setup'.size /\ page'[b].lba = l /\ page'[b].data = d
      BY <1>1, <1>3, <2>4, <2>8 DEF lists
    <3>3. OnDisk(l)' = d
      <4>1. l' = l
        BY <1>2, <2>4, <2>6, <2>7, <2>8
      <4> QED BY <1>1, <2>2, <4>1 DEF OnDisk
    <3> HIDE DEF b
    <3>4. Whole(b)'
      <4>1. b' = b
        BY <2>6, <2>7 DEF b
      <4> QED BY <1>4, <1>6, <2>1, <3>2, <4>1 DEF Whole
    <3>5. Fresh(b)'
      <4>1. b' = b
        BY <2>6, <2>7 DEF b
      <4> QED BY <3>2, <3>3, <4>1 DEF Fresh
    <3> QED BY <1>3, <2>6, <2>7, <3>1, <3>2, <3>4, <3>5 DEF Place, Looping, Missed, Holding, b
  <2>13. \A c \in Live : page[c].dirty => page'[c].dirty
    BY <1>2, <2>8 DEF Live
  <2>14. AloneRest' /\ Current' = Current
    BY <1>1, <2>6, <2>9, <2>10, <2>11, <2>12, <2>13, SeenStep
  <2>15. Pending' = Pending
    BY <1>1, <1>6, <2>5, Gone
  <2> QED BY <1>1, <2>14, <2>15 DEF Hidden
<1>7. CASE /\ setup.faults # {} \/ ~(InPage(l) \subseteq Lba)
           /\ page' = [page EXCEPT ![b] = NoPage]
           /\ loc' = [loc EXCEPT ![Me].pc = "direct", ![Me].page = NoBuf]
  <2> DEFINE r == [at EXCEPT !.pc = "direct", !.page = NoBuf]
  <2>1. r \in LocRec
    <3>1. "direct" \in Pcs
      BY DEF Pcs
    <3> QED BY <3>1, Solo, RecPage
  <2>2. Turned(Me, r)
    BY <1>7, Solo, LocsAre DEF Turned, at
  <2>3. r.pc = "direct" /\ r.op = at.op /\ r.cur = at.cur /\ r.end = at.end /\ r.val = at.val
    BY Solo DEF LocRec
  <2> HIDE DEF r
  <2>4. Me' = Me /\ at' = r
    BY <1>1, <2>1, <2>2, Turns
  <2>5. page'[b] = NoPage /\ \A c \in Buf : c # b => page'[c] = page[c]
    BY <1>2, <1>7, NoPageIs, PageMoved DEF CacheInv
  <2>6. (\A c \in Buf : Seen(c)) /\ Live' = Live
    BY <1>2, <2>5, NoPageIs DEF Seen, Live
  <2>7. AtRest'
    BY <1>5, <2>5, NoPageIs DEF AtRest, Idle
  <2>8. Few'
    BY <1>1 DEF AloneRest, Few, lists
  <2>9. Place'
    <3>1. ASSUME NEW s \in at.cur..(at.end - 1), NEW c \in Live PROVE page[c].lba # PageLba(s)
      <4>1. CASE setup.faults # {}
        BY <1>1, <4>1, NoneLeft
      <4>2. CASE ~(InPage(l) \subseteq Lba)
        <5>1. s \in Lba /\ at.cur <= s
          BY AtIs DEF Lba
        <5> QED BY <1>3, <1>4, <4>2, <5>1, Beyond DEF AloneRest
      <4> QED BY <1>7, <4>1, <4>2
    <3>2. \A s \in at.cur..(at.end - 1), c \in Live' : page'[c].lba # PageLba(s)
      BY <2>6, <3>1 DEF Seen, Live
    <3> QED BY <1>3, <2>3, <2>4, <3>2 DEF Place, Looping, Missed, Holding
  <2>10. \A c \in Live : page[c].dirty => page'[c].dirty
    BY <1>2, <2>5 DEF Live
  <2>11. at.pc # "mark"
    BY <1>1
  <2>12. AloneRest' /\ Current' = Current
    BY <1>1, <2>1, <2>2, <2>6, <2>7, <2>8, <2>9, <2>10, <2>11, SeenStep
  <2>13. Pending' = Pending
    BY <2>1, <2>2, <2>3, Solo, AtIs, PendingSame
  <2> QED BY <1>1, <2>12, <2>13 DEF Hidden
<1>8. PICK ok \in MayFail("read") :
        IF ok /\ InPage(l) \subseteq Lba
        THEN /\ page' = [page EXCEPT ![b].data = [s \in InPage(l) |-> disk[s]]]
             /\ Goto(Me, "insert")
        ELSE /\ page' = [page EXCEPT ![b] = NoPage]
             /\ loc' = [loc EXCEPT ![Me].pc = "direct", ![Me].page = NoBuf]
  BY DEF FillPage, at
<1>9. ok = TRUE \/ setup.faults # {}
  BY DEF MayFail
<1> QED BY <1>6, <1>7, <1>8, <1>9
------------------------------------------------------------------------------
(* Steps that write to the disk, or to a page. *)
LEMMA Elsewhere ==
  ASSUME CacheInv, PageCacheAssumption, AllWhole, OnePage, NEW b \in Live, NEW c \in Live, b # c,
         NEW s \in InPage(page[c].lba)
  PROVE  s \notin InPage(page[b].lba)
<1>1. \A d \in Live : page[d].lba \in Lba /\ PageLba(page[d].lba) = page[d].lba
  BY PageOf DEF AllWhole, Whole, PageRec, Live
<1>2. PageLba(s) = page[c].lba
  BY <1>1, SamePageLba
<1>3. s \in InPage(page[b].lba) => PageLba(s) = page[b].lba
  BY <1>1, SamePageLba
<1> QED BY <1>2, <1>3 DEF OnePage

LEMMA OnItsPage ==
  ASSUME CacheInv, PageCacheAssumption, AllWhole, NEW b \in Live, NEW s \in Lba
  PROVE  s \in InPage(page[b].lba) <=> page[b].lba = PageLba(s)
<1>1. page[b].lba \in Lba /\ PageLba(page[b].lba) = page[b].lba
  BY PageOf DEF AllWhole, Whole, PageRec, Live
<1>2. s \in InPage(PageLba(s))
  BY PageLbaOf
<1>3. s \in InPage(page[b].lba) => PageLba(s) = page[b].lba
  BY <1>1, SamePageLba
<1> QED BY <1>2, <1>3

LEMMA FreshKept ==
  ASSUME NEW c \in Live, Fresh(c), page'[c] = page[c],
         \A s \in InPage(page[c].lba) : disk'[s] = disk[s]
  PROVE  Fresh(c)'
<1> DEFINE l == page[c].lba
<1>1. [s \in InPage(l) |-> disk'[s]] = [s \in InPage(l) |-> disk[s]]
  OBVIOUS
<1>2. page[c].data = [s \in InPage(l) |-> disk[s]]
  BY DEF Fresh, OnDisk
<1>3. page'[c].data = [s \in InPage(page'[c].lba) |-> disk'[s]]
  BY <1>1, <1>2
<1> QED BY <1>3 DEF Fresh, OnDisk

LEMMA FreshNow ==
  ASSUME NEW c \in Live, Whole(c), page'[c].lba = page[c].lba, page'[c].data = page[c].data,
         \A s \in InPage(page[c].lba) : disk'[s] = page[c].data[s]
  PROVE  Fresh(c)'
<1> DEFINE l == page[c].lba
<1>1. page[c].data \in [InPage(l) -> Data]
  BY DEF Whole
<1>2. page[c].data = [s \in InPage(l) |-> disk'[s]]
  BY <1>1
<1>3. page'[c].data = [s \in InPage(page'[c].lba) |-> disk'[s]]
  BY <1>2
<1> QED BY <1>3 DEF Fresh, OnDisk

LEMMA StoredOn ==
  ASSUME NEW b \in Live, Whole(b), NEW s \in Lba
  PROVE  Stored(b)[s] = IF s \in InPage(page[b].lba) THEN page[b].data[s] ELSE disk[s]
BY DEF Stored, Whole

LEMMA PutPageMoves ==
  ASSUME CacheInv, AloneRest, PageCacheAssumption, Alone, PutPage(Me)
  PROVE  AloneRest' /\ Hidden
<1>1. at.pc = "put" /\ UNCHANGED <<setup, page, lists, answer>> /\ at.cur = 0 /\ at.end = 0 /\ at.val = NoData
  BY AtIs DEF PutPage, AloneRest, Place, Looping
<1>2. PICK b \in Live : b = at.page /\ b \in Buf /\ page[b].dirty /\ Whole(b)
  BY <1>1, Solo DEF OK, Owning, Live, AloneRest, AllWhole
<1>3. disk' = Stored(b) /\ Goto(Me, "clean")
  <2>1. MayFail("write") = {TRUE}
    BY Solo DEF MayFail
  <2> QED BY <1>2, <2>1 DEF PutPage, at
<1>4. "clean" \in Pcs
  BY DEF Pcs, Owning
<1>5. /\ Me' = Me /\ at'.pc = "clean" /\ at'.cur = 0 /\ at'.end = 0 /\ at'.val = NoData
      /\ at'.page = b /\ Pending' = Pending
  BY <1>1, <1>2, <1>3, <1>4, Gone
<1>6. (\A c \in Buf : Seen(c)) /\ Live' = Live
  BY <1>1 DEF Seen, Live
<1>7. AllWhole' /\ OnePage'
  BY <1>6, SeenInv DEF AloneRest
<1>8. CleanFresh'
  <2> SUFFICES ASSUME NEW c \in Live, ~page[c].dirty PROVE Fresh(c)'
    BY <1>1, <1>6 DEF CleanFresh
  <2>1. Fresh(c) /\ c # b /\ page[c].lba \in Lba /\ Whole(c)
    BY <1>1, <1>2, PageOf DEF AloneRest, CleanFresh, AllWhole, Live, PageRec
  <2>2. \A s \in InPage(page[c].lba) : s \in Lba /\ s \notin InPage(page[b].lba)
    BY <1>2, <2>1, Elsewhere DEF AloneRest, Whole
  <2>3. \A s \in InPage(page[c].lba) : disk'[s] = disk[s]
    BY <1>2, <1>3, <2>2, StoredOn
  <2> QED BY <1>1, <2>1, <2>3, FreshKept
<1>9. AtRest'
  BY <1>1, <1>2, <1>5 DEF AloneRest, AtRest, Idle, InHand
<1>10. Few'
  BY <1>1 DEF AloneRest, Few, lists
<1>11. Place'
  <2>1. Fresh(b)'
    <3>1. \A s \in InPage(page[b].lba) : s \in Lba
      BY <1>2 DEF Whole
    <3>2. \A s \in InPage(page[b].lba) : disk'[s] = page[b].data[s]
      BY <1>2, <1>3, <3>1, StoredOn
    <3>3. page'[b].lba = page[b].lba /\ page'[b].data = page[b].data
      BY <1>1
    <3> QED BY <1>2, <3>2, <3>3, FreshNow
  <2>2. Fresh(at.page)'
    BY <1>5, <2>1 DEF Fresh
  <2> QED BY <1>5, <2>2 DEF Place, Looping, Missed, Holding
<1>12. Current' = Current
  <2>1. ASSUME NEW s \in Lba PROVE Shown(page', disk', s) = Shown(page, disk, s)
    <3>1. CASE Holds(page, s) = {}
      <4>1. s \notin InPage(page[b].lba)
        BY <1>2, <3>1, OnItsPage DEF AloneRest, Holds, Live
      <4>2. disk'[s] = disk[s]
        BY <1>2, <1>3, <4>1, StoredOn
      <4> QED BY <1>1, <3>1, <4>2, ShownOff
    <3>2. CASE Holds(page, s) # {}
      BY <1>1, <3>2 DEF Shown
    <3> QED BY <3>1, <3>2
  <2> QED BY <2>1, CurrentIs
<1> QED BY <1>1, <1>5, <1>7, <1>8, <1>9, <1>10, <1>11, <1>12 DEF AloneRest, Hidden

LEMMA EvictWriteMoves ==
  ASSUME CacheInv, AloneRest, PageCacheAssumption, Alone, EvictWrite(Me)
  PROVE  AloneRest' /\ Hidden
<1> DEFINE r == [at EXCEPT !.pc = "room", !.page = NoBuf]
<1>1. /\ at.pc = "evict" /\ UNCHANGED <<setup, lists, answer>> /\ at.cur < at.end
      /\ pageCount < setup.size /\ \A c \in Live : page[c].lba # PageLba(at.cur)
  BY AtIs DEF EvictWrite, AloneRest, Place, Missed
<1>2. PICK b \in Live : b = at.page /\ b \in Buf /\ page[b].life = "evicted" /\ Whole(b)
  BY <1>1, Solo DEF OK, Owning, Live, AloneRest, AllWhole
<1>3. /\ disk' = Evicted(b, TRUE) /\ page' = [page EXCEPT ![b] = NoPage]
      /\ loc' = [loc EXCEPT ![Me].pc = "room", ![Me].page = NoBuf]
  <2>1. MayFail("write") = {TRUE}
    BY Solo DEF MayFail
  <2> QED BY <1>2, <2>1 DEF EvictWrite, at
<1>4. ASSUME NEW s \in Lba
      PROVE  disk'[s] = IF s \in InPage(page[b].lba) THEN page[b].data[s] ELSE disk[s]
  <2>1. CASE page[b].dirty
    BY <1>2, <1>3, <2>1, StoredOn DEF Evicted
  <2>2. CASE ~page[b].dirty
    <3>1. disk' = disk /\ Fresh(b)
      BY <1>1, <1>2, <1>3, <2>2 DEF Evicted, AloneRest, CleanFresh
    <3> QED BY <3>1 DEF Fresh, OnDisk
  <2> QED BY <2>1, <2>2
<1>5. r \in LocRec
  <2>1. "room" \in Pcs
    BY DEF Pcs, Asking
  <2> QED BY <2>1, Solo, RecPage
<1>6. Turned(Me, r)
  BY <1>3, Solo, LocsAre DEF Turned, at
<1>7. r.pc = "room" /\ r.op = at.op /\ r.cur = at.cur /\ r.end = at.end /\ r.val = at.val
  BY Solo DEF LocRec
<1> HIDE DEF r
<1>8. Me' = Me /\ at' = r
  BY <1>1, <1>5, <1>6, Turns
<1>9. page'[b] = NoPage /\ \A c \in Buf : c # b => page'[c] = page[c]
  BY <1>2, <1>3, NoPageIs, PageMoved DEF CacheInv
<1>10. Live' = Live \ {b}
  BY <1>9, NoPageIs DEF Live
<1>11. \A c \in Live \ {b} : page'[c] = page[c]
  BY <1>9 DEF Live
<1>12. AllWhole' /\ OnePage'
  BY <1>10, <1>11 DEF AloneRest, AllWhole, OnePage, Whole
<1>13. CleanFresh'
  <2> SUFFICES ASSUME NEW c \in Live \ {b}, ~page[c].dirty PROVE Fresh(c)'
    BY <1>10, <1>11 DEF CleanFresh
  <2>1. Fresh(c) /\ Whole(c) /\ c # b
    BY <1>1 DEF AloneRest, CleanFresh, AllWhole
  <2>2. \A s \in InPage(page[c].lba) : s \in Lba /\ s \notin InPage(page[b].lba)
    BY <2>1, Elsewhere DEF AloneRest, Whole
  <2>3. \A s \in InPage(page[c].lba) : disk'[s] = disk[s]
    BY <1>4, <2>2
  <2> QED BY <1>11, <2>1, <2>3, FreshKept
<1>14. AtRest'
  <2>1. ASSUME NEW c \in Buf, c # b PROVE page[c].life # "evicted" /\ page[c].life # "private"
                                          /\ (page[c].life = "cached" => Idle(c))
    BY <1>1, <1>2, <2>1 DEF AloneRest, AtRest, InHand, Holding
  <2> QED BY <1>9, <2>1, NoPageIs DEF AtRest, Idle
<1>15. Few'
  BY <1>1 DEF AloneRest, Few, lists
<1>16. Place'
  <2>1. \A c \in Live' : page'[c].lba # PageLba(at.cur)
    BY <1>1, <1>10, <1>11
  <2>2. pageCount' < setup'.size
    BY <1>1 DEF lists
  <2> QED BY <1>1, <1>7, <1>8, <2>1, <2>2 DEF Place, Looping, Missed, Holding
<1>17. Current' = Current
  <2>1. ASSUME NEW s \in Lba PROVE Shown(page', disk', s) = Shown(page, disk, s)
    <3>1. CASE page[b].lba = PageLba(s)
      <4>1. Only(page, s, b)
        BY <3>1, HeldBy DEF AloneRest
      <4>2. Holds(page', s) = {}
        BY <1>9, <4>1, NoPageIs DEF Holds, Only
      <4>3. s \in InPage(page[b].lba)
        BY <3>1, OnItsPage DEF AloneRest
      <4>4. Shown(page, disk, s) = page[b].data[s]
        BY <4>1, ShownOn
      <4>5. Shown(page', disk', s) = disk'[s]
        BY <4>2, ShownOff
      <4> QED BY <1>4, <4>3, <4>4, <4>5
    <3>2. CASE page[b].lba # PageLba(s)
      <4>1. Holds(page', s) = Holds(page, s) /\ b \notin Holds(page, s)
        BY <1>9, <3>2, NoPageIs DEF Holds
      <4>2. disk'[s] = disk[s]
        BY <1>4, <3>2, OnItsPage DEF AloneRest
      <4>3. CASE Holds(page, s) = {}
        BY <4>1, <4>2, <4>3 DEF Shown
      <4>4. CASE Holds(page, s) # {}
        <5>1. TheOne(Holds(page, s)) \in Holds(page, s)
          BY <4>4 DEF TheOne
        <5>2. page'[TheOne(Holds(page, s))] = page[TheOne(Holds(page, s))]
          BY <1>9, <4>1, <5>1 DEF Holds
        <5> QED BY <4>1, <4>4, <5>2 DEF Shown
      <4> QED BY <4>3, <4>4
    <3> QED BY <3>1, <3>2
  <2> QED BY <2>1, CurrentIs
<1>18. Pending' = Pending
  BY <1>5, <1>6, <1>7, Solo, AtIs, PendingSame
<1> QED BY <1>1, <1>12, <1>13, <1>14, <1>15, <1>16, <1>17, <1>18 DEF AloneRest, Hidden

LEMMA InsertPageMoves ==
  ASSUME CacheInv, AloneRest, PageCacheAssumption, Alone, InsertPage(Me)
  PROVE  AloneRest' /\ Hidden
<1> DEFINE r == [at EXCEPT !.pc = "copy"]
<1>1. /\ at.pc = "insert" /\ UNCHANGED <<setup, disk, answer>> /\ at.cur < at.end
      /\ pageCount < setup.size /\ \A c \in Live : page[c].lba # PageLba(at.cur)
  BY AtIs DEF InsertPage, AloneRest, Place, Missed
<1>2. PICK b \in Buf : /\ b = at.page /\ page[b].life = "private" /\ page[b] \in PageRec /\ Whole(b)
                       /\ Fresh(b) /\ page[b].lba = PageLba(at.cur) /\ ~page[b].wb
  BY <1>1, Solo, PageOf DEF OK, Owning, AloneRest, Place, CacheInv, PagesOK
<1> DEFINE p == [page[b] EXCEPT !.life = "cached", !.ref = 1]
<1>3. Recheck(page[b].lba) = {}
  BY <1>1, <1>2 DEF Recheck, Hashed, Live
<1>4. /\ page' = [page EXCEPT ![b].life = "cached", ![b].ref = 1]
      /\ pageCount' = pageCount + 1 /\ Goto(Me, "copy")
  BY <1>2, <1>3 DEF InsertPage, at
<1>5. "copy" \in Pcs
  BY DEF Pcs, Holding
<1>6. /\ Me' = Me /\ at'.pc = "copy" /\ at'.cur = at.cur /\ at'.end = at.end
      /\ at'.page = b /\ Pending' = Pending
  BY <1>1, <1>2, <1>4, <1>5, Gone
<1>7. page' = [page EXCEPT ![b] = p]
  BY <1>2, <1>4, PageOf
<1>8. /\ p \in PageRec /\ p.life = "cached" /\ p.lba = page[b].lba /\ p.ref = 1 /\ ~p.wb
      /\ p.data = page[b].data
  BY <1>2 DEF PageRec
<1> HIDE DEF p
<1>9. page'[b] = p /\ \A c \in Buf : c # b => page'[c] = page[c]
  BY <1>7, <1>8, PageMoved DEF CacheInv
<1>10. Live' = Live \cup {b} /\ b \notin Live
  BY <1>2, <1>8, <1>9 DEF Live
<1>11. \A c \in Live : page'[c] = page[c]
  BY <1>9, <1>10 DEF Live
<1>12. AllWhole'
  <2>1. Whole(b)'
    BY <1>2, <1>8, <1>9 DEF Whole
  <2>2. \A c \in Live : Whole(c)'
    BY <1>11 DEF AloneRest, AllWhole, Whole
  <2> QED BY <1>10, <2>1, <2>2 DEF AllWhole
<1>13. OnePage'
  <2>1. \A c \in Live : page'[c].lba # page'[b].lba
    BY <1>1, <1>2, <1>8, <1>9, <1>11
  <2>2. \A c, d \in Live : page'[c].lba = page'[d].lba => c = d
    BY <1>11 DEF AloneRest, OnePage
  <2> QED BY <1>10, <2>1, <2>2 DEF OnePage
<1>14. CleanFresh'
  <2>1. Fresh(b)'
    BY <1>1, <1>2, <1>8, <1>9 DEF Fresh, OnDisk
  <2>2. ASSUME NEW c \in Live, ~page[c].dirty PROVE Fresh(c)'
    <3>1. Fresh(c)
      BY <1>1, <2>2 DEF AloneRest, CleanFresh
    <3> QED BY <1>1, <1>11, <3>1, FreshKept
  <2> QED BY <1>10, <1>11, <2>1, <2>2 DEF CleanFresh
<1>15. AtRest'
  <2>1. ASSUME NEW c \in Buf, c # b PROVE page[c].life # "evicted" /\ page[c].life # "private"
                                          /\ (page[c].life = "cached" => Idle(c))
    BY <1>1, <1>2, <2>1 DEF AloneRest, AtRest, InHand, Holding
  <2>2. at'.pc \in InHand
    BY <1>6 DEF InHand, Holding
  <2> QED BY <1>6, <1>8, <1>9, <2>1, <2>2 DEF AtRest, Idle
<1>16. Few'
  BY <1>1, <1>4, AtIs, Solo DEF Few
<1>17. Place'
  BY <1>1, <1>2, <1>6, <1>8, <1>9 DEF Place, Looping, Missed, Holding
<1>18. Current' = Current
  <2>1. ASSUME NEW s \in Lba PROVE Shown(page', disk', s) = Shown(page, disk, s)
    <3>1. CASE page[b].lba = PageLba(s)
      <4>1. Only(page', s, b)
        BY <1>8, <1>9, <1>10, <1>13, <3>1, HeldByNext
      <4>2. Holds(page, s) = {}
        BY <1>1, <1>2, <3>1 DEF Holds, Live
      <4>3. s \in InPage(page[b].lba)
        BY <3>1, PageLbaOf
      <4>4. Shown(page', disk', s) = page'[b].data[s]
        BY <4>1, ShownOn
      <4>5. Shown(page, disk, s) = disk[s]
        BY <4>2, ShownOff
      <4>6. page[b].data[s] = disk[s]
        BY <1>2, <4>3 DEF Fresh, OnDisk
      <4> QED BY <1>8, <1>9, <4>4, <4>5, <4>6
    <3>2. CASE page[b].lba # PageLba(s)
      <4>1. Holds(page', s) = Holds(page, s) /\ b \notin Holds(page, s)
        BY <1>8, <1>9, <3>2 DEF Holds
      <4>2. CASE Holds(page, s) = {}
        BY <1>1, <4>1, <4>2 DEF Shown
      <4>3. CASE Holds(page, s) # {}
        <5>1. TheOne(Holds(page, s)) \in Holds(page, s)
          BY <4>3 DEF TheOne
        <5>2. page'[TheOne(Holds(page, s))] = page[TheOne(Holds(page, s))]
          BY <1>9, <4>1, <5>1 DEF Holds
        <5> QED BY <4>1, <4>3, <5>2 DEF Shown
      <4> QED BY <4>2, <4>3
    <3> QED BY <3>1, <3>2
  <2> QED BY <2>1, CurrentIs
<1> QED BY <1>1, <1>6, <1>12, <1>13, <1>14, <1>15, <1>16, <1>17, <1>18 DEF AloneRest, Hidden

(* A copy into a page, at the moment it is made, is the write of its sectors.  *)
LEMMA CopyInMoves ==
  ASSUME CacheInv, AloneRest, PageCacheAssumption, Alone, CopyIn(Me)
  PROVE  AloneRest' /\ Store!StoreNext
<1> DEFINE n == AfterChunk(Me)
           v == at.val
           r == [at EXCEPT !.pc = "mark", !.cur = n]
<1>1. at.pc = "copy" /\ at.op = "write" /\ UNCHANGED <<setup, disk, lists, answer>>
  BY AtIs DEF CopyIn
<1>2. /\ n \in (at.cur + 1)..at.end /\ n \in 1..Sectors /\ n \in 0..Sectors
      /\ Chunk(Me) = at.cur..(n - 1)
  BY <1>1, ChunkIs
<1>3. PICK b \in Live : b = at.page /\ b \in Buf /\ page[b].life = "cached" /\ Whole(b)
  BY <1>1, Solo DEF OK, Holding, Live, AloneRest, AllWhole
<1>4. v \in Data
  BY <1>1, Solo DEF OK
<1> DEFINE d == [s \in DOMAIN page[b].data |-> IF s \in Chunk(Me) THEN v ELSE page[b].data[s]]
           p == [page[b] EXCEPT !.data = d]
<1>5. d \in [InPage(page[b].lba) -> Data]
  <2>1. page[b].data \in [InPage(page[b].lba) -> Data]
    BY <1>3 DEF Whole
  <2> QED BY <1>4, <2>1
<1>6. page' = [page EXCEPT ![b] = p]
  BY <1>3, AtIs DEF CopyIn
<1>7. \A s \in InPage(page[b].lba) : d[s] = IF s \in Chunk(Me) THEN v ELSE page[b].data[s]
  BY <1>3 DEF Whole
<1>8. loc' = [loc EXCEPT ![Me].pc = "mark", ![Me].cur = n]
  BY DEF CopyIn
<1> HIDE DEF d, n
<1>9. /\ p.life = page[b].life /\ p.lba = page[b].lba /\ p.dirty = page[b].dirty
      /\ p.wb = page[b].wb /\ p.ref = page[b].ref /\ p.data = d /\ p \in PageRec
  <2>1. page[b] \in PageRec
    BY <1>3, PageOf
  <2>2. d \in Contents
    BY <1>5, <2>1 DEF Contents, PageRec
  <2> QED BY <2>1, <2>2, DataOnly
<1> HIDE DEF p
<1>10. page'[b] = p /\ \A c \in Buf : c # b => page'[c] = page[c]
  BY <1>3, <1>6, <1>9, PageMoved DEF CacheInv
<1>11. Live' = Live /\ \A c \in Buf : page'[c].lba = page[c].lba
  BY <1>9, <1>10 DEF Live
<1>12. r \in LocRec
  <2>1. "mark" \in Pcs
    BY DEF Pcs, Holding
  <2> QED BY <1>2, <2>1, Solo, RecCur, Zenon
<1>13. Turned(Me, r)
  BY <1>8, Solo, LocsAre DEF Turned, at
<1>14. /\ r.pc = "mark" /\ r.op = at.op /\ r.cur = n /\ r.end = at.end /\ r.val = at.val
       /\ r.page = b
  BY <1>3, Solo DEF LocRec
<1> HIDE DEF r
<1>15. Me' = Me /\ at' = r
  BY <1>1, <1>12, <1>13, Turns
<1>16. AllWhole' /\ OnePage'
  <2>1. \A c \in Live : Whole(c) /\ c \in Buf
    BY DEF AloneRest, AllWhole, Live
  <2>2. \A c \in Live : page'[c].data \in [InPage(page[c].lba) -> Data]
    BY <1>5, <1>9, <1>10, <2>1 DEF Whole
  <2>3. \A c \in Live : Whole(c)'
    BY <1>11, <2>1, <2>2 DEF Whole
  <2>4. OnePage'
    BY <1>11, <2>1 DEF AloneRest, OnePage
  <2> QED BY <1>11, <2>3, <2>4 DEF AllWhole
<1>17. CleanFresh'
  <2> SUFFICES ASSUME NEW c \in Live, c # b, ~page[c].dirty PROVE Fresh(c)'
    BY <1>10, <1>11, <1>14, <1>15 DEF CleanFresh, Live
  <2>1. Fresh(c) /\ c \in Buf
    BY <1>1 DEF AloneRest, CleanFresh, Live
  <2> QED BY <1>1, <1>10, <2>1, FreshKept
<1>18. AtRest' /\ Few'
  <2>1. \A c \in Buf : c # b => page[c].life \in {"free", "cached"} /\ (page[c].life = "cached" => Idle(c))
    BY <1>1, <1>3, PageOf DEF AloneRest, AtRest, PageRec
  <2>2. r.pc \in InHand
    BY <1>14 DEF InHand, Holding
  <2> QED BY <1>1, <1>3, <1>9, <1>10, <1>14, <1>15, <2>1, <2>2 DEF AloneRest, AtRest, Few, Idle, lists
<1>19. Place'
  <2>1. r.cur <= r.end
    BY <1>2, <1>14, AtIs
  <2>2. page[b].ref = 1 /\ ~page[b].wb
    BY <1>1, <1>3 DEF AloneRest, Place, Holding
  <2>3. page'[r.page].ref = 1 /\ ~page'[r.page].wb
    BY <1>9, <1>10, <1>14, <2>2
  <2> QED BY <1>14, <1>15, <2>1, <2>3 DEF Place, Looping, Missed, Holding
<1>20. Current' = [s \in Lba |-> IF s \in at.cur..(n - 1) THEN v ELSE Current[s]]
  <2>1. ASSUME NEW s PROVE Holds(page', s) = Holds(page, s)
    BY <1>9, <1>10 DEF Holds
  <2>2. ASSUME NEW s \in Lba
        PROVE  Shown(page', disk', s) = IF s \in Chunk(Me) THEN v ELSE Shown(page, disk, s)
    <3>1. CASE page[b].lba = PageLba(s)
      <4>1. Only(page, s, b)
        BY <1>3, <3>1, HeldBy DEF AloneRest
      <4>2. Only(page', s, b)
        BY <2>1, <4>1 DEF Only
      <4>3. s \in InPage(page[b].lba)
        BY <1>3, <3>1, OnItsPage DEF AloneRest
      <4>4. Shown(page', disk', s) = d[s] /\ Shown(page, disk, s) = page[b].data[s]
        BY <1>9, <1>10, <4>1, <4>2, ShownOn
      <4> QED BY <1>7, <4>3, <4>4
    <3>2. CASE page[b].lba # PageLba(s)
      <4>1. s \notin Chunk(Me)
        BY <1>1, <1>3, <3>2, ChunkIs
      <4>2. CASE Holds(page, s) = {}
        <5>1. Shown(page', disk', s) = disk'[s] /\ Shown(page, disk, s) = disk[s]
          BY <2>1, <4>2, ShownOff
        <5> QED BY <1>1, <4>1, <5>1
      <4>3. CASE Holds(page, s) # {}
        <5>1. PICK c \in Holds(page, s) : TRUE
          BY <4>3
        <5>2. c \in Live /\ c \in Buf /\ page[c].lba = PageLba(s) /\ c # b
          BY <3>2, <5>1 DEF Holds, Live
        <5>3. Only(page, s, c)
          BY <5>2, HeldBy DEF AloneRest
        <5>4. Only(page', s, c)
          BY <2>1, <5>3 DEF Only
        <5>5. Shown(page', disk', s) = page'[c].data[s] /\ Shown(page, disk, s) = page[c].data[s]
          BY <5>3, <5>4, ShownOn
        <5> QED BY <1>10, <4>1, <5>2, <5>5
      <4> QED BY <4>2, <4>3
    <3> QED BY <3>1, <3>2
  <2>3. ASSUME NEW s \in Lba PROVE Current[s] = Shown(page, disk, s)
    BY CurrentIs
  <2> HIDE DEF v
  <2>4. Current' = [s \in Lba |-> Shown(page', disk', s)]
    BY CurrentIs
  <2> QED BY <1>2, <2>2, <2>3, <2>4
<1>21. Pending[Me] = Part(at) /\ Pending' = [Pending EXCEPT ![Me] = Part(r)]
  BY <1>12, <1>13, Solo, AtIs, PendingIs
<1>22. Pending' = [Pending EXCEPT ![Me].cur = n] /\ Pending'[Me].cur = n
  <2>1. [Part(at) EXCEPT !.cur = n] = Part(r)
    BY <1>14 DEF Part
  <2>2. Me \in DOMAIN Pending /\ Part(r).cur = n
    BY <1>14, Solo DEF Pending, Part
  <2> QED BY <1>21, <2>1, <2>2
<1>23. /\ Pending[Me].cur = at.cur /\ Pending[Me].end = at.end /\ Pending[Me].op = "write"
       /\ Pending[Me].val = v
  BY <1>1, <1>21 DEF Part
<1>24. Store!StoreNext
  <2> HIDE DEF v
  <2> QED BY <1>1, <1>2, <1>20, <1>22, <1>23, Solo, AtIs, WriteServed
<1> QED BY <1>16, <1>17, <1>18, <1>19, <1>24 DEF AloneRest

(* No page holds a sector of what is left of the request, so what the disk     *)
(* holds is what a reader sees, and a write to the disk touches no page.       *)
LEMMA RestIs ==
  ASSUME CacheInv, AloneRest, PageCacheAssumption, Alone, at.pc = "direct", NEW s \in at.cur..(at.end - 1)
  PROVE  s \in Lba /\ Current[s] = disk[s] /\ Holds(page, s) = {}
<1>1. s \in Lba
  BY AtIs DEF Lba
<1>2. Holds(page, s) = {}
  BY DEF AloneRest, Place, Holds, Live
<1> QED BY <1>1, <1>2, CurrentIs, ShownOff

LEMMA DirectMoves ==
  ASSUME CacheInv, AloneRest, PageCacheAssumption, Alone, Direct(Me)
  PROVE  AloneRest' /\ Store!StoreNext
<1> DEFINE rest == at.cur..(at.end - 1)
           f == Ended("failed")
           n == at.end
           r == [at EXCEPT !.pc = "finish", !.cur = n]
<1>1. at.pc = "direct" /\ UNCHANGED <<setup, page, lists>> /\ at.cur < at.end
  BY AtIs DEF Direct, AloneRest, Place
<1>2. at.pc \notin InHand /\ at.op \in {"read", "write"}
  BY <1>1, Solo DEF InHand, Holding, OK, Looping
<1>3. CASE loc' = [loc EXCEPT ![Me] = f] /\ UNCHANGED <<disk, answer>>
  <2>1. f \in LocRec /\ Turned(Me, f)
    BY <1>3, EndedIs DEF Turned
  <2>2. f.pc = "idle" /\ f.op = "failed" /\ f.cur = 0 /\ f.end = 0 /\ f.val = NoData
    BY DEF Ended
  <2>3. Pending[Me] = Part(at) /\ Pending' = [Pending EXCEPT ![Me] = Part(f)]
    BY <2>1, Solo, AtIs, PendingIs
  <2>4. Pending'[Me].op = "failed" /\ Pending[Me].op \in {"read", "write"}
    BY <1>2, <2>2, <2>3, Solo DEF Pending, Part
  <2>5. AloneRest' /\ Current' = Current
    <3>1. Me' = Me /\ at' = f
      BY <1>1, <2>1, Turns
    <3> HIDE DEF f
    <3>2. Place'
      BY <2>2, <3>1 DEF Place, Looping, Missed, Holding
    <3> QED BY <1>1, <1>2, <1>3, <2>1, <3>2, StillStep DEF lists
  <2> QED BY <1>3, <2>3, <2>4, <2>5, Solo, Returned
<1>4. ASSUME loc' = [loc EXCEPT ![Me].pc = "finish", ![Me].cur = n]
      PROVE  /\ r \in LocRec /\ Turned(Me, r) /\ Me' = Me /\ at' = r /\ Place'
             /\ Pending' = [Pending EXCEPT ![Me].cur = n] /\ Pending'[Me].cur = n
             /\ Pending[Me] = Part(at)
  <2>1. r \in LocRec
    <3>1. "finish" \in Pcs /\ n \in 0..Sectors
      BY Solo DEF Pcs, LocRec
    <3> QED BY <3>1, Solo, RecCur, Zenon
  <2>2. Turned(Me, r)
    BY <1>4, Solo, LocsAre DEF Turned, at
  <2>3. r.pc = "finish" /\ r.op = at.op /\ r.cur = n /\ r.end = n /\ r.val = at.val
    BY Solo DEF LocRec
  <2> HIDE DEF r
  <2>4. Me' = Me /\ at' = r
    BY <1>1, <2>1, <2>2, Turns
  <2>5. Place'
    BY <2>3, <2>4 DEF Place, Looping, Missed, Holding
  <2>6. Pending[Me] = Part(at) /\ Pending' = [Pending EXCEPT ![Me] = Part(r)]
    BY <2>1, <2>2, Solo, AtIs, PendingIs
  <2>7. [Part(at) EXCEPT !.cur = n] = Part(r)
    BY <2>3 DEF Part
  <2>8. Me \in DOMAIN Pending /\ Part(r).cur = n
    BY <2>3, Solo DEF Pending, Part
  <2> QED BY <2>1, <2>2, <2>4, <2>5, <2>6, <2>7, <2>8
<1>5. n \in (at.cur + 1)..at.end /\ n \in 1..Sectors
  BY <1>1, AtIs
<1>6. Pending[Me] = Part(at) => Pending[Me].cur = at.cur /\ Pending[Me].end = at.end
                                /\ Pending[Me].op = at.op /\ Pending[Me].val = at.val
  BY DEF Part
<1>7. CASE /\ loc' = [loc EXCEPT ![Me].pc = "finish", ![Me].cur = n] /\ at.op = "read" /\ disk' = disk
           /\ answer' = [answer EXCEPT ![Me] = [s \in Lba |-> IF s \in rest THEN disk[s] ELSE @[s]]]
  <2>1. AloneRest' /\ Current' = Current
    <3> HIDE DEF r, n
    <3> QED BY <1>1, <1>2, <1>4, <1>7, StillStep DEF lists
  <2>2. answer' = [answer EXCEPT ![Me] =
                     [s \in Lba |-> IF s \in at.cur..(n - 1) THEN Current[s] ELSE @[s]]]
    <3> DEFINE g == [s \in Lba |-> IF s \in rest THEN disk[s] ELSE answer[Me][s]]
               h == [s \in Lba |-> IF s \in rest THEN Current[s] ELSE answer[Me][s]]
    <3>1. answer' = [answer EXCEPT ![Me] = g]
      BY <1>7
    <3>2. ASSUME NEW s \in Lba PROVE g[s] = h[s]
      BY <1>1, RestIs
    <3>3. g = h
      BY <3>2
    <3> HIDE DEF g
    <3> QED BY <3>1, <3>3
  <2>3. Store!StoreNext
    <3>1. /\ Pending[Me].op = "read" /\ Pending[Me].cur = at.cur /\ Pending[Me].end = at.end
          /\ Pending' = [Pending EXCEPT ![Me].cur = n] /\ Pending'[Me].cur = n
      BY <1>4, <1>6, <1>7
    <3> HIDE DEF n
    <3> QED BY <1>5, <2>1, <2>2, <3>1, Solo, AtIs, ReadServed
  <2> QED BY <2>1, <2>3
<1>8. CASE /\ loc' = [loc EXCEPT ![Me].pc = "finish", ![Me].cur = n] /\ at.op = "write"
           /\ disk' = [s \in Lba |-> IF s \in rest THEN at.val ELSE disk[s]] /\ answer' = answer
  <2>1. /\ r.pc = "finish" /\ Turned(Me, r) /\ Me' = Me /\ at' = r /\ Place'
        /\ (\A c \in Buf : Seen(c)) /\ Live' = Live
    BY <1>1, <1>4, <1>8, Solo DEF LocRec, Seen, Live
  <2> HIDE DEF r
  <2>2. AllWhole' /\ OnePage'
    BY <2>1, SeenInv DEF AloneRest
  <2>3. ASSUME NEW c \in Live PROVE \A s \in InPage(page[c].lba) : disk'[s] = disk[s]
    <3> SUFFICES ASSUME NEW s \in InPage(page[c].lba) PROVE disk'[s] = disk[s]
      OBVIOUS
    <3>1. s \in Lba /\ page[c].lba = PageLba(s)
      BY <2>3, OnItsPage DEF AloneRest, AllWhole, Whole
    <3>2. s \notin rest
      BY <1>1, <3>1, RestIs DEF Holds, Live
    <3> QED BY <1>8, <3>1, <3>2
  <2>4. CleanFresh'
    <3> SUFFICES ASSUME NEW c \in Live, ~page[c].dirty PROVE Fresh(c)'
      BY <1>1, <2>1 DEF CleanFresh
    <3>1. Fresh(c)
      BY <1>1 DEF AloneRest, CleanFresh
    <3> QED BY <1>1, <2>3, <3>1, FreshKept
  <2>5. AtRest' /\ Few'
    <3>1. \A b \in Buf : /\ page[b].life = "cached" => Idle(b)
                         /\ page[b].life # "evicted" /\ page[b].life # "private"
      BY <1>1, <1>2 DEF AloneRest, AtRest
    <3> QED BY <1>1, <3>1 DEF AloneRest, AtRest, Few, Idle, lists
  <2>6. Current' = [s \in Lba |-> IF s \in rest THEN at.val ELSE Current[s]]
    <3>1. ASSUME NEW s \in Lba
          PROVE  Shown(page', disk', s) = IF s \in rest THEN at.val ELSE Shown(page, disk, s)
      <4>1. Holds(page', s) = Holds(page, s)
        BY <1>1 DEF Holds
      <4>2. CASE Holds(page, s) = {}
        BY <1>8, <4>1, <4>2, ShownOff
      <4>3. CASE Holds(page, s) # {}
        <5>1. s \notin rest
          BY <1>1, <4>3, RestIs
        <5> QED BY <1>1, <4>1, <4>3, <5>1 DEF Shown
      <4> QED BY <4>2, <4>3
    <3>2. ASSUME NEW s \in Lba PROVE Current[s] = Shown(page, disk, s)
      BY CurrentIs
    <3>3. Current' = [s \in Lba |-> Shown(page', disk', s)]
      BY CurrentIs
    <3> HIDE DEF rest
    <3> QED BY <3>1, <3>2, <3>3
  <2>7. Store!StoreNext
    <3>1. Pending[Me].val = at.val /\ Pending[Me].cur..(n - 1) = rest /\ Pending[Me].op = "write"
      BY <1>4, <1>6, <1>8
    <3> HIDE DEF rest, n
    <3> QED BY <1>4, <1>5, <1>6, <1>8, <2>6, <3>1, Solo, AtIs, WriteServed
  <2> QED BY <2>1, <2>2, <2>4, <2>5, <2>7 DEF AloneRest
<1> QED BY <1>2, <1>3, <1>7, <1>8, AtIs DEF Direct
------------------------------------------------------------------------------
(* Every step of the cache is a step of the plain disk, or none that it shows. *)
LEMMA AloneStarts ==
  ASSUME PageCacheAssumption, Alone, CacheInit
  PROVE  AloneRest /\ Store!StoreInit
<1>1. CacheInv
  BY InitStep
<1>2. \A b \in Buf : page[b] = NoPage
  BY DEF CacheInit
<1>3. \A b \in Buf : page[b].life = "free"
  BY <1>2, NoPageIs
<1>4. Live = {}
  BY <1>3 DEF Live
<1>5. at = Ended("done")
  BY <1>1, Solo DEF CacheInit, at
<1>6. at.pc = "idle" /\ at.cur = 0 /\ at.end = 0 /\ at.val = NoData
  BY <1>5 DEF Ended
<1>7. AllWhole /\ OnePage /\ CleanFresh
  BY <1>4 DEF AllWhole, OnePage, CleanFresh
<1>8. AtRest
  BY <1>3 DEF AtRest
<1>9. Few
  <2>1. pageCount = 0 /\ setup.size \in Nat
    BY <1>1, Solo DEF CacheInit
  <2> QED BY <2>1 DEF Few
<1>10. Place
  BY <1>6 DEF Place, Looping, Missed, Holding
<1>11. Current \in [Lba -> Data]
  <2>1. \A s : Holds(page, s) = {}
    BY <1>3 DEF Holds
  <2>2. disk \in [Lba -> Data]
    BY <1>1 DEF CacheInv, Types
  <2>3. \A s \in Lba : Shown(page, disk, s) \in Data
    BY <2>1, <2>2, ShownOff
  <2> QED BY <2>3, CurrentIs
<1>12. Pending = [u \in User |-> Part(Ended("done"))]
  <2>1. \A u \in User : loc[u] = Ended("done")
    BY DEF CacheInit, Thread
  <2> QED BY <2>1 DEF Pending, Part
<1>13. Part(Ended("done")) = Store!Ended("done")
  BY DEF Part, Ended, Store!Ended
<1>14. Store!StoreInit
  BY <1>11, <1>12, <1>13 DEF Store!StoreInit, Store!NothingRead, Store!Lba, Lba, CacheInit
<1> QED BY <1>7, <1>8, <1>9, <1>10, <1>14 DEF AloneRest

LEMMA AloneStill ==
  ASSUME CacheInv, AloneRest, PageCacheAssumption, Alone, UNCHANGED cacheVars
  PROVE  AloneRest' /\ Hidden
<1>1. UNCHANGED <<setup, disk, page, lru, dirties, pageCount, dirtyCount, loc, answer>>
  BY DEF cacheVars
<1>2. Me' = Me /\ at' = at /\ Live' = Live
  BY <1>1 DEF Me, at, Live
<1>3. AllWhole' /\ OnePage' /\ CleanFresh' /\ AtRest' /\ Few'
  BY <1>1, <1>2 DEF AloneRest, AllWhole, Whole, OnePage, CleanFresh, Fresh, OnDisk, AtRest, Idle, Few
<1>4. Place'
  BY <1>1, <1>2 DEF AloneRest, Place, Whole, Fresh, OnDisk
<1>5. Current' = Current /\ Pending' = Pending
  BY <1>1 DEF Current, Pending
<1> QED BY <1>1, <1>3, <1>4, <1>5 DEF AloneRest, Hidden

LEMMA AloneMoves ==
  ASSUME CacheInv, AloneRest, PageCacheAssumption, Alone, [CacheNext]_cacheVars
  PROVE  AloneRest' /\ (Hidden \/ Store!StoreNext)
<1>1. ASSUME NEW u \in User, NEW q \in setup.requests, Request(u, "read", q[1], q[2], NoData)
      PROVE  AloneRest' /\ Store!StoreNext
  <2>1. u = Me
    BY <1>1, Solo DEF Request, Thread
  <2> QED BY <1>1, <2>1, RequestMoves
<1>2. ASSUME NEW u \in User, NEW q \in setup.requests, NEW v \in Data,
             Request(u, "write", q[1], q[2], v)
      PROVE  AloneRest' /\ Store!StoreNext
  <2>1. u = Me
    BY <1>2, Solo DEF Request, Thread
  <2> QED BY <1>2, <2>1, RequestMoves
<1>3. ASSUME NEW u \in User, Access(u) PROVE AloneRest' /\ (Hidden \/ Store!StoreNext)
  <2>1. u = Me
    <3>1. loc[u].pc # "idle"
      BY <1>3 DEF Access, GetCached, Miss, EnsureRoom, EvictOne, EvictWrite, AllocPage, FillPage,
                  InsertPage, CopyOut, CopyIn, MarkDirty, Release, Direct, Finish
    <3> QED BY <3>1, Solo DEF Thread
  <2>2. ASSUME NEW b \in Buf, GetCached(Me, b) PROVE AloneRest' /\ Hidden
    BY <2>2, GetCachedMoves
  <2>3. Miss(Me) => AloneRest' /\ Hidden
    BY MissMoves
  <2>4. EnsureRoom(Me) => AloneRest' /\ Hidden
    BY EnsureRoomMoves
  <2>5. EvictOne(Me) => AloneRest' /\ Hidden
    BY EvictOneMoves
  <2>6. EvictWrite(Me) => AloneRest' /\ Hidden
    BY EvictWriteMoves
  <2>7. AllocPage(Me) => AloneRest' /\ Hidden
    BY AllocPageMoves
  <2>8. FillPage(Me) => AloneRest' /\ Hidden
    BY FillPageMoves
  <2>9. InsertPage(Me) => AloneRest' /\ Hidden
    BY InsertPageMoves
  <2>10. MarkDirty(Me) => AloneRest' /\ Hidden
    BY MarkDirtyMoves
  <2>11. Release(Me) => AloneRest' /\ (Hidden \/ Store!StoreNext)
    BY ReleaseMoves
  <2>12. CopyOut(Me) => AloneRest' /\ Store!StoreNext
    BY CopyOutMoves
  <2>13. CopyIn(Me) => AloneRest' /\ Store!StoreNext
    BY CopyInMoves
  <2>14. Direct(Me) => AloneRest' /\ Store!StoreNext
    BY DirectMoves
  <2>15. Finish(Me) => AloneRest' /\ Store!StoreNext
    BY FinishMoves
  <2> QED BY <1>3, <2>1, <2>2, <2>3, <2>4, <2>5, <2>6, <2>7, <2>8, <2>9, <2>10, <2>11, <2>12,
             <2>13, <2>14, <2>15 DEF Access
<1>4. ASSUME NEW u \in User, FlushAll(u) PROVE AloneRest' /\ Hidden
  <2>1. u = Me
    BY <1>4, Solo DEF FlushAll, Thread
  <2> QED BY <1>4, <2>1, FlushAllMoves
<1>5. ~WritebackWakes
  BY Solo DEF WritebackWakes
<1>6. ASSUME NEW t \in Thread,
             Claim(t) \/ PutPage(t) \/ MarkClean(t) \/ KeepDirty(t) \/ EndScan(t)
      PROVE  AloneRest' /\ Hidden
  <2>1. t = Me
    <3>1. loc[t].pc # "idle"
      BY <1>6 DEF Claim, PutPage, MarkClean, KeepDirty, EndScan
    <3> QED BY <3>1, Solo
  <2> QED BY <1>6, <2>1, ClaimMoves, PutPageMoves, MarkCleanMoves, KeepDirtyNever, EndScanMoves
<1>7. CASE UNCHANGED cacheVars
  BY <1>7, AloneStill
<1> QED BY <1>1, <1>2, <1>3, <1>4, <1>5, <1>6, <1>7 DEF CacheNext

LEMMA AloneIsOneByOne == Alone => OneByOne
BY DEF Alone, OneByOne

(* The inductive invariant of the cache that one thread uses: a live page is   *)
(* whole and the only one of its block, clean only if it is as the disk has    *)
(* it, and at rest unless that thread works on it.                             *)
THEOREM AloneInductive ==
  ASSUME PageCacheAssumption, Alone
  PROVE  CacheSpec => []AloneInv
<1>1. CacheInit => CacheInv /\ AloneRest
  BY InitStep, AloneStarts
<1>2. CacheInv /\ AloneRest /\ [CacheNext]_cacheVars => (CacheInv /\ AloneRest)'
  BY CacheStep, AloneMoves, AloneIsOneByOne
<1>3. CacheInv /\ AloneRest => AloneInv
  BY DEF AloneRest, AloneInv
<1> QED BY <1>1, <1>2, <1>3, PTL DEF CacheSpec

LEMMA CleanHolds ==
  ASSUME AloneInv, PageCacheAssumption, Alone
  PROVE  CleanIsOnDisk
<1> SUFFICES ASSUME NEW b \in Range(lru), ~page[b].dirty, PageUnlocked(b)
             PROVE  page[b].data = [s \in InPage(page[b].lba) |-> disk[s]]
  BY DEF CleanIsOnDisk
<1>1. CacheInv /\ CleanFresh
  BY DEF AloneInv
<1>2. b \in Live
  BY <1>1 DEF CacheInv, LruOK, Lists, Cached, Live
<1>3. ~(at.pc = "mark" /\ at.page = b)
  BY <1>1, Solo DEF PageUnlocked, at
<1> QED BY <1>1, <1>2, <1>3 DEF CleanFresh, Fresh, OnDisk

(* The cache has the right types, it agrees with itself, and a page that is    *)
(* not dirty holds what the disk holds, so that its eviction, which writes nothing, loses nothing       *)
(* (PCacheEvictOne).                                                           *)
THEOREM CacheSoundAlways ==
  ASSUME PageCacheAssumption, Alone
  PROVE  CacheSpec => []CacheSound
<1>1. CacheSpec => []ListsAgree
  BY ListsAgreeAlways, AloneIsOneByOne
<1>2. CacheSpec => []CleanIsOnDisk
  <2>1. AloneInv => CleanIsOnDisk
    BY CleanHolds
  <2> QED BY <2>1, AloneInductive, PTL
<1>3. CacheSpec => []CacheTypeOK
  BY CacheTypeCorrect, AloneIsOneByOne
<1>4. CacheTypeOK /\ ListsAgree /\ CleanIsOnDisk => CacheSound
  BY DEF CacheSound
<1> QED BY <1>1, <1>2, <1>3, <1>4, PTL

(* Through hits, misses, evictions, flushes, transfers past the cache and, in  *)
(* a cache of one page, failed reads and allocations, the cache implements a   *)
(* plain disk (PCacheRead, PCacheWrite, PCacheEvictOne, PCacheFlush).          *)
THEOREM ImplementsStore ==
  ASSUME PageCacheAssumption, Alone
  PROVE  CacheSpec => CacheIsStore
<1>1. CacheInit => Store!StoreInit
  BY AloneStarts
<1>2. AloneInv /\ [CacheNext]_cacheVars => [Store!StoreNext]_(Store!storeVars)
  <2> SUFFICES ASSUME AloneInv, [CacheNext]_cacheVars
               PROVE  Hidden \/ Store!StoreNext
    BY DEF Hidden, Store!storeVars
  <2> QED BY AloneMoves DEF AloneInv, AloneRest
<1> QED BY <1>1, <1>2, AloneInductive, PTL DEF CacheSpec, CacheIsStore, Store!StoreSpec
=============================================================================

------------------------------ MODULE VfsProofs ------------------------------
(* Inodes and who holds them, for any volumes, paths, descriptors and number   *)
(* of inodes: every reference count is what its holders come to, and the shell *)
(* is never left in a directory of a volume that has been taken away.          *)
EXTENDS Vfs, ProofBasics

(* The table of inodes.  A free one holds nothing, and a pin goes one level up *)
(* from a file or a directory.                                                 *)
InodeRec == [vol : Volume \cup {None}, node : Node, ref : Nat, pin : Inode \cup {None}]
Pinning(I, i) == {j \in Inode : I[j].ref > 0 /\ I[j].pin = i}
Pins(I, i) == Cardinality(Pinning(I, i))

Climbs(I, j) ==
  I[j].pin \in Inode => /\ I[j].node # "root" /\ I[I[j].pin].node = ParentNode(I[j].node)
                        /\ FsOf[I[j].vol] = "exfat"
Table(I) ==
  /\ I \in [Inode -> InodeRec]
  /\ \A j \in Inode : (I[j].ref = 0 => I[j] = FreeInode) /\ (I[j].ref > 0 => Climbs(I, j))

(* E counts the holders that are not inodes. *)
Counts == [Inode -> Nat]
Plus(E, x) == [i \in Inode |-> E[i] + (IF i = x THEN 1 ELSE 0)]
Due(I, E) == \A i \in Inode : I[i].ref = E[i] + Pins(I, i)

Same(I, J, j) == J[j].vol = I[j].vol /\ J[j].node = I[j].node /\ J[j].pin = I[j].pin
(* Nothing has been allocated, and nothing that is allocated is another one. *)
Shrunk(I, J) == \A j \in Inode : J[j].ref > 0 => I[j].ref > 0 /\ Same(I, J, j)
(* Nothing has been freed. *)
Stays(I, J) == \A j \in Inode : I[j].ref > 0 => J[j].ref > 0 /\ Same(I, J, j)

Held == Inode \cup {NsRoot, None}

LEMMA PlusIs ==
  ASSUME NEW E \in Counts, NEW x
  PROVE  /\ Plus(E, x) \in Counts
         /\ \A i \in Inode : Plus(E, x)[i] = E[i] + (IF i = x THEN 1 ELSE 0)
BY DEF Plus, Counts

LEMMA PlusSwaps ==
  ASSUME NEW E \in Counts, NEW x, NEW y
  PROVE  Plus(Plus(E, x), y) = Plus(Plus(E, y), x)
<1>1. Plus(E, x) \in Counts /\ Plus(E, y) \in Counts
  BY PlusIs
<1>2. ASSUME NEW i \in Inode PROVE Plus(Plus(E, x), y)[i] = Plus(Plus(E, y), x)[i]
  <2>1. E[i] \in Nat /\ Plus(E, x)[i] = E[i] + (IF i = x THEN 1 ELSE 0)
        /\ Plus(E, y)[i] = E[i] + (IF i = y THEN 1 ELSE 0)
    BY PlusIs DEF Counts
  <2>2. Plus(Plus(E, x), y)[i] = Plus(E, x)[i] + (IF i = y THEN 1 ELSE 0)
    BY <1>1, PlusIs
  <2>3. Plus(Plus(E, y), x)[i] = Plus(E, y)[i] + (IF i = x THEN 1 ELSE 0)
    BY <1>1, PlusIs
  <2> QED BY <2>1, <2>2, <2>3
<1>3. Plus(Plus(E, x), y) \in Counts /\ Plus(Plus(E, y), x) \in Counts
  BY <1>1, PlusIs
<1> QED BY <1>2, <1>3 DEF Counts

LEMMA PlusNothing ==
  ASSUME VfsAssumption, NEW E \in Counts, NEW x \in {NsRoot, None}
  PROVE  Plus(E, x) = E
BY DEF Plus, Counts, VfsAssumption

LEMMA PinsFinite ==
  ASSUME VfsAssumption, NEW I, NEW i
  PROVE  IsFiniteSet(Pinning(I, i)) /\ Pins(I, i) \in Nat
<1>1. Pinning(I, i) \in SUBSET Inode
  BY DEF Pinning
<1> QED BY <1>1, FS_Subset, FS_CardinalityType DEF VfsAssumption, Pins

LEMMA PinnedIs ==
  ASSUME VfsAssumption, NEW I, NEW i
  PROVE  /\ Pins(I, i) = 0 => \A j \in Inode : I[j].ref > 0 => I[j].pin # i
         /\ Pins(I, i) # 0 => \E j \in Inode : I[j].ref > 0 /\ I[j].pin = i
<1>1. Pins(I, i) = 0 <=> Pinning(I, i) = {}
  BY PinsFinite, FS_EmptySet DEF Pins
<1> QED BY <1>1 DEF Pinning

(* An inode that is pinned, or held from without, is allocated. *)
LEMMA PinnedLives ==
  ASSUME VfsAssumption, NEW I, Table(I), NEW E \in Counts, Due(I, E), NEW j \in Inode, I[j].ref > 0,
         I[j].pin \in Inode
  PROVE  I[I[j].pin].ref > 0 /\ Climbs(I, j)
<1>1. Pins(I, I[j].pin) # 0 /\ Pins(I, I[j].pin) \in Nat
  BY PinnedIs, PinsFinite
<1> QED BY <1>1 DEF Due, Table, Counts

LEMMA OwedLives ==
  ASSUME VfsAssumption, NEW I, NEW E \in Counts, NEW i \in Inode, Due(I, Plus(E, i))
  PROVE  I[i].ref = E[i] + 1 + Pins(I, i) /\ I[i].ref > 0
BY PlusIs, PinsFinite DEF Due, Counts

LEMMA RecIs ==
  ASSUME NEW x \in InodeRec, NEW n \in Nat
  PROVE  LET y == [x EXCEPT !.ref = n]
         IN  y \in InodeRec /\ y.vol = x.vol /\ y.node = x.node /\ y.pin = x.pin /\ y.ref = n
BY DEF InodeRec

LEMMA FreeIs ==
  FreeInode \in InodeRec /\ FreeInode.vol = None /\ FreeInode.node = "root"
  /\ FreeInode.pin = None /\ FreeInode.ref = 0
BY DEF FreeInode, InodeRec, Node

(* A table in which one inode has another count, of one reference at least.    *)
LEMMA Recounted ==
  ASSUME VfsAssumption, NEW I, Table(I), NEW a \in Inode, I[a].ref > 0, NEW n \in Nat \ {0},
         NEW J, J \in [Inode -> InodeRec], Same(I, J, a), J[a].ref = n,
         \A j \in Inode \ {a} : J[j] = I[j]
  PROVE  /\ Table(J) /\ Shrunk(I, J) /\ Stays(I, J)
         /\ \A i \in Inode : Pins(J, i) = Pins(I, i)
<1>4. \A j \in Inode : Same(I, J, j) /\ (J[j].ref > 0 <=> I[j].ref > 0)
  BY DEF Same
<1>5. \A j \in Inode : J[j].ref = 0 => J[j] = FreeInode
  BY DEF Table
<1>6. \A j \in Inode : J[j].ref > 0 => Climbs(J, j)
  BY <1>4 DEF Table, Climbs, Same
<1>7. \A i \in Inode : Pinning(J, i) = Pinning(I, i)
  BY <1>4 DEF Pinning, Same
<1> QED BY <1>4, <1>5, <1>6, <1>7 DEF Table, Shrunk, Stays, Pins

(* A table in which an inode that nothing pins is freed.                       *)
LEMMA FreedOne ==
  ASSUME VfsAssumption, NEW I, Table(I), NEW a \in Inode, I[a].ref > 0, Pins(I, a) = 0,
         NEW J, J \in [Inode -> InodeRec], J[a] = FreeInode, \A j \in Inode \ {a} : J[j] = I[j]
  PROVE  /\ Table(J) /\ Shrunk(I, J)
         /\ \A i \in Inode : Pins(I, i) = Pins(J, i) + (IF i = I[a].pin THEN 1 ELSE 0)
<1>1. I \in [Inode -> InodeRec] /\ \A j \in Inode : I[j].ref > 0 => I[j].pin # a
  BY PinnedIs DEF Table
<1>2. J \in [Inode -> InodeRec] /\ J[a] = FreeInode /\ \A j \in Inode \ {a} : J[j] = I[j]
  OBVIOUS
<1>3. \A j \in Inode : J[j].ref = 0 => J[j] = FreeInode
  BY <1>2 DEF Table
<1>4. ASSUME NEW j \in Inode, J[j].ref > 0 PROVE Climbs(J, j) /\ I[j].ref > 0 /\ Same(I, J, j)
  <2>1. j # a
    BY <1>2, <1>4, FreeIs
  <2>2. J[j] = I[j] /\ I[j].ref > 0 /\ Climbs(I, j) /\ I[j].pin # a
    BY <1>1, <1>2, <1>4, <2>1 DEF Table
  <2> QED BY <1>2, <2>2 DEF Climbs, Same
<1>5. ASSUME NEW i \in Inode PROVE Pins(I, i) = Pins(J, i) + (IF i = I[a].pin THEN 1 ELSE 0)
  <2> DEFINE S == Pinning(J, i)
  <2>1. Pinning(I, i) = IF i = I[a].pin THEN S \cup {a} ELSE S
    BY <1>2, FreeIs DEF Pinning
  <2>2. a \notin S
    BY <1>2, FreeIs DEF Pinning
  <2>3. IsFiniteSet(S) /\ Cardinality(S) \in Nat
    BY PinsFinite DEF Pins
  <2>4. Pins(J, i) = Cardinality(S) /\ Pins(I, i) = Cardinality(Pinning(I, i))
    BY DEF Pins
  <2> HIDE DEF S
  <2>5. Cardinality(S \cup {a}) = Cardinality(S) + 1
    BY <2>2, <2>3, FS_AddElement
  <2> QED BY <2>1, <2>3, <2>4, <2>5
<1> QED BY <1>2, <1>3, <1>4, <1>5 DEF Table, Shrunk

LEMMA SpecialIs ==
  ASSUME VfsAssumption, NEW a \in Held
  PROVE  a \in Inode <=> a \notin {NsRoot, None}
BY DEF Held, VfsAssumption

(* One reference given up: what it leaves, and what is left to give up.        *)
LEMMA GiveUpOK ==
  ASSUME VfsAssumption, NEW I, Table(I), NEW E \in Counts, NEW a \in Held, Due(I, Plus(E, a)),
         NEW r, r = GiveUp(I, a)
  PROVE  /\ Table(r.inode) /\ r.at \in Inode \cup {None} /\ Due(r.inode, Plus(E, r.at))
         /\ Shrunk(I, r.inode)
         /\ r.at \in Inode => /\ a \in Inode /\ I[a].node # "root"
                              /\ r.inode[r.at].node = ParentNode(I[a].node)
<1>1. CASE a \notin Inode
  <2>1. r.inode = I /\ r.at = None
    BY <1>1, SpecialIs DEF GiveUp
  <2>2. Plus(E, a) = E /\ Plus(E, None) = E
    BY <1>1, PlusNothing DEF Held
  <2> QED BY <2>1, <2>2 DEF Shrunk, Same, VfsAssumption
<1>2. CASE a \in Inode /\ I[a].ref = 1
  <2>1. r.inode = [I EXCEPT ![a] = FreeInode] /\ r.at = I[a].pin
    BY <1>2, SpecialIs DEF GiveUp
  <2>2. I[a].ref = E[a] + 1 + Pins(I, a) /\ Pins(I, a) \in Nat /\ E[a] \in Nat
    BY <1>2, OwedLives, PinsFinite DEF Counts
  <2>3. E[a] = 0 /\ Pins(I, a) = 0 /\ I[a].ref > 0
    BY <1>2, <2>2
  <2> DEFINE J == r.inode
  <2>4. J \in [Inode -> InodeRec] /\ J[a] = FreeInode /\ \A j \in Inode \ {a} : J[j] = I[j]
    BY <1>2, <2>1, FreeIs DEF Table
  <2> HIDE DEF J
  <2>a. a \in Inode /\ I[a].ref > 0 /\ Pins(I, a) = 0
    BY <1>2, <2>3
  <2>5. /\ Table(J) /\ Shrunk(I, J)
        /\ \A i \in Inode : Pins(I, i) = Pins(J, i) + (IF i = I[a].pin THEN 1 ELSE 0)
    BY <2>a, <2>4, FreedOne
  <2>6. I[a].pin \in Inode \cup {None}
    BY <1>2 DEF Table, InodeRec
  <2>7. I[a].pin \in Inode => I[a].pin # a /\ Climbs(I, a)
    BY <1>2, <2>3, PinnedIs DEF Table
  <2>8. ASSUME NEW i \in Inode PROVE J[i].ref = Plus(E, I[a].pin)[i] + Pins(J, i)
    <3>1. Pins(J, i) \in Nat /\ E[i] \in Nat
      BY PinsFinite DEF Counts
    <3>2. CASE i = a
      BY <1>2, <2>3, <2>4, <2>5, <2>7, <3>1, <3>2, FreeIs, PlusIs
    <3>3. CASE i # a
      BY <1>2, <2>4, <2>5, <3>1, <3>3, PlusIs DEF Due
    <3> QED BY <3>2, <3>3
  <2>9. Due(J, Plus(E, r.at)) /\ Table(J) /\ Shrunk(I, J)
    BY <2>1, <2>5, <2>8 DEF Due
  <2>10. ASSUME r.at \in Inode
         PROVE  I[a].node # "root" /\ J[r.at].node = ParentNode(I[a].node)
    BY <2>1, <2>4, <2>7, <2>10 DEF Climbs
  <2> QED BY <1>2, <2>1, <2>6, <2>9, <2>10 DEF J
<1>3. CASE a \in Inode /\ I[a].ref # 1
  <2>1. r.inode = [I EXCEPT ![a] = [I[a] EXCEPT !.ref = I[a].ref - 1]] /\ r.at = None
    BY <1>3, SpecialIs DEF GiveUp
  <2>2. I[a].ref = E[a] + 1 + Pins(I, a) /\ Pins(I, a) \in Nat /\ E[a] \in Nat
    BY <1>3, OwedLives, PinsFinite DEF Counts
  <2>3. I[a].ref - 1 \in Nat \ {0} /\ I[a].ref > 0
    BY <1>3, <2>2
  <2> DEFINE J == r.inode
             n == I[a].ref - 1
  <2>a. I[a] \in InodeRec /\ I \in [Inode -> InodeRec]
    BY <1>3 DEF Table
  <2>5. n \in Nat \ {0}
    BY <2>3
  <2>6. n = I[a].ref - 1
    OBVIOUS
  <2>b. J[a] = [I[a] EXCEPT !.ref = n] /\ \A j \in Inode \ {a} : J[j] = I[j]
    BY <1>3, <2>1, <2>a
  <2>4. J \in [Inode -> InodeRec] /\ Same(I, J, a) /\ J[a].ref = n /\ \A j \in Inode \ {a} : J[j] = I[j]
    BY <1>3, <2>1, <2>a, <2>b, <2>5, RecIs DEF Same
  <2> HIDE DEF J, n
  <2>7. /\ Table(J) /\ Shrunk(I, J)
        /\ \A i \in Inode : Pins(J, i) = Pins(I, i)
    BY <1>3, <2>3, <2>4, <2>5, Recounted
  <2>8. ASSUME NEW i \in Inode PROVE J[i].ref = Plus(E, None)[i] + Pins(J, i)
    <3>1. Pins(J, i) \in Nat /\ E[i] \in Nat /\ i # None
      BY PinsFinite DEF Counts, VfsAssumption
    <3>2. CASE i = a
      BY <1>3, <2>2, <2>4, <2>6, <2>7, <3>1, <3>2, PlusIs
    <3>3. CASE i # a
      BY <1>3, <2>4, <2>7, <3>1, <3>3, PlusIs DEF Due
    <3> QED BY <3>2, <3>3
  <2> QED BY <2>1, <2>7, <2>8 DEF Due, VfsAssumption, J
<1> QED BY <1>1, <1>2, <1>3

LEMMA ShrunkTwice ==
  ASSUME NEW I, NEW J, NEW K, Shrunk(I, J), Shrunk(J, K)
  PROVE  Shrunk(I, K)
BY DEF Shrunk, Same

(* VfsInodeUnref, with all that Destroy gives up.                              *)
LEMMA UnrefOK ==
  ASSUME VfsAssumption, NEW I, Table(I), NEW E \in Counts, NEW a \in Held, Due(I, Plus(E, a))
  PROVE  LET J == VfsInodeUnref(I, a) IN Table(J) /\ Due(J, E) /\ Shrunk(I, J)
<1> DEFINE p == GiveUp(I, a)
           q == GiveUp(p.inode, p.at)
           r == GiveUp(q.inode, q.at)
<1>1. /\ Table(p.inode) /\ p.at \in Inode \cup {None} /\ Due(p.inode, Plus(E, p.at))
      /\ Shrunk(I, p.inode)
      /\ p.at \in Inode => /\ a \in Inode /\ I[a].node # "root"
                           /\ p.inode[p.at].node = ParentNode(I[a].node)
  <2> HIDE DEF q, r
  <2> QED BY GiveUpOK
<1>2. VfsInodeUnref(I, a) = r.inode
  BY DEF VfsInodeUnref
<1> HIDE DEF p
<1>3. /\ Table(q.inode) /\ q.at \in Inode \cup {None} /\ Due(q.inode, Plus(E, q.at))
      /\ Shrunk(p.inode, q.inode)
      /\ q.at \in Inode => /\ p.at \in Inode /\ p.inode[p.at].node # "root"
                           /\ q.inode[q.at].node = ParentNode(p.inode[p.at].node)
  <2>1. p.at \in Held
    BY <1>1 DEF Held
  <2> HIDE DEF r
  <2> QED BY <1>1, <2>1, GiveUpOK
<1> HIDE DEF q
<1>4. /\ Table(r.inode) /\ r.at \in Inode \cup {None} /\ Due(r.inode, Plus(E, r.at))
      /\ Shrunk(q.inode, r.inode)
      /\ r.at \in Inode => q.at \in Inode /\ q.inode[q.at].node # "root"
  <2>1. q.at \in Held
    BY <1>3 DEF Held
  <2> QED BY <1>3, <2>1, GiveUpOK
<1> HIDE DEF r
<1>5. r.at = None
  <2>1. a \in Inode => I[a].node \in Node
    BY DEF Table, InodeRec
  <2> QED BY <1>1, <1>3, <1>4, <2>1 DEF ParentNode, Node
<1>6. Due(r.inode, E)
  BY <1>4, <1>5, PlusNothing
<1>7. Shrunk(I, r.inode)
  BY <1>1, <1>3, <1>4, ShrunkTwice
<1> QED BY <1>2, <1>4, <1>6, <1>7

LEMMA RefOK ==
  ASSUME VfsAssumption, NEW I, Table(I), NEW E \in Counts, NEW a \in Held, Due(I, E),
         a \in Inode => I[a].ref > 0
  PROVE  LET J == VfsInodeRef(I, a) IN Table(J) /\ Due(J, Plus(E, a)) /\ Shrunk(I, J) /\ Stays(I, J)
<1> DEFINE J == VfsInodeRef(I, a)
<1>1. CASE a \notin Inode
  <2>1. J = I
    BY <1>1, SpecialIs DEF VfsInodeRef
  <2>2. Plus(E, a) = E
    BY <1>1, PlusNothing DEF Held
  <2> QED BY <2>1, <2>2 DEF Shrunk, Stays, Same
<1>2. CASE a \in Inode
  <2> DEFINE n == I[a].ref + 1
  <2>1. J = [I EXCEPT ![a] = [I[a] EXCEPT !.ref = n]]
    BY <1>2, SpecialIs DEF VfsInodeRef
  <2>2. n \in Nat \ {0} /\ I[a].ref \in Nat
    BY <1>2 DEF Table, InodeRec
  <2>3. n = I[a].ref + 1
    OBVIOUS
  <2>a. a \in Inode /\ I[a].ref > 0 /\ I[a] \in InodeRec /\ I \in [Inode -> InodeRec]
    BY <1>2 DEF Table
  <2>b. J[a] = [I[a] EXCEPT !.ref = n] /\ \A j \in Inode \ {a} : J[j] = I[j]
    BY <2>1, <2>a
  <2>c. J \in [Inode -> InodeRec] /\ Same(I, J, a) /\ J[a].ref = n /\ \A j \in Inode \ {a} : J[j] = I[j]
    BY <2>1, <2>a, <2>b, <2>2, RecIs DEF Same
  <2> HIDE DEF J, n
  <2>4. /\ Table(J) /\ Shrunk(I, J) /\ Stays(I, J)
        /\ \A i \in Inode : Pins(J, i) = Pins(I, i)
    BY <2>a, <2>c, <2>2, Recounted
  <2>5. ASSUME NEW i \in Inode PROVE J[i].ref = Plus(E, a)[i] + Pins(J, i)
    <3>1. Pins(J, i) \in Nat /\ E[i] \in Nat /\ I[i].ref = E[i] + Pins(I, i)
      BY PinsFinite DEF Counts, Due
    <3> QED BY <1>2, <2>2, <2>3, <2>4, <2>c, <3>1, PlusIs
  <2> QED BY <2>4, <2>5 DEF Due, J
<1> QED BY <1>1, <1>2
------------------------------------------------------------------------------
(* From one table to a later one: what was allocated at the start is held from *)
(* without, or by a child that is, so nothing of it is freed; and what is new  *)
(* is the inode the walk is at, its pin, or the pin of that.                   *)
Survives(I, J) == \A j \in Inode : I[j].ref > 0 /\ J[j].ref > 0 => Same(I, J, j)

LEMMA DueStays ==
  ASSUME VfsAssumption, NEW I, Table(I), NEW E \in Counts, Due(I, E), NEW J, Table(J),
         NEW F \in Counts, Due(J, F), \A i \in Inode : E[i] <= F[i], Survives(I, J)
  PROVE  Stays(I, J)
<1>1. ASSUME NEW j \in Inode
      PROVE  /\ E[j] \in Nat /\ F[j] \in Nat /\ Pins(I, j) \in Nat /\ Pins(J, j) \in Nat
             /\ I[j].ref = E[j] + Pins(I, j) /\ J[j].ref = F[j] + Pins(J, j) /\ E[j] <= F[j]
  BY PinsFinite DEF Counts, Due
<1>2. ASSUME NEW j \in Inode, I[j].ref > 0, J[j].ref = 0
      PROVE  \E k \in Inode : I[k].ref > 0 /\ I[k].pin = j /\ J[k].ref = 0
  <2>1. F[j] = 0 /\ Pins(J, j) = 0 /\ E[j] = 0 /\ Pins(I, j) # 0
    BY <1>1, <1>2
  <2>2. PICK k \in Inode : I[k].ref > 0 /\ I[k].pin = j
    BY <2>1, PinnedIs
  <2>3. J[k].ref \in Nat /\ (J[k].ref > 0 => J[k].pin # j)
    BY <2>1, PinnedIs DEF Table, InodeRec
  <2>4. J[k].ref = 0
    BY <2>2, <2>3 DEF Survives, Same
  <2> QED BY <2>2, <2>4
<1>3. ASSUME NEW j \in Inode, I[j].ref > 0, J[j].ref = 0 PROVE FALSE
  <2>1. PICK k \in Inode : I[k].ref > 0 /\ I[k].pin = j /\ J[k].ref = 0
    BY <1>2, <1>3
  <2>2. PICK l \in Inode : I[l].ref > 0 /\ I[l].pin = k /\ J[l].ref = 0
    BY <1>2, <2>1
  <2>3. PICK m \in Inode : I[m].ref > 0 /\ I[m].pin = l /\ J[m].ref = 0
    BY <1>2, <2>2
  <2>4. /\ I[k].node # "root" /\ I[l].node # "root" /\ I[m].node # "root"
        /\ I[k].node = ParentNode(I[l].node) /\ I[l].node = ParentNode(I[m].node)
    BY <2>1, <2>2, <2>3 DEF Table, Climbs
  <2> QED BY <2>4 DEF ParentNode
<1>4. \A j \in Inode : J[j].ref \in Nat
  BY DEF Table, InodeRec
<1> QED BY <1>3, <1>4 DEF Stays, Survives

LEMMA FreshIs ==
  ASSUME VfsAssumption, NEW I, Table(I), NEW E \in Counts, Due(I, E), NEW J, Table(J),
         NEW a \in Held, Due(J, Plus(E, a)), Stays(I, J), NEW j \in Inode, I[j].ref = 0, J[j].ref > 0
  PROVE  \/ j = a
         \/ \E k \in Inode : I[k].ref = 0 /\ J[k].ref > 0 /\ J[k].pin = j
<1>1. E[j] = 0 /\ Pins(I, j) = 0
  BY PinsFinite DEF Counts, Due
<1>2. Plus(E, a)[j] = IF j = a THEN 1 ELSE 0
  BY <1>1, PlusIs
<1>3. ASSUME j # a PROVE \E k \in Inode : I[k].ref = 0 /\ J[k].ref > 0 /\ J[k].pin = j
  <2>1. Pins(J, j) # 0
    BY <1>2, <1>3, PinsFinite DEF Due
  <2>2. PICK k \in Inode : J[k].ref > 0 /\ J[k].pin = j
    BY <2>1, PinnedIs
  <2>3. I[k].ref \in Nat /\ (I[k].ref > 0 => I[k].pin # j)
    BY <1>1, PinnedIs DEF Table, InodeRec
  <2>4. I[k].ref = 0
    BY <2>2, <2>3 DEF Stays, Same
  <2> QED BY <2>2, <2>4
<1> QED BY <1>3

LEMMA FreshAll ==
  ASSUME VfsAssumption, NEW I, Table(I), NEW E \in Counts, Due(I, E), NEW J, Table(J),
         NEW a \in Inode, Due(J, Plus(E, a)), Stays(I, J), NEW j \in Inode, I[j].ref = 0, J[j].ref > 0
  PROVE  j \in {a, J[a].pin} \/ (J[a].node = "file" /\ J[a].pin \in Inode /\ j = J[J[a].pin].pin)
<1>1. a \in Held /\ \A k \in Inode : J[k].ref > 0 => Climbs(J, k) /\ J[k].node \in Node
  BY DEF Held, Table, InodeRec
<1>2. ASSUME NEW k \in Inode, I[k].ref = 0, J[k].ref > 0
      PROVE  k = a \/ \E l \in Inode : I[l].ref = 0 /\ J[l].ref > 0 /\ J[l].pin = k
  BY <1>1, <1>2, FreshIs
<1>3. CASE j = a
  BY <1>3
<1>4. ASSUME NEW k \in Inode, I[k].ref = 0, J[k].ref > 0, J[k].pin = j
      PROVE  j = J[a].pin \/ (J[a].node = "file" /\ J[a].pin \in Inode /\ j = J[J[a].pin].pin)
  <2>1. CASE k = a
    BY <1>4, <2>1
  <2>2. ASSUME NEW l \in Inode, I[l].ref = 0, J[l].ref > 0, J[l].pin = k
        PROVE  J[a].node = "file" /\ J[a].pin \in Inode /\ j = J[J[a].pin].pin
    <3>1. /\ J[k].node # "root" /\ J[l].node # "root"
          /\ J[k].node = ParentNode(J[l].node) /\ J[l].node \in Node
      BY <1>1, <1>4, <2>2 DEF Climbs
    <3>2. J[l].node = "file"
      BY <3>1 DEF ParentNode, Node
    <3>3. ASSUME NEW m \in Inode, J[m].ref > 0, J[m].pin = l PROVE FALSE
      <4>1. J[l].node = ParentNode(J[m].node)
        BY <1>1, <3>3 DEF Climbs
      <4> QED BY <3>2, <4>1 DEF ParentNode
    <3>4. l = a
      BY <1>2, <2>2, <3>3
    <3> QED BY <1>4, <2>2, <3>2, <3>4
  <2> QED BY <1>2, <1>4, <2>1, <2>2
<1> QED BY <1>2, <1>3, <1>4

(* There is an inode to allocate, when the walk is not at the file of a volume *)
(* whose files pin their directory.                                            *)
LEMMA SpareIs ==
  ASSUME VfsAssumption, NEW I, Table(I), NEW E \in Counts, Due(I, E), NEW J, Table(J),
         NEW a \in Inode, Due(J, Plus(E, a)), Stays(I, J), Cardinality(Spare(I)) > 2,
         J[a].node # "file" \/ J[a].pin = None
  PROVE  LET new == VfsAllocInode(J) IN new \in Inode /\ J[new].ref = 0
<1>1. IsFiniteSet(Spare(I)) /\ IsFiniteSet({a, J[a].pin}) /\ Cardinality({a, J[a].pin}) <= 2
  <2>1. Spare(I) \in SUBSET Inode
    BY DEF Spare
  <2>2. IsFiniteSet(Spare(I))
    BY <2>1, FS_Subset DEF VfsAssumption
  <2>3. IsFiniteSet({a}) /\ Cardinality({a}) = 1
    BY FS_Singleton
  <2>4. {a, J[a].pin} = {a} \cup {J[a].pin}
    OBVIOUS
  <2>5. IsFiniteSet({a} \cup {J[a].pin}) /\ Cardinality({a} \cup {J[a].pin}) <= 2
    BY <2>3, FS_AddElement
  <2> QED BY <2>2, <2>4, <2>5
<1>2. ~(Spare(I) \subseteq {a, J[a].pin})
  <2>1. Cardinality({a, J[a].pin}) \in Nat /\ Cardinality(Spare(I)) \in Nat
    BY <1>1, FS_CardinalityType
  <2>2. ASSUME Spare(I) \in SUBSET {a, J[a].pin} PROVE FALSE
    <3>1. Cardinality(Spare(I)) <= Cardinality({a, J[a].pin})
      BY <1>1, <2>2, FS_Subset
    <3> QED BY <1>1, <2>1, <3>1
  <2> QED BY <2>2
<1>3. PICK j \in Inode : I[j].ref = 0 /\ j \notin {a, J[a].pin}
  BY <1>2 DEF Spare
<1>4. J[j].ref \in Nat
  BY DEF Table, InodeRec
<1>5. ASSUME J[a].pin = None PROVE J[a].pin \notin Inode
  BY <1>5 DEF VfsAssumption
<1>6. ~(J[j].ref > 0)
  BY <1>3, <1>5, FreshAll
<1>7. Spare(J) # {}
  BY <1>4, <1>6 DEF Spare
<1>8. VfsAllocInode(J) \in Spare(J)
  BY <1>7 DEF VfsAllocInode
<1> QED BY <1>8 DEF Spare

------------------------------------------------------------------------------
(* An inode is allocated, and refers to its pin.                               *)
Made(K, new, v, node, pin) ==
  [VfsInodeRef(K, pin) EXCEPT ![new] = [vol |-> v, node |-> node, ref |-> 1, pin |-> pin]]

LEMMA Allocated ==
  ASSUME VfsAssumption, NEW K, Table(K), NEW E \in Counts, Due(K, E), NEW new \in Inode, K[new].ref = 0,
         NEW v \in Volume \cup {None}, NEW node \in Node, NEW pin \in Inode \cup {None},
         pin \in Inode => /\ K[pin].ref > 0 /\ node # "root" /\ K[pin].node = ParentNode(node)
                          /\ FsOf[v] = "exfat"
  PROVE  LET J == Made(K, new, v, node, pin)
         IN  /\ Table(J) /\ Due(J, Plus(E, new)) /\ Stays(K, J)
             /\ J[new] = [vol |-> v, node |-> node, ref |-> 1, pin |-> pin]
<1> DEFINE R == VfsInodeRef(K, pin)
           x == [vol |-> v, node |-> node, ref |-> 1, pin |-> pin]
           J == Made(K, new, v, node, pin)
<1>1. Table(R) /\ Due(R, Plus(E, pin)) /\ Shrunk(K, R) /\ Stays(K, R)
  <2>1. pin \in Held
    BY DEF Held
  <2> QED BY <2>1, RefOK
<1>2. x \in InodeRec /\ x.vol = v /\ x.node = node /\ x.ref = 1 /\ x.pin = pin
  BY DEF InodeRec
<1>3. J = [R EXCEPT ![new] = x]
  BY DEF Made
<1> HIDE DEF R, x, J
<1>4. R \in [Inode -> InodeRec] /\ \A j \in Inode : R[j].ref \in Nat
  BY <1>1 DEF Table, InodeRec
<1>5. J \in [Inode -> InodeRec] /\ J[new] = x /\ \A j \in Inode \ {new} : J[j] = R[j]
  BY <1>2, <1>3, <1>4
<1>6. R[new].ref = 0 /\ pin # new
  <2>1. pin # new
    BY DEF VfsAssumption
  <2> QED BY <1>1, <1>4, <2>1 DEF Shrunk
<1>7. E[new] = 0 /\ Pins(R, new) = 0 /\ Plus(E, pin)[new] = 0
  <2>1. E[new] \in Nat /\ Pins(R, new) \in Nat /\ Plus(E, pin)[new] = E[new]
    BY <1>6, PlusIs, PinsFinite DEF Counts
  <2> QED BY <1>1, <1>6, <2>1 DEF Due
<1>8. \A j \in Inode : R[j].ref > 0 => R[j].pin # new
  BY <1>7, PinnedIs
<1>9. ASSUME NEW j \in Inode, J[j].ref > 0 PROVE Climbs(J, j)
  <2>1. CASE j = new
    <3>1. pin \in Inode => /\ J[pin].node = K[pin].node /\ node # "root" /\ K[pin].node = ParentNode(node)
                           /\ FsOf[v] = "exfat"
      BY <1>1, <1>5, <1>6 DEF Stays, Same
    <3> QED BY <1>2, <1>5, <2>1, <3>1 DEF Climbs
  <2>2. CASE j # new
    <3>1. R[j].ref > 0 /\ J[j] = R[j] /\ R[j].pin # new /\ Climbs(R, j)
      BY <1>1, <1>5, <1>8, <1>9, <2>2 DEF Table
    <3> QED BY <1>5, <3>1 DEF Climbs
  <2> QED BY <2>1, <2>2
<1>10. Table(J)
  <2>1. \A j \in Inode : J[j].ref = 0 => J[j] = FreeInode
    BY <1>1, <1>2, <1>5 DEF Table
  <2> QED BY <1>5, <1>9, <2>1 DEF Table
<1>11. ASSUME NEW i \in Inode
       PROVE  Pins(J, i) = Pins(R, i) + (IF i = pin THEN 1 ELSE 0)
  <2> DEFINE S == Pinning(R, i)
  <2>1. Pinning(J, i) = IF i = pin THEN S \cup {new} ELSE S
    BY <1>2, <1>5, <1>6 DEF Pinning
  <2>2. new \notin S
    BY <1>6 DEF Pinning
  <2>3. IsFiniteSet(S) /\ Cardinality(S) \in Nat
    BY PinsFinite DEF Pins
  <2>4. Pins(R, i) = Cardinality(S) /\ Pins(J, i) = Cardinality(Pinning(J, i))
    BY DEF Pins
  <2> HIDE DEF S
  <2>5. Cardinality(S \cup {new}) = Cardinality(S) + 1
    BY <2>2, <2>3, FS_AddElement
  <2> QED BY <2>1, <2>3, <2>4, <2>5
<1>12. ASSUME NEW i \in Inode PROVE J[i].ref = Plus(E, new)[i] + Pins(J, i)
  <2>1. E[i] \in Nat /\ Pins(R, i) \in Nat /\ Plus(E, pin)[i] = E[i] + (IF i = pin THEN 1 ELSE 0)
        /\ Plus(E, new)[i] = E[i] + (IF i = new THEN 1 ELSE 0)
        /\ R[i].ref = Plus(E, pin)[i] + Pins(R, i)
    BY <1>1, PlusIs, PinsFinite DEF Counts, Due
  <2>2. CASE i = new
    BY <1>2, <1>5, <1>6, <1>7, <1>11, <2>1, <2>2
  <2>3. CASE i # new
    BY <1>5, <1>11, <2>1, <2>3
  <2> QED BY <2>2, <2>3
<1>13. Stays(K, J)
  <2>1. \A j \in Inode : K[j].ref > 0 => j # new
    OBVIOUS
  <2> QED BY <1>1, <1>5, <2>1 DEF Stays, Same
<1> QED BY <1>5, <1>10, <1>12, <1>13 DEF Due, J, x

(* A walk from I is at an inode that it has referenced; E counts the holders   *)
(* besides it.                                                                 *)
WalkAt(I, E, w) ==
  /\ w.ok \in BOOLEAN /\ w.at \in Held /\ (w.ok => w.at # None)
  /\ Table(w.inode) /\ Due(w.inode, Plus(E, w.at)) /\ Stays(I, w.inode)

LEMMA NoHolder ==
  ASSUME VfsAssumption, NEW E \in Counts, NEW a \in Held, a \notin Inode
  PROVE  Plus(E, a) = E
BY PlusNothing DEF Held

LEMMA StaysLonger ==
  ASSUME NEW I, NEW J, NEW K, Stays(I, J), Stays(J, K)
  PROVE  Stays(I, K)
BY DEF Stays, Same

LEMMA Grows ==
  ASSUME NEW E \in Counts, NEW a
  PROVE  Plus(E, a) \in Counts /\ \A i \in Inode : E[i] <= Plus(E, a)[i]
<1>1. ASSUME NEW i \in Inode PROVE E[i] <= Plus(E, a)[i]
  <2>1. E[i] \in Nat
    BY DEF Counts
  <2> QED BY <2>1, PlusIs
<1> QED BY <1>1, PlusIs

(* The walk gives up the inode x, on a table K in which it is at b, and has    *)
(* made b or referenced it.                                                    *)
LEMMA GivesUp ==
  ASSUME VfsAssumption, NEW I, Table(I), NEW E \in Counts, Due(I, E), NEW K, Table(K), Stays(I, K),
         NEW x \in Held, NEW b \in Held, Due(K, Plus(Plus(E, b), x)), NEW ok \in BOOLEAN,
         ok => b # None
  PROVE  WalkAt(I, E, [ok |-> ok, inode |-> VfsInodeUnref(K, x), at |-> b])
<1> DEFINE J == VfsInodeUnref(K, x)
<1>1. Plus(E, b) \in Counts /\ \A i \in Inode : E[i] <= Plus(E, b)[i]
  BY Grows
<1>2. Table(J) /\ Due(J, Plus(E, b)) /\ Shrunk(K, J)
  BY <1>1, UnrefOK
<1> HIDE DEF J
<1>3. Survives(I, J)
  BY <1>2 DEF Survives, Stays, Shrunk, Same
<1>4. Stays(I, J)
  BY <1>1, <1>2, <1>3, DueStays
<1> QED BY <1>2, <1>4 DEF WalkAt, J

LEMMA FailedOK ==
  ASSUME VfsAssumption, NEW I, Table(I), NEW E \in Counts, Due(I, E), NEW w, WalkAt(I, E, w)
  PROVE  WalkAt(I, E, Failed(w.inode, w.at))
<1>1. Plus(E, None) = E /\ None \in Held
  BY PlusNothing DEF Held
<1>2. /\ Table(w.inode) /\ Stays(I, w.inode) /\ w.at \in Held
      /\ Due(w.inode, Plus(Plus(E, None), w.at))
  BY <1>1 DEF WalkAt
<1>3. WalkAt(I, E, [ok |-> FALSE, inode |-> VfsInodeUnref(w.inode, w.at), at |-> None])
  BY <1>1, <1>2, GivesUp
<1> QED BY <1>3 DEF Failed

(* The walk makes an inode on the volume it is on, and gives up the one it was *)
(* at.                                                                         *)
LEMMA MakesOne ==
  ASSUME VfsAssumption, NEW I, Table(I), NEW E \in Counts, Due(I, E), NEW w, WalkAt(I, E, w),
         w.at \in Inode, NEW new \in Inode, w.inode[new].ref = 0,
         NEW v \in Volume \cup {None}, NEW node \in Node, NEW pin \in {w.at, None},
         pin = w.at => /\ node # "root" /\ w.inode[w.at].node = ParentNode(node)
                       /\ FsOf[v] = "exfat"
  PROVE  LET J == VfsInodeUnref(Made(w.inode, new, v, node, pin), w.at)
         IN  WalkAt(I, E, Walked(J, new)) /\ J[new].node = node
<1> DEFINE W == w.inode
           a == w.at
           K == Made(W, new, v, node, pin)
<1>1. a \in Inode /\ Table(W) /\ Due(W, Plus(E, a)) /\ Stays(I, W) /\ Plus(E, a) \in Counts
  BY PlusIs DEF WalkAt
<1>2. W[a].ref > 0 /\ pin \in Inode \cup {None}
  <2>1. W[a].ref > 0
    BY <1>1, OwedLives
  <2> QED BY <2>1
<1>3. pin \in Inode => /\ W[pin].ref > 0 /\ node # "root" /\ W[pin].node = ParentNode(node)
                       /\ FsOf[v] = "exfat"
  BY <1>2 DEF VfsAssumption
<1>4. /\ Table(K) /\ Due(K, Plus(Plus(E, a), new)) /\ Stays(W, K)
      /\ K[new] = [vol |-> v, node |-> node, ref |-> 1, pin |-> pin]
  <2> HIDE DEF W, a
  <2>1. W[new].ref = 0
    BY DEF W
  <2> QED BY <1>1, <1>2, <1>3, <2>1, Allocated
<1>5. Due(K, Plus(Plus(E, new), a)) /\ Stays(I, K)
  <2> HIDE DEF W, a, K
  <2> QED BY <1>1, <1>4, PlusSwaps, StaysLonger
<1>6. a \in Held /\ new \in Held /\ new # None
  BY DEF Held, VfsAssumption
<1> HIDE DEF W, a, K
<1>7. WalkAt(I, E, [ok |-> TRUE, inode |-> VfsInodeUnref(K, a), at |-> new])
  BY <1>4, <1>5, <1>6, GivesUp
<1> DEFINE J == VfsInodeUnref(K, a)
<1>8. J[new].node = node
  <2>1. Plus(E, new) \in Counts
    BY PlusIs
  <2>2. Table(J) /\ Due(J, Plus(E, new)) /\ Shrunk(K, J)
    BY <1>4, <1>5, <1>6, <2>1, UnrefOK
  <2> HIDE DEF J
  <2>3. J[new].ref > 0
    BY <2>2, OwedLives
  <2> QED BY <1>4, <2>2, <2>3 DEF Shrunk, Same
<1> QED BY <1>7, <1>8 DEF Walked, K, W, a

LEMMA SpareOnWalk ==
  ASSUME VfsAssumption, NEW I, Table(I), NEW E \in Counts, Due(I, E), Cardinality(Spare(I)) > 2,
         NEW w, WalkAt(I, E, w), w.at \in Inode,
         w.inode[w.at].node # "file" \/ FsOf[w.inode[w.at].vol] # "exfat"
  PROVE  LET new == VfsAllocInode(w.inode) IN new \in Inode /\ w.inode[new].ref = 0
<1> DEFINE W == w.inode
           a == w.at
<1>1. a \in Inode /\ Table(W) /\ Due(W, Plus(E, a)) /\ Stays(I, W)
  BY DEF WalkAt
<1>2. W[a].ref > 0
  BY <1>1, OwedLives
<1>3. W[a].node # "file" \/ W[a].pin = None
  BY <1>1, <1>2 DEF Table, Climbs, InodeRec
<1> HIDE DEF W, a
<1>4. LET new == VfsAllocInode(W) IN new \in Inode /\ W[new].ref = 0
  BY <1>1, <1>3, SpareIs
<1> QED BY <1>4 DEF W

LEMMA DescendOK ==
  ASSUME VfsAssumption, NEW I, Table(I), NEW E \in Counts, Due(I, E), Cardinality(Spare(I)) > 2,
         NEW w, WalkAt(I, E, w), w.ok, NEW name \in {"dir", "file"}
  PROVE  /\ WalkAt(I, E, Descend(w, name))
         /\ w.at \in Inode /\ Descend(w, name).ok => Descend(w, name).at \in Inode
         /\ Descend(w, name).ok => Descend(w, name).inode[Descend(w, name).at].node = name
<1> DEFINE v == w.inode[w.at].vol
           new == VfsAllocInode(w.inode)
           fails == \/ w.at = NsRoot \/ FsOf[v] = "iso9660" \/ name \notin tree[v]
                    \/ ParentNode(name) # w.inode[w.at].node \/ name = w.inode[w.at].node
<1>1. CASE fails
  <2>1. Descend(w, name) = Failed(w.inode, w.at)
    BY <1>1 DEF Descend
  <2>2. ~Failed(w.inode, w.at).ok
    BY DEF Failed
  <2> HIDE DEF fails
  <2> QED BY <2>1, <2>2, FailedOK
<1>2. CASE ~fails
  <2> DEFINE pin == IF FsOf[v] = "exfat" THEN w.at ELSE None
  <2>1. w.at \in Inode /\ ParentNode(name) = w.inode[w.at].node /\ w.inode[w.at].node # "file"
    BY <1>2 DEF WalkAt, Held, ParentNode
  <2>2. Descend(w, name) = Walked(VfsInodeUnref(Made(w.inode, new, v, name, pin), w.at), new)
    BY <1>2 DEF Descend, Attached, Made
  <2>3. new \in Inode /\ w.inode[new].ref = 0
    BY <2>1, SpareOnWalk
  <2>4. pin = w.at => FsOf[v] = "exfat"
    BY <2>1 DEF VfsAssumption
  <2>5. name \in Node /\ name # "root" /\ pin \in {w.at, None}
    BY DEF Node
  <2>a. v \in Volume \cup {None}
    BY <2>1 DEF WalkAt, Table, InodeRec
  <2> DEFINE J == VfsInodeUnref(Made(w.inode, new, v, name, pin), w.at)
  <2>6. Walked(J, new).at = new /\ Walked(J, new).inode = J
    BY DEF Walked
  <2> HIDE DEF fails, new, v, pin
  <2>7. WalkAt(I, E, Walked(J, new)) /\ J[new].node = name
    BY <2>1, <2>3, <2>4, <2>5, <2>a, MakesOne
  <2> QED BY <2>2, <2>3, <2>6, <2>7
<1> QED BY <1>1, <1>2

LEMMA ParentOK ==
  ASSUME VfsAssumption, NEW I, Table(I), NEW E \in Counts, Due(I, E), Cardinality(Spare(I)) > 2,
         NEW w, WalkAt(I, E, w), w.at \in Inode, w.ok
  PROVE  WalkAt(I, E, VfsParent(w))
<1> DEFINE i == w.at
           W == w.inode
           new == VfsAllocInode(w.inode)
<1>1. /\ i \in Held /\ Table(W) /\ Due(W, Plus(E, i)) /\ Stays(I, W) /\ Plus(E, i) \in Counts
      /\ i \in Inode
  BY PlusIs DEF WalkAt
<1>2. CASE i \in Roots
  <2>1. VfsParent(w) = [ok |-> TRUE, inode |-> VfsInodeUnref(W, i), at |-> NsRoot]
    BY <1>2 DEF VfsParent, Walked
  <2>2. Plus(E, NsRoot) = E /\ NsRoot \in Held /\ NsRoot # None
    BY PlusNothing DEF Held, VfsAssumption
  <2> HIDE DEF W, i
  <2> QED BY <1>1, <2>1, <2>2, GivesUp
<1>3. CASE i \notin Roots /\ FsOf[W[i].vol] = "exfat"
  <2>1. CASE W[i].pin = None
    <3>1. VfsParent(w) = Failed(w.inode, w.at)
      BY <1>3, <2>1 DEF VfsParent
    <3> QED BY <3>1, FailedOK
  <2>2. CASE W[i].pin # None
    <3> DEFINE p == W[i].pin
    <3>1. VfsParent(w) = [ok |-> TRUE, inode |-> VfsInodeUnref(VfsInodeRef(W, p), i), at |-> p]
      BY <1>3, <2>2 DEF VfsParent, Walked
    <3>2. p \in Inode
      BY <1>1, <2>2 DEF Table, InodeRec
    <3>3. W[i].ref > 0
      <4> HIDE DEF W, i
      <4> QED BY <1>1, OwedLives
    <3>4. W[p].ref > 0
      <4> HIDE DEF W, i
      <4> QED BY <1>1, <3>2, <3>3, PinnedLives
    <3> DEFINE K == VfsInodeRef(W, p)
    <3>5. p \in Held /\ p # None
      BY <3>2 DEF Held, VfsAssumption
    <3> HIDE DEF p, W, i
    <3>6. Table(K) /\ Due(K, Plus(Plus(E, i), p)) /\ Stays(W, K)
      BY <1>1, <3>4, <3>5, RefOK
    <3> HIDE DEF K
    <3>7. Due(K, Plus(Plus(E, p), i)) /\ Stays(I, K)
      BY <1>1, <3>6, PlusSwaps, StaysLonger
    <3>8. WalkAt(I, E, [ok |-> TRUE, inode |-> VfsInodeUnref(K, i), at |-> p])
      BY <1>1, <3>5, <3>6, <3>7, GivesUp
    <3> QED BY <3>1, <3>8 DEF K
  <2> QED BY <2>1, <2>2
<1>4. CASE i \notin Roots /\ FsOf[W[i].vol] # "exfat"
  <2> DEFINE v == W[i].vol
             node == W[i].node
  <2>1. CASE node = "root"
    <3>1. VfsParent(w) = w
      BY <1>4, <2>1 DEF VfsParent
    <3> QED BY <3>1
  <2>2. CASE node # "root"
    <3>1. VfsParent(w) = Walked(VfsInodeUnref(Made(w.inode, new, v, ParentNode(node), None), w.at), new)
      BY <1>4, <2>2 DEF VfsParent, Attached, Made
    <3>2. new \in Inode /\ w.inode[new].ref = 0
      BY <1>1, <1>4, SpareOnWalk
    <3>3. ParentNode(node) \in Node /\ None # w.at /\ None \in {w.at, None} /\ v \in Volume \cup {None}
      BY <1>1 DEF ParentNode, Node, VfsAssumption, Table, InodeRec
    <3> HIDE DEF new, v, node, W, i
    <3>4. WalkAt(I, E, Walked(VfsInodeUnref(Made(w.inode, new, v, ParentNode(node), None), w.at), new))
      BY <3>2, <3>3, MakesOne
    <3> QED BY <3>1, <3>4
  <2> QED BY <2>1, <2>2
<1> QED BY <1>2, <1>3, <1>4

LEMMA StepOK ==
  ASSUME VfsAssumption, NEW I, Table(I), NEW E \in Counts, Due(I, E), Cardinality(Spare(I)) > 2,
         NEW w, WalkAt(I, E, w), NEW name \in {"dir", "file", ".."}, NEW ceiling
  PROVE  /\ WalkAt(I, E, Step(w, name, ceiling))
         /\ (w.ok => w.at \in Inode) /\ name # ".." /\ Step(w, name, ceiling).ok
              => Step(w, name, ceiling).at \in Inode
         /\ name # ".." /\ Step(w, name, ceiling).ok
              => Step(w, name, ceiling).inode[Step(w, name, ceiling).at].node = name
<1>1. CASE ~w.ok \/ (name = ".." /\ w.at \in {ceiling, NsRoot})
  <2>1. Step(w, name, ceiling) = w
    BY <1>1 DEF Step
  <2> QED BY <1>1, <2>1
<1>2. CASE w.ok /\ name = ".." /\ w.at \notin {ceiling, NsRoot}
  <2>1. Step(w, name, ceiling) = VfsParent(w) /\ w.at \in Inode
    BY <1>2 DEF Step, WalkAt, Held
  <2> QED BY <1>2, <2>1, ParentOK
<1>3. CASE w.ok /\ name # ".."
  <2>1. Step(w, name, ceiling) = Descend(w, name) /\ name \in {"dir", "file"}
    BY <1>3 DEF Step
  <2> QED BY <1>3, <2>1, DescendOK
<1> QED BY <1>1, <1>2, <1>3

------------------------------------------------------------------------------
(* The function that VfsWalkWithin defines exists: it is built a name at a     *)
(* time.                                                                       *)
Names == Seq({"dir", "file", ".."})
Walking(f, start, ceiling, names, n) ==
  f = [k \in 0..n |-> IF k = 0 THEN Walked(VfsInodeRef(inode, start), start)
                      ELSE Step(f[k - 1], names[k], ceiling)]

LEMMA WalkExists ==
  ASSUME NEW start, NEW ceiling, NEW names, NEW N \in Nat
  PROVE  \E f : Walking(f, start, ceiling, names, N)
<1> DEFINE P == {n \in Nat : \E f : Walking(f, start, ceiling, names, n)}
           first == Walked(VfsInodeRef(inode, start), start)
<1>1. 0 \in P
  <2> DEFINE f == [k \in 0..0 |-> first]
  <2>1. f[0] = first
    OBVIOUS
  <2>2. f = [k \in 0..0 |-> IF k = 0 THEN first ELSE Step(f[k - 1], names[k], ceiling)]
    <3> HIDE DEF first
    <3> QED OBVIOUS
  <2>3. Walking(f, start, ceiling, names, 0)
    BY <2>2 DEF Walking
  <2> QED BY <2>3
<1>2. ASSUME NEW n \in P PROVE n + 1 \in P
  <2>1. n \in Nat /\ \E f : Walking(f, start, ceiling, names, n)
    BY <1>2
  <2>2. PICK f : Walking(f, start, ceiling, names, n)
    BY <2>1
  <2> DEFINE g == [k \in 0..(n + 1) |-> IF k = n + 1 THEN Step(f[n], names[n + 1], ceiling) ELSE f[k]]
  <2> HIDE DEF first
  <2>3. f = [k \in 0..n |-> IF k = 0 THEN first ELSE Step(f[k - 1], names[k], ceiling)]
    BY <2>2 DEF Walking, first
  <2>4. ASSUME NEW k \in 0..(n + 1)
        PROVE  g[k] = IF k = 0 THEN first ELSE Step(g[k - 1], names[k], ceiling)
    <3>1. CASE k = 0
      <4>1. g[k] = f[k] /\ f[k] = first
        BY <2>1, <2>3, <3>1
      <4> QED BY <3>1, <4>1
    <3>2. CASE k = n + 1
      <4>1. g[k] = Step(f[n], names[n + 1], ceiling) /\ g[k - 1] = f[n] /\ k # 0
        BY <2>1, <3>2
      <4> QED BY <3>2, <4>1
    <3>3. CASE k # 0 /\ k # n + 1
      <4>1. k \in 0..n /\ k - 1 \in 0..n /\ g[k] = f[k] /\ g[k - 1] = f[k - 1]
        BY <2>1, <3>3
      <4>2. f[k] = Step(f[k - 1], names[k], ceiling)
        BY <2>3, <3>3, <4>1
      <4> QED BY <3>3, <4>1, <4>2
    <3> QED BY <3>1, <3>2, <3>3
  <2>5. g = [k \in 0..(n + 1) |-> IF k = 0 THEN first ELSE Step(g[k - 1], names[k], ceiling)]
    BY <2>4
  <2> HIDE DEF g
  <2>6. Walking(g, start, ceiling, names, n + 1)
    BY <2>5 DEF Walking, first
  <2> QED BY <2>1, <2>6
<1> HIDE DEF P
<1>3. P \in SUBSET Nat
  BY DEF P
<1>4. P = Nat
  BY <1>1, <1>2, <1>3, Counting
<1> QED BY <1>4 DEF P

LEMMA WalkIs ==
  ASSUME VfsAssumption, Table(inode), NEW E \in Counts, Due(inode, E), Cardinality(Spare(inode)) > 2,
         NEW start \in Inode \cup {NsRoot}, start \in Inode => inode[start].ref > 0,
         NEW ceiling, NEW names \in Names
  PROVE  LET w == VfsWalkWithin(start, ceiling, names)
         IN  /\ WalkAt(inode, E, w)
             /\ start \in Inode /\ (\A n \in 1..Len(names) : names[n] # "..") /\ w.ok => w.at \in Inode
             /\ Len(names) # 0 /\ names[Len(names)] # ".." /\ w.ok
                  => w.inode[w.at].node = names[Len(names)]
<1> DEFINE N == Len(names)
           w == VfsWalkWithin(start, ceiling, names)
           walk == CHOOSE f : Walking(f, start, ceiling, names, N)
           down == start \in Inode /\ \A n \in 1..N : names[n] # ".."
           P == {n \in Nat : n <= N => /\ WalkAt(inode, E, walk[n])
                                       /\ down /\ walk[n].ok => walk[n].at \in Inode}
<1>1. N \in Nat /\ \A n \in 1..N : names[n] \in {"dir", "file", ".."}
  BY DEF Names
<1>2. w = walk[N]
  BY DEF VfsWalkWithin, Walking
<1>3. Walking(walk, start, ceiling, names, N)
  <2>1. \E f : Walking(f, start, ceiling, names, N)
    BY <1>1, WalkExists
  <2> QED BY <2>1
<1> HIDE DEF walk, w, N
<1>4. walk[0] = Walked(VfsInodeRef(inode, start), start)
  BY <1>1, <1>3 DEF Walking
<1>5. ASSUME NEW n \in Nat, n + 1 <= N
      PROVE  walk[n + 1] = Step(walk[n], names[n + 1], ceiling) /\ n + 1 \in 1..N
  <2>1. n + 1 \in 0..N /\ n + 1 # 0 /\ (n + 1) - 1 = n /\ n + 1 \in 1..N
    BY <1>1, <1>5
  <2>2. walk[n + 1] = Step(walk[(n + 1) - 1], names[n + 1], ceiling)
    BY <1>3, <2>1 DEF Walking
  <2> QED BY <2>1, <2>2
<1>6. 0 \in P
  <2> DEFINE J == VfsInodeRef(inode, start)
  <2>1. start \in Held /\ start # None
    BY DEF Held, VfsAssumption
  <2>2. Table(J) /\ Due(J, Plus(E, start)) /\ Stays(inode, J)
    BY <2>1, RefOK
  <2>3. /\ walk[0].ok = TRUE /\ walk[0].inode = J /\ walk[0].at = start
    BY <1>4 DEF Walked
  <2> HIDE DEF J
  <2>4. WalkAt(inode, E, walk[0])
    BY <2>1, <2>2, <2>3 DEF WalkAt
  <2> QED BY <2>3, <2>4
<1>7. ASSUME NEW n \in P PROVE n + 1 \in P
  <2>1. n \in Nat
    BY <1>7
  <2>2. ASSUME n + 1 <= N
        PROVE  /\ WalkAt(inode, E, walk[n + 1])
               /\ down /\ walk[n + 1].ok => walk[n + 1].at \in Inode
    <3>1. n <= N /\ WalkAt(inode, E, walk[n]) /\ (down /\ walk[n].ok => walk[n].at \in Inode)
      BY <1>1, <1>7, <2>1, <2>2
    <3>2. walk[n + 1] = Step(walk[n], names[n + 1], ceiling) /\ names[n + 1] \in {"dir", "file", ".."}
          /\ (down => names[n + 1] # "..")
      BY <1>1, <1>5, <2>1, <2>2
    <3> HIDE DEF down
    <3>3. /\ WalkAt(inode, E, Step(walk[n], names[n + 1], ceiling))
          /\ (walk[n].ok => walk[n].at \in Inode) /\ names[n + 1] # ".." /\ Step(walk[n], names[n + 1], ceiling).ok
              => Step(walk[n], names[n + 1], ceiling).at \in Inode
      BY <3>1, <3>2, StepOK
    <3> QED BY <3>1, <3>2, <3>3
  <2> HIDE DEF down
  <2> QED BY <2>1, <2>2
<1>8. P = Nat
  <2> HIDE DEF P
  <2>1. P \in SUBSET Nat
    BY DEF P
  <2> QED BY <1>6, <1>7, <2>1, Counting
<1>9. WalkAt(inode, E, walk[N]) /\ (down /\ walk[N].ok => walk[N].at \in Inode)
  <2>1. N \in P /\ N <= N
    BY <1>1, <1>8
  <2> QED BY <2>1
<1>10. ASSUME N # 0, names[N] # "..", walk[N].ok PROVE walk[N].inode[walk[N].at].node = names[N]
  <2>1. N - 1 \in Nat /\ (N - 1) + 1 = N /\ N - 1 <= N /\ names[N] \in {"dir", "file", ".."}
    BY <1>1, <1>10
  <2>2. walk[N] = Step(walk[N - 1], names[N], ceiling)
    BY <1>1, <1>5, <2>1
  <2>3. N - 1 \in P
    BY <1>8, <2>1
  <2>4. WalkAt(inode, E, walk[N - 1])
    BY <2>1, <2>3
  <2> QED BY <1>10, <2>1, <2>2, <2>4, StepOK
<1> QED BY <1>2, <1>9, <1>10 DEF w, N

------------------------------------------------------------------------------
(* The holders that are not inodes.                                            *)
At(ms, i) == {m \in Members(ms) : m.root = i}
OpenAs(fds, i) == {f \in Fd : fds[f] = i}
Rest(ms, fds, lk) ==
  [i \in Inode |-> Cardinality(At(ms, i)) + Cardinality(OpenAs(fds, i)) + lk[i]]
OuterOf(R, c, pc, im) == Plus(Plus(Plus(R, c), pc), im)

MountRec == [vol : Volume, root : Inode]
Mounts(ms) == ms \in Seq(MountRec) /\ \A m, n \in Members(ms) : m.vol = n.vol => m = n
Files == [Fd -> Held]
Lost == [Inode -> Nat]

LEMMA FourAre ==
  ASSUME NEW R \in Counts, NEW a, NEW b, NEW c, NEW d
  PROVE  LET T == Plus(Plus(Plus(Plus(R, a), b), c), d)
         IN  /\ T \in Counts
             /\ \A i \in Inode : T[i] = R[i] + (IF i = a THEN 1 ELSE 0) + (IF i = b THEN 1 ELSE 0)
                                            + (IF i = c THEN 1 ELSE 0) + (IF i = d THEN 1 ELSE 0)
<1> DEFINE A == Plus(R, a)
           B == Plus(A, b)
           C == Plus(B, c)
           D == Plus(C, d)
<1>1. A \in Counts /\ \A i \in Inode : A[i] = R[i] + (IF i = a THEN 1 ELSE 0)
  BY PlusIs
<1> HIDE DEF A
<1>2. B \in Counts /\ \A i \in Inode : B[i] = A[i] + (IF i = b THEN 1 ELSE 0)
  BY <1>1, PlusIs
<1> HIDE DEF B
<1>3. C \in Counts /\ \A i \in Inode : C[i] = B[i] + (IF i = c THEN 1 ELSE 0)
  BY <1>2, PlusIs
<1> HIDE DEF C
<1>4. D \in Counts /\ \A i \in Inode : D[i] = C[i] + (IF i = d THEN 1 ELSE 0)
  BY <1>3, PlusIs
<1> HIDE DEF D
<1>5. \A i \in Inode : D[i] = R[i] + (IF i = a THEN 1 ELSE 0) + (IF i = b THEN 1 ELSE 0)
                                + (IF i = c THEN 1 ELSE 0) + (IF i = d THEN 1 ELSE 0)
  BY <1>1, <1>2, <1>3, <1>4
<1> QED BY <1>4, <1>5 DEF A, B, C, D

LEMMA FourSwap ==
  ASSUME NEW R \in Counts, NEW a, NEW b, NEW c, NEW d
  PROVE  LET T(w, x, y, z) == Plus(Plus(Plus(Plus(R, w), x), y), z)
         IN  /\ T(a, b, c, d) = T(d, b, c, a) /\ T(a, b, c, d) = T(a, d, c, b)
             /\ T(a, b, c, d) = T(a, b, d, c) /\ T(a, b, c, d) = T(d, a, b, c)
<1> DEFINE T(w, x, y, z) == Plus(Plus(Plus(Plus(R, w), x), y), z)
           One(i, x) == IF i = x THEN 1 ELSE 0
<1>1. ASSUME NEW w, NEW x, NEW y, NEW z
      PROVE  /\ T(w, x, y, z) \in Counts
             /\ \A i \in Inode : T(w, x, y, z)[i] = R[i] + One(i, w) + One(i, x) + One(i, y) + One(i, z)
  BY FourAre
<1> HIDE DEF T
<1>2. ASSUME NEW i \in Inode
      PROVE  R[i] \in Nat /\ One(i, a) \in Nat /\ One(i, b) \in Nat /\ One(i, c) \in Nat /\ One(i, d) \in Nat
  BY DEF Counts
<1> HIDE DEF One
<1>3. \A i \in Inode : T(a, b, c, d)[i] = T(d, b, c, a)[i] /\ T(a, b, c, d)[i] = T(a, d, c, b)[i]
                       /\ T(a, b, c, d)[i] = T(a, b, d, c)[i] /\ T(a, b, c, d)[i] = T(d, a, b, c)[i]
  BY <1>1, <1>2
<1>4. T(a, b, c, d) = T(d, b, c, a) /\ T(a, b, c, d) = T(a, d, c, b)
  BY <1>1, <1>3 DEF Counts
<1>5. T(a, b, c, d) = T(a, b, d, c) /\ T(a, b, c, d) = T(d, a, b, c)
  BY <1>1, <1>3 DEF Counts
<1> QED BY <1>4, <1>5 DEF T

(* One holder is another, or there is one more.                                *)
LEMMA OuterMoves ==
  ASSUME NEW R \in Counts, NEW c, NEW pc, NEW im, NEW x
  PROVE  /\ OuterOf(R, c, pc, im) \in Counts
         /\ Plus(OuterOf(R, x, pc, im), c) = Plus(OuterOf(R, c, pc, im), x)
         /\ Plus(OuterOf(R, c, x, im), pc) = Plus(OuterOf(R, c, pc, im), x)
         /\ Plus(OuterOf(R, c, pc, x), im) = Plus(OuterOf(R, c, pc, im), x)
         /\ OuterOf(Plus(R, x), c, pc, im) = Plus(OuterOf(R, c, pc, im), x)
<1>1. Plus(Plus(Plus(Plus(R, x), pc), im), c) = Plus(Plus(Plus(Plus(R, c), pc), im), x)
  BY FourSwap
<1>2. Plus(Plus(Plus(Plus(R, c), x), im), pc) = Plus(Plus(Plus(Plus(R, c), pc), im), x)
  BY FourSwap
<1>3. Plus(Plus(Plus(Plus(R, c), pc), x), im) = Plus(Plus(Plus(Plus(R, c), pc), im), x)
  BY FourSwap
<1>4. Plus(Plus(Plus(Plus(R, c), pc), im), x) = Plus(Plus(Plus(Plus(R, x), c), pc), im)
  BY FourSwap
<1>5. Plus(Plus(Plus(R, c), pc), im) \in Counts
  <2>1. Plus(R, c) \in Counts
    BY PlusIs
  <2>2. Plus(Plus(R, c), pc) \in Counts
    BY <2>1, PlusIs
  <2> QED BY <2>2, PlusIs
<1> QED BY <1>1, <1>2, <1>3, <1>4, <1>5 DEF OuterOf

LEMMA MembersFinite ==
  ASSUME NEW T, NEW q \in Seq(T)
  PROVE  IsFiniteSet(Members(q))
<1>1. Len(q) \in Nat /\ DOMAIN q = 1..Len(q)
  OBVIOUS
<1>2. q \in Surjection(1..Len(q), Members(q))
  BY <1>1 DEF Surjection, Members
<1> QED BY <1>1, <1>2, FS_NatSurjection DEF ExistsSurjection

LEMMA RestIs ==
  ASSUME NEW ms, Mounts(ms), NEW fds \in Files, NEW lk \in Lost, VfsAssumption
  PROVE  /\ Rest(ms, fds, lk) \in Counts
         /\ \A i \in Inode : /\ IsFiniteSet(At(ms, i)) /\ IsFiniteSet(OpenAs(fds, i))
                             /\ Cardinality(At(ms, i)) \in Nat /\ Cardinality(OpenAs(fds, i)) \in Nat
                             /\ lk[i] \in Nat
                             /\ Rest(ms, fds, lk)[i] = Cardinality(At(ms, i)) + Cardinality(OpenAs(fds, i)) + lk[i]
<1>1. ASSUME NEW i \in Inode
      PROVE  /\ IsFiniteSet(At(ms, i)) /\ IsFiniteSet(OpenAs(fds, i))
             /\ Cardinality(At(ms, i)) \in Nat /\ Cardinality(OpenAs(fds, i)) \in Nat
             /\ lk[i] \in Nat
  <2>1. IsFiniteSet(Members(ms)) /\ At(ms, i) \in SUBSET Members(ms)
    BY MembersFinite DEF Mounts, At
  <2>2. IsFiniteSet(3..FdMax) /\ OpenAs(fds, i) \in SUBSET (3..FdMax)
    BY FS_Interval DEF VfsAssumption, OpenAs, Fd
  <2>3. IsFiniteSet(At(ms, i)) /\ IsFiniteSet(OpenAs(fds, i))
    BY <2>1, <2>2, FS_Subset
  <2> QED BY <2>3, FS_CardinalityType DEF Lost
<1>2. \A i \in Inode : Rest(ms, fds, lk)[i] = Cardinality(At(ms, i)) + Cardinality(OpenAs(fds, i)) + lk[i]
  BY DEF Rest
<1>3. \A i \in Inode : Rest(ms, fds, lk)[i] \in Nat
  BY <1>1, <1>2
<1> QED BY <1>1, <1>2, <1>3 DEF Rest, Counts

(* The entries of a set with one member more.                                  *)
LEMMA OneMore ==
  ASSUME NEW S, IsFiniteSet(S), NEW x, x \notin S
  PROVE  Cardinality(S \cup {x}) = Cardinality(S) + 1
BY FS_AddElement

LEMMA FdSet ==
  ASSUME VfsAssumption, NEW ms, Mounts(ms), NEW fds \in Files, NEW lk \in Lost, NEW f \in Fd, NEW x \in Held
  PROVE  LET gds == [fds EXCEPT ![f] = x]
         IN  gds \in Files /\ Plus(Rest(ms, gds, lk), fds[f]) = Plus(Rest(ms, fds, lk), x)
<1> DEFINE gds == [fds EXCEPT ![f] = x]
           A == Rest(ms, fds, lk)
           B == Rest(ms, gds, lk)
<1>1. gds \in Files /\ gds[f] = x /\ \A g \in Fd \ {f} : gds[g] = fds[g]
  BY DEF Files
<1> HIDE DEF gds
<1>2. /\ A \in Counts /\ B \in Counts
      /\ \A i \in Inode : /\ IsFiniteSet(OpenAs(fds, i)) /\ Cardinality(OpenAs(fds, i)) \in Nat
                          /\ Cardinality(OpenAs(gds, i)) \in Nat
                          /\ Cardinality(At(ms, i)) \in Nat /\ lk[i] \in Nat
                          /\ A[i] = Cardinality(At(ms, i)) + Cardinality(OpenAs(fds, i)) + lk[i]
                          /\ B[i] = Cardinality(At(ms, i)) + Cardinality(OpenAs(gds, i)) + lk[i]
  BY <1>1, RestIs
<1> HIDE DEF A, B
<1>3. ASSUME NEW i \in Inode
      PROVE  Cardinality(OpenAs(gds, i)) + (IF i = fds[f] THEN 1 ELSE 0)
               = Cardinality(OpenAs(fds, i)) + (IF i = x THEN 1 ELSE 0)
  <2> DEFINE C == OpenAs(fds, i) \ {f}
  <2>1. IsFiniteSet(C) /\ f \notin C
    <3>1. C \in SUBSET OpenAs(fds, i)
      OBVIOUS
    <3> QED BY <1>2, <3>1, FS_Subset
  <2>2. OpenAs(fds, i) = IF i = fds[f] THEN C \cup {f} ELSE C
    BY DEF OpenAs
  <2>3. OpenAs(gds, i) = IF i = x THEN C \cup {f} ELSE C
    BY <1>1 DEF OpenAs
  <2> HIDE DEF C
  <2>4. Cardinality(C \cup {f}) = Cardinality(C) + 1 /\ Cardinality(C) \in Nat
    BY <2>1, OneMore, FS_CardinalityType
  <2> QED BY <2>2, <2>3, <2>4
<1>4. ASSUME NEW i \in Inode PROVE Plus(B, fds[f])[i] = Plus(A, x)[i]
  <2>1. Plus(B, fds[f])[i] = B[i] + (IF i = fds[f] THEN 1 ELSE 0) /\ Plus(A, x)[i] = A[i] + (IF i = x THEN 1 ELSE 0)
    BY <1>2, PlusIs
  <2> QED BY <1>2, <1>3, <2>1
<1>5. Plus(B, fds[f]) \in Counts /\ Plus(A, x) \in Counts
  BY <1>2, PlusIs
<1>6. Plus(B, fds[f]) = Plus(A, x)
  BY <1>4, <1>5 DEF Counts
<1> QED BY <1>1, <1>6 DEF A, B, gds

LEMMA LeakSet ==
  ASSUME VfsAssumption, NEW ms, Mounts(ms), NEW fds \in Files, NEW lk \in Lost, NEW b \in Inode
  PROVE  LET ll == [lk EXCEPT ![b] = lk[b] + 1]
         IN  ll \in Lost /\ Rest(ms, fds, ll) = Plus(Rest(ms, fds, lk), b)
<1> DEFINE ll == [lk EXCEPT ![b] = lk[b] + 1]
           A == Rest(ms, fds, lk)
           B == Rest(ms, fds, ll)
<1>1. ll \in Lost /\ \A i \in Inode : ll[i] = lk[i] + (IF i = b THEN 1 ELSE 0)
  BY DEF Lost
<1> HIDE DEF ll
<1>2. /\ A \in Counts /\ B \in Counts
      /\ \A i \in Inode : /\ Cardinality(OpenAs(fds, i)) \in Nat
                          /\ Cardinality(At(ms, i)) \in Nat /\ lk[i] \in Nat
                          /\ A[i] = Cardinality(At(ms, i)) + Cardinality(OpenAs(fds, i)) + lk[i]
                          /\ B[i] = Cardinality(At(ms, i)) + Cardinality(OpenAs(fds, i)) + ll[i]
  BY <1>1, RestIs
<1> HIDE DEF A, B
<1>3. ASSUME NEW i \in Inode PROVE B[i] = Plus(A, b)[i]
  BY <1>1, <1>2, PlusIs
<1>4. Plus(A, b) \in Counts
  BY <1>2, PlusIs
<1>5. B = Plus(A, b)
  BY <1>2, <1>3, <1>4 DEF Counts
<1> QED BY <1>1, <1>5 DEF A, B, ll

(* One list of mounts has an entry more than another.                          *)
LEMMA MountSet ==
  ASSUME VfsAssumption, NEW ms, Mounts(ms), NEW ns, Mounts(ns), NEW m \in MountRec, m \notin Members(ms),
         Members(ns) = Members(ms) \cup {m}, NEW fds \in Files, NEW lk \in Lost
  PROVE  Rest(ns, fds, lk) = Plus(Rest(ms, fds, lk), m.root)
<1> DEFINE A == Rest(ms, fds, lk)
           B == Rest(ns, fds, lk)
<1>1. /\ A \in Counts /\ B \in Counts
      /\ \A i \in Inode : /\ IsFiniteSet(At(ms, i)) /\ Cardinality(At(ms, i)) \in Nat
                          /\ Cardinality(At(ns, i)) \in Nat /\ lk[i] \in Nat
                          /\ Cardinality(OpenAs(fds, i)) \in Nat
                          /\ A[i] = Cardinality(At(ms, i)) + Cardinality(OpenAs(fds, i)) + lk[i]
                          /\ B[i] = Cardinality(At(ns, i)) + Cardinality(OpenAs(fds, i)) + lk[i]
  BY RestIs
<1> HIDE DEF A, B
<1>2. ASSUME NEW i \in Inode
      PROVE  Cardinality(At(ns, i)) = Cardinality(At(ms, i)) + (IF i = m.root THEN 1 ELSE 0)
  <2>1. At(ns, i) = IF i = m.root THEN At(ms, i) \cup {m} ELSE At(ms, i)
    BY DEF At
  <2>2. m \notin At(ms, i)
    BY DEF At
  <2>3. Cardinality(At(ms, i) \cup {m}) = Cardinality(At(ms, i)) + 1
    BY <1>1, <2>2, OneMore
  <2> QED BY <1>1, <2>1, <2>3
<1>3. ASSUME NEW i \in Inode PROVE B[i] = Plus(A, m.root)[i]
  BY <1>1, <1>2, PlusIs
<1>4. Plus(A, m.root) \in Counts
  BY <1>1, PlusIs
<1>5. B = Plus(A, m.root)
  BY <1>1, <1>3, <1>4 DEF Counts
<1> QED BY <1>5 DEF A, B

LEMMA Mounting ==
  ASSUME VfsAssumption, NEW ms, Mounts(ms), NEW v \in Volume, v \notin {m.vol : m \in Members(ms)},
         NEW r \in Inode, NEW fds \in Files, NEW lk \in Lost
  PROVE  LET ns == <<[vol |-> v, root |-> r]>> \o ms
         IN  /\ Mounts(ns) /\ Rest(ns, fds, lk) = Plus(Rest(ms, fds, lk), r)
             /\ {m.vol : m \in Members(ns)} = {m.vol : m \in Members(ms)} \cup {v}
<1> DEFINE m == [vol |-> v, root |-> r]
           ns == <<m>> \o ms
<1>1. m \in MountRec /\ m.vol = v /\ m.root = r
  BY DEF MountRec
<1>2. m \notin Members(ms)
  BY <1>1
<1> HIDE DEF m
<1>3. ms \in Seq(MountRec) /\ ns \in Seq(MountRec) /\ Len(ns) = 1 + Len(ms)
      /\ DOMAIN ns = 1..(1 + Len(ms)) /\ DOMAIN ms = 1..Len(ms) /\ Len(ms) \in Nat
      /\ \A k \in 1..(1 + Len(ms)) : ns[k] = IF k = 1 THEN m ELSE ms[k - 1]
  BY <1>1 DEF Mounts
<1> HIDE DEF ns
<1>4. Members(ns) = Members(ms) \cup {m}
  <2>1. ASSUME NEW x \in Members(ns) PROVE x \in Members(ms) \cup {m}
    <3>1. PICK k \in 1..(1 + Len(ms)) : x = ns[k]
      BY <1>3, <2>1 DEF Members
    <3>2. k = 1 \/ k - 1 \in 1..Len(ms)
      BY <1>3, <3>1
    <3> QED BY <1>3, <3>1, <3>2 DEF Members
  <2>2. ASSUME NEW x \in Members(ms) PROVE x \in Members(ns)
    <3>1. PICK k \in 1..Len(ms) : x = ms[k]
      BY <1>3, <2>2 DEF Members
    <3>2. k + 1 \in 1..(1 + Len(ms)) /\ k + 1 # 1 /\ (k + 1) - 1 = k
      BY <1>3, <3>1
    <3>3. ns[k + 1] = x
      BY <1>3, <3>1, <3>2
    <3> QED BY <1>3, <3>2, <3>3 DEF Members
  <2>3. m \in Members(ns)
    <3>1. 1 \in 1..(1 + Len(ms)) /\ ns[1] = m
      BY <1>3
    <3> QED BY <1>3, <3>1 DEF Members
  <2> QED BY <2>1, <2>2, <2>3
<1>5. Mounts(ns)
  BY <1>1, <1>3, <1>4 DEF Mounts
<1>6. Rest(ns, fds, lk) = Plus(Rest(ms, fds, lk), r)
  BY <1>1, <1>2, <1>4, <1>5, MountSet
<1>7. {x.vol : x \in Members(ns)} = {x.vol : x \in Members(ms)} \cup {v}
  BY <1>1, <1>4
<1> QED BY <1>5, <1>6, <1>7 DEF m, ns

LEMMA RootIs ==
  ASSUME NEW ms, Mounts(ms), NEW v \in {m.vol : m \in Members(ms)}
  PROVE  LET m == CHOOSE x \in Members(ms) : x.vol = v
         IN  /\ m \in Members(ms) /\ m \in MountRec /\ m.vol = v /\ m.root \in Inode
             /\ \A x \in Members(ms) : x.vol = v => x = m
<1> DEFINE m == CHOOSE x \in Members(ms) : x.vol = v
<1>1. \E x \in Members(ms) : x.vol = v
  OBVIOUS
<1>2. m \in Members(ms) /\ m.vol = v
  BY <1>1
<1> HIDE DEF m
<1>3. \A x \in Members(ms) : x \in MountRec
  BY DEF Members, Mounts
<1> QED BY <1>2, <1>3 DEF Mounts, MountRec, m

Without(ms, v) == Kept(ms, {m \in Members(ms) : m.vol # v})
RootIn(ms, v) == (CHOOSE m \in Members(ms) : m.vol = v).root

LEMMA Unmounting ==
  ASSUME VfsAssumption, NEW ms, Mounts(ms), NEW v \in {m.vol : m \in Members(ms)},
         NEW fds \in Files, NEW lk \in Lost
  PROVE  LET ns == Without(ms, v)
             r == RootIn(ms, v)
         IN  /\ Mounts(ns) /\ r \in Inode /\ Rest(ms, fds, lk) = Plus(Rest(ns, fds, lk), r)
             /\ {m.vol : m \in Members(ns)} = {m.vol : m \in Members(ms)} \ {v}
<1> DEFINE ns == Without(ms, v)
           m == CHOOSE x \in Members(ms) : x.vol = v
<1>1. /\ m \in Members(ms) /\ m \in MountRec /\ m.vol = v /\ m.root \in Inode
      /\ \A x \in Members(ms) : x.vol = v => x = m
  BY RootIs
<1>a. RootIn(ms, v) = m.root
  BY DEF RootIn
<1> HIDE DEF m
<1>2. ms \in Seq(MountRec)
  BY DEF Mounts
<1>3. ns \in Seq(MountRec) /\ Members(ns) = Members(ms) \cap {x \in Members(ms) : x.vol # v}
  BY <1>2, KeptMembers DEF Without
<1> HIDE DEF ns
<1>4. m \notin Members(ns) /\ Members(ms) = Members(ns) \cup {m}
  BY <1>1, <1>3
<1>5. Mounts(ns)
  BY <1>3 DEF Mounts
<1>6. Rest(ms, fds, lk) = Plus(Rest(ns, fds, lk), m.root)
  BY <1>1, <1>4, <1>5, MountSet
<1>7. {x.vol : x \in Members(ns)} = {x.vol : x \in Members(ms)} \ {v}
  BY <1>3
<1> QED BY <1>1, <1>a, <1>5, <1>6, <1>7 DEF ns

(* What a path is built of is a mounted volume's name, or none.                *)
LEMMA PathIs ==
  ASSUME NEW ms, Mounts(ms), NEW I, NEW a
  PROVE  VfsBuildPath(ms, I, a) \in {m.vol : m \in Members(ms)} \cup {None, "endless"}
<1> DEFINE V == {m.vol : m \in Members(ms)}
<1>1. VfsMountForInode(ms, I, a) \in V \cup {None}
  <2> DEFINE by == {m \in Members(ms) : m.root = a}
             on == {k \in DOMAIN ms : DeviceOf[ms[k].vol] = DeviceOf[I[a].vol]}
  <2>1. CASE a \in {NsRoot, None}
    BY <2>1 DEF VfsMountForInode
  <2>2. CASE a \notin {NsRoot, None} /\ by # {}
    <3>1. VfsMountForInode(ms, I, a) = (CHOOSE m \in by : TRUE).vol
      BY <2>2 DEF VfsMountForInode
    <3>2. (CHOOSE m \in by : TRUE) \in by
      BY <2>2
    <3> QED BY <3>1, <3>2
  <2>3. CASE a \notin {NsRoot, None} /\ by = {} /\ on # {}
    <3>1. VfsMountForInode(ms, I, a) = ms[CHOOSE k \in on : \A l \in on : k <= l].vol
      BY <2>3 DEF VfsMountForInode
    <3>2. on \in SUBSET Nat
      BY DEF Mounts
    <3> HIDE DEF on
    <3>3. \E k \in on : \A l \in on : k <= l
      BY <2>3, <3>2, Least
    <3>4. (CHOOSE k \in on : \A l \in on : k <= l) \in on
      BY <3>3
    <3>5. (CHOOSE k \in on : \A l \in on : k <= l) \in DOMAIN ms
      BY <3>4 DEF on
    <3> QED BY <3>1, <3>5 DEF Members
  <2>4. CASE a \notin {NsRoot, None} /\ by = {} /\ on = {}
    BY <2>4 DEF VfsMountForInode
  <2> QED BY <2>1, <2>2, <2>3, <2>4
<1> HIDE DEF V
<1> DEFINE m == VfsMountForInode(ms, I, a)
           b == VfsBuildPath(ms, I, a)
<1>2. b \in {m, None, "endless"}
  <2> HIDE DEF m
  <2>1. VfsMountForInode(ms, I, a) = m
    BY DEF m
  <2> QED BY <2>1 DEF VfsBuildPath
<1> QED BY <1>1, <1>2 DEF V

------------------------------------------------------------------------------
(* The inductive invariant: every count is what its holders come to, the       *)
(* volumes mounted are different ones, and only a mounted image is held open.  *)
ProgRec == [alive : BOOLEAN, cwd : Held, fds : Files]
Now == OuterOf(Rest(mounts, prog.fds, leaked), cwd, prog.cwd, image)

VfsInv ==
  /\ Table(inode) /\ Due(inode, Now)
  /\ Mounts(mounts) /\ cwd \in Inode \cup {NsRoot} /\ drive \in Volume \cup {None} /\ stuck \in BOOLEAN
  /\ prog \in ProgRec /\ (prog.alive => prog.cwd # None) /\ (~prog.alive => prog = NoProgram)
  /\ image \in Inode \cup {None} /\ (image # None => IsoVolume \in Mounted)
  /\ leaked \in Lost

LEMMA OuterHas ==
  ASSUME VfsAssumption, NEW R \in Counts, NEW c, NEW pc, NEW im, NEW n \in {NsRoot, None}
  PROVE  /\ OuterOf(R, c, pc, im) = Plus(OuterOf(R, n, pc, im), c)
         /\ OuterOf(R, c, pc, im) = Plus(OuterOf(R, c, n, im), pc)
         /\ OuterOf(R, c, pc, im) = Plus(OuterOf(R, c, pc, n), im)
<1>1. OuterOf(R, c, pc, im) \in Counts
  BY OuterMoves
<1>2. Plus(OuterOf(R, c, pc, im), n) = OuterOf(R, c, pc, im)
  BY <1>1, PlusNothing
<1>3. /\ Plus(OuterOf(R, n, pc, im), c) = Plus(OuterOf(R, c, pc, im), n)
      /\ Plus(OuterOf(R, c, n, im), pc) = Plus(OuterOf(R, c, pc, im), n)
      /\ Plus(OuterOf(R, c, pc, n), im) = Plus(OuterOf(R, c, pc, im), n)
  BY OuterMoves
<1> QED BY <1>2, <1>3

LEMMA InvIs ==
  ASSUME VfsAssumption, VfsInv
  PROVE  /\ Table(inode) /\ Due(inode, Now) /\ Now \in Counts /\ Rest(mounts, prog.fds, leaked) \in Counts
         /\ Mounts(mounts) /\ prog.fds \in Files /\ leaked \in Lost /\ prog.cwd \in Held /\ cwd \in Held
         /\ image \in Held /\ prog.alive \in BOOLEAN
         /\ prog = [alive |-> prog.alive, cwd |-> prog.cwd, fds |-> prog.fds]
         /\ Now = OuterOf(Rest(mounts, prog.fds, leaked), cwd, prog.cwd, image)
<1>1. /\ prog.fds \in Files /\ prog.cwd \in Held /\ cwd \in Held /\ image \in Held /\ prog.alive \in BOOLEAN
      /\ prog = [alive |-> prog.alive, cwd |-> prog.cwd, fds |-> prog.fds]
  BY DEF VfsInv, ProgRec, Held
<1>2. Rest(mounts, prog.fds, leaked) \in Counts
  BY <1>1, RestIs DEF VfsInv
<1>3. Now \in Counts
  BY <1>2, OuterMoves DEF Now
<1> QED BY <1>1, <1>2, <1>3 DEF VfsInv, Now

LEMMA FileHeld ==
  ASSUME VfsAssumption, NEW ms, Mounts(ms), NEW fds \in Files, NEW lk \in Lost, NEW f \in Fd,
         NEW c, NEW pc, NEW im
  PROVE  LET gds == [fds EXCEPT ![f] = None]
         IN  /\ gds \in Files /\ OuterOf(Rest(ms, gds, lk), c, pc, im) \in Counts
             /\ OuterOf(Rest(ms, fds, lk), c, pc, im) = Plus(OuterOf(Rest(ms, gds, lk), c, pc, im), fds[f])
<1> DEFINE gds == [fds EXCEPT ![f] = None]
           R == Rest(ms, fds, lk)
           Q == Rest(ms, gds, lk)
<1>1. None \in Held
  BY DEF Held
<1>2. gds \in Files /\ Plus(Q, fds[f]) = Plus(R, None)
  BY <1>1, FdSet
<1> HIDE DEF gds
<1>3. R \in Counts /\ Q \in Counts
  BY <1>2, RestIs
<1> HIDE DEF R, Q
<1>4. R = Plus(Q, fds[f])
  BY <1>2, <1>3, PlusNothing
<1>5. OuterOf(Q, c, pc, im) \in Counts /\ OuterOf(Plus(Q, fds[f]), c, pc, im) = Plus(OuterOf(Q, c, pc, im), fds[f])
  BY <1>3, OuterMoves
<1> QED BY <1>2, <1>4, <1>5 DEF gds, R, Q

(* Whatever is held is allocated.                                              *)
LEMMA HeldLives ==
  ASSUME VfsAssumption, VfsInv
  PROVE  /\ \A x \in {cwd, prog.cwd, image} : x \in Inode => inode[x].ref > 0
         /\ \A f \in Fd : prog.fds[f] \in Inode => inode[prog.fds[f]].ref > 0
         /\ \A v \in Mounted : RootOf(v) \in Inode /\ inode[RootOf(v)].ref > 0
         /\ \A i \in Inode : inode[i].ref = 0 => leaked[i] = 0
<1> DEFINE R == Rest(mounts, prog.fds, leaked)
<1>1. R \in Counts /\ Due(inode, OuterOf(R, cwd, prog.cwd, image)) /\ Now = OuterOf(R, cwd, prog.cwd, image)
      /\ Now \in Counts /\ Due(inode, Now)
  BY InvIs
<1>2. Mounts(mounts) /\ prog.fds \in Files /\ leaked \in Lost
  BY InvIs
<1>3. ASSUME NEW E \in Counts, NEW x, Now = Plus(E, x), x \in Inode PROVE inode[x].ref > 0
  BY <1>1, <1>3, OwedLives
<1> HIDE DEF R
<1>4. ASSUME NEW x \in {cwd, prog.cwd, image}, x \in Inode PROVE inode[x].ref > 0
  <2>1. /\ Now = Plus(OuterOf(R, None, prog.cwd, image), cwd)
        /\ Now = Plus(OuterOf(R, cwd, None, image), prog.cwd)
        /\ Now = Plus(OuterOf(R, cwd, prog.cwd, None), image)
    BY <1>1, OuterHas
  <2>2. /\ OuterOf(R, None, prog.cwd, image) \in Counts /\ OuterOf(R, cwd, None, image) \in Counts
        /\ OuterOf(R, cwd, prog.cwd, None) \in Counts
    BY <1>1, OuterMoves
  <2> QED BY <1>3, <1>4, <2>1, <2>2
<1>5. ASSUME NEW f \in Fd, prog.fds[f] \in Inode PROVE inode[prog.fds[f]].ref > 0
  <2> DEFINE E == OuterOf(Rest(mounts, [prog.fds EXCEPT ![f] = None], leaked), cwd, prog.cwd, image)
  <2>1. E \in Counts /\ Now = Plus(E, prog.fds[f])
    BY <1>1, <1>2, FileHeld DEF R
  <2> HIDE DEF E
  <2> QED BY <1>3, <1>5, <2>1
<1>6. ASSUME NEW v \in Mounted PROVE RootOf(v) \in Inode /\ inode[RootOf(v)].ref > 0
  <2> DEFINE ns == Without(mounts, v)
             Q == Rest(ns, prog.fds, leaked)
  <2>0. v \in {m.vol : m \in Members(mounts)}
    BY DEF Mounted
  <2>a. Mounts(mounts) /\ prog.fds \in Files /\ leaked \in Lost
    BY <1>2
  <2>b. /\ Mounts(ns) /\ RootIn(mounts, v) \in Inode
        /\ Rest(mounts, prog.fds, leaked) = Plus(Q, RootIn(mounts, v))
    BY <2>a, <2>0, Unmounting
  <2>1. Mounts(ns) /\ RootOf(v) \in Inode /\ R = Plus(Q, RootOf(v))
    BY <2>b DEF RootOf, RootIn, R
  <2> HIDE DEF ns
  <2>2. Q \in Counts
    BY <1>2, <2>1, RestIs
  <2> HIDE DEF Q
  <2>3. OuterOf(Q, cwd, prog.cwd, image) \in Counts /\ Now = Plus(OuterOf(Q, cwd, prog.cwd, image), RootOf(v))
    BY <1>1, <2>1, <2>2, OuterMoves
  <2> QED BY <1>3, <2>1, <2>3
<1>7. ASSUME NEW i \in Inode, inode[i].ref = 0 PROVE leaked[i] = 0
  <2>1. Now[i] \in Nat /\ Pins(inode, i) \in Nat /\ 0 = Now[i] + Pins(inode, i)
    BY <1>1, <1>7, PinsFinite DEF Counts, Due
  <2>2. Plus(R, cwd) \in Counts /\ R[i] <= Plus(R, cwd)[i]
    BY <1>1, Grows
  <2>3. Plus(Plus(R, cwd), prog.cwd) \in Counts /\ Plus(R, cwd)[i] <= Plus(Plus(R, cwd), prog.cwd)[i]
    BY <2>2, Grows
  <2>4. Plus(Plus(R, cwd), prog.cwd)[i] <= Now[i]
    BY <1>1, <2>3, Grows DEF OuterOf
  <2>5. R[i] <= 0 /\ R[i] \in Nat
    <3>1. Plus(R, cwd)[i] \in Nat /\ Plus(Plus(R, cwd), prog.cwd)[i] \in Nat /\ R[i] \in Nat
      BY <1>1, <2>2, <2>3 DEF Counts
    <3> QED BY <2>1, <2>2, <2>3, <2>4, <3>1
  <2>6. /\ Cardinality(At(mounts, i)) \in Nat /\ Cardinality(OpenAs(prog.fds, i)) \in Nat /\ leaked[i] \in Nat
        /\ R[i] = Cardinality(At(mounts, i)) + Cardinality(OpenAs(prog.fds, i)) + leaked[i]
    BY <1>2, RestIs DEF R
  <2> QED BY <2>5, <2>6
<1> QED BY <1>4, <1>5, <1>6, <1>7

LEMMA PathUpdated ==
  ASSUME NEW ms, Mounts(ms), drive \in Volume \cup {None}, NEW I, NEW dir, VfsUpdateCurrentPath(ms, I, dir)
  PROVE  drive' \in Volume \cup {None} /\ stuck' \in BOOLEAN
<1> DEFINE p == VfsBuildPath(ms, I, dir)
<1>1. p \in {m.vol : m \in Members(ms)} \cup {None, "endless"}
  BY PathIs
<1>2. \A m \in Members(ms) : m.vol \in Volume
  <2>1. \A m \in Members(ms) : m \in MountRec
    BY DEF Members, Mounts
  <2> QED BY <2>1 DEF MountRec
<1>3. stuck' = (p = "endless") /\ drive' = IF p = "endless" THEN drive ELSE p
  BY DEF VfsUpdateCurrentPath
<1> HIDE DEF p
<1> QED BY <1>1, <1>2, <1>3

(* A walk along a path that a program or the shell gives.                      *)
LEMMA VfsWalkOK ==
  ASSUME VfsAssumption, VfsInv, Cardinality(Spare(inode)) > 2, NEW base \in Inode \cup {NsRoot},
         base \in Inode => inode[base].ref > 0,
         NEW p \in [drive : Volume \cup {None}, names : Names]
  PROVE  WalkAt(inode, Now, VfsWalk(base, p))
<1>1. Table(inode) /\ Due(inode, Now) /\ Now \in Counts
  BY InvIs
<1>2. CASE p.drive = None
  BY <1>1, <1>2, WalkIs DEF VfsWalk
<1>3. CASE p.drive # None /\ p.drive \in Mounted
  <2>1. RootOf(p.drive) \in Inode /\ inode[RootOf(p.drive)].ref > 0
    BY <1>3, HeldLives
  <2>2. VfsWalk(base, p) = VfsWalkWithin(RootOf(p.drive), RootOf(p.drive), p.names)
    BY <1>3 DEF VfsWalk
  <2>3. RootOf(p.drive) \in Inode \cup {NsRoot} /\ p.names \in Names
    BY <2>1
  <2> QED BY <1>1, <2>1, <2>2, <2>3, WalkIs
<1>4. CASE p.drive # None /\ p.drive \notin Mounted
  <2>1. VfsWalk(base, p) = [ok |-> FALSE, inode |-> inode, at |-> None]
    BY <1>4 DEF VfsWalk
  <2>2. Plus(Now, None) = Now /\ None \in Held
    BY <1>1, PlusNothing DEF Held
  <2>3. Stays(inode, inode)
    BY DEF Stays, Same
  <2> QED BY <1>1, <2>1, <2>2, <2>3 DEF WalkAt
<1> QED BY <1>2, <1>3, <1>4

------------------------------------------------------------------------------
(* One lemma for each action.                                                  *)
LEMMA VfsStarts ==
  ASSUME VfsAssumption, VfsInit
  PROVE  VfsInv
<1>1. \A i \in Inode : inode[i] = FreeInode
  BY DEF VfsInit
<1>2. Table(inode)
  <2>1. inode \in [Inode -> InodeRec]
    BY FreeIs DEF VfsInit
  <2> QED BY <1>1, <2>1, FreeIs DEF Table
<1>3. prog = NoProgram /\ prog \in ProgRec /\ prog.alive = FALSE /\ prog.cwd = None /\ prog.fds = NoFiles
      /\ NoFiles \in Files
  BY DEF VfsInit, NoProgram, NoFiles, ProgRec, Files, Held
<1>4. leaked \in Lost /\ \A i \in Inode : leaked[i] = 0
  BY DEF VfsInit, Lost
<1>5. Mounts(mounts) /\ Members(mounts) = {}
  BY DEF VfsInit, Mounts, Members
<1>6. ASSUME NEW i \in Inode PROVE Rest(mounts, prog.fds, leaked)[i] = 0
  <2>1. At(mounts, i) = {}
    BY <1>5 DEF At
  <2>2. OpenAs(prog.fds, i) = {}
    BY <1>3 DEF OpenAs, NoFiles, VfsAssumption
  <2>3. Cardinality({}) = 0
    BY FS_EmptySet
  <2> QED BY <1>4, <2>1, <2>2, <2>3 DEF Rest
<1>7. cwd = NsRoot /\ image = None /\ drive = None /\ stuck = FALSE
  BY DEF VfsInit
<1>8. Now = Rest(mounts, prog.fds, leaked)
  <2>1. Rest(mounts, prog.fds, leaked) \in Counts
    BY <1>3, <1>4, <1>5, RestIs
  <2> QED BY <1>3, <1>7, <2>1, PlusNothing DEF Now, OuterOf
<1>9. Due(inode, Now)
  <2>1. ASSUME NEW i \in Inode PROVE Pins(inode, i) = 0
    BY <1>1, FreeIs, PinnedIs
  <2> QED BY <1>1, <1>6, <1>8, <2>1, FreeIs DEF Due
<1> QED BY <1>2, <1>3, <1>4, <1>5, <1>7, <1>9 DEF VfsInv

LEMMA NewRoot ==
  ASSUME VfsAssumption, NEW K, Table(K), NEW E \in Counts, Due(K, E), Spare(K) # {}, NEW v \in Volume
  PROVE  LET r == VfsAllocInode(K)
             J == [K EXCEPT ![r] = [vol |-> v, node |-> "root", ref |-> 1, pin |-> None]]
         IN  /\ r \in Inode /\ K[r].ref = 0
             /\ Table(J) /\ Due(J, Plus(E, r)) /\ Stays(K, J)
             /\ J[r] = [vol |-> v, node |-> "root", ref |-> 1, pin |-> None]
<1> DEFINE r == VfsAllocInode(K)
           J == [K EXCEPT ![r] = [vol |-> v, node |-> "root", ref |-> 1, pin |-> None]]
<1>1. r \in Inode /\ K[r].ref = 0
  BY DEF VfsAllocInode, Spare
<1>2. J = Made(K, r, v, "root", None)
  BY DEF Made, VfsInodeRef
<1> HIDE DEF r, J
<1>3. "root" \in Node /\ None \notin Inode /\ None \in Inode \cup {None} /\ v \in Volume \cup {None}
  BY DEF Node, VfsAssumption
<1>4. /\ Table(J) /\ Due(J, Plus(E, r)) /\ Stays(K, J)
      /\ J[r] = [vol |-> v, node |-> "root", ref |-> 1, pin |-> None]
  BY <1>1, <1>2, <1>3, Allocated
<1> QED BY <1>1, <1>4 DEF r, J

LEMMA MountKeeps ==
  ASSUME VfsAssumption, VfsInv, NEW v \in Volume, NEW changeCwd \in BOOLEAN, Mount(v, changeCwd),
         UNCHANGED <<prog, image, tree, leaked>>
  PROVE  VfsInv' /\ Mounted \subseteq Mounted'
<1> DEFINE r == VfsAllocInode(inode)
           I == [inode EXCEPT ![r] = [vol |-> v, node |-> "root", ref |-> 1, pin |-> None]]
           ns == <<[vol |-> v, root |-> r]>> \o mounts
           R == Rest(mounts, prog.fds, leaked)
           N == Rest(ns, prog.fds, leaked)
<1>1. /\ Table(inode) /\ Due(inode, Now) /\ Now \in Counts /\ R \in Counts /\ Mounts(mounts)
      /\ prog.fds \in Files /\ leaked \in Lost /\ prog.cwd \in Held /\ cwd \in Held
      /\ Now = OuterOf(R, cwd, prog.cwd, image)
  BY InvIs
<1>2. v \notin {m.vol : m \in Members(mounts)} /\ Spare(inode) # {} /\ mounts' = ns
  BY DEF Mount, Mounted
<1>3. /\ changeCwd => /\ cwd' = r /\ inode' = VfsInodeUnref(VfsInodeRef(I, r), cwd)
                      /\ VfsUpdateCurrentPath(ns, inode', r)
      /\ ~changeCwd => inode' = I /\ UNCHANGED <<cwd, drive, stuck>>
  BY DEF Mount
<1>4. /\ r \in Inode /\ Table(I) /\ Due(I, Plus(Now, r))
      /\ I[r] = [vol |-> v, node |-> "root", ref |-> 1, pin |-> None]
  BY <1>1, <1>2, NewRoot
<1> HIDE DEF r, I
<1>5. /\ Mounts(ns) /\ N = Plus(R, r)
      /\ {m.vol : m \in Members(ns)} = {m.vol : m \in Members(mounts)} \cup {v}
  BY <1>1, <1>2, <1>4, Mounting
<1>6. Mounted \subseteq Mounted'
  BY <1>2, <1>5 DEF Mounted
<1> HIDE DEF ns, R
<1>7. N \in Counts
  BY <1>1, <1>5, RestIs
<1>8. OuterOf(N, cwd, prog.cwd, image) = Plus(Now, r)
  BY <1>1, <1>5, OuterMoves
<1>9. Now' = OuterOf(N, cwd', prog.cwd, image)
  BY <1>2 DEF Now
<1> HIDE DEF N
<1>10. CASE ~changeCwd
  <2>1. Table(inode') /\ Due(inode', Now')
    BY <1>3, <1>4, <1>8, <1>9, <1>10
  <2> QED BY <1>2, <1>3, <1>5, <1>6, <1>10, <2>1 DEF VfsInv
<1>11. CASE changeCwd
  <2> DEFINE J == VfsInodeRef(I, r)
  <2>1. r \in Held /\ I[r].ref > 0
    BY <1>4 DEF Held
  <2>2. Plus(Now, r) \in Counts
    BY <1>1, PlusIs
  <2>3. Table(J) /\ Due(J, Plus(OuterOf(N, cwd, prog.cwd, image), r))
    BY <1>4, <1>8, <2>1, <2>2, RefOK
  <2> HIDE DEF J
  <2>4. OuterOf(N, r, prog.cwd, image) \in Counts
        /\ Plus(OuterOf(N, r, prog.cwd, image), cwd) = Plus(OuterOf(N, cwd, prog.cwd, image), r)
    BY <1>7, OuterMoves
  <2>5. Table(VfsInodeUnref(J, cwd)) /\ Due(VfsInodeUnref(J, cwd), OuterOf(N, r, prog.cwd, image))
    BY <1>1, <2>3, <2>4, UnrefOK
  <2>6. Table(inode') /\ Due(inode', Now')
    BY <1>3, <1>9, <1>11, <2>5 DEF J
  <2>7. drive' \in Volume \cup {None} /\ stuck' \in BOOLEAN
    BY <1>3, <1>5, <1>11, PathUpdated DEF VfsInv
  <2> QED BY <1>2, <1>3, <1>4, <1>5, <1>6, <1>11, <2>6, <2>7 DEF VfsInv
<1> QED BY <1>10, <1>11

(* VfsUnmountDrive, from a table in which the program is at pc.                *)
LEMMA UnmountKeeps ==
  ASSUME VfsAssumption, VfsInv, NEW v \in Volume, v \in Mounted, NEW pc \in Held, NEW I, Table(I),
         Due(I, OuterOf(Rest(mounts, prog.fds, leaked), cwd, pc, image)), Shrunk(inode, I),
         VfsUnmountDrive(v, I)
  PROVE  /\ Table(inode') /\ Due(inode', OuterOf(Rest(mounts', prog.fds, leaked), cwd', pc, image'))
         /\ Mounts(mounts') /\ cwd' \in Inode \cup {NsRoot} /\ drive' \in Volume \cup {None}
         /\ stuck' \in BOOLEAN /\ image' \in Inode \cup {None} /\ (image' # None => IsoVolume \in Mounted')
         /\ Mounted' = Mounted \ {v} /\ (cwd' = NsRoot \/ inode'[cwd'].vol # v)
<1> DEFINE ns == Without(mounts, v)
           r == RootIn(mounts, v)
           dir == IF Inside(v) THEN NsRoot ELSE cwd
           left == IF Inside(v) THEN VfsInodeUnref(I, cwd) ELSE I
           gone == VfsInodeUnref(left, r)
           last == IF v = IsoVolume THEN VfsInodeUnref(gone, image) ELSE gone
           im == IF v = IsoVolume THEN None ELSE image
           R == Rest(mounts, prog.fds, leaked)
           Q == Rest(ns, prog.fds, leaked)
<1>1. /\ R \in Counts /\ Mounts(mounts) /\ prog.fds \in Files /\ leaked \in Lost /\ cwd \in Held
      /\ image \in Held
  BY InvIs
<1>2. /\ mounts' = ns /\ cwd' = dir /\ inode' = last /\ image' = im
      /\ VfsUpdateCurrentPath(ns, inode', dir)
  BY DEF VfsUnmountDrive, Without, RootIn, RootOf
<1>3. /\ Mounts(ns) /\ r \in Inode /\ R = Plus(Q, r)
      /\ {m.vol : m \in Members(ns)} = {m.vol : m \in Members(mounts)} \ {v}
  BY <1>1, Unmounting DEF Mounted
<1>4. Mounted' = Mounted \ {v}
  BY <1>2, <1>3 DEF Mounted
<1>5. Due(I, OuterOf(R, cwd, pc, image))
  OBVIOUS
<1> HIDE DEF ns, r, R
<1>6. Q \in Counts
  BY <1>1, <1>3, RestIs
<1>7. Rest(mounts', prog.fds, leaked) = Q
  BY <1>2
<1> HIDE DEF Q
<1>8. Table(left) /\ Due(left, OuterOf(R, dir, pc, image)) /\ Shrunk(I, left)
  <2>1. CASE Inside(v)
    <3>1. OuterOf(R, cwd, pc, image) = Plus(OuterOf(R, NsRoot, pc, image), cwd)
          /\ OuterOf(R, NsRoot, pc, image) \in Counts
      BY <1>1, OuterHas, OuterMoves
    <3>2. /\ Table(VfsInodeUnref(I, cwd)) /\ Due(VfsInodeUnref(I, cwd), OuterOf(R, NsRoot, pc, image))
          /\ Shrunk(I, VfsInodeUnref(I, cwd))
      BY <1>1, <1>5, <3>1, UnrefOK
    <3> QED BY <2>1, <3>2
  <2>2. CASE ~Inside(v)
    <3>1. Shrunk(I, I)
      BY DEF Shrunk, Same
    <3> QED BY <1>5, <2>2, <3>1
  <2> QED BY <2>1, <2>2
<1>9. dir \in Inode \cup {NsRoot} /\ (dir # NsRoot => dir = cwd /\ ~Inside(v))
  BY DEF VfsInv
<1> HIDE DEF left, dir
<1>10. Table(gone) /\ Due(gone, OuterOf(Q, dir, pc, image)) /\ Shrunk(left, gone)
  <2>1. OuterOf(R, dir, pc, image) = Plus(OuterOf(Q, dir, pc, image), r)
        /\ OuterOf(Q, dir, pc, image) \in Counts
    BY <1>3, <1>6, OuterMoves
  <2>2. r \in Held
    BY <1>3 DEF Held
  <2> QED BY <1>8, <2>1, <2>2, UnrefOK
<1> HIDE DEF gone
<1>11. Table(last) /\ Due(last, OuterOf(Q, dir, pc, im)) /\ Shrunk(gone, last)
  <2>1. CASE v = IsoVolume
    <3>1. OuterOf(Q, dir, pc, image) = Plus(OuterOf(Q, dir, pc, None), image)
          /\ OuterOf(Q, dir, pc, None) \in Counts
      BY <1>6, OuterHas, OuterMoves
    <3>2. /\ Table(VfsInodeUnref(gone, image)) /\ Due(VfsInodeUnref(gone, image), OuterOf(Q, dir, pc, None))
          /\ Shrunk(gone, VfsInodeUnref(gone, image))
      BY <1>1, <1>10, <3>1, UnrefOK
    <3> QED BY <2>1, <3>2
  <2>2. CASE v # IsoVolume
    <3>1. Shrunk(gone, gone)
      BY DEF Shrunk, Same
    <3> QED BY <1>10, <2>2, <3>1
  <2> QED BY <2>1, <2>2
<1>12. im \in Inode \cup {None} /\ (im # None => IsoVolume \in Mounted')
  BY <1>4 DEF VfsInv
<1> HIDE DEF last, im
<1>13. Shrunk(inode, last)
  <2>1. Shrunk(inode, left)
    BY <1>8, ShrunkTwice
  <2>2. Shrunk(inode, gone)
    BY <1>10, <2>1, ShrunkTwice
  <2> QED BY <1>11, <2>2, ShrunkTwice
<1>14. ASSUME dir # NsRoot PROVE last[dir].vol # v
  <2>1. dir \in Inode /\ dir = cwd
    BY <1>9, <1>14
  <2>2. inode[dir].vol # v
    BY <1>9, <1>14 DEF Inside
  <2>3. OuterOf(Q, dir, pc, im) = Plus(OuterOf(Q, NsRoot, pc, im), dir)
        /\ OuterOf(Q, NsRoot, pc, im) \in Counts
    BY <1>6, OuterHas, OuterMoves
  <2>4. last[dir].ref > 0
    BY <1>11, <2>1, <2>3, OwedLives
  <2> QED BY <1>13, <2>1, <2>2, <2>4 DEF Shrunk, Same
<1>15. drive' \in Volume \cup {None} /\ stuck' \in BOOLEAN
  BY <1>2, <1>3, PathUpdated DEF VfsInv
<1> QED BY <1>2, <1>3, <1>4, <1>7, <1>9, <1>11, <1>12, <1>14, <1>15

UnmountLeaves == \A v \in Volume : v \in Mounted /\ v \notin Mounted' =>
                    cwd' = NsRoot \/ inode'[cwd'].vol # v

LEMMA CmdUnmountKeeps ==
  ASSUME VfsAssumption, VfsInv, NEW v \in Volume, CmdUnmount(v)
  PROVE  VfsInv' /\ UnmountLeaves
<1>1. v \in Mounted /\ VfsUnmountDrive(v, inode) /\ UNCHANGED <<prog, tree, leaked>>
  BY DEF CmdUnmount
<1>2. /\ Table(inode) /\ Due(inode, Now) /\ prog.cwd \in Held
      /\ Now = OuterOf(Rest(mounts, prog.fds, leaked), cwd, prog.cwd, image)
  BY InvIs
<1>3. Shrunk(inode, inode)
  BY DEF Shrunk, Same
<1>4. /\ Table(inode') /\ Due(inode', OuterOf(Rest(mounts', prog.fds, leaked), cwd', prog.cwd, image'))
      /\ Mounts(mounts') /\ cwd' \in Inode \cup {NsRoot} /\ drive' \in Volume \cup {None}
      /\ stuck' \in BOOLEAN /\ image' \in Inode \cup {None} /\ (image' # None => IsoVolume \in Mounted')
      /\ Mounted' = Mounted \ {v} /\ (cwd' = NsRoot \/ inode'[cwd'].vol # v)
  BY <1>1, <1>2, <1>3, UnmountKeeps
<1>5. Due(inode', Now')
  BY <1>1, <1>4 DEF Now
<1>6. VfsInv'
  BY <1>1, <1>4, <1>5 DEF VfsInv
<1> QED BY <1>4, <1>6 DEF UnmountLeaves

LEMMA SysUmountKeeps ==
  ASSUME VfsAssumption, VfsInv, NEW v \in Volume, SysUmount2(v)
  PROVE  VfsInv' /\ UnmountLeaves
<1> DEFINE p == VfsBuildPath(mounts, inode, prog.cwd)
           pc == IF p = v THEN NsRoot ELSE prog.cwd
           I == IF p = v THEN VfsInodeUnref(inode, prog.cwd) ELSE inode
           R == Rest(mounts, prog.fds, leaked)
<1>1. /\ prog.alive /\ v \in Mounted /\ UNCHANGED <<tree, leaked>>
      /\ p = "endless" => stuck' = TRUE /\ UNCHANGED <<mounts, inode, cwd, drive, prog, image>>
      /\ p # "endless" => /\ prog' = (IF p = v THEN [prog EXCEPT !.cwd = NsRoot] ELSE prog)
                          /\ VfsUnmountDrive(v, I)
  BY DEF SysUmount2
<1> HIDE DEF p
<1>2. /\ Table(inode) /\ Due(inode, Now) /\ prog.cwd \in Held /\ R \in Counts /\ prog.fds \in Files
      /\ Now = OuterOf(R, cwd, prog.cwd, image)
      /\ prog = [alive |-> prog.alive, cwd |-> prog.cwd, fds |-> prog.fds]
  BY InvIs
<1>3. CASE p = "endless"
  <2>1. UNCHANGED <<mounts, inode, cwd, drive, prog, image, leaked>> /\ stuck' = TRUE
    BY <1>1, <1>3
  <2>2. Now' = Now /\ Mounted' = Mounted
    BY <2>1 DEF Now, Mounted
  <2> QED BY <2>1, <2>2 DEF VfsInv, UnmountLeaves
<1>4. CASE p # "endless"
  <2>1. /\ pc \in Held /\ prog'.cwd = pc /\ prog'.fds = prog.fds /\ prog' \in ProgRec
        /\ prog'.alive = prog.alive /\ pc # None
    BY <1>1, <1>2, <1>4 DEF ProgRec, Held, VfsInv, VfsAssumption
  <2>2. Table(I) /\ Due(I, OuterOf(R, cwd, pc, image)) /\ Shrunk(inode, I)
    <3>1. CASE p = v
      <4>1. Now = Plus(OuterOf(R, cwd, NsRoot, image), prog.cwd) /\ OuterOf(R, cwd, NsRoot, image) \in Counts
        BY <1>2, OuterHas, OuterMoves
      <4> HIDE DEF R
      <4>2. /\ Table(VfsInodeUnref(inode, prog.cwd))
            /\ Due(VfsInodeUnref(inode, prog.cwd), OuterOf(R, cwd, NsRoot, image))
            /\ Shrunk(inode, VfsInodeUnref(inode, prog.cwd))
        BY <1>2, <4>1, UnrefOK
      <4> QED BY <3>1, <4>2
    <3>2. CASE p # v
      <4>1. Shrunk(inode, inode)
        BY DEF Shrunk, Same
      <4> QED BY <1>2, <3>2, <4>1
    <3> QED BY <3>1, <3>2
  <2>3. VfsUnmountDrive(v, I)
    BY <1>1, <1>4
  <2> HIDE DEF I, pc
  <2>4. /\ Table(inode') /\ Due(inode', OuterOf(Rest(mounts', prog.fds, leaked), cwd', pc, image'))
        /\ Mounts(mounts') /\ cwd' \in Inode \cup {NsRoot} /\ drive' \in Volume \cup {None}
        /\ stuck' \in BOOLEAN /\ image' \in Inode \cup {None} /\ (image' # None => IsoVolume \in Mounted')
        /\ Mounted' = Mounted \ {v} /\ (cwd' = NsRoot \/ inode'[cwd'].vol # v)
    BY <1>1, <2>1, <2>2, <2>3, UnmountKeeps
  <2>5. Due(inode', Now')
    BY <1>1, <2>1, <2>4 DEF Now
  <2>6. VfsInv'
    BY <1>1, <2>1, <2>4, <2>5 DEF VfsInv
  <2> QED BY <2>4, <2>6 DEF UnmountLeaves
<1> QED BY <1>3, <1>4

LEMMA TemporaryKeeps ==
  ASSUME VfsAssumption, VfsInv, NEW v \in Volume, DiskCfgTemporary(v)
  PROVE  VfsInv'
<1> DEFINE r == VfsAllocInode(inode)
           I == [inode EXCEPT ![r] = [vol |-> v, node |-> "root", ref |-> 1, pin |-> None]]
           R == Rest(mounts, prog.fds, leaked)
<1>1. /\ Table(inode) /\ Due(inode, Now) /\ Now \in Counts /\ R \in Counts /\ Mounts(mounts)
      /\ prog.fds \in Files /\ leaked \in Lost
      /\ Now = OuterOf(R, cwd, prog.cwd, image)
  BY InvIs
<1>2. /\ Spare(inode) # {} /\ inode' = I /\ leaked' = [leaked EXCEPT ![r] = 1]
      /\ UNCHANGED <<mounts, cwd, drive, prog, image, tree, stuck>>
  BY DEF DiskCfgTemporary
<1>3. r \in Inode /\ inode[r].ref = 0 /\ Table(I) /\ Due(I, Plus(Now, r))
  BY <1>1, <1>2, NewRoot
<1> HIDE DEF r, I
<1>4. leaked[r] = 0
  BY <1>3, HeldLives
<1>5. leaked' = [leaked EXCEPT ![r] = leaked[r] + 1]
  BY <1>2, <1>4
<1>6. leaked' \in Lost /\ Rest(mounts, prog.fds, leaked') = Plus(R, r)
  <2> DEFINE ll == [leaked EXCEPT ![r] = leaked[r] + 1]
  <2>1. ll \in Lost /\ Rest(mounts, prog.fds, ll) = Plus(R, r)
    BY <1>1, <1>3, LeakSet
  <2> QED BY <1>5, <2>1
<1> HIDE DEF R
<1>7. OuterOf(Plus(R, r), cwd, prog.cwd, image) = Plus(Now, r)
  BY <1>1, OuterMoves
<1>8. Now' = Plus(Now, r) /\ Mounted' = Mounted
  BY <1>2, <1>6, <1>7 DEF Now, Mounted
<1> QED BY <1>2, <1>3, <1>6, <1>8 DEF VfsInv

LEMMA IsoMountKeeps ==
  ASSUME VfsAssumption, VfsInv, IsoMountFromFile
  PROVE  VfsInv' /\ Mounted \subseteq Mounted'
<1> DEFINE path == [drive |-> Host, names |-> <<"dir", "file">>]
           w == VfsWalk(cwd, path)
           W == w.inode
           a == w.at
           r == VfsAllocInode(W)
           A == [W EXCEPT ![r] = [vol |-> IsoVolume, node |-> "root", ref |-> 1, pin |-> None]]
           B == [W EXCEPT ![r] = [vol |-> IsoVolume, node |-> "root", ref |-> 2, pin |-> None]]
           ns == <<[vol |-> IsoVolume, root |-> r]>> \o mounts
           R == Rest(mounts, prog.fds, leaked)
           N == Rest(ns, prog.fds, leaked)
           pc == prog.cwd
<1>1. /\ Table(inode) /\ Due(inode, Now) /\ Now \in Counts /\ R \in Counts /\ Mounts(mounts)
      /\ prog.fds \in Files /\ leaked \in Lost /\ prog.cwd \in Held /\ cwd \in Held
      /\ Now = OuterOf(R, cwd, prog.cwd, image)
  BY InvIs
<1>2. /\ IsoVolume \notin Mounted /\ Cardinality(Spare(inode)) > 2 /\ w.ok /\ Spare(W) # {}
      /\ mounts' = ns /\ image' = a /\ cwd' = r /\ inode' = VfsInodeUnref(B, cwd)
      /\ VfsUpdateCurrentPath(ns, inode', r) /\ UNCHANGED <<prog, tree, leaked>>
  BY DEF IsoMountFromFile
<1>3. image = None /\ IsoVolume \in Volume /\ Host \in Volume /\ Host # None
  BY <1>2 DEF VfsInv, VfsAssumption
<1>4. WalkAt(inode, Now, w) /\ a \in Inode
  <2> HIDE DEF w, a
  <2>1. CASE Host \in Mounted
    <3>1. RootOf(Host) \in Inode /\ inode[RootOf(Host)].ref > 0
      BY <2>1, HeldLives
    <3> DEFINE names == <<"dir", "file">>
    <3>2. w = VfsWalkWithin(RootOf(Host), RootOf(Host), names)
      BY <1>3, <2>1 DEF VfsWalk, w, path
    <3>3. names \in Names /\ \A n \in 1..Len(names) : names[n] # ".."
      BY DEF Names
    <3> HIDE DEF names
    <3>4. RootOf(Host) \in Inode \cup {NsRoot}
      BY <3>1
    <3>5. WalkAt(inode, Now, w) /\ (w.ok => w.at \in Inode)
      BY <1>1, <1>2, <3>1, <3>2, <3>3, <3>4, WalkIs
    <3> QED BY <1>2, <3>5 DEF a
  <2>2. CASE Host \notin Mounted
    <3>1. w = [ok |-> FALSE, inode |-> inode, at |-> None]
      BY <1>3, <2>2 DEF VfsWalk, w, path
    <3> QED BY <1>2, <3>1
  <2> QED BY <2>1, <2>2
<1>5. Table(W) /\ Due(W, Plus(Now, a)) /\ a \in Inode /\ Plus(Now, a) \in Counts
  BY <1>1, <1>4, PlusIs DEF WalkAt
<1> HIDE DEF w, a, W
<1>6. /\ r \in Inode /\ Table(A) /\ Due(A, Plus(Plus(Now, a), r))
      /\ A[r] = [vol |-> IsoVolume, node |-> "root", ref |-> 1, pin |-> None]
  BY <1>2, <1>3, <1>5, NewRoot
<1> HIDE DEF r
<1>7. B = VfsInodeRef(A, r)
  <2>1. A[r].ref + 1 = 2 /\ r \notin {NsRoot, None}
    BY <1>6 DEF VfsAssumption
  <2>2. VfsInodeRef(A, r) = [A EXCEPT ![r] = [A[r] EXCEPT !.ref = 2]]
    BY <2>1 DEF VfsInodeRef
  <2>3. [A[r] EXCEPT !.ref = 2] = [vol |-> IsoVolume, node |-> "root", ref |-> 2, pin |-> None]
    BY <1>6
  <2>4. W \in [Inode -> InodeRec]
    BY <1>5 DEF Table
  <2> QED BY <1>6, <2>2, <2>3, <2>4
<1> HIDE DEF A, B
<1>8. Plus(Plus(Now, a), r) \in Counts /\ r \in Held /\ A[r].ref > 0
  BY <1>5, <1>6, PlusIs DEF Held
<1>9. Table(B) /\ Due(B, Plus(Plus(Plus(Now, a), r), r))
  BY <1>6, <1>7, <1>8, RefOK
<1>10. /\ Mounts(ns) /\ N = Plus(R, r)
       /\ {m.vol : m \in Members(ns)} = {m.vol : m \in Members(mounts)} \cup {IsoVolume}
  <2>1. IsoVolume \notin {m.vol : m \in Members(mounts)}
    BY <1>2 DEF Mounted
  <2> QED BY <1>1, <1>3, <1>6, <2>1, Mounting
<1>11. Mounted \subseteq Mounted' /\ IsoVolume \in Mounted'
  BY <1>2, <1>10 DEF Mounted
<1> HIDE DEF ns, R
<1>12. N \in Counts
  BY <1>1, <1>10, RestIs
<1>13. Now' = OuterOf(N, r, pc, a)
  BY <1>2 DEF Now
<1> HIDE DEF N
<1>14. Plus(Plus(Plus(Now, a), r), r) = Plus(OuterOf(N, r, pc, a), cwd)
  <2>1. OuterOf(N, cwd, pc, None) = Plus(Now, r)
    BY <1>1, <1>3, <1>10, OuterMoves
  <2>2. OuterOf(N, cwd, pc, a) = Plus(OuterOf(N, cwd, pc, None), a)
    BY <1>12, OuterHas
  <2>3. Plus(Plus(Now, r), a) = Plus(Plus(Now, a), r)
    BY <1>1, PlusSwaps
  <2>4. Plus(OuterOf(N, r, pc, a), cwd) = Plus(OuterOf(N, cwd, pc, a), r)
    BY <1>12, OuterMoves
  <2> QED BY <2>1, <2>2, <2>3, <2>4
<1>15. OuterOf(N, r, pc, a) \in Counts
  BY <1>12, OuterMoves
<1>16. Table(VfsInodeUnref(B, cwd)) /\ Due(VfsInodeUnref(B, cwd), OuterOf(N, r, pc, a))
  BY <1>1, <1>9, <1>14, <1>15, UnrefOK
<1>17. Table(inode') /\ Due(inode', Now')
  BY <1>2, <1>13, <1>16
<1>18. drive' \in Volume \cup {None} /\ stuck' \in BOOLEAN
  BY <1>2, <1>10, PathUpdated DEF VfsInv
<1> QED BY <1>2, <1>5, <1>6, <1>10, <1>11, <1>17, <1>18 DEF VfsInv

LEMMA RunKeeps ==
  ASSUME VfsAssumption, VfsInv, CmdRun
  PROVE  VfsInv'
<1>1. /\ ~prog.alive /\ prog' = [alive |-> TRUE, cwd |-> NsRoot, fds |-> NoFiles]
      /\ UNCHANGED <<mounts, inode, cwd, drive, image, tree, leaked, stuck>>
  BY DEF CmdRun
<1>2. prog.cwd = None /\ prog.fds = NoFiles
  BY <1>1 DEF VfsInv, NoProgram
<1>3. prog' \in ProgRec /\ prog'.cwd = NsRoot /\ prog'.fds = NoFiles /\ prog'.alive /\ NsRoot # None
  BY <1>1 DEF ProgRec, Held, Files, NoFiles, VfsAssumption
<1> DEFINE R == Rest(mounts, NoFiles, leaked)
<1>4. R \in Counts /\ Now = OuterOf(R, cwd, None, image)
  BY <1>2, InvIs
<1>5. Now' = OuterOf(R, cwd, NsRoot, image)
  BY <1>1, <1>3 DEF Now
<1> HIDE DEF R
<1>6. Now' = Now
  <2>1. OuterOf(R, cwd, NsRoot, image) = Plus(OuterOf(R, cwd, None, image), NsRoot)
        /\ OuterOf(R, cwd, None, image) \in Counts
    BY <1>4, OuterHas, OuterMoves
  <2> QED BY <1>4, <1>5, <2>1, PlusNothing
<1>7. Mounted' = Mounted
  BY <1>1 DEF Mounted
<1> QED BY <1>1, <1>3, <1>6, <1>7 DEF VfsInv

(* A descriptor for an inode that has been referenced.                         *)
LEMMA InstallKeeps ==
  ASSUME VfsAssumption, VfsInv, prog.alive, NEW I, Table(I), NEW a \in Held, Due(I, Plus(Now, a)),
         FdInstallVfs(I, a), UNCHANGED <<mounts, cwd, drive, image, leaked>>, stuck' \in BOOLEAN
  PROVE  VfsInv'
<1> DEFINE R == Rest(mounts, prog.fds, leaked)
           free == {f \in Fd : prog.fds[f] = None}
<1>1. /\ Now \in Counts /\ R \in Counts /\ Mounts(mounts)
      /\ prog.fds \in Files /\ leaked \in Lost
      /\ Now = OuterOf(R, cwd, prog.cwd, image)
      /\ prog = [alive |-> prog.alive, cwd |-> prog.cwd, fds |-> prog.fds]
  BY InvIs
<1>2. Mounted' = Mounted
  BY DEF Mounted
<1>3. CASE free = {}
  <2>1. inode' = VfsInodeUnref(I, a) /\ UNCHANGED prog
    BY <1>3 DEF FdInstallVfs
  <2>2. Table(VfsInodeUnref(I, a)) /\ Due(VfsInodeUnref(I, a), Now)
    BY <1>1, UnrefOK
  <2>3. Now' = Now
    BY <2>1 DEF Now
  <2> QED BY <1>2, <2>1, <2>2, <2>3 DEF VfsInv
<1>4. CASE free # {}
  <2> DEFINE f == CHOOSE f \in free : \A g \in free : f <= g
             gds == [prog.fds EXCEPT ![f] = a]
  <2>1. inode' = I /\ prog' = [prog EXCEPT !.fds[f] = a]
    BY <1>4 DEF FdInstallVfs
  <2>2. f \in Fd /\ prog.fds[f] = None
    <3>1. free \in SUBSET Nat
      BY DEF Fd, VfsAssumption
    <3> HIDE DEF free
    <3>2. \E x \in free : \A g \in free : x <= g
      BY <1>4, <3>1, Least
    <3>3. f \in free
      BY <3>2
    <3> HIDE DEF f
    <3> QED BY <3>3 DEF free
  <2> HIDE DEF f, free
  <2>3. gds \in Files /\ Plus(Rest(mounts, gds, leaked), None) = Plus(R, a)
    BY <1>1, <2>2, FdSet
  <2>4. prog' \in ProgRec /\ prog'.alive = prog.alive /\ prog'.cwd = prog.cwd /\ prog'.fds = gds
    BY <1>1, <2>1, <2>3 DEF VfsInv, ProgRec
  <2> HIDE DEF gds, R
  <2>5. Rest(mounts, gds, leaked) \in Counts
    BY <1>1, <2>3, RestIs
  <2>6. Rest(mounts, gds, leaked) = Plus(R, a)
    BY <2>3, <2>5, PlusNothing
  <2>7. OuterOf(Plus(R, a), cwd, prog.cwd, image) = Plus(Now, a)
    BY <1>1, OuterMoves
  <2>8. Now' = Plus(Now, a)
    BY <2>4, <2>6, <2>7 DEF Now
  <2> QED BY <1>2, <2>1, <2>4, <2>8 DEF VfsInv
<1> QED BY <1>3, <1>4

LEMMA BaseIs ==
  ASSUME VfsAssumption, VfsInv, prog.alive, NEW b \in SyscallResolveDirBase
  PROVE  b \in Inode \cup {NsRoot} /\ (b \in Inode => inode[b].ref > 0)
<1>1. prog.fds \in Files /\ prog.cwd \in Held /\ prog.cwd # None
  BY InvIs DEF VfsInv
<1>2. CASE b = prog.cwd
  BY <1>1, <1>2, HeldLives DEF Held
<1>3. CASE b \in {prog.fds[f] : f \in DirFds}
  <2>1. PICK f \in DirFds : b = prog.fds[f]
    BY <1>3
  <2>2. f \in Fd /\ prog.fds[f] # None /\ prog.fds[f] \in Held
    BY <1>1, <2>1 DEF DirFds, Files
  <2> QED BY <2>1, <2>2, HeldLives DEF Held
<1> QED BY <1>2, <1>3 DEF SyscallResolveDirBase

LEMMA OpenKeeps ==
  ASSUME VfsAssumption, VfsInv, NEW base \in SyscallResolveDirBase, NEW p \in PathName, SysOpenAt(base, p)
  PROVE  VfsInv'
<1> DEFINE w == VfsWalk(base, p)
<1>1. /\ prog.alive /\ Cardinality(Spare(inode)) > 2 /\ w.ok /\ FdInstallVfs(w.inode, w.at)
      /\ UNCHANGED <<mounts, cwd, drive, image, tree, leaked, stuck>>
  BY DEF SysOpenAt, Calling
<1>2. base \in Inode \cup {NsRoot} /\ (base \in Inode => inode[base].ref > 0)
  BY <1>1, BaseIs
<1>3. p \in [drive : Volume \cup {None}, names : Names]
  BY DEF VfsAssumption, Names
<1>4. WalkAt(inode, Now, w)
  BY <1>1, <1>2, <1>3, VfsWalkOK
<1> HIDE DEF w
<1>5. Table(w.inode) /\ w.at \in Held /\ Due(w.inode, Plus(Now, w.at))
  BY <1>4 DEF WalkAt
<1>6. stuck' \in BOOLEAN
  BY <1>1 DEF VfsInv
<1> QED BY <1>1, <1>5, <1>6, InstallKeeps

LEMMA CreateOpenKeeps ==
  ASSUME VfsAssumption, VfsInv, NEW base \in SyscallResolveDirBase, VfsOpenCreate(base)
  PROVE  VfsInv'
<1> DEFINE v == VfsResolvePath(base)
           names == <<"dir">>
           w == VfsWalkWithin(RootOf(v), RootOf(v), names)
           new == VfsAllocInode(w.inode)
<1>1. /\ prog.alive /\ Cardinality(Spare(inode)) > 2 /\ UNCHANGED <<mounts, cwd, drive, image, leaked>>
      /\ v = "endless" => stuck' = TRUE /\ UNCHANGED <<inode, prog, tree>>
      /\ v # "endless" => /\ v # None /\ w.ok
                          /\ FdInstallVfs(VfsInodeUnref(Attached(w.inode, new, v, "file", w.at), w.at), new)
                          /\ UNCHANGED stuck
  BY DEF VfsOpenCreate, Calling
<1> HIDE DEF names
<1>2. CASE v = "endless"
  <2>1. UNCHANGED <<mounts, inode, cwd, drive, prog, image, leaked>> /\ stuck' = TRUE
    BY <1>1, <1>2
  <2>2. Now' = Now /\ Mounted' = Mounted
    BY <2>1 DEF Now, Mounted
  <2> QED BY <2>1, <2>2 DEF VfsInv
<1>3. CASE v # "endless"
  <2>1. Table(inode) /\ Due(inode, Now) /\ Now \in Counts /\ Mounts(mounts)
    BY InvIs
  <2>2. v \in Mounted /\ v \in Volume
    <3>1. v \in Mounted
      BY <1>1, <1>3, <2>1, PathIs DEF VfsResolvePath, Mounted
    <3>2. \A m \in Members(mounts) : m \in MountRec
      BY <2>1 DEF Members, Mounts
    <3> QED BY <3>1, <3>2 DEF Mounted, MountRec
  <2>3. RootOf(v) \in Inode /\ inode[RootOf(v)].ref > 0
    BY <2>2, HeldLives
  <2>4. names \in Names /\ Len(names) = 1 /\ names[1] = "dir"
    BY DEF names, Names
  <2>5. RootOf(v) \in Inode \cup {NsRoot} /\ \A n \in 1..Len(names) : names[n] # ".."
    BY <2>3, <2>4
  <2> DEFINE root == RootOf(v)
  <2>6. w = VfsWalkWithin(root, root, names)
    OBVIOUS
  <2> HIDE DEF root, w
  <2>7. WalkAt(inode, Now, w) /\ (w.ok => w.at \in Inode) /\ (w.ok => w.inode[w.at].node = "dir")
    BY <1>1, <2>1, <2>3, <2>4, <2>5, <2>6, WalkIs DEF root
  <2>8. w.at \in Inode /\ w.inode[w.at].node = "dir" /\ w.ok
    BY <1>1, <1>3, <2>7
  <2>9. new \in Inode /\ w.inode[new].ref = 0
    BY <1>1, <2>1, <2>7, <2>8, SpareOnWalk
  <2> DEFINE pin == IF FsOf[v] = "exfat" THEN w.at ELSE None
             J == VfsInodeUnref(Made(w.inode, new, v, "file", pin), w.at)
  <2>10. Attached(w.inode, new, v, "file", w.at) = Made(w.inode, new, v, "file", pin)
    BY DEF Attached, Made
  <2>11. FdInstallVfs(J, new) /\ UNCHANGED stuck
    BY <1>1, <1>3, <2>10
  <2>12. /\ "file" \in Node /\ pin \in {w.at, None} /\ v \in Volume \cup {None}
         /\ (pin = w.at => "file" # "root" /\ w.inode[w.at].node = ParentNode("file") /\ FsOf[v] = "exfat")
    BY <2>2, <2>8 DEF Node, ParentNode, VfsAssumption
  <2> HIDE DEF new, v, pin
  <2>13. WalkAt(inode, Now, Walked(J, new))
    BY <2>1, <2>7, <2>8, <2>9, <2>12, MakesOne
  <2> HIDE DEF J
  <2>14. Table(J) /\ new \in Held /\ Due(J, Plus(Now, new))
    BY <2>13 DEF WalkAt, Walked
  <2>15. stuck' \in BOOLEAN
    BY <2>11 DEF VfsInv
  <2> QED BY <1>1, <2>11, <2>14, <2>15, InstallKeeps
<1> QED BY <1>2, <1>3

LEMMA CloseKeeps ==
  ASSUME VfsAssumption, VfsInv, NEW f \in Fd, SysClose(f)
  PROVE  VfsInv'
<1> DEFINE gds == [prog.fds EXCEPT ![f] = None]
           E == OuterOf(Rest(mounts, gds, leaked), cwd, prog.cwd, image)
<1>1. /\ prog.alive /\ inode' = VfsInodeUnref(inode, prog.fds[f]) /\ prog' = [prog EXCEPT !.fds[f] = None]
      /\ UNCHANGED <<mounts, cwd, drive, image, tree, leaked, stuck>>
  BY DEF SysClose
<1>2. /\ Table(inode) /\ Due(inode, Now) /\ Mounts(mounts) /\ prog.fds \in Files /\ leaked \in Lost
      /\ prog = [alive |-> prog.alive, cwd |-> prog.cwd, fds |-> prog.fds]
      /\ Now = OuterOf(Rest(mounts, prog.fds, leaked), cwd, prog.cwd, image)
  BY InvIs
<1>3. gds \in Files /\ E \in Counts /\ Now = Plus(E, prog.fds[f])
  BY <1>2, FileHeld
<1>4. prog' \in ProgRec /\ prog'.alive = prog.alive /\ prog'.cwd = prog.cwd /\ prog'.fds = gds
  BY <1>1, <1>2, <1>3 DEF VfsInv, ProgRec
<1>5. Now' = E /\ Mounted' = Mounted
  BY <1>1, <1>4 DEF Now, Mounted
<1> HIDE DEF E
<1>6. prog.fds[f] \in Held
  BY <1>2 DEF Files
<1>7. Table(inode') /\ Due(inode', E)
  BY <1>1, <1>2, <1>3, <1>6, UnrefOK
<1> QED BY <1>1, <1>4, <1>5, <1>7 DEF VfsInv

(* Both directories are dir, which has been referenced once.                   *)
LEMMA ChangeDirKeeps ==
  ASSUME VfsAssumption, VfsInv, prog.alive, NEW I, Table(I), NEW dir \in Inode \cup {NsRoot},
         Due(I, Plus(Now, dir)), ChangeDir(I, dir)
  PROVE  VfsInv'
<1> DEFINE R == Rest(mounts, prog.fds, leaked)
           E == OuterOf(R, cwd, dir, image)
           J == VfsInodeUnref(I, prog.cwd)
           K == VfsInodeRef(J, dir)
<1>1. /\ prog' = [prog EXCEPT !.cwd = dir] /\ cwd' = dir /\ inode' = VfsInodeUnref(K, cwd)
      /\ VfsUpdateCurrentPath(mounts, inode', dir) /\ UNCHANGED <<mounts, image, tree, leaked>>
  BY DEF ChangeDir
<1>2. /\ Now \in Counts /\ R \in Counts /\ Mounts(mounts) /\ prog.cwd \in Held /\ cwd \in Held
      /\ prog.fds \in Files
      /\ prog = [alive |-> prog.alive, cwd |-> prog.cwd, fds |-> prog.fds]
      /\ Now = OuterOf(R, cwd, prog.cwd, image)
  BY InvIs
<1>3. dir \in Held /\ dir # None
  BY DEF Held, VfsAssumption
<1>4. prog' \in ProgRec /\ prog'.alive = prog.alive /\ prog'.cwd = dir /\ prog'.fds = prog.fds
  BY <1>1, <1>2, <1>3 DEF VfsInv, ProgRec
<1>5. Now' = OuterOf(R, dir, dir, image) /\ Mounted' = Mounted
  BY <1>1, <1>4 DEF Now, Mounted
<1> HIDE DEF R
<1>6. E \in Counts /\ Plus(E, prog.cwd) = Plus(Now, dir)
  BY <1>2, OuterMoves
<1>7. E = Plus(OuterOf(R, cwd, NsRoot, image), dir) /\ OuterOf(R, cwd, NsRoot, image) \in Counts
  BY <1>2, OuterHas, OuterMoves
<1>8. OuterOf(R, dir, dir, image) \in Counts
      /\ Plus(OuterOf(R, dir, dir, image), cwd) = Plus(E, dir)
  BY <1>2, OuterMoves
<1> HIDE DEF E
<1>9. Table(J) /\ Due(J, E)
  BY <1>2, <1>6, UnrefOK
<1> HIDE DEF J
<1>10. dir \in Inode => J[dir].ref > 0
  BY <1>7, <1>9, OwedLives
<1>11. Table(K) /\ Due(K, Plus(E, dir))
  BY <1>3, <1>6, <1>9, <1>10, RefOK
<1> HIDE DEF K
<1>12. Table(inode') /\ Due(inode', Now')
  BY <1>1, <1>2, <1>5, <1>8, <1>11, UnrefOK
<1>13. drive' \in Volume \cup {None} /\ stuck' \in BOOLEAN
  BY <1>1, <1>2, PathUpdated DEF VfsInv
<1> QED BY <1>1, <1>3, <1>4, <1>5, <1>12, <1>13 DEF VfsInv

LEMMA ChdirKeeps ==
  ASSUME VfsAssumption, VfsInv, NEW p \in PathName, SysChdir(p)
  PROVE  VfsInv'
<1> DEFINE w == VfsWalk(prog.cwd, p)
<1>1. prog.alive /\ Cardinality(Spare(inode)) > 2 /\ w.ok /\ ChangeDir(w.inode, w.at)
  BY DEF SysChdir, Calling
<1>2. prog.cwd \in Inode \cup {NsRoot} /\ (prog.cwd \in Inode => inode[prog.cwd].ref > 0)
  BY <1>1, BaseIs DEF SyscallResolveDirBase
<1>3. p \in [drive : Volume \cup {None}, names : Names]
  BY DEF VfsAssumption, Names
<1>4. WalkAt(inode, Now, w)
  BY <1>1, <1>2, <1>3, VfsWalkOK
<1> HIDE DEF w
<1>5. Table(w.inode) /\ w.at \in Inode \cup {NsRoot} /\ Due(w.inode, Plus(Now, w.at))
  BY <1>1, <1>4 DEF WalkAt, Held
<1> QED BY <1>1, <1>5, ChangeDirKeeps

LEMMA FchdirKeeps ==
  ASSUME VfsAssumption, VfsInv, NEW f \in Fd, SysFchdir(f)
  PROVE  VfsInv'
<1> DEFINE d == prog.fds[f]
           I == VfsInodeRef(inode, d)
<1>1. prog.alive /\ f \in DirFds /\ ChangeDir(I, d)
  BY DEF SysFchdir, Calling
<1>2. Table(inode) /\ Due(inode, Now) /\ Now \in Counts /\ prog.fds \in Files
  BY InvIs
<1>3. d \in Inode \cup {NsRoot} /\ d \in Held
  BY <1>1, <1>2 DEF DirFds, Files, Held
<1>4. d \in Inode => inode[d].ref > 0
  BY HeldLives
<1> HIDE DEF d
<1>5. Table(I) /\ Due(I, Plus(Now, d))
  BY <1>2, <1>3, <1>4, RefOK
<1> HIDE DEF I
<1> QED BY <1>1, <1>3, <1>5, ChangeDirKeeps

LEMMA StatKeeps ==
  ASSUME VfsAssumption, VfsInv, NEW b \in SyscallResolveDirBase, SysNewFstatAt(b)
  PROVE  VfsInv'
<1> DEFINE R == Rest(mounts, prog.fds, leaked)
<1>1. /\ prog.alive /\ b # NsRoot /\ inode' = VfsInodeRef(inode, b) /\ leaked' = [leaked EXCEPT ![b] = @ + 1]
      /\ UNCHANGED <<mounts, cwd, drive, prog, image, tree, stuck>>
  BY DEF SysNewFstatAt, Calling
<1>2. b \in Inode /\ b \in Held /\ inode[b].ref > 0
  BY <1>1, BaseIs DEF Held
<1>3. /\ Table(inode) /\ Due(inode, Now) /\ Now \in Counts /\ R \in Counts /\ Mounts(mounts)
      /\ prog.fds \in Files /\ leaked \in Lost
      /\ Now = OuterOf(R, cwd, prog.cwd, image)
  BY InvIs
<1>4. leaked' = [leaked EXCEPT ![b] = leaked[b] + 1]
  BY <1>1
<1>5. leaked' \in Lost /\ Rest(mounts, prog.fds, leaked') = Plus(R, b)
  <2> DEFINE ll == [leaked EXCEPT ![b] = leaked[b] + 1]
  <2>1. ll \in Lost /\ Rest(mounts, prog.fds, ll) = Plus(R, b)
    BY <1>2, <1>3, LeakSet
  <2> QED BY <1>4, <2>1
<1> HIDE DEF R
<1>6. OuterOf(Plus(R, b), cwd, prog.cwd, image) = Plus(Now, b)
  BY <1>3, OuterMoves
<1>7. Now' = Plus(Now, b) /\ Mounted' = Mounted
  BY <1>1, <1>5, <1>6 DEF Now, Mounted
<1>8. Table(inode') /\ Due(inode', Plus(Now, b))
  BY <1>1, <1>2, <1>3, RefOK
<1> QED BY <1>1, <1>5, <1>7, <1>8 DEF VfsInv

LEMMA TreeKeeps ==
  ASSUME VfsAssumption, VfsInv, NEW b \in SyscallResolveDirBase, NEW n \in {"dir", "file"},
         VfsCreate(b, n) \/ VfsUnlink(b, n)
  PROVE  VfsInv'
<1>1. UNCHANGED <<mounts, inode, cwd, drive, prog, image, leaked>> /\ (stuck' = TRUE \/ UNCHANGED stuck)
  BY DEF VfsCreate, VfsUnlink
<1>2. Now' = Now /\ Mounted' = Mounted
  BY <1>1 DEF Now, Mounted
<1> QED BY <1>1, <1>2 DEF VfsInv

(* The descriptors up to n have been closed.                                   *)
Cleared(fds, n) == [f \in Fd |-> IF f <= n THEN None ELSE fds[f]]
Closing(g, n) ==
  g = [f \in 0..n |-> IF f \notin Fd THEN inode ELSE VfsInodeUnref(g[f - 1], prog.fds[f])]

LEMMA CloseExists ==
  ASSUME NEW N \in Nat
  PROVE  \E g : Closing(g, N)
<1> DEFINE P == {n \in Nat : \E g : Closing(g, n)}
<1>1. 0 \in P
  <2> DEFINE g == [f \in 0..0 |-> inode]
  <2>1. 0 \notin Fd
    BY DEF Fd
  <2>2. g = [f \in 0..0 |-> IF f \notin Fd THEN inode ELSE VfsInodeUnref(g[f - 1], prog.fds[f])]
    BY <2>1
  <2>3. Closing(g, 0)
    BY <2>2 DEF Closing
  <2> QED BY <2>3
<1>2. ASSUME NEW n \in P PROVE n + 1 \in P
  <2>1. n \in Nat /\ \E g : Closing(g, n)
    BY <1>2
  <2>2. PICK g : Closing(g, n)
    BY <2>1
  <2> DEFINE last == IF n + 1 \notin Fd THEN inode ELSE VfsInodeUnref(g[n], prog.fds[n + 1])
             h == [f \in 0..(n + 1) |-> IF f = n + 1 THEN last ELSE g[f]]
  <2>3. \A f \in 0..n : g[f] = IF f \notin Fd THEN inode ELSE VfsInodeUnref(g[f - 1], prog.fds[f])
    BY <2>2 DEF Closing
  <2>4. ASSUME NEW f \in 0..(n + 1)
        PROVE  h[f] = IF f \notin Fd THEN inode ELSE VfsInodeUnref(h[f - 1], prog.fds[f])
    <3>1. CASE f = n + 1
      <4> HIDE DEF last
      <4>1. h[f] = last /\ h[f - 1] = g[n]
        BY <2>1, <3>1
      <4> QED BY <3>1, <4>1 DEF last
    <3>2. CASE f # n + 1 /\ f # 0
      <4> HIDE DEF last
      <4>1. f \in 0..n /\ f - 1 \in 0..n /\ h[f] = g[f] /\ h[f - 1] = g[f - 1]
        BY <2>1, <3>2
      <4> QED BY <2>3, <4>1
    <3>3. CASE f = 0
      <4> HIDE DEF last
      <4>1. f \in 0..n /\ h[f] = g[f] /\ f \notin Fd
        BY <2>1, <3>3 DEF Fd
      <4> QED BY <2>3, <4>1
    <3> QED BY <3>1, <3>2, <3>3
  <2>5. h = [f \in 0..(n + 1) |-> IF f \notin Fd THEN inode ELSE VfsInodeUnref(h[f - 1], prog.fds[f])]
    BY <2>4
  <2> HIDE DEF h
  <2>6. Closing(h, n + 1)
    BY <2>5 DEF Closing
  <2> QED BY <2>1, <2>6
<1> HIDE DEF P
<1>3. P \in SUBSET Nat
  BY DEF P
<1>4. P = Nat
  BY <1>1, <1>2, <1>3, Counting
<1> QED BY <1>4 DEF P

LEMMA ClosedAll ==
  ASSUME VfsAssumption, VfsInv
  PROVE  /\ Table(FdTableCloseAll) /\ NoFiles \in Files
         /\ Due(FdTableCloseAll, OuterOf(Rest(mounts, NoFiles, leaked), cwd, prog.cwd, image))
<1> DEFINE g == CHOOSE g : Closing(g, FdMax)
           E(n) == OuterOf(Rest(mounts, Cleared(prog.fds, n), leaked), cwd, prog.cwd, image)
           P == {n \in Nat : n <= FdMax => Table(g[n]) /\ Due(g[n], E(n))}
<1>1. FdMax \in Nat
  BY DEF VfsAssumption
<1>2. FdTableCloseAll = g[FdMax]
  BY DEF FdTableCloseAll, Closing
<1>3. Closing(g, FdMax)
  <2>1. \E h : Closing(h, FdMax)
    BY <1>1, CloseExists
  <2> QED BY <2>1
<1> HIDE DEF g
<1>4. /\ Table(inode) /\ Due(inode, Now) /\ Mounts(mounts) /\ prog.fds \in Files /\ leaked \in Lost
      /\ Now = OuterOf(Rest(mounts, prog.fds, leaked), cwd, prog.cwd, image)
  BY InvIs
<1>5. \A n \in Nat : Cleared(prog.fds, n) \in Files
  BY <1>4 DEF Cleared, Files, Held
<1>6. ASSUME NEW n \in Nat, n \notin Fd, n <= FdMax PROVE n \in P
  <2>1. g[n] = inode
    BY <1>1, <1>3, <1>6 DEF Closing
  <2>2. \A f \in Fd : ~(f <= n)
    BY <1>1, <1>6 DEF Fd
  <2>3. Cleared(prog.fds, n) = prog.fds
    BY <1>4, <2>2 DEF Cleared, Files
  <2> QED BY <1>4, <2>1, <2>3
<1>7. 0 \in P
  BY <1>1, <1>6 DEF Fd
<1>8. ASSUME NEW n \in P PROVE n + 1 \in P
  <2>1. n \in Nat /\ n + 1 \in Nat
    BY <1>8
  <2>2. CASE n + 1 > FdMax
    BY <1>1, <2>1, <2>2
  <2>3. CASE n + 1 <= FdMax /\ n + 1 \notin Fd
    BY <1>6, <2>1, <2>3
  <2>4. CASE n + 1 <= FdMax /\ n + 1 \in Fd
    <3> DEFINE fds == Cleared(prog.fds, n)
               gds == Cleared(prog.fds, n + 1)
               x == prog.fds[n + 1]
    <3>1. Table(g[n]) /\ Due(g[n], E(n))
      BY <1>1, <1>8, <2>1, <2>4
    <3>2. g[n + 1] = VfsInodeUnref(g[n], x)
      BY <1>1, <1>3, <2>1, <2>4 DEF Closing
    <3>3. fds[n + 1] = x /\ gds = [fds EXCEPT ![n + 1] = None]
      <4>1. ~(n + 1 <= n) /\ n + 1 <= n + 1
        BY <2>1
      <4>2. \A f \in Fd : f # n + 1 => (f <= n + 1 <=> f <= n)
        BY <1>1, <2>1 DEF Fd
      <4>3. \A f \in Fd : gds[f] = IF f = n + 1 THEN None ELSE fds[f]
        BY <4>1, <4>2 DEF Cleared
      <4>4. fds[n + 1] = x
        BY <2>4, <4>1 DEF Cleared
      <4>5. gds = [f \in Fd |-> gds[f]] /\ fds = [f \in Fd |-> fds[f]]
        BY DEF Cleared
      <4> HIDE DEF fds, gds
      <4> QED BY <4>3, <4>4, <4>5
    <3>4. fds \in Files /\ x \in Held
      BY <1>4, <1>5, <2>1, <2>4 DEF Files
    <3>5. E(n) = OuterOf(Rest(mounts, fds, leaked), cwd, prog.cwd, image)
          /\ E(n + 1) = OuterOf(Rest(mounts, gds, leaked), cwd, prog.cwd, image)
      OBVIOUS
    <3> HIDE DEF fds, gds, E
    <3>a. /\ OuterOf(Rest(mounts, [fds EXCEPT ![n + 1] = None], leaked), cwd, prog.cwd, image) \in Counts
          /\ OuterOf(Rest(mounts, fds, leaked), cwd, prog.cwd, image)
               = Plus(OuterOf(Rest(mounts, [fds EXCEPT ![n + 1] = None], leaked), cwd, prog.cwd, image), fds[n + 1])
      BY <1>4, <2>4, <3>4, FileHeld
    <3>6. E(n + 1) \in Counts /\ E(n) = Plus(E(n + 1), x)
      BY <3>3, <3>5, <3>a
    <3> HIDE DEF x
    <3>7. Table(g[n + 1]) /\ Due(g[n + 1], E(n + 1))
      BY <3>1, <3>2, <3>4, <3>6, UnrefOK
    <3> QED BY <2>1, <3>7
  <2> QED BY <1>1, <2>1, <2>2, <2>3, <2>4
<1>9. P = Nat
  <2> HIDE DEF P
  <2>1. P \in SUBSET Nat
    BY DEF P
  <2> QED BY <1>7, <1>8, <2>1, Counting
<1>10. Table(g[FdMax]) /\ Due(g[FdMax], E(FdMax))
  <2>1. FdMax \in P /\ FdMax <= FdMax
    BY <1>1, <1>9
  <2> QED BY <2>1
<1>11. Cleared(prog.fds, FdMax) = NoFiles
  BY <1>1 DEF Cleared, NoFiles, Fd
<1> QED BY <1>1, <1>2, <1>5, <1>10, <1>11

LEMMA EndKeeps ==
  ASSUME VfsAssumption, VfsInv, ProgramEnds
  PROVE  VfsInv'
<1> DEFINE I == FdTableCloseAll
           R == Rest(mounts, NoFiles, leaked)
<1>1. /\ inode' = VfsInodeUnref(I, prog.cwd) /\ prog' = NoProgram
      /\ UNCHANGED <<mounts, cwd, drive, image, tree, leaked, stuck>>
  BY DEF ProgramEnds
<1>2. Table(I) /\ Due(I, OuterOf(R, cwd, prog.cwd, image)) /\ NoFiles \in Files
  BY ClosedAll
<1>3. Mounts(mounts) /\ leaked \in Lost /\ prog.cwd \in Held
  BY InvIs
<1>4. R \in Counts
  BY <1>2, <1>3, RestIs
<1>5. /\ prog' \in ProgRec /\ prog'.alive = FALSE /\ prog'.cwd = None /\ prog'.fds = NoFiles
  BY <1>1, <1>2 DEF NoProgram, ProgRec, Held
<1>6. Now' = OuterOf(R, cwd, None, image) /\ Mounted' = Mounted
  BY <1>1, <1>5 DEF Now, Mounted
<1> HIDE DEF I, R
<1>7. OuterOf(R, cwd, prog.cwd, image) = Plus(OuterOf(R, cwd, None, image), prog.cwd)
      /\ OuterOf(R, cwd, None, image) \in Counts
  BY <1>4, OuterHas, OuterMoves
<1>8. Table(inode') /\ Due(inode', Now')
  BY <1>1, <1>2, <1>3, <1>6, <1>7, UnrefOK
<1> QED BY <1>1, <1>5, <1>6, <1>8 DEF VfsInv, NoProgram

LEMMA SameMounts ==
  ASSUME UNCHANGED mounts
  PROVE  UnmountLeaves
<1>1. Mounted' = Mounted
  BY DEF Mounted
<1> QED BY <1>1 DEF UnmountLeaves

LEMMA MoreMounts ==
  ASSUME Mounted \subseteq Mounted'
  PROVE  UnmountLeaves
BY DEF UnmountLeaves

LEMMA VfsStep ==
  ASSUME VfsAssumption, VfsInv, VfsNext
  PROVE  VfsInv' /\ UnmountLeaves
<1>1. ASSUME NEW v \in Volume, CmdMount(v) PROVE VfsInv' /\ UnmountLeaves
  <2>1. Mount(v, TRUE) /\ UNCHANGED <<prog, image, tree, leaked>> /\ TRUE \in BOOLEAN
    BY <1>1 DEF CmdMount
  <2> QED BY <2>1, MountKeeps, MoreMounts
<1>2. ASSUME NEW v \in Volume, DiskCfgMountRoots(v) PROVE VfsInv' /\ UnmountLeaves
  <2>1. Mount(v, FALSE) /\ UNCHANGED <<prog, image, tree, leaked>> /\ FALSE \in BOOLEAN
    BY <1>2 DEF DiskCfgMountRoots
  <2> QED BY <2>1, MountKeeps, MoreMounts
<1>3. ASSUME NEW v \in Volume, CmdUnmount(v) PROVE VfsInv' /\ UnmountLeaves
  BY <1>3, CmdUnmountKeeps
<1>4. ASSUME NEW v \in Volume, DiskCfgTemporary(v) PROVE VfsInv' /\ UnmountLeaves
  <2>1. UNCHANGED mounts
    BY <1>4 DEF DiskCfgTemporary
  <2> QED BY <1>4, <2>1, TemporaryKeeps, SameMounts
<1>5. ASSUME IsoMountFromFile PROVE VfsInv' /\ UnmountLeaves
  BY <1>5, IsoMountKeeps, MoreMounts
<1>6. ASSUME CmdRun PROVE VfsInv' /\ UnmountLeaves
  <2>1. UNCHANGED mounts
    BY <1>6 DEF CmdRun
  <2> QED BY <1>6, <2>1, RunKeeps, SameMounts
<1>7. ASSUME NEW v \in Volume, SysUmount2(v) PROVE VfsInv' /\ UnmountLeaves
  BY <1>7, SysUmountKeeps
<1>8. ASSUME NEW b \in SyscallResolveDirBase, NEW p \in PathName, SysOpenAt(b, p)
      PROVE  VfsInv' /\ UnmountLeaves
  <2>1. UNCHANGED mounts
    BY <1>8 DEF SysOpenAt
  <2> QED BY <1>8, <2>1, OpenKeeps, SameMounts
<1>9. ASSUME NEW p \in PathName, SysChdir(p) PROVE VfsInv' /\ UnmountLeaves
  <2>1. UNCHANGED mounts
    BY <1>9 DEF SysChdir, ChangeDir
  <2> QED BY <1>9, <2>1, ChdirKeeps, SameMounts
<1>10. ASSUME NEW b \in SyscallResolveDirBase, VfsOpenCreate(b) PROVE VfsInv' /\ UnmountLeaves
  <2>1. UNCHANGED mounts
    BY <1>10 DEF VfsOpenCreate
  <2> QED BY <1>10, <2>1, CreateOpenKeeps, SameMounts
<1>11. ASSUME NEW f \in Fd, SysClose(f) PROVE VfsInv' /\ UnmountLeaves
  <2>1. UNCHANGED mounts
    BY <1>11 DEF SysClose
  <2> QED BY <1>11, <2>1, CloseKeeps, SameMounts
<1>12. ASSUME NEW f \in Fd, SysFchdir(f) PROVE VfsInv' /\ UnmountLeaves
  <2>1. UNCHANGED mounts
    BY <1>12 DEF SysFchdir, ChangeDir
  <2> QED BY <1>12, <2>1, FchdirKeeps, SameMounts
<1>13. ASSUME NEW b \in SyscallResolveDirBase, SysNewFstatAt(b) PROVE VfsInv' /\ UnmountLeaves
  <2>1. UNCHANGED mounts
    BY <1>13 DEF SysNewFstatAt
  <2> QED BY <1>13, <2>1, StatKeeps, SameMounts
<1>14. ASSUME NEW b \in SyscallResolveDirBase, NEW n \in {"dir", "file"}, VfsCreate(b, n) \/ VfsUnlink(b, n)
       PROVE  VfsInv' /\ UnmountLeaves
  <2>1. UNCHANGED mounts
    BY <1>14 DEF VfsCreate, VfsUnlink
  <2> QED BY <1>14, <2>1, TreeKeeps, SameMounts
<1>15. ASSUME ProgramEnds PROVE VfsInv' /\ UnmountLeaves
  <2>1. UNCHANGED mounts
    BY <1>15 DEF ProgramEnds
  <2> QED BY <1>15, <2>1, EndKeeps, SameMounts
<1>16. CASE Shell
  BY <1>1, <1>2, <1>3, <1>4, <1>5, <1>6, <1>16 DEF Shell
<1>17. CASE Program
  BY <1>7, <1>8, <1>9, <1>10, <1>11, <1>12, <1>13, <1>14, <1>15, <1>17 DEF Program
<1> QED BY <1>16, <1>17 DEF VfsNext

LEMMA VfsStutter ==
  ASSUME VfsInv, UNCHANGED vfsVars
  PROVE  VfsInv'
<1>1. /\ mounts' = mounts /\ inode' = inode /\ cwd' = cwd /\ drive' = drive /\ prog' = prog
      /\ image' = image /\ leaked' = leaked /\ stuck' = stuck
  BY DEF vfsVars
<1>2. Now' = Now /\ Mounted' = Mounted
  BY <1>1 DEF Now, Mounted
<1> QED BY <1>1, <1>2 DEF VfsInv

(* The invariant says what the property does, holder by holder.                *)
LEMMA VfsSound ==
  ASSUME VfsAssumption, VfsInv
  PROVE  InodesSound
<1> DEFINE R == Rest(mounts, prog.fds, leaked)
<1>1. /\ Table(inode) /\ Due(inode, Now) /\ Now \in Counts /\ R \in Counts /\ Mounts(mounts)
      /\ prog.fds \in Files /\ leaked \in Lost /\ prog.cwd \in Held
      /\ Now = OuterOf(R, cwd, prog.cwd, image)
  BY InvIs
<1>2. VfsTypeOK
  <2>1. \A m \in Members(mounts) : m \in MountRec
    BY <1>1 DEF Members, Mounts
  <2>2. \A m \in Members(mounts) : m.vol \in Volume /\ m.root \in Inode
    BY <2>1 DEF MountRec
  <2>3. \A i \in Inode : /\ inode[i].ref \in Nat /\ inode[i].node \in Node
                        /\ inode[i].pin \in Inode \cup {None}
    BY <1>1 DEF Table, InodeRec
  <2>4. prog.cwd \in Inode \cup {NsRoot, None} /\ \A f \in Fd : prog.fds[f] \in Inode \cup {NsRoot, None}
    BY <1>1 DEF Files, Held
  <2> QED BY <2>2, <2>3, <2>4 DEF VfsTypeOK, VfsInv
<1>3. ASSUME NEW i \in Inode PROVE inode[i].ref = Holders(i)
  <2> DEFINE m == Cardinality(At(mounts, i))
             o == Cardinality(OpenAs(prog.fds, i))
             c1 == IF cwd = i THEN 1 ELSE 0
             c2 == IF prog.cwd = i THEN 1 ELSE 0
             c3 == IF image = i THEN 1 ELSE 0
  <2>1. m \in Nat /\ o \in Nat /\ leaked[i] \in Nat /\ R[i] = m + o + leaked[i]
    BY <1>1, RestIs
  <2>2. Holders(i) = m + c1 + c2 + o + c3 + Pins(inode, i) + leaked[i]
    BY DEF Holders, At, OpenAs, Pins, Pinning
  <2>3. Now[i] = R[i] + c1 + c2 + c3
    <3>1. Plus(R, cwd) \in Counts /\ Plus(R, cwd)[i] = R[i] + c1
      BY <1>1, PlusIs
    <3> HIDE DEF c1, R
    <3>2. Plus(Plus(R, cwd), prog.cwd) \in Counts /\ Plus(Plus(R, cwd), prog.cwd)[i] = R[i] + c1 + c2
      BY <3>1, PlusIs
    <3> HIDE DEF c2
    <3>3. Plus(Plus(Plus(R, cwd), prog.cwd), image)[i] = R[i] + c1 + c2 + c3
      BY <3>2, PlusIs
    <3> QED BY <1>1, <3>3 DEF OuterOf
  <2>4. c1 \in Nat /\ c2 \in Nat /\ c3 \in Nat /\ Pins(inode, i) \in Nat
    BY PinsFinite
  <2>5. inode[i].ref = Now[i] + Pins(inode, i)
    BY <1>1 DEF Due
  <2> HIDE DEF m, o, c1, c2, c3, R
  <2> QED BY <2>1, <2>2, <2>3, <2>4, <2>5
<1> QED BY <1>2, <1>3 DEF InodesSound, InodeRefsExact

(* Whatever is mounted, walked to, opened, changed to and closed, in any order *)
(* and along any paths, every inode has as many references as it has holders.  *)
THEOREM InodesSoundAlways == VfsAssumption => (VfsSpec => []InodesSound)
<1> SUFFICES ASSUME VfsAssumption PROVE VfsSpec => []InodesSound
  OBVIOUS
<1>1. VfsInit => VfsInv
  BY VfsStarts
<1>2. VfsInv /\ [VfsNext]_vfsVars => VfsInv'
  BY VfsStep, VfsStutter
<1>3. VfsInv => InodesSound
  BY VfsSound
<1> QED BY <1>1, <1>2, <1>3, PTL DEF VfsSpec

(* No unmount leaves the shell in a directory of the volume it takes away.     *)
THEOREM UnmountLeavesCwdAlways == VfsAssumption => (VfsSpec => UnmountLeavesCwd)
<1> SUFFICES ASSUME VfsAssumption PROVE VfsSpec => UnmountLeavesCwd
  OBVIOUS
<1>1. VfsInit => VfsInv
  BY VfsStarts
<1>2. VfsInv /\ [VfsNext]_vfsVars => VfsInv'
  BY VfsStep, VfsStutter
<1>3. VfsInv /\ [VfsNext]_vfsVars =>
        [\A v \in Volume : v \in Mounted /\ v \notin Mounted' =>
           cwd' = NsRoot \/ inode'[cwd'].vol # v]_vfsVars
  BY VfsStep DEF UnmountLeaves
<1> QED BY <1>1, <1>2, <1>3, PTL DEF VfsSpec, UnmountLeavesCwd
=============================================================================

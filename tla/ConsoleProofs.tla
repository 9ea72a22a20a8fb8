----------------------------- MODULE ConsoleProofs -----------------------------
(* Kernel objects, for any number of tasks and handles: RefCount is exact, no  *)
(* task is left with a removed object, no handle allows what its object does   *)
(* not.  The console's ring, of any size: every byte once and in order.  The   *)
(* queue of key events, of any size: what was accepted is handled once and in  *)
(* order, and kconsole announces its sleep over an empty ring only.            *)
EXTENDS StdIo, KeyQueue, FiniteSetTheorems, TLAPS

Held == [Task -> [Slot -> Obj \cup {NoObj}]]
Put(hs, t, s, o) == [hs EXCEPT ![t][s] = o]
PutAll(hs, t, slots) == [hs EXCEPT ![t] = slots]
------------------------------------------------------------------------------
(* Counting the holders of an object. *)
LEMMA SlotsFinite == IsFiniteSet(Slot) /\ IsFiniteSet(Task \X Slot)
<1>1. \A x, y : IsFiniteSet({x, y})
  <2> SUFFICES ASSUME NEW x, NEW y PROVE IsFiniteSet({x, y})
    OBVIOUS
  <2>1. {x, y} = {x} \cup {y}
    OBVIOUS
  <2>2. IsFiniteSet({x})
    BY FS_Singleton
  <2>3. IsFiniteSet({x} \cup {y})
    BY <2>2, FS_AddElement
  <2> QED BY <2>1, <2>3
<1>2. IsFiniteSet(Task)
  BY <1>1, KObjAssumption, FS_Union DEF Task
<1>3. IsFiniteSet(Out)
  <2>1. Out = {"stdout", "stderr"} \cup {"stdwarn"}
    BY DEF Out
  <2> QED BY <1>1, <2>1, FS_AddElement
<1>4. IsFiniteSet(Handle \cup Out)
  BY <1>3, KObjAssumption, FS_Union
<1>5. IsFiniteSet((Handle \cup Out) \cup Fd)
  BY <1>1, <1>4, FS_Union DEF Fd
<1>6. IsFiniteSet(Slot)
  BY <1>5, FS_AddElement DEF Slot
<1> QED BY <1>2, <1>6, FS_Product

LEMMA HoldersFinite ==
  ASSUME NEW hs, NEW o
  PROVE  /\ IsFiniteSet(Holders(hs, o))
         /\ Cardinality(Holders(hs, o)) \in Nat
BY SlotsFinite, FS_Subset, FS_CardinalityType, Holders(hs, o) \subseteq Task \X Slot DEF Holders

LEMMA OneMore ==
  ASSUME NEW hs \in Held, NEW t \in Task, NEW s \in Slot, NEW o \in Obj, NEW p \in Obj,
         hs[t][s] = NoObj, NEW hs2, hs2 = Put(hs, t, s, o)
  PROVE  /\ p = o => Cardinality(Holders(hs2, p)) = Cardinality(Holders(hs, p)) + 1
         /\ p # o => Cardinality(Holders(hs2, p)) = Cardinality(Holders(hs, p))
<1>1. NoObj \notin Obj
  BY PathAssumption
<1>2. CASE p = o
  <2>1. Holders(hs2, p) = Holders(hs, p) \cup {<<t, s>>}
    BY <1>2 DEF Holders, Held, Put
  <2>2. <<t, s>> \notin Holders(hs, p)
    BY <1>1 DEF Holders
  <2> QED BY <1>2, <2>1, <2>2, HoldersFinite, FS_AddElement
<1>3. CASE p # o
  <2>1. Holders(hs2, p) = Holders(hs, p)
    BY <1>1, <1>3 DEF Holders, Held, Put
  <2> QED BY <1>3, <2>1, HoldersFinite
<1> QED BY <1>2, <1>3

LEMMA OneLess ==
  ASSUME NEW hs \in Held, NEW t \in Task, NEW s \in Slot, NEW p \in Obj,
         hs[t][s] # NoObj, NEW hs2, hs2 = Put(hs, t, s, NoObj)
  PROVE  /\ p = hs[t][s] => Cardinality(Holders(hs2, p)) = Cardinality(Holders(hs, p)) - 1
         /\ p # hs[t][s] => Cardinality(Holders(hs2, p)) = Cardinality(Holders(hs, p))
<1>1. NoObj \notin Obj
  BY PathAssumption
<1>2. CASE p = hs[t][s]
  <2>1. Holders(hs2, p) = Holders(hs, p) \ {<<t, s>>}
    BY <1>1, <1>2 DEF Holders, Held, Put
  <2>2. <<t, s>> \in Holders(hs, p)
    BY <1>2 DEF Holders
  <2> DEFINE H == Holders(hs, p)
  <2>3. IsFiniteSet(H)
    BY HoldersFinite
  <2> HIDE DEF H
  <2>4. Cardinality(H \ {<<t, s>>}) = Cardinality(H) - 1
    BY <2>2, <2>3, FS_RemoveElement DEF H
  <2> QED BY <1>2, <2>1, <2>4 DEF H
<1>3. CASE p # hs[t][s]
  <2>1. Holders(hs2, p) = Holders(hs, p)
    BY <1>1, <1>3 DEF Holders, Held, Put
  <2> QED BY <1>3, <2>1, HoldersFinite
<1> QED BY <1>2, <1>3

LEMMA ManyMore ==
  ASSUME NEW hs \in Held, NEW t \in Task, NEW slots \in [Slot -> Obj \cup {NoObj}], NEW p \in Obj,
         hs[t] = Empty, NEW hs2, hs2 = PutAll(hs, t, slots)
  PROVE  Cardinality(Holders(hs2, p)) = Cardinality(Holders(hs, p)) + Cardinality({s \in Slot : slots[s] = p})
<1> DEFINE S == {s \in Slot : slots[s] = p}
           T == {t} \X S
           f == [s \in S |-> <<t, s>>]
<1>1. NoObj \notin Obj
  BY PathAssumption
<1>2. Holders(hs2, p) = Holders(hs, p) \cup T
  BY <1>1 DEF Holders, Held, PutAll, Empty
<1>3. Holders(hs, p) \cap T = {}
  BY <1>1 DEF Holders, Empty
<1>4. IsFiniteSet(S) /\ Cardinality(S) \in Nat
  BY SlotsFinite, FS_Subset, FS_CardinalityType
<1>5. IsFiniteSet(T) /\ Cardinality(T) = Cardinality(S)
  <2>1. f \in Bijection(S, T)
    <3>1. f \in [S -> T]
      OBVIOUS
    <3>2. \A a, b \in S : f[a] = f[b] => a = b
      OBVIOUS
    <3>3. \A y \in T : \E x \in S : f[x] = y
      OBVIOUS
    <3> HIDE DEF f, S, T
    <3> QED BY <3>1, <3>2, <3>3 DEF Bijection, Injection, Surjection, IsInjective
  <2> QED BY <1>4, <2>1, FS_Bijection DEF ExistsBijection
<1>6. Cardinality(Holders(hs, p) \cap T) = 0
  BY <1>3, FS_EmptySet
<1>7. Cardinality(Holders(hs, p) \cup T)
        = Cardinality(Holders(hs, p)) + Cardinality(T) - Cardinality(Holders(hs, p) \cap T)
  BY <1>5, HoldersFinite, FS_Union
<1> HIDE DEF T, S
<1>8. Cardinality(Holders(hs2, p)) = Cardinality(Holders(hs, p)) + Cardinality(S)
  <2>1. Cardinality(Holders(hs2, p)) = Cardinality(Holders(hs, p)) + Cardinality(T) - 0
    BY <1>2, <1>6, <1>7, Zenon
  <2> QED BY <2>1, <1>4, <1>5, HoldersFinite
<1> QED BY <1>8 DEF S
------------------------------------------------------------------------------
(* The references that are not a task's, from what is in the tree. *)
LEMMA TreeRefs ==
  ASSUME NEW os
  PROVE  /\ \A o \in {"Basecon", "Null", "Zero"} : ChildRefs(os, o) = 0
         /\ ChildRefs(os, "Kernel") = IF "Consoles" \in os.live THEN 1 ELSE 0
         /\ ChildRefs(os, "Consoles") = IF "Basecon" \in os.live THEN 1 ELSE 0
         /\ {"Null", "Zero"} \subseteq os.live => ChildRefs(os, "Device") = 2
         /\ "Null" \in os.live /\ "Zero" \notin os.live => ChildRefs(os, "Device") = 1
         /\ "Zero" \in os.live /\ "Null" \notin os.live => ChildRefs(os, "Device") = 1
         /\ {"Null", "Zero"} \cap os.live = {} => ChildRefs(os, "Device") = 0
<1> DEFINE C(o) == {c \in Child \cap os.live : Parent[c] = o}
<1>1. \A x : Cardinality({x}) = 1 /\ Cardinality({}) = 0
  BY FS_Singleton, FS_EmptySet
<1>2. Cardinality({"Null"} \cup {"Zero"}) = 2
  <2>1. IsFiniteSet({"Null"}) /\ Cardinality({"Null"}) = 1
    BY FS_Singleton
  <2>2. "Zero" \notin {"Null"}
    OBVIOUS
  <2>3. Cardinality({"Null"} \cup {"Zero"}) = Cardinality({"Null"}) + 1
    BY <2>1, <2>2, FS_AddElement
  <2> QED BY <2>1, <2>3
<1>3. C("Kernel") = IF "Consoles" \in os.live THEN {"Consoles"} ELSE {}
  BY DEF Child, Parent
<1>4. C("Consoles") = IF "Basecon" \in os.live THEN {"Basecon"} ELSE {}
  BY DEF Child, Parent
<1>5. /\ {"Null", "Zero"} \subseteq os.live => C("Device") = {"Null"} \cup {"Zero"}
      /\ "Null" \in os.live /\ "Zero" \notin os.live => C("Device") = {"Null"}
      /\ "Zero" \in os.live /\ "Null" \notin os.live => C("Device") = {"Zero"}
      /\ {"Null", "Zero"} \cap os.live = {} => C("Device") = {}
  BY DEF Child, Parent
<1>6. \A o \in {"Basecon", "Null", "Zero"} : C(o) = {}
  BY DEF Child, Parent
<1>7. \A o : ChildRefs(os, o) = Cardinality(C(o))
  BY DEF ChildRefs
<1> HIDE DEF C
<1>8. \A o \in {"Basecon", "Null", "Zero"} : ChildRefs(os, o) = 0
  BY <1>1, <1>6, <1>7
<1>9. ChildRefs(os, "Kernel") = IF "Consoles" \in os.live THEN 1 ELSE 0
  BY <1>1, <1>3, <1>7
<1>10. ChildRefs(os, "Consoles") = IF "Basecon" \in os.live THEN 1 ELSE 0
  BY <1>1, <1>4, <1>7
<1>11. /\ {"Null", "Zero"} \subseteq os.live => ChildRefs(os, "Device") = 2
       /\ "Null" \in os.live /\ "Zero" \notin os.live => ChildRefs(os, "Device") = 1
       /\ "Zero" \in os.live /\ "Null" \notin os.live => ChildRefs(os, "Device") = 1
       /\ {"Null", "Zero"} \cap os.live = {} => ChildRefs(os, "Device") = 0
  BY <1>1, <1>2, <1>5, <1>7
<1> QED BY <1>8, <1>9, <1>10, <1>11

(* The inductive invariant: how far the boot has come, and when a task's slots *)
(* are empty.                                                                  *)
LiveAt == [b \in {"KObjInit", "StdIoInit", "KObjInitNull", "KObjInitZero", "SchedulerInit", "run"} |->
  CASE b = "KObjInit" -> {}
    [] b = "StdIoInit" -> {"Root"}
    [] b = "KObjInitNull" -> {"Root", "Kernel", "Consoles", "Basecon"}
    [] b = "KObjInitZero" -> {"Root", "Kernel", "Consoles", "Basecon", "Device", "Null"}
    [] OTHER -> Obj]

BootOK ==
  /\ objs.live = LiveAt[boot]
  /\ boot # "run" => \A t \in Task : tstate[t] = "new" /\ pc[t] = "idle"

SlotsOK ==
  \A t \in Task :
    /\ tstate[t] \in {"new", "freed"} => held[t] = Empty
    /\ pc[t] # "idle" => held[t]["hand"] # NoObj /\ tstate[t] = "running"
    /\ t # KConsoleOut /\ pc[t] = "idle" => held[t]["hand"] = NoObj

RefInv == ObjTypeOK /\ RefsExact /\ BootOK /\ SlotsOK

LEMMA RefInvInit == IoInit => RefInv
<1> SUFFICES ASSUME IoInit PROVE RefInv
  OBVIOUS
<1> USE DEF IoInit, Init
<1>1. ObjTypeOK
  BY DEF ObjTypeOK, Empty, Access
<1>2. \A o \in Child : Holders(held, o) = {}
  BY PathAssumption DEF Holders, Empty, Obj
<1>3. \A o \in Child : GlobalRefs(objs, o) = 0 /\ ChildRefs(objs, o) = 0
  BY TreeRefs DEF GlobalRefs, Child
<1>4. RefsExact
  <2>1. \A o \in Child : Cardinality(Holders(held, o)) = 0
    BY <1>2, FS_EmptySet
  <2>2. \A o \in Child : objs.refs[o] = 0
    BY DEF Obj
  <2> HIDE DEF IoInit, Init
  <2> QED BY <1>3, <2>1, <2>2 DEF RefsExact
<1>5. BootOK /\ SlotsOK
  BY DEF BootOK, SlotsOK, LiveAt, Empty, Slot
<1> QED BY <1>1, <1>4, <1>5 DEF RefInv
------------------------------------------------------------------------------
(* One reference more, one less. *)
LEMMA SameTree ==
  ASSUME NEW os1, NEW os2, os1.live = os2.live, NEW o
  PROVE  GlobalRefs(os1, o) = GlobalRefs(os2, o) /\ ChildRefs(os1, o) = ChildRefs(os2, o)
BY DEF GlobalRefs, ChildRefs

LEMMA TreeRefsNat ==
  ASSUME NEW os, NEW o \in Child
  PROVE  /\ GlobalRefs(os, o) \in Nat /\ ChildRefs(os, o) \in Nat
         /\ os.live = Obj => GlobalRefs(os, o) + ChildRefs(os, o) >= 1
<1>1. GlobalRefs(os, o) \in Nat
  BY DEF GlobalRefs
<1>2. ChildRefs(os, o) \in Nat
  BY TreeRefs DEF Child
<1>3. ASSUME os.live = Obj PROVE GlobalRefs(os, o) + ChildRefs(os, o) >= 1
  <2>1. CASE o \in {"Basecon", "Null", "Zero"}
    <3>1. GlobalRefs(os, o) = 1
      BY <1>3, <2>1 DEF GlobalRefs, Obj, Child
    <3> QED BY <1>2, <3>1
  <2>2. CASE o \in {"Kernel", "Consoles", "Device"}
    <3>1. ChildRefs(os, o) >= 1
      BY <1>3, <2>2, TreeRefs DEF Obj, Child
    <3> QED BY <1>1, <1>2, <3>1
  <2> QED BY <2>1, <2>2 DEF Child
<1> QED BY <1>1, <1>2, <1>3

ObjsTyped == objs \in [live : SUBSET Obj, refs : [Obj -> Nat]] /\ held \in Held

LEMMA TakeOne ==
  ASSUME ObjsTyped, RefsExact,
         NEW t \in Task, NEW s \in Slot, NEW o \in Obj, held[t][s] = NoObj,
         objs' = Ref(objs, o), held' = Put(held, t, s, o)
  PROVE  RefsExact' /\ ObjsTyped' /\ objs'.live = objs.live
<1>1. objs'.live = objs.live /\ ObjsTyped'
  BY DEF ObjsTyped, Ref, Held, Put
<1>2. ASSUME NEW p \in Child
      PROVE  objs'.refs[p] = GlobalRefs(objs', p) + ChildRefs(objs', p) + Cardinality(Holders(held', p))
  <2>1. p \in Obj
    BY DEF Obj
  <2>2. /\ p = o => Cardinality(Holders(held', p)) = Cardinality(Holders(held, p)) + 1
        /\ p # o => Cardinality(Holders(held', p)) = Cardinality(Holders(held, p))
    <3>1. held \in Held
      BY DEF ObjsTyped
    <3> QED BY <2>1, <3>1, OneMore
  <2>3. objs'.refs[p] = objs.refs[p] + IF p = o THEN 1 ELSE 0
    BY <2>1 DEF ObjsTyped, Ref
  <2>4. objs.refs[p] = GlobalRefs(objs, p) + ChildRefs(objs, p) + Cardinality(Holders(held, p))
    BY DEF RefsExact
  <2>5. GlobalRefs(objs', p) = GlobalRefs(objs, p) /\ ChildRefs(objs', p) = ChildRefs(objs, p)
    BY <1>1, SameTree
  <2> QED BY <2>2, <2>3, <2>4, <2>5, TreeRefsNat, HoldersFinite
<1> QED BY <1>1, <1>2 DEF RefsExact

LEMMA DropOne ==
  ASSUME ObjsTyped, RefsExact, objs.live = Obj,
         NEW t \in Task, NEW s \in Slot, held[t][s] # NoObj,
         objs' = Unref(objs, held[t][s]), held' = Put(held, t, s, NoObj)
  PROVE  RefsExact' /\ ObjsTyped' /\ objs'.live = objs.live
<1> DEFINE o == held[t][s]
<1>1. o \in Obj
  BY DEF ObjsTyped, Held
<1>2. ASSUME o \in Child PROVE objs.refs[o] \in Nat /\ objs.refs[o] >= 2
  <2>1. Cardinality(Holders(held, o)) # 0
    <3>1. <<t, s>> \in Holders(held, o)
      BY DEF Holders
    <3> QED BY <3>1, HoldersFinite, FS_EmptySet
  <2>2. objs.refs[o] = GlobalRefs(objs, o) + ChildRefs(objs, o) + Cardinality(Holders(held, o))
    BY <1>2 DEF RefsExact
  <2> QED BY <1>2, <2>1, <2>2, TreeRefsNat, HoldersFinite
<1>3. objs'.live = objs.live
  BY <1>1, <1>2 DEF Unref, Obj
<1>4. \A p \in Child : objs'.refs[p] = objs.refs[p] - IF p = o THEN 1 ELSE 0
  BY <1>1 DEF Unref, Obj, Child, ObjsTyped
<1>5. ObjsTyped'
  <2>1. held' \in Held
    BY DEF ObjsTyped, Held, Put
  <2>2. CASE o = "Root"
    BY <2>1, <2>2 DEF Unref, ObjsTyped
  <2>3. CASE o \in Child
    <3>1. objs' = [live |-> objs'.live, refs |-> [objs.refs EXCEPT ![o] = @ - 1]]
      BY <2>3 DEF Unref, Child
    <3>2. objs.refs \in [Obj -> Nat] /\ objs.live \in SUBSET Obj
      BY DEF ObjsTyped
    <3>3. objs.refs[o] - 1 \in Nat
      BY <1>2, <2>3
    <3>4. [objs.refs EXCEPT ![o] = @ - 1] \in [Obj -> Nat]
      BY <1>1, <3>2, <3>3, Zenon
    <3> QED BY <1>3, <2>1, <3>1, <3>2, <3>4 DEF ObjsTyped
  <2> QED BY <1>1, <2>2, <2>3 DEF Obj
<1>6. ASSUME NEW p \in Child
      PROVE  objs'.refs[p] = GlobalRefs(objs', p) + ChildRefs(objs', p) + Cardinality(Holders(held', p))
  <2>1. p \in Obj
    BY DEF Obj
  <2>2. /\ p = o => Cardinality(Holders(held', p)) = Cardinality(Holders(held, p)) - 1
        /\ p # o => Cardinality(Holders(held', p)) = Cardinality(Holders(held, p))
    <3>1. held \in Held
      BY DEF ObjsTyped
    <3> QED BY <2>1, <3>1, OneLess
  <2>3. objs.refs[p] = GlobalRefs(objs, p) + ChildRefs(objs, p) + Cardinality(Holders(held, p))
    BY DEF RefsExact
  <2>4. GlobalRefs(objs', p) = GlobalRefs(objs, p) /\ ChildRefs(objs', p) = ChildRefs(objs, p)
    BY <1>3, SameTree
  <2> QED BY <1>4, <2>2, <2>3, <2>4, TreeRefsNat, HoldersFinite
<1> QED BY <1>3, <1>5, <1>6 DEF RefsExact
------------------------------------------------------------------------------
(* The boot. *)
Typed(os) == os \in [live : SUBSET Obj, refs : [Obj -> Nat]]

LEMMA Creates ==
  ASSUME NEW os, Typed(os), NEW o \in Child, o \notin os.live,
         NEW os2, os2 = KObjCreate(os, o)
  PROVE  /\ Typed(os2) /\ os2.live = os.live \cup {o}
         /\ os2.refs[o] = 1 /\ os2.refs[Parent[o]] = os.refs[Parent[o]] + 1
         /\ \A p \in Obj \ {o, Parent[o]} : os2.refs[p] = os.refs[p]
<1>1. Parent[o] \in Obj \ {o} /\ o \in Obj
  BY DEF Parent, Child, Obj
<1>2. os2 = [live |-> os.live \cup {o}, refs |-> [os.refs EXCEPT ![o] = 1, ![Parent[o]] = @ + 1]]
  BY DEF KObjCreate
<1>3. os.live \subseteq Obj /\ os.refs \in [Obj -> Nat]
  BY DEF Typed
<1>4. [os.refs EXCEPT ![o] = 1, ![Parent[o]] = @ + 1] \in [Obj -> Nat]
  BY <1>1, <1>3
<1>5. Typed(os2)
  BY <1>1, <1>2, <1>3, <1>4 DEF Typed
<1> QED BY <1>1, <1>2, <1>3, <1>5

LEMMA Refs ==
  ASSUME NEW os, Typed(os), NEW o \in Obj, NEW os2, os2 = Ref(os, o)
  PROVE  /\ Typed(os2) /\ os2.live = os.live /\ os2.refs[o] = os.refs[o] + 1
         /\ \A p \in Obj \ {o} : os2.refs[p] = os.refs[p]
BY DEF Typed, Ref

LEMMA Unrefs ==
  ASSUME NEW os, Typed(os), NEW o \in Child, os.refs[o] >= 2, NEW os2, os2 = Unref(os, o)
  PROVE  /\ Typed(os2) /\ os2.live = os.live /\ os2.refs[o] = os.refs[o] - 1
         /\ \A p \in Obj \ {o} : os2.refs[p] = os.refs[p]
<1>1. o \in Obj /\ o # "Root"
  BY DEF Obj, Child
<1>2. os.refs \in [Obj -> Nat] /\ os.live \subseteq Obj
  BY DEF Typed
<1>3. os.refs[o] - 1 \in Nat /\ os.refs[o] # 1
  BY <1>1, <1>2
<1>4. os2 = [live |-> os.live, refs |-> [os.refs EXCEPT ![o] = @ - 1]]
  BY <1>1, <1>3 DEF Unref
<1>5. [os.refs EXCEPT ![o] = @ - 1] \in [Obj -> Nat]
  BY <1>1, <1>2, <1>3, Zenon
<1>6. Typed(os2)
  BY <1>2, <1>4, <1>5 DEF Typed
<1> QED BY <1>1, <1>2, <1>4, <1>6

(* Before the tasks run, the tree is all that holds references. *)
LEMMA BootRefs ==
  ASSUME RefInv, boot # "run", NEW o \in Child
  PROVE  /\ Cardinality(Holders(held, o)) = 0
         /\ objs.refs[o] = GlobalRefs(objs, o) + ChildRefs(objs, o)
<1>1. \A t \in Task : held[t] = Empty
  BY DEF RefInv, BootOK, SlotsOK
<1>2. Holders(held, o) = {}
  BY <1>1, PathAssumption DEF Holders, Empty, Obj
<1>3. Cardinality(Holders(held, o)) = 0
  BY <1>2, FS_EmptySet
<1>4. objs.refs[o] = GlobalRefs(objs, o) + ChildRefs(objs, o) + Cardinality(Holders(held, o))
  BY DEF RefInv, RefsExact
<1> QED BY <1>3, <1>4, TreeRefsNat

(* A step of the boot need only get the tree right. *)
LEMMA BootStep ==
  ASSUME RefInv, boot # "run", boot' \in DOMAIN LiveAt, boot' # "run",
         UNCHANGED <<tstate, held, access, pc>>, Typed(objs'), objs'.live = LiveAt[boot'],
         \A o \in Child : objs'.refs[o] = GlobalRefs(objs', o) + ChildRefs(objs', o)
  PROVE  RefInv'
<1>1. ObjTypeOK'
  BY DEF RefInv, ObjTypeOK, Typed, LiveAt
<1>2. ASSUME NEW o \in Child
      PROVE  objs'.refs[o] = GlobalRefs(objs', o) + ChildRefs(objs', o) + Cardinality(Holders(held', o))
  BY BootRefs, TreeRefsNat
<1>3. BootOK'
  BY DEF RefInv, BootOK
<1>4. SlotsOK'
  BY DEF RefInv, SlotsOK
<1> QED BY <1>1, <1>2, <1>3, <1>4 DEF RefInv, RefsExact

LEMMA KObjInitStep == RefInv /\ KObjInit => RefInv'
<1> SUFFICES ASSUME RefInv, KObjInit PROVE RefInv'
  OBVIOUS
<1>1. Typed(objs) /\ objs.live = {} /\ "Root" \in Obj
  BY DEF RefInv, ObjTypeOK, Typed, BootOK, LiveAt, KObjInit, Obj
<1>2. objs' = [live |-> {"Root"}, refs |-> [objs.refs EXCEPT !["Root"] = 1]]
  BY DEF KObjInit
<1>3. Typed(objs') /\ objs'.live = {"Root"}
  BY <1>1, <1>2 DEF Typed
<1>4. ASSUME NEW o \in Child PROVE objs'.refs[o] = GlobalRefs(objs', o) + ChildRefs(objs', o)
  <2>1. objs'.refs[o] = objs.refs[o]
    BY <1>1, <1>2 DEF Typed, Child, Obj
  <2>2. /\ GlobalRefs(objs, o) = 0 /\ ChildRefs(objs, o) = 0
        /\ GlobalRefs(objs', o) = 0 /\ ChildRefs(objs', o) = 0
    BY <1>1, <1>3, TreeRefs DEF GlobalRefs, Child
  <2>3. boot # "run"
    BY DEF KObjInit
  <2> QED BY <2>1, <2>2, <2>3, BootRefs
<1> QED BY <1>3, <1>4, BootStep DEF KObjInit, LiveAt

LEMMA StdIoInitStep == RefInv /\ StdIoInit => RefInv'
<1> SUFFICES ASSUME RefInv, StdIoInit PROVE RefInv'
  OBVIOUS
<1> DEFINE os1 == KObjCreate(objs, "Kernel")
           os2 == KObjCreate(os1, "Consoles")
           os3 == Unref(os2, "Kernel")
           os4 == KObjCreate(os3, "Basecon")
           os5 == Unref(os4, "Consoles")
<1>1. Typed(objs) /\ objs.live = {"Root"} /\ boot # "run"
  BY DEF RefInv, ObjTypeOK, Typed, BootOK, LiveAt, StdIoInit
<1>2. /\ Parent["Kernel"] = "Root" /\ Parent["Consoles"] = "Kernel" /\ Parent["Basecon"] = "Consoles"
      /\ {"Kernel", "Consoles", "Basecon", "Device", "Null", "Zero"} \subseteq Obj
  BY DEF Parent, Child, Obj
<1>3. objs' = os5
  <2>1. objs' = CreateIn(EnsureConsolesDir(objs), "Basecon")
    BY DEF StdIoInit
  <2>2. EnsureDir(objs, "Kernel") = os1 /\ "Consoles" \notin os1.live
    BY <1>1, Creates DEF EnsureDir, Child
  <2>3. EnsureConsolesDir(objs) = os3
    BY <2>2 DEF EnsureConsolesDir, EnsureDir
  <2> QED BY <1>2, <2>1, <2>3 DEF CreateIn
<1> HIDE DEF os5
<1>4. /\ Typed(os1) /\ os1.live = {"Root", "Kernel"} /\ os1.refs["Kernel"] = 1
  BY <1>1, Creates DEF Child
<1> HIDE DEF os1
<1>5. /\ Typed(os2) /\ os2.live = {"Root", "Kernel", "Consoles"}
      /\ os2.refs["Kernel"] = 2 /\ os2.refs["Consoles"] = 1
  BY <1>2, <1>4, Creates DEF Child
<1> HIDE DEF os2
<1>6. /\ Typed(os3) /\ os3.live = {"Root", "Kernel", "Consoles"}
      /\ os3.refs["Kernel"] = 1 /\ os3.refs["Consoles"] = 1
  BY <1>2, <1>5, Unrefs DEF Child
<1> HIDE DEF os3
<1>7. /\ Typed(os4) /\ os4.live = {"Root", "Kernel", "Consoles", "Basecon"}
      /\ os4.refs["Kernel"] = 1 /\ os4.refs["Consoles"] = 2 /\ os4.refs["Basecon"] = 1
  BY <1>2, <1>6, Creates DEF Child
<1> HIDE DEF os4
<1>8. /\ Typed(os5) /\ os5.live = {"Root", "Kernel", "Consoles", "Basecon"}
      /\ os5.refs["Kernel"] = 1 /\ os5.refs["Consoles"] = 1 /\ os5.refs["Basecon"] = 1
  BY <1>2, <1>7, Unrefs DEF Child, os5
<1>9. \A o \in {"Device", "Null", "Zero"} : os5.refs[o] = 0
  <2> SUFFICES ASSUME NEW o \in {"Device", "Null", "Zero"} PROVE os5.refs[o] = 0
    OBVIOUS
  <2>1. objs.refs[o] = 0
    <3>1. o \in Child /\ GlobalRefs(objs, o) = 0 /\ ChildRefs(objs, o) = 0
      BY <1>1, TreeRefs DEF GlobalRefs, Child
    <3> QED BY <1>1, <3>1, BootRefs
  <2>2. os1.refs[o] = objs.refs[o]
    BY <1>1, <1>2, Creates DEF Child, os1
  <2>3. os2.refs[o] = os1.refs[o]
    BY <1>2, <1>4, Creates DEF Child, os2
  <2>4. os3.refs[o] = os2.refs[o]
    BY <1>2, <1>5, Unrefs DEF Child, os3
  <2>5. os4.refs[o] = os3.refs[o]
    BY <1>2, <1>6, Creates DEF Child, os4
  <2>6. os5.refs[o] = os4.refs[o]
    BY <1>2, <1>7, Unrefs DEF Child, os5
  <2> QED BY <2>1, <2>2, <2>3, <2>4, <2>5, <2>6
<1>10. ASSUME NEW o \in Child PROVE os5.refs[o] = GlobalRefs(os5, o) + ChildRefs(os5, o)
  <2>1. CASE o \in {"Kernel", "Consoles"}
    <3>1. GlobalRefs(os5, o) = 0 /\ ChildRefs(os5, o) = 1
      BY <1>8, <2>1, TreeRefs DEF GlobalRefs
    <3> QED BY <1>8, <2>1, <3>1
  <2>2. CASE o = "Basecon"
    <3>1. GlobalRefs(os5, o) = 1 /\ ChildRefs(os5, o) = 0
      BY <1>8, <2>2, TreeRefs DEF GlobalRefs
    <3> QED BY <1>8, <2>2, <3>1
  <2>3. CASE o \in {"Device", "Null", "Zero"}
    <3>1. GlobalRefs(os5, o) = 0 /\ ChildRefs(os5, o) = 0
      BY <1>8, <2>3, TreeRefs DEF GlobalRefs
    <3> QED BY <1>9, <2>3, <3>1
  <2> QED BY <2>1, <2>2, <2>3 DEF Child
<1>11. \A o \in Child : objs'.refs[o] = GlobalRefs(objs', o) + ChildRefs(objs', o)
  BY <1>3, <1>10
<1>12. Typed(objs') /\ objs'.live = LiveAt[boot']
  BY <1>3, <1>8 DEF StdIoInit, LiveAt
<1>13. boot' = "KObjInitNull" /\ UNCHANGED <<tstate, held, access, pc>>
  BY DEF StdIoInit
<1> QED BY <1>1, <1>11, <1>12, <1>13, BootStep DEF LiveAt

LEMMA KObjInitNullStep == RefInv /\ KObjInitNull => RefInv'
<1> SUFFICES ASSUME RefInv, KObjInitNull PROVE RefInv'
  OBVIOUS
<1> DEFINE os1 == KObjCreate(objs, "Device")
           os2 == KObjCreate(os1, "Null")
           os3 == Unref(os2, "Device")
           old == {"Kernel", "Consoles", "Basecon", "Zero"}
<1>1. Typed(objs) /\ objs.live = {"Root", "Kernel", "Consoles", "Basecon"} /\ boot # "run"
  BY DEF RefInv, ObjTypeOK, Typed, BootOK, LiveAt, KObjInitNull
<1>2. /\ Parent["Device"] = "Root" /\ Parent["Null"] = "Device"
      /\ {"Root", "Kernel", "Consoles", "Basecon", "Device", "Null", "Zero"} \subseteq Obj
  BY DEF Parent, Child, Obj
<1>3. objs' = os3
  BY <1>1, <1>2 DEF KObjInitNull, CreateIn, EnsureDir
<1> HIDE DEF os3
<1>4. \A o \in Child : objs.refs[o] = GlobalRefs(objs, o) + ChildRefs(objs, o)
  BY <1>1, BootRefs
<1>5. /\ Typed(os1) /\ os1.live = {"Root", "Kernel", "Consoles", "Basecon", "Device"} /\ os1.refs["Device"] = 1
      /\ \A o \in old : os1.refs[o] = objs.refs[o]
  BY <1>1, <1>2, Creates DEF Child
<1> HIDE DEF os1
<1>6. /\ Typed(os2) /\ os2.live = {"Root", "Kernel", "Consoles", "Basecon", "Device", "Null"}
      /\ os2.refs["Device"] = 2 /\ os2.refs["Null"] = 1
      /\ \A o \in old : os2.refs[o] = os1.refs[o]
  BY <1>2, <1>5, Creates DEF Child
<1> HIDE DEF os2
<1>7. /\ Typed(os3) /\ os3.live = {"Root", "Kernel", "Consoles", "Basecon", "Device", "Null"}
      /\ os3.refs["Device"] = 1 /\ os3.refs["Null"] = 1
      /\ \A o \in old : os3.refs[o] = os2.refs[o]
  BY <1>2, <1>6, Unrefs DEF Child, os3
<1>8. ASSUME NEW o \in Child PROVE os3.refs[o] = GlobalRefs(os3, o) + ChildRefs(os3, o)
  <2>1. CASE o \in old
    <3>1. GlobalRefs(os3, o) = GlobalRefs(objs, o) /\ ChildRefs(os3, o) = ChildRefs(objs, o)
      BY <1>1, <1>7, <2>1, TreeRefs DEF GlobalRefs
    <3> QED BY <1>4, <1>5, <1>6, <1>7, <2>1, <3>1
  <2>2. CASE o = "Device"
    <3>1. GlobalRefs(os3, o) = 0 /\ ChildRefs(os3, o) = 1
      BY <1>7, <2>2, TreeRefs DEF GlobalRefs
    <3> QED BY <1>7, <2>2, <3>1
  <2>3. CASE o = "Null"
    <3>1. GlobalRefs(os3, o) = 1 /\ ChildRefs(os3, o) = 0
      BY <1>7, <2>3, TreeRefs DEF GlobalRefs
    <3> QED BY <1>7, <2>3, <3>1
  <2> QED BY <2>1, <2>2, <2>3 DEF Child
<1>9. \A o \in Child : objs'.refs[o] = GlobalRefs(objs', o) + ChildRefs(objs', o)
  BY <1>3, <1>8
<1>10. boot' = "KObjInitZero" /\ UNCHANGED <<tstate, held, access, pc>>
  BY DEF KObjInitNull
<1>11. Typed(objs') /\ objs'.live = LiveAt[boot']
  BY <1>3, <1>7, <1>10 DEF LiveAt, Obj, Child
<1> QED BY <1>1, <1>9, <1>10, <1>11, BootStep DEF LiveAt

LEMMA KObjInitZeroStep == RefInv /\ KObjInitZero => RefInv'
<1> SUFFICES ASSUME RefInv, KObjInitZero PROVE RefInv'
  OBVIOUS
<1> DEFINE os1 == Ref(objs, "Device")
           os2 == KObjCreate(os1, "Zero")
           os3 == Unref(os2, "Device")
           old == {"Kernel", "Consoles", "Basecon", "Null"}
<1>1. Typed(objs) /\ objs.live = {"Root", "Kernel", "Consoles", "Basecon", "Device", "Null"} /\ boot # "run"
  BY DEF RefInv, ObjTypeOK, Typed, BootOK, LiveAt, KObjInitZero
<1>2. /\ Parent["Device"] = "Root" /\ Parent["Zero"] = "Device"
      /\ {"Root", "Kernel", "Consoles", "Basecon", "Device", "Null", "Zero"} \subseteq Obj
  BY DEF Parent, Child, Obj
<1>3. objs' = os3
  BY <1>1, <1>2 DEF KObjInitZero, CreateIn, EnsureDir
<1> HIDE DEF os3
<1>4. \A o \in Child : objs.refs[o] = GlobalRefs(objs, o) + ChildRefs(objs, o)
  BY <1>1, BootRefs
<1>5. /\ Typed(os1) /\ os1.live = {"Root", "Kernel", "Consoles", "Basecon", "Device", "Null"} /\ os1.refs["Device"] = 2
      /\ \A o \in old : os1.refs[o] = objs.refs[o]
  <2>1. objs.refs["Device"] = 1
    <3>1. GlobalRefs(objs, "Device") = 0 /\ ChildRefs(objs, "Device") = 1
      BY <1>1, TreeRefs DEF GlobalRefs
    <3> QED BY <1>4, <3>1 DEF Child
  <2>2. "Device" \in Obj /\ old \subseteq Obj \ {"Device"}
    BY <1>2
  <2>3. /\ Typed(os1) /\ os1.live = objs.live /\ os1.refs["Device"] = objs.refs["Device"] + 1
        /\ \A o \in Obj \ {"Device"} : os1.refs[o] = objs.refs[o]
    <3>1. os1 = Ref(objs, "Device")
      OBVIOUS
    <3> HIDE DEF os1, old
    <3> QED BY <1>1, <2>2, <3>1, Refs
  <2> QED BY <1>1, <2>1, <2>2, <2>3
<1> HIDE DEF os1
<1>6. /\ Typed(os2) /\ os2.live = {"Root", "Kernel", "Consoles", "Basecon", "Device", "Null", "Zero"}
      /\ os2.refs["Device"] = 3 /\ os2.refs["Zero"] = 1
      /\ \A o \in old : os2.refs[o] = os1.refs[o]
  BY <1>2, <1>5, Creates DEF Child
<1> HIDE DEF os2
<1>7. /\ Typed(os3) /\ os3.live = {"Root", "Kernel", "Consoles", "Basecon", "Device", "Null", "Zero"}
      /\ os3.refs["Device"] = 2 /\ os3.refs["Zero"] = 1
      /\ \A o \in old : os3.refs[o] = os2.refs[o]
  BY <1>2, <1>6, Unrefs DEF Child, os3
<1>8. ASSUME NEW o \in Child PROVE os3.refs[o] = GlobalRefs(os3, o) + ChildRefs(os3, o)
  <2>1. CASE o \in old
    <3>1. GlobalRefs(os3, o) = GlobalRefs(objs, o) /\ ChildRefs(os3, o) = ChildRefs(objs, o)
      BY <1>1, <1>7, <2>1, TreeRefs DEF GlobalRefs
    <3> QED BY <1>4, <1>5, <1>6, <1>7, <2>1, <3>1
  <2>2. CASE o = "Device"
    <3>1. GlobalRefs(os3, o) = 0 /\ ChildRefs(os3, o) = 2
      BY <1>7, <2>2, TreeRefs DEF GlobalRefs
    <3> QED BY <1>7, <2>2, <3>1
  <2>3. CASE o = "Zero"
    <3>1. GlobalRefs(os3, o) = 1 /\ ChildRefs(os3, o) = 0
      BY <1>7, <2>3, TreeRefs DEF GlobalRefs
    <3> QED BY <1>7, <2>3, <3>1
  <2> QED BY <2>1, <2>2, <2>3 DEF Child
<1>9. \A o \in Child : objs'.refs[o] = GlobalRefs(objs', o) + ChildRefs(objs', o)
  BY <1>3, <1>8
<1>10. boot' = "SchedulerInit" /\ UNCHANGED <<tstate, held, access, pc>>
  BY DEF KObjInitZero
<1>11. Typed(objs') /\ objs'.live = LiveAt[boot']
  BY <1>3, <1>7, <1>10 DEF LiveAt, Obj, Child
<1> QED BY <1>1, <1>9, <1>10, <1>11, BootStep DEF LiveAt
------------------------------------------------------------------------------
(* A new task. *)
LEMMA InheritedOK ==
  ASSUME NEW t \in Task, held \in Held
  PROVE  /\ Inherited(t) \in [Slot -> Obj \cup {NoObj}]
         /\ Inherited(t)["hand"] = NoObj
<1>1. "Basecon" \in Obj /\ "hand" \in Slot
  BY DEF Obj, Child, Slot
<1>2. \A c \in Out : Channels(t)[c] \in Obj
  BY <1>1 DEF Channels, Held, Slot
<1>3. \A s \in Slot : Inherited(t)[s] \in Obj \cup {NoObj}
  BY <1>2 DEF Inherited, Out
<1>4. Inherited(t) = [s \in Slot |-> Inherited(t)[s]]
  BY DEF Inherited
<1>5. Inherited(t)["hand"] = NoObj
  BY <1>1, KObjAssumption DEF Inherited, Out
<1> QED BY <1>3, <1>4, <1>5

LEMMA StartStep ==
  ASSUME ObjsTyped, RefsExact, NEW t \in Task, NEW p \in Task, held[t] = Empty, Start(t, p)
  PROVE  RefsExact' /\ ObjsTyped' /\ objs'.live = objs.live
<1> DEFINE slots == Inherited(p)
           N(o) == Cardinality({s \in Slot : slots[s] = o})
<1>1. held \in Held /\ Typed(objs)
  BY DEF ObjsTyped, Typed
<1>2. slots \in [Slot -> Obj \cup {NoObj}]
  BY <1>1, InheritedOK
<1> HIDE DEF slots
<1>3. held' = PutAll(held, t, slots) /\ objs' = RefAll(objs, slots)
  BY DEF Start, PutAll, slots
<1>4. held' \in Held
  BY <1>1, <1>2, <1>3 DEF PutAll, Held
<1>5. \A o \in Obj : N(o) \in Nat
  <2> SUFFICES ASSUME NEW o \in Obj PROVE N(o) \in Nat
    OBVIOUS
  <2>1. {s \in Slot : slots[s] = o} \subseteq Slot
    OBVIOUS
  <2> QED BY <2>1, SlotsFinite, FS_Subset, FS_CardinalityType
<1>6. objs' = [live |-> objs.live, refs |-> [o \in Obj |-> objs.refs[o] + N(o)]]
  BY <1>1, <1>3 DEF RefAll, Typed
<1> HIDE DEF N
<1>7. Typed(objs') /\ objs'.live = objs.live /\ \A o \in Obj : objs'.refs[o] = objs.refs[o] + N(o)
  BY <1>1, <1>5, <1>6 DEF Typed
<1>8. ASSUME NEW o \in Child
      PROVE  objs'.refs[o] = GlobalRefs(objs', o) + ChildRefs(objs', o) + Cardinality(Holders(held', o))
  <2>1. o \in Obj
    BY DEF Obj
  <2>2. Cardinality(Holders(held', o)) = Cardinality(Holders(held, o)) + N(o)
    BY <1>1, <1>2, <1>3, <2>1, ManyMore DEF N
  <2>3. objs.refs[o] = GlobalRefs(objs, o) + ChildRefs(objs, o) + Cardinality(Holders(held, o))
    BY DEF RefsExact
  <2>4. GlobalRefs(objs', o) = GlobalRefs(objs, o) /\ ChildRefs(objs', o) = ChildRefs(objs, o)
    BY <1>7, SameTree
  <2> QED BY <1>5, <1>7, <2>1, <2>2, <2>3, <2>4, TreeRefsNat, HoldersFinite
<1> QED BY <1>4, <1>7, <1>8 DEF RefsExact, ObjsTyped, Typed
------------------------------------------------------------------------------
(* The tasks' steps. *)
LEMMA StartKeeps ==
  ASSUME RefInv, NEW t \in Task, NEW p \in Task, boot \in {"SchedulerInit", "run"},
         boot' = "run", Start(t, p), UNCHANGED <<access, pc>>
  PROVE  RefInv'
<1>1. ObjsTyped /\ RefsExact /\ objs.live = Obj
  BY DEF RefInv, ObjTypeOK, ObjsTyped, Held, BootOK, LiveAt
<1>2. tstate \in [Task -> {"new", "running", "zombie", "freed"}] /\ held \in Held
  BY DEF RefInv, ObjTypeOK, Held
<1>3. tstate[t] = "new" /\ tstate' = [tstate EXCEPT ![t] = "running"]
  BY DEF Start
<1>4. held[t] = Empty
  BY <1>3 DEF RefInv, SlotsOK
<1>5. RefsExact' /\ ObjsTyped' /\ objs'.live = objs.live
  BY <1>1, <1>4, StartStep
<1>6. ObjTypeOK'
  BY <1>2, <1>3, <1>5 DEF RefInv, ObjTypeOK, ObjsTyped, Held
<1>7. BootOK'
  BY <1>1, <1>5 DEF BootOK, LiveAt
<1>8. held' = [held EXCEPT ![t] = Inherited(p)] /\ Inherited(p)["hand"] = NoObj
  BY <1>2, InheritedOK DEF Start
<1>9. SlotsOK'
  <2> SUFFICES ASSUME NEW q \in Task
               PROVE  /\ tstate'[q] \in {"new", "freed"} => held'[q] = Empty
                      /\ pc'[q] # "idle" => held'[q]["hand"] # NoObj /\ tstate'[q] = "running"
                      /\ q # KConsoleOut /\ pc'[q] = "idle" => held'[q]["hand"] = NoObj
    BY DEF SlotsOK
  <2>1. /\ tstate[q] \in {"new", "freed"} => held[q] = Empty
        /\ pc[q] # "idle" => held[q]["hand"] # NoObj /\ tstate[q] = "running"
        /\ q # KConsoleOut /\ pc[q] = "idle" => held[q]["hand"] = NoObj
        /\ pc' = pc
    BY DEF RefInv, SlotsOK
  <2>2. CASE q = t
    <3>1. held'[q] = Inherited(p) /\ tstate'[q] = "running" /\ pc[q] = "idle"
      BY <1>2, <1>3, <1>8, <2>1, <2>2 DEF Held
    <3> QED BY <1>8, <2>1, <3>1
  <2>3. CASE q # t
    <3>1. held'[q] = held[q] /\ tstate'[q] = tstate[q]
      BY <1>2, <1>3, <1>8, <2>3 DEF Held
    <3> QED BY <2>1, <3>1
  <2> QED BY <2>2, <2>3
<1> QED BY <1>5, <1>6, <1>7, <1>9 DEF RefInv

(* What the other steps share: they touch the slots and the state of one task. *)
LEMMA TaskKeeps ==
  ASSUME RefInv, boot = "run", boot' = "run", NEW t \in Task,
         RefsExact', ObjsTyped', objs'.live = objs.live,
         tstate' \in [Task -> {"new", "running", "zombie", "freed"}],
         access' \in [Task -> [Handle -> SUBSET Access]],
         pc' \in [Task -> {"idle", "write", "read", "unref"}],
         \A q \in Task \ {t} : tstate'[q] = tstate[q] /\ held'[q] = held[q] /\ pc'[q] = pc[q],
         tstate'[t] \in {"new", "freed"} => held'[t] = Empty,
         pc'[t] # "idle" => held'[t]["hand"] # NoObj /\ tstate'[t] = "running",
         t # KConsoleOut /\ pc'[t] = "idle" => held'[t]["hand"] = NoObj
  PROVE  RefInv'
<1>1. ObjTypeOK'
  BY DEF ObjTypeOK, ObjsTyped, Held
<1>2. BootOK'
  BY DEF RefInv, BootOK
<1>3. SlotsOK'
  BY DEF RefInv, SlotsOK
<1> QED BY <1>1, <1>2, <1>3 DEF RefInv

LEMMA RunFacts ==
  ASSUME RefInv, boot = "run"
  PROVE  /\ ObjsTyped /\ RefsExact /\ objs.live = Obj /\ held \in Held
         /\ tstate \in [Task -> {"new", "running", "zombie", "freed"}]
         /\ access \in [Task -> [Handle -> SUBSET Access]]
         /\ pc \in [Task -> {"idle", "write", "read", "unref"}]
         /\ \A t \in Task : /\ tstate[t] \in {"new", "freed"} => held[t] = Empty
                            /\ pc[t] # "idle" => held[t]["hand"] # NoObj /\ tstate[t] = "running"
                            /\ t # KConsoleOut /\ pc[t] = "idle" => held[t]["hand"] = NoObj
BY DEF RefInv, ObjTypeOK, ObjsTyped, Held, BootOK, LiveAt, SlotsOK

LEMMA SameRefs ==
  ASSUME ObjsTyped, RefsExact, UNCHANGED <<objs, held>>
  PROVE  RefsExact' /\ ObjsTyped' /\ objs'.live = objs.live
BY DEF ObjsTyped, RefsExact

LEMMA TaskExitStep == \A t \in Task : RefInv /\ TaskExit(t) => RefInv'
<1> SUFFICES ASSUME NEW t \in Task, RefInv, TaskExit(t) PROVE RefInv'
  OBVIOUS
<1>1. boot = "run" /\ pc[t] = "idle" /\ tstate[t] = "running"
  BY DEF TaskExit, Idle, Runs
<1>2. tstate' = [tstate EXCEPT ![t] = "zombie"] /\ UNCHANGED <<boot, objs, held, access, pc>>
  BY DEF TaskExit
<1>3. RefsExact' /\ ObjsTyped' /\ objs'.live = objs.live
  BY <1>1, <1>2, RunFacts, SameRefs
<1>4. /\ tstate' \in [Task -> {"new", "running", "zombie", "freed"}] /\ tstate'[t] = "zombie"
      /\ \A q \in Task \ {t} : tstate'[q] = tstate[q]
  BY <1>1, <1>2, RunFacts
<1> QED BY <1>1, <1>2, <1>3, <1>4, RunFacts, TaskKeeps

LEMMA ChannelStep == \A t \in Task : RefInv /\ (ChannelWrite(t) \/ ChannelRead(t)) => RefInv'
<1> SUFFICES ASSUME NEW t \in Task, RefInv, ChannelWrite(t) \/ ChannelRead(t) PROVE RefInv'
  OBVIOUS
<1>1. boot = "run" /\ pc[t] # "idle" /\ tstate[t] = "running"
  BY DEF ChannelWrite, ChannelRead, Runs
<1>2. pc' = [pc EXCEPT ![t] = "unref"] /\ UNCHANGED <<boot, objs, tstate, held, access>>
  BY DEF ChannelWrite, ChannelRead
<1>3. RefsExact' /\ ObjsTyped' /\ objs'.live = objs.live
  BY <1>1, <1>2, RunFacts, SameRefs
<1>4. /\ pc' \in [Task -> {"idle", "write", "read", "unref"}] /\ pc'[t] = "unref"
      /\ \A q \in Task \ {t} : pc'[q] = pc[q]
  BY <1>1, <1>2, RunFacts
<1> QED BY <1>1, <1>2, <1>3, <1>4, RunFacts, TaskKeeps

LEMMA UnchangedStep == RefInv /\ UNCHANGED objVars => RefInv'
<1> SUFFICES ASSUME RefInv, UNCHANGED objVars PROVE RefInv'
  OBVIOUS
<1> USE DEF objVars
<1>1. ObjTypeOK'
  BY DEF RefInv, ObjTypeOK
<1>2. RefsExact'
  BY DEF RefInv, RefsExact
<1>3. BootOK'
  BY DEF RefInv, BootOK
<1>4. SlotsOK'
  BY DEF RefInv, SlotsOK
<1> QED BY <1>1, <1>2, <1>3, <1>4 DEF RefInv

(* A reference taken into a slot that was empty. *)
LEMMA TakeStep ==
  ASSUME RefInv, boot = "run", NEW t \in Task, NEW s \in Slot, NEW o \in Obj, held[t][s] = NoObj,
         objs' = Ref(objs, o), held' = Put(held, t, s, o), tstate[t] = "running",
         UNCHANGED <<boot, tstate>>, access' \in [Task -> [Handle -> SUBSET Access]],
         NEW c \in {"idle", "write", "read", "unref"}, pc' = [pc EXCEPT ![t] = c],
         c # "idle" => s = "hand",
         s = "hand" /\ c = "idle" => t = KConsoleOut,
         s # "hand" => pc[t] = "idle"
  PROVE  RefInv'
<1>1. RefsExact' /\ ObjsTyped' /\ objs'.live = objs.live
  BY RunFacts, TakeOne
<1>2. /\ pc' \in [Task -> {"idle", "write", "read", "unref"}] /\ pc'[t] = c
      /\ \A q \in Task \ {t} : pc'[q] = pc[q]
  BY RunFacts
<1>3. /\ held'[t][s] = o /\ \A q \in Task \ {t} : held'[q] = held[q]
      /\ \A r \in Slot \ {s} : held'[t][r] = held[t][r]
  BY RunFacts DEF Put, Held
<1>4. o # NoObj /\ "hand" \in Slot
  BY PathAssumption DEF Slot
<1>5. c # "idle" => held'[t]["hand"] # NoObj
  BY <1>3, <1>4
<1>6. t # KConsoleOut /\ c = "idle" => held'[t]["hand"] = NoObj
  BY <1>3, <1>4, RunFacts
<1> QED BY <1>1, <1>2, <1>3, <1>5, <1>6, RunFacts, TaskKeeps

(* A slot given up. *)
LEMMA DropStep ==
  ASSUME RefInv, boot = "run", NEW t \in Task, NEW s \in Slot, held[t][s] # NoObj, Drop(t, s),
         UNCHANGED <<boot, tstate>>, tstate[t] \in {"running", "zombie"},
         \/ s # "hand" /\ pc' = pc /\ pc[t] = "idle"
         \/ s = "hand" /\ pc' = [pc EXCEPT ![t] = "idle"]
  PROVE  RefInv'
<1>1. held' = Put(held, t, s, NoObj) /\ objs' = Unref(objs, held[t][s])
  BY DEF Drop, Put
<1>2. RefsExact' /\ ObjsTyped' /\ objs'.live = objs.live
  BY <1>1, RunFacts, DropOne
<1>3. access' \in [Task -> [Handle -> SUBSET Access]]
  BY RunFacts DEF Drop
<1>4. /\ pc' \in [Task -> {"idle", "write", "read", "unref"}] /\ pc'[t] = "idle"
      /\ \A q \in Task \ {t} : pc'[q] = pc[q]
  BY RunFacts
<1>5. /\ held'[t][s] = NoObj /\ \A q \in Task \ {t} : held'[q] = held[q]
      /\ \A r \in Slot \ {s} : held'[t][r] = held[t][r]
  BY <1>1, RunFacts DEF Put, Held
<1>6. t # KConsoleOut => held'[t]["hand"] = NoObj
  <2>1. "hand" \in Slot
    BY DEF Slot
  <2> QED BY <1>5, <2>1, RunFacts
<1> QED BY <1>2, <1>3, <1>4, <1>5, <1>6, RunFacts, TaskKeeps

LEMMA FreeStep == \A t \in Task : RefInv /\ FreeTaskResources(t) => RefInv'
<1> SUFFICES ASSUME NEW t \in Task, RefInv, FreeTaskResources(t) PROVE RefInv'
  OBVIOUS
<1> DEFINE left == {s \in Slot : held[t][s] # NoObj}
<1>1. tstate[t] = "zombie" /\ UNCHANGED <<boot, pc>>
  BY DEF FreeTaskResources
<1>2. boot = "run"
  BY <1>1 DEF RefInv, BootOK
<1>3. pc[t] = "idle"
  BY <1>1, <1>2, RunFacts
<1>4. ASSUME NEW s \in left, \A r \in left : Rank(s) <= Rank(r), Drop(t, s), UNCHANGED tstate PROVE RefInv'
  <2>1. CASE s # "hand"
    BY <1>1, <1>2, <1>3, <1>4, <2>1, DropStep
  <2>2. CASE s = "hand"
    <3>1. pc' = [pc EXCEPT ![t] = "idle"]
      BY <1>1, <1>2, <1>3, RunFacts
    <3> QED BY <1>1, <1>2, <1>4, <2>2, <3>1, DropStep
  <2> QED BY <2>1, <2>2
<1>5. ASSUME left = {}, tstate' = [tstate EXCEPT ![t] = "freed"], UNCHANGED <<objs, held, access>> PROVE RefInv'
  <2>1. held[t] = Empty
    <3>1. held[t] \in [Slot -> Obj \cup {NoObj}]
      BY <1>2, RunFacts DEF Held
    <3>2. \A s \in Slot : held[t][s] = NoObj
      BY <1>5
    <3> QED BY <3>1, <3>2 DEF Empty
  <2>2. RefsExact' /\ ObjsTyped' /\ objs'.live = objs.live
    BY <1>2, <1>5, RunFacts, SameRefs
  <2>3. /\ tstate' \in [Task -> {"new", "running", "zombie", "freed"}]
        /\ \A q \in Task \ {t} : tstate'[q] = tstate[q]
    BY <1>2, <1>5, RunFacts
  <2>4. t # KConsoleOut => held'[t]["hand"] = NoObj
    BY <1>2, <1>3, <1>5, RunFacts
  <2> QED BY <1>1, <1>2, <1>3, <1>5, <2>1, <2>2, <2>3, <2>4, RunFacts, TaskKeeps
<1> QED BY <1>4, <1>5 DEF FreeTaskResources

LEMMA CloseStep == \A t \in Task : RefInv /\ (Close(t) \/ KObjUnref(t)) => RefInv'
<1> SUFFICES ASSUME NEW t \in Task, RefInv, Close(t) \/ KObjUnref(t) PROVE RefInv'
  OBVIOUS
<1>1. "hand" \in Slot \ (Handle \cup Fd) /\ Handle \cup Fd \subseteq Slot
  BY KObjAssumption DEF Slot, Fd
<1>2. CASE Close(t)
  <2>1. boot = "run" /\ tstate[t] = "running" /\ pc[t] = "idle" /\ UNCHANGED <<boot, tstate, pc>>
    BY <1>2 DEF Close, Idle, Runs
  <2>2. PICK s \in Handle \cup Fd : held[t][s] # NoObj /\ Drop(t, s)
    BY <1>2 DEF Close
  <2> QED BY <1>1, <2>1, <2>2, DropStep
<1>3. CASE KObjUnref(t)
  <2>1. /\ boot = "run" /\ tstate[t] = "running" /\ pc[t] = "unref" /\ UNCHANGED <<boot, tstate>>
        /\ Drop(t, "hand") /\ pc' = [pc EXCEPT ![t] = "idle"]
    BY <1>3 DEF KObjUnref, Runs
  <2>2. held[t]["hand"] # NoObj
    BY <2>1, RunFacts
  <2> QED BY <1>1, <2>1, <2>2, DropStep
<1> QED BY <1>2, <1>3

LEMMA ConsoleOutStep == RefInv /\ ConsoleOutFind => RefInv'
<1> SUFFICES ASSUME RefInv, ConsoleOutFind PROVE RefInv'
  OBVIOUS
<1> DEFINE k == KConsoleOut
<1>1. /\ boot = "run" /\ tstate[k] = "running" /\ held[k]["hand"] = NoObj
      /\ objs' = Ref(objs, "Basecon") /\ held' = Put(held, k, "hand", "Basecon")
      /\ UNCHANGED <<boot, tstate, access, pc>>
  BY DEF ConsoleOutFind, Runs, Put
<1>2. k \in Task /\ "hand" \in Slot /\ "Basecon" \in Obj
  BY DEF Task, Slot, Obj, Child
<1>3. pc[k] = "idle"
  BY <1>1, <1>2, RunFacts
<1>4. pc' = [pc EXCEPT ![k] = "idle"] /\ access' \in [Task -> [Handle -> SUBSET Access]]
  BY <1>1, <1>3, RunFacts
<1> HIDE DEF k
<1> QED BY <1>1, <1>2, <1>4, TakeStep DEF k

LEMMA ResolveStep == \A t \in Task, c \in {"write", "read"} : RefInv /\ ResolveChannel(t, c) => RefInv'
<1> SUFFICES ASSUME NEW t \in Task, NEW c \in {"write", "read"}, RefInv, ResolveChannel(t, c) PROVE RefInv'
  OBVIOUS
<1>1. /\ boot = "run" /\ tstate[t] = "running" /\ pc[t] = "idle" /\ t # KConsoleOut
      /\ pc' = [pc EXCEPT ![t] = c] /\ UNCHANGED <<boot, tstate, access>>
  BY DEF ResolveChannel, Idle, Runs
<1>2. PICK d \in Out : LET o == IF held[t][d] = NoObj THEN "Basecon" ELSE held[t][d]
                       IN objs' = Ref(objs, o) /\ held' = [held EXCEPT ![t]["hand"] = o]
  BY DEF ResolveChannel
<1> DEFINE o == IF held[t][d] = NoObj THEN "Basecon" ELSE held[t][d]
<1>3. o \in Obj /\ "hand" \in Slot
  BY <1>1, RunFacts DEF Held, Slot, Obj, Child
<1>4. objs' = Ref(objs, o) /\ held' = Put(held, t, "hand", o)
  BY <1>2 DEF Put
<1>5. held[t]["hand"] = NoObj /\ access' \in [Task -> [Handle -> SUBSET Access]]
  BY <1>1, RunFacts
<1> HIDE DEF o
<1> QED BY <1>1, <1>3, <1>4, <1>5, TakeStep

LEMMA OpenStep == \A t \in Task : RefInv /\ KObjOpen(t) => RefInv'
<1> SUFFICES ASSUME NEW t \in Task, RefInv, KObjOpen(t) PROVE RefInv'
  OBVIOUS
<1>1. boot = "run" /\ tstate[t] = "running" /\ pc[t] = "idle" /\ t \in UserTask /\ UNCHANGED <<boot, tstate>>
  BY DEF KObjOpen, Idle, Runs
<1>2. PICK o \in Path \cap objs.live, a \in SUBSET Access \ {{}} :
         objs' = Ref(objs, o) /\ KObjHandleInstall(t, o, a)
  BY DEF KObjOpen
<1>3. o \in Obj /\ Handle \cup {"hand"} \subseteq Slot /\ "hand" \notin Handle
  BY <1>2, KObjAssumption, PathAssumption DEF Slot
<1>4. CASE \E h \in FreeHandles(t) : /\ held' = [held EXCEPT ![t][h] = o]
                                      /\ access' = [access EXCEPT ![t][h] = a]
                                      /\ UNCHANGED pc
  <2>1. PICK h \in FreeHandles(t) : held' = [held EXCEPT ![t][h] = o] /\ access' = [access EXCEPT ![t][h] = a]
    BY <1>4
  <2>2. h \in Handle /\ held[t][h] = NoObj
    BY DEF FreeHandles
  <2>3. held' = Put(held, t, h, o)
    BY <2>1 DEF Put
  <2>4. access' \in [Task -> [Handle -> SUBSET Access]]
    BY <1>1, <2>1, <2>2, RunFacts
  <2>5. pc' = [pc EXCEPT ![t] = "idle"]
    BY <1>1, <1>4, RunFacts
  <2> QED BY <1>1, <1>2, <1>3, <2>2, <2>3, <2>4, <2>5, TakeStep
<1>5. CASE /\ held' = [held EXCEPT ![t]["hand"] = o]
           /\ pc' = [pc EXCEPT ![t] = "unref"]
           /\ UNCHANGED access
  <2>1. held' = Put(held, t, "hand", o)
    BY <1>5 DEF Put
  <2>2. t # KConsoleOut
    BY <1>1, KObjAssumption
  <2>3. held[t]["hand"] = NoObj /\ access' \in [Task -> [Handle -> SUBSET Access]]
    BY <1>1, <1>5, <2>2, RunFacts
  <2> QED BY <1>1, <1>2, <1>3, <1>5, <2>1, <2>3, TakeStep
<1> QED BY <1>2, <1>4, <1>5 DEF KObjHandleInstall

LEMMA StartsStep ==
  RefInv /\ (SchedulerInit \/ \E p \in Task : InheritStdChannels(p)) => RefInv'
<1> SUFFICES ASSUME RefInv, SchedulerInit \/ \E p \in Task : InheritStdChannels(p) PROVE RefInv'
  OBVIOUS
<1>1. CASE SchedulerInit
  <2>1. InitTask \in Task
    BY DEF Task
  <2> QED BY <1>1, <2>1, StartKeeps DEF SchedulerInit
<1>2. CASE \E p \in Task : InheritStdChannels(p)
  <2>1. PICK p \in Task : InheritStdChannels(p)
    BY <1>2
  <2>2. PICK t \in Task : Start(t, p)
    BY <2>1 DEF InheritStdChannels
  <2>3. boot = "run" /\ UNCHANGED <<boot, access, pc>>
    BY <2>1 DEF InheritStdChannels, Idle, Runs
  <2> QED BY <2>2, <2>3, StartKeeps
<1> QED BY <1>1, <1>2

LEMMA RefInvNext == RefInv /\ [Next]_vars => RefInv'
<1> SUFFICES ASSUME RefInv, [Next]_vars PROVE RefInv'
  OBVIOUS
<1>1. CASE ObjNext
  <2>1. CASE Boot
    BY <2>1, KObjInitStep, StdIoInitStep, KObjInitNullStep, KObjInitZeroStep, StartsStep DEF Boot
  <2>2. ASSUME NEW t \in Task, \/ InheritStdChannels(t) \/ TaskExit(t) \/ FreeTaskResources(t)
                               \/ KObjOpen(t) \/ Close(t) \/ KObjUnref(t)
        PROVE  RefInv'
    BY <2>2, StartsStep, TaskExitStep, FreeStep, OpenStep, CloseStep
  <2> QED BY <1>1, <2>1, <2>2 DEF ObjNext
<1>2. CASE IoNext
  <2>1. CASE ConsoleOut
    BY <2>1, ConsoleOutStep, UnchangedStep DEF ConsoleOut, ConsoleOutRead
  <2>2. ASSUME NEW t \in Task, StdIoWriteChannel(t) \/ StdIoReadChannel(t) PROVE RefInv'
    BY <2>2, ResolveStep DEF StdIoWriteChannel, StdIoReadChannel
  <2>3. ASSUME NEW t \in Task, ChannelWrite(t) \/ ChannelRead(t) PROVE RefInv'
    BY <2>3, ChannelStep
  <2>4. ASSUME NEW t \in Task, DirectWrite(t) \/ DirectRead(t) PROVE RefInv'
    BY <2>4, UnchangedStep DEF DirectWrite, DirectRead
  <2> QED BY <1>2, <2>1, <2>2, <2>3, <2>4 DEF IoNext
<1>3. CASE UNCHANGED vars
  BY <1>3, UnchangedStep DEF vars
<1> QED BY <1>1, <1>2, <1>3 DEF Next
------------------------------------------------------------------------------
(* RefInv is an invariant of every instance. *)
THEOREM RefsCorrect == Spec => []RefInv
BY RefInvInit, RefInvNext, PTL DEF Spec

(* Every reference is accounted for (KObjRef, KObjUnref), whatever the number  *)
(* of tasks and handles and however far the calls in progress are.             *)
THEOREM RefsExactAlways == Spec => []RefsExact
<1>1. RefInv => RefsExact
  BY DEF RefInv
<1> QED BY <1>1, RefsCorrect, PTL

(* No task is left holding an object that has been removed. *)
THEOREM NoDanglingAlways == Spec => []NoDangling
<1>1. RefInv => NoDangling
  <2> SUFFICES ASSUME RefInv, NEW t \in Task, NEW s \in Slot
               PROVE  held[t][s] \in objs.live \cup {NoObj} /\ (tstate[t] = "freed" => held[t][s] = NoObj)
    BY DEF NoDangling
  <2>1. tstate[t] \in {"new", "freed"} => held[t][s] = NoObj
    BY DEF RefInv, SlotsOK, Empty
  <2>2. CASE boot = "run"
    <3>1. held[t][s] \in Obj \cup {NoObj}
      BY <2>2, RunFacts DEF Held
    <3> QED BY <2>1, <2>2, <3>1, RunFacts
  <2>3. CASE boot # "run"
    BY <2>1, <2>3 DEF RefInv, BootOK
  <2> QED BY <2>2, <2>3
<1> QED BY <1>1, RefsCorrect, PTL
------------------------------------------------------------------------------
LEMMA SizeIs ==
  /\ STDIO_RING_SIZE \in Nat \ {0} /\ STDIO_MSG_MAX \in Nat \ {0} /\ OutBuf \in Nat \ {0}
  /\ MaxBytes \in Nat
BY StdIoAssumption

(* In a ring with its oldest byte at t and c bytes in it: the place of the     *)
(* j-th byte, counted from the head ...                                        *)
LEMMA FromHead ==
  ASSUME NEW t \in Index, NEW c \in 0..STDIO_RING_SIZE, NEW j \in 1..STDIO_RING_SIZE
  PROVE  /\ Wrap(t + j - 1) \in Index /\ Wrap(t + c) \in Index
         /\ Wrap(Wrap(t + j - 1) - Wrap(t + c)) = IF j <= c THEN STDIO_RING_SIZE - c + j - 1 ELSE j - 1 - c
<1> DEFINE n == STDIO_RING_SIZE
           p == (t + j - 1) % n
           h == (t + c) % n
<1>1. n \in Nat \ {0} /\ t \in 0..(n - 1)
  BY SizeIs DEF Index
<1>2. p \in 0..(n - 1) /\ p = IF t + j - 1 < n THEN t + j - 1 ELSE t + j - 1 - n
  BY <1>1
<1>3. h \in 0..(n - 1) /\ h = IF t + c < n THEN t + c ELSE t + c - n
  BY <1>1
<1> HIDE DEF p, h
<1>4. (p - h) % n = IF p >= h THEN p - h ELSE p - h + n
  BY <1>1, <1>2, <1>3
<1>5. (p - h) % n = IF j <= c THEN n - c + j - 1 ELSE j - 1 - c
  BY <1>1, <1>2, <1>3, <1>4
<1> QED BY <1>2, <1>3, <1>5 DEF Wrap, Index, p, h

(* ... and counted from a tail, or a head, that has moved on by k.             *)
LEMMA FromTail ==
  ASSUME NEW t \in Index, NEW k \in 0..STDIO_RING_SIZE, NEW j \in 0..STDIO_RING_SIZE,
         k + j <= STDIO_RING_SIZE
  PROVE  /\ Wrap(t + k) \in Index
         /\ Wrap(Wrap(t + k) + j) = Wrap(t + (k + j))
         /\ j > 0 => Wrap(Wrap(t + k) + j - 1) = Wrap(t + (k + j) - 1)
<1> DEFINE n == STDIO_RING_SIZE
           u == (t + k) % n
<1>1. n \in Nat \ {0} /\ t \in 0..(n - 1)
  BY SizeIs DEF Index
<1>2. u \in 0..(n - 1) /\ u = IF t + k < n THEN t + k ELSE t + k - n
  BY <1>1
<1> HIDE DEF u
<1>3. (u + j) % n = IF u + j < n THEN u + j ELSE u + j - n
  BY <1>1, <1>2
<1>4. (t + (k + j)) % n = IF t + (k + j) < n THEN t + (k + j) ELSE t + (k + j) - n
  BY <1>1
<1>5. j > 0 => (u + j - 1) % n = IF u + j - 1 < n THEN u + j - 1 ELSE u + j - 1 - n
  BY <1>1, <1>2
<1>6. j > 0 => (t + (k + j) - 1) % n = IF t + (k + j) - 1 < n THEN t + (k + j) - 1 ELSE t + (k + j) - 1 - n
  BY <1>1
<1>7. (u + j) % n = (t + (k + j)) % n
  BY <1>1, <1>2, <1>3, <1>4
<1>8. j > 0 => (u + j - 1) % n = (t + (k + j) - 1) % n
  BY <1>1, <1>2, <1>5, <1>6
<1> QED BY <1>2, <1>7, <1>8 DEF Wrap, Index, u

(* What the ring holds, as a function of its parts. *)
Bytes(buffer, t, c) == [j \in 1..c |-> buffer[Wrap(t + j - 1)]]

LEMMA ContentsIs == \A c : Contents(c) = Bytes(ring.Buffer, ring.Tail, c)
BY DEF Contents, Bytes

RingTyped ==
  /\ ring \in [Buffer : [Index -> Byte \cup {NoByte}], Head : Index, Tail : Index, Count : 0..STDIO_RING_SIZE]
  /\ sent \in 0..MaxBytes
  /\ accepted \in Seq(Byte) /\ read \in Seq(Byte)

(* The invariant: the indices agree with the count. *)
RingInv ==
  /\ RingTyped
  /\ ring.Head = Wrap(ring.Tail + ring.Count)
  /\ BytesOnceInOrder

LEMMA ConcatThrice ==
  ASSUME NEW S, NEW p \in Seq(S), NEW q \in Seq(S), NEW r \in Seq(S)
  PROVE  p \o (q \o r) = (p \o q) \o r
OBVIOUS

Cell == Byte \cup {NoByte}
Places == [Index -> Cell]

LEMMA BytesType ==
  ASSUME NEW b \in Places, NEW t \in Index, NEW c \in 0..STDIO_RING_SIZE
  PROVE  /\ Bytes(b, t, c) \in Seq(Cell) /\ Len(Bytes(b, t, c)) = c
         /\ \A j \in 1..c : Bytes(b, t, c)[j] = b[Wrap(t + j - 1)]
<1>1. \A j \in 1..c : Wrap(t + j - 1) \in Index
  <2> TAKE j \in 1..c
  <2>1. t + j - 1 \in Int
    BY SizeIs DEF Index
  <2> QED BY <2>1, SizeIs DEF Wrap, Index
<1>2. c \in Nat /\ \A j \in 1..c : b[Wrap(t + j - 1)] \in Cell
  BY <1>1, SizeIs DEF Places
<1> QED BY <1>2 DEF Bytes

LEMMA ContentsType ==
  ASSUME RingInv
  PROVE  Contents(ring.Count) \in Seq(Byte) /\ Len(Contents(ring.Count)) = ring.Count
<1> DEFINE Any == Byte \cup {NoByte}
           all == Contents(ring.Count)
<1>1. all \in Seq(Any) /\ Len(all) = ring.Count /\ ring.Count \in Nat
  <2>1. ring.Buffer \in Places /\ ring.Tail \in Index /\ ring.Count \in 0..STDIO_RING_SIZE
    BY DEF RingInv, RingTyped, Places, Cell
  <2>2. Any = Cell /\ ring.Count \in Nat
    BY <2>1, SizeIs DEF Cell
  <2> HIDE DEF Any
  <2> QED BY <2>1, <2>2, BytesType, ContentsIs DEF all
<1>2. accepted = read \o all /\ accepted \in Seq(Byte) /\ read \in Seq(Byte)
  BY DEF RingInv, RingTyped, BytesOnceInOrder
<1> HIDE DEF all
<1>3. \A j \in 1..Len(all) : Len(read) + j \in 1..Len(accepted) /\ accepted[Len(read) + j] = all[j]
  BY <1>1, <1>2
<1>4. \A j \in 1..Len(all) : all[j] \in Byte
  BY <1>2, <1>3
<1> QED BY <1>1, <1>4 DEF all

LEMMA Concat ==
  ASSUME NEW S, NEW a \in Seq(S), NEW b \in Seq(S)
  PROVE  a \o b = [j \in 1..(Len(a) + Len(b)) |-> IF j <= Len(a) THEN a[j] ELSE b[j - Len(a)]]
<1> DEFINE f == [j \in 1..(Len(a) + Len(b)) |-> IF j <= Len(a) THEN a[j] ELSE b[j - Len(a)]]
           g == a \o b
<1>1. g \in Seq(S) /\ Len(g) = Len(a) + Len(b)
  OBVIOUS
<1>2. DOMAIN g = 1..(Len(a) + Len(b)) /\ g = [j \in DOMAIN g |-> g[j]]
  <2> HIDE DEF g
  <2>1. DOMAIN g = 1..Len(g) /\ \E k \in Nat : g \in [1..k -> S]
    BY <1>1
  <2> QED BY <1>1, <2>1
<1>3. ASSUME NEW j \in 1..(Len(a) + Len(b))
      PROVE  g[j] = IF j <= Len(a) THEN a[j] ELSE b[j - Len(a)]
  OBVIOUS
<1> HIDE DEF g
<1> QED BY <1>2, <1>3 DEF g

LEMMA MessageIs ==
  ASSUME sent \in 0..MaxBytes, NEW size \in Sizes
  PROVE  /\ Message(size) \in Seq(Byte) /\ Len(Message(size)) = size
         /\ size \in Nat /\ sent + size \in 0..MaxBytes
<1>1. size \in Nat /\ sent + size \in 0..MaxBytes
  BY SizeIs DEF Sizes
<1>2. \A i \in 1..size : sent + i \in Byte
  BY <1>1, SizeIs DEF Byte
<1> QED BY <1>1, <1>2 DEF Message

LEMMA WriteStep ==
  ASSUME RingInv, NEW size \in Sizes, RingWrite(Message(size))
  PROVE  RingInv'
<1> DEFINE R == STDIO_RING_SIZE
           Any == Byte \cup {NoByte}
           msg == Message(size)
           n == Taken(Len(msg))
           c == ring.Count
           t == ring.Tail
           h == ring.Head
           b == ring.Buffer
           At(i) == Wrap(i - h)
<1>1. /\ b \in [Index -> Any] /\ t \in Index /\ c \in 0..R /\ h \in Index
      /\ R \in Nat \ {0} /\ Index = 0..(R - 1) /\ h = Wrap(t + c)
  BY SizeIs DEF RingInv, RingTyped, Index
<1>2. msg \in Seq(Byte) /\ Len(msg) = size /\ size \in Nat /\ sent + size \in 0..MaxBytes
  BY MessageIs DEF RingInv, RingTyped
<1>3. /\ ring' = [Buffer |-> [i \in Index |-> IF At(i) < n THEN msg[At(i) + 1] ELSE b[i]],
                  Head |-> Wrap(h + n), Tail |-> t, Count |-> c + n]
      /\ accepted' = accepted \o SubSeq(msg, 1, n) /\ sent' = sent + Len(msg) /\ read' = read
  BY DEF RingWrite, Wrap
<1> HIDE DEF msg
<1>4. n \in 0..R /\ n <= Len(msg) /\ c + n <= R
  <2> DEFINE s == Len(msg)
             most == STDIO_MSG_MAX
  <2>1. n = Least(Least(s, most), R - c) /\ s \in Nat /\ most \in Nat
    BY <1>2, SizeIs DEF Taken
  <2> HIDE DEF s, most, n, c
  <2> QED BY <1>1, <2>1 DEF Least, s
<1>5. Contents(c) = Contents(ring.Count)
  OBVIOUS
<1>6. /\ ring'.Buffer = [i \in Index |-> IF At(i) < n THEN msg[At(i) + 1] ELSE b[i]]
       /\ ring'.Head = Wrap(h + n) /\ ring'.Tail = t /\ ring'.Count = c + n
  BY <1>3
<1>7. Contents(c) = [j \in 1..c |-> b[Wrap(t + j - 1)]]
  BY DEF Contents
<1>8. Contents(c) \in Seq(Byte) /\ Len(Contents(c)) = c
  BY ContentsType
<1> HIDE DEF n, c, t, h, b
<1>9. \A i \in Index : At(i) \in 0..(R - 1)
  BY <1>1 DEF Wrap
<1>10. ring'.Buffer \in [Index -> Any]
  <2> SUFFICES ASSUME NEW i \in Index
               PROVE  (IF At(i) < n THEN msg[At(i) + 1] ELSE b[i]) \in Any
    BY <1>6
  <2>1. CASE At(i) < n
    <3> DEFINE a == At(i)
    <3>1. a \in 0..(R - 1) /\ a < n
      BY <1>9, <2>1
    <3> HIDE DEF a
    <3>2. a + 1 \in 1..Len(msg)
      BY <1>1, <1>2, <1>4, <3>1
    <3>3. msg[a + 1] \in Byte
      BY <1>2, <3>2
    <3> QED BY <2>1, <3>3 DEF a
  <2> QED BY <1>1, <2>1
<1>11. Wrap(h + n) = Wrap(t + (c + n)) /\ Wrap(h + n) \in Index
  <2>1. Wrap(Wrap(t + c) + n) = Wrap(t + (c + n))
    BY <1>1, <1>4, FromTail
  <2>2. Wrap(t + (c + n)) \in Index
    BY <1>1, <1>4 DEF Wrap
  <2> QED BY <1>1, <2>1, <2>2
<1>12. RingTyped' /\ ring'.Head = Wrap(ring'.Tail + ring'.Count)
  <2>1. ring' \in [Buffer : [Index -> Any], Head : Index, Tail : Index, Count : 0..R]
    BY <1>1, <1>4, <1>3, <1>10, <1>11, <1>6
  <2>2. accepted' \in Seq(Byte) /\ read' \in Seq(Byte) /\ sent' \in 0..MaxBytes
    <3>1. SubSeq(msg, 1, n) \in Seq(Byte)
      BY <1>2, <1>4
    <3> QED BY <1>2, <1>3, <3>1 DEF RingInv, RingTyped
  <2> QED BY <1>11, <1>6, <2>1, <2>2 DEF RingTyped
<1>13. Contents(ring.Count)' = Contents(c) \o SubSeq(msg, 1, n)
  <2>1. /\ Contents(c) \in Seq(Byte) /\ Len(Contents(c)) = c
        /\ SubSeq(msg, 1, n) \in Seq(Byte) /\ Len(SubSeq(msg, 1, n)) = n
        /\ \A k \in 1..n : SubSeq(msg, 1, n)[k] = msg[k]
    BY <1>2, <1>4, <1>8
  <2>2. Contents(ring.Count)' = [j \in 1..(c + n) |-> ring'.Buffer[Wrap(t + j - 1)]]
    BY <1>6 DEF Contents
  <2> DEFINE old == Contents(c)
             new == SubSeq(msg, 1, n)
  <2>3. old = [j \in 1..c |-> b[Wrap(t + j - 1)]]
    BY <1>7
  <2> HIDE DEF old, new
  <2>4. ASSUME NEW j \in 1..(c + n)
        PROVE  ring'.Buffer[Wrap(t + j - 1)] = IF j <= c THEN old[j] ELSE new[j - c]
    <3> DEFINE p == Wrap(t + j - 1)
    <3>1. j \in 1..R
      BY <1>1, <1>4
    <3>2. p \in Index /\ At(p) = IF j <= c THEN R - c + j - 1 ELSE j - 1 - c
      BY <1>1, <3>1, FromHead
    <3>3. ring'.Buffer[p] = IF At(p) < n THEN msg[At(p) + 1] ELSE b[p]
      BY <1>6, <3>2
    <3>4. CASE j <= c
      <4>1. ~(At(p) < n)
        BY <1>1, <1>4, <3>1, <3>2, <3>4
      <4>2. old[j] = b[p]
        BY <1>1, <2>3, <3>1, <3>4
      <4> QED BY <3>3, <3>4, <4>1, <4>2
    <3>5. CASE ~(j <= c)
      <4>1. At(p) < n /\ At(p) + 1 = j - c /\ j - c \in 1..n
        BY <1>1, <1>4, <3>1, <3>2, <3>5
      <4>2. ring'.Buffer[p] = msg[j - c]
        BY <3>3, <4>1
      <4>3. new[j - c] = msg[j - c]
        BY <2>1, <4>1 DEF new
      <4> QED BY <3>5, <4>2, <4>3
    <3> QED BY <3>4, <3>5
  <2>5. old \o new = [j \in 1..(c + n) |-> IF j <= c THEN old[j] ELSE new[j - c]]
    <3>1. old \in Seq(Byte) /\ new \in Seq(Byte) /\ Len(old) = c /\ Len(new) = n
      BY <2>1 DEF old, new
    <3>2. old \o new = [j \in 1..(Len(old) + Len(new)) |-> IF j <= Len(old) THEN old[j] ELSE new[j - Len(old)]]
      BY <3>1, Concat
    <3> QED BY <3>1, <3>2
  <2> QED BY <2>2, <2>4, <2>5 DEF old, new
<1>14. BytesOnceInOrder'
  <2>1. /\ Contents(c) \in Seq(Byte) /\ read \in Seq(Byte)
        /\ SubSeq(msg, 1, n) \in Seq(Byte)
    BY <1>2, <1>4, <1>8 DEF RingInv, RingTyped
  <2> DEFINE old == Contents(c)
             new == SubSeq(msg, 1, n)
  <2>2. BytesOnceInOrder' <=> read' \o Contents(ring.Count)' = accepted'
    BY DEF BytesOnceInOrder
  <2>3. accepted = read \o old
    BY <1>5 DEF RingInv, BytesOnceInOrder
  <2>4. Contents(ring.Count)' = old \o new /\ accepted' = accepted \o new
    BY <1>3, <1>13
  <2>5. old \in Seq(Byte) /\ new \in Seq(Byte)
    BY <2>1
  <2> HIDE DEF old, new
  <2>6. read \o (old \o new) = (read \o old) \o new
    <3>1. read \in Seq(Byte)
      BY <2>1
    <3> QED BY <2>5, <3>1, ConcatThrice
  <2>7. read' = read
    BY <1>3
  <2>8. read' \o Contents(ring.Count)' = read \o (old \o new)
    BY <2>4, <2>7
  <2>9. accepted' = (read \o old) \o new
    BY <2>3, <2>4
  <2> QED BY <2>2, <2>6, <2>8, <2>9
<1> QED BY <1>12, <1>14 DEF RingInv

LEMMA ReadStep ==
  ASSUME RingInv, NEW k \in 0..ring.Count, RingRead(k)
  PROVE  RingInv'
<1> DEFINE R == STDIO_RING_SIZE
           Any == Byte \cup {NoByte}
           c == ring.Count
           t == ring.Tail
           b == ring.Buffer
           u == Wrap(t + k)
           m == c - k
<1>1. /\ b \in [Index -> Any] /\ t \in Index /\ c \in 0..R /\ ring.Head = Wrap(t + c)
      /\ R \in Nat \ {0} /\ Index = 0..(R - 1)
      /\ k \in 0..R /\ m \in 0..R /\ k \in Nat /\ c \in Nat
  BY SizeIs DEF RingInv, RingTyped, Index
<1>2. ring' = [ring EXCEPT !.Tail = u, !.Count = m] /\ read' = read \o Contents(k)
      /\ sent' = sent /\ accepted' = accepted
  BY DEF RingRead
<1>3. ring'.Buffer = b /\ ring'.Head = ring.Head /\ ring'.Tail = u /\ ring'.Count = m
  BY <1>2 DEF RingInv, RingTyped
<1>4. Contents(c) = [j \in 1..c |-> b[Wrap(t + j - 1)]] /\ Contents(k) = Bytes(b, t, k)
  BY DEF Contents, Bytes
<1>5. /\ Contents(c) \in Seq(Byte) /\ Len(Contents(c)) = c /\ accepted = read \o Contents(c)
       /\ read \in Seq(Byte)
  BY ContentsType DEF RingInv, RingTyped, BytesOnceInOrder
<1>6. u = Wrap(t + k) /\ k + m = c
  BY <1>1
<1>7. ring' \in [Buffer : [Index -> Any], Head : Index, Tail : {u}, Count : {m}]
  <2>1. ring \in [Buffer : [Index -> Any], Head : Index, Tail : Index, Count : 0..R]
    BY DEF RingInv, RingTyped
  <2> HIDE DEF u, m
  <2> QED BY <1>2, <2>1
<1>8. Contents(c) = Bytes(b, t, c)
  BY DEF Contents, Bytes
<1> HIDE DEF Any, c, t, b, u, m
<1>9. u \in Index /\ \A j \in 1..m : Wrap(u + j - 1) = Wrap(t + (k + j) - 1)
  <2>1. u \in Index
    BY <1>1, <1>6 DEF Wrap
  <2>2. ASSUME NEW j \in 1..m
        PROVE  Wrap(u + j - 1) = Wrap(t + (k + j) - 1)
    <3>1. j \in 0..R /\ k + j <= R /\ j > 0
      BY <1>1, <1>6
    <3> QED BY <1>1, <1>6, <3>1, FromTail
  <2> QED BY <2>1, <2>2
<1>10. /\ Bytes(b, t, k) \in Seq(Any) /\ Len(Bytes(b, t, k)) = k
       /\ \A j \in 1..k : Bytes(b, t, k)[j] = b[Wrap(t + j - 1)]
  <2>1. b \in Places /\ t \in Index /\ k \in 0..STDIO_RING_SIZE /\ Any = Cell
    BY <1>1 DEF Places, Any, Cell
  <2>2. /\ Bytes(b, t, k) \in Seq(Cell) /\ Len(Bytes(b, t, k)) = k
        /\ \A j \in 1..k : Bytes(b, t, k)[j] = b[Wrap(t + j - 1)]
    BY <2>1, BytesType
  <2> QED BY <2>1, <2>2
<1>11. /\ Bytes(b, u, m) \in Seq(Any) /\ Len(Bytes(b, u, m)) = m
       /\ \A j \in 1..m : Bytes(b, u, m)[j] = b[Wrap(u + j - 1)]
  <2>1. b \in Places /\ u \in Index /\ m \in 0..STDIO_RING_SIZE /\ Any = Cell
    BY <1>1, <1>9 DEF Places, Any, Cell
  <2>2. /\ Bytes(b, u, m) \in Seq(Cell) /\ Len(Bytes(b, u, m)) = m
        /\ \A j \in 1..m : Bytes(b, u, m)[j] = b[Wrap(u + j - 1)]
    BY <2>1, BytesType
  <2> QED BY <2>1, <2>2
<1>12. ring'.Head = Wrap(ring'.Tail + ring'.Count)
  <2>1. m \in 0..R /\ k + m <= R
    BY <1>1, <1>6
  <2>2. Wrap(Wrap(t + k) + m) = Wrap(t + (k + m))
    BY <1>1, <2>1, FromTail
  <2> QED BY <1>1, <1>3, <1>6, <2>2
<1>13. Contents(c) = Contents(k) \o Contents(ring.Count)'
  <2> DEFINE first == Contents(k)
             rest == Contents(ring.Count)'
  <2>1. first \in Seq(Any) /\ Len(first) = k /\ \A j \in 1..k : first[j] = b[Wrap(t + j - 1)]
    BY <1>4, <1>10
  <2>2. rest = Bytes(b, u, m)
    BY <1>3 DEF Contents, Bytes
  <2>3. /\ rest \in Seq(Any) /\ Len(rest) = m
        /\ \A j \in 1..m : rest[j] = b[Wrap(u + j - 1)]
    <3> HIDE DEF rest
    <3> QED BY <2>2, <1>11
  <2> HIDE DEF first, rest
  <2>4. first \o rest = [j \in 1..c |-> IF j <= k THEN first[j] ELSE rest[j - k]]
    <3>1. first \in Seq(Any) /\ rest \in Seq(Any) /\ Len(first) = k /\ Len(rest) = m
      BY <2>1, <2>3 DEF first, rest
    <3>2. first \o rest = [j \in 1..(Len(first) + Len(rest)) |->
                            IF j <= Len(first) THEN first[j] ELSE rest[j - Len(first)]]
      BY <3>1, Concat
    <3> QED BY <1>6, <3>1, <3>2
  <2>5. \A j \in 1..c : b[Wrap(t + j - 1)] = IF j <= k THEN first[j] ELSE rest[j - k]
    <3> TAKE j \in 1..c
    <3>1. CASE j <= k
      BY <1>1, <2>1, <3>1
    <3>2. CASE ~(j <= k)
      <4> DEFINE i == j - k
      <4>1. i \in 1..m /\ k + i = j
        BY <1>1, <1>6, <3>2
      <4> HIDE DEF i
      <4>2. rest[i] = b[Wrap(t + (k + i) - 1)]
        BY <1>9, <2>3, <4>1
      <4> QED BY <3>2, <4>1, <4>2 DEF i
    <3> QED BY <3>1, <3>2
  <2>6. Contents(c) = [j \in 1..c |-> b[Wrap(t + j - 1)]]
    BY <1>4
  <2> QED BY <2>4, <2>5, <2>6 DEF first, rest
<1>14. /\ Contents(k) \in Seq(Byte) /\ Contents(ring.Count)' \in Seq(Any)
  <2> DEFINE all == Contents(c)
             first == Contents(k)
  <2>1. first \in Seq(Any) /\ Len(first) = k
    BY <1>4, <1>10
  <2>2. \A j \in 1..k : first[j] = all[j]
    <3>1. \A j \in 1..k : j \in 1..c
      BY <1>1, <1>6
    <3> QED BY <1>4, <3>1 DEF Bytes
  <2>3. Contents(ring.Count)' \in Seq(Any)
    <3>1. Contents(ring.Count)' = Bytes(b, u, m)
      BY <1>3 DEF Contents, Bytes
    <3> QED BY <1>11, <3>1
  <2> HIDE DEF all, first
  <2>4. \A j \in 1..k : first[j] \in Byte
    <3>1. all \in Seq(Byte) /\ \A j \in 1..k : j \in 1..Len(all)
      BY <1>1, <1>5, <1>6 DEF all
    <3> QED BY <2>2, <3>1
  <2> QED BY <2>1, <2>3, <2>4 DEF first
<1>15. RingTyped'
  <2>1. ring' \in [Buffer : [Index -> Any], Head : Index, Tail : Index, Count : 0..R]
    BY <1>1, <1>9, <1>7
  <2>2. read' \in Seq(Byte)
    BY <1>2, <1>14, <1>5
  <2> QED BY <1>2, <2>1, <2>2 DEF RingInv, RingTyped
<1>16. BytesOnceInOrder'
  <2> DEFINE first == Contents(k)
             rest == Contents(ring.Count)'
  <2>1. accepted = read \o (first \o rest)
    BY <1>13, <1>5
  <2>2. first \in Seq(Byte) /\ rest \in Seq(Any) /\ read \in Seq(Byte)
    BY <1>14, <1>5
  <2>3. BytesOnceInOrder' <=> read' \o rest = accepted'
    BY DEF BytesOnceInOrder
  <2>4. read' = read \o first
    BY <1>2
  <2> HIDE DEF first, rest
  <2>5. read \o (first \o rest) = (read \o first) \o rest
    BY <2>2
  <2> QED BY <1>2, <2>1, <2>3, <2>5, <2>4
<1> QED BY <1>12, <1>15, <1>16 DEF RingInv

LEMMA SameRing ==
  ASSUME RingInv, UNCHANGED ioVars
  PROVE  RingInv'
BY DEF RingInv, RingTyped, BytesOnceInOrder, Contents, ioVars

LEMMA RingInit ==
  ASSUME IoInit
  PROVE  RingInv
<1> USE SizeIs DEF IoInit
<1>1. ring.Head = Wrap(ring.Tail + ring.Count)
  BY DEF Wrap
<1>2. RingTyped
  BY DEF RingTyped, Index
<1>3. BytesOnceInOrder
  BY DEF BytesOnceInOrder, Contents
<1> QED BY <1>1, <1>2, <1>3 DEF RingInv

LEMMA RingNext == RingInv /\ [Next]_vars => RingInv'
<1> SUFFICES ASSUME RingInv, [Next]_vars
             PROVE  RingInv'
  OBVIOUS
<1>1. CASE UNCHANGED ioVars
  BY <1>1, SameRing
<1>2. ASSUME NEW n \in Sizes, RingWrite(Message(n))
      PROVE  RingInv'
  BY <1>2, WriteStep
<1>3. ASSUME NEW k \in 0..ring.Count, RingRead(k)
      PROVE  RingInv'
  BY <1>3, ReadStep
<1>4. CASE ConsoleOutRead
  <2>1. Least(OutBuf, ring.Count) \in 0..ring.Count
    <3>1. ring.Count \in Nat /\ OutBuf \in Nat
      BY SizeIs DEF RingInv, RingTyped
    <3> QED BY <3>1 DEF Least
  <2> QED BY <1>3, <1>4, <2>1 DEF ConsoleOutRead
<1>5. ASSUME NEW t \in Task, ChannelWrite(t) \/ DirectWrite(t)
      PROVE  RingInv'
  BY <1>2, <1>5 DEF ChannelWrite, DirectWrite
<1>6. ASSUME NEW t \in Task, ChannelRead(t) \/ DirectRead(t)
      PROVE  RingInv'
  <2>1. \A k \in 1..ring.Count : k \in 0..ring.Count
    BY SizeIs DEF RingInv, RingTyped
  <2>2. PICK k \in 0..ring.Count : RingRead(k)
    BY <1>6, <2>1 DEF ChannelRead, DirectRead
  <2> QED BY <1>3, <2>2
<1>7. ASSUME NEW t \in Task, StdIoWriteChannel(t) \/ StdIoReadChannel(t)
      PROVE  UNCHANGED ioVars
  BY <1>7 DEF StdIoWriteChannel, StdIoReadChannel, ResolveChannel
<1>8. ConsoleOutFind => UNCHANGED ioVars
  BY DEF ConsoleOutFind
<1>9. IoNext => RingInv'
  BY <1>1, <1>4, <1>5, <1>6, <1>7, <1>8 DEF IoNext, ConsoleOut
<1> QED BY <1>1, <1>9 DEF Next, vars
------------------------------------------------------------------------------
(* Access: a step that leaves the handles of all tasks alone ... *)
LEMMA AccessSame ==
  ASSUME AccessWithinObject, access' = access,
         \A t \in Task, h \in Handle : held'[t][h] = held[t][h]
  PROVE  AccessWithinObject'
BY DEF AccessWithinObject

(* ... and one that gives a slot back.                                         *)
LEMMA AccessDrop ==
  ASSUME AccessWithinObject, ObjTypeOK, NEW t \in Task, NEW s \in Slot, Drop(t, s)
  PROVE  AccessWithinObject'
<1>1. held' = [held EXCEPT ![t][s] = NoObj]
      /\ access' = IF s \in Handle THEN [access EXCEPT ![t][s] = {}] ELSE access
  BY DEF Drop
<1>2. held \in [Task -> [Slot -> Obj \cup {NoObj}]] /\ access \in [Task -> [Handle -> SUBSET Access]]
      /\ Handle \subseteq Slot
  BY DEF ObjTypeOK, Slot
<1> SUFFICES ASSUME NEW u \in Task, NEW h \in Handle
             PROVE  access'[u][h] \subseteq IF held'[u][h] = NoObj THEN {} ELSE ObjAccess(held'[u][h])
  BY DEF AccessWithinObject
<1>3. access[u][h] \subseteq IF held[u][h] = NoObj THEN {} ELSE ObjAccess(held[u][h])
  BY DEF AccessWithinObject
<1>4. CASE u = t /\ h = s
  <2>1. access'[u][h] = {}
    BY <1>1, <1>2, <1>4
  <2> QED BY <2>1
<1>5. CASE ~(u = t /\ h = s)
  <2>1. access'[u][h] = access[u][h] /\ held'[u][h] = held[u][h]
    BY <1>1, <1>2, <1>5
  <2> QED BY <1>3, <2>1
<1> QED BY <1>4, <1>5

LEMMA NotHandles == /\ "hand" \notin Handle /\ Handle \cap Out = {} /\ Handle \cap Fd = {}
                    /\ Handle \subseteq Slot /\ "hand" \in Slot /\ Fd \subseteq Slot
BY KObjAssumption DEF Out, Fd, Slot

(* A new task has no handles, and its slots were empty before. *)
LEMMA AccessStart ==
  ASSUME AccessWithinObject, RefInv, NEW t \in Task, NEW p \in Task, Start(t, p), access' = access
  PROVE  AccessWithinObject'
<1>1. held[t] = Empty /\ held \in [Task -> [Slot -> Obj \cup {NoObj}]]
  BY DEF Start, RefInv, SlotsOK, ObjTypeOK
<1>2. held' = [held EXCEPT ![t] = Inherited(p)]
  BY DEF Start
<1>3. \A h \in Handle : Inherited(p)[h] = NoObj /\ Empty[h] = NoObj
  <2> TAKE h \in Handle
  <2>1. h \in Slot /\ h \notin Out /\ h # "fd1" /\ h # "fd2"
    BY NotHandles DEF Fd
  <2> QED BY <2>1 DEF Inherited, Empty
<1>4. \A u \in Task, h \in Handle : held'[u][h] = held[u][h]
  BY <1>1, <1>2, <1>3
<1> QED BY <1>4, AccessSame

LEMMA AccessOpen ==
  ASSUME AccessWithinObject, RefInv, NEW t \in Task, KObjOpen(t)
  PROVE  AccessWithinObject'
<1>1. held \in [Task -> [Slot -> Obj \cup {NoObj}]] /\ access \in [Task -> [Handle -> SUBSET Access]]
  BY DEF RefInv, ObjTypeOK
<1>2. PICK o \in Obj, a \in SUBSET Access : KObjHandleInstall(t, o, a)
  BY PathAssumption DEF KObjOpen
<1>3. CASE /\ held' = [held EXCEPT ![t]["hand"] = o]
           /\ UNCHANGED access
  <2>1. \A u \in Task, h \in Handle : held'[u][h] = held[u][h]
    BY <1>1, <1>3, NotHandles
  <2> QED BY <1>3, <2>1, AccessSame
<1>4. CASE /\ a \subseteq ObjAccess(o)
           /\ \E h \in FreeHandles(t) : /\ held' = [held EXCEPT ![t][h] = o]
                                        /\ access' = [access EXCEPT ![t][h] = a]
  <2>1. PICK s \in Handle : held' = [held EXCEPT ![t][s] = o] /\ access' = [access EXCEPT ![t][s] = a]
    BY <1>4 DEF FreeHandles
  <2> SUFFICES ASSUME NEW u \in Task, NEW h \in Handle
               PROVE  access'[u][h] \subseteq IF held'[u][h] = NoObj THEN {} ELSE ObjAccess(held'[u][h])
    BY DEF AccessWithinObject
  <2>2. CASE u = t /\ h = s
    <3>1. access'[u][h] = a /\ held'[u][h] = o /\ o # NoObj
      BY <1>1, <2>1, <2>2, NotHandles, PathAssumption
    <3> QED BY <1>4, <3>1
  <2>3. CASE ~(u = t /\ h = s)
    <3>1. access'[u][h] = access[u][h] /\ held'[u][h] = held[u][h]
      BY <1>1, <2>1, <2>3, NotHandles
    <3> QED BY <3>1 DEF AccessWithinObject
  <2> QED BY <2>2, <2>3
<1> QED BY <1>2, <1>3, <1>4 DEF KObjHandleInstall

LEMMA AccessNext == RefInv /\ AccessWithinObject /\ [Next]_vars => AccessWithinObject'
<1> SUFFICES ASSUME RefInv, AccessWithinObject, [Next]_vars
             PROVE  AccessWithinObject'
  OBVIOUS
<1>1. ObjTypeOK
  BY DEF RefInv
<1>2. CASE UNCHANGED <<held, access>>
  BY <1>2 DEF AccessWithinObject
<1>3. Boot => AccessWithinObject'
  <2>1. CASE SchedulerInit
    <3>1. InitTask \in Task
      BY DEF Task
    <3> QED BY <2>1, <3>1, AccessStart DEF SchedulerInit
  <2>2. CASE KObjInit \/ StdIoInit \/ KObjInitNull \/ KObjInitZero
    BY <1>2, <2>2 DEF KObjInit, StdIoInit, KObjInitNull, KObjInitZero
  <2> QED BY <2>1, <2>2 DEF Boot
<1>4. ASSUME NEW t \in Task, InheritStdChannels(t)
      PROVE  AccessWithinObject'
  BY <1>4, AccessStart DEF InheritStdChannels
<1>5. ASSUME NEW t \in Task, TaskExit(t)
      PROVE  AccessWithinObject'
  BY <1>2, <1>5 DEF TaskExit
<1>6. ASSUME NEW t \in Task, FreeTaskResources(t)
      PROVE  AccessWithinObject'
  <2>1. CASE \E s \in Slot : Drop(t, s)
    BY <1>1, <2>1, AccessDrop
  <2>2. CASE UNCHANGED <<objs, held, access>>
    BY <1>2, <2>2
  <2> QED BY <1>6, <2>1, <2>2 DEF FreeTaskResources
<1>7. ASSUME NEW t \in Task, Close(t) \/ KObjUnref(t)
      PROVE  AccessWithinObject'
  <2>1. \E s \in Slot : Drop(t, s)
    BY <1>7, NotHandles DEF Close, KObjUnref
  <2> QED BY <1>1, <2>1, AccessDrop
<1>8. ASSUME NEW t \in Task, \E o : held' = [held EXCEPT ![t]["hand"] = o], access' = access
      PROVE  AccessWithinObject'
  <2>1. \A u \in Task, h \in Handle : held'[u][h] = held[u][h]
    BY <1>1, <1>8, NotHandles DEF ObjTypeOK
  <2> QED BY <1>8, <2>1, AccessSame
<1>9. ASSUME NEW t \in Task, StdIoWriteChannel(t) \/ StdIoReadChannel(t)
      PROVE  AccessWithinObject'
  BY <1>8, <1>9 DEF StdIoWriteChannel, StdIoReadChannel, ResolveChannel
<1>10. ConsoleOut => AccessWithinObject'
  <2>1. KConsoleOut \in Task
    BY DEF Task
  <2>2. ConsoleOutFind => AccessWithinObject'
    BY <1>8, <2>1 DEF ConsoleOutFind
  <2> QED BY <1>2, <2>2 DEF ConsoleOut, ConsoleOutRead, objVars
<1>11. ASSUME NEW t \in Task, ChannelWrite(t) \/ ChannelRead(t) \/ DirectWrite(t) \/ DirectRead(t)
       PROVE  AccessWithinObject'
  BY <1>2, <1>11 DEF ChannelWrite, ChannelRead, DirectWrite, DirectRead, objVars
<1>12. ObjNext => AccessWithinObject'
  BY <1>3, <1>4, <1>5, <1>6, <1>7, AccessOpen DEF ObjNext
<1>13. IoNext => AccessWithinObject'
  BY <1>9, <1>10, <1>11 DEF IoNext
<1> QED BY <1>2, <1>12, <1>13 DEF Next, vars, objVars
------------------------------------------------------------------------------
(* The state keeps its types and the ring's indices stay inside it, for a ring *)
(* and messages of any size.                                                   *)
THEOREM TypeCorrect == Spec => []TypeOK
<1>1. RefInv /\ RingInv => TypeOK
  BY SizeIs DEF TypeOK, RefInv, RingInv, RingTyped
<1> QED BY <1>1, RefsCorrect, RingInit, RingNext, PTL DEF Spec

(* A byte RingWrite took is given out by RingRead once and in order, whoever   *)
(* reads, however much at a time, and however the ring wraps and fills.        *)
THEOREM BytesAlways == Spec => []BytesOnceInOrder
<1>1. RingInv => BytesOnceInOrder
  BY DEF RingInv
<1> QED BY <1>1, RingInit, RingNext, PTL DEF Spec

(* Opening, closing, inheriting and reaping never leave a handle with access   *)
(* its object does not allow, nor a free one with any.                         *)
THEOREM AccessAlways == Spec => []AccessWithinObject
<1>1. IoInit => AccessWithinObject
  BY DEF IoInit, Init, AccessWithinObject
<1> QED BY <1>1, AccessNext, RefsCorrect, PTL DEF Spec
------------------------------------------------------------------------------
(* Remainders of numbers at most one turn away. *)
LEMMA Turn ==
  ASSUME NEW n \in Nat \ {0}, NEW a \in Int
  PROVE  /\ a \in 0..(n - 1) => a % n = a
         /\ a \in n..(2 * n - 1) => a % n = a - n
         /\ a \in (-n)..(-1) => a % n = a + n
OBVIOUS

(* How many events lie between the indices, where the i-th of them is, and    *)
(* what they are.                                                              *)
Count(h, t) == (h - t) % BASECON_KEY_QUEUE_SIZE
Place(t, i) == (t + i - 1) % BASECON_KEY_QUEUE_SIZE
KeyContents(e, t, c) == [i \in 1..c |-> e[Place(t, i)]]

LEMMA PendingIs == Pending = KeyContents(events, tail, Count(head, tail))
BY DEF Pending, KeyContents, Count, Place

LEMMA SlotIs ==
  ASSUME KeyQueueAssumption
  PROVE  /\ BASECON_KEY_QUEUE_SIZE \in Nat \ {0} /\ BASECON_KEY_QUEUE_SIZE > 1
         /\ KeySlot = 0..(BASECON_KEY_QUEUE_SIZE - 1)
BY DEF KeyQueueAssumption, KeySlot

LEMMA CountIs ==
  ASSUME KeyQueueAssumption, NEW h \in KeySlot, NEW t \in KeySlot
  PROVE  Count(h, t) = IF t <= h THEN h - t ELSE h - t + BASECON_KEY_QUEUE_SIZE
<1> DEFINE n == BASECON_KEY_QUEUE_SIZE
           a == h - t
<1>1. n \in Nat \ {0} /\ a \in Int /\ (t <= h => a \in 0..(n - 1)) /\ (~(t <= h) => a \in (-n)..(-1))
  BY SlotIs
<1>2. Count(h, t) = a % n
  BY DEF Count
<1> HIDE DEF n, a
<1>3. a % n = IF t <= h THEN a ELSE a + n
  BY <1>1, Turn
<1> QED BY <1>2, <1>3 DEF a, n

LEMMA PlaceIs ==
  ASSUME KeyQueueAssumption, NEW t \in KeySlot, NEW i \in 1..BASECON_KEY_QUEUE_SIZE
  PROVE  /\ Place(t, i) \in KeySlot
         /\ Place(t, i) = IF t + i - 1 < BASECON_KEY_QUEUE_SIZE THEN t + i - 1
                          ELSE t + i - 1 - BASECON_KEY_QUEUE_SIZE
<1> DEFINE n == BASECON_KEY_QUEUE_SIZE
           a == t + i - 1
<1>1. /\ n \in Nat \ {0} /\ a \in Int /\ (a < n => a \in 0..(n - 1))
      /\ (~(a < n) => a \in n..(2 * n - 1))
  BY SlotIs
<1>2. Place(t, i) = a % n
  BY DEF Place
<1>3. KeySlot = 0..(n - 1)
  BY SlotIs
<1> HIDE DEF n, a
<1>4. a % n = IF a < n THEN a ELSE a - n
  BY <1>1, Turn
<1>5. a % n \in 0..(n - 1)
  BY <1>1, <1>4
<1>6. Place(t, i) \in KeySlot /\ Place(t, i) = IF a < n THEN a ELSE a - n
  BY <1>2, <1>3, <1>4, <1>5
<1>7. n = BASECON_KEY_QUEUE_SIZE /\ a = t + i - 1
  BY DEF n, a
<1> QED BY <1>1, <1>3, <1>6, <1>7

LEMMA SuccIs ==
  ASSUME KeyQueueAssumption, NEW i \in KeySlot
  PROVE  Succ(i) \in KeySlot /\ Succ(i) = IF i = BASECON_KEY_QUEUE_SIZE - 1 THEN 0 ELSE i + 1
<1>1. Succ(i) = Place(i, 2)
  <2> DEFINE j == i + 1
             k == i + 2 - 1
  <2>1. Succ(i) = j % BASECON_KEY_QUEUE_SIZE /\ Place(i, 2) = k % BASECON_KEY_QUEUE_SIZE
    BY DEF Succ, Place
  <2>2. j = k
    BY SlotIs
  <2> HIDE DEF j, k
  <2> QED BY <2>1, <2>2
<1>2. 2 \in 1..BASECON_KEY_QUEUE_SIZE
  BY SlotIs
<1>3. Place(i, 2) \in KeySlot /\ Place(i, 2) = IF i + 2 - 1 < BASECON_KEY_QUEUE_SIZE THEN i + 2 - 1
                                           ELSE i + 2 - 1 - BASECON_KEY_QUEUE_SIZE
  BY <1>2, PlaceIs
<1> QED BY <1>1, <1>3, SlotIs

LEMMA KeyContentsType ==
  ASSUME KeyQueueAssumption, NEW S, NEW e \in [KeySlot -> S], NEW t \in KeySlot,
         NEW c \in 0..BASECON_KEY_QUEUE_SIZE
  PROVE  KeyContents(e, t, c) \in Seq(S) /\ Len(KeyContents(e, t, c)) = c
<1>1. \A i \in 1..c : Place(t, i) \in KeySlot
  BY PlaceIs, SlotIs
<1>2. c \in Nat
  BY SlotIs
<1>3. \A i \in 1..c : e[Place(t, i)] \in S
  BY <1>1
<1> QED BY <1>2, <1>3 DEF KeyContents

(* An event written behind the last one is appended. *)
LEMMA ContentsPut ==
  ASSUME KeyQueueAssumption, NEW S, NEW e \in [KeySlot -> S], NEW t \in KeySlot, NEW k \in S,
         NEW c \in 0..(BASECON_KEY_QUEUE_SIZE - 1)
  PROVE  KeyContents([e EXCEPT ![Place(t, c + 1)] = k], t, c + 1) = Append(KeyContents(e, t, c), k)
<1> DEFINE p == Place(t, c + 1)
           f == [e EXCEPT ![p] = k]
<1>1. c \in Nat /\ c + 1 \in 1..BASECON_KEY_QUEUE_SIZE
  BY SlotIs
<1>2. p \in KeySlot
  BY <1>1, PlaceIs
<1>3. \A i \in 1..c : Place(t, i) \in KeySlot /\ Place(t, i) # p
  <2> TAKE i \in 1..c
  <2>1. i \in 1..BASECON_KEY_QUEUE_SIZE
    BY <1>1, SlotIs
  <2>2. Place(t, i) \in KeySlot /\ Place(t, i) = IF t + i - 1 < BASECON_KEY_QUEUE_SIZE THEN t + i - 1
                          ELSE t + i - 1 - BASECON_KEY_QUEUE_SIZE
    BY <2>1, PlaceIs
  <2>3. p = IF t + (c + 1) - 1 < BASECON_KEY_QUEUE_SIZE THEN t + (c + 1) - 1
                          ELSE t + (c + 1) - 1 - BASECON_KEY_QUEUE_SIZE
    BY <1>1, PlaceIs
  <2> HIDE DEF p
  <2> QED BY <1>1, <2>2, <2>3, SlotIs
<1>4. \A i \in 1..c : f[Place(t, i)] = e[Place(t, i)] /\ e[Place(t, i)] \in S
  BY <1>2, <1>3
<1>5. f[p] = k
  BY <1>2
<1> HIDE DEF f
<1>6. KeyContents(f, t, c + 1) = [i \in 1..(c + 1) |-> f[Place(t, i)]]
  BY DEF KeyContents
<1>7. KeyContents(e, t, c) = [i \in 1..c |-> e[Place(t, i)]]
  BY DEF KeyContents
<1>8. Append(KeyContents(e, t, c), k) = [i \in 1..(c + 1) |-> IF i = c + 1 THEN k ELSE e[Place(t, i)]]
  BY <1>1, <1>4, <1>7
<1> QED BY <1>1, <1>4, <1>5, <1>6, <1>8 DEF f

(* The oldest event comes first, the rest behind it. *)
LEMMA ContentsTake ==
  ASSUME KeyQueueAssumption, NEW S, NEW e \in [KeySlot -> S], NEW t \in KeySlot,
         NEW c \in 1..(BASECON_KEY_QUEUE_SIZE - 1)
  PROVE  KeyContents(e, t, c) = <<e[t]>> \o KeyContents(e, Succ(t), c - 1)
<1>1. /\ c \in Nat /\ c - 1 \in Nat /\ 1 \in 1..BASECON_KEY_QUEUE_SIZE
      /\ c - 1 \in 0..BASECON_KEY_QUEUE_SIZE /\ Len(<<e[t]>>) = 1
  BY SlotIs
<1>2. Place(t, 1) = t
  BY <1>1, PlaceIs, SlotIs
<1>3. \A i \in 1..(c - 1) : Place(Succ(t), i) = Place(t, i + 1)
  <2> TAKE i \in 1..(c - 1)
  <2> DEFINE s == Succ(t)
             j == i + 1
  <2>1. i \in 1..BASECON_KEY_QUEUE_SIZE /\ j \in 1..BASECON_KEY_QUEUE_SIZE /\ j = i + 1
    BY <1>1, SlotIs
  <2>2. s \in KeySlot /\ s = IF t = BASECON_KEY_QUEUE_SIZE - 1 THEN 0 ELSE t + 1
    BY SuccIs
  <2> HIDE DEF s, j
  <2>3. Place(s, i) = IF s + i - 1 < BASECON_KEY_QUEUE_SIZE THEN s + i - 1
                      ELSE s + i - 1 - BASECON_KEY_QUEUE_SIZE
    BY <2>1, <2>2, PlaceIs
  <2>4. Place(t, j) = IF t + j - 1 < BASECON_KEY_QUEUE_SIZE THEN t + j - 1
                      ELSE t + j - 1 - BASECON_KEY_QUEUE_SIZE
    BY <2>1, PlaceIs
  <2>5. Place(s, i) = Place(t, j)
    BY <2>1, <2>2, <2>3, <2>4, SlotIs
  <2> QED BY <2>5 DEF s, j
<1> DEFINE rest == KeyContents(e, Succ(t), c - 1)
<1>4. Succ(t) \in KeySlot
  BY SuccIs
<1>5. rest \in Seq(S) /\ Len(rest) = c - 1
  <2> DEFINE s == Succ(t)
             d == c - 1
  <2> HIDE DEF s, d
  <2>1. s \in KeySlot /\ d \in 0..BASECON_KEY_QUEUE_SIZE
    BY <1>1, <1>4 DEF s, d
  <2>2. KeyContents(e, s, d) \in Seq(S) /\ Len(KeyContents(e, s, d)) = d
    BY <2>1, KeyContentsType
  <2> QED BY <2>2 DEF s, d
<1>6. \A i \in 1..(c - 1) : rest[i] = e[Place(t, i + 1)]
  BY <1>3 DEF KeyContents
<1> HIDE DEF rest
<1>7. <<e[t]>> \o rest = [i \in 1..c |-> IF i = 1 THEN e[t] ELSE rest[i - 1]]
  BY <1>1, <1>5
<1>8. \A i \in 1..c : e[Place(t, i)] = IF i = 1 THEN e[t] ELSE rest[i - 1]
  <2> TAKE i \in 1..c
  <2>1. CASE i = 1
    BY <2>1, <1>2
  <2>2. CASE i # 1
    <3> DEFINE j == i - 1
    <3>1. j \in 1..(c - 1) /\ j + 1 = i
      BY <2>2, <1>1
    <3>2. rest[j] = e[Place(t, j + 1)]
      BY <3>1, <1>6
    <3> QED BY <2>2, <3>1, <3>2
  <2> QED BY <2>1, <2>2
<1>9. KeyContents(e, t, c) = [i \in 1..c |-> IF i = 1 THEN e[t] ELSE rest[i - 1]]
  <2>1. KeyContents(e, t, c) = [i \in 1..c |-> e[Place(t, i)]]
    BY DEF KeyContents
  <2> QED BY <1>8, <2>1, Zenon
<1>10. KeyContents(e, t, c) = <<e[t]>> \o rest
  BY <1>7, <1>9
<1> QED BY <1>10 DEF rest

(* The ring of a state, in these words. *)
LEMMA RingIs ==
  ASSUME KeyQueueAssumption, KeysTypeOK
  PROVE  /\ head \in KeySlot /\ tail \in KeySlot
         /\ Count(head, tail) \in 0..(BASECON_KEY_QUEUE_SIZE - 1)
         /\ Count(head, tail) = 0 <=> head = tail
         /\ Pending \in Seq(Key \cup {NoKey}) /\ Len(Pending) = Count(head, tail)
<1>1. head \in KeySlot /\ tail \in KeySlot /\ events \in [KeySlot -> Key \cup {NoKey}]
  BY DEF KeysTypeOK
<1>2. Count(head, tail) = IF tail <= head THEN head - tail ELSE head - tail + BASECON_KEY_QUEUE_SIZE
  BY <1>1, CountIs
<1>3. /\ Count(head, tail) \in 0..(BASECON_KEY_QUEUE_SIZE - 1)
      /\ Count(head, tail) = 0 <=> head = tail
  BY <1>1, <1>2, SlotIs
<1>4. Count(head, tail) \in 0..BASECON_KEY_QUEUE_SIZE
  BY <1>3, SlotIs
<1> DEFINE c == Count(head, tail)
           Any == Key \cup {NoKey}
<1> HIDE DEF c, Any
<1>5. KeyContents(events, tail, c) \in Seq(Any) /\ Len(KeyContents(events, tail, c)) = c
  <2>1. tail \in KeySlot /\ events \in [KeySlot -> Any] /\ c \in 0..BASECON_KEY_QUEUE_SIZE
    BY <1>1, <1>4 DEF c, Any
  <2> QED BY <2>1, KeyContentsType
<1> QED BY <1>1, <1>3, <1>5, PendingIs DEF c, Any

(* What is in hand is one of the keys accepted. *)
LEMMA InHandAccepted ==
  ASSUME KeyQueueAssumption, KeysSound, at = "process"
  PROVE  ev \in Key
<1> DEFINE Any == Key \cup {NoKey}
<1>1. processed \in Seq(Key) /\ taken \in Seq(Key) /\ ev \in Any /\ InHand = <<ev>>
  BY DEF InHand, KeysSound, KeysTypeOK
<1>2. Pending \in Seq(Any)
  BY RingIs DEF KeysSound
<1>3. taken = processed \o InHand \o Pending
  BY DEF KeysSound, KeysInOrder
<1>4. Len(processed) + 1 \in 1..Len(taken) /\ taken[Len(processed) + 1] = ev
  BY <1>1, <1>2, <1>3
<1> QED BY <1>1, <1>4
------------------------------------------------------------------------------
LEMMA KeysInit ==
  ASSUME KeyQueueAssumption, KeysStart
  PROVE  KeysSound
<1>1. 0 \in KeySlot
  BY SlotIs
<1>2. KeysTypeOK
  BY <1>1 DEF KeysStart, KeysTypeOK
<1>3. Len(Pending) = 0 /\ Pending \in Seq(Key \cup {NoKey})
  BY <1>2, RingIs DEF KeysStart
<1>4. Pending = << >>
  BY <1>3
<1>5. KeysInOrder
  BY <1>4 DEF KeysStart, KeysInOrder, InHand
<1> QED BY <1>2, <1>5 DEF KeysStart, KeysSound, BlockedOnEmpty

LEMMA QueueKeyStep ==
  ASSUME KeyQueueAssumption, KeysSound, BaseconQueueKey
  PROVE  KeysSound'
<1> DEFINE Any == Key \cup {NoKey}
<1>1. KeysTypeOK /\ KeysInOrder /\ BlockedOnEmpty
  BY DEF KeysSound
<1>2. CASE Full
  <2>1. UNCHANGED <<events, head, tail, blocked, handler, taken, at, ev, asleep, processed>>
        /\ keys' = keys + 1
    BY <1>2 DEF BaseconQueueKey, queueVars
  <2>2. KeysTypeOK' /\ BlockedOnEmpty'
    BY <1>1, <2>1 DEF KeysTypeOK, BlockedOnEmpty
  <2>3. KeysInOrder'
    BY <1>1, <2>1 DEF KeysInOrder, InHand, Pending
  <2> QED BY <2>2, <2>3 DEF KeysSound
<1>3. CASE ~Full
  <2> DEFINE c == Count(head, tail)
  <2>1. /\ events' = [events EXCEPT ![head] = keys + 1] /\ head' = Succ(head) /\ tail' = tail
        /\ taken' = Append(taken, keys + 1) /\ processed' = processed /\ InHand' = InHand
        /\ blocked' = FALSE /\ handler' \in {"idle", "wake"} /\ keys' = keys + 1
        /\ UNCHANGED <<at, ev, asleep>>
    BY <1>3 DEF BaseconQueueKey, InHand
  <2>2. keys \in Nat /\ keys + 1 \in Key
    BY <1>1 DEF BaseconQueueKey, KeysTypeOK, KeyQueueAssumption, Key
  <2>3. /\ head \in KeySlot /\ tail \in KeySlot /\ c \in 0..(BASECON_KEY_QUEUE_SIZE - 1)
        /\ Succ(head) \in KeySlot
    BY <1>1, RingIs, SuccIs
  <2>4. KeysTypeOK'
    <3>1. events' \in [KeySlot -> Any]
      BY <1>1, <2>1, <2>2, <2>3 DEF KeysTypeOK
    <3>2. taken' \in Seq(Key) /\ keys' \in Nat
      BY <1>1, <2>1, <2>2 DEF KeysTypeOK
    <3> QED BY <1>1, <2>1, <2>3, <3>1, <3>2 DEF KeysTypeOK
  <2>5. Count(head', tail') = c + 1 /\ Place(tail, c + 1) = head
    <3>1. c = IF tail <= head THEN head - tail ELSE head - tail + BASECON_KEY_QUEUE_SIZE
      BY <2>3, CountIs
    <3>2. Count(Succ(head), tail) = IF tail <= Succ(head) THEN Succ(head) - tail
                                    ELSE Succ(head) - tail + BASECON_KEY_QUEUE_SIZE
      BY <2>3, CountIs
    <3>3. Succ(head) = IF head = BASECON_KEY_QUEUE_SIZE - 1 THEN 0 ELSE head + 1
      BY <2>3, SuccIs
    <3>4. Succ(head) # tail
      BY <1>3 DEF Full
    <3> DEFINE m == c + 1
    <3>5. m \in 1..BASECON_KEY_QUEUE_SIZE
      BY <2>3, SlotIs
    <3>6. Place(tail, m) = IF tail + m - 1 < BASECON_KEY_QUEUE_SIZE THEN tail + m - 1
                           ELSE tail + m - 1 - BASECON_KEY_QUEUE_SIZE
      BY <2>3, <3>5, PlaceIs
    <3>7. Place(tail, m) = head
      BY <2>3, <3>1, <3>6, SlotIs
    <3>8. Count(Succ(head), tail) = c + 1
      <4> DEFINE n == BASECON_KEY_QUEUE_SIZE
                 s == Succ(head)
                 d == Count(s, tail)
      <4>1. /\ n \in Nat \ {0} /\ head \in 0..(n - 1) /\ tail \in 0..(n - 1) /\ s # tail
            /\ s = IF head = n - 1 THEN 0 ELSE head + 1
            /\ c = IF tail <= head THEN head - tail ELSE head - tail + n
            /\ d = IF tail <= s THEN s - tail ELSE s - tail + n
        BY <2>3, <3>1, <3>2, <3>3, <3>4, SlotIs
      <4> HIDE DEF n, s, d, c
      <4>2. head = n - 1 => d = c + 1
        BY <4>1
      <4>3. head # n - 1 => d = c + 1
        BY <4>1
      <4> QED BY <4>2, <4>3 DEF d, s
    <3> QED BY <2>1, <3>7, <3>8
  <2>6. Pending' = Append(Pending, keys + 1)
    <3>1. Pending' = KeyContents(events', tail', Count(head', tail'))
      <4>1. Pending' = [i \in 1..((head' - tail') % BASECON_KEY_QUEUE_SIZE)
                          |-> events'[(tail' + i - 1) % BASECON_KEY_QUEUE_SIZE]]
        BY Zenon DEF Pending
      <4> QED BY <4>1, Zenon DEF KeyContents, Count, Place
    <3>2. events \in [KeySlot -> Any] /\ keys + 1 \in Any
      BY <1>1, <2>2 DEF KeysTypeOK
    <3>3. KeyContents([events EXCEPT ![Place(tail, c + 1)] = keys + 1], tail, c + 1)
            = Append(KeyContents(events, tail, c), keys + 1)
      <4> DEFINE x == keys + 1
      <4>1. /\ events \in [KeySlot -> Any] /\ tail \in KeySlot /\ x \in Any
            /\ c \in 0..(BASECON_KEY_QUEUE_SIZE - 1)
        BY <2>3, <3>2
      <4> HIDE DEF c, x, Any
      <4>2. KeyContents([events EXCEPT ![Place(tail, c + 1)] = x], tail, c + 1)
              = Append(KeyContents(events, tail, c), x)
        BY <4>1, ContentsPut
      <4> QED BY <4>2 DEF x
    <3>4. events' = [events EXCEPT ![Place(tail, c + 1)] = keys + 1] /\ tail' = tail
          /\ Count(head', tail') = c + 1
      BY <2>1, <2>5
    <3>5. Pending' = KeyContents([events EXCEPT ![Place(tail, c + 1)] = keys + 1], tail, c + 1)
      BY <3>1, <3>4
    <3>6. Pending = KeyContents(events, tail, c)
      BY PendingIs
    <3> HIDE DEF c
    <3> QED BY <3>3, <3>5, <3>6
  <2>7. KeysInOrder'
    <3>1. processed \in Seq(Any) /\ Pending \in Seq(Any) /\ keys + 1 \in Any
      BY <1>1, <2>2, RingIs DEF KeysTypeOK
    <3>2. InHand \in Seq(Any)
      <4>1. CASE at = "process"
        <5>1. ev \in Any /\ InHand = <<ev>>
          BY <1>1, <4>1 DEF KeysTypeOK, InHand
        <5> QED BY <5>1
      <4>2. CASE at # "process"
        BY <4>2 DEF InHand
      <4> QED BY <4>1, <4>2
    <3>3. processed \o InHand \o Append(Pending, keys + 1) = Append(processed \o InHand \o Pending, keys + 1)
      <4>1. \A s, t \in Seq(Any) : \A x \in Any : s \o Append(t, x) = Append(s \o t, x)
        OBVIOUS
      <4>2. processed \o InHand \in Seq(Any)
        BY <3>1, <3>2
      <4> QED BY <3>1, <4>1, <4>2
    <3> QED BY <1>1, <2>1, <2>6, <3>3 DEF KeysInOrder
  <2> QED BY <2>1, <2>4, <2>7 DEF KeysSound, BlockedOnEmpty
<1> QED BY <1>2, <1>3

LEMMA TakeKeyStep ==
  ASSUME KeyQueueAssumption, KeysSound, TakeKey
  PROVE  KeysSound'
<1> DEFINE Any == Key \cup {NoKey}
<1>1. KeysTypeOK /\ KeysInOrder /\ BlockedOnEmpty
  BY DEF KeysSound
<1>2. CASE head = tail
  BY <1>1, <1>2 DEF TakeKey, KeysSound, KeysTypeOK, KeysInOrder, BlockedOnEmpty, InHand, Pending
<1>3. CASE head # tail
  <2> DEFINE c == Count(head, tail)
  <2>1. /\ UNCHANGED <<events, head, taken, processed, blocked, handler, asleep, keys>>
        /\ tail' = Succ(tail) /\ ev' = events[tail] /\ at' = "process"
        /\ InHand = << >> /\ InHand' = <<events[tail]>> /\ ~blocked
    BY <1>1, <1>3 DEF TakeKey, InHand, BlockedOnEmpty
  <2>2. /\ head \in KeySlot /\ tail \in KeySlot /\ c \in 1..(BASECON_KEY_QUEUE_SIZE - 1)
        /\ Succ(tail) \in KeySlot /\ events \in [KeySlot -> Any]
    <3>1. c \in 0..(BASECON_KEY_QUEUE_SIZE - 1) /\ c # 0
      BY <1>1, <1>3, RingIs
    <3> HIDE DEF c
    <3>2. c \in 1..(BASECON_KEY_QUEUE_SIZE - 1)
      BY <3>1, SlotIs
    <3> QED BY <1>1, <3>2, RingIs, SuccIs DEF KeysTypeOK
  <2>3. KeysTypeOK'
    BY <1>1, <2>1, <2>2 DEF KeysTypeOK
  <2>4. Count(head, Succ(tail)) = c - 1
    <3>1. c = IF tail <= head THEN head - tail ELSE head - tail + BASECON_KEY_QUEUE_SIZE
      BY <2>2, CountIs
    <3>2. Count(head, Succ(tail)) = IF Succ(tail) <= head THEN head - Succ(tail)
                                    ELSE head - Succ(tail) + BASECON_KEY_QUEUE_SIZE
      BY <2>2, CountIs
    <3>3. Succ(tail) = IF tail = BASECON_KEY_QUEUE_SIZE - 1 THEN 0 ELSE tail + 1
      BY <2>2, SuccIs
    <3> QED BY <1>3, <2>2, <3>1, <3>2, <3>3, SlotIs
  <2>5. Pending = <<events[tail]>> \o Pending'
    <3>1. Pending' = KeyContents(events', tail', Count(head', tail'))
      BY DEF Pending, KeyContents, Count, Place
    <3>2. KeyContents(events, tail, c) = <<events[tail]>> \o KeyContents(events, Succ(tail), c - 1)
      BY <2>2, ContentsTake
    <3> QED BY <2>1, <2>4, <3>1, <3>2, PendingIs
  <2>6. KeysInOrder'
    <3>1. Pending' \in Seq(Any)
      <4>1. KeyContents(events, Succ(tail), c - 1) \in Seq(Any)
        <5>1. c - 1 \in 0..BASECON_KEY_QUEUE_SIZE
          BY <2>2, SlotIs
        <5> QED BY <2>2, <5>1, KeyContentsType
      <4>2. Pending' = KeyContents(events', tail', Count(head', tail'))
        BY DEF Pending, KeyContents, Count, Place
      <4> QED BY <2>1, <2>4, <4>1, <4>2
    <3>2. processed \in Seq(Any) /\ <<events[tail]>> \in Seq(Any)
      BY <1>1, <2>2 DEF KeysTypeOK
    <3>3. processed \o << >> \o (<<events[tail]>> \o Pending') = processed \o <<events[tail]>> \o Pending'
      BY <3>1, <3>2
    <3> QED BY <1>1, <2>1, <2>5, <3>3 DEF KeysInOrder
  <2> QED BY <2>1, <2>3, <2>6 DEF KeysSound, BlockedOnEmpty
<1> QED BY <1>2, <1>3

LEMMA ProcessStep ==
  ASSUME KeyQueueAssumption, KeysSound, BaseconProcessKey
  PROVE  KeysSound'
<1> DEFINE Any == Key \cup {NoKey}
<1>1. KeysTypeOK /\ KeysInOrder /\ BlockedOnEmpty /\ at = "process"
  BY DEF KeysSound, BaseconProcessKey
<1>2. ev \in Key
  BY <1>1, InHandAccepted
<1>3. KeysTypeOK' /\ BlockedOnEmpty'
  BY <1>1, <1>2 DEF BaseconProcessKey, KeysTypeOK, BlockedOnEmpty, queueVars
<1>4. /\ Pending' = Pending /\ InHand = <<ev>> /\ InHand' = << >>
      /\ processed' = Append(processed, ev) /\ taken' = taken
  BY <1>1 DEF BaseconProcessKey, queueVars, Pending, InHand
<1>5. Pending \in Seq(Any) /\ processed \in Seq(Any) /\ ev \in Any
  BY <1>1, <1>2, RingIs DEF KeysTypeOK
<1>6. processed \o <<ev>> \o Pending = Append(processed, ev) \o << >> \o Pending
  BY <1>5
<1>7. KeysInOrder'
  BY <1>1, <1>4, <1>6 DEF KeysInOrder
<1> QED BY <1>3, <1>7 DEF KeysSound

(* The other steps leave ring and hand alone. *)
LEMMA OtherStep ==
  ASSUME KeysSound, TaskWakeup \/ AnnounceBlock \/ TaskBlock \/ UNCHANGED keysVars
  PROVE  KeysSound'
<1>1. KeysTypeOK /\ KeysInOrder /\ BlockedOnEmpty
  BY DEF KeysSound
<1>2. UNCHANGED <<events, head, tail, taken, processed, keys, ev>> /\ InHand' = InHand
  BY DEF TaskWakeup, AnnounceBlock, TaskBlock, keysVars, queueVars, InHand
<1>3. KeysTypeOK'
  BY <1>1, <1>2 DEF KeysTypeOK, TaskWakeup, AnnounceBlock, NeedBlock, TaskBlock, keysVars, queueVars
<1>4. BlockedOnEmpty'
  BY <1>1, <1>2 DEF BlockedOnEmpty, TaskWakeup, AnnounceBlock, NeedBlock, TaskBlock, keysVars, queueVars
<1>5. KeysInOrder'
  BY <1>1, <1>2 DEF KeysInOrder, Pending
<1> QED BY <1>3, <1>4, <1>5 DEF KeysSound

(* Whatever the size of the ring: the indices stay inside it, every key that   *)
(* found room is handled once and in order, and Blocked is set over an empty   *)
(* ring only (BaseconQueueKey and kconsole's loop in Basecon.c).               *)
THEOREM KeysSoundAlways == KeyQueueAssumption => (KeysSpec => []KeysSound)
<1> SUFFICES ASSUME KeyQueueAssumption
             PROVE  KeysSpec => []KeysSound
  OBVIOUS
<1>1. KeysStart => KeysSound
  BY KeysInit
<1>2. KeysSound /\ [KeysNext]_keysVars => KeysSound'
  <2> SUFFICES ASSUME KeysSound, [KeysNext]_keysVars
               PROVE  KeysSound'
    OBVIOUS
  <2>1. CASE BaseconQueueKey
    BY <2>1, QueueKeyStep
  <2>2. CASE TakeKey
    BY <2>2, TakeKeyStep
  <2>3. CASE BaseconProcessKey
    BY <2>3, ProcessStep
  <2>4. CASE TaskWakeup \/ AnnounceBlock \/ TaskBlock \/ UNCHANGED keysVars
    BY <2>4, OtherStep
  <2> QED BY <2>1, <2>2, <2>3, <2>4 DEF KeysNext, KConsole
<1> QED BY <1>1, <1>2, PTL DEF KeysSpec
==============================================================================

--------------------------------- MODULE KObj ---------------------------------
(* Kernel objects (Source/KObj/KObj.c) and the references to them: the tree    *)
(* built at boot, and what every task holds, its channels (Source/Io/StdIo.c), *)
(* its handles and its standard descriptors (Source/Fs/FdTable.c).             *)
(*                                                                             *)
(* RefCount changes by atomic adds, so each is a step of its own when another  *)
(* task could tell.  A path stands for the object it names.                    *)
EXTENDS Integers, FiniteSets

CONSTANTS UserTask, InitTask, KConsoleOut, \* the tasks; the last is the thread kconsoleout
          Handle, \* the indices 0..KOBJ_HANDLE_MAX-1; their order shows nowhere
          Path,   \* bound: the objects programs open
          MaxRootRefs, \* bound: the root's RefCount, which nothing takes down
          NoObj

Task == UserTask \cup {InitTask, KConsoleOut}

ASSUME KObjAssumption ==
  /\ IsFiniteSet(UserTask) /\ IsFiniteSet(Handle)
  /\ InitTask # KConsoleOut /\ {InitTask, KConsoleOut} \cap UserTask = {}
  /\ Handle \cap {"stdout", "stderr", "stdwarn", "fd1", "fd2", "hand"} = {}

(* The objects, each with the directory it is created in. *)
Child == {"Kernel", "Consoles", "Basecon", "Device", "Null", "Zero"}
Obj == Child \cup {"Root"}
Parent == [o \in Child |-> CASE o \in {"Kernel", "Device"} -> "Root"
                             [] o = "Consoles" -> "Kernel"
                             [] o = "Basecon" -> "Consoles"
                             [] OTHER -> "Device"]
Access == {"read", "write"}
ObjAccess(o) == IF o = "Root" THEN {"read"} ELSE Access

ASSUME PathAssumption == Path \subseteq Obj /\ NoObj \notin Obj

(* Where a task keeps a reference.  "hand" is a local of the call in progress, *)
(* and GConsoleOutObj of kconsoleout.  Descriptor 0 has no object: nothing     *)
(* binds standard input.                                                       *)
Out == {"stdout", "stderr", "stdwarn"}
Fd == {"fd1", "fd2"}
Slot == Handle \cup Out \cup Fd \cup {"hand"}

VARIABLES boot,   \* what KMain does next, "run" once the scheduler is up
          objs,   \* the objects in the tree and every RefCount
          tstate, \* is the task there, exited, freed?
          held,   \* the reference in each slot of each task
          access, \* KObjHandle.Access
          pc      \* what the task's call in progress does next

objVars == <<boot, objs, tstate, held, access, pc>>

Empty == [s \in Slot |-> NoObj]

Init ==
  /\ boot = "KObjInit"
  /\ objs = [live |-> {}, refs |-> [o \in Obj |-> 0]]
  /\ tstate = [t \in Task |-> "new"]
  /\ held = [t \in Task |-> Empty]
  /\ access = [t \in Task |-> [h \in Handle |-> {}]]
  /\ pc = [t \in Task |-> "idle"]
------------------------------------------------------------------------------
(* KObjRef, KObjUnref.  The last reference takes the object out of the tree.   *)
(* Its directory keeps the reference the object had on it: Parent is cleared   *)
(* before it is tested.                                                        *)
RefMissing(os, o) == os
Ref(os, o) == [os EXCEPT !.refs[o] = @ + 1]
Unref(os, o) ==
  IF o = "Root" THEN os
  ELSE [live |-> IF os.refs[o] = 1 THEN os.live \ {o} ELSE os.live,
        refs |-> [os.refs EXCEPT ![o] = @ - 1]]

KObjCreate(os, o) ==
  IF o \in os.live THEN os
  ELSE [live |-> os.live \cup {o},
        refs |-> [os.refs EXCEPT ![o] = 1, ![Parent[o]] = @ + 1]]

(* Find a directory or create it: one reference for the caller either way. *)
EnsureDir(os, d) == IF d \in os.live THEN Ref(os, d) ELSE KObjCreate(os, d)

(* Create an object in its directory and give the directory's reference back. *)
CreateIn(os, o) == Unref(KObjCreate(os, o), Parent[o])

EnsureConsolesDir(os) == Unref(EnsureDir(EnsureDir(os, "Kernel"), "Consoles"), "Kernel")

(* References that are not a task's: what a global keeps for good, and one for *)
(* every child.                                                                *)
GlobalRefs(os, o) == IF o \in {"Basecon", "Null", "Zero"} \cap os.live THEN 1 ELSE 0
ChildRefs(os, o) == Cardinality({c \in Child \cap os.live : Parent[c] = o})

(* The first reference of every object of the boot, in KMain's order. *)
KObjInit ==
  /\ boot = "KObjInit" /\ boot' = "StdIoInit"
  /\ objs' = [live |-> {"Root"}, refs |-> [objs.refs EXCEPT !["Root"] = 1]]
  /\ UNCHANGED <<tstate, held, access, pc>>

StdIoInit ==
  /\ boot = "StdIoInit" /\ boot' = "KObjInitNull"
  /\ objs' = CreateIn(EnsureConsolesDir(objs), "Basecon")
  /\ UNCHANGED <<tstate, held, access, pc>>

KObjInitNull ==
  /\ boot = "KObjInitNull" /\ boot' = "KObjInitZero"
  /\ objs' = CreateIn(EnsureDir(objs, "Device"), "Null")
  /\ UNCHANGED <<tstate, held, access, pc>>

KObjInitZero ==
  /\ boot = "KObjInitZero" /\ boot' = "SchedulerInit"
  /\ objs' = CreateIn(EnsureDir(objs, "Device"), "Zero")
  /\ UNCHANGED <<tstate, held, access, pc>>
------------------------------------------------------------------------------
(* A new task shares its creator's channels, or the default console when the   *)
(* creator has none, and its descriptors 1 and 2 are two of them again.        *)
Channels(from) == [c \in Out |-> IF held[from][c] = NoObj THEN "Basecon" ELSE held[from][c]]
Inherited(from) ==
  [s \in Slot |-> CASE s \in Out -> Channels(from)[s]
                    [] s = "fd1" -> Channels(from)["stdout"]
                    [] s = "fd2" -> Channels(from)["stderr"]
                    [] OTHER -> NoObj]
RefAllOnce(os, slots) ==
  [os EXCEPT !.refs = [o \in Obj |-> @[o] + IF \E s \in Slot : slots[s] = o THEN 1 ELSE 0]]
RefAll(os, slots) ==
  [os EXCEPT !.refs = [o \in Obj |-> @[o] + Cardinality({s \in Slot : slots[s] = o})]]

Start(t, from) ==
  /\ tstate[t] = "new"
  /\ tstate' = [tstate EXCEPT ![t] = "running"]
  /\ held' = [held EXCEPT ![t] = Inherited(from)]
  /\ objs' = RefAll(objs, Inherited(from))

(* InitTask has no creator. *)
SchedulerInit ==
  /\ boot = "SchedulerInit" /\ boot' = "run"
  /\ Start(InitTask, InitTask)
  /\ UNCHANGED <<access, pc>>

Runs(t) == boot = "run" /\ tstate[t] = "running"
Idle(t) == Runs(t) /\ pc[t] = "idle"

(* InheritStdChannels, in TaskCreate and UserTaskCreateFromPageTable.  InitTask *)
(* stands for kconsole too, which starts the programs.                         *)
InheritStdChannels(p) ==
  /\ Idle(p) /\ p = InitTask
  /\ \E t \in Task : Start(t, p)
  /\ UNCHANGED <<boot, access, pc>>

(* A task exits between two calls. *)
TaskExit(t) ==
  /\ Idle(t) /\ t \in UserTask
  /\ tstate' = [tstate EXCEPT ![t] = "zombie"]
  /\ UNCHANGED <<boot, objs, held, access, pc>>

Rank(s) == CASE s \in Handle -> 1 [] s \in Out -> 2 [] OTHER -> 3
DropKeepingAccess(t, s) ==
  /\ objs' = Unref(objs, held[t][s])
  /\ held' = [held EXCEPT ![t][s] = NoObj]
  /\ access' = access
Drop(t, s) ==
  /\ objs' = Unref(objs, held[t][s])
  /\ held' = [held EXCEPT ![t][s] = NoObj]
  /\ access' = IF s \in Handle THEN [access EXCEPT ![t][s] = {}] ELSE access

(* Whoever reaps it drops its references one by one, handles first, and frees  *)
(* it.                                                                         *)
FreeTaskResources(t) ==
  /\ tstate[t] = "zombie"
  /\ LET left == {s \in Slot : held[t][s] # NoObj}
     IN \/ \E s \in left : /\ \A r \in left : Rank(s) <= Rank(r)
                           /\ Drop(t, s)
                           /\ UNCHANGED tstate
        \/ /\ left = {}
           /\ tstate' = [tstate EXCEPT ![t] = "freed"]
           /\ UNCHANGED <<objs, held, access>>
  /\ UNCHANGED <<boot, pc>>
------------------------------------------------------------------------------
(* Sys2KosKObjOpenHandler: find the object and take a reference, which goes    *)
(* into a free handle, or back if there is none or the access is not allowed.  *)
FreeHandles(t) == {h \in Handle : held[t][h] = NoObj}

KObjHandleInstall(t, o, a) ==
  \/ /\ a \subseteq ObjAccess(o)
     /\ \E h \in FreeHandles(t) : /\ held' = [held EXCEPT ![t][h] = o]
                                  /\ access' = [access EXCEPT ![t][h] = a]
     /\ UNCHANGED pc
  \/ /\ a \subseteq ObjAccess(o) => FreeHandles(t) = {}
     /\ held' = [held EXCEPT ![t]["hand"] = o]
     /\ pc' = [pc EXCEPT ![t] = "unref"]
     /\ UNCHANGED access

KObjOpen(t) ==
  /\ Idle(t) /\ t \in UserTask
  /\ \E o \in Path \cap objs.live, a \in SUBSET Access \ {{}} :
       /\ objs.refs["Root"] < MaxRootRefs
       /\ objs' = Ref(objs, o)
       /\ KObjHandleInstall(t, o, a)
  /\ UNCHANGED <<boot, tstate>>

(* KObjHandleClose and SysCloseHandler (FdFree): the entry is cleared first. *)
Close(t) ==
  /\ Idle(t) /\ t \in UserTask
  /\ \E s \in Handle \cup Fd :
       /\ held[t][s] # NoObj
       /\ Drop(t, s)
  /\ UNCHANGED <<boot, tstate, pc>>

(* The end of every call that took a reference for its own use. *)
KObjUnref(t) ==
  /\ Runs(t) /\ pc[t] = "unref"
  /\ Drop(t, "hand")
  /\ pc' = [pc EXCEPT ![t] = "idle"]
  /\ UNCHANGED <<boot, tstate>>
------------------------------------------------------------------------------
(* The state keeps its types. *)
ObjTypeOK ==
  /\ boot \in {"KObjInit", "StdIoInit", "KObjInitNull", "KObjInitZero", "SchedulerInit", "run"}
  /\ objs \in [live : SUBSET Obj, refs : [Obj -> Nat]]
  /\ tstate \in [Task -> {"new", "running", "zombie", "freed"}]
  /\ held \in [Task -> [Slot -> Obj \cup {NoObj}]]
  /\ access \in [Task -> [Handle -> SUBSET Access]]
  /\ pc \in [Task -> {"idle", "write", "read", "unref"}]

(* Every reference is accounted for: RefCount is what the globals, the         *)
(* children and the slots of all tasks come to, through creation, inheritance, *)
(* calls in progress, exit and reaping.  The root is never given back.         *)
Holders(hs, o) == {h \in Task \X Slot : hs[h[1]][h[2]] = o}
RefsExact ==
  \A o \in Child : objs.refs[o] = GlobalRefs(objs, o) + ChildRefs(objs, o) + Cardinality(Holders(held, o))

(* KObj.c: the last reference removes the object "so that subsequent lookups   *)
(* don't see a dangling ChildNode".  No task is left with a removed object,    *)
(* and a freed task holds none.                                                *)
NoDangling ==
  \A t \in Task, s \in Slot :
     /\ held[t][s] \in objs.live \cup {NoObj}
     /\ tstate[t] = "freed" => held[t][s] = NoObj

(* A handle never lets its task do what the object does not allow, and a slot  *)
(* that is free again carries no access over to the next object in it.         *)
AccessWithinObject ==
  \A t \in Task, h \in Handle :
     access[t][h] \subseteq IF held[t][h] = NoObj THEN {} ELSE ObjAccess(held[t][h])
=============================================================================

-------------------------------- MODULE Memory --------------------------------
(* Page frames and who owns them: the physical allocator (Mem/PhysAlloc.c),    *)
(* the page tables of user programs (Mem/Paging.c), and all that takes and     *)
(* gives frames: the loader (Elf.c, Cmd/Run.c), brk, mmap and munmap           *)
(* (Syscall.c), page faults (PageFault.c), the growth of the kernel heap       *)
(* (Mem/Allocator.c) and the release of a dead task (Scheduler.c).             *)
(*                                                                             *)
(* Every call of the allocator is one step, under its lock.  A program's       *)
(* tables are changed by one thread at a time: the shell that loads it, then   *)
(* the program, then whoever reaps it.  Addresses are page numbers.            *)
EXTENDS Integers, FiniteSets

CONSTANTS NFrames,    \* TotalPages
          BootFrames, \* frames in use when user programs can start
          NoFrame,
          Space,      \* bound: address spaces, each made once
          Levels,     \* levels of tables, 4 in the code
          Fanout,     \* entries of a table, 512 in the code
          Span,       \* pages under an entry of each level
          Image,      \* the programs: <<first, last + 1>> of their pages; no two
                      \* segments share a page
          MmapStart, MmapMax,    \* USER_MMAP_START, USER_MMAP_MAX
          StackGrow,             \* lowest page a fault adds to the stack
          StackBase, StackTop,   \* USER_STACK_TOP - USER_STACK_DEFAULT, USER_STACK_TOP
          KStackPages,           \* KSTACK_SIZE in pages
          HeapMax,               \* HEAP_MAX_SIZE in pages
          MaxLen,                \* bound: pages of one mmap, munmap or heap growth
          Probe,                 \* bound: pages that calls and faults name
          Budget,                \* bound: spaces made, frames of the heap and calls together
          GrowsBetween           \* may the heap grow between two frees of one space?

Frame == 0..(NFrames - 1)
Va == 0..(StackTop - 1)
BrkMax == StackBase - 1

(* An entry of a table: its level and its place there.  Level 0 is the page    *)
(* itself, an entry of level l > 0 leads to the table of level l.              *)
Leaf(va) == <<0, va>>
Up(va, l) == <<l, va \div Span[l]>>
Tables(va) == {Up(va, l) : l \in 1..Levels}
Root == Up(0, Levels)
Node == {Leaf(va) : va \in Va} \cup UNION {Tables(va) : va \in Va}
Parent(n) == <<n[1] + 1, n[2] \div Fanout>>

(* Where a space keeps a frame.  Hand is the local that holds a page not yet,  *)
(* or no longer, in the tables.                                                *)
Hand == <<Levels + 1, 0>>
Place == Node \cup {Hand}

ASSUME MemoryAssumption ==
  /\ NFrames \in Nat /\ Levels \in Nat \ {0} /\ Fanout \in Nat \ {0, 1}
  /\ Span \in [0..Levels -> Nat \ {0}] /\ Span[0] = 1
  /\ \A l \in 0..(Levels - 1) : Span[l + 1] = Fanout * Span[l]
  /\ StackTop \in 1..Span[Levels]
  /\ 0 <= StackGrow /\ StackGrow <= StackBase /\ StackBase < StackTop
  /\ MmapMax <= StackTop /\ MaxLen <= MmapMax - MmapStart
  /\ {StackGrow, StackBase, MmapStart, MmapMax, HeapMax, MaxLen, Budget} \subseteq Nat
  /\ Probe \subseteq Va /\ KStackPages \in Nat \ {0} /\ GrowsBetween \in BOOLEAN
  /\ BootFrames \subseteq Frame /\ NoFrame \notin Frame
  /\ Image # {} /\ \A im \in Image : im \in (0..BrkMax) \X (0..BrkMax) /\ im[1] < im[2]

VARIABLES used,      \* the bits set in Bitmap
          usedPages, \* UsedPages
          heap,      \* frames the kernel heap has taken
          frame,     \* of each space: the frame in each place, or NoFrame
          life,      \* "none", "loading", "running", "zombie", "gone"
          kstack,    \* the frames of the task's KernelStack
          image,     \* the program in the space
          brk,       \* BrkCurrent
          calls,     \* bound: calls programs have made
          job,       \* what the thread that works on the space is doing
          gone,      \* frames UserTaskCreateFromPageTable freed and the shell frees again
          before,    \* history: the pages mapped when mmap was called
          lost       \* history: frames a mapping replaced

pmm == <<used, usedPages>>
vars == <<used, usedPages, heap, frame, life, kstack, image, brk, calls, job, gone, before, lost>>

(* A job: what for, its step, and the pages [at, hi) it still has to do.  lo   *)
(* is where a rollback starts.                                                 *)
Job(do, step, lo, hi) == [do |-> do, step |-> step, at |-> lo, lo |-> lo, hi |-> hi]
Idle == Job("idle", "none", 0, 0)
Maps == {"elf", "stack", "brk", "mmap", "fixed", "fault"}
Unmaps == {"munmap", "shrink", "fixed"}

Mapped(s, va) == frame[s][Leaf(va)] # NoFrame
Pages(fr) == {<<va, fr[Leaf(va)]>> : va \in {v \in Va : fr[Leaf(v)] # NoFrame}}
Missing(s, va) == {n \in Tables(va) : frame[s][n] = NoFrame}
Put(fr, s, p, f) == [fr EXCEPT ![s][p] = f]

(* The bound on what happens in one run of the model. *)
Spent == Cardinality({s \in Space : life[s] # "none"}) + Cardinality(heap) + calls

Init ==
  /\ used = BootFrames /\ usedPages = Cardinality(BootFrames)
  /\ heap = {} /\ lost = {}
  /\ frame = [s \in Space |-> [p \in Place |-> NoFrame]]
  /\ life = [s \in Space |-> "none"]
  /\ kstack = [s \in Space |-> {}] /\ gone = [s \in Space |-> {}]
  /\ image \in [Space -> {CHOOSE im \in Image : TRUE}]
  /\ brk = [s \in Space |-> 0] /\ calls = 0
  /\ job = [s \in Space |-> Idle]
  /\ before = [s \in Space |-> {}]
------------------------------------------------------------------------------
(* PhysAlloc.c.  A page is the lowest free frame, a range the first that fits; *)
(* a bit that already has its value is not counted.                            *)
CountEveryBit(fs) == used' = used \ fs /\ usedPages' = usedPages - Cardinality(fs)
MarkUsed(fs) == used' = used \cup fs /\ usedPages' = usedPages + Cardinality(fs \ used)
MarkFree(fs) == used' = used \ fs /\ usedPages' = usedPages - Cardinality(fs \cap used)

Full == Frame \subseteq used
AllocatePage(f) ==
  /\ f \in Frame \ used /\ \A g \in Frame \ used : f <= g
  /\ MarkUsed({f})

Run(f, n) == f..(f + n - 1)
FitsShort(f, n) == Run(f, n - 1) \subseteq Frame \ used
Fits(f, n) == Run(f, n) \subseteq Frame \ used
AllocateRange(f, n) ==
  /\ Fits(f, n) /\ \A g \in Frame : g < f => ~Fits(g, n)
  /\ MarkUsed(Run(f, n))
------------------------------------------------------------------------------
(* What comes when a job has done its pages, and when it fails.                *)
Then(s, j) ==
  CASE j.do = "elf" -> Job("stack", "map", StackBase, StackTop)
    [] j.do = "stack" -> Job("task", "none", 0, 0)
    [] j.do = "fixed" /\ j.step = "unmap" -> Job("fixed", "map", j.lo, j.hi)
    [] OTHER -> Idle
RollbackShort(j) ==
  IF j.lo + 1 >= j.at THEN Idle ELSE [j EXCEPT !.step = "back", !.at = j.lo, !.hi = j.at - 1]
Rollback(j) == IF j.lo = j.at THEN Idle ELSE [j EXCEPT !.step = "back", !.at = j.lo, !.hi = j.at]
Failed(j) == CASE j.do \in {"elf", "stack"} -> Job("destroy", "none", 0, 0)
               [] j.do = "fault" -> Idle
               [] OTHER -> Rollback(j)

(* On to the next page.  A finished brk moves the break. *)
Advance(s, j) ==
  LET k == [j EXCEPT !.at = j.at + 1]
  IN  /\ job' = [job EXCEPT ![s] = IF k.at < k.hi THEN k ELSE Then(s, k)]
      /\ brk' = IF k.at = k.hi /\ k.step # "back" /\ k.do \in {"brk", "shrink"}
                THEN [brk EXCEPT ![s] = IF k.do = "brk" THEN k.hi ELSE k.lo]
                ELSE brk

(* A page fault that cannot be served kills the program (SchedulerKill). *)
Fail(s) ==
  /\ job' = [job EXCEPT ![s] = Failed(job[s])]
  /\ life' = IF job[s].do = "fault" THEN [life EXCEPT ![s] = "zombie"] ELSE life

(* ElfAllocPage, PagingMapAnonUserLocked, SysBrkHandler, SysMmapHandler,       *)
(* HandleUserPageFault: one page, in the order all of them share.              *)
TakePage(s) ==
  LET j == job[s]
  IN  /\ j.do \in Maps /\ j.step = "map" /\ frame[s][Hand] = NoFrame
      /\ ~(j.do = "brk" /\ Mapped(s, j.at))
      /\ \/ /\ \E f \in Frame : AllocatePage(f) /\ frame' = Put(frame, s, Hand, f)
            /\ UNCHANGED <<job, life>>
         \/ Full /\ Fail(s) /\ UNCHANGED <<pmm, frame>>
      /\ UNCHANGED <<heap, kstack, image, brk, calls, gone, before, lost>>

(* SysBrkHandler leaves a page that is mapped; until it maps one itself there  *)
(* is nothing to roll back.                                                    *)
SkipPage(s) ==
  LET j == job[s]
  IN  /\ j.do = "brk" /\ j.step = "map" /\ frame[s][Hand] = NoFrame /\ Mapped(s, j.at)
      /\ Advance(s, IF j.lo = j.at THEN [j EXCEPT !.lo = j.at + 1] ELSE j)
      /\ UNCHANGED <<pmm, heap, frame, life, kstack, image, calls, gone, before, lost>>

(* GetNextLevel with AllocTablePage: the missing tables, from the top. *)
AddTable(s) ==
  LET j == job[s]
  IN  /\ j.step = "map" /\ frame[s][Hand] # NoFrame
      /\ \E n \in Missing(s, j.at) :
           /\ \A m \in Missing(s, j.at) : m[1] <= n[1]
           /\ \/ /\ \E f \in Frame : AllocatePage(f) /\ frame' = Put(frame, s, n, f)
                 /\ UNCHANGED job
              \/ /\ Full /\ job' = [job EXCEPT ![s].step = "drop"]
                 /\ UNCHANGED <<pmm, frame>>
      /\ UNCHANGED <<heap, life, kstack, image, brk, calls, gone, before, lost>>

(* PagingMapPageLocked writes the entry, whatever was there. *)
EnterPage(s) ==
  LET j == job[s]
  IN  /\ j.step = "map" /\ frame[s][Hand] # NoFrame /\ Missing(s, j.at) = {}
      /\ frame' = Put(Put(frame, s, Leaf(j.at), frame[s][Hand]), s, Hand, NoFrame)
      /\ lost' = lost \cup {f \in Frame : f = frame[s][Leaf(j.at)]}
      /\ Advance(s, j)
      /\ UNCHANGED <<pmm, heap, life, kstack, image, calls, gone, before>>

(* The walk failed: the page goes back. *)
DropPageKept(s) ==
  /\ job[s].step = "drop"
  /\ frame' = Put(frame, s, Hand, NoFrame)
  /\ Fail(s)
  /\ UNCHANGED <<pmm, heap, kstack, image, brk, calls, gone, before, lost>>

DropPage(s) ==
  /\ job[s].step = "drop"
  /\ MarkFree({frame[s][Hand]}) /\ frame' = Put(frame, s, Hand, NoFrame)
  /\ Fail(s)
  /\ UNCHANGED <<heap, kstack, image, brk, calls, gone, before, lost>>

(* PagingUnmapPage, then PhysAllocFreePage: the loops of SysMunmapHandler, of  *)
(* a falling break, of MAP_FIXED, and of the rollbacks.                        *)
UnmapPage(s) ==
  LET j == job[s]
  IN  /\ j.step \in {"unmap", "back"} /\ frame[s][Hand] = NoFrame
      /\ IF Mapped(s, j.at)
         THEN /\ frame' = Put(Put(frame, s, Hand, frame[s][Leaf(j.at)]), s, Leaf(j.at), NoFrame)
              /\ UNCHANGED <<job, brk>>
         ELSE Advance(s, j) /\ UNCHANGED frame
      /\ UNCHANGED <<pmm, heap, life, kstack, image, calls, gone, before, lost>>

FreePage(s) ==
  LET j == job[s]
  IN  /\ j.step \in {"unmap", "back"} /\ frame[s][Hand] # NoFrame
      /\ MarkFree({frame[s][Hand]}) /\ frame' = Put(frame, s, Hand, NoFrame)
      /\ Advance(s, j)
      /\ UNCHANGED <<heap, life, kstack, image, calls, gone, before, lost>>
------------------------------------------------------------------------------
(* CmdRunHandler.  The shell runs one program and waits for it (CmdRunWait),   *)
(* so the previous one is a zombie, perhaps still being freed.                 *)
CmdRun(s, im) ==
  /\ Spent < Budget /\ life[s] = "none" /\ \A r \in Space : life[r] \notin {"loading", "running"}
  /\ life' = [life EXCEPT ![s] = "loading"] /\ image' = [image EXCEPT ![s] = im]
  /\ job' = [job EXCEPT ![s] = Job("root", "none", 0, 0)]
  /\ UNCHANGED <<pmm, heap, frame, kstack, brk, calls, gone, before, lost>>

(* PagingCreateUserAddressSpace, then ElfLoadFromFile starts on its segments. *)
CreateRoot(s) ==
  /\ job[s].do = "root"
  /\ \/ /\ \E f \in Frame : AllocatePage(f) /\ frame' = Put(frame, s, Root, f)
        /\ job' = [job EXCEPT ![s] = Job("elf", "map", image[s][1], image[s][2])]
        /\ UNCHANGED life
     \/ /\ Full /\ job' = [job EXCEPT ![s] = Idle] /\ life' = [life EXCEPT ![s] = "gone"]
        /\ UNCHANGED <<pmm, frame>>
  /\ UNCHANGED <<heap, kstack, image, brk, calls, gone, before, lost>>

(* The file is short or the disk fails, after a page has been mapped. *)
ReadFails(s) ==
  /\ \/ job[s].do = "elf" /\ job[s].at > job[s].lo
     \/ job[s].do = "stack" /\ job[s].at = job[s].lo
  /\ frame[s][Hand] = NoFrame
  /\ job' = [job EXCEPT ![s] = Job("destroy", "none", 0, 0)]
  /\ UNCHANGED <<pmm, heap, frame, life, kstack, image, brk, calls, gone, before, lost>>

(* OutHeapStart: the heap of the program starts after its last page. *)
HeapStartMin(s) == image[s][1]
HeapStart(s) == image[s][2]

(* UserTaskCreateFromPageTable: the Task from the heap, then its kernel stack. *)
(* When there is no room for the stack it destroys the space, and so does its  *)
(* caller.                                                                     *)
CreateTask(s) ==
  /\ job[s].do = "task"
  /\ \/ /\ \E f \in Frame : /\ AllocateRange(f, KStackPages)
                            /\ kstack' = [kstack EXCEPT ![s] = Run(f, KStackPages)]
        /\ life' = [life EXCEPT ![s] = "running"] /\ brk' = [brk EXCEPT ![s] = HeapStart(s)]
        /\ job' = [job EXCEPT ![s] = Idle]
     \/ /\ \A f \in Frame : ~Fits(f, KStackPages)
        /\ job' = [job EXCEPT ![s] = Job("twice", "none", 0, 0)]
        /\ UNCHANGED <<pmm, kstack, life, brk>>
     \/ /\ job' = [job EXCEPT ![s] = Job("destroy", "none", 0, 0)]
        /\ UNCHANGED <<pmm, kstack, life, brk>>
  /\ UNCHANGED <<heap, frame, image, calls, gone, before, lost>>

(* PagingDestroyUserAddressSpace: pages before their table, low before high. *)
Present(s) == {n \in Node : frame[s][n] # NoFrame}
TableFirst(m, n) == \/ (m[2] + 1) * Span[m[1]] < (n[2] + 1) * Span[n[1]]
                    \/ (m[2] + 1) * Span[m[1]] = (n[2] + 1) * Span[n[1]] /\ m[1] > n[1]
Precedes(m, n) == \/ (m[2] + 1) * Span[m[1]] < (n[2] + 1) * Span[n[1]]
                  \/ (m[2] + 1) * Span[m[1]] = (n[2] + 1) * Span[n[1]] /\ m[1] < n[1]
Destroy(s) ==
  /\ job[s].do \in {"destroy", "twice"}
  /\ \E n \in Present(s) :
       /\ \A m \in Present(s) \ {n} : Precedes(n, m)
       /\ MarkFree({frame[s][n]}) /\ frame' = Put(frame, s, n, NoFrame)
       /\ gone' = IF job[s].do = "twice" THEN [gone EXCEPT ![s] = @ \cup {frame[s][n]}] ELSE gone
       /\ IF n # Root THEN UNCHANGED <<job, life>>
          ELSE IF job[s].do = "twice"
          THEN job' = [job EXCEPT ![s] = Job("again", "none", 0, 0)] /\ UNCHANGED life
          ELSE job' = [job EXCEPT ![s] = Idle] /\ life' = [life EXCEPT ![s] = "gone"]
  /\ UNCHANGED <<heap, kstack, image, brk, calls, before, lost>>

(* The second time the tables are read from frames that are free.  They still  *)
(* say what they said if nobody has taken them since.                          *)
DestroyAgain(s) ==
  /\ job[s].do = "again"
  /\ MarkFree(gone[s]) /\ gone' = [gone EXCEPT ![s] = {}]
  /\ job' = [job EXCEPT ![s] = Idle] /\ life' = [life EXCEPT ![s] = "gone"]
  /\ UNCHANGED <<heap, frame, kstack, image, brk, calls, before, lost>>

(* TaskExit, from a system call or from anywhere in the program. *)
TaskExit(s) ==
  /\ life[s] = "running" /\ job[s] = Idle
  /\ life' = [life EXCEPT ![s] = "zombie"]
  /\ UNCHANGED <<pmm, heap, frame, kstack, image, brk, calls, job, gone, before, lost>>

(* FreeTaskResources: the kernel stack, then the space. *)
FreeTaskResources(s) ==
  /\ life[s] = "zombie" /\ job[s] = Idle
  /\ MarkFree(kstack[s]) /\ kstack' = [kstack EXCEPT ![s] = {}]
  /\ job' = [job EXCEPT ![s] = Job("destroy", "none", 0, 0)]
  /\ UNCHANGED <<heap, frame, life, image, brk, calls, gone, before, lost>>
------------------------------------------------------------------------------
(* The calls of a running program.  Each sets a job; the steps above do it.    *)
Call(s, j) ==
  /\ life[s] = "running" /\ job[s] = Idle
  /\ Spent < Budget /\ calls' = calls + 1
  /\ job' = [job EXCEPT ![s] = j]
  /\ UNCHANGED <<pmm, heap, frame, life, kstack, image, brk, gone, lost>>

SysBrk(s, to) ==
  /\ to \in image[s][2]..BrkMax
  /\ \/ to > brk[s] /\ Call(s, Job("brk", "map", brk[s], to))
     \/ to < brk[s] /\ Call(s, Job("shrink", "unmap", to, brk[s]))
  /\ UNCHANGED before

FreeFrom(s, va, n) == \A v \in Run(va, n) : ~Mapped(s, v)
SysMmap(s, n) ==
  \E va \in MmapStart..(MmapMax - n) :
    /\ FreeFrom(s, va, n) /\ \A v \in MmapStart..(va - 1) : ~FreeFrom(s, v, n)
    /\ Call(s, Job("mmap", "map", va, va + n))
    /\ before' = [before EXCEPT ![s] = Pages(frame[s])]

SysMmapFixed(s, va, n) ==
  /\ va > 0 /\ va + n <= StackTop
  /\ Call(s, Job("fixed", "unmap", va, va + n))
  /\ UNCHANGED before

SysMunmap(s, va, n) ==
  /\ va \in Va /\ va + n <= StackBase /\ \E im \in Image : va >= im[1]
  /\ Call(s, Job("munmap", "unmap", va, va + n))
  /\ UNCHANGED before

(* HandleUserPageFault serves every fault in the stack's region, and any other *)
(* on a page that is not mapped.  The rest kill the program: TaskExit.         *)
PageFault(s, va) ==
  /\ va >= StackGrow \/ ~Mapped(s, va)
  /\ Call(s, Job("fault", "map", va, va + 1))
  /\ UNCHANGED before

(* HeapExpandLocked, in whatever thread allocates. *)
HeapExpand(n) ==
  /\ Cardinality(heap) + n <= HeapMax /\ Spent + n <= Budget
  /\ GrowsBetween \/ \A s \in Space : gone[s] = {}
  /\ \E f \in Frame : AllocateRange(f, n) /\ heap' = heap \cup Run(f, n)
  /\ UNCHANGED <<frame, life, kstack, image, brk, calls, job, gone, before, lost>>

Step(s) ==
  \/ TakePage(s) \/ SkipPage(s) \/ AddTable(s) \/ EnterPage(s) \/ DropPage(s)
  \/ UnmapPage(s) \/ FreePage(s)
  \/ CreateRoot(s) \/ ReadFails(s) \/ CreateTask(s) \/ Destroy(s) \/ DestroyAgain(s)
  \/ TaskExit(s) \/ FreeTaskResources(s)
  \/ \E im \in Image : CmdRun(s, im)
  \/ \E to \in Probe : SysBrk(s, to)
  \/ \E n \in 1..MaxLen : SysMmap(s, n)
  \/ \E va \in Probe, n \in 1..MaxLen : SysMmapFixed(s, va, n) \/ SysMunmap(s, va, n)
  \/ \E va \in Probe : PageFault(s, va)

Next == (\E s \in Space : Step(s)) \/ \E n \in 1..MaxLen : HeapExpand(n)

Spec == Init /\ [][Next]_vars
------------------------------------------------------------------------------
(* Types, and the break stays between the program and the stack. *)
TypeOK ==
  /\ used \subseteq Frame /\ usedPages \in Int
  /\ heap \subseteq Frame /\ lost \subseteq Frame
  /\ frame \in [Space -> [Place -> Frame \cup {NoFrame}]]
  /\ life \in [Space -> {"none", "loading", "running", "zombie", "gone"}]
  /\ kstack \in [Space -> SUBSET Frame] /\ gone \in [Space -> SUBSET Frame]
  /\ \A s \in Space : life[s] = "running" => brk[s] \in image[s][2]..BrkMax

(* The counter UsedPages says how many bits are set, through every double mark *)
(* (PhysAllocMarkRangeLocked) and double free (PhysAllocFreePageLocked).       *)
UsedExact == usedPages = Cardinality(used)

(* The frames in use by a space, by the kernel stack of its task. *)
Owned(s) == {frame[s][p] : p \in {q \in Place : frame[s][q] # NoFrame}} \cup kstack[s]

(* A frame belongs to one owner and one place: no page is in two programs, in  *)
(* a program and a table, on a kernel stack and in the heap, and none is free  *)
(* while owned.  Taking a frame and mapping it, or unmapping it and freeing    *)
(* it, are steps others interleave with; rollbacks and the destruction of a    *)
(* half-built space must give each frame back once.                            *)
OneOwner ==
  /\ BootFrames \cup heap \subseteq used /\ BootFrames \cap heap = {}
  /\ \A s \in Space :
       /\ Owned(s) \subseteq used \ (BootFrames \cup heap)
       /\ \A p, q \in Place : frame[s][p] = frame[s][q] /\ p # q => frame[s][p] = NoFrame
       /\ \A p \in Place : frame[s][p] \notin kstack[s]
       /\ \A r \in Space \ {s} : Owned(s) \cap Owned(r) = {}

(* Nothing leaks: every frame in use has an owner, except those a mapping has  *)
(* replaced, which only a fault on a present stack page does (and those are    *)
(* lost for good).                                                             *)
Accounted == used = BootFrames \cup heap \cup lost \cup UNION {Owned(s) : s \in Space}

(* A table that is there can be reached, so the walk that destroys the space   *)
(* finds every frame; it must not free a table before what it leads to.        *)
TreeClosed ==
  \A s \in Space : \A n \in Node \ {Root} :
    frame[s][n] # NoFrame => frame[s][Parent(n)] # NoFrame

(* An mmap without MAP_FIXED maps the whole range, or leaves the program's     *)
(* pages as they were, when memory runs out at any page or any table.          *)
MmapAllOrNothing ==
  [][\A s \in Space : job[s].do = "mmap" /\ job'[s].do = "idle" =>
       \/ Pages(frame'[s]) = before[s]
       \/ /\ before[s] \subseteq Pages(frame'[s])
          /\ {p[1] : p \in Pages(frame'[s]) \ before[s]} = job[s].lo..(job[s].hi - 1)]_vars
==============================================================================

----------------------------- MODULE MemoryProofs -----------------------------
(* Frames and their owners, the tables as a tree, and what an mmap leaves, for *)
(* any memory, any programs and any tables.  And the kernel heap, for any      *)
(* sizes: its blocks are one linked tiling of its memory that loses no         *)
(* allocation, as long as it grows behind its end.                             *)
EXTENDS Memory, Heap, ProofBasics, FiniteSetTheorems

Frames == [Space -> [Place -> Frame \cup {NoFrame}]]
Stacks == [Space -> SUBSET Frame]

(* The owners do not overlap, and own all that is in use: places of the spaces *)
(* (fr), kernel stacks (ks), and what no program holds (k).                    *)
Apart(u, fr, ks, k) ==
  /\ \A s, r \in Space : \A p, q \in Place :
       fr[s][p] = fr[r][q] /\ fr[s][p] # NoFrame => s = r /\ p = q
  /\ \A s \in Space : \A p \in Place : fr[s][p] # NoFrame => fr[s][p] \in u \ k
  /\ \A s, r \in Space : \A p \in Place : fr[s][p] \notin ks[r]
  /\ \A s, r \in Space : s # r => ks[s] \cap ks[r] = {}
  /\ \A s \in Space : ks[s] \subseteq u \ k
  /\ k \subseteq u
Covers(u, fr, ks, k) ==
  \A f \in u : \/ f \in k
               \/ \E s \in Space : f \in ks[s]
               \/ \E s \in Space : \E p \in Place : fr[s][p] = f
------------------------------------------------------------------------------
LEMMA PutAt ==
  ASSUME NEW fr \in Frames, NEW s \in Space, NEW p \in Place, NEW f \in Frame \cup {NoFrame},
         NEW fr2, fr2 = Put(fr, s, p, f)
  PROVE  /\ fr2 \in Frames /\ fr2[s][p] = f
         /\ \A r \in Space : \A q \in Place : r # s \/ q # p => fr2[r][q] = fr[r][q]
BY DEF Put, Frames

LEMMA NoFrameApart == NoFrame \notin Frame
BY MemoryAssumption

(* A frame taken from the allocator into an empty place. *)
LEMMA TakeApart ==
  ASSUME NEW u \in SUBSET Frame, NEW fr \in Frames, NEW ks \in Stacks, NEW k,
         Apart(u, fr, ks, k), Covers(u, fr, ks, k),
         NEW s \in Space, NEW p \in Place, fr[s][p] = NoFrame, NEW f \in Frame \ u,
         NEW fr2, fr2 = Put(fr, s, p, f)
  PROVE  Apart(u \cup {f}, fr2, ks, k) /\ Covers(u \cup {f}, fr2, ks, k)
<1>1. /\ fr2 \in Frames /\ fr2[s][p] = f
      /\ \A r \in Space : \A q \in Place : r # s \/ q # p => fr2[r][q] = fr[r][q]
  BY PutAt
<1>2. f # NoFrame
  BY NoFrameApart
<1>3. \A r \in Space : f \notin ks[r]
  BY DEF Apart
<1>4. \A r \in Space : \A q \in Place : fr[r][q] # f
  BY <1>2 DEF Apart
<1>5. Apart(u \cup {f}, fr2, ks, k)
  BY <1>1, <1>2, <1>3, <1>4 DEF Apart
<1>6. Covers(u \cup {f}, fr2, ks, k)
  <2> SUFFICES ASSUME NEW g \in u, g \notin k, \A r \in Space : g \notin ks[r]
               PROVE  \E r \in Space : \E q \in Place : fr2[r][q] = g
    BY <1>1 DEF Covers
  <2>1. PICK r \in Space, q \in Place : fr[r][q] = g
    BY DEF Covers
  <2>2. g # NoFrame
    BY NoFrameApart
  <2> QED BY <1>1, <2>1, <2>2
<1> QED BY <1>5, <1>6

(* A place emptied, its frame given back. *)
LEMMA GiveApart ==
  ASSUME NEW u \in SUBSET Frame, NEW fr \in Frames, NEW ks \in Stacks, NEW k,
         Apart(u, fr, ks, k), Covers(u, fr, ks, k),
         NEW s \in Space, NEW p \in Place,
         NEW fr2, fr2 = Put(fr, s, p, NoFrame)
  PROVE  Apart(u \ {fr[s][p]}, fr2, ks, k) /\ Covers(u \ {fr[s][p]}, fr2, ks, k)
<1> DEFINE f == fr[s][p]
<1>1. /\ fr2 \in Frames /\ fr2[s][p] = NoFrame
      /\ \A r \in Space : \A q \in Place : r # s \/ q # p => fr2[r][q] = fr[r][q]
  BY PutAt
<1>2. \A r \in Space : NoFrame \notin ks[r] /\ f \notin ks[r]
  BY NoFrameApart DEF Apart, Stacks
<1>3. NoFrame \notin u
  BY NoFrameApart
<1>4. f \notin k
  BY <1>3 DEF Apart
<1>5. Apart(u \ {f}, fr2, ks, k)
  BY <1>1, <1>2, <1>3, <1>4 DEF Apart
<1>6. Covers(u \ {f}, fr2, ks, k)
  <2> SUFFICES ASSUME NEW g \in u, g # f, g \notin k, \A r \in Space : g \notin ks[r]
               PROVE  \E r \in Space : \E q \in Place : fr2[r][q] = g
    BY DEF Covers
  <2>1. PICK r \in Space, q \in Place : fr[r][q] = g
    BY DEF Covers
  <2> QED BY <1>1, <2>1
<1> QED BY <1>5, <1>6

(* A frame moved from one place of a space to another; what was there is lost. *)
LEMMA MoveApart ==
  ASSUME NEW u \in SUBSET Frame, NEW fr \in Frames, NEW ks \in Stacks, NEW k,
         Apart(u, fr, ks, k), Covers(u, fr, ks, k),
         NEW s \in Space, NEW p \in Place, NEW q \in Place, p # q, fr[s][p] # NoFrame,
         NEW fr2, fr2 = Put(Put(fr, s, q, fr[s][p]), s, p, NoFrame),
         NEW k2, k2 = k \cup {f \in Frame : f = fr[s][q]}
  PROVE  fr2 \in Frames /\ Apart(u, fr2, ks, k2) /\ Covers(u, fr2, ks, k2)
<1> DEFINE fr1 == Put(fr, s, q, fr[s][p])
<1>1. fr[s][p] \in Frame \cup {NoFrame} /\ fr[s][q] \in Frame \cup {NoFrame}
  BY DEF Frames
<1>2. /\ fr1 \in Frames /\ fr1[s][q] = fr[s][p]
      /\ \A r \in Space : \A x \in Place : r # s \/ x # q => fr1[r][x] = fr[r][x]
  BY <1>1, PutAt
<1>3. fr2 = Put(fr1, s, p, NoFrame)
  OBVIOUS
<1> HIDE DEF fr1
<1>4. /\ fr2 \in Frames /\ fr2[s][p] = NoFrame
      /\ \A r \in Space : \A x \in Place : r # s \/ x # p => fr2[r][x] = fr1[r][x]
  BY <1>2, <1>3, PutAt
<1>5. /\ fr2[s][q] = fr[s][p]
      /\ \A r \in Space : \A x \in Place : r # s \/ x \notin {p, q} => fr2[r][x] = fr[r][x]
  BY <1>2, <1>4
<1>6. k2 \subseteq u
  <2>1. k \subseteq u
    BY DEF Apart
  <2>2. fr[s][q] # NoFrame => fr[s][q] \in u
    BY DEF Apart
  <2> QED BY <2>1, <2>2, NoFrameApart
<1>7. \A r \in Space : NoFrame \notin ks[r] /\ fr[s][p] \notin ks[r] /\ fr[s][q] \notin ks[r]
  BY NoFrameApart DEF Apart, Stacks
<1>8. \A r \in Space : \A x \in Place : fr2[r][x] # NoFrame =>
        /\ fr2[r][x] \in u \ k
        /\ fr2[r][x] # fr[s][q]
  BY <1>4, <1>5 DEF Apart
<1>9. \A r, t \in Space : \A x, y \in Place :
        fr2[r][x] = fr2[t][y] /\ fr2[r][x] # NoFrame => r = t /\ x = y
  BY <1>4, <1>5 DEF Apart
<1>10. \A r, t \in Space : \A x \in Place : fr2[r][x] \notin ks[t]
  BY <1>4, <1>5, <1>7 DEF Apart
<1>11. Apart(u, fr2, ks, k2)
  <2>1. \A r \in Space : ks[r] \subseteq u \ k2
    BY <1>7 DEF Apart
  <2> QED BY <1>6, <1>8, <1>9, <1>10, <2>1 DEF Apart
<1>12. Covers(u, fr2, ks, k2)
  <2> SUFFICES ASSUME NEW g \in u, g \notin k2, \A r \in Space : g \notin ks[r]
               PROVE  \E r \in Space : \E x \in Place : fr2[r][x] = g
    BY DEF Covers
  <2>1. PICK r \in Space, x \in Place : fr[r][x] = g
    BY DEF Covers
  <2>2. ~(r = s /\ x = q)
    BY <2>1
  <2> QED BY <1>5, <2>1, <2>2
<1> QED BY <1>4, <1>11, <1>12

(* A kernel stack taken, and given back. *)
LEMMA StackApart ==
  ASSUME NEW u \in SUBSET Frame, NEW fr \in Frames, NEW ks \in Stacks, NEW k,
         Apart(u, fr, ks, k), Covers(u, fr, ks, k),
         NEW s \in Space, ks[s] = {}, NEW F \in SUBSET (Frame \ u),
         NEW ks2, ks2 = [ks EXCEPT ![s] = F]
  PROVE  ks2 \in Stacks /\ Apart(u \cup F, fr, ks2, k) /\ Covers(u \cup F, fr, ks2, k)
<1>1. ks2 \in Stacks /\ ks2[s] = F /\ \A r \in Space : r # s => ks2[r] = ks[r]
  BY DEF Stacks
<1>2. \A r \in Space : \A p \in Place : fr[r][p] \notin F
  BY NoFrameApart DEF Apart
<1>3. \A r \in Space : ks[r] \cap F = {}
  BY DEF Apart
<1>4. Apart(u \cup F, fr, ks2, k)
  BY <1>1, <1>2, <1>3 DEF Apart
<1>5. Covers(u \cup F, fr, ks2, k)
  <2> SUFFICES ASSUME NEW g \in u, g \notin k, ~ \E r \in Space : \E x \in Place : fr[r][x] = g
               PROVE  \E r \in Space : g \in ks2[r]
    BY <1>1 DEF Covers
  <2>1. PICK r \in Space : g \in ks[r]
    BY DEF Covers
  <2> QED BY <1>1, <2>1
<1> QED BY <1>1, <1>4, <1>5

LEMMA UnstackApart ==
  ASSUME NEW u \in SUBSET Frame, NEW fr \in Frames, NEW ks \in Stacks, NEW k,
         Apart(u, fr, ks, k), Covers(u, fr, ks, k),
         NEW s \in Space, NEW ks2, ks2 = [ks EXCEPT ![s] = {}]
  PROVE  ks2 \in Stacks /\ Apart(u \ ks[s], fr, ks2, k) /\ Covers(u \ ks[s], fr, ks2, k)
<1>1. ks2 \in Stacks /\ ks2[s] = {} /\ \A r \in Space : r # s => ks2[r] = ks[r]
  BY DEF Stacks
<1>2. \A r \in Space : \A p \in Place : fr[r][p] # NoFrame => fr[r][p] \in (u \ ks[s]) \ k
  BY DEF Apart
<1>3. k \subseteq u \ ks[s]
  BY DEF Apart
<1>4. \A r \in Space : ks2[r] \subseteq (u \ ks[s]) \ k
  BY <1>1 DEF Apart
<1>5. Apart(u \ ks[s], fr, ks2, k)
  BY <1>1, <1>2, <1>3, <1>4 DEF Apart
<1>6. Covers(u \ ks[s], fr, ks2, k)
  <2> SUFFICES ASSUME NEW g \in u, g \notin ks[s], g \notin k,
                      ~ \E r \in Space : \E x \in Place : fr[r][x] = g
               PROVE  \E r \in Space : g \in ks2[r]
    BY <1>1 DEF Covers
  <2>1. PICK r \in Space : g \in ks[r]
    BY DEF Covers
  <2> QED BY <1>1, <2>1
<1> QED BY <1>1, <1>5, <1>6

(* Frames taken by the heap. *)
LEMMA GrowApart ==
  ASSUME NEW u \in SUBSET Frame, NEW fr \in Frames, NEW ks \in Stacks, NEW k,
         Apart(u, fr, ks, k), Covers(u, fr, ks, k), NEW F \in SUBSET (Frame \ u)
  PROVE  Apart(u \cup F, fr, ks, k \cup F) /\ Covers(u \cup F, fr, ks, k \cup F)
<1>1. \A r \in Space : \A p \in Place : fr[r][p] \notin F
  BY NoFrameApart DEF Apart
<1>2. \A r \in Space : ks[r] \cap F = {}
  BY DEF Apart
<1>3. Apart(u \cup F, fr, ks, k \cup F)
  BY <1>1, <1>2 DEF Apart
<1> QED BY <1>3 DEF Covers
------------------------------------------------------------------------------
(* The counter, whatever is marked. *)
LEMMA FrameFinite == \A S \in SUBSET Frame : IsFiniteSet(S) /\ Cardinality(S) \in Nat
<1>1. IsFiniteSet(Frame)
  BY MemoryAssumption, FS_Interval DEF Frame
<1> QED BY <1>1, FS_Subset, FS_CardinalityType

LEMMA MarksExact ==
  ASSUME used \subseteq Frame, UsedExact, NEW fs,
         (fs \subseteq Frame /\ MarkUsed(fs)) \/ MarkFree(fs)
  PROVE  used' \subseteq Frame /\ UsedExact'
<1>1. IsFiniteSet(used) /\ Cardinality(used) \in Nat
  BY FrameFinite
<1>2. CASE fs \subseteq Frame /\ MarkUsed(fs)
  <2>1. fs \ used \in SUBSET Frame
    BY <1>2
  <2>2. IsFiniteSet(fs \ used) /\ Cardinality(fs \ used) \in Nat
    BY <2>1, FrameFinite
  <2>3. Cardinality(used \cup (fs \ used))
          = Cardinality(used) + Cardinality(fs \ used) - Cardinality(used \cap (fs \ used))
    BY <1>1, <2>2, FS_Union
  <2>4. used \cup (fs \ used) = used \cup fs /\ used \cap (fs \ used) = {}
    OBVIOUS
  <2>5. Cardinality({}) = 0
    BY FS_EmptySet
  <2>6. Cardinality(used \cup fs) = Cardinality(used) + Cardinality(fs \ used) - 0
    BY <2>3, <2>4, <2>5, Zenon
  <2> QED BY <1>1, <1>2, <2>2, <2>6 DEF MarkUsed, UsedExact
<1>3. CASE MarkFree(fs)
  <2>1. Cardinality(used \ fs) = Cardinality(used) - Cardinality(used \cap fs)
    BY <1>1, FS_Difference
  <2>2. used \cap fs = fs \cap used
    OBVIOUS
  <2>3. Cardinality(used \ fs) = Cardinality(used) - Cardinality(fs \cap used)
    BY <2>1, <2>2, Zenon
  <2> QED BY <1>3, <2>3 DEF MarkFree, UsedExact
<1> QED BY <1>2, <1>3
------------------------------------------------------------------------------
(* What each thread is at, and what that says about its space. *)
Lives == {"none", "loading", "running", "zombie", "gone"}
Loads == {"root", "elf", "stack", "task", "twice", "again"}
Calls == {"brk", "shrink", "mmap", "fixed", "fault", "munmap"}
Jobs == [do : Loads \cup Calls \cup {"idle", "destroy"},
         step : {"none", "map", "drop", "unmap", "back"}, at : Nat, lo : Nat, hi : Nat]

Typed ==
  /\ used \subseteq Frame /\ heap \subseteq Frame /\ lost \subseteq Frame
  /\ frame \in Frames /\ kstack \in Stacks /\ gone \in Stacks
  /\ life \in [Space -> Lives] /\ image \in [Space -> Image]
  /\ brk \in [Space -> Nat] /\ job \in [Space -> Jobs]

JobOK(j, l, im) ==
  /\ j.do \in Loads => l = "loading"
  /\ j.do \in Calls => l = "running"
  /\ j.do = "destroy" => l \in {"loading", "zombie"}
  /\ j.step # "none" => j.do \in Maps \cup Unmaps /\ j.lo <= j.at /\ j.at < j.hi /\ j.hi <= StackTop
  /\ j.step \in {"map", "drop"} => j.do \in Maps
  /\ j.step = "unmap" => j.do \in Unmaps
  /\ j.do = "brk" /\ j.step \in {"map", "drop"} => j.hi \in im[2]..BrkMax
  /\ j.do = "shrink" => j.step = "unmap" /\ j.lo \in im[2]..BrkMax

JobsOK == \A s \in Space : JobOK(job[s], life[s], image[s])
BreakOK == \A s \in Space : life[s] = "running" => brk[s] \in image[s][2]..BrkMax
OneBusy == \A s, r \in Space : {life[s], life[r]} \subseteq {"loading", "running"} => s = r
Fresh == \A s \in Space :
  life[s] = "none" \/ job[s].do = "root" => \A p \in Place : frame[s][p] = NoFrame
Unstacked == \A s \in Space : life[s] \in {"none", "loading"} => kstack[s] = {}
GoneOnce == \A s \in Space : gone[s] # {} => job[s].do \in {"twice", "again"}

Phases ==
  /\ Typed /\ UsedExact /\ JobsOK /\ BreakOK /\ OneBusy /\ Fresh /\ Unstacked /\ GoneOnce

LEMMA Bounds ==
  /\ StackTop \in Nat /\ StackBase \in Nat /\ StackBase < StackTop /\ StackTop > 0
  /\ BrkMax \in Int /\ BrkMax < StackBase
  /\ \A im \in Image : im[1] \in Nat /\ im[2] \in Nat /\ im[1] < im[2] /\ im[2] <= BrkMax
<1>1. StackBase \in Nat /\ StackBase < StackTop /\ Span[Levels] \in Nat /\ StackTop \in 1..Span[Levels]
  BY MemoryAssumption
<1>2. StackTop \in Nat
  BY <1>1
<1>3. \A im \in Image : im \in (0..BrkMax) \X (0..BrkMax) /\ im[1] < im[2]
  BY MemoryAssumption
<1> QED BY <1>1, <1>2, <1>3 DEF BrkMax

LEMMA Places ==
  /\ Root \in Place /\ Hand \in Place /\ Node \subseteq Place
  /\ \A va \in Va : Leaf(va) \in Place /\ Leaf(va) # Hand /\ Tables(va) \subseteq Place
<1>1. \A va \in Va : Leaf(va) # Hand
  BY MemoryAssumption DEF Leaf, Hand
<1>2. 0 \in Va /\ Levels \in 1..Levels
  BY Bounds, MemoryAssumption DEF Va
<1>3. Root \in Tables(0)
  BY <1>2 DEF Root, Tables
<1> QED BY <1>1, <1>2, <1>3 DEF Place, Node

(* A job goes on: what Advance and Fail have in common. *)
Onward(s) ==
  /\ job' \in [Space -> Jobs] /\ life' \in [Space -> Lives] /\ brk' \in [Space -> Nat]
  /\ \A r \in Space \ {s} : job'[r] = job[r] /\ life'[r] = life[r] /\ brk'[r] = brk[r]
  /\ life'[s] \in {life[s], "zombie"}
  /\ JobOK(job'[s], life'[s], image[s]) /\ job'[s].do # "root"
  /\ life'[s] = "running" => brk'[s] \in image[s][2]..BrkMax

(* The job of s, or one that leaves the page at hand out of a rollback. *)
Skipped(j) == j.lo = j.at + 1
JobOf(s, j) ==
  /\ j.do = job[s].do /\ j.step = job[s].step /\ j.at = job[s].at /\ j.hi = job[s].hi
  /\ j.step \in {"map", "unmap", "back"}
  /\ j.lo = job[s].lo \/ (j.do = "brk" /\ Skipped(j))

LEMMA AdvanceOnward ==
  ASSUME Phases, NEW s \in Space, NEW j \in Jobs, Advance(s, j), life' = life, JobOf(s, j)
  PROVE  Onward(s)
<1> USE DEF JobOf
<1> DEFINE k == [j EXCEPT !.at = j.at + 1]
<1>1. JobOK(job[s], life[s], image[s]) /\ job[s] \in Jobs /\ job \in [Space -> Jobs]
  BY DEF Phases, Typed, JobsOK
<1>2. /\ k \in Jobs /\ k.do = j.do /\ k.step = j.step /\ k.lo = j.lo /\ k.hi = j.hi
      /\ k.at = j.at + 1 /\ j.at \in Nat /\ j.hi \in Nat /\ j.lo \in Nat /\ j.lo <= k.at
  BY <1>1 DEF Jobs, JobOK, Skipped
<1>3. Then(s, k) \in Jobs /\ job' \in [Space -> Jobs]
  <2>1. Then(s, k) \in Jobs
    BY <1>2, Bounds DEF Then, Job, Idle, Jobs, Loads, Calls
  <2> QED BY <1>1, <1>2, <2>1 DEF Advance
<1>4. /\ job'[s] = IF k.at < k.hi THEN k ELSE Then(s, k)
      /\ \A r \in Space \ {s} : job'[r] = job[r]
  BY <1>1 DEF Advance
<1>5. k.at < k.hi => JobOK(k, life[s], image[s])
  BY <1>1, <1>2 DEF JobOK, Maps, Unmaps
<1>6. JobOK(Then(s, k), life[s], image[s])
  BY <1>1, <1>2, Bounds DEF JobOK, Then, Job, Idle, Maps, Unmaps, Loads, Calls
<1>7. JobOK(job'[s], life'[s], image[s])
  BY <1>4, <1>5, <1>6
<1>8. job'[s].do # "root"
  BY <1>1, <1>2, <1>4 DEF Then, Job, Idle, JobOK, Maps, Unmaps
<1>9. brk' \in [Space -> Nat] /\ \A r \in Space \ {s} : brk'[r] = brk[r]
  BY <1>2 DEF Advance, Phases, Typed
<1>10. life[s] = "running" => brk'[s] \in image[s][2]..BrkMax
  <2> SUFFICES ASSUME life[s] = "running" PROVE brk'[s] \in image[s][2]..BrkMax
    OBVIOUS
  <2>1. brk[s] \in image[s][2]..BrkMax
    BY DEF Phases, BreakOK
  <2>2. \/ brk' = brk
        \/ brk'[s] = k.hi /\ k.do = "brk" /\ k.step # "back"
        \/ brk'[s] = k.lo /\ k.do = "shrink"
    BY <1>2 DEF Advance, Phases, Typed
  <2>3. k.do = "brk" /\ k.step # "back" => k.hi \in image[s][2]..BrkMax
    BY <1>1, <1>2 DEF JobOK, Unmaps
  <2>4. k.do = "shrink" => k.lo \in image[s][2]..BrkMax
    BY <1>1, <1>2 DEF JobOK
  <2> QED BY <2>1, <2>2, <2>3, <2>4
<1> QED BY <1>3, <1>4, <1>7, <1>8, <1>9, <1>10 DEF Onward, Phases, Typed

LEMMA FailOnward ==
  ASSUME Phases, NEW s \in Space, Fail(s), brk' = brk, job[s].step \in {"map", "drop"}
  PROVE  Onward(s)
<1> DEFINE j == job[s]
<1>1. /\ JobOK(j, life[s], image[s]) /\ j \in Jobs /\ job \in [Space -> Jobs]
      /\ life \in [Space -> Lives]
  BY DEF Phases, Typed, JobsOK
<1>2. Failed(j) \in Jobs /\ Failed(j).do # "root"
  BY <1>1 DEF Failed, Rollback, Jobs, Job, Idle, JobOK, Maps, Loads, Calls
<1>3. /\ job' \in [Space -> Jobs] /\ job'[s] = Failed(j)
      /\ \A r \in Space \ {s} : job'[r] = job[r]
  BY <1>1, <1>2 DEF Fail
<1>4. /\ life' \in [Space -> Lives] /\ \A r \in Space \ {s} : life'[r] = life[r]
      /\ life'[s] = IF j.do = "fault" THEN "zombie" ELSE life[s]
  BY <1>1 DEF Fail, Lives
<1>5. JobOK(Failed(j), life'[s], image[s])
  <2>1. j.do \in Maps /\ j.lo <= j.at /\ j.at < j.hi /\ j.hi <= StackTop
    BY <1>1 DEF JobOK
  <2>2. CASE j.do \in {"elf", "stack", "fault"}
    BY <1>1, <1>4, <2>2 DEF JobOK, Failed, Job, Idle, Loads, Calls
  <2>3. CASE j.do \in {"brk", "mmap", "fixed"}
    <3> DEFINE b == [j EXCEPT !.step = "back", !.at = j.lo, !.hi = j.at]
    <3>1. life'[s] = "running"
      BY <1>1, <1>4, <2>3 DEF JobOK, Calls
    <3>2. Failed(j) = IF j.lo = j.at THEN Idle ELSE b
      BY <2>3 DEF Failed, Rollback
    <3>3. /\ b.do = j.do /\ b.step = "back" /\ b.at = j.lo /\ b.lo = j.lo /\ b.hi = j.at
          /\ j.lo \in Nat /\ j.at \in Nat /\ j.hi \in Nat
      BY <1>1 DEF Jobs
    <3> HIDE DEF b
    <3>4. j.lo # j.at => JobOK(b, "running", image[s])
      BY <2>1, <2>3, <3>3, Bounds DEF JobOK, Maps, Loads
    <3>5. JobOK(Idle, "running", image[s])
      BY DEF JobOK, Idle, Job, Loads, Calls
    <3> QED BY <3>1, <3>2, <3>4, <3>5
  <2> QED BY <2>1, <2>2, <2>3 DEF Maps
<1>6. life'[s] = "running" => brk[s] \in image[s][2]..BrkMax
  BY <1>4 DEF Phases, BreakOK
<1> QED BY <1>2, <1>3, <1>4, <1>5, <1>6 DEF Onward, Phases, Typed

(* A step of a loop over pages. *)
LEMMA OnwardPhases ==
  ASSUME Phases, NEW s \in Space, Onward(s), job[s].do \in Maps \cup Unmaps,
         used' \subseteq Frame, UsedExact', lost' \subseteq Frame, frame' \in Frames,
         \A r \in Space \ {s} : \A p \in Place : frame'[r][p] = frame[r][p],
         heap' = heap, kstack' = kstack, gone' = gone, image' = image
  PROVE  Phases'
<1>1. JobOK(job[s], life[s], image[s])
  BY DEF Phases, JobsOK
<1>2. life[s] \in {"loading", "running"} /\ gone[s] = {}
  BY <1>1 DEF Phases, GoneOnce, JobOK, Maps, Unmaps, Loads, Calls
<1>3. Typed'
  BY DEF Phases, Typed, Onward
<1>4. JobsOK'
  BY DEF Phases, JobsOK, Onward
<1>5. BreakOK'
  BY DEF Phases, BreakOK, Onward
<1>6. OneBusy'
  BY <1>2 DEF Phases, OneBusy, Onward
<1>7. Fresh'
  BY <1>2 DEF Phases, Fresh, Onward
<1>8. Unstacked'
  BY <1>2 DEF Phases, Unstacked, Onward
<1>9. GoneOnce'
  BY <1>2 DEF Phases, GoneOnce, Onward
<1> QED BY <1>3, <1>4, <1>5, <1>6, <1>7, <1>8, <1>9 DEF Phases

(* A job that stays, but for its step. *)
Dropping(s) == job' = [job EXCEPT ![s].step = "drop"]
LEMMA StayOnward ==
  ASSUME Phases, NEW s \in Space, life' = life, brk' = brk, job[s].do \in Maps \cup Unmaps,
         \/ job' = job
         \/ job[s].step = "map" /\ Dropping(s)
  PROVE  Onward(s)
<1>1. JobOK(job[s], life[s], image[s]) /\ job[s] \in Jobs /\ job \in [Space -> Jobs]
  BY DEF Phases, Typed, JobsOK
<1>2. brk[s] \in image[s][2]..BrkMax \/ life[s] # "running"
  BY DEF Phases, BreakOK
<1>3. CASE job' = job
  BY <1>1, <1>2, <1>3 DEF Onward, Phases, Typed, Maps, Unmaps
<1>4. CASE job[s].step = "map" /\ Dropping(s)
  <2> DEFINE d == [job[s] EXCEPT !.step = "drop"]
  <2>1. d \in Jobs /\ job' = [job EXCEPT ![s] = d]
    BY <1>1, <1>4 DEF Jobs, Dropping
  <2>2. JobOK(d, life[s], image[s]) /\ d.do # "root"
    BY <1>1, <1>4 DEF JobOK, Jobs, Maps, Unmaps
  <2> HIDE DEF d
  <2> QED BY <1>1, <1>2, <2>1, <2>2 DEF Onward, Phases, Typed
<1> QED BY <1>3, <1>4

(* The frames in use after a call of the allocator. *)
LEMMA AllocatePageMarks ==
  ASSUME Phases, NEW f \in Frame, AllocatePage(f)
  PROVE  used' = used \cup {f} /\ f \notin used /\ used' \subseteq Frame /\ UsedExact'
<1>1. used' \subseteq Frame /\ UsedExact'
  BY MarksExact DEF AllocatePage, Phases, Typed
<1> QED BY <1>1 DEF AllocatePage, MarkUsed

LEMMA FreeMarks ==
  ASSUME Phases, NEW fs, MarkFree(fs)
  PROVE  used' = used \ fs /\ used' \subseteq Frame /\ UsedExact'
<1>1. used' \subseteq Frame /\ UsedExact'
  BY MarksExact DEF Phases, Typed
<1> QED BY <1>1 DEF MarkFree

LEMMA AllocateRangeMarks ==
  ASSUME Phases, NEW f \in Frame, NEW n \in Nat, AllocateRange(f, n)
  PROVE  /\ used' = used \cup Run(f, n) /\ Run(f, n) \subseteq Frame \ used
         /\ used' \subseteq Frame /\ UsedExact'
<1>1. Run(f, n) \subseteq Frame \ used /\ MarkUsed(Run(f, n))
  BY DEF AllocateRange, Fits
<1>2. used' \subseteq Frame /\ UsedExact'
  BY <1>1, MarksExact DEF Phases, Typed
<1> QED BY <1>1, <1>2 DEF MarkUsed

LEMMA PmmStays ==
  ASSUME Phases, UNCHANGED pmm
  PROVE  used' = used /\ used' \subseteq Frame /\ UsedExact'
BY DEF Phases, Typed, pmm, UsedExact

LEMMA AtIsVa ==
  ASSUME Phases, NEW s \in Space, job[s].step # "none"
  PROVE  job[s].at \in Va /\ job[s].do \in Maps \cup Unmaps
<1>1. JobOK(job[s], life[s], image[s]) /\ job[s] \in Jobs
  BY DEF Phases, Typed, JobsOK
<1> QED BY <1>1, Bounds DEF JobOK, Jobs, Va

LEMMA TakePagePhases ==
  ASSUME Phases, NEW s \in Space, TakePage(s)
  PROVE  Phases'
<1>1. /\ job[s].do \in Maps \cup Unmaps /\ job[s].step = "map" /\ frame \in Frames
      /\ lost \subseteq Frame /\ frame[s][Hand] = NoFrame
  BY DEF TakePage, Phases, Typed
<1>2. UNCHANGED <<heap, kstack, image, brk, gone, lost>>
  BY DEF TakePage
<1>3. ASSUME NEW f \in Frame, AllocatePage(f), frame' = Put(frame, s, Hand, f), UNCHANGED <<job, life>>
      PROVE  Phases'
  <2>1. Onward(s)
    BY <1>1, <1>2, <1>3, StayOnward
  <2>2. frame' \in Frames /\ \A r \in Space \ {s} : \A p \in Place : frame'[r][p] = frame[r][p]
    BY <1>1, <1>3, Places, PutAt
  <2>3. used' \subseteq Frame /\ UsedExact'
    BY <1>3, AllocatePageMarks
  <2> QED BY <1>1, <1>2, <2>1, <2>2, <2>3, OnwardPhases
<1>4. ASSUME Fail(s), UNCHANGED <<pmm, frame>>
      PROVE  Phases'
  <2>1. Onward(s)
    BY <1>1, <1>2, <1>4, FailOnward
  <2>2. used' \subseteq Frame /\ UsedExact'
    BY <1>4, PmmStays
  <2> QED BY <1>1, <1>2, <1>4, <2>1, <2>2, OnwardPhases
<1> QED BY <1>3, <1>4 DEF TakePage

LEMMA SkipPagePhases ==
  ASSUME Phases, NEW s \in Space, SkipPage(s)
  PROVE  Phases'
<1>1. job[s] \in Jobs /\ job[s].do = "brk" /\ job[s].step = "map"
  BY DEF SkipPage, Phases, Typed
<1>2. PICK j \in Jobs : JobOf(s, j) /\ Advance(s, j)
  <2>1. CASE job[s].lo = job[s].at
    <3>1. PICK i \in Jobs : i = job[s]
      BY <1>1
    <3>2. [i EXCEPT !.lo = i.at + 1] \in Jobs
      BY DEF Jobs
    <3>3. PICK j \in Jobs : j = [i EXCEPT !.lo = i.at + 1]
      BY <3>2
    <3>4. Advance(s, j)
      BY <2>1, <3>1, <3>3 DEF SkipPage, Advance
    <3>5. j.do = i.do /\ j.step = i.step /\ j.at = i.at /\ j.hi = i.hi /\ Skipped(j)
      BY <3>3 DEF Jobs, Skipped
    <3>6. JobOf(s, j)
      BY <1>1, <3>1, <3>5 DEF JobOf
    <3> QED BY <3>4, <3>6
  <2>2. CASE job[s].lo # job[s].at
    <3>1. PICK j \in Jobs : j = job[s]
      BY <1>1
    <3>2. Advance(s, j)
      BY <2>2, <3>1 DEF SkipPage, Advance
    <3>3. JobOf(s, j)
      BY <1>1, <3>1 DEF JobOf
    <3> QED BY <3>2, <3>3
  <2> QED BY <2>1, <2>2
<1>3. Onward(s)
  <2>1. life' = life
    BY DEF SkipPage
  <2> QED BY <1>2, <2>1, AdvanceOnward
<1>4. used' \subseteq Frame /\ UsedExact'
  BY PmmStays DEF SkipPage
<1>5. frame' \in Frames /\ frame' = frame /\ lost' \subseteq Frame
  BY DEF SkipPage, Phases, Typed
<1>6. heap' = heap /\ kstack' = kstack /\ gone' = gone /\ image' = image
  BY DEF SkipPage
<1>7. job[s].do \in Maps \cup Unmaps
  BY <1>1 DEF Maps
<1> QED BY <1>3, <1>4, <1>5, <1>6, <1>7, OnwardPhases

LEMMA AddTablePhases ==
  ASSUME Phases, NEW s \in Space, AddTable(s)
  PROVE  Phases'
<1>1. /\ job[s].do \in Maps \cup Unmaps /\ job[s].step = "map" /\ frame \in Frames
      /\ lost \subseteq Frame /\ job[s].at \in Va
  BY AtIsVa DEF AddTable, Phases, Typed
<1>2. UNCHANGED <<heap, life, kstack, image, brk, gone, lost>>
  BY DEF AddTable
<1>3. \A n \in Missing(s, job[s].at) : n \in Place
  BY <1>1, Places DEF Missing
<1>4. ASSUME NEW n \in Place, NEW f \in Frame, AllocatePage(f), frame' = Put(frame, s, n, f), job' = job
      PROVE  Phases'
  <2>1. Onward(s)
    BY <1>1, <1>2, <1>4, StayOnward
  <2>2. frame' \in Frames /\ \A r \in Space \ {s} : \A p \in Place : frame'[r][p] = frame[r][p]
    BY <1>1, <1>4, PutAt
  <2>3. used' \subseteq Frame /\ UsedExact'
    BY <1>4, AllocatePageMarks
  <2> QED BY <1>1, <1>2, <2>1, <2>2, <2>3, OnwardPhases
<1>5. ASSUME Dropping(s), UNCHANGED <<pmm, frame>>
      PROVE  Phases'
  <2>1. Onward(s)
    BY <1>1, <1>2, <1>5, StayOnward
  <2>2. used' \subseteq Frame /\ UsedExact'
    BY <1>5, PmmStays
  <2> QED BY <1>1, <1>2, <1>5, <2>1, <2>2, OnwardPhases
<1> QED BY <1>3, <1>4, <1>5 DEF AddTable, Dropping

(* Advance by the job as it is. *)
LEMMA AdvanceJobOnward ==
  ASSUME Phases, NEW s \in Space, Advance(s, job[s]), life' = life,
         job[s].step \in {"map", "unmap", "back"}
  PROVE  Onward(s)
<1>1. PICK j \in Jobs : j = job[s]
  BY DEF Phases, Typed
<1>2. Advance(s, j)
  BY <1>1 DEF Advance
<1>3. JobOf(s, j)
  BY <1>1 DEF JobOf
<1> QED BY <1>2, <1>3, AdvanceOnward

LEMMA EnterPagePhases ==
  ASSUME Phases, NEW s \in Space, EnterPage(s)
  PROVE  Phases'
<1>1. /\ job[s].do \in Maps \cup Unmaps /\ job[s].step = "map" /\ frame \in Frames
      /\ job[s].at \in Va /\ frame[s][Hand] \in Frame \cup {NoFrame}
  BY AtIsVa, Places DEF EnterPage, Phases, Typed, Frames
<1>2. UNCHANGED <<heap, life, kstack, image, gone>> /\ Advance(s, job[s])
  BY DEF EnterPage
<1>3. Onward(s)
  BY <1>1, <1>2, AdvanceJobOnward
<1>4. PICK fr \in Frames : /\ fr = Put(frame, s, Leaf(job[s].at), frame[s][Hand])
                           /\ \A r \in Space \ {s} : \A p \in Place : fr[r][p] = frame[r][p]
  <2>1. PICK p \in Place, f \in Frame \cup {NoFrame} : p = Leaf(job[s].at) /\ f = frame[s][Hand]
    BY <1>1, Places
  <2>2. PICK fr : fr = Put(frame, s, p, f)
    OBVIOUS
  <2>3. fr \in Frames /\ \A r \in Space \ {s} : \A q \in Place : fr[r][q] = frame[r][q]
    BY <1>1, <2>2, PutAt
  <2> QED BY <2>1, <2>2, <2>3
<1>5. frame' = Put(fr, s, Hand, NoFrame)
  BY <1>4 DEF EnterPage
<1>6. frame' \in Frames /\ \A r \in Space \ {s} : \A p \in Place : frame'[r][p] = fr[r][p]
  BY <1>5, Places, PutAt
<1>7. used' \subseteq Frame /\ UsedExact'
  BY PmmStays DEF EnterPage
<1>8. lost' \subseteq Frame
  BY DEF EnterPage, Phases, Typed
<1> QED BY <1>1, <1>2, <1>3, <1>4, <1>6, <1>7, <1>8, OnwardPhases

LEMMA DropPagePhases ==
  ASSUME Phases, NEW s \in Space, DropPage(s)
  PROVE  Phases'
<1>1. job[s].do \in Maps \cup Unmaps /\ job[s].step = "drop" /\ frame \in Frames /\ lost' \subseteq Frame
  BY AtIsVa DEF DropPage, Phases, Typed
<1>2. UNCHANGED <<heap, kstack, image, brk, gone>> /\ Fail(s)
  BY DEF DropPage
<1>3. Onward(s)
  BY <1>1, <1>2, FailOnward
<1>4. frame' \in Frames /\ \A r \in Space \ {s} : \A p \in Place : frame'[r][p] = frame[r][p]
  BY <1>1, Places, PutAt DEF DropPage
<1>5. used' \subseteq Frame /\ UsedExact'
  BY FreeMarks DEF DropPage
<1> QED BY <1>1, <1>2, <1>3, <1>4, <1>5, OnwardPhases

LEMMA UnmapPagePhases ==
  ASSUME Phases, NEW s \in Space, UnmapPage(s)
  PROVE  Phases'
<1>1. /\ job[s].do \in Maps \cup Unmaps /\ job[s].step \in {"unmap", "back"} /\ frame \in Frames
      /\ job[s].at \in Va /\ frame[s][Leaf(job[s].at)] \in Frame \cup {NoFrame} /\ lost' \subseteq Frame
  BY AtIsVa, Places DEF UnmapPage, Phases, Typed, Frames
<1>2. UNCHANGED <<heap, life, kstack, image, gone>>
  BY DEF UnmapPage
<1>3. used' \subseteq Frame /\ UsedExact'
  BY PmmStays DEF UnmapPage
<1>4. CASE Mapped(s, job[s].at)
  <2>1. Onward(s)
    BY <1>1, <1>2, <1>4, StayOnward DEF UnmapPage
  <2>2. PICK fr \in Frames : /\ fr = Put(frame, s, Hand, frame[s][Leaf(job[s].at)])
                             /\ \A r \in Space \ {s} : \A p \in Place : fr[r][p] = frame[r][p]
    <3>1. PICK f \in Frame \cup {NoFrame} : f = frame[s][Leaf(job[s].at)]
      BY <1>1
    <3>2. PICK fr : fr = Put(frame, s, Hand, f)
      OBVIOUS
    <3>3. fr \in Frames /\ \A r \in Space \ {s} : \A p \in Place : fr[r][p] = frame[r][p]
      BY <1>1, <3>1, <3>2, Places, PutAt
    <3> QED BY <3>1, <3>2, <3>3
  <2>3. frame' = Put(fr, s, Leaf(job[s].at), NoFrame)
    BY <1>4, <2>2 DEF UnmapPage
  <2>4. frame' \in Frames /\ \A r \in Space \ {s} : \A p \in Place : frame'[r][p] = fr[r][p]
    <3>1. PICK q \in Place : q = Leaf(job[s].at) /\ frame' = Put(fr, s, q, NoFrame)
      BY <1>1, <2>3, Places
    <3> QED BY <3>1, PutAt
  <2> QED BY <1>1, <1>2, <1>3, <2>1, <2>2, <2>4, OnwardPhases
<1>5. CASE ~Mapped(s, job[s].at)
  <2>1. Advance(s, job[s]) /\ frame' = frame
    BY <1>5 DEF UnmapPage
  <2>2. Onward(s)
    BY <1>1, <1>2, <2>1, AdvanceJobOnward
  <2> QED BY <1>1, <1>2, <1>3, <2>1, <2>2, OnwardPhases
<1> QED BY <1>4, <1>5

LEMMA FreePagePhases ==
  ASSUME Phases, NEW s \in Space, FreePage(s)
  PROVE  Phases'
<1>1. /\ job[s].do \in Maps \cup Unmaps /\ job[s].step \in {"unmap", "back"} /\ frame \in Frames
      /\ lost' \subseteq Frame
  BY AtIsVa DEF FreePage, Phases, Typed
<1>2. UNCHANGED <<heap, life, kstack, image, gone>> /\ Advance(s, job[s])
  BY DEF FreePage
<1>3. Onward(s)
  BY <1>1, <1>2, AdvanceJobOnward
<1>4. frame' \in Frames /\ \A r \in Space \ {s} : \A p \in Place : frame'[r][p] = frame[r][p]
  BY <1>1, Places, PutAt DEF FreePage
<1>5. used' \subseteq Frame /\ UsedExact'
  BY FreeMarks DEF FreePage
<1> QED BY <1>1, <1>2, <1>3, <1>4, <1>5, OnwardPhases

(* A job set by what is not one of those loops. *)
LEMMA SetJob ==
  ASSUME Phases, NEW s \in Space, NEW j \in Jobs, job' = [job EXCEPT ![s] = j]
  PROVE  /\ job' \in [Space -> Jobs] /\ job'[s] = j
         /\ \A r \in Space \ {s} : job'[r] = job[r]
BY DEF Phases, Typed

LEMMA NewJobs ==
  /\ Idle \in Jobs /\ Idle.do = "idle" /\ Idle.step = "none"
  /\ \A d \in {"root", "task", "twice", "again", "destroy"} :
       /\ Job(d, "none", 0, 0) \in Jobs
       /\ Job(d, "none", 0, 0).do = d /\ Job(d, "none", 0, 0).step = "none"
BY DEF Job, Idle, Jobs, Loads, Calls

(* The other steps of one space, conjunct by conjunct. *)
SetPhases(s) ==
  /\ job' \in [Space -> Jobs] /\ life' \in [Space -> Lives] /\ brk' \in [Space -> Nat]
  /\ image' \in [Space -> Image]
  /\ \A r \in Space \ {s} :
       job'[r] = job[r] /\ life'[r] = life[r] /\ brk'[r] = brk[r] /\ image'[r] = image[r]
  /\ JobOK(job'[s], life'[s], image'[s])
  /\ life'[s] = "running" => brk'[s] \in image'[s][2]..BrkMax
  /\ life'[s] \in {"loading", "running"} =>
       \A r \in Space \ {s} : life[r] \notin {"loading", "running"}
SetFrames(s) ==
  /\ used' \subseteq Frame /\ UsedExact' /\ frame' \in Frames
  /\ kstack' \in Stacks /\ gone' \in Stacks
  /\ \A r \in Space \ {s} :
       /\ kstack'[r] = kstack[r] /\ gone'[r] = gone[r]
       /\ \A p \in Place : frame'[r][p] = frame[r][p]
  /\ life'[s] = "none" \/ job'[s].do = "root" => \A p \in Place : frame'[s][p] = NoFrame
  /\ life'[s] \in {"none", "loading"} => kstack'[s] = {}
  /\ gone'[s] # {} => job'[s].do \in {"twice", "again"}

LEMMA SetsPhases ==
  ASSUME Phases, NEW s \in Space, SetPhases(s), SetFrames(s), heap' = heap, lost' = lost
  PROVE  Phases'
<1>1. Typed'
  BY DEF Phases, Typed, SetPhases, SetFrames
<1>2. JobsOK'
  BY DEF Phases, JobsOK, SetPhases
<1>3. BreakOK'
  BY DEF Phases, BreakOK, SetPhases
<1>4. OneBusy'
  BY DEF Phases, OneBusy, SetPhases
<1>5. Fresh'
  BY DEF Phases, Fresh, SetPhases, SetFrames
<1>6. Unstacked'
  BY DEF Phases, Unstacked, SetPhases, SetFrames
<1>7. GoneOnce'
  BY DEF Phases, GoneOnce, SetPhases, SetFrames
<1>8. UsedExact'
  BY DEF SetFrames
<1> QED BY <1>1, <1>2, <1>3, <1>4, <1>5, <1>6, <1>7, <1>8 DEF Phases

(* Of a space that is busy, no other is. *)
LEMMA BusyAlone ==
  ASSUME Phases, NEW s \in Space, life[s] \in {"loading", "running"}
  PROVE  \A r \in Space \ {s} : life[r] \notin {"loading", "running"}
BY DEF Phases, OneBusy

LEMMA CmdRunPhases ==
  ASSUME Phases, NEW s \in Space, NEW im \in Image, CmdRun(s, im)
  PROVE  Phases'
<1>1. /\ life[s] = "none" /\ \A r \in Space : life[r] \notin {"loading", "running"}
      /\ life' = [life EXCEPT ![s] = "loading"] /\ image' = [image EXCEPT ![s] = im]
      /\ UNCHANGED <<pmm, heap, frame, kstack, brk, gone, lost>>
  BY DEF CmdRun
<1>2. PICK j \in Jobs : j = Job("root", "none", 0, 0) /\ j.do = "root" /\ j.step = "none"
  BY NewJobs
<1>3. /\ job' \in [Space -> Jobs] /\ job'[s] = j /\ \A r \in Space \ {s} : job'[r] = job[r]
  BY <1>2, SetJob DEF CmdRun
<1>4. JobOK(j, "loading", im)
  BY <1>2 DEF JobOK, Calls
<1>5. /\ life' \in [Space -> Lives] /\ life'[s] = "loading"
      /\ \A r \in Space \ {s} : life'[r] = life[r]
  BY <1>1 DEF Phases, Typed, Lives
<1>6. /\ image' \in [Space -> Image] /\ image'[s] = im /\ \A r \in Space \ {s} : image'[r] = image[r]
  BY <1>1 DEF Phases, Typed
<1>7. SetPhases(s)
  BY <1>1, <1>3, <1>4, <1>5, <1>6 DEF SetPhases, Phases, Typed
<1>8. \A p \in Place : frame[s][p] = NoFrame
  BY <1>1 DEF Phases, Fresh
<1>9. job[s].do \notin {"twice", "again"}
  BY <1>1 DEF Phases, JobsOK, JobOK, Loads
<1>10. used' \subseteq Frame /\ UsedExact'
  BY <1>1, PmmStays
<1>11. kstack[s] = {} /\ gone[s] = {}
  BY <1>1, <1>9 DEF Phases, Unstacked, GoneOnce
<1>12. SetFrames(s)
  BY <1>1, <1>8, <1>10, <1>11 DEF SetFrames, Phases, Typed
<1> QED BY <1>1, <1>7, <1>12, SetsPhases

LEMMA CreateRootPhases ==
  ASSUME Phases, NEW s \in Space, CreateRoot(s)
  PROVE  Phases'
<1>1. /\ job[s].do = "root" /\ UNCHANGED <<heap, kstack, image, brk, gone, lost>>
  BY DEF CreateRoot
<1>2. /\ life[s] = "loading" /\ image[s] \in Image /\ gone[s] = {} /\ kstack[s] = {}
      /\ brk' \in [Space -> Nat] /\ image' \in [Space -> Image] /\ frame \in Frames
      /\ kstack' \in Stacks /\ gone' \in Stacks /\ life \in [Space -> Lives]
  <2>1. life[s] = "loading" /\ gone[s] = {}
    BY <1>1 DEF Phases, JobsOK, JobOK, Loads, GoneOnce
  <2>2. kstack[s] = {}
    BY <2>1 DEF Phases, Unstacked
  <2> QED BY <1>1, <2>1, <2>2 DEF Phases, Typed
<1>3. CASE \E f \in Frame : AllocatePage(f) /\ frame' = Put(frame, s, Root, f)
             /\ job' = [job EXCEPT ![s] = Job("elf", "map", image[s][1], image[s][2])]
             /\ life' = life
  <2>1. PICK f \in Frame : AllocatePage(f) /\ frame' = Put(frame, s, Root, f)
    BY <1>3
  <2>2. PICK j : j = Job("elf", "map", image[s][1], image[s][2])
    OBVIOUS
  <2>3. /\ j \in Jobs /\ j.do = "elf" /\ j.step = "map"
        /\ j.at = image[s][1] /\ j.lo = image[s][1] /\ j.hi = image[s][2]
    BY <1>2, <2>2, Bounds DEF Job, Jobs, Loads
  <2>4. /\ job' \in [Space -> Jobs] /\ job'[s] = j /\ \A r \in Space \ {s} : job'[r] = job[r]
    BY <1>3, <2>2, <2>3, SetJob
  <2>5. JobOK(j, "loading", image[s])
    BY <1>2, <2>3, Bounds DEF JobOK, Maps, Calls
  <2>6. SetPhases(s)
    BY <1>1, <1>2, <1>3, <2>4, <2>5, BusyAlone DEF SetPhases
  <2>7. frame' \in Frames /\ \A r \in Space \ {s} : \A p \in Place : frame'[r][p] = frame[r][p]
    BY <1>2, <2>1, Places, PutAt
  <2>8. used' \subseteq Frame /\ UsedExact'
    BY <2>1, AllocatePageMarks
  <2>9. SetFrames(s)
    BY <1>1, <1>2, <1>3, <2>3, <2>4, <2>7, <2>8 DEF SetFrames
  <2> QED BY <1>1, <2>6, <2>9, SetsPhases
<1>4. CASE job' = [job EXCEPT ![s] = Idle] /\ life' = [life EXCEPT ![s] = "gone"]
           /\ UNCHANGED <<pmm, frame>>
  <2>1. /\ job' \in [Space -> Jobs] /\ job'[s] = Idle /\ \A r \in Space \ {s} : job'[r] = job[r]
    BY <1>4, NewJobs, SetJob
  <2>2. /\ life' \in [Space -> Lives] /\ life'[s] = "gone" /\ \A r \in Space \ {s} : life'[r] = life[r]
    BY <1>2, <1>4 DEF Lives
  <2>3. JobOK(Idle, "gone", image[s]) /\ Idle.do = "idle"
    BY DEF JobOK, Idle, Job, Loads, Calls
  <2>4. SetPhases(s)
    BY <1>1, <1>2, <2>1, <2>2, <2>3 DEF SetPhases
  <2>5. used' \subseteq Frame /\ UsedExact'
    BY <1>4, PmmStays
  <2>6. SetFrames(s)
    BY <1>1, <1>2, <1>4, <2>1, <2>2, <2>3, <2>5 DEF SetFrames
  <2> QED BY <1>1, <2>4, <2>6, SetsPhases
<1> QED BY <1>3, <1>4 DEF CreateRoot

(* A space that is on its way out: no frame is taken, and it does not run. *)
LEMMA LeavePhases ==
  ASSUME Phases, NEW s \in Space, NEW j \in Jobs, job' = [job EXCEPT ![s] = j],
         j.step = "none", j.do \in {"idle", "again", "destroy"},
         \/ life' = life
         \/ life' = [life EXCEPT ![s] = "gone"] /\ j.do = "idle",
         j.do = "again" => life[s] = "loading",
         j.do = "destroy" => life[s] \in {"loading", "zombie"},
         life[s] \in {"loading", "zombie"},
         used' \subseteq Frame, UsedExact', frame' \in Frames, kstack' \in Stacks, gone' \in Stacks,
         \A r \in Space \ {s} :
           /\ kstack'[r] = kstack[r] /\ gone'[r] = gone[r]
           /\ \A p \in Place : frame'[r][p] = frame[r][p],
         kstack'[s] \in {kstack[s], {}}, gone'[s] # {} => j.do = "again",
         UNCHANGED <<heap, lost, image, brk>>
  PROVE  Phases'
<1>1. /\ job' \in [Space -> Jobs] /\ job'[s] = j /\ \A r \in Space \ {s} : job'[r] = job[r]
  BY SetJob
<1>2. /\ life' \in [Space -> Lives] /\ \A r \in Space \ {s} : life'[r] = life[r]
      /\ life'[s] = life[s] \/ (life'[s] = "gone" /\ j.do = "idle")
  BY DEF Phases, Typed, Lives
<1>3. JobOK(j, life'[s], image[s])
  BY <1>2 DEF JobOK, Loads, Calls
<1>4. SetPhases(s)
  BY <1>1, <1>2, <1>3, BusyAlone DEF SetPhases, Phases, Typed
<1>5. life'[s] = "loading" => kstack'[s] = {}
  BY <1>2 DEF Phases, Unstacked
<1>6. SetFrames(s)
  BY <1>1, <1>2, <1>5 DEF SetFrames
<1> QED BY <1>4, <1>6, SetsPhases

LEMMA ReadFailsPhases ==
  ASSUME Phases, NEW s \in Space, ReadFails(s)
  PROVE  Phases'
<1>1. UNCHANGED <<pmm, heap, frame, life, kstack, image, brk, gone, lost>>
  BY DEF ReadFails
<1>2. life[s] = "loading" /\ gone[s] = {}
  BY DEF ReadFails, Phases, JobsOK, JobOK, Loads, GoneOnce
<1>3. PICK j \in Jobs : j = Job("destroy", "none", 0, 0) /\ j.do = "destroy" /\ j.step = "none"
  BY NewJobs
<1>4. job' = [job EXCEPT ![s] = j]
  BY <1>3 DEF ReadFails
<1>5. used' \subseteq Frame /\ UsedExact'
  BY <1>1, PmmStays
<1>6. frame' \in Frames /\ kstack' \in Stacks /\ gone' \in Stacks
  BY <1>1 DEF Phases, Typed
<1> QED BY <1>1, <1>2, <1>3, <1>4, <1>5, <1>6, LeavePhases

LEMMA CreateTaskPhases ==
  ASSUME Phases, NEW s \in Space, CreateTask(s)
  PROVE  Phases'
<1>1. job[s].do = "task" /\ UNCHANGED <<heap, frame, image, gone, lost>>
  BY DEF CreateTask
<1>2. /\ life[s] = "loading" /\ gone[s] = {} /\ image[s] \in Image
      /\ frame' \in Frames /\ gone' \in Stacks /\ kstack \in Stacks /\ image' \in [Space -> Image]
      /\ life \in [Space -> Lives] /\ brk \in [Space -> Nat]
  <2>1. life[s] = "loading" /\ gone[s] = {}
    BY <1>1 DEF Phases, JobsOK, JobOK, Loads, GoneOnce
  <2> QED BY <1>1, <2>1 DEF Phases, Typed
<1>3. ASSUME NEW f \in Frame, AllocateRange(f, KStackPages),
             kstack' = [kstack EXCEPT ![s] = Run(f, KStackPages)],
             life' = [life EXCEPT ![s] = "running"], brk' = [brk EXCEPT ![s] = HeapStart(s)],
             job' = [job EXCEPT ![s] = Idle]
      PROVE  Phases'
  <2>1. KStackPages \in Nat
    BY MemoryAssumption
  <2>2. used' \subseteq Frame /\ UsedExact' /\ Run(f, KStackPages) \subseteq Frame
    BY <1>3, <2>1, AllocateRangeMarks
  <2>3. kstack' \in Stacks /\ \A r \in Space \ {s} : kstack'[r] = kstack[r]
    BY <1>2, <1>3, <2>2 DEF Stacks
  <2>4. /\ job' \in [Space -> Jobs] /\ job'[s] = Idle /\ \A r \in Space \ {s} : job'[r] = job[r]
    BY <1>3, NewJobs, SetJob
  <2>5. /\ life' \in [Space -> Lives] /\ life'[s] = "running"
        /\ \A r \in Space \ {s} : life'[r] = life[r]
    BY <1>2, <1>3 DEF Lives
  <2>6. HeapStart(s) \in image[s][2]..BrkMax /\ HeapStart(s) \in Nat
    BY <1>2, Bounds DEF HeapStart
  <2>7. /\ brk' \in [Space -> Nat] /\ brk'[s] = HeapStart(s)
        /\ \A r \in Space \ {s} : brk'[r] = brk[r]
    BY <1>2, <1>3, <2>6
  <2>8. JobOK(Idle, "running", image[s]) /\ Idle.do = "idle"
    BY DEF JobOK, Idle, Job, Loads, Calls
  <2>9. SetPhases(s)
    BY <1>1, <1>2, <2>4, <2>5, <2>6, <2>7, <2>8, BusyAlone DEF SetPhases
  <2>10. SetFrames(s)
    BY <1>1, <1>2, <2>2, <2>3, <2>4, <2>5, <2>8 DEF SetFrames
  <2> QED BY <1>1, <2>9, <2>10, SetsPhases
<1>4. ASSUME UNCHANGED <<pmm, kstack, life, brk>>,
             \/ job' = [job EXCEPT ![s] = Job("twice", "none", 0, 0)]
             \/ job' = [job EXCEPT ![s] = Job("destroy", "none", 0, 0)]
      PROVE  Phases'
  <2>1. PICK j \in Jobs : /\ j.do \in {"twice", "destroy"} /\ j.step = "none"
                          /\ job' = [job EXCEPT ![s] = j]
    BY <1>4, NewJobs
  <2>2. /\ job' \in [Space -> Jobs] /\ job'[s] = j /\ \A r \in Space \ {s} : job'[r] = job[r]
    BY <2>1, SetJob
  <2>3. JobOK(j, "loading", image[s])
    BY <2>1 DEF JobOK, Calls
  <2>4. SetPhases(s)
    BY <1>1, <1>2, <1>4, <2>2, <2>3, BusyAlone DEF SetPhases
  <2>5. used' \subseteq Frame /\ UsedExact'
    BY <1>4, PmmStays
  <2>6. kstack[s] = {}
    BY <1>2 DEF Phases, Unstacked
  <2>7. SetFrames(s)
    BY <1>1, <1>2, <1>4, <2>1, <2>2, <2>5, <2>6 DEF SetFrames
  <2> QED BY <1>1, <2>4, <2>7, SetsPhases
<1> QED BY <1>3, <1>4 DEF CreateTask

LEMMA DestroyPhases ==
  ASSUME Phases, NEW s \in Space, Destroy(s)
  PROVE  Phases'
<1>1. job[s].do \in {"destroy", "twice"} /\ UNCHANGED <<heap, kstack, image, brk, lost>>
  BY DEF Destroy
<1>2. /\ job[s].do = "twice" => life[s] = "loading"
      /\ life[s] \in {"loading", "zombie"} /\ job[s] \in Jobs
      /\ gone[s] # {} => job[s].do = "twice"
      /\ life[s] = "loading" => kstack[s] = {}
      /\ JobOK(job[s], life[s], image[s])
      /\ frame \in Frames /\ kstack' \in Stacks /\ gone \in Stacks /\ brk' \in [Space -> Nat]
  <2>1. JobOK(job[s], life[s], image[s])
    BY DEF Phases, JobsOK
  <2>2. (job[s].do = "twice" => life[s] = "loading") /\ life[s] \in {"loading", "zombie"}
    BY <1>1, <2>1 DEF JobOK, Loads
  <2>3. gone[s] # {} => job[s].do = "twice"
    BY <1>1 DEF Phases, GoneOnce
  <2> QED BY <1>1, <2>1, <2>2, <2>3 DEF Phases, Typed, Unstacked
<1>3. PICK n \in Place :
        /\ frame[s][n] # NoFrame /\ MarkFree({frame[s][n]}) /\ frame' = Put(frame, s, n, NoFrame)
        /\ gone' = IF job[s].do = "twice" THEN [gone EXCEPT ![s] = @ \cup {frame[s][n]}] ELSE gone
        /\ \/ UNCHANGED <<job, life>>
           \/ /\ job[s].do = "twice" /\ life' = life
              /\ job' = [job EXCEPT ![s] = Job("again", "none", 0, 0)]
           \/ /\ job[s].do # "twice" /\ life' = [life EXCEPT ![s] = "gone"]
              /\ job' = [job EXCEPT ![s] = Idle]
  BY Places DEF Destroy, Present
<1>4. frame' \in Frames /\ \A r \in Space \ {s} : \A p \in Place : frame'[r][p] = frame[r][p]
  BY <1>2, <1>3, PutAt
<1>5. frame[s][n] \in Frame
  BY <1>2, <1>3 DEF Frames
<1>6. /\ gone' \in Stacks /\ \A r \in Space \ {s} : gone'[r] = gone[r]
      /\ gone'[s] # {} => job[s].do = "twice"
  <2>1. CASE job[s].do = "twice"
    BY <1>2, <1>3, <1>5, <2>1 DEF Stacks
  <2>2. CASE job[s].do # "twice"
    BY <1>2, <1>3, <2>2
  <2> QED BY <2>1, <2>2
<1>7. used' \subseteq Frame /\ UsedExact'
  BY <1>3, FreeMarks
<1>8. CASE UNCHANGED <<job, life>>
  <2>1. SetPhases(s)
    BY <1>1, <1>2, <1>8, BusyAlone DEF SetPhases, Phases, Typed
  <2>2. SetFrames(s)
    BY <1>1, <1>2, <1>4, <1>6, <1>7, <1>8 DEF SetFrames
  <2> QED BY <1>1, <2>1, <2>2, SetsPhases
<1>9. CASE job[s].do = "twice" /\ life' = life /\ job' = [job EXCEPT ![s] = Job("again", "none", 0, 0)]
  <2>1. PICK j \in Jobs : j = Job("again", "none", 0, 0) /\ j.do = "again" /\ j.step = "none"
    BY NewJobs
  <2>2. job' = [job EXCEPT ![s] = j]
    BY <1>9, <2>1
  <2>3. life[s] = "loading" /\ life' = life /\ kstack' \in Stacks /\ kstack' = kstack
    BY <1>1, <1>2, <1>9
  <2>4. UNCHANGED <<heap, lost, image, brk>>
    BY <1>1
  <2> QED BY <1>4, <1>6, <1>7, <2>1, <2>2, <2>3, <2>4, LeavePhases
<1>10. CASE /\ job[s].do # "twice" /\ life' = [life EXCEPT ![s] = "gone"]
            /\ job' = [job EXCEPT ![s] = Idle]
  BY <1>1, <1>2, <1>4, <1>6, <1>7, <1>10, NewJobs, LeavePhases
<1> QED BY <1>3, <1>8, <1>9, <1>10

LEMMA DestroyAgainPhases ==
  ASSUME Phases, NEW s \in Space, DestroyAgain(s)
  PROVE  Phases'
<1>1. job[s].do = "again" /\ UNCHANGED <<heap, frame, kstack, image, brk, lost>>
  BY DEF DestroyAgain
<1>2. life[s] = "loading" /\ life' = [life EXCEPT ![s] = "gone"] /\ job' = [job EXCEPT ![s] = Idle]
  BY DEF DestroyAgain, Phases, JobsOK, JobOK, Loads
<1>3. /\ gone' \in Stacks /\ gone'[s] = {} /\ \A r \in Space \ {s} : gone'[r] = gone[r]
      /\ frame' \in Frames /\ kstack' \in Stacks
  BY <1>1 DEF DestroyAgain, Phases, Typed, Stacks
<1>4. used' \subseteq Frame /\ UsedExact'
  BY FreeMarks DEF DestroyAgain
<1> QED BY <1>1, <1>2, <1>3, <1>4, NewJobs, LeavePhases

LEMMA TaskExitPhases ==
  ASSUME Phases, NEW s \in Space, TaskExit(s)
  PROVE  Phases'
<1>1. /\ life[s] = "running" /\ job[s] = Idle /\ life' = [life EXCEPT ![s] = "zombie"]
      /\ UNCHANGED <<pmm, heap, frame, kstack, image, brk, job, gone, lost>>
  BY DEF TaskExit
<1>2. /\ life' \in [Space -> Lives] /\ life'[s] = "zombie"
      /\ \A r \in Space \ {s} : life'[r] = life[r]
  BY <1>1 DEF Phases, Typed, Lives
<1>3. JobOK(Idle, "zombie", image[s]) /\ Idle.do = "idle"
  BY DEF JobOK, Idle, Job, Loads, Calls
<1>4. SetPhases(s)
  BY <1>1, <1>2, <1>3 DEF SetPhases, Phases, Typed
<1>5. used' \subseteq Frame /\ UsedExact'
  BY <1>1, PmmStays
<1>6. gone[s] = {}
  BY <1>1, <1>3 DEF Phases, GoneOnce
<1>7. SetFrames(s)
  BY <1>1, <1>2, <1>3, <1>5, <1>6 DEF SetFrames, Phases, Typed
<1> QED BY <1>1, <1>4, <1>7, SetsPhases

LEMMA FreeTaskResourcesPhases ==
  ASSUME Phases, NEW s \in Space, FreeTaskResources(s)
  PROVE  Phases'
<1>1. /\ life[s] = "zombie" /\ job[s] = Idle /\ kstack' = [kstack EXCEPT ![s] = {}]
      /\ UNCHANGED <<heap, frame, life, image, brk, gone, lost>>
  BY DEF FreeTaskResources
<1>2. PICK j \in Jobs : j = Job("destroy", "none", 0, 0) /\ j.do = "destroy" /\ j.step = "none"
  BY NewJobs
<1>3. job' = [job EXCEPT ![s] = j]
  BY <1>2 DEF FreeTaskResources
<1>4. used' \subseteq Frame /\ UsedExact'
  BY FreeMarks DEF FreeTaskResources
<1>5. /\ frame' \in Frames /\ kstack' \in Stacks /\ gone' \in Stacks
      /\ kstack'[s] = {} /\ \A r \in Space \ {s} : kstack'[r] = kstack[r]
  BY <1>1 DEF Phases, Typed, Stacks
<1>6. gone[s] = {}
  BY <1>1, NewJobs DEF Phases, GoneOnce
<1> QED BY <1>1, <1>2, <1>3, <1>4, <1>5, <1>6, LeavePhases
------------------------------------------------------------------------------
LEMMA CallPhases ==
  ASSUME Phases, NEW s \in Space, NEW j \in Jobs, Call(s, j), JobOK(j, "running", image[s]),
         j.do # "root"
  PROVE  Phases'
<1>1. /\ life[s] = "running" /\ job[s] = Idle /\ job' = [job EXCEPT ![s] = j]
      /\ UNCHANGED <<pmm, heap, frame, life, kstack, image, brk, gone, lost>>
  BY DEF Call
<1>2. /\ job' \in [Space -> Jobs] /\ job'[s] = j /\ \A r \in Space \ {s} : job'[r] = job[r]
  BY <1>1, SetJob
<1>3. brk[s] \in image[s][2]..BrkMax
  BY <1>1 DEF Phases, BreakOK
<1>4. SetPhases(s)
  BY <1>1, <1>2, <1>3, BusyAlone DEF SetPhases, Phases, Typed
<1>5. used' \subseteq Frame /\ UsedExact'
  BY <1>1, PmmStays
<1>6. gone[s] = {}
  BY <1>1, NewJobs DEF Phases, GoneOnce
<1>7. SetFrames(s)
  BY <1>1, <1>2, <1>5, <1>6 DEF SetFrames, Phases, Typed
<1> QED BY <1>1, <1>4, <1>7, SetsPhases

(* The jobs that calls set. *)
LEMMA CallJobs ==
  ASSUME NEW do \in Calls, NEW step \in {"map", "unmap"}, NEW lo \in Nat, NEW hi \in Nat,
         lo < hi, hi <= StackTop, NEW im,
         step = "map" => do \in Maps, step = "unmap" => do \in Unmaps,
         do = "brk" => hi \in im[2]..BrkMax,
         do = "shrink" => step = "unmap" /\ lo \in im[2]..BrkMax
  PROVE  \E j \in Jobs : j = Job(do, step, lo, hi) /\ JobOK(j, "running", im) /\ j.do # "root"
<1>1. PICK j : j = Job(do, step, lo, hi)
  OBVIOUS
<1>2. j \in Jobs /\ j.do = do /\ j.step = step /\ j.at = lo /\ j.lo = lo /\ j.hi = hi
  BY <1>1 DEF Job, Jobs
<1>3. JobOK(j, "running", im) /\ j.do # "root"
  BY <1>2, Bounds DEF JobOK, Calls, Loads, Maps
<1> QED BY <1>1, <1>2, <1>3

LEMMA SysBrkPhases ==
  ASSUME Phases, NEW s \in Space, NEW to \in Probe, SysBrk(s, to)
  PROVE  Phases'
<1>1. PICK lo : lo = image[s][2] /\ lo \in Nat /\ to \in lo..BrkMax
  BY Bounds DEF SysBrk, Phases, Typed
<1>2. life[s] = "running"
  BY DEF SysBrk, Call
<1>3. PICK b \in Nat : b = brk[s] /\ b \in lo..BrkMax
  BY <1>1, <1>2 DEF Phases, BreakOK, Typed
<1>4. CASE to > b /\ Call(s, Job("brk", "map", b, to))
  <2>1. PICK j \in Jobs : j = Job("brk", "map", b, to) /\ JobOK(j, "running", image[s]) /\ j.do # "root"
    <3>1. to \in Nat /\ to <= StackTop /\ b < to /\ to \in image[s][2]..BrkMax
      BY <1>1, <1>3, <1>4, Bounds
    <3>2. "brk" \in Calls /\ "brk" \in Maps
      BY DEF Calls, Maps
    <3> QED BY <1>3, <3>1, <3>2, CallJobs
  <2> QED BY <1>4, <2>1, CallPhases
<1>5. CASE to < b /\ Call(s, Job("shrink", "unmap", to, b))
  <2>1. PICK j \in Jobs : j = Job("shrink", "unmap", to, b) /\ JobOK(j, "running", image[s]) /\ j.do # "root"
    <3>1. to \in Nat /\ b <= StackTop /\ to < b /\ to \in image[s][2]..BrkMax
      BY <1>1, <1>3, <1>5, Bounds
    <3>2. "shrink" \in Calls /\ "shrink" \in Unmaps
      BY DEF Calls, Unmaps
    <3> QED BY <1>3, <3>1, <3>2, CallJobs
  <2> QED BY <1>5, <2>1, CallPhases
<1> QED BY <1>3, <1>4, <1>5 DEF SysBrk

LEMMA SysMmapPhases ==
  ASSUME Phases, NEW s \in Space, NEW n \in 1..MaxLen, SysMmap(s, n)
  PROVE  Phases'
<1>1. PICK va \in MmapStart..(MmapMax - n) : Call(s, Job("mmap", "map", va, va + n))
  BY DEF SysMmap
<1>2. va \in Nat /\ va + n \in Nat /\ va < va + n /\ va + n <= StackTop
  <2>1. MmapStart \in Nat /\ MmapMax \in Nat /\ MaxLen \in Nat /\ MmapMax <= StackTop
    BY MemoryAssumption
  <2> QED BY <1>1, <2>1, Bounds
<1>3. "mmap" \in Calls /\ "mmap" \in Maps
  BY DEF Calls, Maps
<1>4. PICK j \in Jobs : j = Job("mmap", "map", va, va + n) /\ JobOK(j, "running", image[s]) /\ j.do # "root"
  BY <1>2, <1>3, CallJobs
<1> QED BY <1>1, <1>4, CallPhases

LEMMA SysMmapFixedPhases ==
  ASSUME Phases, NEW s \in Space, NEW va \in Probe, NEW n \in 1..MaxLen, SysMmapFixed(s, va, n)
  PROVE  Phases'
<1>1. Call(s, Job("fixed", "unmap", va, va + n)) /\ va + n <= StackTop
  BY DEF SysMmapFixed
<1>2. va \in Nat /\ va + n \in Nat /\ va < va + n
  BY MemoryAssumption, Bounds DEF Va
<1>3. "fixed" \in Calls /\ "fixed" \in Unmaps
  BY DEF Calls, Unmaps
<1>4. PICK j \in Jobs : j = Job("fixed", "unmap", va, va + n) /\ JobOK(j, "running", image[s]) /\ j.do # "root"
  <2> DEFINE hi == va + n
  <2>1. hi \in Nat /\ va \in Nat /\ va < hi /\ hi <= StackTop
    BY <1>1, <1>2
  <2> HIDE DEF hi
  <2>2. PICK j \in Jobs : j = Job("fixed", "unmap", va, hi) /\ JobOK(j, "running", image[s]) /\ j.do # "root"
    BY <1>3, <2>1, CallJobs
  <2> QED BY <2>2 DEF hi
<1> QED BY <1>1, <1>4, CallPhases

LEMMA SysMunmapPhases ==
  ASSUME Phases, NEW s \in Space, NEW va \in Probe, NEW n \in 1..MaxLen, SysMunmap(s, va, n)
  PROVE  Phases'
<1>1. Call(s, Job("munmap", "unmap", va, va + n)) /\ va + n <= StackBase
  BY DEF SysMunmap
<1>2. va \in Nat /\ va + n \in Nat /\ va < va + n /\ va + n <= StackTop
  BY <1>1, MemoryAssumption, Bounds DEF Va
<1>3. "munmap" \in Calls /\ "munmap" \in Unmaps
  BY DEF Calls, Unmaps
<1>4. PICK j \in Jobs : j = Job("munmap", "unmap", va, va + n) /\ JobOK(j, "running", image[s]) /\ j.do # "root"
  BY <1>2, <1>3, CallJobs
<1> QED BY <1>1, <1>4, CallPhases

LEMMA PageFaultPhases ==
  ASSUME Phases, NEW s \in Space, NEW va \in Probe, PageFault(s, va)
  PROVE  Phases'
<1>1. Call(s, Job("fault", "map", va, va + 1))
  BY DEF PageFault
<1>2. va \in Nat /\ va + 1 \in Nat /\ va < va + 1 /\ va + 1 <= StackTop
  BY MemoryAssumption, Bounds DEF Va
<1>3. "fault" \in Calls /\ "fault" \in Maps
  BY DEF Calls, Maps
<1>4. PICK j \in Jobs : j = Job("fault", "map", va, va + 1) /\ JobOK(j, "running", image[s]) /\ j.do # "root"
  BY <1>2, <1>3, CallJobs
<1> QED BY <1>1, <1>4, CallPhases

(* Nothing that Phases speaks of, but the allocator and the heap. *)
LEMMA SamePhases ==
  ASSUME Phases, used' \subseteq Frame, UsedExact', heap' \subseteq Frame,
         UNCHANGED <<frame, life, kstack, image, brk, job, gone, lost>>
  PROVE  Phases'
<1>1. Typed'
  BY DEF Phases, Typed
<1>2. JobsOK' /\ BreakOK' /\ OneBusy' /\ Fresh' /\ Unstacked' /\ GoneOnce'
  BY DEF Phases, JobsOK, BreakOK, OneBusy, Fresh, Unstacked, GoneOnce
<1> QED BY <1>1, <1>2 DEF Phases

LEMMA HeapExpandPhases ==
  ASSUME Phases, NEW n \in 1..MaxLen, HeapExpand(n)
  PROVE  Phases'
<1>1. PICK f \in Frame : AllocateRange(f, n) /\ heap' = heap \cup Run(f, n)
  BY DEF HeapExpand
<1>2. n \in Nat
  BY MemoryAssumption
<1>3. used' \subseteq Frame /\ UsedExact' /\ Run(f, n) \subseteq Frame
  BY <1>1, <1>2, AllocateRangeMarks
<1>4. heap' \subseteq Frame
  BY <1>1, <1>3 DEF Phases, Typed
<1> QED BY <1>3, <1>4, SamePhases DEF HeapExpand

LEMMA InitPhases == Init => Phases
<1> SUFFICES ASSUME Init PROVE Phases
  OBVIOUS
<1>1. Typed
  <2>1. NoFrame \in Frame \cup {NoFrame} /\ 0 \in Nat /\ "none" \in Lives /\ Idle \in Jobs
    BY NewJobs DEF Lives
  <2>2. image \in [Space -> Image]
    BY MemoryAssumption DEF Init
  <2>3. frame \in Frames
    BY <2>1 DEF Init, Frames
  <2>4. kstack \in Stacks /\ gone \in Stacks /\ life \in [Space -> Lives] /\ brk \in [Space -> Nat]
    BY <2>1 DEF Init, Stacks
  <2>5. job \in [Space -> Jobs]
    BY <2>1 DEF Init
  <2>6. used \subseteq Frame /\ heap \subseteq Frame /\ lost \subseteq Frame
    BY MemoryAssumption DEF Init
  <2> QED BY <2>2, <2>3, <2>4, <2>5, <2>6 DEF Typed
<1>2. UsedExact
  BY DEF Init, UsedExact
<1>3. JobsOK
  <2>1. \A im : JobOK(Idle, "none", im)
    BY DEF JobOK, Idle, Job, Loads, Calls
  <2> QED BY <2>1 DEF Init, JobsOK
<1>4. BreakOK /\ OneBusy
  BY DEF Init, BreakOK, OneBusy
<1>5. Fresh
  BY DEF Init, Fresh
<1>6. Unstacked /\ GoneOnce
  BY DEF Init, Unstacked, GoneOnce
<1> QED BY <1>1, <1>2, <1>3, <1>4, <1>5, <1>6 DEF Phases

LEMMA NextPhases == Phases /\ [Next]_vars => Phases'
<1>1. ASSUME Phases, NEW s \in Space, Step(s)
      PROVE  Phases'
  BY <1>1, TakePagePhases, SkipPagePhases, AddTablePhases, EnterPagePhases, DropPagePhases,
     UnmapPagePhases, FreePagePhases, CreateRootPhases, ReadFailsPhases, CreateTaskPhases,
     DestroyPhases, DestroyAgainPhases, TaskExitPhases, FreeTaskResourcesPhases, CmdRunPhases,
     SysBrkPhases, SysMmapPhases, SysMmapFixedPhases, SysMunmapPhases, PageFaultPhases
     DEF Step
<1>2. ASSUME Phases, UNCHANGED vars
      PROVE  Phases'
  <2>1. used' \subseteq Frame /\ UsedExact' /\ heap' \subseteq Frame
    BY <1>2 DEF Phases, Typed, UsedExact, vars
  <2> QED BY <1>2, <2>1, SamePhases DEF vars
<1> QED BY <1>1, <1>2, HeapExpandPhases DEF Next
------------------------------------------------------------------------------
(* The programs' phases and the types they rest on, in every reachable state. *)
THEOREM PhasesAlways == Spec => []Phases
<1> QED BY InitPhases, NextPhases, PTL DEF Spec

(* Types, and that brk never leaves the room between the program's last page   *)
(* and its stack (SysBrkHandler, BrkCurrent).                                  *)
THEOREM TypeCorrect == Spec => []TypeOK
<1>1. Phases => TypeOK
  <2> SUFFICES ASSUME Phases PROVE TypeOK
    OBVIOUS
  <2>1. usedPages \in Int
    BY FrameFinite DEF Phases, Typed, UsedExact
  <2> QED BY <2>1 DEF TypeOK, Phases, Typed, BreakOK, Frames, Stacks, Lives
<1> QED BY <1>1, PhasesAlways, PTL

(* UsedPages is the number of bits set in Bitmap, though frames are freed      *)
(* twice when a task cannot be made (PhysAllocMarkRangeLocked,                 *)
(* PhysAllocFreePageLocked).                                                   *)
THEOREM UsedExactAlways == Spec => []UsedExact
<1>1. Phases => UsedExact
  BY DEF Phases
<1> QED BY <1>1, PhasesAlways, PTL
------------------------------------------------------------------------------
(* Who owns the frames, when the heap does not grow between the two times the  *)
(* shell frees a space it failed to start.                                     *)
Held == BootFrames \cup heap \cup lost
GoneFree == \A s \in Space : gone[s] \cap used = {}
Owners ==
  /\ Apart(used, frame, kstack, Held) /\ Covers(used, frame, kstack, Held)
  /\ BootFrames \cap heap = {} /\ GoneFree

(* A space that takes frames is the only busy one, so no space is being freed  *)
(* twice.                                                                      *)
LEMMA NoneGone ==
  ASSUME Phases, NEW s \in Space, job[s].do \in Maps \cup Unmaps \cup {"root", "task"}
  PROVE  \A r \in Space : gone[r] = {}
<1>1. life[s] \in {"loading", "running"} /\ job[s].do \notin {"twice", "again"}
  BY DEF Phases, JobsOK, JobOK, Maps, Unmaps, Loads, Calls
<1>2. \A r \in Space : gone[r] # {} => job[r].do \in {"twice", "again"} /\ life[r] = "loading"
  BY DEF Phases, GoneOnce, JobsOK, JobOK, Loads
<1> QED BY <1>1, <1>2 DEF Phases, OneBusy

LEMMA SameOwners ==
  ASSUME Owners, used' = used, UNCHANGED <<frame, kstack, heap, lost>>,
         \A r \in Space : gone'[r] \subseteq gone[r]
  PROVE  Owners'
<1>1. Held' = Held
  BY DEF Held
<1>2. GoneFree'
  BY DEF Owners, GoneFree
<1> QED BY <1>1, <1>2 DEF Owners

LEMMA TakeOwners ==
  ASSUME Phases, Owners, NEW s \in Space, NEW p \in Place, NEW f \in Frame, AllocatePage(f),
         frame[s][p] = NoFrame, frame' = Put(frame, s, p, f), UNCHANGED <<kstack, heap, lost, gone>>,
         \A r \in Space : gone[r] = {}
  PROVE  Owners'
<1>1. used' = used \cup {f} /\ f \notin used
  BY AllocatePageMarks
<1>2. used \in SUBSET Frame /\ frame \in Frames /\ kstack \in Stacks
  BY DEF Phases, Typed
<1>3. Apart(used', frame', kstack, Held) /\ Covers(used', frame', kstack, Held)
  BY <1>1, <1>2, TakeApart DEF Owners
<1>4. Held' = Held /\ kstack' = kstack
  BY DEF Held
<1>5. GoneFree'
  BY DEF GoneFree
<1> QED BY <1>3, <1>4, <1>5 DEF Owners

LEMMA GiveOwners ==
  ASSUME Phases, Owners, NEW s \in Space, NEW p \in Place, MarkFree({frame[s][p]}),
         frame' = Put(frame, s, p, NoFrame), UNCHANGED <<kstack, heap, lost>>,
         \A r \in Space : gone'[r] \subseteq gone[r] \cup {frame[s][p]}
  PROVE  Owners'
<1>1. used' = used \ {frame[s][p]}
  BY FreeMarks
<1>2. used \in SUBSET Frame /\ frame \in Frames /\ kstack \in Stacks
  BY DEF Phases, Typed
<1>3. Apart(used', frame', kstack, Held) /\ Covers(used', frame', kstack, Held)
  BY <1>1, <1>2, GiveApart DEF Owners
<1>4. Held' = Held /\ kstack' = kstack
  BY DEF Held
<1>5. GoneFree'
  BY <1>1 DEF Owners, GoneFree
<1> QED BY <1>3, <1>4, <1>5 DEF Owners

LEMMA TakePageOwners ==
  ASSUME Phases, Owners, NEW s \in Space, TakePage(s)
  PROVE  Owners'
<1>1. /\ job[s].do \in Maps /\ frame[s][Hand] = NoFrame
      /\ UNCHANGED <<kstack, heap, lost, gone>>
  BY DEF TakePage
<1>2. \A r \in Space : gone[r] = {}
  BY <1>1, NoneGone
<1>3. ASSUME NEW f \in Frame, AllocatePage(f), frame' = Put(frame, s, Hand, f)
      PROVE  Owners'
  BY <1>1, <1>2, <1>3, Places, TakeOwners
<1>4. ASSUME UNCHANGED <<pmm, frame>>
      PROVE  Owners'
  BY <1>1, <1>4, SameOwners DEF pmm
<1> QED BY <1>3, <1>4 DEF TakePage

LEMMA AddTableOwners ==
  ASSUME Phases, Owners, NEW s \in Space, AddTable(s)
  PROVE  Owners'
<1>1. job[s].step = "map" /\ UNCHANGED <<kstack, heap, lost, gone>>
  BY DEF AddTable
<1>2. job[s].at \in Va /\ job[s].do \in Maps \cup Unmaps
  BY <1>1, AtIsVa
<1>3. \A r \in Space : gone[r] = {}
  BY <1>2, NoneGone
<1>4. \A n \in Missing(s, job[s].at) : n \in Place /\ frame[s][n] = NoFrame
  BY <1>2, Places DEF Missing
<1>5. ASSUME NEW n \in Place, frame[s][n] = NoFrame,
             NEW f \in Frame, AllocatePage(f), frame' = Put(frame, s, n, f)
      PROVE  Owners'
  BY <1>1, <1>3, <1>5, TakeOwners
<1>6. ASSUME UNCHANGED <<pmm, frame>>
      PROVE  Owners'
  BY <1>1, <1>6, SameOwners DEF pmm
<1> QED BY <1>4, <1>5, <1>6 DEF AddTable

LEMMA EnterPageOwners ==
  ASSUME Phases, Owners, NEW s \in Space, EnterPage(s)
  PROVE  Owners'
<1>1. /\ job[s].at \in Va /\ frame[s][Hand] # NoFrame
      /\ UNCHANGED <<pmm, kstack, heap, gone>>
  BY AtIsVa DEF EnterPage
<1>2. used \in SUBSET Frame /\ frame \in Frames /\ kstack \in Stacks
  BY DEF Phases, Typed
<1>3. PICK q \in Place : q = Leaf(job[s].at) /\ q # Hand
  BY <1>1, Places
<1>4. /\ frame' = Put(Put(frame, s, q, frame[s][Hand]), s, Hand, NoFrame)
      /\ lost' = lost \cup {f \in Frame : f = frame[s][q]}
  BY <1>3 DEF EnterPage
<1>5. Held' = Held \cup {f \in Frame : f = frame[s][q]}
  BY <1>1, <1>4 DEF Held
<1>6. Apart(used, frame', kstack, Held') /\ Covers(used, frame', kstack, Held')
  BY <1>1, <1>2, <1>3, <1>4, <1>5, Places, MoveApart DEF Owners
<1>7. used' = used /\ kstack' = kstack
  BY <1>1 DEF pmm
<1>8. GoneFree'
  BY <1>1, <1>7 DEF Owners, GoneFree
<1> QED BY <1>1, <1>6, <1>7, <1>8 DEF Owners

LEMMA DropPageOwners ==
  ASSUME Phases, Owners, NEW s \in Space, DropPage(s)
  PROVE  Owners'
BY Places, GiveOwners DEF DropPage

LEMMA UnmapPageOwners ==
  ASSUME Phases, Owners, NEW s \in Space, UnmapPage(s)
  PROVE  Owners'
<1>1. /\ job[s].at \in Va /\ frame[s][Hand] = NoFrame
      /\ UNCHANGED <<pmm, kstack, heap, gone, lost>>
  BY AtIsVa DEF UnmapPage
<1>2. CASE Mapped(s, job[s].at)
  <2>1. used \in SUBSET Frame /\ frame \in Frames /\ kstack \in Stacks
    BY DEF Phases, Typed
  <2>2. PICK p \in Place : p = Leaf(job[s].at) /\ p # Hand
    BY <1>1, Places
  <2>3. frame' = Put(Put(frame, s, Hand, frame[s][p]), s, p, NoFrame) /\ frame[s][p] # NoFrame
    BY <1>2, <2>2 DEF UnmapPage, Mapped
  <2>4. Held = Held \cup {f \in Frame : f = frame[s][Hand]}
    BY <1>1, NoFrameApart
  <2>5. Apart(used, frame', kstack, Held) /\ Covers(used, frame', kstack, Held)
    BY <2>1, <2>2, <2>3, <2>4, Places, MoveApart DEF Owners
  <2>6. used' = used /\ kstack' = kstack /\ Held' = Held
    BY <1>1 DEF pmm, Held
  <2>7. GoneFree'
    BY <1>1, <2>6 DEF Owners, GoneFree
  <2> QED BY <1>1, <2>5, <2>6, <2>7 DEF Owners
<1>3. CASE ~Mapped(s, job[s].at)
  <2>1. frame' = frame
    BY <1>3 DEF UnmapPage
  <2> QED BY <1>1, <2>1, SameOwners DEF pmm
<1> QED BY <1>2, <1>3

LEMMA FreePageOwners ==
  ASSUME Phases, Owners, NEW s \in Space, FreePage(s)
  PROVE  Owners'
BY Places, GiveOwners DEF FreePage

LEMMA CreateRootOwners ==
  ASSUME Phases, Owners, NEW s \in Space, CreateRoot(s)
  PROVE  Owners'
<1>1. job[s].do = "root" /\ UNCHANGED <<kstack, heap, lost, gone>>
  BY DEF CreateRoot
<1>2. (\A r \in Space : gone[r] = {}) /\ frame[s][Root] = NoFrame
  BY <1>1, NoneGone, Places DEF Phases, Fresh
<1>3. ASSUME NEW f \in Frame, AllocatePage(f), frame' = Put(frame, s, Root, f)
      PROVE  Owners'
  BY <1>1, <1>2, <1>3, Places, TakeOwners
<1>4. ASSUME UNCHANGED <<pmm, frame>>
      PROVE  Owners'
  BY <1>1, <1>4, SameOwners DEF pmm
<1> QED BY <1>3, <1>4 DEF CreateRoot

LEMMA CreateTaskOwners ==
  ASSUME Phases, Owners, NEW s \in Space, CreateTask(s)
  PROVE  Owners'
<1>1. job[s].do = "task" /\ UNCHANGED <<frame, heap, lost, gone>>
  BY DEF CreateTask
<1>2. \A r \in Space : gone[r] = {}
  BY <1>1, NoneGone
<1>3. kstack[s] = {}
  BY <1>1 DEF Phases, JobsOK, JobOK, Loads, Unstacked
<1>4. ASSUME NEW f \in Frame, AllocateRange(f, KStackPages),
             kstack' = [kstack EXCEPT ![s] = Run(f, KStackPages)]
      PROVE  Owners'
  <2>1. used \in SUBSET Frame /\ frame \in Frames /\ kstack \in Stacks
    BY DEF Phases, Typed
  <2>2. KStackPages \in Nat
    BY MemoryAssumption
  <2>3. used' = used \cup Run(f, KStackPages) /\ Run(f, KStackPages) \in SUBSET (Frame \ used)
    BY <1>4, <2>2, AllocateRangeMarks
  <2>4. Apart(used', frame, kstack', Held) /\ Covers(used', frame, kstack', Held)
    BY <1>3, <1>4, <2>1, <2>3, StackApart DEF Owners
  <2>5. Held' = Held /\ frame' = frame
    BY <1>1 DEF Held
  <2>6. GoneFree'
    BY <1>1, <1>2 DEF GoneFree
  <2> QED BY <1>1, <2>4, <2>5, <2>6 DEF Owners
<1>5. ASSUME UNCHANGED <<pmm, kstack>>
      PROVE  Owners'
  BY <1>1, <1>5, SameOwners DEF pmm
<1> QED BY <1>4, <1>5 DEF CreateTask

LEMMA DestroyOwners ==
  ASSUME Phases, Owners, NEW s \in Space, Destroy(s)
  PROVE  Owners'
<1>1. PICK n \in Place :
        /\ MarkFree({frame[s][n]}) /\ frame' = Put(frame, s, n, NoFrame)
        /\ gone' = IF job[s].do = "twice" THEN [gone EXCEPT ![s] = @ \cup {frame[s][n]}] ELSE gone
  BY Places DEF Destroy, Present
<1>2. UNCHANGED <<kstack, heap, lost>> /\ gone \in Stacks
  BY DEF Destroy, Phases, Typed
<1>3. \A r \in Space : gone'[r] \subseteq gone[r] \cup {frame[s][n]}
  <2>1. CASE job[s].do = "twice"
    BY <1>1, <1>2, <2>1 DEF Stacks
  <2>2. CASE job[s].do # "twice"
    BY <1>1, <2>2
  <2> QED BY <2>1, <2>2
<1> QED BY <1>1, <1>2, <1>3, GiveOwners

LEMMA DestroyAgainOwners ==
  ASSUME Phases, Owners, NEW s \in Space, DestroyAgain(s)
  PROVE  Owners'
<1>1. /\ MarkFree(gone[s]) /\ gone' = [gone EXCEPT ![s] = {}]
      /\ UNCHANGED <<frame, kstack, heap, lost>>
  BY DEF DestroyAgain
<1>2. used' = used
  BY <1>1, FreeMarks DEF Owners, GoneFree
<1>3. \A r \in Space : gone'[r] \subseteq gone[r]
  BY <1>1 DEF Phases, Typed, Stacks
<1> QED BY <1>1, <1>2, <1>3, SameOwners

LEMMA FreeTaskResourcesOwners ==
  ASSUME Phases, Owners, NEW s \in Space, FreeTaskResources(s)
  PROVE  Owners'
<1>1. /\ MarkFree(kstack[s]) /\ kstack' = [kstack EXCEPT ![s] = {}]
      /\ UNCHANGED <<frame, heap, lost, gone>>
  BY DEF FreeTaskResources
<1>2. used' = used \ kstack[s]
  BY <1>1, FreeMarks
<1>3. used \in SUBSET Frame /\ frame \in Frames /\ kstack \in Stacks
  BY DEF Phases, Typed
<1>4. Apart(used', frame, kstack', Held) /\ Covers(used', frame, kstack', Held)
  BY <1>1, <1>2, <1>3, UnstackApart DEF Owners
<1>5. Held' = Held /\ frame' = frame
  BY <1>1 DEF Held
<1>6. GoneFree'
  BY <1>1, <1>2 DEF Owners, GoneFree
<1> QED BY <1>1, <1>4, <1>5, <1>6 DEF Owners

LEMMA HeapExpandOwners ==
  ASSUME ~GrowsBetween, Phases, Owners, NEW n \in 1..MaxLen, HeapExpand(n)
  PROVE  Owners'
<1>1. PICK f \in Frame : AllocateRange(f, n) /\ heap' = heap \cup Run(f, n)
  BY DEF HeapExpand
<1>2. UNCHANGED <<frame, kstack, lost, gone>> /\ \A r \in Space : gone[r] = {}
  BY DEF HeapExpand
<1>3. n \in Nat
  BY MemoryAssumption
<1>4. used' = used \cup Run(f, n) /\ Run(f, n) \in SUBSET (Frame \ used)
  BY <1>1, <1>3, AllocateRangeMarks
<1>5. used \in SUBSET Frame /\ frame \in Frames /\ kstack \in Stacks
  BY DEF Phases, Typed
<1>6. Apart(used', frame, kstack, Held \cup Run(f, n)) /\ Covers(used', frame, kstack, Held \cup Run(f, n))
  BY <1>4, <1>5, GrowApart DEF Owners
<1>7. Held' = Held \cup Run(f, n)
  BY <1>1, <1>2 DEF Held
<1>8. BootFrames \cap heap' = {}
  <2>1. BootFrames \subseteq used
    BY DEF Owners, Apart, Held
  <2> QED BY <1>1, <1>4, <2>1 DEF Owners
<1>9. GoneFree'
  BY <1>2 DEF GoneFree
<1> QED BY <1>2, <1>6, <1>7, <1>8, <1>9 DEF Owners

(* The other steps move no frame. *)
LEMMA CallOwners ==
  ASSUME Owners, NEW s \in Space,
         \/ SkipPage(s) \/ ReadFails(s) \/ TaskExit(s)
         \/ \E im \in Image : CmdRun(s, im)
         \/ \E j : Call(s, j)
  PROVE  Owners'
<1>1. used' = used /\ UNCHANGED <<frame, kstack, heap, lost, gone>>
  BY DEF SkipPage, ReadFails, TaskExit, CmdRun, Call, pmm
<1> QED BY <1>1, SameOwners

LEMMA NextOwners == ~GrowsBetween /\ Phases /\ Owners /\ [Next]_vars => Owners'
<1> SUFFICES ASSUME ~GrowsBetween, Phases, Owners, [Next]_vars
             PROVE  Owners'
  OBVIOUS
<1>1. ASSUME NEW s \in Space, Step(s)
      PROVE  Owners'
  <2>1. ASSUME \/ \E to \in Probe : SysBrk(s, to)
               \/ \E n \in 1..MaxLen : SysMmap(s, n)
               \/ \E va \in Probe, n \in 1..MaxLen : SysMmapFixed(s, va, n) \/ SysMunmap(s, va, n)
               \/ \E va \in Probe : PageFault(s, va)
        PROVE  \E j : Call(s, j)
    BY <2>1 DEF SysBrk, SysMmap, SysMmapFixed, SysMunmap, PageFault
  <2> QED BY <1>1, <2>1, CallOwners, TakePageOwners, AddTableOwners, EnterPageOwners, DropPageOwners,
             UnmapPageOwners, FreePageOwners, CreateRootOwners, CreateTaskOwners, DestroyOwners,
             DestroyAgainOwners, FreeTaskResourcesOwners DEF Step
<1>2. CASE UNCHANGED vars
  <2>1. used' = used /\ UNCHANGED <<frame, kstack, heap, lost, gone>>
    BY <1>2 DEF vars
  <2> QED BY <2>1, SameOwners
<1> QED BY <1>1, <1>2, HeapExpandOwners DEF Next

LEMMA InitOwners == Init => Owners
<1> SUFFICES ASSUME Init PROVE Owners
  OBVIOUS
<1>1. /\ \A s \in Space : \A p \in Place : frame[s][p] = NoFrame
      /\ \A s \in Space : kstack[s] = {} /\ gone[s] = {}
      /\ used = BootFrames /\ Held = BootFrames /\ heap = {}
  BY DEF Init, Held
<1>2. Apart(used, frame, kstack, Held)
  BY <1>1 DEF Apart
<1>3. Covers(used, frame, kstack, Held)
  BY <1>1 DEF Covers
<1> QED BY <1>1, <1>2, <1>3 DEF Owners, GoneFree

LEMMA OwnersAlways ==
  ASSUME ~GrowsBetween
  PROVE  Spec => [](Phases /\ Owners)
<1>1. Init => Phases /\ Owners
  BY InitPhases, InitOwners
<1>2. Phases /\ Owners /\ [Next]_vars => (Phases /\ Owners)'
  BY NextPhases, NextOwners
<1> QED BY <1>1, <1>2, PTL DEF Spec

(* No frame has two owners or two places, and none is free while owned,        *)
(* whatever fails on the way through the loader (ElfLoadFromFile,              *)
(* UserTaskCreateFromPageTable), the calls that map and unmap, and the two     *)
(* frees of a space whose task could not be made.                              *)
THEOREM OneOwnerAlways ==
  ASSUME ~GrowsBetween
  PROVE  Spec => []OneOwner
<1>1. Phases /\ Owners => OneOwner
  <2> SUFFICES ASSUME Phases, Owners PROVE OneOwner
    OBVIOUS
  <2>1. Apart(used, frame, kstack, Held)
    BY DEF Owners
  <2>2. BootFrames \cup heap \subseteq used /\ BootFrames \cap heap = {}
    BY <2>1 DEF Owners, Apart, Held
  <2>3. \A s \in Space : Owned(s) \subseteq used \ (BootFrames \cup heap)
    BY <2>1 DEF Owned, Apart, Held
  <2>4. \A s \in Space :
          /\ \A p, q \in Place : frame[s][p] = frame[s][q] /\ p # q => frame[s][p] = NoFrame
          /\ \A p \in Place : frame[s][p] \notin kstack[s]
    BY <2>1 DEF Apart
  <2>5. \A s \in Space : \A r \in Space \ {s} : Owned(s) \cap Owned(r) = {}
    BY <2>1 DEF Owned, Apart
  <2> QED BY <2>2, <2>3, <2>4, <2>5 DEF OneOwner
<1> QED BY <1>1, OwnersAlways, PTL

(* Every frame in use has an owner, or is one that a fault on a present stack  *)
(* page replaced (PagingMapPageLocked): nothing else leaks, on any error path. *)
THEOREM AccountedAlways ==
  ASSUME ~GrowsBetween
  PROVE  Spec => []Accounted
<1>1. Phases /\ Owners => Accounted
  <2> SUFFICES ASSUME Phases, Owners PROVE Accounted
    OBVIOUS
  <2>1. \A s \in Space : \A f : f \in Owned(s) <=>
          f \in kstack[s] \/ (f # NoFrame /\ \E p \in Place : frame[s][p] = f)
    <3>1. \A s \in Space : NoFrame \notin kstack[s]
      BY NoFrameApart DEF Phases, Typed, Stacks
    <3> QED BY <3>1 DEF Owned
  <2>2. NoFrame \notin used
    BY NoFrameApart DEF Phases, Typed
  <2>3. \A f \in used : f \in Held \/ \E s \in Space : f \in Owned(s)
    BY <2>1, <2>2 DEF Owners, Covers
  <2>4. Held \subseteq used /\ \A s \in Space : Owned(s) \subseteq used
    BY <2>1 DEF Owners, Apart
  <2> QED BY <2>3, <2>4 DEF Accounted, Held
<1> QED BY <1>1, OwnersAlways, PTL
------------------------------------------------------------------------------
(* The tables as a tree.  Arithmetic first: division by a product. *)
LEMMA DivideIs ==
  ASSUME NEW x \in Nat, NEW d \in Nat \ {0}
  PROVE  /\ x \div d \in Nat /\ x % d \in 0..(d - 1)
         /\ x = d * (x \div d) + (x % d)
<1>1. x \div d \in Nat
  OBVIOUS
<1>2. x % d \in 0..(d - 1)
  OBVIOUS
<1>3. x = d * (x \div d) + (x % d)
  OBVIOUS
<1> QED BY <1>1, <1>2, <1>3

LEMMA QuotientIs ==
  ASSUME NEW x \in Nat, NEW d \in Nat \ {0}, NEW q \in Nat, NEW r \in 0..(d - 1), x = d * q + r
  PROVE  x \div d = q
OBVIOUS

LEMMA DivideTwice ==
  ASSUME NEW x \in Nat, NEW a \in Nat \ {0}, NEW b \in Nat \ {0}
  PROVE  x \div (b * a) = (x \div a) \div b
<1> DEFINE q == x \div a
           r == x % a
           u == q \div b
           v == q % b
           w == a * v + r
<1>1. q \in Nat /\ r \in 0..(a - 1) /\ x = a * q + r
  BY DivideIs
<1> HIDE DEF q, r
<1>2. u \in Nat /\ v \in 0..(b - 1) /\ q = b * u + v
  BY <1>1, DivideIs
<1> HIDE DEF u, v
<1>3. b * a \in Nat \ {0}
  OBVIOUS
<1>4. x = (b * a) * u + w
  <2>1. a * q = a * (b * u) + a * v
    BY <1>1, <1>2
  <2>2. a * (b * u) = (b * a) * u
    BY <1>2
  <2>3. a * q \in Int /\ a * (b * u) \in Int /\ a * v \in Int
    BY <1>1, <1>2
  <2> QED BY <1>1, <2>1, <2>2, <2>3
<1>5. w \in 0..(b * a - 1)
  <2>1. a * v \in Nat /\ v + 1 <= b
    BY <1>2
  <2>2. a * v + a <= b * a
    <3>1. a * (v + 1) <= a * b
      BY <1>2, <2>1
    <3> QED BY <1>2, <3>1
  <2> QED BY <1>1, <1>3, <2>1, <2>2
<1> HIDE DEF w
<1> QED BY <1>2, <1>3, <1>4, <1>5, QuotientIs DEF q, u

LEMMA SpanFacts ==
  /\ Levels \in Nat \ {0} /\ Fanout \in Nat \ {0, 1}
  /\ \A l \in 0..Levels : Span[l] \in Nat \ {0}
  /\ Span[0] = 1 /\ \A l \in 0..(Levels - 1) : Span[l + 1] = Fanout * Span[l]
  /\ Va \subseteq Nat /\ \A va \in Va : va < Span[Levels]
<1>1. /\ Levels \in Nat \ {0} /\ Fanout \in Nat \ {0, 1}
      /\ Span \in [0..Levels -> Nat \ {0}]
      /\ Span[0] = 1 /\ \A l \in 0..(Levels - 1) : Span[l + 1] = Fanout * Span[l]
      /\ StackTop \in 1..Span[Levels]
  BY MemoryAssumption
<1>2. Span[Levels] \in Nat
  BY <1>1
<1>3. Va \subseteq Nat /\ \A va \in Va : va < Span[Levels]
  BY <1>1, <1>2 DEF Va
<1> QED BY <1>1, <1>3

(* The entries above a page: one of each level, each under the next. *)
LEMMA UpIs ==
  ASSUME NEW va \in Va, NEW l \in 0..Levels
  PROVE  /\ Up(va, l) = <<l, va \div Span[l]>> /\ va \div Span[l] \in Nat
         /\ Up(va, l)[1] = l /\ Up(va, l)[2] = va \div Span[l]
BY SpanFacts, DivideIs DEF Up

LEMMA ParentUp ==
  ASSUME NEW va \in Va, NEW l \in 0..(Levels - 1)
  PROVE  Parent(Up(va, l)) = Up(va, l + 1)
<1>1. /\ l \in 0..Levels /\ l + 1 \in 0..Levels /\ va \in Nat
      /\ Span[l] \in Nat \ {0} /\ Fanout \in Nat \ {0} /\ Span[l + 1] = Fanout * Span[l]
  BY SpanFacts
<1>2. va \div (Fanout * Span[l]) = (va \div Span[l]) \div Fanout
  BY <1>1, DivideTwice
<1> QED BY <1>1, <1>2 DEF Parent, Up

LEMMA LeafIsUp == \A va \in Va : Leaf(va) = Up(va, 0)
<1> SUFFICES ASSUME NEW va \in Va PROVE Leaf(va) = Up(va, 0)
  OBVIOUS
<1>1. va \in Nat /\ Span[0] = 1
  BY SpanFacts
<1>2. va \div 1 = va
  BY <1>1
<1> QED BY <1>1, <1>2 DEF Leaf, Up

LEMMA RootUp == 0 \in Va /\ \A va \in Va : Up(va, Levels) = Root
<1>1. 0 \in Va
  BY SpanFacts, MemoryAssumption DEF Va
<1>2. ASSUME NEW va \in Va PROVE Up(va, Levels) = <<Levels, 0>>
  <2>1. va \in Nat /\ Span[Levels] \in Nat \ {0} /\ va < Span[Levels]
    BY SpanFacts
  <2>2. va \div Span[Levels] = 0
    BY <2>1, QuotientIs
  <2> QED BY <2>2 DEF Up
<1> QED BY <1>1, <1>2 DEF Root

LEMMA NodeIs ==
  /\ \A va \in Va, l \in 0..Levels : Up(va, l) \in Node
  /\ \A n \in Node : \E va \in Va, l \in 0..Levels : n = Up(va, l)
<1>1. ASSUME NEW va \in Va, NEW l \in 0..Levels PROVE Up(va, l) \in Node
  <2>1. CASE l = 0
    BY <2>1, LeafIsUp DEF Node
  <2>2. CASE l # 0
    <3>1. l \in 1..Levels
      BY <2>2, SpanFacts
    <3> QED BY <3>1 DEF Node, Tables
  <2> QED BY <2>1, <2>2
<1>2. ASSUME NEW n \in Node PROVE \E va \in Va, l \in 0..Levels : n = Up(va, l)
  <2>1. CASE \E va \in Va : n = Leaf(va)
    BY <2>1, LeafIsUp, SpanFacts
  <2>2. CASE \E va \in Va : n \in Tables(va)
    <3>1. 1..Levels \subseteq 0..Levels
      BY SpanFacts
    <3> QED BY <2>2, <3>1 DEF Tables
  <2> QED BY <2>1, <2>2 DEF Node
<1> QED BY <1>1, <1>2

(* What leads to an entry is an entry of the next level. *)
LEMMA ParentIs ==
  ASSUME NEW n \in Node, n # Root
  PROVE  /\ Parent(n) \in Node /\ Parent(n) # n /\ Parent(n) # Hand
         /\ n[1] \in 0..(Levels - 1) /\ n[2] \in Nat
         /\ Parent(n)[1] = n[1] + 1 /\ Parent(n)[2] = n[2] \div Fanout
<1>1. PICK va \in Va, l \in 0..Levels : n = Up(va, l)
  BY NodeIs
<1>2. l # Levels
  BY <1>1, RootUp
<1>3. l \in 0..(Levels - 1) /\ l + 1 \in 0..Levels
  BY <1>2, SpanFacts
<1>4. n[1] = l /\ n[2] \in Nat
  BY <1>1, UpIs
<1>5. Parent(n) = Up(va, l + 1) /\ Parent(n)[1] = l + 1
  BY <1>1, <1>3, ParentUp, UpIs
<1>6. Parent(n) \in Node
  BY <1>3, <1>5, NodeIs
<1>7. Hand[1] = Levels + 1 /\ l + 1 # Levels + 1
  BY <1>3, SpanFacts DEF Hand
<1>8. l + 1 # l
  BY <1>3
<1> QED BY <1>3, <1>4, <1>5, <1>6, <1>7, <1>8 DEF Parent

LEMMA HandApart == Hand \notin Node /\ Root \in Node /\ Root \in Place
<1>1. Root \in Node
  <2>1. Levels \in 0..Levels
    BY SpanFacts
  <2> QED BY <2>1, RootUp, NodeIs
<1>2. ASSUME Hand \in Node PROVE FALSE
  <2>1. PICK va \in Va, l \in 0..Levels : Hand = Up(va, l)
    BY <1>2, NodeIs
  <2>2. Hand[1] = l
    BY <2>1, UpIs
  <2>3. Hand[1] = Levels + 1
    BY DEF Hand
  <2> QED BY <2>2, <2>3, SpanFacts
<1> QED BY <1>1, <1>2 DEF Place

(* The tree stays closed when one place of one space changes, with the page in *)
(* hand: an entry that is filled has its table, one that is emptied leads      *)
(* nowhere.                                                                    *)
FillsOrEmpties(s, p) ==
  \/ /\ p \in Node /\ frame'[s][p] # NoFrame
     /\ p # Root => frame[s][Parent(p)] # NoFrame
  \/ /\ p = Hand \/ frame'[s][p] = NoFrame
     /\ \A m \in Node \ {Root} : frame[s][m] # NoFrame => Parent(m) # p

LEMMA TreeKept ==
  ASSUME TreeClosed, NEW s \in Space, NEW p \in Place, FillsOrEmpties(s, p),
         \A r \in Space : \A q \in Place : r # s \/ q \notin {p, Hand} => frame'[r][q] = frame[r][q]
  PROVE  TreeClosed'
<1> SUFFICES ASSUME NEW r \in Space, NEW n \in Node \ {Root}, frame'[r][n] # NoFrame
             PROVE  frame'[r][Parent(n)] # NoFrame
  BY DEF TreeClosed
<1>1. /\ Parent(n) \in Node /\ Parent(n) # n /\ Parent(n) # Hand /\ n # Hand
      /\ n \in Place /\ Parent(n) \in Place
  BY ParentIs, HandApart DEF Place
<1>2. CASE r # s
  BY <1>1, <1>2 DEF TreeClosed
<1>3. CASE r = s /\ n = p
  BY <1>1, <1>3 DEF FillsOrEmpties
<1>4. CASE r = s /\ n # p
  <2>1. frame[s][n] # NoFrame /\ frame[s][Parent(n)] # NoFrame
    BY <1>1, <1>4 DEF TreeClosed
  <2>2. CASE Parent(n) = p
    BY <1>1, <1>4, <2>1, <2>2 DEF FillsOrEmpties
  <2>3. CASE Parent(n) # p
    BY <1>1, <1>4, <2>1, <2>3
  <2> QED BY <2>2, <2>3
<1> QED BY <1>2, <1>3, <1>4

LEMMA SameTree ==
  ASSUME TreeClosed, frame' = frame
  PROVE  TreeClosed'
BY DEF TreeClosed
------------------------------------------------------------------------------
LEMMA TakePageTree ==
  ASSUME Phases, TreeClosed, NEW s \in Space, TakePage(s)
  PROVE  TreeClosed'
<1>1. ASSUME NEW f \in Frame, frame' = Put(frame, s, Hand, f)
      PROVE  TreeClosed'
  <2>1. \A r \in Space : \A q \in Place : r # s \/ q # Hand => frame'[r][q] = frame[r][q]
    BY <1>1, Places, PutAt DEF Phases, Typed
  <2>2. FillsOrEmpties(s, Hand)
    BY ParentIs DEF FillsOrEmpties
  <2> QED BY <2>1, <2>2, Places, TreeKept
<1> QED BY <1>1, SameTree DEF TakePage

(* The topmost missing table: the entry that leads to it is there. *)
LEMMA AddTableTree ==
  ASSUME Phases, TreeClosed, NEW s \in Space, AddTable(s)
  PROVE  TreeClosed'
<1>1. job[s].at \in Va
  BY AtIsVa DEF AddTable
<1>2. ASSUME NEW n \in Missing(s, job[s].at), \A m \in Missing(s, job[s].at) : m[1] <= n[1],
             NEW f \in Frame, frame' = Put(frame, s, n, f)
      PROVE  TreeClosed'
  <2>1. n \in Node /\ n \in Place
    BY <1>1, Places DEF Missing, Node
  <2>2. /\ frame'[s][n] = f
        /\ \A r \in Space : \A q \in Place : r # s \/ q # n => frame'[r][q] = frame[r][q]
    BY <1>2, <2>1, PutAt DEF Phases, Typed
  <2>3. PICK l \in 1..Levels : n = Up(job[s].at, l)
    BY DEF Missing, Tables
  <2>4. ASSUME n # Root, frame[s][Parent(n)] = NoFrame
        PROVE  FALSE
    <3>1. l # Levels
      BY <1>1, <2>3, <2>4, RootUp
    <3>2. l \in 0..(Levels - 1) /\ l + 1 \in 1..Levels /\ l \in 0..Levels /\ l + 1 \in 0..Levels
      BY <3>1, SpanFacts
    <3>3. Parent(n) = Up(job[s].at, l + 1)
      BY <1>1, <2>3, <3>2, ParentUp
    <3>4. Parent(n) \in Missing(s, job[s].at)
      BY <2>4, <3>2, <3>3 DEF Missing, Tables
    <3>5. Parent(n)[1] = l + 1 /\ n[1] = l
      BY <1>1, <2>3, <3>2, <3>3, UpIs
    <3> QED BY <1>2, <3>2, <3>4, <3>5
  <2>5. FillsOrEmpties(s, n)
    BY <2>1, <2>2, <2>4, NoFrameApart DEF FillsOrEmpties
  <2> QED BY <2>1, <2>2, <2>5, TreeKept
<1> QED BY <1>2, SameTree DEF AddTable

LEMMA EnterPageTree ==
  ASSUME Phases, TreeClosed, NEW s \in Space, EnterPage(s)
  PROVE  TreeClosed'
<1>1. job[s].at \in Va /\ frame[s][Hand] # NoFrame /\ Missing(s, job[s].at) = {}
  BY AtIsVa DEF EnterPage
<1>2. PICK n \in Place : n = Leaf(job[s].at) /\ n # Hand
  BY <1>1, Places
<1>3. n \in Node
  BY <1>1, <1>2 DEF Node
<1>4. frame' = Put(Put(frame, s, n, frame[s][Hand]), s, Hand, NoFrame)
  BY <1>2 DEF EnterPage
<1>5. /\ frame'[s][n] = frame[s][Hand]
      /\ \A r \in Space : \A q \in Place : r # s \/ q \notin {n, Hand} => frame'[r][q] = frame[r][q]
  BY <1>2, <1>4, Places DEF Put, Phases, Typed, Frames
<1>6. frame[s][Parent(n)] # NoFrame
  <2>1. 0 \in 0..(Levels - 1) /\ 1 \in 1..Levels /\ 0 + 1 = 1
    BY SpanFacts
  <2>2. Parent(n) = Up(job[s].at, 1)
    BY <1>1, <1>2, <2>1, LeafIsUp, ParentUp
  <2> QED BY <1>1, <2>1, <2>2 DEF Missing, Tables
<1>7. FillsOrEmpties(s, n)
  BY <1>1, <1>3, <1>5, <1>6 DEF FillsOrEmpties
<1> QED BY <1>5, <1>7, TreeKept

(* A page in hand goes: DropPage and FreePage. *)
LEMMA GiveHandTree ==
  ASSUME Phases, TreeClosed, NEW s \in Space, frame' = Put(frame, s, Hand, NoFrame)
  PROVE  TreeClosed'
<1>1. \A r \in Space : \A q \in Place : r # s \/ q # Hand => frame'[r][q] = frame[r][q]
  BY Places, PutAt DEF Phases, Typed
<1>2. FillsOrEmpties(s, Hand)
  BY ParentIs DEF FillsOrEmpties
<1> QED BY <1>1, <1>2, Places, TreeKept

(* Nothing hangs below a page. *)
LEMMA UnmapPageTree ==
  ASSUME Phases, TreeClosed, NEW s \in Space, UnmapPage(s)
  PROVE  TreeClosed'
<1>1. job[s].at \in Va /\ frame[s][Hand] = NoFrame
  BY AtIsVa DEF UnmapPage
<1>2. CASE Mapped(s, job[s].at)
  <2>1. PICK n \in Place : n = Leaf(job[s].at) /\ n # Hand
    BY <1>1, Places
  <2>2. frame' = Put(Put(frame, s, Hand, frame[s][n]), s, n, NoFrame)
    BY <1>2, <2>1 DEF UnmapPage
  <2>3. /\ frame'[s][n] = NoFrame
        /\ \A r \in Space : \A q \in Place : r # s \/ q \notin {n, Hand} => frame'[r][q] = frame[r][q]
    BY <2>1, <2>2, Places DEF Put, Phases, Typed, Frames
  <2>4. n[1] = 0
    BY <2>1 DEF Leaf
  <2>5. \A m \in Node \ {Root} : Parent(m) # n
    BY <2>4, ParentIs
  <2>6. FillsOrEmpties(s, n)
    BY <2>3, <2>5 DEF FillsOrEmpties
  <2> QED BY <2>3, <2>6, TreeKept
<1>3. CASE ~Mapped(s, job[s].at)
  BY <1>3, SameTree DEF UnmapPage
<1> QED BY <1>2, <1>3

LEMMA CreateRootTree ==
  ASSUME Phases, TreeClosed, NEW s \in Space, CreateRoot(s)
  PROVE  TreeClosed'
<1>1. ASSUME NEW f \in Frame, frame' = Put(frame, s, Root, f)
      PROVE  TreeClosed'
  <2>1. /\ frame'[s][Root] = f
        /\ \A r \in Space : \A q \in Place : r # s \/ q # Root => frame'[r][q] = frame[r][q]
    BY <1>1, Places, PutAt DEF Phases, Typed
  <2>2. FillsOrEmpties(s, Root)
    BY <2>1, HandApart, NoFrameApart DEF FillsOrEmpties
  <2> QED BY <2>1, <2>2, Places, TreeKept
<1> QED BY <1>1, SameTree DEF CreateRoot

(* The order of the walk: what an entry leads to is freed before the entry. *)
LEMMA ParentNotFirst ==
  ASSUME NEW m \in Node, m # Root
  PROVE  ~Precedes(Parent(m), m)
<1>1. /\ m[1] \in 0..(Levels - 1) /\ m[2] \in Nat
      /\ Parent(m)[1] = m[1] + 1 /\ Parent(m)[2] = m[2] \div Fanout
  BY ParentIs
<1> DEFINE l == m[1]
           i == m[2]
           q == i \div Fanout
           d == Span[l]
<1>2. /\ l \in 0..Levels /\ d \in Nat \ {0} /\ Span[l + 1] = Fanout * d
      /\ Fanout \in Nat \ {0}
  BY <1>1, SpanFacts
<1>3. q \in Nat /\ i % Fanout \in 0..(Fanout - 1) /\ i = Fanout * q + (i % Fanout)
  BY <1>1, <1>2, DivideIs
<1>4. ~(l + 1 < l)
  BY <1>1
<1> HIDE DEF q, d
<1>5. i + 1 <= (q + 1) * Fanout
  <2>1. (q + 1) * Fanout = Fanout * q + Fanout
    BY <1>2, <1>3
  <2>2. Fanout * q \in Nat
    BY <1>2, <1>3
  <2> QED BY <1>1, <1>2, <1>3, <2>1, <2>2
<1>6. (i + 1) * d <= (q + 1) * Span[l + 1]
  <2> DEFINE y == (q + 1) * Fanout
  <2>1. y \in Nat /\ i + 1 <= y /\ i + 1 \in Nat
    BY <1>1, <1>2, <1>3, <1>5
  <2>2. (q + 1) * (Fanout * d) = y * d
    BY <1>2, <1>3
  <2> HIDE DEF y
  <2>3. (i + 1) * d <= y * d
    BY <1>2, <2>1
  <2> QED BY <1>2, <2>2, <2>3
<1>7. (i + 1) * d \in Nat /\ (q + 1) * Span[l + 1] \in Nat
  BY <1>1, <1>2, <1>3
<1>8. ~((q + 1) * Span[l + 1] < (i + 1) * d)
  BY <1>6, <1>7
<1>9. Parent(m)[1] = l + 1 /\ Parent(m)[2] = q
  BY <1>1 DEF q
<1> QED BY <1>4, <1>8, <1>9 DEF Precedes, d

LEMMA DestroyTree ==
  ASSUME Phases, TreeClosed, NEW s \in Space, Destroy(s)
  PROVE  TreeClosed'
<1>1. PICK n \in Present(s) : /\ \A m \in Present(s) \ {n} : Precedes(n, m)
                              /\ frame' = Put(frame, s, n, NoFrame)
  BY DEF Destroy
<1>2. n \in Place /\ Present(s) \subseteq Node
  BY Places DEF Present
<1>3. /\ frame'[s][n] = NoFrame
      /\ \A r \in Space : \A q \in Place : r # s \/ q # n => frame'[r][q] = frame[r][q]
  BY <1>1, <1>2, PutAt DEF Phases, Typed
<1>4. ASSUME NEW m \in Node \ {Root}, frame[s][m] # NoFrame, Parent(m) = n
      PROVE  FALSE
  <2>1. m \in Present(s) \ {n}
    BY <1>4, ParentIs DEF Present
  <2>2. Precedes(Parent(m), m)
    BY <1>1, <1>4, <2>1
  <2> QED BY <2>2, ParentNotFirst
<1>5. FillsOrEmpties(s, n)
  BY <1>3, <1>4 DEF FillsOrEmpties
<1> QED BY <1>2, <1>3, <1>5, TreeKept

LEMMA NextTree == Phases /\ TreeClosed /\ [Next]_vars => TreeClosed'
<1> SUFFICES ASSUME Phases, TreeClosed, [Next]_vars
             PROVE  TreeClosed'
  OBVIOUS
<1>1. ASSUME NEW s \in Space, Step(s)
      PROVE  TreeClosed'
  <2>1. CASE \/ SkipPage(s) \/ ReadFails(s) \/ CreateTask(s) \/ DestroyAgain(s) \/ TaskExit(s)
             \/ FreeTaskResources(s) \/ \E im \in Image : CmdRun(s, im)
    <3>1. frame' = frame
      BY <2>1 DEF SkipPage, ReadFails, CreateTask, DestroyAgain, TaskExit, FreeTaskResources, CmdRun
    <3> QED BY <3>1, SameTree
  <2>2. CASE \/ \E to \in Probe : SysBrk(s, to)
             \/ \E n \in 1..MaxLen : SysMmap(s, n)
             \/ \E va \in Probe, n \in 1..MaxLen : SysMmapFixed(s, va, n) \/ SysMunmap(s, va, n)
             \/ \E va \in Probe : PageFault(s, va)
    <3>1. \E j : Call(s, j)
      BY <2>2 DEF SysBrk, SysMmap, SysMmapFixed, SysMunmap, PageFault
    <3>2. frame' = frame
      BY <3>1 DEF Call
    <3> QED BY <3>2, SameTree
  <2>3. CASE DropPage(s) \/ FreePage(s)
    BY <2>3, GiveHandTree DEF DropPage, FreePage
  <2> QED BY <1>1, <2>1, <2>2, <2>3, TakePageTree, AddTableTree, EnterPageTree, UnmapPageTree,
             CreateRootTree, DestroyTree DEF Step
<1>2. CASE UNCHANGED vars
  BY <1>2, SameTree DEF vars
<1>3. CASE \E n \in 1..MaxLen : HeapExpand(n)
  BY <1>3, SameTree DEF HeapExpand
<1> QED BY <1>1, <1>2, <1>3 DEF Next

(* A table that is there can be reached from the root, at every step of the    *)
(* walks that add tables (GetNextLevel) and of the one that frees them         *)
(* (PagingDestroyUserAddressSpace), for any number of levels and of entries.   *)
(* The heap may grow at any time.                                              *)
THEOREM TreeClosedAlways == Spec => []TreeClosed
<1>1. Init => TreeClosed
  <2> SUFFICES ASSUME Init, NEW s \in Space, NEW n \in Node \ {Root}
               PROVE  frame[s][n] = NoFrame
    BY DEF TreeClosed
  <2> QED BY DEF Init, Place
<1>2. Phases /\ TreeClosed /\ [Next]_vars => TreeClosed'
  BY NextTree
<1> QED BY <1>1, <1>2, PhasesAlways, PTL DEF Spec
------------------------------------------------------------------------------
(* What an mmap has done so far.  j is its job, fr the places of its space, b  *)
(* the pages that were mapped when it was called: outside the range they are   *)
(* as they were, and none was in the range.  Going forward the range is mapped *)
(* up to the page at hand; going back it is free up to there.                  *)
MmapAt(j, fr, b) ==
  j.do = "mmap" =>
    /\ j.step \in {"map", "drop", "back"}
    /\ \A v \in Va : v < j.lo \/ j.hi <= v =>
         \A f \in Frame : <<v, f>> \in b <=> fr[Leaf(v)] = f
    /\ \A v \in Va : j.lo <= v /\ v < j.hi => \A f \in Frame : <<v, f>> \notin b
    /\ j.step # "back" =>
         \A v \in Va : /\ j.lo <= v /\ v < j.at => fr[Leaf(v)] # NoFrame
                       /\ j.at <= v /\ v < j.hi => fr[Leaf(v)] = NoFrame
    /\ j.step = "back" =>
         \A v \in Va : /\ j.lo <= v /\ v < j.at => fr[Leaf(v)] = NoFrame
                       /\ v = j.at /\ fr[Hand] # NoFrame => fr[Leaf(v)] = NoFrame

Histories == [Space -> SUBSET (Va \X Frame)]
MmapInv == before \in Histories /\ \A s \in Space : MmapAt(job[s], frame[s], before[s])

(* How an mmap may end. *)
Added(fr, b, lo, hi) == b \subseteq Pages(fr) /\ {p[1] : p \in Pages(fr) \ b} = lo..(hi - 1)
MmapEnd(j, fr, b) == Pages(fr) = b \/ Added(fr, b, j.lo, j.hi)

LEMMA Leaves ==
  /\ \A v, w \in Va : Leaf(v) = Leaf(w) => v = w
  /\ \A v \in Va : Leaf(v) \in Place /\ Leaf(v) # Hand
  /\ \A v, w \in Va : Leaf(v) \notin Tables(w)
<1>1. \A v, w \in Va : Leaf(v) = Leaf(w) => v = w
  BY DEF Leaf
<1>2. \A v, w \in Va : Leaf(v) \notin Tables(w)
  <2> SUFFICES ASSUME NEW v \in Va, NEW w \in Va, NEW l \in 1..Levels, Leaf(v) = Up(w, l)
               PROVE  FALSE
    BY DEF Tables
  <2>1. l \in 0..Levels /\ l # 0
    BY SpanFacts
  <2>2. Up(w, l)[1] = l /\ Leaf(v)[1] = 0
    BY <2>1, UpIs DEF Leaf
  <2> QED BY <2>1, <2>2
<1> QED BY <1>1, <1>2, Places

LEMMA PagesIs ==
  ASSUME NEW fr
  PROVE  \A e : e \in Pages(fr) <=> \E v \in Va : fr[Leaf(v)] # NoFrame /\ e = <<v, fr[Leaf(v)]>>
BY DEF Pages

LEMMA PagesRestored ==
  ASSUME NEW fr \in [Place -> Frame \cup {NoFrame}], NEW b \in SUBSET (Va \X Frame),
         \A v \in Va : \A f \in Frame : <<v, f>> \in b <=> fr[Leaf(v)] = f
  PROVE  Pages(fr) = b
<1>1. ASSUME NEW e \in Pages(fr) PROVE e \in b
  <2>1. PICK v \in Va : fr[Leaf(v)] # NoFrame /\ e = <<v, fr[Leaf(v)]>>
    BY PagesIs
  <2>2. fr[Leaf(v)] \in Frame
    BY <2>1, Leaves
  <2> QED BY <2>1, <2>2
<1>2. ASSUME NEW e \in b PROVE e \in Pages(fr)
  <2>1. PICK v \in Va, f \in Frame : e = <<v, f>>
    OBVIOUS
  <2>2. fr[Leaf(v)] = f
    BY <2>1
  <2> QED BY <2>1, <2>2, PagesIs, NoFrameApart
<1> QED BY <1>1, <1>2

LEMMA PagesAdded ==
  ASSUME NEW fr \in [Place -> Frame \cup {NoFrame}], NEW b \in SUBSET (Va \X Frame),
         NEW lo \in Nat, NEW hi \in Nat, hi <= StackTop,
         \A v \in Va : v < lo \/ hi <= v => \A f \in Frame : <<v, f>> \in b <=> fr[Leaf(v)] = f,
         \A v \in Va : lo <= v /\ v < hi => \A f \in Frame : <<v, f>> \notin b,
         \A v \in Va : lo <= v /\ v < hi => fr[Leaf(v)] # NoFrame
  PROVE  Added(fr, b, lo, hi)
<1>1. Va \subseteq Nat
  BY SpanFacts
<1>2. ASSUME NEW e \in b PROVE e \in Pages(fr)
  <2>1. PICK v \in Va, f \in Frame : e = <<v, f>>
    OBVIOUS
  <2>2. v < lo \/ hi <= v
    BY <1>1, <2>1
  <2>3. fr[Leaf(v)] = f
    BY <2>1, <2>2
  <2> QED BY <2>1, <2>3, PagesIs, NoFrameApart
<1>3. ASSUME NEW e \in Pages(fr) \ b PROVE e[1] \in lo..(hi - 1)
  <2>1. PICK v \in Va : fr[Leaf(v)] # NoFrame /\ e = <<v, fr[Leaf(v)]>>
    BY PagesIs
  <2>2. fr[Leaf(v)] \in Frame
    BY <2>1, Leaves
  <2>3. ~(v < lo \/ hi <= v)
    BY <2>1, <2>2
  <2> QED BY <1>1, <2>1, <2>3
<1>4. ASSUME NEW v \in lo..(hi - 1) PROVE \E e \in Pages(fr) \ b : e[1] = v
  <2>1. v \in Va /\ lo <= v /\ v < hi
    BY Bounds DEF Va
  <2>2. fr[Leaf(v)] # NoFrame /\ fr[Leaf(v)] \in Frame
    BY <2>1, Leaves
  <2>3. <<v, fr[Leaf(v)]>> \in Pages(fr) \ b
    BY <2>1, <2>2, PagesIs
  <2> QED BY <2>3
<1>5. {p[1] : p \in Pages(fr) \ b} = lo..(hi - 1)
  BY <1>3, <1>4
<1> QED BY <1>2, <1>5 DEF Added

(* The job of an mmap after a page, and after a failure. *)
MmapJob(s) ==
  /\ job[s] \in Jobs /\ job[s].do = "mmap" /\ job[s].at \in Va
  /\ job[s].lo <= job[s].at /\ job[s].at < job[s].hi /\ job[s].hi <= StackTop
OnePageOn(s) ==
  \/ /\ job'[s].do = "mmap" /\ job'[s].step = job[s].step /\ job'[s].at = job[s].at + 1
     /\ job'[s].lo = job[s].lo /\ job'[s].hi = job[s].hi
  \/ job'[s].do = "idle" /\ job[s].at + 1 = job[s].hi
TurnedBack(s) ==
  \/ /\ job'[s].do = "mmap" /\ job'[s].step = "back" /\ job'[s].at = job[s].lo
     /\ job'[s].lo = job[s].lo /\ job'[s].hi = job[s].at
  \/ job'[s].do = "idle" /\ job[s].at = job[s].lo

LEMMA MmapJobIs ==
  ASSUME Phases, NEW s \in Space, job[s].do = "mmap", job[s].step # "none"
  PROVE  MmapJob(s)
<1>1. JobOK(job[s], life[s], image[s]) /\ job[s] \in Jobs /\ job[s].at \in Va
  BY AtIsVa DEF Phases, Typed, JobsOK
<1> QED BY <1>1 DEF MmapJob, JobOK

LEMMA MmapAdvances ==
  ASSUME Phases, NEW s \in Space, MmapJob(s), Advance(s, job[s])
  PROVE  OnePageOn(s)
<1> DEFINE k == [job[s] EXCEPT !.at = job[s].at + 1]
<1>1. /\ k.do = "mmap" /\ k.step = job[s].step /\ k.at = job[s].at + 1
      /\ k.lo = job[s].lo /\ k.hi = job[s].hi
  BY DEF MmapJob, Jobs
<1>2. job' = [job EXCEPT ![s] = IF k.at < k.hi THEN k ELSE Then(s, k)]
  BY DEF Advance
<1> HIDE DEF k
<1>3. job \in [Space -> Jobs]
  BY DEF Phases, Typed
<1>4. CASE k.at < k.hi
  BY <1>1, <1>2, <1>3, <1>4 DEF OnePageOn
<1>5. CASE ~(k.at < k.hi)
  <2>1. Then(s, k) = Idle
    BY <1>1 DEF Then
  <2>2. job'[s] = Idle
    BY <1>2, <1>3, <1>5, <2>1
  <2>3. Idle.do = "idle"
    BY DEF Idle, Job
  <2>4. job[s].at + 1 = job[s].hi
    BY <1>1, <1>5 DEF MmapJob, Jobs
  <2> QED BY <2>2, <2>3, <2>4 DEF OnePageOn
<1> QED BY <1>4, <1>5

LEMMA MmapFails ==
  ASSUME Phases, NEW s \in Space, MmapJob(s), Fail(s)
  PROVE  TurnedBack(s)
<1>1. job[s].do = "mmap" /\ job[s] \in Jobs /\ job \in [Space -> Jobs]
  BY DEF MmapJob, Phases, Typed
<1>2. Failed(job[s]) = Rollback(job[s])
  BY <1>1 DEF Failed
<1>3. job'[s] = Rollback(job[s])
  BY <1>1, <1>2 DEF Fail
<1>4. CASE job[s].lo = job[s].at
  <2>1. job'[s] = Idle
    BY <1>3, <1>4 DEF Rollback
  <2> QED BY <1>4, <2>1 DEF TurnedBack, Idle, Job
<1>5. CASE job[s].lo # job[s].at
  <2>1. job'[s] = [job[s] EXCEPT !.step = "back", !.at = job[s].lo, !.hi = job[s].at]
    BY <1>3, <1>5 DEF Rollback
  <2> QED BY <1>1, <2>1 DEF TurnedBack, Jobs
<1> QED BY <1>4, <1>5

(* A step of an mmap: it stays on its way, or it ends as it may. *)
MmapGoes(s) ==
  /\ before'[s] = before[s] /\ MmapAt(job'[s], frame'[s], before[s])
  /\ job'[s].do = "idle" => MmapEnd(job[s], frame'[s], before[s])
SameLeaves(s) == \A v \in Va : frame'[s][Leaf(v)] = frame[s][Leaf(v)]
MmapNow(s) ==
  /\ MmapJob(s) /\ MmapAt(job[s], frame[s], before[s]) /\ before[s] \in SUBSET (Va \X Frame)
  /\ frame'[s] \in [Place -> Frame \cup {NoFrame}] /\ before'[s] = before[s]

LEMMA MmapNumbers ==
  ASSUME NEW s \in Space, MmapJob(s)
  PROVE  /\ job[s].lo \in Nat /\ job[s].at \in Nat /\ job[s].hi \in Nat
         /\ Va \subseteq Nat /\ job[s].at \in Va
         /\ job[s].lo <= job[s].at /\ job[s].at < job[s].hi /\ job[s].hi <= StackTop
BY SpanFacts DEF MmapJob, Jobs

(* The first failure: what was not mapped yet is free, as it was. *)
LEMMA MmapTurns ==
  ASSUME NEW s \in Space, MmapNow(s), job[s].step \in {"map", "drop"}, TurnedBack(s),
         SameLeaves(s), frame'[s][Hand] = NoFrame
  PROVE  MmapGoes(s)
<1> DEFINE lo == job[s].lo
           at == job[s].at
           hi == job[s].hi
           b == before[s]
<1>1. /\ lo \in Nat /\ at \in Nat /\ hi \in Nat /\ Va \subseteq Nat
      /\ lo <= at /\ at < hi /\ hi <= StackTop
  BY MmapNumbers DEF MmapNow
<1>2. \A v \in Va : v < lo \/ at <= v => \A f \in Frame : <<v, f>> \in b <=> frame'[s][Leaf(v)] = f
  <2> SUFFICES ASSUME NEW v \in Va, v < lo \/ at <= v, NEW f \in Frame
               PROVE  <<v, f>> \in b <=> frame'[s][Leaf(v)] = f
    OBVIOUS
  <2>1. CASE v < lo \/ hi <= v
    BY <2>1 DEF MmapNow, MmapJob, MmapAt, SameLeaves
  <2>2. CASE at <= v /\ v < hi
    <3>1. frame[s][Leaf(v)] = NoFrame
      BY <2>2 DEF MmapNow, MmapJob, MmapAt
    <3>2. lo <= v
      BY <1>1, <2>2
    <3>3. <<v, f>> \notin b
      BY <2>2, <3>2 DEF MmapNow, MmapJob, MmapAt
    <3> QED BY <3>1, <3>3, NoFrameApart DEF SameLeaves
  <2> QED BY <1>1, <2>1, <2>2
<1>3. \A v \in Va : lo <= v /\ v < at => \A f \in Frame : <<v, f>> \notin b
  BY <1>1 DEF MmapNow, MmapJob, MmapAt
<1>4. CASE job'[s].do = "idle" /\ at = lo
  <2>1. \A v \in Va : \A f \in Frame : <<v, f>> \in b <=> frame'[s][Leaf(v)] = f
    <3> HIDE DEF lo, at, hi, b
    <3>1. \A v \in Va : v < lo \/ at <= v
      BY <1>1, <1>4
    <3> QED BY <1>2, <3>1
  <2>2. Pages(frame'[s]) = b
    BY <2>1, PagesRestored DEF MmapNow
  <2> QED BY <1>4, <2>2 DEF MmapGoes, MmapAt, MmapEnd, MmapNow
<1>5. CASE /\ job'[s].do = "mmap" /\ job'[s].step = "back" /\ job'[s].at = lo
           /\ job'[s].lo = lo /\ job'[s].hi = at
  <2>1. \A v \in Va : ~(lo <= v /\ v < lo)
    <3> HIDE DEF lo, at, hi, b
    <3> QED BY <1>1
  <2>2. MmapAt(job'[s], frame'[s], b)
    BY <1>2, <1>3, <1>5, <2>1 DEF MmapAt
  <2> QED BY <1>5, <2>2 DEF MmapGoes, MmapNow
<1> QED BY <1>4, <1>5 DEF TurnedBack

(* One page of the rollback. *)
LEMMA MmapRollsBack ==
  ASSUME NEW s \in Space, MmapNow(s), job[s].step = "back", OnePageOn(s),
         SameLeaves(s), frame'[s][Hand] = NoFrame, frame[s][Leaf(job[s].at)] = NoFrame
  PROVE  MmapGoes(s)
<1> DEFINE lo == job[s].lo
           at == job[s].at
           hi == job[s].hi
           b == before[s]
<1>1. /\ lo \in Nat /\ at \in Nat /\ hi \in Nat /\ Va \subseteq Nat /\ at \in Va
      /\ lo <= at /\ at < hi /\ hi <= StackTop
  BY MmapNumbers DEF MmapNow
<1>2. \A v \in Va : lo <= v /\ v < at + 1 => frame'[s][Leaf(v)] = NoFrame
  <2>1. \A v \in Va : lo <= v /\ v < at => frame[s][Leaf(v)] = NoFrame
    BY DEF MmapNow, MmapJob, MmapAt
  <2>2. \A v \in Va : lo <= v /\ v < at + 1 => (lo <= v /\ v < at) \/ v = at
    <3> HIDE DEF lo, at, hi, b
    <3>1. ASSUME NEW v \in Nat PROVE lo <= v /\ v < at + 1 => (lo <= v /\ v < at) \/ v = at
      <4>1. at \in Nat
        BY <1>1
      <4> QED BY <4>1
    <3> QED BY <1>1, <3>1
  <2> QED BY <2>1, <2>2 DEF SameLeaves
<1>3. \A v \in Va : v < lo \/ hi <= v => \A f \in Frame : <<v, f>> \in b <=> frame'[s][Leaf(v)] = f
  BY DEF MmapNow, MmapJob, MmapAt, SameLeaves
<1>4. \A v \in Va : lo <= v /\ v < hi => \A f \in Frame : <<v, f>> \notin b
  BY DEF MmapNow, MmapJob, MmapAt
<1>5. CASE job'[s].do = "idle" /\ at + 1 = hi
  <2>1. \A v \in Va : \A f \in Frame : <<v, f>> \in b <=> frame'[s][Leaf(v)] = f
    <3> SUFFICES ASSUME NEW v \in Va, NEW f \in Frame
                 PROVE  <<v, f>> \in b <=> frame'[s][Leaf(v)] = f
      OBVIOUS
    <3>1. CASE v < lo \/ hi <= v
      BY <1>3, <3>1
    <3>2. CASE lo <= v /\ v < hi
      <4>1. frame'[s][Leaf(v)] = NoFrame
        BY <1>2, <1>5, <3>2
      <4> QED BY <1>4, <3>2, <4>1, NoFrameApart
    <3> QED BY <1>1, <3>1, <3>2
  <2>2. Pages(frame'[s]) = b
    BY <2>1, PagesRestored DEF MmapNow
  <2> QED BY <1>5, <2>2 DEF MmapGoes, MmapAt, MmapEnd, MmapNow
<1>6. CASE /\ job'[s].do = "mmap" /\ job'[s].step = "back" /\ job'[s].at = at + 1
           /\ job'[s].lo = lo /\ job'[s].hi = hi
  <2>1. MmapAt(job'[s], frame'[s], b)
    BY <1>2, <1>3, <1>4, <1>6 DEF MmapAt
  <2> QED BY <1>6, <2>1 DEF MmapGoes, MmapNow
<1> QED BY <1>5, <1>6 DEF OnePageOn

(* One more page is mapped. *)
LEMMA MmapGoesOn ==
  ASSUME NEW s \in Space, MmapNow(s), job[s].step = "map", OnePageOn(s),
         frame'[s][Leaf(job[s].at)] # NoFrame,
         \A v \in Va : v # job[s].at => frame'[s][Leaf(v)] = frame[s][Leaf(v)]
  PROVE  MmapGoes(s)
<1> DEFINE lo == job[s].lo
           at == job[s].at
           hi == job[s].hi
           b == before[s]
<1>1. /\ lo \in Nat /\ at \in Nat /\ hi \in Nat /\ Va \subseteq Nat /\ at \in Va
      /\ lo <= at /\ at < hi /\ hi <= StackTop
  BY MmapNumbers DEF MmapNow
<1>2. \A v \in Va : lo <= v /\ v < at + 1 => frame'[s][Leaf(v)] # NoFrame
  <2>1. \A v \in Va : lo <= v /\ v < at => frame[s][Leaf(v)] # NoFrame
    BY DEF MmapNow, MmapJob, MmapAt
  <2>2. \A v \in Va : lo <= v /\ v < at + 1 => (lo <= v /\ v < at /\ v # at) \/ v = at
    <3> HIDE DEF lo, at, hi, b
    <3> QED BY <1>1
  <2> QED BY <2>1, <2>2
<1>3. \A v \in Va : v < lo \/ hi <= v => \A f \in Frame : <<v, f>> \in b <=> frame'[s][Leaf(v)] = f
  <2>1. \A v \in Va : v < lo \/ hi <= v => v # at
    BY <1>1
  <2> QED BY <2>1 DEF MmapNow, MmapJob, MmapAt
<1>4. \A v \in Va : lo <= v /\ v < hi => \A f \in Frame : <<v, f>> \notin b
  BY DEF MmapNow, MmapJob, MmapAt
<1>5. CASE job'[s].do = "idle" /\ at + 1 = hi
  <2>1. \A v \in Va : lo <= v /\ v < hi => frame'[s][Leaf(v)] # NoFrame
    BY <1>2, <1>5
  <2>2. Added(frame'[s], b, lo, hi)
    <3> DEFINE fr == frame'[s]
    <3>1. b \in SUBSET (Va \X Frame) /\ fr \in [Place -> Frame \cup {NoFrame}]
      BY DEF MmapNow
    <3>2. /\ \A v \in Va : v < lo \/ hi <= v => \A f \in Frame : <<v, f>> \in b <=> fr[Leaf(v)] = f
          /\ \A v \in Va : lo <= v /\ v < hi => \A f \in Frame : <<v, f>> \notin b
          /\ \A v \in Va : lo <= v /\ v < hi => fr[Leaf(v)] # NoFrame
      BY <1>3, <1>4, <2>1
    <3> HIDE DEF lo, hi, b, fr
    <3>3. lo \in Nat /\ hi \in Nat /\ hi <= StackTop
      BY <1>1
    <3>4. Added(fr, b, lo, hi)
      BY <3>1, <3>2, <3>3, PagesAdded
    <3> QED BY <3>4 DEF fr
  <2> QED BY <1>5, <2>2 DEF MmapGoes, MmapAt, MmapEnd, MmapNow
<1>6. CASE /\ job'[s].do = "mmap" /\ job'[s].step = "map" /\ job'[s].at = at + 1
           /\ job'[s].lo = lo /\ job'[s].hi = hi
  <2>1. \A v \in Va : at + 1 <= v /\ v < hi => frame'[s][Leaf(v)] = NoFrame
    <3>1. \A v \in Va : at <= v /\ v < hi => frame[s][Leaf(v)] = NoFrame
      BY DEF MmapNow, MmapJob, MmapAt
    <3> HIDE DEF at
    <3>a. ASSUME NEW v \in Nat PROVE at + 1 <= v => at <= v /\ v # at
      <4>1. at \in Nat
        BY <1>1
      <4> QED BY <4>1
    <3>2. \A v \in Va : at + 1 <= v => at <= v /\ v # at
      BY <1>1, <3>a
    <3> USE DEF at
    <3> QED BY <3>1, <3>2
  <2>2. MmapAt(job'[s], frame'[s], b)
    BY <1>2, <1>3, <1>4, <1>6, <2>1 DEF MmapAt
  <2> QED BY <1>6, <2>2 DEF MmapGoes, MmapNow
<1> QED BY <1>5, <1>6 DEF OnePageOn

(* A step that touches no entry of a page. *)
LEMMA MmapStays ==
  ASSUME NEW s \in Space, MmapNow(s), job[s].step = "map", SameLeaves(s),
         \/ job'[s] = job[s]
         \/ job'[s] = [job[s] EXCEPT !.step = "drop"]
  PROVE  MmapGoes(s)
<1>1. /\ job'[s].do = "mmap" /\ job'[s].step \in {"map", "drop"} /\ job'[s].at = job[s].at
      /\ job'[s].lo = job[s].lo /\ job'[s].hi = job[s].hi
  BY DEF MmapNow, MmapJob, Jobs
<1>2. MmapAt(job'[s], frame'[s], before[s])
  BY <1>1 DEF MmapNow, MmapJob, MmapAt, SameLeaves
<1> QED BY <1>1, <1>2 DEF MmapGoes, MmapNow

MmapDone == \A s \in Space :
  job[s].do = "mmap" /\ job'[s].do = "idle" => MmapEnd(job[s], frame'[s], before[s])

LEMMA MmapIsNow ==
  ASSUME Phases, MmapInv, NEW s \in Space, job[s].do = "mmap", before'[s] = before[s], Phases'
  PROVE  MmapNow(s)
<1>1. MmapAt(job[s], frame[s], before[s]) /\ before[s] \in SUBSET (Va \X Frame)
  BY DEF MmapInv, Histories
<1>2. job[s].step # "none"
  BY <1>1 DEF MmapAt
<1>3. frame'[s] \in [Place -> Frame \cup {NoFrame}]
  BY DEF Phases, Typed, Frames
<1> QED BY <1>1, <1>2, <1>3, MmapJobIs DEF MmapNow

LEMMA TakePageMmap ==
  ASSUME Phases, MmapInv, Phases', NEW s \in Space, TakePage(s), job[s].do = "mmap"
  PROVE  MmapGoes(s)
<1>1. MmapNow(s)
  BY MmapIsNow DEF TakePage
<1>2. job[s].step = "map" /\ frame[s][Hand] = NoFrame
  BY DEF TakePage
<1>3. ASSUME NEW f \in Frame, frame' = Put(frame, s, Hand, f), job' = job
      PROVE  MmapGoes(s)
  <2>1. SameLeaves(s)
    BY <1>3, Places, PutAt DEF SameLeaves, Phases, Typed
  <2> QED BY <1>1, <1>2, <1>3, <2>1, MmapStays
<1>4. ASSUME Fail(s), frame' = frame
      PROVE  MmapGoes(s)
  <2>1. TurnedBack(s)
    BY <1>1, <1>4, MmapFails DEF MmapNow
  <2> QED BY <1>1, <1>2, <1>4, <2>1, MmapTurns DEF SameLeaves
<1> QED BY <1>3, <1>4 DEF TakePage

LEMMA AddTableMmap ==
  ASSUME Phases, MmapInv, Phases', NEW s \in Space, AddTable(s), job[s].do = "mmap"
  PROVE  MmapGoes(s)
<1>1. MmapNow(s)
  BY MmapIsNow DEF AddTable
<1>2. job[s].step = "map" /\ job[s].at \in Va
  BY AtIsVa DEF AddTable
<1>3. ASSUME NEW n \in Missing(s, job[s].at), NEW f \in Frame,
             frame' = Put(frame, s, n, f), job' = job
      PROVE  MmapGoes(s)
  <2>1. n \in Place /\ \A v \in Va : Leaf(v) # n
    BY <1>2, Places, Leaves DEF Missing
  <2>2. SameLeaves(s)
    BY <1>3, <2>1, Places, PutAt DEF SameLeaves, Phases, Typed
  <2> QED BY <1>1, <1>2, <1>3, <2>2, MmapStays
<1>4. ASSUME job' = [job EXCEPT ![s].step = "drop"], frame' = frame
      PROVE  MmapGoes(s)
  <2>1. job'[s] = [job[s] EXCEPT !.step = "drop"]
    BY <1>4 DEF Phases, Typed
  <2> QED BY <1>1, <1>2, <1>4, <2>1, MmapStays DEF SameLeaves
<1> QED BY <1>3, <1>4 DEF AddTable

LEMMA EnterPageMmap ==
  ASSUME Phases, MmapInv, Phases', NEW s \in Space, EnterPage(s), job[s].do = "mmap"
  PROVE  MmapGoes(s)
<1>1. MmapNow(s)
  BY MmapIsNow DEF EnterPage
<1>2. job[s].step = "map" /\ frame[s][Hand] # NoFrame /\ job[s].at \in Va
  BY AtIsVa DEF EnterPage
<1>3. PICK n \in Place : n = Leaf(job[s].at) /\ n # Hand
  BY <1>2, Places
<1>4. frame' = Put(Put(frame, s, n, frame[s][Hand]), s, Hand, NoFrame)
  BY <1>3 DEF EnterPage
<1>5. /\ frame'[s][n] = frame[s][Hand]
      /\ \A q \in Place : q \notin {n, Hand} => frame'[s][q] = frame[s][q]
  BY <1>3, <1>4, Places DEF Put, Phases, Typed, Frames
<1>6. \A v \in Va : v # job[s].at => frame'[s][Leaf(v)] = frame[s][Leaf(v)]
  BY <1>2, <1>3, <1>5, Leaves
<1>7. OnePageOn(s)
  BY <1>1, MmapAdvances DEF EnterPage, MmapNow
<1> QED BY <1>1, <1>2, <1>3, <1>5, <1>6, <1>7, MmapGoesOn

LEMMA DropPageMmap ==
  ASSUME Phases, MmapInv, Phases', NEW s \in Space, DropPage(s), job[s].do = "mmap"
  PROVE  MmapGoes(s)
<1>1. MmapNow(s)
  BY MmapIsNow DEF DropPage
<1>2. job[s].step = "drop" /\ frame' = Put(frame, s, Hand, NoFrame)
  BY DEF DropPage
<1>3. SameLeaves(s) /\ frame'[s][Hand] = NoFrame
  BY <1>2, Places, PutAt DEF SameLeaves, Phases, Typed
<1>4. TurnedBack(s)
  BY <1>1, MmapFails DEF DropPage, MmapNow
<1> QED BY <1>1, <1>2, <1>3, <1>4, MmapTurns

LEMMA UnmapPageMmap ==
  ASSUME Phases, MmapInv, Phases', NEW s \in Space, UnmapPage(s), job[s].do = "mmap"
  PROVE  MmapGoes(s)
<1>1. MmapNow(s)
  BY MmapIsNow DEF UnmapPage
<1>2. job[s].step = "back" /\ frame[s][Hand] = NoFrame /\ job[s].at \in Va
  BY <1>1, AtIsVa DEF UnmapPage, MmapNow, MmapAt
<1>3. CASE Mapped(s, job[s].at)
  <2>1. PICK n \in Place : n = Leaf(job[s].at) /\ n # Hand
    BY <1>2, Places
  <2>2. frame' = Put(Put(frame, s, Hand, frame[s][n]), s, n, NoFrame) /\ job' = job
    BY <1>3, <2>1 DEF UnmapPage
  <2>3. /\ frame'[s][n] = NoFrame
        /\ \A q \in Place : q \notin {n, Hand} => frame'[s][q] = frame[s][q]
    BY <2>1, <2>2, Places DEF Put, Phases, Typed, Frames
  <2>4. \A v \in Va : v # job[s].at => frame'[s][Leaf(v)] = frame[s][Leaf(v)]
    BY <1>2, <2>1, <2>3, Leaves
  <2>5. /\ job[s].lo \in Nat /\ job[s].at \in Nat /\ job[s].hi \in Nat /\ Va \subseteq Nat
        /\ job[s].lo <= job[s].at /\ job[s].at < job[s].hi
    BY <1>1, MmapNumbers DEF MmapNow
  <2>6. \A v \in Va : (v < job[s].lo \/ job[s].hi <= v) \/ v < job[s].at => v # job[s].at
    BY <2>5
  <2>7. MmapAt(job[s], frame[s], before[s]) /\ job[s].do = "mmap"
    BY <1>1 DEF MmapNow
  <2>8. \A v \in Va : v < job[s].lo \/ job[s].hi <= v =>
          \A f \in Frame : <<v, f>> \in before[s] <=> frame'[s][Leaf(v)] = f
    BY <2>4, <2>6, <2>7 DEF MmapAt
  <2>9. \A v \in Va : job[s].lo <= v /\ v < job[s].at => frame'[s][Leaf(v)] = NoFrame
    BY <1>2, <2>4, <2>6, <2>7 DEF MmapAt
  <2>10. MmapAt(job[s], frame'[s], before[s])
    BY <1>2, <2>1, <2>3, <2>7, <2>8, <2>9 DEF MmapAt
  <2> QED BY <1>1, <2>2, <2>10 DEF MmapGoes, MmapNow, MmapJob
<1>4. CASE ~Mapped(s, job[s].at)
  <2>1. Advance(s, job[s]) /\ frame' = frame /\ frame[s][Leaf(job[s].at)] = NoFrame
    BY <1>4 DEF UnmapPage, Mapped
  <2>2. OnePageOn(s)
    BY <1>1, <2>1, MmapAdvances DEF MmapNow
  <2> QED BY <1>1, <1>2, <2>1, <2>2, MmapRollsBack DEF SameLeaves
<1> QED BY <1>3, <1>4

LEMMA FreePageMmap ==
  ASSUME Phases, MmapInv, Phases', NEW s \in Space, FreePage(s), job[s].do = "mmap"
  PROVE  MmapGoes(s)
<1>1. MmapNow(s)
  BY MmapIsNow DEF FreePage
<1>2. /\ job[s].step = "back" /\ frame[s][Hand] # NoFrame
      /\ frame' = Put(frame, s, Hand, NoFrame) /\ Advance(s, job[s])
  BY <1>1 DEF FreePage, MmapNow, MmapAt
<1>3. SameLeaves(s) /\ frame'[s][Hand] = NoFrame
  BY <1>2, Places, PutAt DEF SameLeaves, Phases, Typed
<1>4. OnePageOn(s)
  BY <1>1, <1>2, MmapAdvances DEF MmapNow
<1>5. frame[s][Leaf(job[s].at)] = NoFrame
  BY <1>1, <1>2 DEF MmapNow, MmapAt, MmapJob
<1> QED BY <1>1, <1>2, <1>3, <1>4, <1>5, MmapRollsBack

(* The call: the range is free, and what is mapped is remembered. *)
LEMMA SysMmapStarts ==
  ASSUME Phases, MmapInv, NEW s \in Space, NEW n \in 1..MaxLen, SysMmap(s, n)
  PROVE  MmapInv' /\ MmapDone
<1>1. PICK va \in MmapStart..(MmapMax - n) :
        /\ FreeFrom(s, va, n) /\ Call(s, Job("mmap", "map", va, va + n))
        /\ before' = [before EXCEPT ![s] = Pages(frame[s])]
  BY DEF SysMmap
<1>2. va \in Nat /\ n \in Nat /\ Va \subseteq Nat
  <2>1. MmapStart \in Nat /\ MmapMax \in Nat /\ MaxLen \in Nat
    BY MemoryAssumption
  <2> QED BY <1>1, <2>1, SpanFacts
<1>3. /\ job[s] = Idle /\ frame' = frame /\ job \in [Space -> Jobs]
      /\ job' = [job EXCEPT ![s] = Job("mmap", "map", va, va + n)]
      /\ before \in Histories /\ frame[s] \in [Place -> Frame \cup {NoFrame}]
  BY <1>1 DEF Call, Phases, Typed, MmapInv, Frames
<1>4. /\ job'[s].do = "mmap" /\ job'[s].step = "map" /\ job'[s].at = va
      /\ job'[s].lo = va /\ job'[s].hi = va + n
  BY <1>3 DEF Job
<1>5. Pages(frame[s]) \in SUBSET (Va \X Frame)
  BY <1>3, PagesIs, Leaves
<1>6. before' \in Histories /\ before'[s] = Pages(frame[s])
  BY <1>1, <1>3, <1>5 DEF Histories
<1>7. \A v \in Va : \A f \in Frame : <<v, f>> \in Pages(frame[s]) <=> frame[s][Leaf(v)] = f
  BY PagesIs, NoFrameApart
<1>8. \A v \in Va : va <= v /\ v < va + n => frame[s][Leaf(v)] = NoFrame
  BY <1>1, <1>2 DEF FreeFrom, Run, Mapped
<1>9. MmapAt(job'[s], frame[s], Pages(frame[s]))
  <2>1. \A v \in Va : va <= v /\ v < va + n => \A f \in Frame : <<v, f>> \notin Pages(frame[s])
    BY <1>7, <1>8, NoFrameApart
  <2>2. \A v \in Va : ~(va <= v /\ v < va)
    BY <1>2
  <2> QED BY <1>4, <1>7, <1>8, <2>1, <2>2 DEF MmapAt
<1>10. \A r \in Space \ {s} : job'[r] = job[r] /\ before'[r] = before[r]
  BY <1>1, <1>3 DEF Histories
<1>11. MmapInv'
  BY <1>3, <1>6, <1>9, <1>10 DEF MmapInv
<1>12. MmapDone
  BY <1>3, <1>4, <1>10 DEF MmapDone, Idle, Job
<1> QED BY <1>11, <1>12

(* No other step makes a job an mmap, remembers pages or touches a space that  *)
(* is not its own.                                                             *)
OwnStep(s) ==
  /\ before' = before
  /\ \A r \in Space \ {s} : job'[r] = job[r] /\ frame'[r] = frame[r]
  /\ job[s].do # "mmap" => job'[s].do # "mmap"

LEMMA AdvanceOwn ==
  ASSUME Phases, NEW s \in Space, NEW j \in Jobs, j.do = job[s].do, Advance(s, j)
  PROVE  /\ \A r \in Space \ {s} : job'[r] = job[r]
         /\ job[s].do # "mmap" => job'[s].do # "mmap"
<1> DEFINE k == [j EXCEPT !.at = j.at + 1]
<1>1. job' = [job EXCEPT ![s] = IF k.at < k.hi THEN k ELSE Then(s, k)] /\ job \in [Space -> Jobs]
  BY DEF Advance, Phases, Typed
<1>2. k.do = j.do
  BY DEF Jobs
<1> HIDE DEF k
<1>3. k.do # "mmap" => Then(s, k).do # "mmap"
  BY DEF Then, Job, Idle
<1> QED BY <1>1, <1>2, <1>3

LEMMA FailOwn ==
  ASSUME Phases, NEW s \in Space, Fail(s)
  PROVE  /\ \A r \in Space \ {s} : job'[r] = job[r]
         /\ job[s].do # "mmap" => job'[s].do # "mmap"
<1>1. job' = [job EXCEPT ![s] = Failed(job[s])] /\ job \in [Space -> Jobs] /\ job[s] \in Jobs
  BY DEF Fail, Phases, Typed
<1>2. job[s].do # "mmap" => Failed(job[s]).do # "mmap"
  BY <1>1 DEF Failed, Rollback, Job, Idle, Jobs
<1> QED BY <1>1, <1>2

LEMMA PutOwn ==
  ASSUME Phases, NEW s \in Space, NEW p, NEW f, NEW q, NEW g,
         \/ frame' = frame
         \/ frame' = Put(frame, s, p, f)
         \/ frame' = Put(Put(frame, s, p, f), s, q, g)
  PROVE  \A r \in Space \ {s} : frame'[r] = frame[r]
BY DEF Put, Phases, Typed, Frames

LEMMA PageOwn ==
  ASSUME Phases, NEW s \in Space,
         \/ TakePage(s) \/ SkipPage(s) \/ AddTable(s) \/ EnterPage(s) \/ DropPage(s)
         \/ UnmapPage(s) \/ FreePage(s)
  PROVE  OwnStep(s)
<1>1. before' = before /\ job \in [Space -> Jobs] /\ job[s] \in Jobs
  BY DEF TakePage, SkipPage, AddTable, EnterPage, DropPage, UnmapPage, FreePage, Phases, Typed
<1>2. \A r \in Space \ {s} : frame'[r] = frame[r]
  <2>1. CASE TakePage(s) \/ SkipPage(s) \/ AddTable(s) \/ DropPage(s) \/ FreePage(s)
    BY <2>1, PutOwn DEF TakePage, SkipPage, AddTable, DropPage, FreePage
  <2>2. CASE EnterPage(s)
    BY <2>2, PutOwn DEF EnterPage
  <2>3. CASE UnmapPage(s)
    BY <2>3, PutOwn DEF UnmapPage
  <2> QED BY <2>1, <2>2, <2>3
<1>3. \/ job' = job \/ job' = [job EXCEPT ![s].step = "drop"]
      \/ Fail(s) \/ Advance(s, job[s]) \/ SkipPage(s)
  BY DEF TakePage, AddTable, EnterPage, DropPage, UnmapPage, FreePage
<1>4. ASSUME SkipPage(s)
      PROVE  \E j \in Jobs : j.do = job[s].do /\ Advance(s, j)
  <2>1. [job[s] EXCEPT !.lo = job[s].at + 1] \in Jobs
    BY <1>1 DEF Jobs
  <2>2. [job[s] EXCEPT !.lo = job[s].at + 1].do = job[s].do
    BY <1>1 DEF Jobs
  <2> QED BY <1>1, <1>4, <2>1, <2>2 DEF SkipPage
<1>5. CASE job' = job \/ job' = [job EXCEPT ![s].step = "drop"]
  <2>1. job'[s].do = job[s].do /\ \A r \in Space \ {s} : job'[r] = job[r]
    BY <1>1, <1>5 DEF Jobs
  <2> QED BY <1>1, <1>2, <2>1 DEF OwnStep
<1>6. CASE Fail(s)
  BY <1>1, <1>2, <1>6, FailOwn DEF OwnStep
<1>7. CASE Advance(s, job[s]) \/ SkipPage(s)
  BY <1>1, <1>2, <1>4, <1>7, AdvanceOwn DEF OwnStep
<1> QED BY <1>3, <1>5, <1>6, <1>7

LEMMA OtherOwn ==
  ASSUME Phases, NEW s \in Space,
         \/ CreateRoot(s) \/ ReadFails(s) \/ CreateTask(s) \/ Destroy(s) \/ DestroyAgain(s)
         \/ TaskExit(s) \/ FreeTaskResources(s) \/ \E im \in Image : CmdRun(s, im)
         \/ \E to \in Probe : SysBrk(s, to)
         \/ \E va \in Probe, n \in 1..MaxLen : SysMmapFixed(s, va, n) \/ SysMunmap(s, va, n)
         \/ \E va \in Probe : PageFault(s, va)
  PROVE  OwnStep(s)
<1>1. before' = before
  BY DEF CreateRoot, ReadFails, CreateTask, Destroy, DestroyAgain, TaskExit, FreeTaskResources, CmdRun,
         SysBrk, SysMmapFixed, SysMunmap, PageFault
<1>2. \A r \in Space \ {s} : frame'[r] = frame[r]
  BY PutOwn DEF CreateRoot, ReadFails, CreateTask, Destroy, DestroyAgain, TaskExit, FreeTaskResources,
                CmdRun, SysBrk, SysMmapFixed, SysMunmap, PageFault, Call
<1>3. \/ job' = job
      \/ job' = [job EXCEPT ![s] = Idle]
      \/ \E do, step, lo, hi : do # "mmap" /\ job' = [job EXCEPT ![s] = Job(do, step, lo, hi)]
  <2>1. CASE \/ CreateRoot(s) \/ ReadFails(s) \/ CreateTask(s) \/ Destroy(s) \/ DestroyAgain(s)
             \/ TaskExit(s) \/ FreeTaskResources(s) \/ \E im \in Image : CmdRun(s, im)
    <3>1. \/ job' = job \/ job' = [job EXCEPT ![s] = Idle]
          \/ \E do \in {"root", "twice", "destroy", "again"} :
               job' = [job EXCEPT ![s] = Job(do, "none", 0, 0)]
          \/ job' = [job EXCEPT ![s] = Job("elf", "map", image[s][1], image[s][2])]
      BY <2>1 DEF CreateRoot, ReadFails, CreateTask, Destroy, DestroyAgain, TaskExit,
                  FreeTaskResources, CmdRun
    <3>2. \A do \in {"root", "twice", "destroy", "again", "elf"} : do # "mmap"
      OBVIOUS
    <3> QED BY <3>1, <3>2
  <2>2. CASE \/ \E to \in Probe : SysBrk(s, to)
             \/ \E va \in Probe, n \in 1..MaxLen : SysMmapFixed(s, va, n) \/ SysMunmap(s, va, n)
             \/ \E va \in Probe : PageFault(s, va)
    BY <2>2 DEF SysBrk, SysMmapFixed, SysMunmap, PageFault, Call
  <2> QED BY <2>1, <2>2
<1>4. job \in [Space -> Jobs]
  BY DEF Phases, Typed
<1>5. /\ \A r \in Space \ {s} : job'[r] = job[r]
      /\ job[s].do # "mmap" => job'[s].do # "mmap"
  BY <1>3, <1>4 DEF Idle, Job
<1> QED BY <1>1, <1>2, <1>5 DEF OwnStep

LEMMA OwnMmap ==
  ASSUME MmapInv, NEW s \in Space, OwnStep(s), job[s].do = "mmap" => MmapGoes(s)
  PROVE  MmapInv' /\ MmapDone
<1>1. ASSUME NEW r \in Space
      PROVE  /\ MmapAt(job'[r], frame'[r], before'[r])
             /\ job[r].do = "mmap" /\ job'[r].do = "idle" => MmapEnd(job[r], frame'[r], before[r])
  <2>1. CASE r # s
    <3>1. job'[r] = job[r] /\ frame'[r] = frame[r] /\ before'[r] = before[r]
      BY <2>1 DEF OwnStep
    <3> QED BY <3>1 DEF MmapInv
  <2>2. CASE r = s /\ job[s].do = "mmap"
    BY <2>2 DEF MmapGoes
  <2>3. CASE r = s /\ job[s].do # "mmap"
    <3>1. job'[s].do # "mmap"
      BY <2>3 DEF OwnStep
    <3> QED BY <2>3, <3>1 DEF MmapAt
  <2> QED BY <2>1, <2>2, <2>3
<1>2. before' \in Histories
  BY DEF MmapInv, OwnStep
<1> QED BY <1>1, <1>2 DEF MmapInv, MmapDone

LEMMA NotAnMmap ==
  ASSUME Phases, NEW s \in Space,
         \/ SkipPage(s) \/ CreateRoot(s) \/ ReadFails(s) \/ CreateTask(s) \/ Destroy(s)
         \/ DestroyAgain(s) \/ TaskExit(s) \/ FreeTaskResources(s)
         \/ \E im \in Image : CmdRun(s, im)
         \/ \E to \in Probe : SysBrk(s, to)
         \/ \E va \in Probe, n \in 1..MaxLen : SysMmapFixed(s, va, n) \/ SysMunmap(s, va, n)
         \/ \E va \in Probe : PageFault(s, va)
  PROVE  job[s].do # "mmap"
<1>1. job[s].do = "mmap" => life[s] = "running" /\ job[s] # Idle
  BY DEF Phases, JobsOK, JobOK, Calls, Idle, Job
<1>2. CASE SkipPage(s) \/ CreateRoot(s) \/ ReadFails(s) \/ CreateTask(s) \/ Destroy(s) \/ DestroyAgain(s)
  BY <1>2 DEF SkipPage, CreateRoot, ReadFails, CreateTask, Destroy, DestroyAgain
<1>3. CASE \/ TaskExit(s) \/ FreeTaskResources(s) \/ \E im \in Image : CmdRun(s, im)
           \/ \E to \in Probe : SysBrk(s, to)
           \/ \E va \in Probe, n \in 1..MaxLen : SysMmapFixed(s, va, n) \/ SysMunmap(s, va, n)
           \/ \E va \in Probe : PageFault(s, va)
  BY <1>1, <1>3 DEF TaskExit, FreeTaskResources, CmdRun, SysBrk, SysMmapFixed, SysMunmap, PageFault, Call
<1> QED BY <1>2, <1>3

LEMMA NextMmap == Phases /\ MmapInv /\ [Next]_vars => MmapInv' /\ MmapDone
<1> SUFFICES ASSUME Phases, MmapInv, [Next]_vars
             PROVE  MmapInv' /\ MmapDone
  OBVIOUS
<1>1. Phases'
  BY NextPhases
<1>2. ASSUME NEW s \in Space, Step(s)
      PROVE  MmapInv' /\ MmapDone
  <2>1. CASE \E n \in 1..MaxLen : SysMmap(s, n)
    BY <2>1, SysMmapStarts
  <2>2. CASE ~ \E n \in 1..MaxLen : SysMmap(s, n)
    <3>1. OwnStep(s)
      BY <1>2, <2>2, PageOwn, OtherOwn DEF Step
    <3>2. job[s].do = "mmap" => MmapGoes(s)
      BY <1>1, <1>2, <2>2, NotAnMmap, TakePageMmap, AddTableMmap, EnterPageMmap, DropPageMmap,
         UnmapPageMmap, FreePageMmap DEF Step
    <3> QED BY <3>1, <3>2, OwnMmap
  <2> QED BY <2>1, <2>2
<1>3. ASSUME UNCHANGED <<frame, job, before>>
      PROVE  MmapInv' /\ MmapDone
  BY <1>3 DEF MmapInv, MmapDone
<1>4. CASE \E n \in 1..MaxLen : HeapExpand(n)
  BY <1>3, <1>4 DEF HeapExpand
<1>5. CASE UNCHANGED vars
  BY <1>3, <1>5 DEF vars
<1> QED BY <1>2, <1>4, <1>5 DEF Next

LEMMA InitMmap == Init => MmapInv
<1> SUFFICES ASSUME Init PROVE MmapInv
  OBVIOUS
<1>1. before \in Histories
  BY DEF Init, Histories
<1>2. \A s \in Space : job[s].do # "mmap"
  BY DEF Init, Idle, Job
<1> QED BY <1>1, <1>2 DEF MmapInv, MmapAt

(* An mmap without MAP_FIXED (SysMmapHandler) maps the whole range or leaves   *)
(* the pages as they were, whichever page or table memory runs out at, and     *)
(* whatever other spaces do meanwhile.                                         *)
THEOREM MmapAtomic == Spec => MmapAllOrNothing
<1>1. Init => MmapInv
  BY InitMmap
<1>2. Phases /\ MmapInv /\ [Next]_vars => MmapInv'
  BY NextMmap
<1>3. Phases /\ MmapInv /\ [Next]_vars =>
        [\A s \in Space : job[s].do = "mmap" /\ job'[s].do = "idle" =>
           \/ Pages(frame'[s]) = before[s]
           \/ /\ before[s] \subseteq Pages(frame'[s])
              /\ {p[1] : p \in Pages(frame'[s]) \ before[s]} = job[s].lo..(job[s].hi - 1)]_vars
  BY NextMmap DEF MmapDone, MmapEnd, Added
<1> QED BY <1>1, <1>2, <1>3, PhasesAlways, PTL DEF Spec, MmapAllOrNothing
------------------------------------------------------------------------------
(* The kernel heap.                                                            *)
NextOf(l, x) == IF x = Nil THEN Nil ELSE l.at[x].next

LEMMA NthIs ==
  ASSUME NEW l, HeapHead \in DOMAIN l.at,
         \A b \in DOMAIN l.at : l.at[b].next \in DOMAIN l.at \cup {Nil}
  PROVE  /\ Nth(l) \in [Nat -> DOMAIN l.at \cup {Nil}] /\ Nth(l)[0] = HeapHead
         /\ \A n \in Nat : Nth(l)[n + 1] = NextOf(l, Nth(l)[n])
<1> DEFINE S == DOMAIN l.at \cup {Nil}
           g == [x \in S |-> NextOf(l, x)]
           Is(f) == f = [n \in Nat |-> IF n = 0 THEN HeapHead
                                       ELSE IF f[n - 1] = Nil THEN Nil ELSE l.at[f[n - 1]].next]
<1>1. g \in [S -> S] /\ HeapHead \in S
  BY DEF NextOf
<1>2. PICK f : Iterated(f, g, HeapHead, S)
  <2>1. Within(g, S)
    BY <1>1 DEF Within
  <2> HIDE DEF S, g, Is
  <2> QED BY <1>1, <2>1, Iterates
<1>3. Is(f)
  <2>1. ASSUME NEW n \in Nat
        PROVE  f[n] = IF n = 0 THEN HeapHead ELSE IF f[n - 1] = Nil THEN Nil ELSE l.at[f[n - 1]].next
    <3>1. CASE n # 0
      <4>1. n - 1 \in Nat /\ (n - 1) + 1 = n /\ f[n - 1] \in S
        BY <1>2, <3>1 DEF Iterated
      <4> QED BY <1>2, <3>1, <4>1 DEF NextOf, Iterated
    <3> QED BY <1>2, <3>1 DEF Iterated
  <2> QED BY <1>2, <2>1 DEF Iterated
<1>4. Nth(l) = CHOOSE h : Is(h)
  BY DEF Nth
<1>5. Is(Nth(l))
  <2> HIDE DEF Is
  <2> QED BY <1>3, <1>4
<1> DEFINE h == Nth(l)
<1>6. Is(h)
  BY <1>5
<1> HIDE DEF h
<1>7. h[0] = HeapHead /\ \A n \in Nat : h[n + 1] = NextOf(l, h[n])
  BY <1>6 DEF NextOf
<1> DEFINE P == {n \in Nat : h[n] \in S}
<1>8. P = Nat
  <2>1. 0 \in P /\ \A n \in P : n + 1 \in P
    BY <1>7 DEF NextOf
  <2> HIDE DEF P
  <2> QED BY <2>1, Counting DEF P
<1>9. h = [n \in Nat |-> h[n]]
  BY <1>6
<1> QED BY <1>7, <1>8, <1>9 DEF h
------------------------------------------------------------------------------
(* A list, and the word behind a block. *)
Block == [magic : BOOLEAN, canary : BOOLEAN, free : BOOLEAN, size : Nat \ {0},
          prev : Word \cup {Nil}, next : Word \cup {Nil}]
BlocksTyped(l) ==
  /\ l = [at |-> l.at, end |-> l.end]
  /\ DOMAIN l.at \subseteq Word /\ l.at \in [DOMAIN l.at -> Block]
  /\ HeapHead \in DOMAIN l.at /\ l.end \in DOMAIN l.at

EndOf(l, b) == b + Hdr + l.at[b].size

(* What a step does to the headers, field by field. *)
SameFlags(l, m, b) ==
  /\ m.at[b].free = l.at[b].free
  /\ m.at[b].magic = l.at[b].magic /\ m.at[b].canary = l.at[b].canary
Splits(l, m, b, req) ==
  LET new == b + Hdr + req
      D == DOMAIN l.at
  IN  /\ DOMAIN m.at = D \cup {new} /\ m.end = IF l.end = b THEN new ELSE l.end
      /\ \A x \in D : /\ SameFlags(l, m, x)
                      /\ m.at[x].size = IF x = b THEN req ELSE l.at[x].size
                      /\ m.at[x].next = IF x = b THEN new ELSE l.at[x].next
                      /\ m.at[x].prev = IF x = l.at[b].next THEN new ELSE l.at[x].prev
      /\ m.at[new] = Header(l.at[b].size - req - Hdr, b, l.at[b].next)
Swallows(l, m, b) ==
  LET n == l.at[b].next
      D == DOMAIN l.at
  IN  /\ DOMAIN m.at = D \ {n} /\ m.end = IF l.end = n THEN b ELSE l.end
      /\ \A x \in D \ {n} :
           /\ SameFlags(l, m, x)
           /\ m.at[x].size = IF x = b THEN l.at[b].size + Hdr + l.at[n].size ELSE l.at[x].size
           /\ m.at[x].next = IF x = b THEN l.at[n].next ELSE l.at[x].next
           /\ m.at[x].prev = IF x = l.at[n].next THEN b ELSE l.at[x].prev

LEMMA Numbers ==
  ASSUME HeapAssumption
  PROVE  /\ Words \in Nat \ {0} /\ Hdr \in Nat /\ Hdr > 2 /\ PageWords \in Nat \ {0}
         /\ TaskWords \in Nat \ {0} /\ Request \subseteq Nat \ {0} /\ Nil \notin Word
         /\ Word = 0..(Words - 1) /\ HeapHead = 0
BY DEF HeapAssumption, Word, HeapHead

LEMMA Chained ==
  ASSUME NEW a \in Nat, NEW b \in Nat, NEW c \in Nat
  PROVE  /\ a < b /\ b <= c => ~(c < a)
         /\ a <= b /\ b < c => a <= c
BY SMTT(30)

LEMMA Unordered ==
  ASSUME NEW a \in Nat
  PROVE  a <= a /\ ~(a < a)
BY SMTT(30)

LEMMA HeaderIs ==
  ASSUME HeapAssumption, NEW s \in Nat \ {0}, NEW p \in Word \cup {Nil}, NEW n \in Word \cup {Nil}
  PROVE  /\ Header(s, p, n) \in Block
         /\ Header(s, p, n).size = s /\ Header(s, p, n).prev = p /\ Header(s, p, n).next = n
         /\ Header(s, p, n).free = TRUE /\ Header(s, p, n).magic = TRUE
         /\ Header(s, p, n).canary = TRUE
BY DEF Header, Block

Headers(D) == [D -> Block]
PrevSet(at, at2, D, b, p) ==
  \A x \in D : /\ at2[x].prev = IF x = b THEN p ELSE at[x].prev
               /\ at2[x].next = at[x].next /\ at2[x].size = at[x].size
               /\ at2[x].free = at[x].free /\ at2[x].magic = at[x].magic
               /\ at2[x].canary = at[x].canary

LEMMA BlockIs ==
  ASSUME NEW h \in Block
  PROVE  /\ h.size \in Nat \ {0} /\ h.prev \in Word \cup {Nil} /\ h.next \in Word \cup {Nil}
         /\ {h.free, h.magic, h.canary} \subseteq BOOLEAN
BY DEF Block

LEMMA SetPrevIs ==
  ASSUME HeapAssumption, NEW D \in SUBSET Word, NEW at \in Headers(D), NEW b \in D \cup {Nil},
         NEW p \in Word \cup {Nil}
  PROVE  SetPrev(at, b, p) \in Headers(D) /\ PrevSet(at, SetPrev(at, b, p), D, b, p)
<1> USE DEF Headers, PrevSet
<1>1. Nil \notin Word
  BY Numbers
<1>2. CASE b = Nil
  BY <1>1, <1>2 DEF SetPrev
<1>3. CASE b # Nil
  <2> DEFINE at2 == [at EXCEPT ![b].prev = p]
  <2>1. SetPrev(at, b, p) = at2 /\ b \in D
    BY <1>3 DEF SetPrev
  <2>2. at2 = [at EXCEPT ![b] = [at[b] EXCEPT !.prev = p]]
    OBVIOUS
  <2> DEFINE h == [at[b] EXCEPT !.prev = p]
  <2>3. /\ h \in Block /\ h.prev = p /\ h.next = at[b].next /\ h.size = at[b].size
        /\ h.free = at[b].free /\ h.magic = at[b].magic /\ h.canary = at[b].canary
    BY <2>1 DEF Block
  <2> HIDE DEF h
  <2> QED BY <2>1, <2>2, <2>3 DEF h
<1> QED BY <1>2, <1>3

LEMMA SplitIs ==
  ASSUME HeapAssumption, NEW l, BlocksTyped(l), NEW b \in DOMAIN l.at, NEW req \in Nat \ {0},
         l.at[b].next \in DOMAIN l.at \cup {Nil}, l.at[b].next # b,
         l.at[b].size >= req + MinSplit, b + Hdr + req \in Word \ DOMAIN l.at
  PROVE  BlocksTyped(SplitBlock(l, b, req)) /\ Splits(l, SplitBlock(l, b, req), b, req)
<1> DEFINE D == DOMAIN l.at
           h == l.at[b]
           new == b + Hdr + req
           at1 == SetPrev(l.at, h.next, new)
           at2 == [at1 EXCEPT ![b].next = new, ![b].size = req]
           k == Header(h.size - req - Hdr, b, h.next)
           m == SplitBlock(l, b, req)
<1>1. /\ D \in SUBSET Word /\ l.at \in [D -> Block] /\ new \in Word /\ new \notin D /\ b \in D /\ b # new
      /\ h \in Block /\ h.next \in D \cup {Nil} /\ h.next # b /\ HeapHead \in D /\ l.end \in D
  <2>1. D \in SUBSET Word /\ l.at \in [D -> Block] /\ HeapHead \in D /\ l.end \in D
    BY DEF BlocksTyped
  <2>2. new \in Word /\ new \notin D /\ b \in D /\ b # new
    OBVIOUS
  <2> HIDE DEF new, D
  <2>3. h \in Block
    BY <2>1, <2>2
  <2> HIDE DEF h
  <2>4. h.next \in D \cup {Nil} /\ h.next # b
    BY DEF D, h
  <2> QED BY <2>1, <2>2, <2>3, <2>4
<1>2. Hdr \in Nat /\ h.size \in Nat /\ h.size - req - Hdr \in Nat \ {0} /\ ~(h.size < req + MinSplit)
  <2>1. h.size \in Nat \ {0} /\ h.size >= req + Hdr + 1
    <3>1. h.size >= req + (Hdr + 1)
      BY DEF MinSplit
    <3>2. h.size \in Nat \ {0} /\ Hdr \in Nat
      BY <1>1, BlockIs, Numbers
    <3> HIDE DEF h
    <3> QED BY <3>1, <3>2
  <2>2. Hdr \in Nat
    BY Numbers
  <2> HIDE DEF h
  <2> QED BY <2>1, <2>2 DEF MinSplit
<1>3. m = [at |-> With(at2, new, k), end |-> IF l.end = b THEN new ELSE l.end]
  BY <1>2 DEF SplitBlock
<1>4. /\ k \in Block /\ k = Header(l.at[b].size - req - Hdr, b, l.at[b].next)
  BY <1>1, <1>2, HeaderIs
<1>5. /\ at1 \in [D -> Block]
      /\ \A x \in D : /\ at1[x].prev = IF x = h.next THEN new ELSE l.at[x].prev
                      /\ at1[x].next = l.at[x].next /\ at1[x].size = l.at[x].size
                      /\ at1[x].free = l.at[x].free /\ at1[x].magic = l.at[x].magic
                      /\ at1[x].canary = l.at[x].canary
  <2>1. l.at \in Headers(D) /\ new \in Word \cup {Nil}
    BY <1>1 DEF Headers
  <2> HIDE DEF h, new, D
  <2>2. at1 \in Headers(D) /\ PrevSet(l.at, at1, D, h.next, new)
    BY <1>1, <2>1, SetPrevIs
  <2> QED BY <2>2 DEF Headers, PrevSet
<1> HIDE DEF D, h, new, at1, k, m
<1> DEFINE g == [at1[b] EXCEPT !.next = new, !.size = req]
<1>6. /\ g \in Block /\ g.next = new /\ g.size = req /\ g.prev = at1[b].prev
      /\ g.free = at1[b].free /\ g.magic = at1[b].magic /\ g.canary = at1[b].canary
  <2>1. at1[b] \in Block
    BY <1>1, <1>5
  <2>2. new \in Word \cup {Nil}
    BY <1>1
  <2> QED BY <2>1, <2>2 DEF Block
<1>7. at2 = [at1 EXCEPT ![b] = g]
  BY <1>1, <1>5
<1> HIDE DEF g
<1>8. /\ at2 \in [D -> Block] /\ at2[b] = g /\ \A x \in D \ {b} : at2[x] = at1[x]
  BY <1>1, <1>5, <1>6, <1>7
<1> HIDE DEF at2
<1> DEFINE at3 == With(at2, new, k)
<1>9. /\ DOMAIN at3 = D \cup {new} /\ at3 \in [D \cup {new} -> Block]
      /\ at3[new] = k /\ \A x \in D : at3[x] = at2[x]
  BY <1>1, <1>4, <1>8 DEF With
<1> HIDE DEF at3
<1>10. m.at = at3 /\ m.end = IF l.end = b THEN new ELSE l.end
  BY <1>3 DEF at3
<1>11. BlocksTyped(m)
  BY <1>1, <1>3, <1>9, <1>10 DEF BlocksTyped, at3
<1>12. \A x \in D : /\ SameFlags(l, m, x)
                    /\ m.at[x].size = IF x = b THEN req ELSE l.at[x].size
                    /\ m.at[x].next = IF x = b THEN new ELSE l.at[x].next
                    /\ m.at[x].prev = IF x = h.next THEN new ELSE l.at[x].prev
  <2> TAKE x \in D
  <2>1. CASE x = b
    BY <1>1, <1>5, <1>6, <1>8, <1>9, <1>10, <2>1 DEF SameFlags
  <2>2. CASE x # b
    BY <1>1, <1>5, <1>8, <1>9, <1>10, <2>2 DEF SameFlags
  <2> QED BY <2>1, <2>2
<1> QED BY <1>4, <1>9, <1>10, <1>11, <1>12 DEF Splits, D, h, new, m

LEMMA SwallowIs ==
  ASSUME HeapAssumption, NEW l, BlocksTyped(l), NEW b \in DOMAIN l.at, NEW n \in DOMAIN l.at,
         n = l.at[b].next, n # b, n # HeapHead,
         l.at[n].next \in DOMAIN l.at \cup {Nil}, l.at[n].next # n, l.at[n].next # b
  PROVE  BlocksTyped(Swallow(l, b)) /\ Swallows(l, Swallow(l, b), b)
<1> DEFINE D == DOMAIN l.at
           s == l.at[b].size + Hdr + l.at[n].size
           w == l.at[n].next
           at1 == [l.at EXCEPT ![b].size = @ + Hdr + l.at[n].size, ![b].next = l.at[n].next]
           at2 == SetPrev(at1, w, b)
           m == Swallow(l, b)
<1>1. /\ D \in SUBSET Word /\ l.at \in [D -> Block] /\ b \in D /\ n \in D /\ l.at[b] \in Block
      /\ l.at[n] \in Block /\ w \in D \cup {Nil} /\ HeapHead \in D /\ l.end \in D /\ w \in Word \cup {Nil}
      /\ b \in Word
  <2>1. D \in SUBSET Word /\ l.at \in [D -> Block] /\ HeapHead \in D /\ l.end \in D
    BY DEF BlocksTyped
  <2>2. b \in D /\ n \in D /\ w \in D \cup {Nil}
    OBVIOUS
  <2> HIDE DEF D, w
  <2> QED BY <2>1, <2>2
<1>2. s \in Nat \ {0}
  <2>1. l.at[b].size \in Nat \ {0} /\ l.at[n].size \in Nat \ {0}
    <3> HIDE DEF w
    <3> QED BY <1>1, BlockIs
  <2>2. Hdr \in Nat
    BY Numbers
  <2> QED BY <2>1, <2>2
<1>3. m = [at |-> Without(at2, n), end |-> IF l.end = n THEN b ELSE l.end]
  BY DEF Swallow
<1> DEFINE g == [l.at[b] EXCEPT !.size = s, !.next = w]
<1>4. /\ g \in Block /\ g.next = w /\ g.size = s /\ g.prev = l.at[b].prev
      /\ g.free = l.at[b].free /\ g.magic = l.at[b].magic /\ g.canary = l.at[b].canary
  <2> HIDE DEF s, w
  <2> QED BY <1>1, <1>2 DEF Block
<1>5. at1 = [l.at EXCEPT ![b] = g]
  BY <1>1
<1> HIDE DEF D, s, w, g, m
<1>6. /\ at1 \in [D -> Block] /\ at1[b] = g /\ \A x \in D \ {b} : at1[x] = l.at[x]
  BY <1>1, <1>4, <1>5
<1> HIDE DEF at1
<1>7. /\ at2 \in [D -> Block]
      /\ \A x \in D : /\ at2[x].prev = IF x = w THEN b ELSE at1[x].prev
                      /\ at2[x].next = at1[x].next /\ at2[x].size = at1[x].size
                      /\ at2[x].free = at1[x].free /\ at2[x].magic = at1[x].magic
                      /\ at2[x].canary = at1[x].canary
  <2>1. at1 \in Headers(D) /\ b \in Word \cup {Nil}
    BY <1>1, <1>6 DEF Headers
  <2>2. at2 \in Headers(D) /\ PrevSet(at1, at2, D, w, b)
    BY <1>1, <2>1, SetPrevIs
  <2> QED BY <2>2 DEF Headers, PrevSet
<1> HIDE DEF at2
<1> DEFINE at3 == Without(at2, n)
<1>8. /\ DOMAIN at3 = D \ {n} /\ at3 \in [D \ {n} -> Block] /\ \A x \in D \ {n} : at3[x] = at2[x]
  BY <1>7 DEF Without
<1> HIDE DEF at3
<1>9. m.at = at3 /\ m.end = IF l.end = n THEN b ELSE l.end
  BY <1>3 DEF at3
<1>10. BlocksTyped(m)
  BY <1>1, <1>3, <1>8, <1>9 DEF BlocksTyped, at3
<1>11. \A x \in D \ {n} : /\ SameFlags(l, m, x)
                          /\ m.at[x].size = IF x = b THEN s ELSE l.at[x].size
                          /\ m.at[x].next = IF x = b THEN w ELSE l.at[x].next
                          /\ m.at[x].prev = IF x = w THEN b ELSE l.at[x].prev
  <2> TAKE x \in D \ {n}
  <2>1. CASE x = b
    BY <1>1, <1>4, <1>6, <1>7, <1>8, <1>9, <2>1 DEF SameFlags
  <2>2. CASE x # b
    BY <1>1, <1>6, <1>7, <1>8, <1>9, <2>2 DEF SameFlags
  <2> QED BY <2>1, <2>2
<1> QED BY <1>8, <1>9, <1>10, <1>11 DEF Swallows, D, s, w, m
------------------------------------------------------------------------------
(* The shape of the list over e words of memory: each block's Next is the word *)
(* behind it and Prev undoes Next; blocks do not overlap; they leave no gap.   *)
Linked(l, e) ==
  \A b \in DOMAIN l.at :
    /\ IF b = l.end THEN l.at[b].next = Nil /\ EndOf(l, b) = e
       ELSE /\ l.at[b].next = EndOf(l, b) /\ EndOf(l, b) \in DOMAIN l.at
            /\ l.at[EndOf(l, b)].prev = b
    /\ IF b = HeapHead THEN l.at[b].prev = Nil
       ELSE /\ l.at[b].prev \in DOMAIN l.at /\ l.at[b].prev # l.end
            /\ EndOf(l, l.at[b].prev) = b
BlocksApart(l, e) ==
  \A b \in DOMAIN l.at : EndOf(l, b) <= e /\ \A c \in DOMAIN l.at : b < c => EndOf(l, b) <= c
Covered(l, e) == \A w \in 0..(e - 1) : \E b \in DOMAIN l.at : b <= w /\ w < EndOf(l, b)
Shape(l, e) == e \in 1..Words /\ BlocksTyped(l) /\ Linked(l, e) /\ BlocksApart(l, e) /\ Covered(l, e)

LEMMA EndIs ==
  ASSUME HeapAssumption, NEW l, BlocksTyped(l)
  PROVE  /\ DOMAIN l.at \subseteq Word /\ DOMAIN l.at \subseteq Nat /\ HeapHead \in DOMAIN l.at
         /\ l.end \in DOMAIN l.at
         /\ \A b \in DOMAIN l.at :
              /\ l.at[b] \in Block /\ l.at[b].size \in Nat \ {0} /\ EndOf(l, b) \in Nat
              /\ b < EndOf(l, b) /\ b + Hdr < EndOf(l, b)
              /\ l.at[b].prev \in Word \cup {Nil} /\ l.at[b].next \in Word \cup {Nil}
<1>1. DOMAIN l.at \subseteq Nat
  BY Numbers DEF BlocksTyped
<1>2. ASSUME NEW b \in DOMAIN l.at
      PROVE  /\ l.at[b] \in Block /\ l.at[b].size \in Nat \ {0} /\ EndOf(l, b) \in Nat
             /\ b < EndOf(l, b) /\ b + Hdr < EndOf(l, b)
             /\ l.at[b].prev \in Word \cup {Nil} /\ l.at[b].next \in Word \cup {Nil}
  <2> DEFINE h == l.at[b]
             s == h.size
  <2>1. h \in Block
    BY DEF BlocksTyped
  <2> HIDE DEF h
  <2>2. s \in Nat \ {0} /\ h.prev \in Word \cup {Nil} /\ h.next \in Word \cup {Nil}
    BY <2>1, BlockIs
  <2>3. b \in Nat /\ Hdr \in Nat
    BY <1>1, Numbers
  <2>4. EndOf(l, b) = b + Hdr + s
    BY DEF EndOf, h
  <2> HIDE DEF s
  <2> QED BY <2>1, <2>2, <2>3, <2>4 DEF s, h
<1> QED BY <1>1, <1>2 DEF BlocksTyped

LEMMA SplitShape ==
  ASSUME HeapAssumption, NEW e, NEW l, Shape(l, e), NEW b \in DOMAIN l.at, NEW req \in Nat \ {0},
         l.at[b].size >= req + MinSplit
  PROVE  LET m == SplitBlock(l, b, req)
             new == b + Hdr + req
         IN  /\ Shape(m, e) /\ Splits(l, m, b, req) /\ new \notin DOMAIN l.at
             /\ \A x \in DOMAIN l.at \ {b} : EndOf(m, x) = EndOf(l, x)
             /\ EndOf(m, b) = new /\ EndOf(m, new) = EndOf(l, b)
<1> DEFINE D == DOMAIN l.at
           new == b + Hdr + req
           w == l.at[b].next
           m == SplitBlock(l, b, req)
           D2 == DOMAIN m.at
<1>1. BlocksTyped(l) /\ Linked(l, e) /\ BlocksApart(l, e) /\ Covered(l, e) /\ e \in 1..Words
  BY DEF Shape
<1>2. /\ D \subseteq Word /\ D \subseteq Nat /\ b \in Nat /\ Hdr \in Nat /\ Word = 0..(Words - 1)
      /\ HeapHead = 0 /\ Nil \notin D /\ b \in D /\ l.end \in D /\ HeapHead \in D /\ Words \in Nat
      /\ \A x \in D : EndOf(l, x) \in Nat /\ x < EndOf(l, x) /\ l.at[x].size \in Nat \ {0}
  BY <1>1, EndIs, Numbers
<1>3. new \in Nat /\ b < new /\ new < EndOf(l, b) /\ EndOf(l, b) <= e
  <2> DEFINE z == l.at[b].size
             k == EndOf(l, b)
  <2>1. z >= req + (Hdr + 1) /\ k = b + Hdr + z
    BY DEF MinSplit, EndOf
  <2>2. z \in Nat /\ k <= e /\ b \in Nat /\ Hdr \in Nat
    BY <1>1, <1>2 DEF BlocksApart
  <2> HIDE DEF z, k
  <2>3. new \in Nat /\ b < new /\ new < k
    BY <2>1, <2>2
  <2> QED BY <2>2, <2>3 DEF k
<1>4. new \in Word /\ new \notin D
  <2> HIDE DEF new
  <2>1. new \in Word
    BY <1>1, <1>2, <1>3
  <2>2. \A c \in D : b < c => EndOf(l, b) <= c
    BY <1>1 DEF BlocksApart
  <2> HIDE DEF D
  <2>3. ASSUME new \in D PROVE FALSE
    BY <1>2, <1>3, <2>2, <2>3
  <2> QED BY <2>1, <2>3
<1>5. /\ w = IF b = l.end THEN Nil ELSE EndOf(l, b)
      /\ b = l.end => EndOf(l, b) = e
      /\ b # l.end => EndOf(l, b) \in D /\ l.at[EndOf(l, b)].prev = b
      /\ w \in D \cup {Nil} /\ w # b
  <2>1. IF b = l.end THEN w = Nil /\ EndOf(l, b) = e
        ELSE w = EndOf(l, b) /\ EndOf(l, b) \in D /\ l.at[EndOf(l, b)].prev = b
    BY <1>1 DEF Linked
  <2>2. b \in D /\ b \in Nat /\ Nil \notin D /\ EndOf(l, b) \in Nat /\ b < EndOf(l, b)
    BY <1>2
  <2> HIDE DEF w, D
  <2> QED BY <2>1, <2>2
<1>6. BlocksTyped(m) /\ Splits(l, m, b, req)
  BY <1>1, <1>4, <1>5, SplitIs
<1>7. /\ D2 = D \cup {new} /\ m.end = IF l.end = b THEN new ELSE l.end
      /\ \A x \in D : /\ m.at[x].size = IF x = b THEN req ELSE l.at[x].size
                      /\ m.at[x].next = IF x = b THEN new ELSE l.at[x].next
                      /\ m.at[x].prev = IF x = w THEN new ELSE l.at[x].prev
      /\ m.at[new].size = l.at[b].size - req - Hdr /\ m.at[new].prev = b
      /\ m.at[new].next = w
  BY <1>6 DEF Splits, Header
<1>8. /\ \A x \in D \ {b} : EndOf(m, x) = EndOf(l, x)
      /\ EndOf(m, b) = new /\ EndOf(m, new) = EndOf(l, b)
  <2>1. \A x \in D \ {b} : EndOf(m, x) = EndOf(l, x)
    BY <1>7 DEF EndOf
  <2>2. EndOf(m, b) = new
    BY <1>7 DEF EndOf
  <2>3. EndOf(m, new) = EndOf(l, b)
    <3> DEFINE s == l.at[b].size
    <3>1. EndOf(m, new) = (b + Hdr + req) + Hdr + (s - req - Hdr) /\ EndOf(l, b) = b + Hdr + s
      BY <1>7 DEF EndOf
    <3>2. s \in Nat /\ b \in Nat /\ Hdr \in Nat
      BY <1>2
    <3> HIDE DEF s, new
    <3>3. (b + Hdr + req) + Hdr + (s - req - Hdr) = b + Hdr + s
      BY <3>2
    <3> QED BY <3>1, <3>3
  <2> QED BY <2>1, <2>2, <2>3
<1> HIDE DEF new, w, D2, m
<1>9. Linked(m, e)
  <2> SUFFICES ASSUME NEW x \in D2
               PROVE  /\ IF x = m.end THEN m.at[x].next = Nil /\ EndOf(m, x) = e
                         ELSE /\ m.at[x].next = EndOf(m, x) /\ EndOf(m, x) \in D2
                              /\ m.at[EndOf(m, x)].prev = x
                      /\ IF x = HeapHead THEN m.at[x].prev = Nil
                         ELSE /\ m.at[x].prev \in D2 /\ m.at[x].prev # m.end
                              /\ EndOf(m, m.at[x].prev) = x
    BY DEF Linked, D2
  <2> HIDE DEF D
  <2>1. /\ b \in Nat /\ b \in D /\ l.end \in D /\ HeapHead = 0 /\ HeapHead \in D /\ Nil \notin D
        /\ new # b /\ new # HeapHead /\ new # l.end /\ new \notin D
    BY <1>2, <1>3, <1>4
  <2>2. CASE x = new
    BY <1>5, <1>7, <1>8, <2>1, <2>2
  <2>3. ASSUME x \in D
        PROVE  /\ IF x = l.end THEN l.at[x].next = Nil /\ EndOf(l, x) = e
                  ELSE /\ l.at[x].next = EndOf(l, x) /\ EndOf(l, x) \in D
                       /\ l.at[EndOf(l, x)].prev = x
               /\ IF x = HeapHead THEN l.at[x].prev = Nil
                  ELSE /\ l.at[x].prev \in D /\ l.at[x].prev # l.end
                       /\ EndOf(l, l.at[x].prev) = x
               /\ x \in Nat /\ EndOf(l, x) \in Nat /\ x < EndOf(l, x)
    BY <1>1, <1>2, <2>3 DEF Linked, D
  <2>4. CASE x = b
    <3>1. x = HeapHead \/ l.at[x].prev # b
      BY <2>1, <2>3, <2>4
    <3>2. x # w
      BY <1>5, <2>4
    <3> QED BY <1>7, <1>8, <2>1, <2>3, <2>4, <3>1, <3>2
  <2>5. CASE x \in D \ {b}
    <3>1. EndOf(m, x) = EndOf(l, x)
      BY <1>8, <2>5
    <3>2. x = l.end \/ EndOf(l, x) # w
      BY <1>5, <2>1, <2>3, <2>5
    <3>3. x = w \/ x = HeapHead \/ l.at[x].prev # b
      BY <1>5, <2>1, <2>3, <2>5
    <3>4. x = w => b # l.end /\ x # HeapHead
      <4>1. EndOf(l, b) \in Nat /\ b < EndOf(l, b)
        BY <1>2
      <4> QED BY <1>5, <2>1, <2>5, <4>1
    <3>5. x = m.end <=> x = l.end
      BY <1>7, <2>1, <2>5
    <3>6. IF x = m.end THEN m.at[x].next = Nil /\ EndOf(m, x) = e
          ELSE /\ m.at[x].next = EndOf(m, x) /\ EndOf(m, x) \in D2
               /\ m.at[EndOf(m, x)].prev = x
      BY <1>7, <2>3, <2>5, <3>1, <3>2, <3>5
    <3>7. IF x = HeapHead THEN m.at[x].prev = Nil
          ELSE /\ m.at[x].prev \in D2 /\ m.at[x].prev # m.end
               /\ EndOf(m, m.at[x].prev) = x
      <4>1. CASE x = w
        <5>1. m.at[x].prev = new /\ x = EndOf(l, b) /\ new # m.end
          BY <1>5, <1>7, <2>1, <2>5, <3>4, <4>1
        <5> QED BY <1>7, <1>8, <3>4, <4>1, <5>1
      <4>2. CASE x # w
        <5>1. m.at[x].prev = l.at[x].prev
          BY <1>7, <2>5, <4>2
        <5>2. x # HeapHead => l.at[x].prev \in D \ {b} /\ l.at[x].prev # m.end
          BY <1>7, <2>1, <2>3, <2>5, <3>3, <4>2
        <5> QED BY <1>7, <1>8, <2>3, <2>5, <5>1, <5>2
      <4> QED BY <4>1, <4>2
    <3> QED BY <3>6, <3>7
  <2> QED BY <1>7, <2>2, <2>4, <2>5
<1>10. BlocksApart(m, e)
  <2> SUFFICES ASSUME NEW x \in D2, NEW y \in D2
               PROVE  EndOf(m, x) <= e /\ (x < y => EndOf(m, x) <= y)
    BY DEF BlocksApart, D2
  <2>1. \A c \in D : EndOf(l, c) <= e /\ \A d \in D : c < d => EndOf(l, c) <= d
    BY <1>1 DEF BlocksApart
  <2>2. \A c \in D : c \in Nat /\ EndOf(l, c) \in Nat
    BY <1>2
  <2> DEFINE k == EndOf(l, b)
  <2>3. b \in D /\ b \in Nat /\ new \in Nat /\ b < new /\ new < k /\ k <= e /\ k \in Nat /\ e \in Nat
    BY <1>1, <1>2, <1>3
  <2>4. EndOf(m, b) = new /\ EndOf(m, new) = k /\ D2 = D \cup {new}
    BY <1>7, <1>8
  <2>5. \A d \in D : b < d => k <= d
    BY <2>1, <2>3
  <2> HIDE DEF k, D
  <2>6. CASE x = new
    BY <2>2, <2>3, <2>4, <2>5, <2>6
  <2>7. CASE x = b
    BY <2>2, <2>3, <2>4, <2>5, <2>7
  <2>8. CASE x \in D \ {b}
    <3>1. EndOf(m, x) = EndOf(l, x) /\ EndOf(l, x) <= e /\ x \in Nat /\ EndOf(l, x) \in Nat
      BY <1>8, <2>1, <2>2, <2>8
    <3>2. CASE y = new
      <4>1. x < b => EndOf(l, x) <= b
        BY <2>1, <2>3, <2>8
      <4>2. b < x => k <= x
        BY <2>5, <2>8
      <4> QED BY <2>3, <2>8, <3>1, <3>2, <4>1, <4>2
    <3>3. CASE y \in D
      BY <2>1, <2>8, <3>1, <3>3
    <3> QED BY <2>4, <3>2, <3>3
  <2> QED BY <2>4, <2>6, <2>7, <2>8
<1>11. Covered(m, e)
  <2> SUFFICES ASSUME NEW w0 \in 0..(e - 1) PROVE \E x \in D2 : x <= w0 /\ w0 < EndOf(m, x)
    BY DEF Covered, D2
  <2>1. PICK y \in D : y <= w0 /\ w0 < EndOf(l, y)
    BY <1>1 DEF Covered
  <2>2. CASE y # b
    BY <1>7, <1>8, <2>1, <2>2
  <2>3. CASE y = b
    <3>1. b <= w0 /\ (w0 < EndOf(m, b) \/ (new <= w0 /\ w0 < EndOf(m, new)))
      BY <1>2, <1>3, <1>8, <2>1, <2>3
    <3> QED BY <1>7, <3>1
  <2> QED BY <2>2, <2>3
<1> QED BY <1>1, <1>4, <1>6, <1>8, <1>9, <1>10, <1>11 DEF Shape, m, new

LEMMA SwallowShape ==
  ASSUME HeapAssumption, NEW e, NEW l, Shape(l, e), NEW b \in DOMAIN l.at, b # l.end
  PROVE  LET m == Swallow(l, b)
             n == l.at[b].next
         IN  /\ Shape(m, e) /\ Swallows(l, m, b) /\ n \in DOMAIN l.at /\ n = EndOf(l, b) /\ n # b
             /\ EndOf(m, b) = EndOf(l, n)
             /\ \A x \in DOMAIN l.at \ {b, n} : EndOf(m, x) = EndOf(l, x)
<1> DEFINE D == DOMAIN l.at
           n == l.at[b].next
           w == l.at[n].next
           m == Swallow(l, b)
           D2 == DOMAIN m.at
<1>1. BlocksTyped(l) /\ Linked(l, e) /\ BlocksApart(l, e) /\ Covered(l, e) /\ e \in 1..Words
  BY DEF Shape
<1>2. /\ D \subseteq Word /\ D \subseteq Nat /\ b \in Nat /\ Hdr \in Nat
      /\ HeapHead = 0 /\ Nil \notin D
      /\ \A x \in D : EndOf(l, x) \in Nat /\ x < EndOf(l, x) /\ l.at[x].size \in Nat \ {0}
  BY <1>1, EndIs, Numbers
<1>3. n \in D /\ n = EndOf(l, b) /\ b < n /\ l.at[n].prev = b
  BY <1>1, <1>2 DEF Linked
<1>4. /\ w = IF n = l.end THEN Nil ELSE EndOf(l, n)
      /\ n = l.end => EndOf(l, n) = e
      /\ n # l.end => EndOf(l, n) \in D /\ l.at[EndOf(l, n)].prev = n
  <2> HIDE DEF n
  <2> QED BY <1>1, <1>3 DEF Linked
<1>5. BlocksTyped(m) /\ Swallows(l, m, b)
  <2>1. w \in D \cup {Nil} /\ w # n /\ w # b
    <3> HIDE DEF n, w
    <3> QED BY <1>2, <1>3, <1>4
  <2>2. n # b /\ n # HeapHead
    BY <1>2, <1>3
  <2> QED BY <1>1, <1>3, <2>1, <2>2, SwallowIs
<1>6. /\ D2 = D \ {n} /\ m.end = IF l.end = n THEN b ELSE l.end
      /\ \A x \in D \ {n} : /\ m.at[x].size = IF x = b THEN l.at[b].size + Hdr + l.at[n].size ELSE l.at[x].size
                            /\ m.at[x].next = IF x = b THEN w ELSE l.at[x].next
                            /\ m.at[x].prev = IF x = w THEN b ELSE l.at[x].prev
  BY <1>5 DEF Swallows
<1>7. EndOf(m, b) = EndOf(l, n) /\ \A x \in D \ {b, n} : EndOf(m, x) = EndOf(l, x)
  <2>1. \A x \in D \ {b, n} : EndOf(m, x) = EndOf(l, x)
    BY <1>6 DEF EndOf
  <2>2. EndOf(m, b) = EndOf(l, n)
    <3> DEFINE s == l.at[b].size
               t == l.at[n].size
    <3>1. EndOf(m, b) = b + Hdr + (s + Hdr + t) /\ n = b + Hdr + s /\ EndOf(l, n) = n + Hdr + t
      BY <1>2, <1>3, <1>6 DEF EndOf
    <3>2. s \in Nat /\ t \in Nat
      BY <1>2, <1>3
    <3> HIDE DEF s, t, n
    <3> QED BY <1>2, <3>1, <3>2
  <2> QED BY <2>1, <2>2
<1> HIDE DEF n, w, m, D2
<1>8. Linked(m, e)
  <2> SUFFICES ASSUME NEW x \in D2
               PROVE  /\ IF x = m.end THEN m.at[x].next = Nil /\ EndOf(m, x) = e
                         ELSE /\ m.at[x].next = EndOf(m, x) /\ EndOf(m, x) \in D2
                              /\ m.at[EndOf(m, x)].prev = x
                      /\ IF x = HeapHead THEN m.at[x].prev = Nil
                         ELSE /\ m.at[x].prev \in D2 /\ m.at[x].prev # m.end
                              /\ EndOf(m, m.at[x].prev) = x
    BY DEF Linked, D2
  <2>1. CASE x = b
    BY <1>1, <1>2, <1>3, <1>4, <1>6, <1>7, <2>1 DEF Linked
  <2>2. CASE x # b
    BY <1>1, <1>2, <1>3, <1>4, <1>6, <1>7, <2>2 DEF Linked
  <2> QED BY <2>1, <2>2
<1>9. BlocksApart(m, e)
  <2> SUFFICES ASSUME NEW x \in D2, NEW y \in D2
               PROVE  EndOf(m, x) <= e /\ (x < y => EndOf(m, x) <= y)
    BY DEF BlocksApart, D2
  <2> QED BY <1>1, <1>2, <1>3, <1>6, <1>7 DEF BlocksApart
<1>10. Covered(m, e)
  <2> SUFFICES ASSUME NEW i \in 0..(e - 1) PROVE \E x \in D2 : x <= i /\ i < EndOf(m, x)
    BY DEF Covered, D2
  <2>1. PICK y \in D : y <= i /\ i < EndOf(l, y)
    BY <1>1 DEF Covered
  <2> QED BY <1>2, <1>3, <1>6, <1>7, <2>1
<1>11. n # b
  BY <1>2, <1>3
<1> QED BY <1>1, <1>3, <1>5, <1>7, <1>8, <1>9, <1>10, <1>11 DEF Shape, m, n, D

(* A list of this shape is walked from HeapHead to its end, upwards. *)
LEMMA WalkIs ==
  ASSUME HeapAssumption, NEW e, NEW l, Shape(l, e)
  PROVE  /\ Nth(l) \in [Nat -> DOMAIN l.at \cup {Nil}] /\ Nth(l)[0] = HeapHead
         /\ \A n \in Nat : Nth(l)[n + 1] = NextOf(l, Nth(l)[n])
<1>1. HeapHead \in DOMAIN l.at /\ \A b \in DOMAIN l.at : l.at[b].next \in DOMAIN l.at \cup {Nil}
  <2>1. \A b \in DOMAIN l.at : l.at[b].next = Nil \/ l.at[b].next \in DOMAIN l.at
    BY DEF Shape, Linked
  <2> QED BY <2>1 DEF Shape, BlocksTyped
<1> QED BY <1>1, NthIs

LEMMA Upwards ==
  ASSUME HeapAssumption, NEW e, NEW l, Shape(l, e)
  PROVE  \A n \in Nat : Nth(l)[n] # Nil => \A i \in 0..(n - 1) : Nth(l)[i] # Nil /\ Nth(l)[i] < Nth(l)[n]
<1> DEFINE f == Nth(l)
           D == DOMAIN l.at
           RoundUp(n) == f[n] # Nil => \A i \in 0..(n - 1) : f[i] # Nil /\ f[i] < f[n]
           P == {n \in Nat : RoundUp(n)}
<1>1. f \in [Nat -> D \cup {Nil}] /\ \A n \in Nat : f[n + 1] = NextOf(l, f[n])
  BY WalkIs
<1>2. D \subseteq Nat /\ \A b \in D : l.at[b].next = Nil \/ (l.at[b].next \in D /\ b < l.at[b].next)
  <2>1. BlocksTyped(l) /\ \A b \in D : l.at[b].next = Nil \/ (l.at[b].next = EndOf(l, b) /\ EndOf(l, b) \in D)
    BY DEF Shape, Linked
  <2> QED BY <2>1, EndIs
<1> HIDE DEF f, D
<1>3. 0 \in P
  OBVIOUS
<1>4. ASSUME NEW n \in P PROVE n + 1 \in P
  <2> SUFFICES ASSUME f[n + 1] # Nil, NEW i \in 0..n PROVE f[i] # Nil /\ f[i] < f[n + 1]
    OBVIOUS
  <2>1. n \in Nat /\ n + 1 \in Nat /\ f[n + 1] = NextOf(l, f[n])
    BY <1>1
  <2>2. f[n] # Nil /\ f[n + 1] = l.at[f[n]].next
    BY <2>1 DEF NextOf
  <2>3. f[n] \in D /\ f[n] < f[n + 1] /\ f[n] \in Nat /\ f[n + 1] \in Nat
    BY <1>1, <1>2, <2>1, <2>2
  <2>4. CASE i # n
    <3>1. i \in 0..(n - 1) /\ i \in Nat
      BY <2>1, <2>4
    <3>2. f[i] # Nil /\ f[i] < f[n] /\ f[i] \in Nat
      BY <1>1, <1>2, <2>2, <3>1
    <3> QED BY <2>3, <3>2
  <2> QED BY <2>2, <2>3, <2>4
<1>5. P = Nat
  <2> HIDE DEF P
  <2> QED BY <1>3, <1>4, Counting DEF P
<1> QED BY <1>5 DEF f

LEMMA AllReached ==
  ASSUME HeapAssumption, NEW e, NEW l, Shape(l, e)
  PROVE  Reach(l) = DOMAIN l.at
<1> DEFINE f == Nth(l)
           D == DOMAIN l.at
           U == {b \in D : \A n \in Nat : f[n] # b}
<1>1. f \in [Nat -> D \cup {Nil}] /\ f[0] = HeapHead /\ \A n \in Nat : f[n + 1] = NextOf(l, f[n])
  BY WalkIs
<1>2. BlocksTyped(l) /\ Linked(l, e)
  BY DEF Shape
<1>3. D \subseteq Nat /\ D \subseteq Word /\ Nil \notin D /\ Word = 0..(Words - 1) /\ Words \in Nat
  BY <1>2, EndIs, Numbers
<1>4. U = {}
  <2> SUFFICES ASSUME U # {} PROVE FALSE
    OBVIOUS
  <2>1. PICK b \in U : \A c \in U : b <= c
    <3>1. U \in SUBSET Nat
      BY <1>3
    <3> HIDE DEF U
    <3> QED BY <3>1, Least
  <2>2. b \in D /\ b # HeapHead
    BY <1>1
  <2> DEFINE p == l.at[b].prev
  <2>3. p \in D /\ p # l.end /\ EndOf(l, p) = b
    BY <1>2, <2>2 DEF Linked
  <2> HIDE DEF p
  <2>4. l.at[p].next = b /\ p < b /\ p \in Nat /\ b \in Nat
    BY <1>2, <1>3, <2>2, <2>3, EndIs DEF Linked
  <2>5. PICK n \in Nat : f[n] = p
    <3>1. p \notin U
      <4> HIDE DEF U
      <4> QED BY <2>1, <2>4
    <3> QED BY <2>3, <3>1
  <2>6. f[n + 1] = b
    BY <1>1, <1>3, <2>3, <2>4, <2>5 DEF NextOf
  <2> QED BY <2>1, <2>6
<1>5. IsFiniteSet(D)
  <2>1. IsFiniteSet(0..(Words - 1))
    BY <1>3, FS_Interval
  <2> QED BY <1>3, <2>1, FS_Subset
<1>6. ASSUME NEW b \in D PROVE \E n \in 0..Cardinality(D) : f[n] = b
  <2>1. PICK n \in Nat : f[n] = b
    BY <1>4
  <2>2. \A i \in 0..(n - 1) : f[i] # Nil /\ f[i] < f[n]
    BY <1>3, <2>1, Upwards
  <2>3. \A i, j \in 0..n : i # j => f[i] # f[j]
    <3> SUFFICES ASSUME NEW i \in 0..n, NEW j \in 0..n, i < j PROVE f[i] # f[j]
      OBVIOUS
    <3>1. i \in Nat /\ j \in Nat /\ i \in 0..(j - 1)
      OBVIOUS
    <3>2. f[j] # Nil
      BY <1>3, <2>1, <2>2
    <3>3. f[i] # Nil /\ f[i] < f[j]
      BY <3>1, <3>2, Upwards
    <3>4. f[i] \in Nat
      BY <1>1, <1>3, <3>1, <3>3
    <3> QED BY <3>3, <3>4
  <2>4. \A i \in 0..n : f[i] \in D
    <3> TAKE i \in 0..n
    <3>1. i \in Nat /\ (i = n \/ i \in 0..(n - 1))
      OBVIOUS
    <3>2. f[i] # Nil
      BY <1>3, <2>1, <2>2, <3>1
    <3> QED BY <1>1, <3>1, <3>2
  <2> HIDE DEF f, D, U
  <2> DEFINE g == [i \in 0..n |-> f[i]]
             T == 0..n
  <2>5. g \in Injection(T, D)
    BY <2>3, <2>4 DEF Injection, IsInjective
  <2>6. IsFiniteSet(T) /\ Cardinality(T) = n + 1
    <3>1. 0 \in Int /\ n \in Int /\ ~(0 > n)
      OBVIOUS
    <3>2. IsFiniteSet(0..n) /\ Cardinality(0..n) = n - 0 + 1
      BY <3>1, FS_Interval
    <3> QED BY <3>2
  <2> HIDE DEF g, T
  <2>7. Cardinality(T) <= Cardinality(D) /\ Cardinality(D) \in Nat
    BY <1>5, <2>5, FS_Injection, FS_CardinalityType
  <2> QED BY <2>1, <2>6, <2>7
<1> QED BY <1>6 DEF Reach

(* What FindFit finds. *)
LEMMA FitIs ==
  ASSUME HeapAssumption, NEW e, NEW l, Shape(l, e), NEW size, FindFit(l, size) # Nil
  PROVE  FindFit(l, size) \in DOMAIN l.at /\ Fit(l.at[FindFit(l, size)], size)
<1> DEFINE D == DOMAIN l.at
           fits(n) == Nth(l)[n] # Nil /\ Fit(l.at[Nth(l)[n]], size)
           Ns == {n \in 0..(Cardinality(D) - 1) : fits(n)}
           k == CHOOSE n \in Ns : \A m \in Ns : n <= m
<1>1. BlocksTyped(l) /\ Nth(l) \in [Nat -> D \cup {Nil}]
  BY WalkIs DEF Shape
<1>2. FindFit(l, size) = IF Ns = {} THEN Nil ELSE Nth(l)[k]
  BY DEF FindFit
<1>3. Ns # {} /\ FindFit(l, size) = Nth(l)[k]
  BY <1>2
<1>4. Cardinality(D) \in Nat
  <2>1. D \in SUBSET (0..(Words - 1)) /\ Words \in Nat
    BY <1>1, Numbers DEF BlocksTyped
  <2>a. Words - 1 \in Int
    BY <2>1
  <2>2. IsFiniteSet(0..(Words - 1))
    BY <2>a, FS_Interval
  <2>3. IsFiniteSet(D)
    BY <2>1, <2>2, FS_Subset
  <2> QED BY <2>3, FS_CardinalityType
<1>5. \A n \in Ns : n \in Nat /\ Nth(l)[n] # Nil /\ Fit(l.at[Nth(l)[n]], size)
  BY <1>4
<1> HIDE DEF Ns
<1>6. k \in Ns
  <2>1. Ns \in SUBSET Nat
    BY <1>5
  <2>2. \E n \in Ns : \A m \in Ns : n <= m
    BY <1>3, <2>1, Least
  <2> QED BY <2>2
<1> HIDE DEF k
<1>7. k \in Nat /\ Nth(l)[k] # Nil /\ Fit(l.at[Nth(l)[k]], size)
  BY <1>5, <1>6
<1> QED BY <1>1, <1>3, <1>7
------------------------------------------------------------------------------
(* Flags changed, links and sizes kept. *)
SameLinks(l, m) ==
  /\ DOMAIN m.at = DOMAIN l.at /\ m.end = l.end
  /\ \A x \in DOMAIN l.at : /\ m.at[x].size = l.at[x].size /\ m.at[x].next = l.at[x].next
                            /\ m.at[x].prev = l.at[x].prev

LEMMA LinksKept ==
  ASSUME HeapAssumption, NEW e, NEW l, Shape(l, e), NEW m, BlocksTyped(m), SameLinks(l, m)
  PROVE  Shape(m, e) /\ \A x \in DOMAIN l.at : EndOf(m, x) = EndOf(l, x)
<1>1. \A x \in DOMAIN l.at : EndOf(m, x) = EndOf(l, x)
  BY DEF SameLinks, EndOf
<1>2. Linked(m, e)
  <2>1. Linked(l, e)
    BY DEF Shape
  <2> QED BY <1>1, <2>1 DEF Linked, SameLinks
<1>3. BlocksApart(m, e) /\ Covered(m, e)
  BY <1>1 DEF Shape, BlocksApart, Covered, SameLinks
<1> QED BY <1>1, <1>2, <1>3 DEF Shape

(* No two free neighbours, but for those left of the block named. *)
Quiet(l, S) ==
  \A x \in DOMAIN l.at :
    l.at[x].free /\ x # l.end /\ EndOf(l, x) \notin S => ~l.at[EndOf(l, x)].free
(* A header whose Canary is erased has lost its Magic too. *)
Sealed(l) == \A x \in DOMAIN l.at : l.at[x].magic => l.at[x].canary
(* The allocations hold the blocks used, each its own. *)
BlocksHeld(l, A) ==
  /\ \A a \in A : a.block \in DOMAIN l.at /\ ~l.at[a.block].free /\ l.at[a.block].size >= a.size
  /\ \A a, c \in A : a.block = c.block => a = c
  /\ \A x \in DOMAIN l.at : ~l.at[x].free /\ l.at[x].magic => \E a \in A : a.block = x
Sound(l, e, A) == Shape(l, e) /\ Quiet(l, {}) /\ Sealed(l) /\ BlocksHeld(l, A)

(* A header's flags set. *)
Flagged(l, m, b) ==
  \A x \in DOMAIN l.at \ {b} : SameFlags(l, m, x)

LEMMA MarkIs ==
  ASSUME HeapAssumption, NEW l, BlocksTyped(l), NEW b \in DOMAIN l.at, NEW h \in Block,
         h.size = l.at[b].size, h.next = l.at[b].next, h.prev = l.at[b].prev,
         NEW m, m = [l EXCEPT !.at = [l.at EXCEPT ![b] = h]]
  PROVE  BlocksTyped(m) /\ SameLinks(l, m) /\ Flagged(l, m, b) /\ m.at[b] = h
<1> DEFINE D == DOMAIN l.at
           at2 == [l.at EXCEPT ![b] = h]
<1>1. l = [at |-> l.at, end |-> l.end] /\ D \subseteq Word /\ l.at \in [D -> Block] /\ HeapHead \in D
      /\ l.end \in D
  BY DEF BlocksTyped
<1>2. at2 \in [D -> Block] /\ at2[b] = h /\ \A x \in D \ {b} : at2[x] = l.at[x]
  BY <1>1
<1>3. m.at = at2 /\ m.end = l.end /\ m = [at |-> m.at, end |-> m.end]
  BY <1>1
<1> HIDE DEF at2
<1>4. DOMAIN m.at = D
  BY <1>2, <1>3
<1> HIDE DEF D
<1>5. BlocksTyped(m)
  BY <1>1, <1>2, <1>3, <1>4 DEF BlocksTyped
<1>6. \A x \in D : /\ m.at[x].size = l.at[x].size /\ m.at[x].next = l.at[x].next
                   /\ m.at[x].prev = l.at[x].prev
  BY <1>2, <1>3
<1>7. \A x \in D \ {b} : SameFlags(l, m, x)
  BY <1>2, <1>3 DEF SameFlags
<1> QED BY <1>2, <1>3, <1>4, <1>5, <1>6, <1>7 DEF SameLinks, Flagged, D

(* HeapExpandLocked: the list grows by a free block behind its end. *)
LEMMA ExpandShape ==
  ASSUME HeapAssumption, NEW e, NEW l, Shape(l, e), NEW words \in Nat, words > Hdr, e + words <= Words
  PROVE  LET m == Expanded(l, e, words)
         IN  /\ Shape(m, e + words) /\ e \notin DOMAIN l.at /\ DOMAIN m.at = DOMAIN l.at \cup {e}
             /\ m.end = e /\ m.at[e] = Header(words - Hdr, l.end, Nil)
             /\ \A x \in DOMAIN l.at : SameFlags(l, m, x) /\ EndOf(m, x) = EndOf(l, x)
                                       /\ m.at[x].size = l.at[x].size
<1> DEFINE D == DOMAIN l.at
           at1 == [l.at EXCEPT ![l.end].next = e]
           k == Header(words - Hdr, l.end, Nil)
           at3 == With(at1, e, k)
           m == Expanded(l, e, words)
           f == e + words
<1>1. BlocksTyped(l) /\ Linked(l, e) /\ BlocksApart(l, e) /\ Covered(l, e) /\ e \in 1..Words
  BY DEF Shape
<1>2. /\ D \subseteq Word /\ D \subseteq Nat /\ Hdr \in Nat /\ Word = 0..(Words - 1) /\ Words \in Nat
      /\ HeapHead = 0 /\ Nil \notin D /\ l.end \in D /\ HeapHead \in D /\ e \in Nat /\ e > 0
      /\ \A x \in D : EndOf(l, x) \in Nat /\ x < EndOf(l, x) /\ l.at[x] \in Block
  <2>1. /\ D \subseteq Word /\ D \subseteq Nat /\ l.end \in D /\ HeapHead \in D
        /\ \A x \in D : EndOf(l, x) \in Nat /\ x < EndOf(l, x) /\ l.at[x] \in Block
    BY <1>1, EndIs
  <2>2. Hdr \in Nat /\ Word = 0..(Words - 1) /\ Words \in Nat /\ HeapHead = 0 /\ Nil \notin Word
    BY Numbers
  <2> HIDE DEF D
  <2>3. e \in Nat /\ e > 0
    BY <1>1, <2>2
  <2>4. Nil \notin D
    BY <2>1, <2>2
  <2> QED BY <2>1, <2>2, <2>3, <2>4
<1>3. e \in Word /\ e \notin D
  <2>1. \A x \in D : EndOf(l, x) <= e
    BY <1>1 DEF BlocksApart
  <2>2. words \in Nat /\ words > 0 /\ e + words <= Words
    BY <1>2
  <2> QED BY <1>2, <2>1, <2>2
<1>4. k \in Block /\ k.size = words - Hdr /\ k.prev = l.end /\ k.next = Nil /\ k.free = TRUE
      /\ k.magic = TRUE /\ k.canary = TRUE
  <2> DEFINE s == words - Hdr
             p == l.end
  <2>1. s \in Nat \ {0}
    <3>1. Hdr \in Nat
      BY <1>2
    <3> QED BY <3>1
  <2>2. p \in Word \cup {Nil} /\ Nil \in Word \cup {Nil}
    BY <1>2
  <2> HIDE DEF s, p
  <2>3. /\ Header(s, p, Nil) \in Block
        /\ Header(s, p, Nil).size = s /\ Header(s, p, Nil).prev = p /\ Header(s, p, Nil).next = Nil
        /\ Header(s, p, Nil).free = TRUE /\ Header(s, p, Nil).magic = TRUE
        /\ Header(s, p, Nil).canary = TRUE
    BY <2>1, <2>2, HeaderIs
  <2> QED BY <2>3 DEF s, p
<1>5. m = [at |-> at3, end |-> e]
  BY DEF Expanded
<1> DEFINE g == [l.at[l.end] EXCEPT !.next = e]
<1>6. g \in Block /\ g.next = e /\ g.size = l.at[l.end].size /\ g.prev = l.at[l.end].prev
      /\ g.free = l.at[l.end].free /\ g.magic = l.at[l.end].magic /\ g.canary = l.at[l.end].canary
  <2>1. l.at[l.end] \in Block /\ e \in Word \cup {Nil}
    BY <1>2, <1>3
  <2> QED BY <2>1 DEF Block
<1>7. at1 = [l.at EXCEPT ![l.end] = g] /\ l.at \in [D -> Block]
  BY <1>1, <1>2 DEF BlocksTyped
<1> HIDE DEF D, g, k, m
<1>8. at1 \in [D -> Block] /\ at1[l.end] = g /\ \A x \in D \ {l.end} : at1[x] = l.at[x]
  BY <1>2, <1>6, <1>7
<1> HIDE DEF at1
<1>9. DOMAIN at3 = D \cup {e} /\ at3 \in [D \cup {e} -> Block] /\ at3[e] = k /\ \A x \in D : at3[x] = at1[x]
  BY <1>3, <1>4, <1>8 DEF With
<1> HIDE DEF at3
<1>10. m.at = at3 /\ m.end = e /\ DOMAIN m.at = D \cup {e} /\ m.at[e] = k
  BY <1>5, <1>9
<1>11. BlocksTyped(m)
  BY <1>2, <1>3, <1>5, <1>9, <1>10 DEF BlocksTyped
<1>12. \A x \in D : /\ m.at[x].size = l.at[x].size /\ m.at[x].prev = l.at[x].prev
                    /\ m.at[x].next = IF x = l.end THEN e ELSE l.at[x].next
                    /\ SameFlags(l, m, x)
  <2> TAKE x \in D
  <2>1. CASE x = l.end
    BY <1>6, <1>8, <1>9, <1>10, <2>1 DEF SameFlags
  <2>2. CASE x # l.end
    BY <1>6, <1>8, <1>9, <1>10, <2>2 DEF SameFlags
  <2> QED BY <2>1, <2>2
<1>13. EndOf(m, e) = f /\ \A x \in D : EndOf(m, x) = EndOf(l, x)
  <2>1. \A x \in D : EndOf(m, x) = EndOf(l, x)
    BY <1>12 DEF EndOf
  <2>2. EndOf(m, e) = e + Hdr + (words - Hdr)
    BY <1>4, <1>10 DEF EndOf
  <2> QED BY <1>2, <2>1, <2>2
<1>14. Linked(m, f)
  <2> SUFFICES ASSUME NEW x \in D \cup {e}
               PROVE  /\ IF x = m.end THEN m.at[x].next = Nil /\ EndOf(m, x) = f
                         ELSE /\ m.at[x].next = EndOf(m, x) /\ EndOf(m, x) \in D \cup {e}
                              /\ m.at[EndOf(m, x)].prev = x
                      /\ IF x = HeapHead THEN m.at[x].prev = Nil
                         ELSE /\ m.at[x].prev \in D \cup {e} /\ m.at[x].prev # m.end
                              /\ EndOf(m, m.at[x].prev) = x
    BY <1>10 DEF Linked
  <2>1. ASSUME NEW y \in D
        PROVE  /\ IF y = l.end THEN l.at[y].next = Nil /\ EndOf(l, y) = e
                  ELSE /\ l.at[y].next = EndOf(l, y) /\ EndOf(l, y) \in D
                       /\ l.at[EndOf(l, y)].prev = y
               /\ IF y = HeapHead THEN l.at[y].prev = Nil
                  ELSE /\ l.at[y].prev \in D /\ l.at[y].prev # l.end
                       /\ EndOf(l, l.at[y].prev) = y
    BY <1>1, <2>1 DEF Linked, D
  <2>2. CASE x = e
    <3>1. x = m.end /\ m.at[x].next = Nil /\ EndOf(m, x) = f /\ m.at[x].prev = l.end
      BY <1>4, <1>10, <1>13, <2>2
    <3>2. x # HeapHead /\ l.end \in D /\ l.end # e
      BY <1>2, <1>3, <2>2
    <3>3. EndOf(m, l.end) = e
      BY <1>13, <2>1, <3>2
    <3> QED BY <2>2, <3>1, <3>2, <3>3
  <2>3. CASE x \in D
    <3>1. /\ EndOf(m, x) = EndOf(l, x) /\ m.at[x].prev = l.at[x].prev
          /\ m.at[x].next = (IF x = l.end THEN e ELSE l.at[x].next) /\ x # m.end
      BY <1>3, <1>10, <1>12, <1>13, <2>3
    <3>2. CASE x = l.end
      <4>1. m.at[x].next = EndOf(m, x) /\ EndOf(m, x) = e /\ m.at[e].prev = x
        BY <1>4, <1>10, <2>1, <2>3, <3>1, <3>2
      <4>2. x # HeapHead => m.at[x].prev \in D /\ EndOf(m, m.at[x].prev) = x
        BY <1>13, <2>1, <2>3, <3>1
      <4> QED BY <1>3, <1>10, <2>1, <2>3, <3>1, <4>1, <4>2
    <3>3. CASE x # l.end
      <4>1. m.at[x].next = EndOf(m, x) /\ EndOf(m, x) \in D /\ m.at[EndOf(m, x)].prev = x
        BY <1>12, <2>1, <2>3, <3>1, <3>3
      <4>2. x # HeapHead => m.at[x].prev \in D /\ EndOf(m, m.at[x].prev) = x
        BY <1>13, <2>1, <2>3, <3>1
      <4> QED BY <1>3, <1>10, <2>1, <2>3, <3>1, <4>1, <4>2
    <3> QED BY <3>2, <3>3
  <2> QED BY <2>2, <2>3
<1>15. BlocksApart(m, f)
  <2>1. \A c \in D : EndOf(l, c) <= e /\ \A d \in D : c < d => EndOf(l, c) <= d
    BY <1>1 DEF BlocksApart, D
  <2>2. words \in Nat /\ f \in Nat /\ e < f /\ e \in Nat
    BY <1>2
  <2>3. \A c \in D : c \in Nat /\ EndOf(l, c) \in Nat /\ c < EndOf(l, c)
    BY <1>2
  <2> HIDE DEF f
  <2>4. \A c \in D : EndOf(m, c) = EndOf(l, c) /\ EndOf(m, e) = f
    BY <1>13
  <2>5. ASSUME NEW x \in D, NEW y \in D \cup {e}
        PROVE  EndOf(m, x) <= f /\ (x < y => EndOf(m, x) <= y)
    <3>1. EndOf(m, x) = EndOf(l, x) /\ EndOf(l, x) <= e /\ EndOf(l, x) \in Nat
      BY <2>1, <2>3, <2>4
    <3>2. EndOf(l, x) <= f
      BY <2>2, <3>1, Chained
    <3>3. y \in D /\ x < y => EndOf(l, x) <= y
      BY <2>1
    <3> QED BY <3>1, <3>2, <3>3
  <2>6. ASSUME NEW y \in D \cup {e} PROVE EndOf(m, e) <= f /\ ~(e < y)
    <3>1. CASE y = e
      BY <1>13, <2>2, <3>1, Unordered
    <3>2. CASE y \in D
      <4>1. y \in Nat /\ EndOf(l, y) \in Nat /\ y < EndOf(l, y) /\ EndOf(l, y) <= e
        BY <2>1, <2>3, <3>2
      <4>2. ~(e < y)
        BY <2>2, <4>1, Chained
      <4>3. f <= f
        BY <2>2, Unordered
      <4> QED BY <1>13, <4>2, <4>3
    <3> QED BY <3>1, <3>2
  <2> QED BY <1>10, <2>5, <2>6 DEF BlocksApart
<1>16. Covered(m, f)
  <2>1. ASSUME NEW w \in 0..(f - 1) PROVE \E x \in D \cup {e} : x <= w /\ w < EndOf(m, x)
    <3>1. CASE w < e
      <4>1. w \in 0..(e - 1)
        BY <1>2, <3>1
      <4>2. PICK y \in D : y <= w /\ w < EndOf(l, y)
        BY <1>1, <4>1 DEF Covered, D
      <4> QED BY <1>13, <4>2
    <3>2. CASE ~(w < e)
      BY <1>2, <1>13, <3>2
    <3> QED BY <3>1, <3>2
  <2> QED BY <1>10, <2>1 DEF Covered
<1>17. f \in 1..Words
  BY <1>2
<1> QED BY <1>3, <1>10, <1>11, <1>12, <1>13, <1>14, <1>15, <1>16, <1>17 DEF Shape, D, m, k

LEMMA TakenSound ==
  ASSUME HeapAssumption, NEW e, NEW l, Shape(l, e), Sealed(l), NEW A, BlocksHeld(l, A),
         NEW b \in DOMAIN l.at, l.at[b].free, Quiet(l, {b}), NEW size \in Nat \ {0},
         l.at[b].size >= size, NEW a, a.block = b, a.size = size
  PROVE  Sound(Taken(l, b, size), e, A \cup {a})
<1> DEFINE D == DOMAIN l.at
           l1 == SplitBlock(l, b, size)
           D1 == DOMAIN l1.at
           m == Taken(l, b, size)
<1>1. BlocksTyped(l) /\ Linked(l, e) /\ b \in D /\ l.end \in D /\ \A x \in D : l.at[x] \in Block /\ EndOf(l, x) # x
  BY EndIs DEF Shape
<1>2. /\ Shape(l1, e) /\ D \subseteq D1 /\ l1.at[b].size >= size
      /\ \A x \in D : SameFlags(l, l1, x)
      /\ \A x \in D \ {b} : l1.at[x].size = l.at[x].size
      /\ \A x \in D1 \ D : l1.at[x].free /\ l1.at[x].magic /\ l1.at[x].canary
      /\ \A x \in D1 \ {b} : l1.at[x].free /\ x # l1.end /\ EndOf(l1, x) # b => ~l1.at[EndOf(l1, x)].free
  <2>1. CASE l.at[b].size < size + MinSplit
    <3>1. l1 = l
      BY <2>1 DEF SplitBlock
    <3>2. \A x \in D : SameFlags(l, l, x)
      BY DEF SameFlags
    <3> QED BY <3>1, <3>2 DEF Quiet
  <2>2. CASE ~(l.at[b].size < size + MinSplit)
    <3> DEFINE new == b + Hdr + size
    <3>1. l.at[b].size \in Nat /\ Hdr \in Nat
      BY <1>1, EndIs, Numbers
    <3>2. l.at[b].size >= size + MinSplit
      <4> DEFINE z == l.at[b].size
      <4>1. z \in Nat /\ MinSplit \in Nat /\ ~(z < size + MinSplit)
        BY <2>2, <3>1 DEF MinSplit
      <4> HIDE DEF z
      <4> QED BY <4>1 DEF z
    <3>3. /\ Shape(l1, e) /\ Splits(l, l1, b, size) /\ new \notin D
          /\ \A x \in D \ {b} : EndOf(l1, x) = EndOf(l, x)
          /\ EndOf(l1, b) = new /\ EndOf(l1, new) = EndOf(l, b)
      BY <3>2, SplitShape
    <3>4. /\ D1 = D \cup {new} /\ l1.end = IF l.end = b THEN new ELSE l.end
          /\ \A x \in D : SameFlags(l, l1, x)
          /\ \A x \in D \ {b} : l1.at[x].size = l.at[x].size
          /\ l1.at[b].size = size
          /\ l1.at[new].free = TRUE /\ l1.at[new].magic = TRUE /\ l1.at[new].canary = TRUE
      BY <3>3 DEF Splits, Header
    <3> HIDE DEF new, l1, D1
    <3>5. ASSUME NEW x \in D1 \ {b}, l1.at[x].free, x # l1.end, EndOf(l1, x) # b
          PROVE  ~l1.at[EndOf(l1, x)].free
      <4>1. CASE x = new
        <5>1. l.end # b /\ EndOf(l1, x) = EndOf(l, b)
          BY <3>3, <3>4, <3>5, <4>1
        <5>2. EndOf(l, b) \in D /\ ~l.at[EndOf(l, b)].free
          BY <1>1, <5>1 DEF Linked, Quiet
        <5> QED BY <3>4, <5>1, <5>2 DEF SameFlags
      <4>2. CASE x \in D
        <5>1. EndOf(l1, x) = EndOf(l, x) /\ x # l.end /\ l.at[x].free
          BY <3>3, <3>4, <3>5, <4>2 DEF SameFlags
        <5>2. EndOf(l, x) \in D /\ ~l.at[EndOf(l, x)].free
          BY <1>1, <3>5, <4>2, <5>1 DEF Linked, Quiet
        <5> QED BY <3>4, <5>1, <5>2 DEF SameFlags
      <4> QED BY <3>4, <4>1, <4>2
    <3>6. size >= size
      OBVIOUS
    <3> QED BY <3>3, <3>4, <3>5, <3>6
  <2> QED BY <2>1, <2>2
<1> HIDE DEF l1, D1
<1> DEFINE h == [l1.at[b] EXCEPT !.free = FALSE, !.canary = TRUE]
<1>3. BlocksTyped(l1) /\ b \in D1 /\ b \in DOMAIN l1.at /\ l1.at[b] \in Block
  BY <1>1, <1>2, EndIs DEF Shape, D1
<1>4. /\ h \in Block /\ h.size = l1.at[b].size /\ h.next = l1.at[b].next /\ h.prev = l1.at[b].prev
      /\ h.free = FALSE /\ h.canary = TRUE /\ h.magic = l1.at[b].magic
  BY <1>3 DEF Block
<1>5. m = [l1 EXCEPT !.at = [l1.at EXCEPT ![b] = h]]
  <2>1. m = [l1 EXCEPT !.at[b].free = FALSE, !.at[b].canary = TRUE]
    BY DEF Taken, l1
  <2>2. l1 = [at |-> l1.at, end |-> l1.end] /\ l1.at \in [D1 -> Block] /\ b \in D1
    BY <1>3 DEF BlocksTyped, D1
  <2> DEFINE at == l1.at
             end == l1.end
  <2>3. l1 = [at |-> at, end |-> end] /\ at \in [D1 -> Block] /\ b \in D1
    BY <2>2
  <2> HIDE DEF at, end
  <2>4. m = [at |-> [at EXCEPT ![b].free = FALSE, ![b].canary = TRUE], end |-> end]
    BY <2>1, <2>3
  <2>5. l1.at = at
    BY <2>3
  <2>6. [at EXCEPT ![b].free = FALSE, ![b].canary = TRUE] = [at EXCEPT ![b] = h]
    BY <2>3, <2>5
  <2>7. [l1 EXCEPT !.at = [l1.at EXCEPT ![b] = h]] = [at |-> [at EXCEPT ![b] = h], end |-> end]
    <3> HIDE DEF h
    <3> QED BY <2>3, <2>5
  <2> HIDE DEF h, m
  <2> QED BY <2>4, <2>6, <2>7
<1> HIDE DEF h, m
<1>6. BlocksTyped(m) /\ SameLinks(l1, m) /\ Flagged(l1, m, b) /\ m.at[b] = h
  BY <1>3, <1>4, <1>5, MarkIs
<1>7. Shape(m, e) /\ (\A x \in D1 : EndOf(m, x) = EndOf(l1, x)) /\ DOMAIN m.at = D1 /\ m.end = l1.end
  BY <1>2, <1>6, LinksKept DEF SameLinks, D1
<1>8. /\ \A x \in D1 \ {b} : SameFlags(l1, m, x) /\ m.at[x].size = l1.at[x].size
      /\ m.at[b].free = FALSE /\ m.at[b].canary = TRUE /\ m.at[b].size = l1.at[b].size
      /\ m.at[b].magic = l1.at[b].magic
  BY <1>3, <1>4, <1>6 DEF SameLinks, Flagged, D1
<1>9. Quiet(m, {})
  <2> SUFFICES ASSUME NEW x \in D1, m.at[x].free, x # l1.end PROVE ~m.at[EndOf(l1, x)].free
    BY <1>7 DEF Quiet
  <2>1. x # b /\ l1.at[x].free
    BY <1>8 DEF SameFlags
  <2>2. EndOf(l1, x) \in D1
    BY <1>2 DEF Shape, Linked, D1
  <2>3. EndOf(l1, x) # b => ~l1.at[EndOf(l1, x)].free
    BY <1>2, <2>1
  <2> QED BY <1>8, <2>2, <2>3 DEF SameFlags
<1>10. Sealed(m)
  <2>1. \A x \in D : l.at[x].magic => l.at[x].canary
    BY DEF Sealed
  <2> SUFFICES ASSUME NEW x \in D1, m.at[x].magic PROVE m.at[x].canary
    BY <1>7 DEF Sealed
  <2> QED BY <1>2, <1>8, <2>1 DEF SameFlags
<1>11. BlocksHeld(m, A \cup {a})
  <2> HIDE DEF D
  <2>1. /\ \A c \in A : c.block \in D /\ c.block # b /\ ~l.at[c.block].free /\ l.at[c.block].size >= c.size
        /\ \A c, d \in A : c.block = d.block => c = d
        /\ \A x \in D : ~l.at[x].free /\ l.at[x].magic => \E c \in A : c.block = x
    BY DEF BlocksHeld, D
  <2>2. ASSUME NEW c \in A
        PROVE  c.block \in D1 /\ ~m.at[c.block].free /\ m.at[c.block].size >= c.size
    <3>1. c.block \in D \ {b} /\ c.block \in D1 \ {b}
      BY <1>2, <2>1
    <3>2. m.at[c.block].size = l.at[c.block].size /\ m.at[c.block].free = l.at[c.block].free
      BY <1>2, <1>8, <3>1 DEF SameFlags
    <3> QED BY <2>1, <3>1, <3>2
  <2>3. a.block \in D1 /\ ~m.at[a.block].free /\ m.at[a.block].size >= a.size
    BY <1>2, <1>3, <1>8
  <2>4. ASSUME NEW x \in D1, ~m.at[x].free, m.at[x].magic PROVE \E c \in A \cup {a} : c.block = x
    <3>1. CASE x = b
      BY <3>1
    <3>2. CASE x # b
      <4>1. ~l1.at[x].free /\ l1.at[x].magic
        BY <1>8, <2>4, <3>2 DEF SameFlags
      <4>2. x \in D /\ ~l.at[x].free /\ l.at[x].magic
        BY <1>2, <4>1 DEF SameFlags
      <4> QED BY <2>1, <4>2
    <3> QED BY <3>1, <3>2
  <2>5. \A c, d \in A \cup {a} : c.block = d.block => c = d
    BY <2>1
  <2>6. DOMAIN m.at = D1
    BY <1>7
  <2> QED BY <2>2, <2>3, <2>4, <2>5, <2>6 DEF BlocksHeld
<1> QED BY <1>7, <1>9, <1>10, <1>11 DEF Sound, m

(* No two free neighbours but at one block, or left of another named one. *)
QuietBut(l, b, S) ==
  \A x \in DOMAIN l.at \ {b} :
    l.at[x].free /\ x # l.end /\ EndOf(l, x) \notin S => ~l.at[EndOf(l, x)].free

(* A free block that takes the free one behind it: one seam less. *)
LEMMA SwallowSound ==
  ASSUME HeapAssumption, NEW e, NEW l, Shape(l, e), Sealed(l), NEW A, BlocksHeld(l, A),
         NEW b \in DOMAIN l.at, b # l.end, l.at[b].free, l.at[EndOf(l, b)].free,
         NEW S \in SUBSET {b}, QuietBut(l, b, S)
  PROVE  LET m == Swallow(l, b)
         IN  /\ Shape(m, e) /\ Sealed(m) /\ BlocksHeld(m, A) /\ Quiet(m, S)
             /\ b \in DOMAIN m.at /\ m.at[b].free
             /\ DOMAIN m.at \subseteq DOMAIN l.at
             /\ m.at[b].prev = l.at[b].prev
<1> DEFINE D == DOMAIN l.at
           n == l.at[b].next
           m == Swallow(l, b)
           D2 == DOMAIN m.at
<1>1. /\ Shape(m, e) /\ Swallows(l, m, b) /\ n \in D /\ n = EndOf(l, b) /\ n # b
      /\ EndOf(m, b) = EndOf(l, n)
      /\ \A x \in D \ {b, n} : EndOf(m, x) = EndOf(l, x)
  BY SwallowShape
<1>2. /\ D2 = D \ {n} /\ m.end = IF l.end = n THEN b ELSE l.end
      /\ \A x \in D \ {n} : /\ m.at[x].free = l.at[x].free
                            /\ m.at[x].magic = l.at[x].magic /\ m.at[x].canary = l.at[x].canary
                            /\ x # b => m.at[x].size = l.at[x].size
                            /\ m.at[x].prev = IF x = l.at[n].next THEN b ELSE l.at[x].prev
  BY <1>1 DEF Swallows, SameFlags
<1>3. /\ D \subseteq Nat /\ Linked(l, e) /\ b \in D /\ Nil \notin D
      /\ \A x \in D : EndOf(l, x) \in Nat /\ x < EndOf(l, x)
  BY EndIs, Numbers DEF Shape
<1>4. l.at[n].free /\ l.at[n].prev = b
  BY <1>1, <1>3 DEF Linked
<1>5. l.at[n].next # b
  <2> HIDE DEF n
  <2>1. l.at[n].next = IF n = l.end THEN Nil ELSE EndOf(l, n)
    BY <1>1, <1>3 DEF Linked
  <2> QED BY <1>1, <1>3, <2>1
<1>6. \A x \in D : x # l.end => EndOf(l, x) \in D /\ l.at[EndOf(l, x)].prev = x
  BY <1>3 DEF Linked
<1> HIDE DEF n, m, D, D2
<1>7. Quiet(m, S)
  <2> SUFFICES ASSUME NEW x \in D2, m.at[x].free, x # m.end, EndOf(m, x) \notin S
               PROVE  ~m.at[EndOf(m, x)].free
    BY DEF Quiet, D2
  <2>1. x \in D /\ x # n /\ l.at[x].free
    BY <1>2
  <2>2. CASE x = b
    <3>1. n # l.end /\ EndOf(m, x) = EndOf(l, n)
      BY <1>1, <1>2, <2>2
    <3>2. EndOf(l, n) \in D /\ EndOf(l, n) # b /\ EndOf(l, n) # n
      BY <1>1, <1>3, <1>6, <3>1
    <3>3. EndOf(l, n) \notin S /\ n \in D \ {b}
      BY <1>1, <3>2
    <3>4. ~l.at[EndOf(l, n)].free
      BY <1>4, <3>1, <3>3 DEF QuietBut, D
    <3> QED BY <1>2, <3>1, <3>2, <3>4
  <2>3. CASE x # b
    <3>1. EndOf(m, x) = EndOf(l, x) /\ x # l.end
      BY <1>1, <1>2, <2>1, <2>3
    <3>2. EndOf(l, x) \in D /\ EndOf(l, x) # n
      BY <1>4, <1>6, <2>1, <2>3, <3>1
    <3>3. ~l.at[EndOf(l, x)].free
      BY <2>1, <2>3, <3>1 DEF QuietBut, D
    <3> QED BY <1>2, <3>1, <3>2, <3>3
  <2> QED BY <2>2, <2>3
<1>8. Sealed(m)
  BY <1>2 DEF Sealed, D, D2
<1>9. BlocksHeld(m, A)
  <2>1. /\ \A a \in A : a.block \in D /\ ~l.at[a.block].free /\ l.at[a.block].size >= a.size
        /\ \A a, c \in A : a.block = c.block => a = c
        /\ \A x \in D : ~l.at[x].free /\ l.at[x].magic => \E a \in A : a.block = x
    BY DEF BlocksHeld, D
  <2>2. ASSUME NEW a \in A PROVE a.block \in D2 /\ ~m.at[a.block].free /\ m.at[a.block].size >= a.size
    <3>1. a.block \in D \ {n} /\ a.block # b
      BY <1>4, <2>1
    <3> QED BY <1>2, <2>1, <3>1
  <2>3. \A x \in D2 : ~m.at[x].free /\ m.at[x].magic => \E a \in A : a.block = x
    BY <1>2, <2>1
  <2> QED BY <2>1, <2>2, <2>3 DEF BlocksHeld, D2
<1>10. b \in D2 /\ m.at[b].free /\ D2 \subseteq D /\ m.at[b].prev = l.at[b].prev
  BY <1>1, <1>2, <1>3, <1>5
<1> QED BY <1>1, <1>7, <1>8, <1>9, <1>10 DEF m, D, D2

(* CoalesceLocked leaves no seam at the block just freed. *)
LEMMA CoalesceSound ==
  ASSUME HeapAssumption, NEW e, NEW l, Shape(l, e), Sealed(l), NEW A, BlocksHeld(l, A),
         NEW b \in DOMAIN l.at, l.at[b].free, QuietBut(l, b, {b})
  PROVE  Sound(Coalesce(l, b), e, A)
<1> DEFINE l1 == IF FreeAt(l, l.at[b].next) THEN Swallow(l, b) ELSE l
           D1 == DOMAIN l1.at
           p == l1.at[b].prev
<1>1. /\ Shape(l1, e) /\ Sealed(l1) /\ BlocksHeld(l1, A) /\ Quiet(l1, {b})
      /\ b \in D1 /\ l1.at[b].free
  <2>1. l.at[b].next = IF b = l.end THEN Nil ELSE EndOf(l, b)
    BY DEF Shape, Linked
  <2>2. Nil \notin DOMAIN l.at
    BY Numbers, EndIs DEF Shape
  <2>3. CASE FreeAt(l, l.at[b].next)
    <3>1. b # l.end /\ l.at[EndOf(l, b)].free
      BY <2>1, <2>3 DEF FreeAt
    <3>2. {b} \in SUBSET {b}
      OBVIOUS
    <3> QED BY <2>3, <3>1, <3>2, SwallowSound
  <2>4. CASE ~FreeAt(l, l.at[b].next)
    <3>1. b # l.end => EndOf(l, b) \in DOMAIN l.at
      BY DEF Shape, Linked
    <3>2. b # l.end => ~l.at[EndOf(l, b)].free
      BY <2>1, <2>2, <2>4, <3>1 DEF FreeAt
    <3>3. Quiet(l, {b})
      BY <3>2 DEF Quiet, QuietBut
    <3> QED BY <2>4, <3>3
  <2> QED BY <2>3, <2>4
<1>2. Coalesce(l, b) = IF FreeAt(l1, p) THEN Swallow(l1, p) ELSE l1
  BY DEF Coalesce
<1> HIDE DEF l1
<1>3. Linked(l1, e) /\ Nil \notin D1
  BY <1>1, Numbers, EndIs DEF Shape
<1>4. IF b = HeapHead THEN p = Nil ELSE p \in D1 /\ p # l1.end /\ EndOf(l1, p) = b
  BY <1>1, <1>3 DEF Linked
<1> HIDE DEF p, D1
<1>5. CASE FreeAt(l1, p)
  <2>1. p \in D1 /\ p # l1.end /\ EndOf(l1, p) = b /\ l1.at[p].free
    BY <1>4, <1>5 DEF FreeAt
  <2>2. QuietBut(l1, p, {})
    <3> SUFFICES ASSUME NEW x \in D1 \ {p}, l1.at[x].free, x # l1.end
                 PROVE  ~l1.at[EndOf(l1, x)].free
      BY DEF QuietBut, D1
    <3>1. l1.at[EndOf(l1, x)].prev = x /\ l1.at[EndOf(l1, p)].prev = p
      BY <1>3, <2>1 DEF Linked, D1
    <3>2. EndOf(l1, x) # b
      BY <2>1, <3>1
    <3> QED BY <1>1, <3>2 DEF Quiet, D1
  <2>3. {} \in SUBSET {p}
    OBVIOUS
  <2>4. LET m == Swallow(l1, p) IN Shape(m, e) /\ Sealed(m) /\ BlocksHeld(m, A) /\ Quiet(m, {})
    BY <1>1, <2>1, <2>2, <2>3, SwallowSound DEF D1
  <2> QED BY <1>2, <1>5, <2>4 DEF Sound
<1>6. CASE ~FreeAt(l1, p)
  <2>1. Quiet(l1, {})
    <3> SUFFICES ASSUME NEW x \in D1, l1.at[x].free, x # l1.end
                 PROVE  ~l1.at[EndOf(l1, x)].free
      BY DEF Quiet, D1
    <3>1. EndOf(l1, x) \in D1 /\ l1.at[EndOf(l1, x)].prev = x /\ EndOf(l1, x) # HeapHead
      <4>1. EndOf(l1, x) \in D1 /\ l1.at[EndOf(l1, x)].prev = x
        BY <1>3 DEF Linked, D1
      <4>2. l1.at[HeapHead].prev = Nil
        BY <1>1, <1>3, EndIs DEF Linked, Shape
      <4> QED BY <1>3, <4>1, <4>2
    <3>2. EndOf(l1, x) # b
      <4> SUFFICES ASSUME EndOf(l1, x) = b PROVE FALSE
        OBVIOUS
      <4>1. p = x
        BY <3>1 DEF p
      <4>2. p # Nil
        BY <1>3, <4>1
      <4> QED BY <1>6, <4>1, <4>2 DEF FreeAt
    <3> QED BY <1>1, <3>2 DEF Quiet, D1
  <2> QED BY <1>1, <1>2, <1>6, <2>1 DEF Sound
<1> QED BY <1>5, <1>6

(* MemoryFreeAligned's zeroes fall on flags only: of the block behind, and     *)
(* they take a Magic with every Canary.                                        *)
LEMMA ErasedSound ==
  ASSUME HeapAssumption, NEW e, NEW l, NEW A, Sound(l, e, A), NEW b \in DOMAIN l.at
  PROVE  Sound(Erased(l, b), e, A)
<1> DEFINE D == DOMAIN l.at
           x == b + Hdr + l.at[b].size
           m == Erased(l, b)
           h == [l.at[x] EXCEPT !.magic = FALSE, !.canary = @ /\ Shift(b) < 2]
<1>1. CASE x \notin D \/ ~l.at[b].magic
  BY <1>1 DEF Erased
<1>2. CASE x \in D /\ l.at[b].magic
  <2>1. Shape(l, e) /\ BlocksTyped(l) /\ Quiet(l, {}) /\ Sealed(l) /\ BlocksHeld(l, A)
    BY DEF Sound, Shape
  <2>2. m = [l EXCEPT !.at[x].magic = FALSE, !.at[x].canary = @ /\ Shift(b) < 2]
    BY <1>2 DEF Erased
  <2> HIDE DEF x, m
  <2>3. l.at[x] \in Block /\ x \in D
    BY <1>2, <2>1, EndIs
  <2>4. /\ h \in Block /\ h.size = l.at[x].size /\ h.next = l.at[x].next /\ h.prev = l.at[x].prev
        /\ h.free = l.at[x].free /\ h.magic = FALSE
    BY <2>3 DEF Block
  <2>5. m = [l EXCEPT !.at = [l.at EXCEPT ![x] = h]]
    <3>1. l = [at |-> l.at, end |-> l.end] /\ l.at \in [D -> Block]
      BY <2>1 DEF BlocksTyped
    <3> QED BY <2>2, <2>3, <3>1
  <2> HIDE DEF h
  <2>6. BlocksTyped(m) /\ SameLinks(l, m) /\ Flagged(l, m, x) /\ m.at[x] = h
    BY <2>1, <2>3, <2>4, <2>5, MarkIs
  <2>7. Shape(m, e) /\ (\A y \in D : EndOf(m, y) = EndOf(l, y)) /\ DOMAIN m.at = D /\ m.end = l.end
    BY <2>1, <2>6, LinksKept DEF SameLinks
  <2>8. /\ \A y \in D : m.at[y].free = l.at[y].free /\ m.at[y].size = l.at[y].size
        /\ \A y \in D : m.at[y].magic => l.at[y].magic /\ m.at[y].canary = l.at[y].canary
    BY <2>4, <2>6 DEF SameLinks, Flagged, SameFlags
  <2>9. \A y \in D : y # l.end => EndOf(l, y) \in D
    BY <2>1 DEF Shape, Linked
  <2> HIDE DEF D
  <2>10. Quiet(m, {})
    BY <2>1, <2>7, <2>8, <2>9 DEF Quiet, D
  <2>11. Sealed(m)
    BY <2>1, <2>7, <2>8 DEF Sealed, D
  <2>12. BlocksHeld(m, A)
    BY <2>1, <2>7, <2>8 DEF BlocksHeld, D
  <2> QED BY <2>7, <2>10, <2>11, <2>12 DEF Sound, m
<1> QED BY <1>1, <1>2

(* A block freed, or lost for good when its header is not intact. *)
LEMMA FreedSound ==
  ASSUME HeapAssumption, NEW e, NEW l, NEW A, Sound(l, e, A), NEW a \in A
  PROVE  Sound(Freed(l, a.block), e, A \ {a})
<1> DEFINE D == DOMAIN l.at
           b == a.block
           h == [l.at[b] EXCEPT !.free = TRUE]
           m == [l EXCEPT !.at[b].free = TRUE]
<1>1. Shape(l, e) /\ BlocksTyped(l) /\ Quiet(l, {}) /\ Sealed(l) /\ BlocksHeld(l, A)
  BY DEF Sound, Shape
<1>2. /\ \A c \in A : c.block \in D /\ ~l.at[c.block].free /\ l.at[c.block].size >= c.size
      /\ \A c, d \in A : c.block = d.block => c = d
      /\ \A x \in D : ~l.at[x].free /\ l.at[x].magic => \E c \in A : c.block = x
  BY <1>1 DEF BlocksHeld
<1>3. b \in D /\ ~l.at[b].free
  BY <1>2
<1> HIDE DEF b
<1>4. \A c \in A \ {a} : c.block # b
  BY <1>2 DEF b
<1>5. CASE Intact(l, b)
  <2>1. Freed(l, b) = Coalesce(m, b)
    BY <1>5 DEF Freed
  <2>2. l.at[b] \in Block
    BY <1>1, <1>3, EndIs
  <2>3. /\ h \in Block /\ h.size = l.at[b].size /\ h.next = l.at[b].next /\ h.prev = l.at[b].prev
        /\ h.free = TRUE /\ h.magic = l.at[b].magic /\ h.canary = l.at[b].canary
    BY <2>2 DEF Block
  <2>4. m = [l EXCEPT !.at = [l.at EXCEPT ![b] = h]]
    <3>1. l = [at |-> l.at, end |-> l.end] /\ l.at \in [D -> Block]
      BY <1>1 DEF BlocksTyped
    <3> QED BY <1>3, <3>1
  <2> HIDE DEF h, m
  <2>5. BlocksTyped(m) /\ SameLinks(l, m) /\ Flagged(l, m, b) /\ m.at[b] = h
    BY <1>1, <1>3, <2>3, <2>4, MarkIs
  <2>6. Shape(m, e) /\ (\A y \in D : EndOf(m, y) = EndOf(l, y)) /\ DOMAIN m.at = D /\ m.end = l.end
    BY <1>1, <2>5, LinksKept DEF SameLinks
  <2>7. /\ \A y \in D \ {b} : m.at[y].free = l.at[y].free
        /\ \A y \in D : /\ m.at[y].size = l.at[y].size
                        /\ m.at[y].magic = l.at[y].magic /\ m.at[y].canary = l.at[y].canary
        /\ m.at[b].free
    BY <2>3, <2>5 DEF SameLinks, Flagged, SameFlags
  <2>8. \A y \in D : y # l.end => EndOf(l, y) \in D
    BY <1>1 DEF Shape, Linked
  <2> HIDE DEF D
  <2>9. QuietBut(m, b, {b})
    BY <1>1, <2>6, <2>7, <2>8 DEF Quiet, QuietBut, D
  <2>10. Sealed(m)
    BY <1>1, <2>6, <2>7 DEF Sealed, D
  <2>11. BlocksHeld(m, A \ {a})
    <3>1. ASSUME NEW c \in A \ {a}
          PROVE  c.block \in D /\ ~m.at[c.block].free /\ m.at[c.block].size >= c.size
      BY <1>2, <1>4, <2>7
    <3>2. ASSUME NEW x \in D, ~m.at[x].free, m.at[x].magic PROVE \E c \in A \ {a} : c.block = x
      <4>1. x # b /\ ~l.at[x].free /\ l.at[x].magic
        BY <2>7, <3>2
      <4> QED BY <1>2, <4>1 DEF b
    <3> QED BY <1>2, <2>6, <3>1, <3>2 DEF BlocksHeld
  <2>12. b \in DOMAIN m.at
    BY <1>3, <2>6
  <2>13. Sound(Coalesce(m, b), e, A \ {a})
    BY <2>6, <2>7, <2>9, <2>10, <2>11, <2>12, CoalesceSound
  <2> QED BY <2>1, <2>13 DEF b
<1>6. CASE ~Intact(l, b)
  <2>1. ~l.at[b].magic
    BY <1>1, <1>3, <1>6 DEF Sealed, Intact
  <2>2. \A x \in D : ~l.at[x].free /\ l.at[x].magic => \E c \in A \ {a} : c.block = x
    BY <1>2, <2>1 DEF b
  <2>3. BlocksHeld(l, A \ {a})
    BY <1>2, <2>2 DEF BlocksHeld
  <2> QED BY <1>1, <1>6, <2>3 DEF Freed, Sound, b
<1> QED BY <1>5, <1>6
------------------------------------------------------------------------------
(* Pages for a request hold it and its header. *)
LEMMA PagesHold ==
  ASSUME HeapAssumption, NEW size \in Nat \ {0}
  PROVE  /\ PagesFor(size) * PageWords \in Nat /\ PagesFor(size) * PageWords >= size + Hdr
<1> DEFINE x == size + Hdr + PageWords - 1
           q == x \div PageWords
           r == x % PageWords
<1>1. PageWords \in Nat \ {0} /\ Hdr \in Nat /\ x \in Nat
  BY Numbers
<1> HIDE DEF x
<1>2. q \in Nat /\ r \in 0..(PageWords - 1) /\ x = PageWords * q + r
  <2> DEFINE d == PageWords
  <2>1. d \in Nat \ {0} /\ x \in Nat
    BY <1>1
  <2> HIDE DEF d
  <2>2. (x \div d) \in Nat /\ (x % d) \in 0..(d - 1) /\ x = d * (x \div d) + (x % d)
    BY <2>1
  <2> QED BY <2>2 DEF d
<1> HIDE DEF q, r
<1> DEFINE y == q * PageWords
<1>3. y \in Nat /\ x = y + r
  BY <1>1, <1>2
<1> HIDE DEF y
<1>4. y >= size + Hdr
  <2>1. x = size + Hdr + PageWords - 1
    BY DEF x
  <2> QED BY <1>1, <1>2, <1>3, <2>1
<1>5. PagesFor(size) * PageWords = y
  BY DEF PagesFor, y, q, x
<1> QED BY <1>3, <1>4, <1>5

(* With a word of its own after the last page, a growth begins at the end. *)
LEMMA NewPagesAre ==
  ASSUME HeapAssumption, ~GrowsApart, NEW e \in 1..Words, arena = 0..(e - 1),
         NEW size \in Nat \ {0}, NEW b \in Word, NewPages(size, b)
  PROVE  LET words == PagesFor(size) * PageWords
         IN  /\ b = e /\ words \in Nat /\ words > Hdr /\ words >= size + Hdr /\ e + words <= Words
             /\ arena \cup b..(b + words - 1) = 0..(e + words - 1)
<1> DEFINE words == PagesFor(size) * PageWords
<1>1. words \in Nat /\ words >= size + Hdr /\ Hdr \in Nat /\ Words \in Nat /\ Word = 0..(Words - 1)
  BY PagesHold, Numbers
<1>2. b..(b + words - 1) \subseteq Word \ arena /\ b - 1 \in arena
  BY DEF NewPages
<1> HIDE DEF words
<1>3. b \in b..(b + words - 1) /\ b + words - 1 \in b..(b + words - 1)
  BY <1>1
<1>4. b = e /\ b + words - 1 \in Word
  <2>1. b \in Word \ arena /\ b + words - 1 \in Word
    BY <1>2, <1>3
  <2>2. b \in Nat /\ e \in Nat
    BY <1>1
  <2>3. b - 1 <= e - 1
    BY <1>2
  <2>4. ~(b <= e - 1)
    BY <2>1, <2>2
  <2> QED BY <2>1, <2>2, <2>3, <2>4
<1>5. e + words <= Words /\ words > Hdr
  BY <1>1, <1>4
<1>6. arena \cup b..(b + words - 1) = 0..(e + words - 1)
  BY <1>1, <1>4
<1> QED BY <1>1, <1>4, <1>5, <1>6 DEF words

(* HeapExpandLocked's block may have a free one before it, and none behind. *)
LEMMA ExpandedHeld ==
  ASSUME HeapAssumption, NEW e, NEW l, NEW A, Sound(l, e, A),
         NEW words \in Nat, words > Hdr, e + words <= Words
  PROVE  LET m == Expanded(l, e, words)
         IN  /\ Shape(m, e + words) /\ Sealed(m) /\ BlocksHeld(m, A) /\ Quiet(m, {e})
             /\ e \in DOMAIN m.at /\ m.at[e].free /\ m.at[e].size = words - Hdr
<1> DEFINE D == DOMAIN l.at
           m == Expanded(l, e, words)
<1>1. Shape(l, e) /\ Quiet(l, {}) /\ Sealed(l) /\ BlocksHeld(l, A)
  BY DEF Sound
<1>2. /\ Shape(m, e + words) /\ e \notin D /\ DOMAIN m.at = D \cup {e}
      /\ m.end = e /\ m.at[e] = Header(words - Hdr, l.end, Nil)
      /\ \A x \in D : SameFlags(l, m, x) /\ EndOf(m, x) = EndOf(l, x) /\ m.at[x].size = l.at[x].size
  BY <1>1, ExpandShape
<1>3. m.at[e].free /\ m.at[e].size = words - Hdr /\ m.at[e].magic /\ m.at[e].canary
  BY <1>2 DEF Header
<1>4. \A x \in D : IF x = l.end THEN EndOf(l, x) = e ELSE EndOf(l, x) \in D
  BY <1>1 DEF Shape, Linked
<1> HIDE DEF m
<1>5. Quiet(m, {e})
  <2> SUFFICES ASSUME NEW x \in D, m.at[x].free, EndOf(m, x) # e PROVE ~m.at[EndOf(m, x)].free
    BY <1>2 DEF Quiet
  <2>1. x # l.end /\ EndOf(l, x) \in D /\ EndOf(m, x) = EndOf(l, x)
    BY <1>2, <1>4
  <2>2. ~l.at[EndOf(l, x)].free
    BY <1>1, <1>2, <2>1 DEF Quiet, SameFlags
  <2> QED BY <1>2, <2>1, <2>2 DEF SameFlags
<1>6. Sealed(m)
  BY <1>1, <1>2, <1>3 DEF Sealed, SameFlags
<1>7. BlocksHeld(m, A)
  <2>1. \A a \in A : a.block \in DOMAIN m.at /\ ~m.at[a.block].free /\ m.at[a.block].size >= a.size
    BY <1>1, <1>2 DEF BlocksHeld, SameFlags
  <2>2. \A x \in DOMAIN m.at : ~m.at[x].free /\ m.at[x].magic => \E a \in A : a.block = x
    BY <1>1, <1>2, <1>3 DEF BlocksHeld, SameFlags
  <2> QED BY <1>1, <2>1, <2>2 DEF BlocksHeld
<1>8. /\ Shape(m, e + words) /\ Sealed(m) /\ BlocksHeld(m, A) /\ Quiet(m, {e})
      /\ e \in DOMAIN m.at /\ m.at[e].free /\ m.at[e].size = words - Hdr
  <2>1. e \in DOMAIN m.at
    BY <1>2
  <2> QED BY <1>2, <1>3, <1>5, <1>6, <1>7, <2>1
<1> QED BY <1>8 DEF m
------------------------------------------------------------------------------
(* The heap's memory is the machine's first words, up to its list's end; the   *)
(* list tiles it, and its used blocks are those of the allocations, or erased. *)
HeapInv == \E e \in 1..Words : arena = 0..(e - 1) /\ Sound(List, e, live)

LEMMA HeapInitInv == HeapAssumption /\ HeapInit => HeapInv
<1> SUFFICES ASSUME HeapAssumption, HeapInit PROVE HeapInv
  OBVIOUS
<1> DEFINE e == InitialPages * PageWords
           h == Header(e - Hdr, Nil, Nil)
<1>1. e \in 1..Words /\ e - Hdr \in Nat \ {0} /\ Words \in Nat
  <2>1. InitialPages \in Nat /\ PageWords \in Nat /\ Hdr \in Nat /\ Words \in Nat /\ e <= Words /\ Hdr < e
    BY DEF HeapAssumption
  <2>2. e \in Nat
    BY <2>1
  <2> HIDE DEF e
  <2> QED BY <2>1, <2>2
<1>2. /\ arena = 0..(e - 1) /\ blocks = [b \in {HeapHead} |-> h] /\ tail = HeapHead /\ live = {}
  BY DEF HeapInit
<1> HIDE DEF e
<1>3. /\ h \in Block /\ h.size = e - Hdr /\ h.prev = Nil /\ h.next = Nil
      /\ h.free = TRUE /\ h.magic = TRUE /\ h.canary = TRUE
  <2> DEFINE s == e - Hdr
  <2>1. s \in Nat \ {0} /\ Nil \in Word \cup {Nil}
    BY <1>1
  <2> HIDE DEF s
  <2>2. /\ Header(s, Nil, Nil) \in Block /\ Header(s, Nil, Nil).size = s
        /\ Header(s, Nil, Nil).prev = Nil /\ Header(s, Nil, Nil).next = Nil
        /\ Header(s, Nil, Nil).free = TRUE /\ Header(s, Nil, Nil).magic = TRUE
        /\ Header(s, Nil, Nil).canary = TRUE
    BY <2>1 DEF Header, Block
  <2> QED BY <2>2 DEF s
<1> HIDE DEF h
<1>4. HeapHead = 0 /\ 0 \in Word /\ Hdr \in Nat /\ HeapHead \in Word
  BY <1>1, Numbers
<1> DEFINE l == List
           D == DOMAIN l.at
<1>5. l = [at |-> blocks, end |-> tail] /\ l.at = blocks /\ l.end = tail
  BY DEF List
<1>6. D = {0} /\ l.at[0] = h /\ l.end = 0 /\ l.at \in [D -> Block]
  BY <1>2, <1>3, <1>4, <1>5
<1>7. BlocksTyped(l)
  BY <1>4, <1>5, <1>6 DEF BlocksTyped
<1> HIDE DEF l, D
<1>8. EndOf(l, 0) = e
  BY <1>1, <1>3, <1>4, <1>6 DEF EndOf
<1>9. Linked(l, e)
  BY <1>3, <1>4, <1>6, <1>8 DEF Linked, D
<1>10. BlocksApart(l, e)
  BY <1>1, <1>6, <1>8 DEF BlocksApart, D
<1>11. Covered(l, e)
  BY <1>1, <1>6, <1>8 DEF Covered, D
<1>12. Quiet(l, {}) /\ Sealed(l) /\ BlocksHeld(l, live)
  BY <1>2, <1>3, <1>6 DEF Quiet, Sealed, BlocksHeld, D
<1>13. Sound(l, e, live)
  BY <1>1, <1>7, <1>9, <1>10, <1>11, <1>12 DEF Sound, Shape
<1> QED BY <1>1, <1>2, <1>13 DEF HeapInv, l

(* After a step, the list is the one the step became. *)
LEMMA BecomeIs ==
  ASSUME HeapAssumption, NEW e, NEW l, NEW A, Sound(l, e, A), Become(l), live' = A,
         arena' = 0..(e - 1)
  PROVE  HeapInv'
<1>1. e \in 1..Words /\ l = [at |-> l.at, end |-> l.end]
  BY DEF Sound, Shape, BlocksTyped
<1>2. List' = l
  BY <1>1 DEF Become, List
<1> QED BY <1>1, <1>2 DEF HeapInv

LEMMA AllocateInv ==
  ASSUME HeapAssumption, ~GrowsApart, HeapInv, NEW size \in Nat \ {0}, NEW kind,
         Allocate(size, kind)
  PROVE  HeapInv'
<1>1. PICK e \in 1..Words : arena = 0..(e - 1) /\ Sound(List, e, live)
  BY DEF HeapInv
<1> DEFINE l == List
           fit == FindFit(l, size)
<1>2. Shape(l, e) /\ Sealed(l) /\ BlocksHeld(l, live) /\ Quiet(l, {})
  BY <1>1 DEF Sound
<1>3. CASE /\ fit # Nil
           /\ Become(Taken(l, fit, size))
           /\ live' = live \cup {[block |-> fit, kind |-> kind, size |-> size]}
           /\ UNCHANGED arena
  <2> DEFINE a == [block |-> fit, kind |-> kind, size |-> size]
  <2>1. fit \in DOMAIN l.at /\ Fit(l.at[fit], size)
    BY <1>2, <1>3, FitIs
  <2>2. l.at[fit].free /\ l.at[fit].size >= size
    BY <2>1 DEF Fit
  <2>3. Quiet(l, {fit})
    BY <1>2 DEF Quiet
  <2>4. a.block = fit /\ a.size = size
    OBVIOUS
  <2>5. live' = live \cup {a} /\ arena' = 0..(e - 1) /\ Become(Taken(l, fit, size))
    BY <1>1, <1>3
  <2> HIDE DEF l, fit, a
  <2>6. Sound(Taken(l, fit, size), e, live \cup {a})
    BY <1>2, <2>1, <2>2, <2>3, <2>4, TakenSound
  <2> QED BY <2>5, <2>6, BecomeIs
<1>4. CASE /\ fit = Nil /\ CanExpand(size)
           /\ \E b \in Word :
                LET words == PagesFor(size) * PageWords
                IN  /\ NewPages(size, b)
                    /\ Become(Taken(Expanded(l, b, words), b, size))
                    /\ arena' = arena \cup b..(b + words - 1)
                    /\ live' = live \cup {[block |-> b, kind |-> kind, size |-> size]}
  <2> DEFINE words == PagesFor(size) * PageWords
  <2>1. PICK b \in Word : /\ NewPages(size, b)
                          /\ Become(Taken(Expanded(l, b, words), b, size))
                          /\ arena' = arena \cup b..(b + words - 1)
                          /\ live' = live \cup {[block |-> b, kind |-> kind, size |-> size]}
    BY <1>4
  <2> DEFINE a == [block |-> b, kind |-> kind, size |-> size]
             m == Expanded(l, e, words)
  <2>2. /\ b = e /\ words \in Nat /\ words > Hdr /\ words >= size + Hdr /\ e + words <= Words
        /\ arena \cup b..(b + words - 1) = 0..(e + words - 1)
    BY <1>1, <2>1, NewPagesAre
  <2>3. /\ a.block = e /\ a.size = size /\ live' = live \cup {a} /\ arena' = 0..(e + words - 1)
        /\ Become(Taken(m, e, size))
    BY <2>1, <2>2
  <2> HIDE DEF a, words
  <2>4. /\ Shape(m, e + words) /\ Sealed(m) /\ BlocksHeld(m, live) /\ Quiet(m, {e})
        /\ e \in DOMAIN m.at /\ m.at[e].free /\ m.at[e].size = words - Hdr
    BY <1>1, <2>2, ExpandedHeld
  <2> HIDE DEF m
  <2>5. m.at[e].size >= size
    BY <2>2, <2>4, Numbers
  <2>6. Sound(Taken(m, e, size), e + words, live \cup {a})
    BY <2>3, <2>4, <2>5, TakenSound
  <2> DEFINE f == e + words
             k == Taken(m, e, size)
             A == live \cup {a}
  <2>7. Sound(k, f, A)
    BY <2>6
  <2>8. Become(k)
    BY <2>3
  <2>9. live' = A
    BY <2>3
  <2>10. arena' = 0..(f - 1)
    <3>1. e \in Nat /\ words \in Nat
      BY <2>2
    <3>2. e + words - 1 = f - 1
      BY <3>1
    <3> QED BY <2>3, <3>2
  <2> HIDE DEF f, k, A
  <2> QED BY <2>7, <2>8, <2>9, <2>10, BecomeIs
<1> QED BY <1>3, <1>4 DEF Allocate

LEMMA FreeInv ==
  ASSUME HeapAssumption, HeapInv, NEW a \in live, MemoryFree(a) \/ MemoryFreeAligned(a)
  PROVE  HeapInv'
<1>1. PICK e \in 1..Words : arena = 0..(e - 1) /\ Sound(List, e, live)
  BY DEF HeapInv
<1> DEFINE b == a.block
<1>2. b \in DOMAIN List.at
  BY <1>1 DEF Sound, BlocksHeld
<1>3. CASE MemoryFree(a)
  <2>1. Sound(Freed(List, b), e, live \ {a})
    BY <1>1, FreedSound
  <2>2. Become(Freed(List, b)) /\ live' = live \ {a} /\ arena' = 0..(e - 1)
    BY <1>1, <1>3 DEF MemoryFree
  <2> QED BY <2>1, <2>2, BecomeIs
<1>4. CASE MemoryFreeAligned(a)
  <2>1. Sound(Erased(List, b), e, live)
    BY <1>1, <1>2, ErasedSound
  <2>2. Sound(Freed(Erased(List, b), b), e, live \ {a})
    BY <2>1, FreedSound
  <2>3. Become(Freed(Erased(List, b), b)) /\ live' = live \ {a} /\ arena' = 0..(e - 1)
    BY <1>1, <1>4 DEF MemoryFreeAligned
  <2> QED BY <2>2, <2>3, BecomeIs
<1> QED BY <1>3, <1>4

LEMMA HeapNextInv ==
  ASSUME HeapAssumption, ~GrowsApart, HeapInv, [HeapNext]_heapVars
  PROVE  HeapInv'
<1>1. ASSUME NEW size \in Request, MemoryAllocate(size) PROVE HeapInv'
  <2>1. size \in Nat \ {0}
    BY Numbers
  <2> QED BY <1>1, <2>1, AllocateInv DEF MemoryAllocate
<1>2. CASE MemoryAllocateAligned
  <2>1. AlignedWords \in Nat \ {0}
    BY Numbers DEF AlignedWords
  <2> QED BY <1>2, <2>1, AllocateInv DEF MemoryAllocateAligned
<1>3. ASSUME NEW a \in live, MemoryFree(a) \/ MemoryFreeAligned(a) PROVE HeapInv'
  BY <1>3, FreeInv
<1>4. CASE UNCHANGED heapVars
  BY <1>4 DEF heapVars, HeapInv, List
<1> QED BY <1>1, <1>2, <1>3, <1>4 DEF HeapNext

LEMMA HeapInvSound == ASSUME HeapAssumption, HeapInv PROVE HeapSound
<1>1. PICK e \in 1..Words : arena = 0..(e - 1) /\ Sound(List, e, live)
  BY DEF HeapInv
<1> DEFINE l == List
           D == DOMAIN blocks
<1>2. Shape(l, e) /\ BlocksTyped(l) /\ Linked(l, e) /\ BlocksApart(l, e) /\ Covered(l, e) /\ Quiet(l, {}) /\ BlocksHeld(l, live)
  BY <1>1 DEF Sound, Shape
<1>3. l.at = blocks /\ l.end = tail
  BY DEF List
<1>4. /\ D \subseteq Word /\ D \subseteq Nat /\ HeapHead \in D /\ tail \in D /\ Nil \notin D
      /\ Hdr \in Nat
      /\ \A b \in D : blocks[b].size \in Nat \ {0} /\ EndOf(l, b) \in Nat /\ b < EndOf(l, b)
  BY <1>2, <1>3, EndIs, Numbers
<1>5. \A b \in D : /\ IF b = tail THEN blocks[b].next = Nil
                      ELSE /\ blocks[b].next = EndOf(l, b) /\ EndOf(l, b) \in D
                           /\ blocks[EndOf(l, b)].prev = b
                   /\ IF b = HeapHead THEN blocks[b].prev = Nil ELSE blocks[b].prev \in D
  BY <1>2, <1>3 DEF Linked
<1>6. \A b \in D : EndOf(l, b) = b + Hdr + blocks[b].size
  BY <1>3 DEF EndOf
<1>7. /\ \A b, c \in D : b < c => EndOf(l, b) <= c
      /\ \A b \in D : EndOf(l, b) <= e
      /\ \A w \in 0..(e - 1) : \E b \in D : b <= w /\ w < EndOf(l, b)
  BY <1>2, <1>3 DEF BlocksApart, Covered
<1>8. /\ \A a \in live : a.block \in D /\ ~blocks[a.block].free /\ blocks[a.block].size >= a.size
      /\ \A a, c \in live : a.block = c.block => a = c
      /\ \A b \in D : ~blocks[b].free /\ blocks[b].magic => \E a \in live : a.block = b
  BY <1>2, <1>3 DEF BlocksHeld
<1>9. \A b \in D : blocks[b].free /\ b # tail => ~blocks[EndOf(l, b)].free
  BY <1>2, <1>3 DEF Quiet
<1>10. Reach(List) = D
  BY <1>2, <1>3, AllReached
<1> HIDE DEF l, D
<1>11. HeapTypeOK
  <2>1. \A b \in D : {blocks[b].prev, blocks[b].next} \subseteq D \cup {Nil}
    BY <1>5
  <2>2. \A b \in D : blocks[b].size > 0
    BY <1>4
  <2>3. \A a \in live : a.block \in D
    BY <1>8
  <2> QED BY <1>4, <2>1, <2>2, <2>3 DEF HeapTypeOK, D
<1>12. LinksAgree
  <2>1. \A b \in D : /\ blocks[b].next = Nil <=> b = tail
                     /\ blocks[b].next # Nil => blocks[blocks[b].next].prev = b
                     /\ blocks[b].prev = Nil <=> b = HeapHead
    BY <1>4, <1>5
  <2> QED BY <1>10, <2>1 DEF LinksAgree, D
<1>13. Tiling
  <2>1. ASSUME NEW b \in D PROVE Extent(b) = b..(EndOf(l, b) - 1)
    <3> DEFINE s == blocks[b].size
    <3>1. Extent(b) = b..(b + Hdr + s - 1) /\ EndOf(l, b) = b + Hdr + s
      BY <1>6 DEF Extent
    <3>2. b \in Nat /\ Hdr \in Nat /\ s \in Nat
      BY <1>4
    <3> HIDE DEF s
    <3> QED BY <3>1, <3>2
  <2>2. UNION {Extent(b) : b \in D} \subseteq arena
    <3> SUFFICES ASSUME NEW b \in D, NEW w \in Extent(b) PROVE w \in 0..(e - 1)
      BY <1>1
    <3>1. w \in b..(EndOf(l, b) - 1) /\ b \in Nat /\ EndOf(l, b) \in Nat /\ EndOf(l, b) <= e
      BY <1>4, <1>7, <2>1
    <3> QED BY <3>1
  <2>3. arena \subseteq UNION {Extent(b) : b \in D}
    <3> SUFFICES ASSUME NEW w \in 0..(e - 1) PROVE \E b \in D : w \in Extent(b)
      BY <1>1
    <3>1. PICK b \in D : b <= w /\ w < EndOf(l, b)
      BY <1>7
    <3>2. b \in Nat /\ EndOf(l, b) \in Nat
      BY <1>4
    <3>3. w \in b..(EndOf(l, b) - 1)
      BY <3>1, <3>2
    <3> QED BY <2>1, <3>3
  <2>4. ASSUME NEW b \in D, NEW c \in D, b # c PROVE Extent(b) \cap Extent(c) = {}
    <3>1. b \in Nat /\ c \in Nat /\ EndOf(l, b) \in Nat /\ EndOf(l, c) \in Nat
      BY <1>4
    <3>2. EndOf(l, b) <= c \/ EndOf(l, c) <= b
      BY <1>7, <2>4, <3>1
    <3>3. b..(EndOf(l, b) - 1) \cap c..(EndOf(l, c) - 1) = {}
      BY <3>1, <3>2
    <3> QED BY <2>1, <3>3
  <2> QED BY <2>2, <2>3, <2>4 DEF Tiling, D
<1>14. LiveHeld /\ LostIsErased
  BY <1>8 DEF LiveHeld, LostIsErased, D
<1>15. NoFreeNeighbours
  <2> SUFFICES ASSUME NEW b \in D, blocks[b].free, blocks[b].next # Nil
               PROVE  ~blocks[blocks[b].next].free
    BY DEF NoFreeNeighbours, D
  <2>1. b # tail /\ blocks[b].next = EndOf(l, b)
    BY <1>5
  <2> QED BY <1>9, <2>1
<1> QED BY <1>11, <1>12, <1>13, <1>14, <1>15 DEF HeapSound

(* As long as the pages the heap grows by follow those it has, its list is one *)
(* tiling of its memory, walked whole from HeapHead; each allocation has one   *)
(* used block, large enough; no two free blocks touch; and a used block that   *)
(* belongs to nobody has lost its Magic: through every split, merge, growth    *)
(* and aligned free, for any page size, header, limit and request sizes.       *)
THEOREM HeapSoundAlways == ASSUME ~GrowsApart PROVE HeapSpec => []HeapSound
<1>1. HeapInit => HeapInv
  BY HeapAssumption, HeapInitInv
<1>2. HeapInv /\ [HeapNext]_heapVars => HeapInv'
  BY HeapAssumption, HeapNextInv
<1>3. HeapInv => HeapSound
  BY HeapAssumption, HeapInvSound
<1> QED BY <1>1, <1>2, <1>3, PTL DEF HeapSpec
==============================================================================

--------------------------------- MODULE Heap ---------------------------------
(* The kernel heap (Mem/Allocator.c): blocks with headers in one list, first   *)
(* fit, split and coalesce.  Every call is one step, under GHeapLock.  Memory  *)
(* is counted in words of ALIGN bytes; a header starts with its Magic, then    *)
(* its Canary, a word each.                                                    *)
EXTENDS Integers, FiniteSets

CONSTANTS Words,        \* words of the machine's memory
          PageWords,    \* PAGE_SIZE
          InitialPages, \* HEAP_INITIAL_SIZE
          MaxPages,     \* HEAP_MAX_SIZE
          Hdr,          \* sizeof(BlockHeader), 6 words in the code
          Request,      \* bound: the sizes MemoryAllocate is asked for
          TaskWords,    \* sizeof(Task), the only thing allocated aligned
          GrowsApart,   \* may new pages be anywhere, or only after the last ones
          Nil

Word == 0..(Words - 1)

ASSUME HeapAssumption ==
  /\ {Words, PageWords, InitialPages, MaxPages, TaskWords} \subseteq Nat \ {0}
  /\ Hdr \in Nat /\ Hdr > 2 /\ Request \subseteq Nat \ {0}
  /\ InitialPages * PageWords <= Words /\ Hdr < InitialPages * PageWords
  /\ GrowsApart \in BOOLEAN /\ Nil \notin Word

VARIABLES blocks, \* the headers in the list, by address
          tail,   \* HeapTail
          arena,  \* the words the heap has got from PhysAlloc
          live    \* what callers hold: the block of each allocation, and its size

heapVars == <<blocks, tail, arena, live>>

HeapHead == 0
Header(size, prev, next) ==
  [magic |-> TRUE, canary |-> TRUE, free |-> TRUE, size |-> size, prev |-> prev, next |-> next]

(* MemoryAllocatorInit *)
HeapInit ==
  /\ arena = 0..(InitialPages * PageWords - 1)
  /\ blocks = [b \in {HeapHead} |-> Header(InitialPages * PageWords - Hdr, Nil, Nil)]
  /\ tail = HeapHead
  /\ live = {}
------------------------------------------------------------------------------
(* A list: its headers and its end.  The first block of the list that fits. *)
Nth(l) ==
  LET nth[n \in Nat] ==
        IF n = 0 THEN HeapHead ELSE IF nth[n - 1] = Nil THEN Nil ELSE l.at[nth[n - 1]].next
  IN  nth
Reach(l) == {b \in DOMAIN l.at : \E n \in 0..Cardinality(DOMAIN l.at) : Nth(l)[n] = b}
Fit(h, size) == h.free /\ h.size >= size
FindFit(l, size) ==
  LET fits(n) == Nth(l)[n] # Nil /\ Fit(l.at[Nth(l)[n]], size)
      Ns == {n \in 0..(Cardinality(DOMAIN l.at) - 1) : fits(n)}
  IN  IF Ns = {} THEN Nil ELSE Nth(l)[CHOOSE n \in Ns : \A m \in Ns : n <= m]

With(at, b, h) == [x \in DOMAIN at \cup {b} |-> IF x = b THEN h ELSE at[x]]
Without(at, b) == [x \in DOMAIN at \ {b} |-> at[x]]
SetPrev(at, b, p) == IF b = Nil THEN at ELSE [at EXCEPT ![b].prev = p]

(* SplitBlockLocked.  MIN_SPLIT_SIZE is a header and one word. *)
MinSplit == Hdr + 1
SplitBlock(l, b, req) ==
  LET h == l.at[b]
      new == b + Hdr + req
      at1 == SetPrev(l.at, h.next, new)
      at2 == [at1 EXCEPT ![b].next = new, ![b].size = req]
  IN  IF h.size < req + MinSplit THEN l
      ELSE [at |-> With(at2, new, Header(h.size - req - Hdr, b, h.next)),
            end |-> IF l.end = b THEN new ELSE l.end]

(* CoalesceLocked: b takes the next block of the list, then the previous one   *)
(* takes b.                                                                    *)
Swallow(l, b) ==
  LET n == l.at[b].next
      at1 == [l.at EXCEPT ![b].size = @ + Hdr + l.at[n].size, ![b].next = l.at[n].next]
  IN  [at |-> Without(SetPrev(at1, l.at[n].next, b), n),
       end |-> IF l.end = n THEN b ELSE l.end]
FreeAt(l, b) == b # Nil /\ l.at[b].free
CoalesceForward(l, b) == IF FreeAt(l, l.at[b].next) THEN Swallow(l, b) ELSE l
Coalesce(l, b) ==
  LET l1 == IF FreeAt(l, l.at[b].next) THEN Swallow(l, b) ELSE l
      p == l1.at[b].prev
  IN  IF FreeAt(l1, p) THEN Swallow(l1, p) ELSE l1

List == [at |-> blocks, end |-> tail]
Become(l) == blocks' = l.at /\ tail' = l.end

(* MemoryAllocateLocked: the fit is split and marked.  Its Magic is not        *)
(* written again.                                                              *)
Taken(l, b, size) ==
  LET l1 == SplitBlock(l, b, size)
  IN  [l1 EXCEPT !.at[b].free = FALSE, !.at[b].canary = TRUE]

(* HeapExpandLocked: pages from PhysAlloc, one new block at the end of the     *)
(* list.                                                                       *)
PagesFor(size) == (size + Hdr + PageWords - 1) \div PageWords
Expanded(l, b, words) ==
  [at |-> With([l.at EXCEPT ![l.end].next = b], b, Header(words - Hdr, l.end, Nil)), end |-> b]
CanExpand(size) == Cardinality(arena) + PagesFor(size) * PageWords <= MaxPages * PageWords
NewPages(size, b) ==
  LET ws == b..(b + PagesFor(size) * PageWords - 1)
  IN  /\ b % PageWords = 0 /\ ws \subseteq Word \ arena
      /\ GrowsApart \/ b - 1 \in arena

Allocate(size, kind) ==
  LET fit == FindFit(List, size)
  IN  \/ /\ fit # Nil
         /\ Become(Taken(List, fit, size))
         /\ live' = live \cup {[block |-> fit, kind |-> kind, size |-> size]}
         /\ UNCHANGED arena
      \/ /\ fit = Nil /\ CanExpand(size)
         /\ \E b \in Word :
              LET words == PagesFor(size) * PageWords
              IN  /\ NewPages(size, b)
                  /\ Become(Taken(Expanded(List, b, words), b, size))
                  /\ arena' = arena \cup b..(b + words - 1)
                  /\ live' = live \cup {[block |-> b, kind |-> kind, size |-> size]}

MemoryAllocate(size) == Allocate(size, "plain")

(* Align 16: room for the pointer kept before the result, and for moving it.   *)
AlignedWords == TaskWords + 3
MemoryAllocateAligned == Allocate(AlignedWords, "aligned")

(* How far the result is from the start of the payload. *)
Shift(b) == IF (b + Hdr) % 2 = 0 THEN 2 ELSE 1

(* MemoryFreeLocked does nothing to a block whose header is not intact. *)
Intact(l, b) == l.at[b].magic /\ l.at[b].canary /\ ~l.at[b].free
Freed(l, b) == IF Intact(l, b) THEN Coalesce([l EXCEPT !.at[b].free = TRUE], b) ELSE l

MemoryFree(a) ==
  /\ a.kind = "plain"
  /\ Become(Freed(List, a.block))
  /\ live' = live \ {a} /\ UNCHANGED arena

(* MemoryFreeAligned zeroes as many words as the payload has, but from the     *)
(* moved pointer: the first one or two words behind the block go too.          *)
Erased(l, b) ==
  LET e == b + Hdr + l.at[b].size
  IN  IF e \notin DOMAIN l.at \/ ~l.at[b].magic THEN l
      ELSE [l EXCEPT !.at[e].magic = FALSE, !.at[e].canary = @ /\ Shift(b) < 2]

MemoryFreeAligned(a) ==
  /\ a.kind = "aligned"
  /\ Become(Freed(Erased(List, a.block), a.block))
  /\ live' = live \ {a} /\ UNCHANGED arena

HeapNext ==
  \/ \E size \in Request : MemoryAllocate(size)
  \/ MemoryAllocateAligned
  \/ \E a \in live : MemoryFree(a) \/ MemoryFreeAligned(a)

HeapSpec == HeapInit /\ [][HeapNext]_heapVars
------------------------------------------------------------------------------
(* Types of the list.  No block is too small to be one. *)
HeapTypeOK ==
  /\ HeapHead \in DOMAIN blocks /\ DOMAIN blocks \subseteq Word /\ tail \in DOMAIN blocks
  /\ \A b \in DOMAIN blocks :
       /\ blocks[b].size > 0
       /\ {blocks[b].prev, blocks[b].next} \subseteq DOMAIN blocks \cup {Nil}
  /\ \A a \in live : a.block \in DOMAIN blocks

(* The list is one: Prev undoes Next, HeapTail is its end, and every block is  *)
(* reached from HeapHead, through splits and merges at both ends and in the    *)
(* middle.  A wrong HeapTail loses all that HeapExpandLocked adds.             *)
LinksAgree ==
  /\ Reach(List) = DOMAIN blocks
  /\ \A b \in DOMAIN blocks :
       /\ blocks[b].next = Nil <=> b = tail
       /\ blocks[b].next # Nil => blocks[blocks[b].next].prev = b
       /\ blocks[b].prev = Nil <=> b = HeapHead

Extent(b) == b..(b + Hdr + blocks[b].size - 1)

(* The blocks cover the heap's memory without a gap, and no block reaches      *)
(* into another or beyond: sizes survive every split, merge and growth.        *)
Tiling ==
  /\ UNION {Extent(b) : b \in DOMAIN blocks} = arena
  /\ \A b, c \in DOMAIN blocks : b # c => Extent(b) \cap Extent(c) = {}

(* Each allocation has a used block of its own that is large enough, until it  *)
(* is freed; a block is never handed out twice.                                *)
LiveHeld ==
  /\ \A a \in live : ~blocks[a.block].free /\ blocks[a.block].size >= a.size
  /\ \A a, c \in live : a.block = c.block => a = c

(* Two free blocks are never neighbours, so memory freed can be found again as *)
(* a whole: merging goes both ways, and a growth leaves no seam.               *)
NoFreeNeighbours ==
  \A b \in DOMAIN blocks :
    blocks[b].free /\ blocks[b].next # Nil => ~blocks[blocks[b].next].free

(* Used bytes are bytes in use (KMemoryStats.UsedPayload, Allocator.h): a      *)
(* block that is used belongs to an allocation.                                *)
UsedIsLive == \A b \in DOMAIN blocks : blocks[b].free \/ \E a \in live : a.block = b

(* What is left of it: a block can only be lost with an erased header.         *)
LostIsErased ==
  \A b \in DOMAIN blocks : ~blocks[b].free /\ blocks[b].magic => \E a \in live : a.block = b

(* The list of blocks is one tiling of the heap's memory, and every allocation *)
(* holds exactly one block of it: all of the above.                            *)
HeapSound ==
  /\ HeapTypeOK /\ LinksAgree /\ Tiling
  /\ LiveHeld /\ NoFreeNeighbours /\ LostIsErased
==============================================================================

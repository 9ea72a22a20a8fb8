------------------------------ MODULE PageCache ------------------------------
(* The page cache between the file systems and the disk drivers                *)
(* (Source/Mem/PageCache.c).  Every section under GPCache.Lock is one step,    *)
(* and so is every transfer, which the code makes with the lock released.  The *)
(* page's own lock is held by a copy (the steps "copy" and "mark") and by a    *)
(* flush, but not by the write-back thread.  A page of SectorsPerPage sectors  *)
(* is named by its first one.  The disk is the driver's, and external.         *)
EXTENDS Integers, Sequences, SequencesExt, FiniteSets

CONSTANTS User,           \* threads that read, write and flush
          Wb,             \* the write-back thread
          Buf,            \* PCachePage structures, as the heap hands them out
          Sectors,        \* Disk.SectorCount
          SectorsPerPage, \* PCACHE_PAGE_SIZE / Disk.SectorSize
          Data, NoData,
          NoBuf,
          Batch,          \* PCACHE_WRITEBACK_BATCH
          Setups          \* which threads, requests and faults there are

(* A request is for a sector at least, and inside the disk. *)
PageCacheAssumption ==
  /\ Sectors \in Nat \ {0} /\ SectorsPerPage \in Nat \ {0} /\ Batch \in Nat
  /\ Wb \notin User /\ NoBuf \notin Buf /\ Data # {} /\ IsFiniteSet(User)
  /\ Setups \subseteq [users : SUBSET User, wb : BOOLEAN, flush : BOOLEAN, size : Nat,
                       requests : SUBSET {r \in (0..Sectors) \X (0..Sectors) : r[1] < r[2]},
                       faults : SUBSET {"read", "write", "alloc"}]

VARIABLES setup,   \* one of Setups
          disk,    \* what the disk's sectors hold
          page,    \* the page structures; life says whether one is allocated
          lru,     \* GPCache.Lru, the freshest first
          dirties, \* GPCache.DirtyList, the last one added first
          pageCount, dirtyCount,  \* GPCache.PageCount, GPCache.DirtyCount
          loc,     \* the locals of every thread
          answer   \* what each user's request has read so far

cacheVars == <<setup, disk, page, lru, dirties, pageCount, dirtyCount, loc, answer>>
lists == <<lru, dirties, pageCount, dirtyCount>>

Thread == User \cup {Wb}
Lba == 0..(Sectors - 1)
PageLba(s) == (s \div SectorsPerPage) * SectorsPerPage
InPage(l) == l..(l + SectorsPerPage - 1)
Min2(a, b) == IF a < b THEN a ELSE b

Ended(how) == [pc |-> "idle", op |-> how, cur |-> 0, end |-> 0, val |-> NoData,
               page |-> NoBuf, tries |-> 0, next |-> NoBuf, pass |-> 0, flushed |-> 0]

(* MemSet to zero; PCacheAllocPage. *)
NoPage == [life |-> "free", lba |-> 0, ref |-> 0, dirty |-> FALSE, wb |-> FALSE,
           data |-> [s \in {} |-> NoData]]

CacheInit ==
  /\ setup \in Setups
  /\ disk \in [Lba -> {CHOOSE d \in Data : TRUE}]
  /\ page = [b \in Buf |-> NoPage]
  /\ lru = <<>> /\ dirties = <<>> /\ pageCount = 0 /\ dirtyCount = 0
  /\ loc = [t \in Thread |-> Ended("done")]
  /\ answer = [u \in User |-> [s \in Lba |-> NoData]]

(* The pages the hash finds for a block: those on the LRU list are hashed. *)
Hashed(l) == {b \in Buf : page[b].life = "cached" /\ page[b].lba = l}

(* ListDel: a page is once on a list. *)
Without(list, b) == RemoveFirst(list, b)
Goto(t, pc) == loc' = [loc EXCEPT ![t].pc = pc]
MayFail(what) == {TRUE} \cup (IF what \in setup.faults THEN {FALSE} ELSE {})
------------------------------------------------------------------------------
(* Reads and writes.  A user asks for the sectors from lo up to hi.            *)
Request(u, op, lo, hi, v) ==
  /\ u \in setup.users /\ loc[u].pc = "idle"
  /\ <<lo, hi>> \in setup.requests
  /\ loc' = [loc EXCEPT ![u] = [Ended(op) EXCEPT !.pc = "lookup", !.cur = lo,
                                                 !.end = hi, !.val = v]]
  /\ answer' = [answer EXCEPT ![u] = [s \in Lba |-> NoData]]
  /\ UNCHANGED <<setup, disk, page, lists>>

(* A page found in the hash: one more user, and the freshest of the list.      *)
Use(b) == /\ page' = [page EXCEPT ![b].ref = @ + 1]
          /\ lru' = <<b>> \o Without(lru, b)

(* PCacheGetPage, first look. *)
GetCached(u, b) ==
  /\ loc[u].pc = "lookup" /\ b \in Hashed(PageLba(loc[u].cur))
  /\ Use(b)
  /\ loc' = [loc EXCEPT ![u].pc = "copy", ![u].page = b]
  /\ UNCHANGED <<setup, disk, dirties, pageCount, dirtyCount, answer>>

Miss(u) ==
  /\ loc[u].pc = "lookup" /\ Hashed(PageLba(loc[u].cur)) = {}
  /\ loc' = [loc EXCEPT ![u].pc = "room", ![u].tries = 0]
  /\ UNCHANGED <<setup, disk, page, lists, answer>>

(* PCacheEnsureRoom: PageCount is read without the lock. *)
EnsureRoom(u) ==
  /\ loc[u].pc = "room"
  /\ Goto(u, IF pageCount < setup.size THEN "alloc"
             ELSE IF loc[u].tries > setup.size * 2 \/ setup.size = 0 THEN "direct"
             ELSE "victim")
  /\ UNCHANGED <<setup, disk, page, lists, answer>>

(* PCacheFindVictim: the oldest page nobody uses or writes back. *)
Idle(b) == page[b].ref = 0 /\ ~page[b].wb
Victims == {i \in 1..Len(lru) : Idle(lru[i])}
Oldest == {lru[i] : i \in {j \in Victims : \A k \in Victims : k <= j}}

(* PCacheEvictOne, under the lock: the page leaves the hash and both lists. *)
EvictOne(u) ==
  /\ loc[u].pc = "victim"
  /\ IF Victims = {}
     THEN /\ Goto(u, IF pageCount >= setup.size THEN "direct" ELSE "room")
          /\ UNCHANGED <<page, lists>>
     ELSE \E v \in Oldest :
              /\ page' = [page EXCEPT ![v].life = "evicted", ![v].ref = 1, ![v].wb = TRUE]
              /\ lru' = Without(lru, v) /\ pageCount' = pageCount - 1
              /\ dirties' = Without(dirties, v)
              /\ dirtyCount' = dirtyCount - (IF page[v].dirty THEN 1 ELSE 0)
              /\ loc' = [loc EXCEPT ![u].pc = "evict", ![u].page = v, ![u].tries = @ + 1]
  /\ UNCHANGED <<setup, disk, answer>>

Stored(b) == [s \in Lba |-> IF s \in DOMAIN page[b].data THEN page[b].data[s] ELSE disk[s]]

(* ... and without it: a dirty page is written, or its write fails; either way *)
(* it is freed.                                                                *)
EvictedUnwritten(b, ok) == disk
Evicted(b, ok) == IF page[b].dirty /\ ok THEN Stored(b) ELSE disk
EvictWrite(u) ==
  /\ loc[u].pc = "evict"
  /\ \E ok \in MayFail("write") : disk' = Evicted(loc[u].page, ok)
  /\ page' = [page EXCEPT ![loc[u].page] = NoPage]
  /\ loc' = [loc EXCEPT ![u].pc = "room", ![u].page = NoBuf]
  /\ UNCHANGED <<setup, lists, answer>>

(* PCacheAllocPage, if there is memory, and the disk's sectors into the new    *)
(* page.  The driver refuses a page that reaches beyond the end of the disk.   *)
Unallocated == {b \in Buf : page[b].life = "free"}

AllocPage(u) ==
  /\ loc[u].pc = "alloc"
  /\ \E ok \in MayFail("alloc") :
       IF ok /\ Unallocated # {}
       THEN LET new == CHOOSE b \in Unallocated : TRUE
            IN  /\ page' = [page EXCEPT ![new].life = "private",
                                        ![new].lba = PageLba(loc[u].cur)]
                /\ loc' = [loc EXCEPT ![u].pc = "fill", ![u].page = new]
       ELSE /\ Goto(u, "direct")
            /\ UNCHANGED page
  /\ UNCHANGED <<setup, disk, lists, answer>>

FillPage(u) ==
  LET b == loc[u].page
  IN  /\ loc[u].pc = "fill"
      /\ \E ok \in MayFail("read") :
           IF ok /\ InPage(page[b].lba) \subseteq Lba
           THEN /\ page' = [page EXCEPT ![b].data = [s \in InPage(page[b].lba) |-> disk[s]]]
                /\ Goto(u, "insert")
           ELSE /\ page' = [page EXCEPT ![b] = NoPage]
                /\ loc' = [loc EXCEPT ![u].pc = "direct", ![u].page = NoBuf]
      /\ UNCHANGED <<setup, disk, lists, answer>>

(* PCacheGetPage, second look: another thread may have inserted the block.     *)
RecheckMissing(l) == {}
Recheck(l) == Hashed(l)

InsertPage(u) ==
  LET new == loc[u].page
      found == Recheck(page[new].lba)
  IN  /\ loc[u].pc = "insert"
      /\ IF found = {}
         THEN /\ page' = [page EXCEPT ![new].life = "cached", ![new].ref = 1]
              /\ lru' = <<new>> \o lru
              /\ pageCount' = pageCount + 1
              /\ Goto(u, "copy")
         ELSE \E b \in found :
              /\ page' = [page EXCEPT ![b].ref = @ + 1, ![new] = NoPage]
              /\ lru' = <<b>> \o Without(lru, b)
              /\ loc' = [loc EXCEPT ![u].pc = "copy", ![u].page = b]
              /\ UNCHANGED pageCount
      /\ UNCHANGED <<setup, disk, dirties, dirtyCount, answer>>
------------------------------------------------------------------------------
(* The bytes of the request that are on the page, up to its end or the page's. *)
Chunk(u) == loc[u].cur..(Min2(loc[u].end, page[loc[u].page].lba + SectorsPerPage) - 1)
AfterChunk(u) == Min2(loc[u].end, page[loc[u].page].lba + SectorsPerPage)
PageUnlocked(b) == \A t \in Thread : loc[t].pc = "mark" => loc[t].page # b

CopyOut(u) ==
  /\ loc[u].pc = "copy" /\ loc[u].op = "read" /\ PageUnlocked(loc[u].page)
  /\ answer' = [answer EXCEPT ![u] = [s \in Lba |->
                  IF s \in Chunk(u) THEN page[loc[u].page].data[s] ELSE @[s]]]
  /\ loc' = [loc EXCEPT ![u].pc = "release", ![u].cur = AfterChunk(u)]
  /\ UNCHANGED <<setup, disk, page, lists>>

CopyIn(u) ==
  /\ loc[u].pc = "copy" /\ loc[u].op = "write" /\ PageUnlocked(loc[u].page)
  /\ page' = [page EXCEPT ![loc[u].page].data =
                [s \in DOMAIN @ |-> IF s \in Chunk(u) THEN loc[u].val ELSE @[s]]]
  /\ loc' = [loc EXCEPT ![u].pc = "mark", ![u].cur = AfterChunk(u)]
  /\ UNCHANGED <<setup, disk, lists, answer>>

MarkDirty(u) ==
  LET b == loc[u].page
  IN  /\ loc[u].pc = "mark"
      /\ IF page[b].dirty
         THEN UNCHANGED <<page, dirties, dirtyCount>>
         ELSE /\ page' = [page EXCEPT ![b].dirty = TRUE]
              /\ dirties' = <<b>> \o dirties
              /\ dirtyCount' = dirtyCount + 1
      /\ Goto(u, "release")
      /\ UNCHANGED <<setup, disk, lru, pageCount, answer>>

(* PCacheRelease, and the next page of the request, or its end. *)
Release(u) ==
  /\ loc[u].pc = "release"
  /\ page' = [page EXCEPT ![loc[u].page].ref = IF @ > 0 THEN @ - 1 ELSE 0]
  /\ loc' = [loc EXCEPT ![u] = IF @.cur < @.end
                               THEN [@ EXCEPT !.pc = "lookup", !.page = NoBuf]
                               ELSE Ended("done")]
  /\ UNCHANGED <<setup, disk, lists, answer>>

(* No page to be had: the rest of the request goes to the disk itself (128     *)
(* sectors at a time, more than a request of the runs).                        *)
Direct(u) ==
  LET rest == loc[u].cur..(loc[u].end - 1)
  IN  /\ loc[u].pc = "direct"
      /\ \E ok \in MayFail(loc[u].op) :
           IF ~ok
           THEN /\ loc' = [loc EXCEPT ![u] = Ended("failed")]
                /\ UNCHANGED <<disk, answer>>
           ELSE /\ loc' = [loc EXCEPT ![u].pc = "finish", ![u].cur = loc[u].end]
                /\ IF loc[u].op = "read"
                   THEN /\ answer' = [answer EXCEPT ![u] =
                             [s \in Lba |-> IF s \in rest THEN disk[s] ELSE @[s]]]
                        /\ UNCHANGED disk
                   ELSE /\ disk' = [s \in Lba |-> IF s \in rest THEN loc[u].val ELSE disk[s]]
                        /\ UNCHANGED answer
      /\ UNCHANGED <<setup, page, lists>>

Finish(u) ==
  /\ loc[u].pc = "finish"
  /\ loc' = [loc EXCEPT ![u] = Ended("done")]
  /\ UNCHANGED <<setup, disk, page, lists, answer>>
------------------------------------------------------------------------------
(* The two loops over the dirty list.  Each saves the next entry before it     *)
(* releases the lock to write the page.  PowerFlush flushes all, twice if      *)
(* something stayed dirty; the write-back thread stops after a batch.          *)
FlushAll(u) ==
  /\ u \in setup.users /\ setup.flush /\ loc[u].pc = "idle"
  /\ loc' = [loc EXCEPT ![u] = [Ended(@.op) EXCEPT !.pc = "scan",
                 !.next = IF dirties = <<>> THEN NoBuf ELSE Head(dirties)]]
  /\ UNCHANGED <<setup, disk, page, lists, answer>>

WritebackWakes ==
  /\ setup.wb /\ loc[Wb].pc = "idle"
  /\ loc' = [loc EXCEPT ![Wb] = [Ended("done") EXCEPT !.pc = "scan",
                 !.next = IF dirties = <<>> THEN NoBuf ELSE Head(dirties)]]
  /\ UNCHANGED <<setup, disk, page, lists, answer>>

(* The pages still to be visited; a saved entry that another thread has taken  *)
(* off the list leads nowhere.                                                 *)
Onward(t) == {i \in DOMAIN dirties : \E j \in 1..i : dirties[j] = loc[t].next}
OnList(t) == loc[t].next = NoBuf \/ loc[t].next \in Range(dirties)

(* Under the lock: skip the pages in use, claim the first other one. *)
Claim(t) ==
  LET can == {i \in Onward(t) : Idle(dirties[i])}
  IN  /\ loc[t].pc = "scan" /\ OnList(t)
      /\ IF can = {} \/ (t = Wb /\ loc[t].flushed >= Batch)
         THEN /\ Goto(t, "scanned")
              /\ UNCHANGED page
         ELSE \E i \in can :
              /\ \A j \in can : i <= j
              /\ page' = [page EXCEPT ![dirties[i]].ref = 1, ![dirties[i]].wb = TRUE]
              /\ loc' = [loc EXCEPT ![t].pc = "put", ![t].page = dirties[i],
                           ![t].next = IF i < Len(dirties) THEN dirties[i + 1] ELSE NoBuf]
      /\ UNCHANGED <<setup, disk, lists, answer>>

(* Without it: the page goes to the disk, or does not. *)
PutPage(t) ==
  /\ loc[t].pc = "put"
  /\ t = Wb \/ PageUnlocked(loc[t].page)
  /\ \E ok \in MayFail("write") :
       /\ disk' = IF ok THEN Stored(loc[t].page) ELSE disk
       /\ Goto(t, IF ok THEN "clean" ELSE "keep")
  /\ UNCHANGED <<setup, page, lists, answer>>

(* Under it again: the page is clean, whoever wrote to it or uses it. *)
Cleaned(p) == [p EXCEPT !.dirty = FALSE, !.wb = FALSE, !.ref = 0]

MarkClean(t) ==
  /\ loc[t].pc = "clean"
  /\ page' = [page EXCEPT ![loc[t].page] = Cleaned(@)]
  /\ dirties' = Without(dirties, loc[t].page)
  /\ dirtyCount' = dirtyCount - 1
  /\ loc' = [loc EXCEPT ![t].pc = "scan", ![t].page = NoBuf, ![t].flushed = @ + 1]
  /\ UNCHANGED <<setup, disk, lru, pageCount, answer>>

KeepDirty(t) ==
  /\ loc[t].pc = "keep"
  /\ page' = [page EXCEPT ![loc[t].page].wb = FALSE, ![loc[t].page].ref = 0]
  /\ loc' = [loc EXCEPT ![t].pc = "scan", ![t].page = NoBuf]
  /\ UNCHANGED <<setup, disk, lists, answer>>

EndScan(t) ==
  /\ loc[t].pc = "scanned"
  /\ loc' = [loc EXCEPT ![t] =
       IF t # Wb /\ @.pass = 0 /\ dirtyCount > 0
       THEN [@ EXCEPT !.pc = "scan", !.pass = 1,
                      !.next = IF dirties = <<>> THEN NoBuf ELSE Head(dirties)]
       ELSE Ended(@.op)]
  /\ UNCHANGED <<setup, disk, page, lists, answer>>
------------------------------------------------------------------------------
Access(u) == \/ \E b \in Buf : GetCached(u, b)
             \/ Miss(u) \/ EnsureRoom(u) \/ EvictOne(u) \/ EvictWrite(u)
             \/ AllocPage(u) \/ FillPage(u) \/ InsertPage(u)
             \/ CopyOut(u) \/ CopyIn(u) \/ MarkDirty(u) \/ Release(u)
             \/ Direct(u) \/ Finish(u)

CacheNext ==
  \/ \E u \in User :
       \/ \E r \in setup.requests : Request(u, "read", r[1], r[2], NoData)
       \/ \E r \in setup.requests, v \in Data : Request(u, "write", r[1], r[2], v)
       \/ Access(u) \/ FlushAll(u)
  \/ WritebackWakes
  \/ \E t \in Thread : Claim(t) \/ PutPage(t) \/ MarkClean(t) \/ KeepDirty(t) \/ EndScan(t)

CacheSpec == CacheInit /\ [][CacheNext]_cacheVars
------------------------------------------------------------------------------
(* The structures, lists and locals keep their types. *)
CacheTypeOK ==
  /\ disk \in [Lba -> Data]
  /\ \A b \in Buf : /\ page[b].life \in {"free", "private", "cached", "evicted"}
                    /\ page[b].ref \in Nat /\ page[b].lba \in Lba
                    /\ page[b].dirty \in BOOLEAN /\ page[b].wb \in BOOLEAN
  /\ lru \in Seq(Buf) /\ dirties \in Seq(Buf) /\ pageCount \in Nat /\ dirtyCount \in Nat
  /\ \A t \in Thread : loc[t].page \in Buf \cup {NoBuf} /\ loc[t].cur \in 0..Sectors

(* The hash, both lists, the flags and the counters agree at every moment:     *)
(* a block has one page however many threads miss it at once, an evicted page  *)
(* is on no list, and a dirty page is on the dirty list once.                  *)
ListsAgree ==
  /\ \A a, b \in Buf : (page[a].life = "cached" /\ page[b].life = "cached" /\ a # b)
                         => page[a].lba # page[b].lba
  /\ Range(lru) = {b \in Buf : page[b].life = "cached"} /\ IsInjective(lru)
  /\ Range(dirties) = {b \in Range(lru) : page[b].dirty} /\ IsInjective(dirties)
  /\ pageCount = Len(lru) /\ dirtyCount = Len(dirties)

(* A page that is not dirty holds what the disk holds, so that an eviction may *)
(* drop it; with the write-back thread at work only while it is not writing.   *)
CleanIsOnDisk ==
  ~setup.wb => \A b \in Range(lru) :
     (~page[b].dirty /\ PageUnlocked(b)) => page[b].data = [s \in InPage(page[b].lba) |-> disk[s]]

(* The cache agrees with itself and, where a page is clean, with the disk,     *)
(* over states of the right types.                                             *)
CacheSound == CacheTypeOK /\ ListsAgree /\ CleanIsOnDisk

(* What a reader must see: the cached page, or the one on its way out, or the  *)
(* disk.                                                                       *)
Current == [s \in Lba |->
  LET holds == {b \in Buf : page[b].life \in {"cached", "evicted"} /\ page[b].lba = PageLba(s)}
  IN  IF holds = {} THEN disk[s] ELSE page[CHOOSE b \in holds : TRUE].data[s]]

Pending == [u \in User |-> [op |-> loc[u].op, cur |-> loc[u].cur, end |-> loc[u].end,
                            val |-> loc[u].val]]

Store == INSTANCE BlockStore WITH stored <- Current, request <- Pending

(* Reads return the last write, through hits, misses, evictions, flushes and   *)
(* the write-back of pages: the cache implements a plain disk.                 *)
CacheIsStore == Store!StoreSpec
=============================================================================

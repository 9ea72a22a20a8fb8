-------------------------------- MODULE Fat32 --------------------------------
(* A FAT32 volume (Source/Fs/Fat32.c): the FAT kept in memory while it is      *)
(* mounted, the directories on the disk, and the inodes that open files hold.  *)
(* One call follows another.  What the bytes of a file are is left out, but    *)
(* not where they go; a path names a directory under the root at most.         *)
EXTENDS Integers, Sequences, SequencesExt, FiniteSets, FiniteSetsExt

CONSTANTS LastEntry,    \* FatEntries - 1: the FAT has room for these
          LastCluster,  \* the volume ends here: TotalClusters + 1
          Slots,        \* directory entries in a cluster
          ClusterSize,  \* bytes in a cluster
          Offset,       \* where in a file writes begin
          Name, Short,  \* names, and what Fat32NameToEntry makes of each
          IsLong,       \* the names that get a long name entry first
          Handle,       \* open files
          StartLba,     \* where the volume starts on its disk
          NoFile

VARIABLES image,   \* what is on the disk, at the volume's place and before it
          vol,     \* the Fat32 structure: FatCache, FsInfo, Dirty
          open,    \* the inodes of open files
          spoilt   \* ghost: a file was written after it was removed, or the
                   \* machine was switched off with the FAT not written

fatVars == <<image, vol, open, spoilt>>

Entry == 2..LastEntry
Stored == 2..LastCluster    \* clusters that have sectors on the disk
Root == 2
Free == 0
Eof == 1
NotMounted == [fat |-> <<>>, free |-> 0, next |-> 0, dirty |-> FALSE]
Mounted == vol # NotMounted

End == [st |-> "end", name |-> NoFile, first |-> 0, size |-> 0, isDir |-> FALSE]
Deleted == [End EXCEPT !.st = "deleted"]   \* what else it says is never read
Blank == [k \in 1..Slots |-> End]
Dots(c, parent) == [Blank EXCEPT
  ![1] = [st |-> "entry", name |-> ".", first |-> c, size |-> 0, isDir |-> TRUE],
  ![2] = [st |-> "entry", name |-> "..", first |-> parent, size |-> 0, isDir |-> TRUE]]

(* Every sector but those read by Fat32Mount is addressed from the beginning   *)
(* of the disk.                                                                *)
Place == IF StartLba = 0 THEN "volume" ELSE "before"
Dirs == image[Place].dirs
------------------------------------------------------------------------------
(* The FAT. *)
Fat32NextCluster(fat, c) == IF c \in Entry /\ fat[c] \in Entry THEN fat[c] ELSE Eof

RECURSIVE Chain(_, _)
Chain(fat, first) ==
  IF first \in Entry THEN <<first>> \o Chain(fat, Fat32NextCluster(fat, first)) ELSE <<>>

FreeOf(fat) == {c \in Entry : fat[c] = Free}
Full(v) == FreeOf(v.fat) = {}

(* Fat32AllocCluster: from NextFree on, and round. *)
Next(v) == LET later == {c \in FreeOf(v.fat) : c >= v.next}
           IN  Min(IF later # {} THEN later ELSE FreeOf(v.fat))

TakenUnmarked(v, c) == [v EXCEPT !.free = @ - 1, !.dirty = TRUE,
                                 !.next = IF c = LastEntry THEN 2 ELSE c + 1]

Taken(v, c) == [v EXCEPT !.fat[c] = Eof, !.free = @ - 1, !.dirty = TRUE,
                         !.next = IF c = LastEntry THEN 2 ELSE c + 1]

Fat32FreeClusterChain(v, first) ==
  LET chain == Chain(v.fat, first)
  IN  IF chain = <<>> THEN v
      ELSE [v EXCEPT !.fat = [c \in Entry |-> IF c \in ToSet(chain) THEN Free ELSE @[c]],
                     !.free = @ + Len(chain), !.dirty = TRUE]

(* A directory that is full gets a cluster more, linked after its last. *)
Extended(v, first) == LET c == Next(v)
                      IN  [Taken(v, c) EXCEPT !.fat[Last(Chain(v.fat, first))] = c]
------------------------------------------------------------------------------
(* A directory is the clusters of its chain, up to one that cannot be read;    *)
(* its entries are counted through them.  A lookup ends at one never used.     *)
Clusters(fat, first) ==
  LET chain == Chain(fat, first)
      lost == {k \in 1..Len(chain) : chain[k] \notin Stored}
  IN  IF lost = {} THEN chain ELSE SubSeq(chain, 1, Min(lost) - 1)

PlaceOf(clusters, k) == [c |-> clusters[((k - 1) \div Slots) + 1], off |-> ((k - 1) % Slots) + 1]
At(p) == Dirs[p.c][p.off]
Is(clusters, kinds) == {k \in 1..Len(clusters) * Slots : At(PlaceOf(clusters, k)).st \in kinds}

Visible(fat, first) ==
  LET clusters == Clusters(fat, first)
      ends == Is(clusters, {"end"})
      last == IF ends = {} THEN Len(clusters) * Slots ELSE Min(ends)
  IN  {PlaceOf(clusters, k) : k \in {j \in Is(clusters, {"entry"}) : j <= last}}

Named(fat, first, name) == {p \in Visible(fat, first) : At(p).name = name}

Fat32Lookup(fat, first, name) ==
  LET clusters == Clusters(fat, first)
      here == {k \in Is(clusters, {"entry"}) : At(PlaceOf(clusters, k)).name = name}
  IN  PlaceOf(clusters, Min(here))

FirstFree(clusters, slots) == PlaceOf(clusters, Min(slots))
FreeSlots(fat, first) == Is(Clusters(fat, first), {"end", "deleted"})

Unreadable(fat, first) == ~(ToSet(Chain(fat, first)) \subseteq Stored)

(* The directory a path leads to; NoFile is the root's. *)
Dir(path) == IF path = NoFile THEN Root ELSE At(Fat32Lookup(vol.fat, Root, path)).first
IsDir(path) == path = NoFile \/ /\ Named(vol.fat, Root, path) # {}
                                /\ At(Fat32Lookup(vol.fat, Root, path)).isDir

(* What a cluster of a directory is after a write; beyond the volume's end the *)
(* write fails, and no caller looks.                                           *)
Fat32WriteCluster(dirs, c, content) ==
  IF c \in Stored THEN [dirs EXCEPT ![c] = content] ELSE dirs

Store(dirs) == image' = [image EXCEPT ![Place].dirs = dirs]
------------------------------------------------------------------------------
(* Fat32Format: the FAT has more entries than there are clusters, and the free *)
(* count forgets that the root directory took one.                             *)
Formatted == [fat |-> [c \in Entry |-> IF c = Root THEN Eof ELSE Free],
              free |-> LastCluster - 1, next |-> 3,
              dirs |-> [c \in Stored |-> IF c = Root THEN Dots(Root, Root) ELSE Blank]]

(* The same with a file of two clusters that another system put there. *)
WithFile(name) == [Formatted EXCEPT
  !.fat[3] = 4, !.fat[4] = Eof, !.free = @ - 2, !.next = 5,
  !.dirs[Root][3] = [st |-> "entry", name |-> name, first |-> 3,
                     size |-> ClusterSize + 1, isDir |-> FALSE]]

Foreign == [fat |-> [c \in Entry |-> Free], free |-> 0, next |-> 0,
            dirs |-> [c \in Stored |-> Blank]]

FatInit ==
  /\ \E i \in {Formatted} \cup {WithFile(n) : n \in {Short[m] : m \in Name \ IsLong}} :
       image = [p \in {"volume", "before"} |-> IF p = "volume" THEN i ELSE Foreign]
  /\ vol = NotMounted /\ open = [h \in Handle |-> NoFile] /\ spoilt = FALSE

Fat32Mount ==
  /\ ~Mounted
  /\ vol' = [fat |-> image["volume"].fat, free |-> image["volume"].free,
             next |-> image["volume"].next, dirty |-> FALSE]
  /\ UNCHANGED <<image, open, spoilt>>

(* The FAT and FsInfo, if anything was allocated or freed since. *)
Written(v) == IF v.dirty THEN [image EXCEPT ![Place].fat = v.fat, ![Place].free = v.free,
                                            ![Place].next = v.next]
              ELSE image

(* Unmounting does not ask whether files are open; here they are closed. *)
Fat32Unmount ==
  /\ Mounted /\ \A h \in Handle : open[h] = NoFile
  /\ image' = Written(vol) /\ vol' = NotMounted
  /\ UNCHANGED <<open, spoilt>>

(* The machine is switched off: the disks' caches are flushed, no volume is    *)
(* unmounted.                                                                  *)
PowerOff ==
  /\ Mounted
  /\ vol' = NotMounted /\ open' = [h \in Handle |-> NoFile]
  /\ spoilt' = (spoilt \/ vol.dirty)
  /\ UNCHANGED image
------------------------------------------------------------------------------
(* A path that leads nowhere, or a name that is not or already there, ends the *)
(* call: FatNext gives the calls that go on.                                   *)
Paths == {path \in Name \cup {NoFile} : IsDir(path)}
Found(path) == {name \in Name : Named(vol.fat, Dir(path), name) # {}}

NewHandle(h) == h \in Handle /\ open[h] = NoFile

Opened(h, first, p, size) ==
  open' = [open EXCEPT ![h] = [first |-> first, at |-> p, size |-> size,
                               dirty |-> FALSE, gone |-> FALSE]]

VfsOpen(h, path, name) ==
  /\ Mounted /\ NewHandle(h)
  /\ LET p == Fat32Lookup(vol.fat, Dir(path), name)
     IN  ~At(p).isDir /\ Opened(h, At(p).first, p, At(p).size)
  /\ UNCHANGED <<image, vol, spoilt>>

(* VfsClose syncs a file that was written. *)
VfsClose(h) ==
  /\ Mounted /\ open[h] # NoFile
  /\ image' = IF open[h].dirty THEN Written(vol) ELSE image
  /\ vol' = IF open[h].dirty THEN [vol EXCEPT !.dirty = FALSE] ELSE vol
  /\ open' = [open EXCEPT ![h] = NoFile]
  /\ UNCHANGED spoilt

(* Fat32Create: the first slot that is free, or the first of a new cluster.    *)
(* A long name's extra entry goes there, whatever the next slot holds, and the *)
(* entry after it; past the cluster's end it is lost.                          *)
EntryFor(name, first, isDir) ==
  [st |-> "entry", name |-> Short[name], first |-> first, size |-> 0, isDir |-> isDir]

WithEntry(content, off, name, entry) ==
  IF name \notin IsLong THEN [content EXCEPT ![off] = entry]
  ELSE [k \in 1..Slots |-> CASE k = off -> [End EXCEPT !.st = "lfn"]
                             [] k = off + 1 -> entry
                             [] OTHER -> content[k]]

Fat32Create(path, name, isDir, h) ==
  LET first == Dir(path)
      slots == FreeSlots(vol.fat, first)
      grow == slots = {}
      v == IF grow THEN Extended(vol, first) ELSE vol
      place == IF grow THEN [c |-> Next(vol), off |-> 1]
               ELSE FirstFree(Clusters(vol.fat, first), slots)
      old == IF grow THEN Blank ELSE Dirs[place.c]
      cleared == IF grow THEN Fat32WriteCluster(Dirs, place.c, Blank) ELSE Dirs
      new == IF isDir THEN Next(v) ELSE 0
      entry == EntryFor(name, new, isDir)
      off == IF name \in IsLong THEN place.off + 1 ELSE place.off
      made == Fat32WriteCluster(
                IF isDir THEN Fat32WriteCluster(cleared, new, Dots(new, first)) ELSE cleared,
                place.c, WithEntry(old, place.off, name, entry))
  IN  /\ Mounted
      /\ grow => ~Unreadable(vol.fat, first)
      /\ grow => ~Full(vol)
      /\ \/ isDir /\ Full(v) /\ vol' = v /\ Store(cleared) /\ UNCHANGED open
         \/ /\ isDir => ~Full(v)
            /\ vol' = IF isDir THEN Taken(v, new) ELSE v
            /\ Store(made)
            /\ IF isDir THEN UNCHANGED open
               ELSE NewHandle(h) /\ Opened(h, 0, [c |-> place.c, off |-> off], 0)
      /\ UNCHANGED spoilt

(* Fat32Unlink and Rmdir: the chain is overwritten with zeros and freed, and   *)
(* the entry marked.  Nobody asks whether a directory is empty or a file open. *)
Fat32Unlink(path, name) ==
  LET p == Fat32Lookup(vol.fat, Dir(path), name)
      chain == ToSet(Chain(vol.fat, At(p).first))
      zeroed == [c \in Stored |-> IF c \in chain THEN Blank ELSE Dirs[c]]
  IN  /\ Mounted
      /\ Store([zeroed EXCEPT ![p.c][p.off] = Deleted])
      /\ vol' = Fat32FreeClusterChain(vol, At(p).first)
      /\ open' = [h \in Handle |->
           IF open[h] # NoFile /\ (open[h].first \in chain \/ open[h].at.c \in chain)
           THEN [open[h] EXCEPT !.gone = TRUE] ELSE open[h]]
      /\ UNCHANGED spoilt

(* Fat32Rename: the entry is marked, then copied to the first free slot of the *)
(* new directory under its new name; no matter what is there by that name.     *)
Fat32Rename(path, name, toPath, newName) ==
  LET p == Fat32Lookup(vol.fat, Dir(path), name)
      marked == [Dirs EXCEPT ![p.c][p.off] = Deleted]
      to == Dir(toPath)
      clusters == Clusters(vol.fat, to)
      slots == {k \in 1..Len(clusters) * Slots :
                  LET q == PlaceOf(clusters, k)
                  IN  marked[q.c][q.off].st \in {"end", "deleted"}}
      grow == slots = {}
      target == IF grow THEN [c |-> Next(vol), off |-> 1] ELSE FirstFree(clusters, slots)
      content == IF grow THEN Blank ELSE marked[target.c]
      entry == [At(p) EXCEPT !.name = Short[newName]]
  IN  /\ Mounted
      /\ IF grow /\ Full(vol) THEN UNCHANGED <<image, vol>>
         ELSE /\ vol' = IF grow THEN Extended(vol, to) ELSE vol
              /\ Store(Fat32WriteCluster(marked, target.c,
                                         [content EXCEPT ![target.off] = entry]))
      /\ UNCHANGED <<open, spoilt>>
------------------------------------------------------------------------------
(* Fat32Write.  First the clusters before the offset are skipped: a file that  *)
(* has none gets its first, and a chain that is too short is an error.         *)
Skipped(w) ==
  CASE ~w.ok -> w
    [] w.ok /\ w.cur \in Entry -> [w EXCEPT !.cur = Fat32NextCluster(w.v.fat, @)]
    [] w.ok /\ w.cur \notin Entry ->
         IF w.first # 0 \/ Full(w.v) THEN [w EXCEPT !.ok = FALSE]
         ELSE [w EXCEPT !.v = Taken(w.v, Next(w.v)), !.first = Next(w.v), !.cur = Next(w.v)]

(* Then those written, or new ones.  The first new one is linked to nothing if *)
(* the file has clusters but the write begins where they end.                  *)
Gathered(w) ==
  CASE ~w.ok -> w
    [] w.ok /\ w.cur \in Entry ->
         [w EXCEPT !.got = Append(@, w.cur), !.cur = Fat32NextCluster(w.v.fat, @)]
    [] w.ok /\ w.cur \notin Entry ->
         IF Full(w.v) THEN [w EXCEPT !.ok = FALSE]
         ELSE LET c == Next(w.v)
                  v == Taken(w.v, c)
              IN  [w EXCEPT !.got = Append(@, c), !.cur = c,
                            !.v = IF w.got = <<>> THEN v ELSE [v EXCEPT !.fat[Last(w.got)] = c],
                            !.first = IF w.got = <<>> /\ w.first = 0 THEN c ELSE @]

Reached(f, offset, n) ==
  LET from == offset \div ClusterSize
      to == (offset + n - 1) \div ClusterSize
      start == [ok |-> TRUE, v |-> vol, first |-> f.first, cur |-> f.first, got |-> <<>>]
      skip == FoldLeft(LAMBDA w, k : Skipped(w), start, [k \in 1..from |-> k])
  IN  FoldLeft(LAMBDA w, k : Gathered(w), skip, [k \in 1..to - from + 1 |-> k])

(* The size in the directory entry grows with the file; its first cluster is   *)
(* not written there.                                                          *)
Fat32Write(h, offset, n) ==
  LET f == open[h]
      w == Reached(f, offset, n)
      size == IF offset + n > f.size THEN offset + n ELSE f.size
  IN  /\ Mounted /\ f # NoFile
      /\ vol' = w.v
      /\ open' = [open EXCEPT ![h] =
                    [f EXCEPT !.first = w.first, !.size = IF w.ok THEN size ELSE @,
                              !.dirty = @ \/ w.ok]]
      /\ IF w.ok /\ size > f.size /\ f.at.c \in Stored /\ f.at.off <= Slots
            /\ At(f.at).st = "entry"
         THEN Store([Dirs EXCEPT ![f.at.c][f.at.off].size = size])
         ELSE UNCHANGED image
      /\ spoilt' = (spoilt \/ f.gone)

FatNext ==
  \/ Fat32Mount \/ Fat32Unmount \/ PowerOff
  \/ /\ Mounted
     /\ \E path \in Paths :
          \/ \E name \in Found(path) :
               \/ Fat32Unlink(path, name)
               \/ \E h \in Handle : VfsOpen(h, path, name)
               \/ \E to \in Paths, new \in Name : Fat32Rename(path, name, to, new)
          \/ \E name \in Name \ Found(path), isDir \in BOOLEAN, h \in Handle :
               Fat32Create(path, name, isDir, h)
  \/ \E h \in Handle : VfsClose(h)
  \/ \E h \in Handle, n \in 1..ClusterSize, offset \in Offset : Fat32Write(h, offset, n)
------------------------------------------------------------------------------
FatTypeOK ==
  /\ Mounted => /\ vol.fat \in [Entry -> Entry \cup {Free, Eof}]
                /\ vol.free \in Int /\ vol.next \in Entry
  /\ \A h \in Handle : open[h] # NoFile => open[h].size \in Nat

(* The entries of the root and of the directories in it, and what they own.    *)
Entries ==
  LET real(first) == {p \in Visible(vol.fat, first) : At(p).name \notin {".", ".."}}
  IN  real(Root) \cup UNION {real(At(p).first) : p \in {q \in real(Root) : At(q).isDir}}
Owned(p) == ToSet(Chain(vol.fat, At(p).first))

(* The FAT agrees with the directories: no cluster belongs to two entries or   *)
(* to an entry and the root, none that an entry's chain reaches is free, and   *)
(* the count of free clusters is off by no more than Fat32Format left it; that *)
(* is, after any calls in any order, for as long as no removed file is written *)
(* and the machine is not switched off with the FAT in memory.                 *)
FatConsistent ==
  Mounted /\ ~spoilt =>
    /\ \A p, q \in Entries : p # q => Owned(p) \cap Owned(q) = {}
    /\ \A p \in Entries : /\ Owned(p) \cap ToSet(Chain(vol.fat, Root)) = {}
                          /\ \A c \in Owned(p) : vol.fat[c] # Free
    /\ Cardinality(FreeOf(vol.fat)) - vol.free = LastEntry - 1 - LastCluster

(* What is mounted as a partition leaves the rest of the disk alone.           *)
WritesInside == [][image'["before"] = image["before"]]_fatVars
=============================================================================

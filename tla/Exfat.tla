-------------------------------- MODULE Exfat --------------------------------
(* An exFAT volume (Source/Fs/Exfat.c) on a disk without partitions: the FAT   *)
(* kept in memory while it is mounted, the directories on the disk, and the    *)
(* inodes that open files hold.  One call follows another; what a file says is *)
(* left out, a path names a directory under the root at most.                  *)
EXTENDS Integers, Sequences, SequencesExt, FiniteSets, FiniteSetsExt

CONSTANTS LastEntry,    \* FatEntries - 1: the FAT has room for these
          LastCluster,  \* the clusters of the heap end here
          Slots,        \* directory entries in a cluster
          ClusterSize,  \* bytes in a cluster
          Offset,       \* where in a file writes begin
          Name, Short,  \* names, and what is left of each in one name entry
          IsLong,       \* the names that are given room for two name entries
          Handle,       \* open files
          NoFile

VARIABLES disk,    \* what is on the disk: the FAT and the directory clusters
          ctx,     \* the ExfatContext: FatCache, and its dirty bit
          files,   \* the inodes of open files
          spoilt,  \* ghost: the FAT is no longer what the directories say,
                   \* because a removed file was written, a truncated one not,
                   \* or the machine was switched off
          wild     \* ghost: a cluster was linked after Clusters[-1]

exfatVars == <<disk, ctx, files, spoilt, wild>>

Entry == 2..LastEntry
Stored == 2..LastCluster
Root == 2
Free == 0
FatEnd == 1
NotMounted == [fat |-> <<>>, dirty |-> FALSE]
Mounted == ctx # NotMounted

None == [type |-> "none", count |-> 0]
FileSlot(count, isDir) == [type |-> "file", count |-> count, isDir |-> isDir]
StreamSlot(first, size) == [type |-> "stream", count |-> 0, first |-> first, size |-> size]
NameSlot(name) == [type |-> "name", count |-> 0, name |-> name]
Blank == [k \in 1..Slots |-> None]
Erased(slot) == [None EXCEPT !.count = slot.count]   \* only its type is written

SecondaryCount(name) == IF name \in IsLong THEN 3 ELSE 2
SlotsNeeded(name) == SecondaryCount(name) + 1
------------------------------------------------------------------------------
(* The FAT. *)
NextCluster(fat, c) == IF fat[c] \in Entry THEN fat[c] ELSE FatEnd

RECURSIVE Chain(_, _)
Chain(fat, first) ==
  IF first \in Entry THEN <<first>> \o Chain(fat, NextCluster(fat, first)) ELSE <<>>

FreeOf(fat) == {c \in Entry : fat[c] = Free}
Full(v) == FreeOf(v.fat) = {}
FirstFree(v) == Min(FreeOf(v.fat))

(* ExfatAllocCluster also clears the cluster on the disk; see Cleared.         *)
TakenUnmarked(v, c) == [v EXCEPT !.dirty = TRUE]
Taken(v, c) == [v EXCEPT !.fat[c] = FatEnd, !.dirty = TRUE]

Freed(v, first) == LET chain == ToSet(Chain(v.fat, first))
                   IN  [v EXCEPT !.fat = [c \in Entry |-> IF c \in chain THEN Free ELSE @[c]]]

Extended(v, first) == LET c == FirstFree(v)
                      IN  [Taken(v, c) EXCEPT !.fat[Last(Chain(v.fat, first))] = c]
------------------------------------------------------------------------------
(* Directories.  Reading or writing a cluster beyond the heap's end fails.     *)
Put(slots, c, content) == IF c \in Stored THEN [slots EXCEPT ![c] = content] ELSE slots
Cleared(slots, chain) == [c \in Stored |-> IF c \in chain THEN Blank ELSE slots[c]]

(* ExfatDirAdvance, repeated from the first slot of a cluster: the slots it    *)
(* stops at, up to one of type 0 or an entry set that runs over the end.       *)
RunsOver(content, k) == k + content[k].count > Slots

RECURSIVE Steps(_, _)
Steps(content, k) ==
  IF k > Slots THEN {}
  ELSE {k} \cup CASE content[k].type = "none" -> {}
                  [] content[k].type = "file" ->
                       IF RunsOver(content, k) THEN {} ELSE Steps(content, k + content[k].count + 1)
                  [] OTHER -> Steps(content, k + 1)

Ends(content) == \E k \in Steps(content, 1) :
                   \/ content[k].type = "none"
                   \/ content[k].type = "file" /\ RunsOver(content, k)

(* A directory is read up to the first cluster where it ends.                  *)
RECURSIVE Walked(_, _)
Walked(fat, c) ==
  IF c \notin Stored THEN <<>>
  ELSE <<c>> \o (IF Ends(disk.slots[c]) THEN <<>> ELSE Walked(fat, NextCluster(fat, c)))

(* An entry set that Lookup recognises: a file, its stream, a name. *)
At(p) == disk.slots[p.c][p.off]
Stream(p) == disk.slots[p.c][p.off + 1]
NameOf(content, k) == IF content[k + 2].type = "name" THEN content[k + 2].name ELSE NoFile
Whole(content, k) == /\ content[k].type = "file" /\ ~RunsOver(content, k)
                     /\ content[k].count >= 1 /\ content[k + 1].type = "stream"

Visible(fat, first) ==
  UNION {{[c |-> c, off |-> k] : k \in {j \in Steps(disk.slots[c], 1) : Whole(disk.slots[c], j)}} :
           c \in ToSet(Walked(fat, first))}

Named(fat, first, name) == {p \in Visible(fat, first) : NameOf(disk.slots[p.c], p.off) = name}

ExfatLookup(fat, first, name) ==
  LET found == Named(fat, first, name)
      c == Walked(fat, first)[Min({k \in DOMAIN Walked(fat, first) :
                                     \E p \in found : p.c = Walked(fat, first)[k]})]
  IN  [c |-> c, off |-> Min({p.off : p \in {q \in found : q.c = c}})]

(* ExfatFindFreeSlotsInBuf: the first slot of type 0, if the set fits there.   *)
RoomIn(content, n) == {k \in Steps(content, 1) : content[k].type = "none" /\ k + n - 1 <= Slots}

RECURSIVE SlotFor(_, _, _)
SlotFor(v, c, n) ==
  CASE c \notin Entry -> [st |-> "extend"]
    [] c \in Entry \ Stored -> [st |-> "unreadable"]
    [] c \in Stored -> IF RoomIn(disk.slots[c], n) # {}
                       THEN [st |-> "found", c |-> c, off |-> Min(RoomIn(disk.slots[c], n))]
                       ELSE SlotFor(v, NextCluster(v.fat, c), n)

Dir(path) == IF path = NoFile THEN Root ELSE Stream(ExfatLookup(ctx.fat, Root, path)).first
IsDir(path) == path = NoFile \/ /\ Named(ctx.fat, Root, path) # {}
                                /\ At(ExfatLookup(ctx.fat, Root, path)).isDir
------------------------------------------------------------------------------
(* ExfatFormat: the FAT counts the whole volume, of which the heap is less. *)
Formatted == [fat |-> [c \in Entry |-> IF c = Root THEN FatEnd ELSE Free], dirty |-> FALSE,
              slots |-> [c \in Stored |-> Blank]]

ExfatInit == /\ disk = Formatted /\ ctx = NotMounted
             /\ files = [h \in Handle |-> NoFile] /\ spoilt = FALSE /\ wild = FALSE

(* The dirty bit is bit 0 of the FAT's first word, and is loaded with it. *)
ExfatMount ==
  /\ ~Mounted
  /\ ctx' = [fat |-> disk.fat, dirty |-> disk.dirty]
  /\ UNCHANGED <<disk, files, spoilt, wild>>

(* ExfatSync: what goes to the disk still has the bit. *)
Synced(d, v) == IF v.dirty THEN [d EXCEPT !.fat = v.fat, !.dirty = TRUE] ELSE d
Clean(v) == [v EXCEPT !.dirty = FALSE]

(* Unmounting does not ask whether files are open; here they are closed. *)
ExfatUnmount ==
  /\ Mounted /\ \A h \in Handle : files[h] = NoFile
  /\ disk' = Synced(disk, ctx) /\ ctx' = NotMounted
  /\ UNCHANGED <<files, spoilt, wild>>

(* PowerShutdown and PowerReboot unmount nothing. *)
PowerOff ==
  /\ Mounted
  /\ ctx' = NotMounted /\ files' = [h \in Handle |-> NoFile]
  /\ spoilt' = (spoilt \/ ctx.dirty)
  /\ UNCHANGED <<disk, wild>>
------------------------------------------------------------------------------
Paths == {path \in Name \cup {NoFile} : IsDir(path)}
Found(path) == {name \in Name : Named(ctx.fat, Dir(path), name) # {}}

NewHandle(h) == h \in Handle /\ files[h] = NoFile

Opened(h, first, p, size) ==
  files' = [files EXCEPT ![h] = [first |-> first, at |-> p, size |-> size,
                                 dirty |-> FALSE, gone |-> FALSE]]

VfsOpen(h, path, name) ==
  /\ Mounted /\ NewHandle(h)
  /\ LET p == ExfatLookup(ctx.fat, Dir(path), name)
     IN  ~At(p).isDir /\ Opened(h, Stream(p).first, p, Stream(p).size)
  /\ UNCHANGED <<disk, ctx, spoilt, wild>>

(* ExfatTruncate is only ever called by VfsOpen, with size 0: the clusters are *)
(* freed, the directory entry goes on naming the first of them and the FAT is  *)
(* not marked dirty.                                                           *)
VfsOpenTruncate(h, path, name) ==
  /\ Mounted /\ NewHandle(h)
  /\ LET p == ExfatLookup(ctx.fat, Dir(path), name)
     IN  ~At(p).isDir /\ Opened(h, 0, p, 0) /\ ctx' = Freed(ctx, Stream(p).first)
  /\ spoilt' = TRUE
  /\ UNCHANGED <<disk, wild>>

VfsClose(h) ==
  /\ Mounted /\ files[h] # NoFile
  /\ disk' = IF files[h].dirty THEN Synced(disk, ctx) ELSE disk
  /\ ctx' = IF files[h].dirty THEN Clean(ctx) ELSE ctx
  /\ files' = [files EXCEPT ![h] = NoFile]
  /\ UNCHANGED <<spoilt, wild>>

(* ExfatCreate, ExfatMkdir: a file gets its first cluster at once, and gives   *)
(* it back when there is no room for its entry set.  The set is cleared and    *)
(* written over the slots from there on, whatever they hold.                   *)
EntrySet(name, first, isDir) ==
  <<FileSlot(SecondaryCount(name), isDir), StreamSlot(first, 0), NameSlot(Short[name])>>
  \o IF name \in IsLong THEN <<None>> ELSE <<>>

Placed(content, off, set) ==
  [k \in 1..Slots |-> IF k - off + 1 \in DOMAIN set THEN set[k - off + 1] ELSE content[k]]

ExfatCreate(path, name, isDir, h) ==
  LET first == Dir(path)
      data == FirstFree(ctx)
      v == Taken(ctx, data)
      slot == SlotFor(v, first, SlotsNeeded(name))
      grow == slot.st = "extend"
      noRoom == slot.st = "unreadable" \/ (grow /\ Full(v))
      place == IF grow THEN [c |-> FirstFree(v), off |-> 1] ELSE [c |-> slot.c, off |-> slot.off]
      slots == Cleared(disk.slots, {data} \cup IF grow THEN {place.c} ELSE {})
      old == IF place.c \in Stored THEN slots[place.c] ELSE Blank
  IN  /\ Mounted /\ ~Full(ctx)
      /\ \/ /\ noRoom
            /\ ctx' = [ctx EXCEPT !.dirty = TRUE]
            /\ disk' = [disk EXCEPT !.slots = Cleared(@, {data})]
            /\ UNCHANGED files
         \/ /\ ~noRoom
            /\ ctx' = IF grow THEN Extended(v, first) ELSE v
            /\ disk' = [disk EXCEPT !.slots =
                          Put(slots, place.c, Placed(old, place.off, EntrySet(name, data, isDir)))]
            /\ IF isDir THEN UNCHANGED files ELSE NewHandle(h) /\ Opened(h, data, place, 0)
      /\ UNCHANGED <<spoilt, wild>>

(* ExfatUnlink and ExfatRmdir: nobody asks whether a directory is empty or a   *)
(* file open.                                                                  *)
EraseSet(content, off) ==
  [k \in 1..Slots |-> IF k \in off..off + content[off].count THEN Erased(content[k]) ELSE content[k]]

ExfatUnlink(path, name) ==
  LET p == ExfatLookup(ctx.fat, Dir(path), name)
      chain == ToSet(Chain(ctx.fat, Stream(p).first))
      slots == Cleared(disk.slots, chain)
  IN  /\ Mounted
      /\ disk' = [disk EXCEPT !.slots = Put(slots, p.c, EraseSet(slots[p.c], p.off))]
      /\ ctx' = [Freed(ctx, Stream(p).first) EXCEPT !.dirty = TRUE]
      /\ files' = [h \in Handle |->
           IF files[h] # NoFile /\ (files[h].first \in chain \/ files[h].at.c \in chain)
           THEN [files[h] EXCEPT !.gone = TRUE] ELSE files[h]]
      /\ UNCHANGED <<spoilt, wild>>

(* ExfatRename: the entry's number counts in the cluster it was found in, but  *)
(* the first cluster of the old directory is what is changed; its slots go to  *)
(* the first slot of type 0 in the first cluster of the new directory, whether *)
(* or not they fit, and whatever has that name there.                          *)
ExfatRename(path, name, toPath, newName) ==
  LET p == ExfatLookup(ctx.fat, Dir(path), name)
      from == Dir(path)
      to == Dir(toPath)
      set == SubSeq(disk.slots[from], p.off, p.off + disk.slots[from][p.off].count)
      erased == Put(disk.slots, from, EraseSet(disk.slots[from], p.off))
      free == {k \in 1..Slots : erased[to][k].type = "none"}
      renamed == [k \in DOMAIN set |-> IF k = 3 /\ set[k].type = "name"
                                       THEN NameSlot(Short[newName]) ELSE set[k]]
  IN  /\ Mounted /\ from \in Stored /\ to \in Stored
      /\ p.off + disk.slots[from][p.off].count <= Slots
      /\ free # {}
      /\ disk' = [disk EXCEPT !.slots = Put(erased, to, Placed(erased[to], Min(free), renamed))]
      /\ UNCHANGED <<ctx, files, spoilt, wild>>
------------------------------------------------------------------------------
(* ExfatWrite.  New clusters are the first that are free; those linked before  *)
(* the volume was found full stay linked.  The first is linked after the one   *)
(* before it in the list of those gathered so far, also when there is none.    *)
RECURSIVE Lowest(_, _)
Lowest(set, n) == IF n = 0 \/ set = {} THEN <<>> ELSE <<Min(set)>> \o Lowest(set \ {Min(set)}, n - 1)

Linked(v, had, new) ==
  LET before(k) == IF k = 1 THEN IF had = <<>> THEN 0 ELSE Last(had) ELSE new[k - 1]
      after == [c \in {before(k) : k \in DOMAIN new} \ {0} |->
                  new[CHOOSE k \in DOMAIN new : before(k) = c]]
  IN  [v EXCEPT !.fat = [c \in Entry |-> CASE c \in DOMAIN after -> after[c]
                                           [] c \in ToSet(new) \ DOMAIN after -> FatEnd
                                           [] OTHER -> @[c]]]

ExfatWrite(h, offset, n) ==
  LET f == files[h]
      from == offset \div ClusterSize
      to == (offset + n - 1) \div ClusterSize
      chain == Chain(ctx.fat, f.first)
      had == SubSeq(chain, from + 1, Min({to + 1, Len(chain)}))
      new == Lowest(FreeOf(ctx.fat), to - from + 1 - Len(had))
      ok == Len(had) + Len(new) = to - from + 1
      first == IF had = <<>> /\ from = 0 /\ new # <<>> THEN new[1] ELSE f.first
      size == IF offset + n > f.size THEN offset + n ELSE f.size
      v == Linked(ctx, had, new)
      entryThere == f.at.c \in Stored /\ Stream(f.at).type = "stream"
      slots == IF entryThere
               THEN [disk.slots EXCEPT ![f.at.c][f.at.off + 1] = StreamSlot(first, size)]
               ELSE disk.slots
  IN  /\ Mounted /\ f # NoFile
      /\ IF ok THEN /\ disk' = [disk EXCEPT !.slots = slots, !.fat = v.fat, !.dirty = TRUE]
                    /\ ctx' = Clean(v)
               ELSE UNCHANGED disk /\ ctx' = v
      /\ files' = [files EXCEPT ![h] = [f EXCEPT !.first = first, !.dirty = @ \/ ok,
                                                 !.size = IF ok THEN size ELSE @]]
      /\ spoilt' = (spoilt \/ f.gone)
      /\ wild' = (wild \/ (had = <<>> /\ from > 0 /\ new # <<>>))

ExfatNext ==
  \/ ExfatMount \/ ExfatUnmount \/ PowerOff
  \/ /\ Mounted
     /\ \E path \in Paths :
          \/ \E name \in Found(path) :
               \/ ExfatUnlink(path, name)
               \/ \E h \in Handle : VfsOpen(h, path, name) \/ VfsOpenTruncate(h, path, name)
               \/ \E to \in Paths, new \in Name : ExfatRename(path, name, to, new)
          \/ \E name \in Name \ Found(path), isDir \in BOOLEAN, h \in Handle :
               ExfatCreate(path, name, isDir, h)
  \/ \E h \in Handle : VfsClose(h)
  \/ \E h \in Handle, n \in 1..ClusterSize, offset \in Offset : ExfatWrite(h, offset, n)
------------------------------------------------------------------------------
ExfatTypeOK ==
  /\ Mounted => ctx.fat \in [Entry -> Entry \cup {Free, FatEnd}]
  /\ \A c \in Stored : Len(disk.slots[c]) = Slots
  /\ \A h \in Handle : files[h] # NoFile => files[h].first \in Entry \cup {0}

Entries == LET root == Visible(ctx.fat, Root)
           IN  root \cup UNION {Visible(ctx.fat, Stream(p).first) : p \in {q \in root : At(q).isDir}}
Owned(p) == ToSet(Chain(ctx.fat, Stream(p).first))

(* The FAT agrees with the directories that can be read: no cluster is of two  *)
(* entries, none of an entry is the root's, and none is free; after any calls  *)
(* in any order that leave the two ghosts false.                               *)
ExfatConsistent ==
  Mounted /\ ~spoilt /\ ~wild =>
    /\ \A p, q \in Entries : p # q => Owned(p) \cap Owned(q) = {}
    /\ \A p \in Entries : /\ Owned(p) \cap ToSet(Chain(ctx.fat, Root)) = {}
                          /\ Owned(p) \cap FreeOf(ctx.fat) = {}

(* A name that Create has made is found by the next lookup of it.              *)
CreatedIsFound ==
  [][Mounted => \A path \in Paths, name \in Name \ IsLong, h \in Handle, first \in Stored :
       first = Dir(path) /\ ExfatCreate(path, name, FALSE, h) /\ files' # files
         => Named(ctx.fat, first, name)' # {}]_exfatVars

(* Removing one entry leaves the others where a lookup finds them.             *)
UnlinkLeavesOthers ==
  [][Mounted => \A path \in Paths, first \in Stored : first = Dir(path) =>
       \A name \in Found(path) : \A other \in Found(path) \ {name} :
         ExfatUnlink(path, name) => Named(ctx.fat, first, other)' # {}]_exfatVars

(* A cluster is linked after one of the file's own.                            *)
LinkedInFile == ~wild
=============================================================================

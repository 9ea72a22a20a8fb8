------------------------------ MODULE MCStorage ------------------------------
(* The parts of storage, one beside the other: part says which one moves, and  *)
(* the others stay in one of their initial states.                             *)
(*   cache       PageCache over its BlockStore                                 *)
(*   partitions  Partitions, a disk of twelve units                            *)
(*   vfs         Vfs, two volumes of a disk and an image on one of them        *)
(*   volumes     Volumes, a plain disk, a partitioned one and a RAM disk       *)
(*   ata, atapi  Pata, two drives or an optical one on a channel               *)
(*   sata        Sata, a port with a disk or an optical drive                  *)
EXTENDS PageCache, Vfs, TLC
CONSTANT MaxCommands
VARIABLES part, commands,
          medium, known, tabling,                                             \* Partitions
          on, mem, media, slot,                                               \* Volumes
          reg, dev, call, cached, upset, opt,                                 \* Pata
          port, buf, hba, tbl, io, disks                                      \* Sata

cacheV == cacheVars
partitionV == <<medium, known, tabling>>
vfsV == vfsVars
volumeV == <<on, mem, media, slot>>
pataV == <<reg, dev, call, cached, upset, opt>>
sataV == <<port, buf, hba, tbl, io, disks>>

(* Which threads share the cache, and what goes wrong meanwhile. *)
Setup(users, wb, flush, size, requests, faults) ==
  [users |-> users, wb |-> wb, flush |-> flush, size |-> size, requests |-> requests, faults |-> faults]
CacheSetups ==
  {Setup({"u1"}, FALSE, TRUE, 1, {<<0, 1>>, <<1, 4>>}, {}),
   Setup({"u1"}, FALSE, TRUE, 1, {<<0, 1>>, <<3, 5>>}, {"read", "alloc"}),
   Setup({"u1"}, TRUE, FALSE, 2, {<<0, 1>>, <<2, 3>>}, {"write"}),
   Setup({"u1", "u2"}, FALSE, FALSE, 2, {<<0, 1>>}, {})}

ASSUME PageCacheAssumption
ASSUME VfsAssumption

(* An empty disk, one with an extended partition, one with a GPT. *)
Blank == [signed |-> FALSE, slots |-> [i \in 1..3 |-> [type |-> "zero", start |-> 0, count |-> 0]],
          header |-> FALSE, table |-> [i \in 1..3 |-> [type |-> "zero", start |-> 0, count |-> 0]],
          bakTable |-> [i \in 1..3 |-> [type |-> "zero", start |-> 0, count |-> 0]],
          bakHeader |-> FALSE, chain |-> <<>>]
Entry(type, start, count) == [type |-> type, start |-> start, count |-> count]
Media == {Blank,
  [Blank EXCEPT !.signed = TRUE, !.slots[1] = Entry("extended", 3, 6), !.chain = <<Entry("data", 4, 2)>>],
  [Blank EXCEPT !.signed = TRUE, !.slots[1] = Entry("protective", 1, 12), !.header = TRUE,
                !.table[1] = Entry("other", 4, 2)]}

P == INSTANCE Partitions WITH DiskSectors <- 12, First <- 2, Align <- 2, MinGptSectors <- 8,
       PrimarySlots <- 3, GptEntries <- 3, PartTypes <- {"linux"}, Sizes <- {3, 4}, Starts <- {2},
       MaxCommands <- 4

Mountpoint == {"ex", "fat", "iso"}
OnDevice == [v \in Mountpoint |-> IF v = "iso" THEN "i" ELSE "d"]
Format == "ex" :> "exfat" @@ "fat" :> "fat32" @@ "iso" :> "iso9660"
Relative(n) == [drive |-> None, names |-> n]
Paths == {Relative(<<"dir">>), Relative(<<"dir", "file">>), Relative(<<"..">>),
          [drive |-> "ex", names |-> <<"dir">>]}

Made(fs, id) == [fs |-> fs, id |-> id]
D == INSTANCE Volumes WITH Hard <- <<"s0", "s1">>, Primary <- [s0 |-> 0, s1 |-> 1],
       Logical <- [s0 |-> 0, s1 |-> 2], Gpt <- {}, Ram <- {"r0"}, Word <- {"A"},
       Shipped <- <<"s0", 0>> :> Made("fat32", "a") @@ <<"s1", 1>> :> Made("fat32", "b")
               @@ <<"s1", 2>> :> Made("exfat", "c") @@ <<"s1", 3>> :> Made("fat32", "d")

A == INSTANCE Pata WITH Thread <- {"t1"}, Drive <- {0, 1}, TotalSectors <- 3, MaxChunk <- 2,
       MaxCount <- 3, Disc <- {0}, MaxStrange <- 2
O == INSTANCE Pata WITH Thread <- {"t1"}, Drive <- {0}, TotalSectors <- 3, MaxChunk <- 2,
       MaxCount <- 1, Disc <- {0, 1, 2}, MaxStrange <- 2

S == INSTANCE Sata WITH Thread <- {"t1", "t2"}, Buffers <- 2, Slots <- 2, Sectors <- 2,
       MaxChunk <- 1, MaxCount <- 2
------------------------------------------------------------------------------
Pinned(name, at) == part = name \/ at

MCInit ==
  /\ part \in {"cache", "partitions", "vfs", "volumes", "ata", "atapi", "sata"} /\ commands = 0
  /\ CacheInit /\ Pinned("cache", setup = Setup({"u1"}, FALSE, TRUE, 1, {<<0, 1>>, <<1, 4>>}, {}))
  /\ P!PartInit /\ Pinned("partitions", medium = Blank)
  /\ VfsInit
  /\ D!VolumesStart
  /\ (IF part = "atapi" THEN O!PataStart ELSE A!PataStart /\ Pinned("ata", dev.kind = "ignores"))
  /\ S!SataStart /\ Pinned("sata", ~port.atapi)

CacheStep == /\ part = "cache" /\ CacheNext
             /\ UNCHANGED <<partitionV, vfsV, volumeV, pataV, sataV, commands>>
PartitionStep == /\ part = "partitions" /\ P!PartNext
                 /\ UNCHANGED <<cacheV, vfsV, volumeV, pataV, sataV, commands>>
VfsStep == /\ part = "vfs" /\ VfsNext
           /\ UNCHANGED <<cacheV, partitionV, volumeV, pataV, sataV, commands>>
VolumeStep == /\ part = "volumes" /\ commands < MaxCommands /\ D!VolumesNext
              /\ commands' = IF on THEN commands + 1 ELSE commands
              /\ UNCHANGED <<cacheV, partitionV, vfsV, pataV, sataV>>
AtaStep == /\ part = "ata" /\ ~upset /\ A!AtaNext
           /\ UNCHANGED <<cacheV, partitionV, vfsV, volumeV, opt, sataV, commands>>
AtapiStep == /\ part = "atapi" /\ ~upset /\ O!AtapiNext
             /\ UNCHANGED <<cacheV, partitionV, vfsV, volumeV, sataV, commands>>
SataStep == /\ part = "sata" /\ S!SataNext
            /\ (port.atapi => Cardinality({t \in {"t1", "t2"} : io'[t].pc # "idle"}) <= 1)
            /\ UNCHANGED <<cacheV, partitionV, vfsV, volumeV, pataV, commands>>

MCNext == UNCHANGED part /\ (\/ CacheStep \/ PartitionStep \/ VfsStep \/ VolumeStep
                             \/ AtaStep \/ AtapiStep \/ SataStep)

MCSpec == MCInit /\ [][MCNext]_<<part, commands, cacheV, partitionV, vfsV, volumeV, pataV, sataV>>
------------------------------------------------------------------------------
(* Partitions: TableAgrees, DefaultsDisjoint and OthersKept there, over states *)
(* of the right types.                                                         *)
TablesSound == part = "partitions" => P!PartTypeOK /\ P!TableAgrees /\ P!DefaultsDisjoint /\ P!OthersKept

(* Volumes: BootMountsRoots and BootAliasesUnique there. *)
BootFollowsConfig == D!BootMountsRoots /\ D!BootAliasesUnique

(* Volumes: see ChangesAreKept there. *)
ChangesAreKept == D!ChangesAreKept

(* Volumes: see FormatSparesMounted there. *)
FormatSparesMounted == D!FormatSparesMounted

(* Pata: AnswerIsOwn for two drives, OneStrangeRead for an optical one.  Sata: *)
(* SectorsAreOwn and BuffersHeld there.  All over states of the right types,   *)
(* and so are Volumes.                                                         *)
DrivesSound == CASE part = "volumes" -> D!VolumesTypeOK
                 [] part = "ata" -> A!PataTypeOK /\ A!AnswerIsOwn
                 [] part = "atapi" -> O!PataTypeOK /\ O!OneStrangeRead
                 [] part = "sata" -> S!SataTypeOK /\ S!SectorsAreOwn /\ S!BuffersHeld
                 [] OTHER -> TRUE
=============================================================================

------------------------------ MODULE Volumes -------------------------------
(* Disks, volumes, their names and their disk.cfg                             *)
(* (Source/Drivers/Disk/DiskMgr.c, DiskCfg.c, RamDisk.c, IsoFile.c and the     *)
(* mount, unmount, format, diskmgr and ramdisk commands).                      *)
(* A volume is a whole disk or a partition of one.  What lies on it survives   *)
(* the power; what the kernel knows of it is read back at the next boot.       *)
(* The shell runs one command after the other, so each command is one step.    *)
(* The current directory and the files are in Vfs, the tables of partitions    *)
(* in Partitions; two names are equal or differ by more than their case.       *)
EXTENDS Integers, Sequences, SequencesExt, FiniteSets

CONSTANTS Hard,              \* the disks the drivers find, in their order
          Primary, Logical,  \* [Hard's disks -> Nat]: their partitions
          Gpt,               \* the disks with a GPT
          Ram,               \* the slots of GRamDisks
          Word,              \* what a user may call a disk
          Shipped,           \* the volumes other systems made: [fs, id]
          None

VARIABLES on,     \* the kernel runs
          mem,    \* what it knows: list, name, info of each volume, mounts
          media,  \* what lies on each volume: fs, id, its disk.cfg, the system
          slot    \* GRamDisks: held, and how often the last Disk was freed

volumeVars == <<on, mem, media, slot>>

UserDisk == "USER"
HardDisk == {Hard[i] : i \in DOMAIN Hard}
Count(d) == IF d \in HardDisk THEN Primary[d] + Logical[d] ELSE 0
DiskVolume == {<<d, 0>> : d \in HardDisk \union Ram \union {UserDisk}}
              \union UNION {{<<d, k>> : k \in 1..Count(d)} : d \in HardDisk}
IsLogical(v) == v[2] > 0 /\ v[2] > Primary[v[1]]
VolumesOf(d) == [k \in 1..(Count(d) + 1) |-> <<d, k - 1>>]

NoName == [disk |-> "", part |-> 0]
Named(w) == [disk |-> w, part |-> 0]
NoInfo == [alias |-> NoName, root |-> FALSE, valid |-> FALSE, stale |-> FALSE, fs |-> "none"]
Blank == [fs |-> "none", id |-> None, cfg |-> None, bin |-> FALSE]
NoSlot == [held |-> FALSE, frees |-> 0]
Writable == {"fat32", "exfat"}
------------------------------------------------------------------------------
(* Finding a disk, a partition, a volume.                                      *)

(* DiskMgrFindDiskLocked: a name or an alias, the first in the list. *)
DiskMgrFindDisk(M, n) ==
  LET hit(d) == n.part = 0 /\ (n.disk = M.name[d] \/ (n # NoName /\ M.info[<<d, 0>>].alias = n))
      k == SelectInSeq(M.list, hit)
  IN  IF k = 0 THEN None ELSE M.list[k]

DiskMgrFindPartition(M, n) ==
  LET d == DiskMgrFindDisk(M, Named(n.disk))
  IN  IF n.part > 0 /\ d # None /\ n.part <= Count(d) THEN <<d, n.part>> ELSE None

(* The volumes in the order DiskCfgInit, DiskCfgMountRoots and                 *)
(* CmdResolveVolume visit them.                                                *)
InOrder(M) == FlattenSeq([i \in DOMAIN M.list |-> VolumesOf(M.list[i])])

CmdResolveVolume(M, n) ==
  LET d == DiskMgrFindDisk(M, n)
      p == DiskMgrFindPartition(M, n)
      hit(v) == n # NoName /\ M.info[v].alias = n
      k == SelectInSeq(InOrder(M), hit)
  IN  IF d # None THEN <<d, 0>> ELSE IF p # None THEN p
      ELSE IF k = 0 THEN None ELSE InOrder(M)[k]

OwnName(M, v) == [disk |-> M.name[v[1]], part |-> v[2]]
DiskName(M, v) == Named(M.name[v[1]])
Mounted(M, n) == \E m \in M.mounts : m.name = n
------------------------------------------------------------------------------
(* Mounting: a volume once, a name once, the file system that is there.        *)
Mountable(M, v, n, fs) ==
  /\ ~\E m \in M.mounts : m.vol = v \/ m.name = n
  /\ fs # "none" /\ media[v].fs = fs
WithMount(M, v, n) == [M EXCEPT !.mounts = @ \union {[vol |-> v, name |-> n]}]
MountEx(M, v, n, fs) == IF Mountable(M, v, n, fs) THEN WithMount(M, v, n) ELSE M

(* VfsUnmountDrive: the disk behind an image goes with its mount. *)
VfsUnmountDrive(M, n) ==
  LET gone == {m \in M.mounts : m.name = n}
  IN  [M EXCEPT !.mounts = @ \ gone,
                !.list = SelectSeq(@, LAMBDA d : d # UserDisk \/ <<UserDisk, 0>> \notin {m.vol : m \in gone})]
------------------------------------------------------------------------------
(* disk.cfg.                                                                   *)

(* DiskCfgComputeId: the GUID of the disk stands for each of its volumes. *)
DiskCfgComputeId(v, fs) == IF v[1] \in Gpt THEN <<"GPT", v[1]>> ELSE <<fs, media[v].id>>

(* A temporary mount under the name of the disk reads or writes the file. *)
Reachable(M, v, fs) == Mountable(M, v, DiskName(M, v), fs)

DiskCfgReadVolume(M, v, fs) ==
  IF v[1] \notin Ram /\ fs \in Writable /\ Reachable(M, v, fs) THEN media[v].cfg ELSE None

WrittenUnrooted(v, fs, n, root) == [id |-> DiskCfgComputeId(v, fs), name |-> n, root |-> FALSE]
Written(v, fs, n, root) == [id |-> DiskCfgComputeId(v, fs), name |-> n, root |-> root]

AliasExistsOnDisk(M, n, v) ==
  n # NoName /\ \E w \in Range(InOrder(M)) \ {v} : M.info[w].alias = n /\ w[2] = 0
DiskCfgAliasExists(M, n, v) ==
  n # NoName /\ \E w \in Range(InOrder(M)) \ {v} : M.info[w].alias = n

(* The new name must find no disk, and the disk has it as its alias by now. *)
DiskRename(M, d, n) ==
  IF n = NoName \/ M.name[d] = n.disk \/ DiskMgrFindDisk(M, n) # None THEN M
  ELSE [M EXCEPT !.name[d] = n.disk]

(* DiskCfgApplyToDisk and DiskCfgApplyToPartition. *)
Skipped(M, v) == v[2] = 0 /\ (v[1] \in Ram \union {UserDisk} \/ Count(v[1]) > 0)
DiskCfgApply(M, v) ==
  LET fs == media[v].fs
      cfg == DiskCfgReadVolume(M, v, fs)
      fits == cfg.id = DiskCfgComputeId(v, fs)
      n == IF DiskCfgAliasExists(M, cfg.name, v) THEN NoName ELSE cfg.name
      seen == [M EXCEPT !.info[v].fs = fs]
      known == [seen EXCEPT !.info[v] = [alias |-> n, root |-> cfg.root, valid |-> TRUE,
                                         stale |-> FALSE, fs |-> fs]]
  IN  IF Skipped(M, v) THEN M
      ELSE IF cfg = None THEN seen
      ELSE IF ~fits THEN [seen EXCEPT !.info[v].stale = TRUE]
      ELSE IF v[2] = 0 THEN DiskRename(known, v[1], n) ELSE known

(* DiskCfgMountRoots: a logical partition goes by the name of its disk. *)
RootName(M, v) == IF IsLogical(v) THEN DiskName(M, v) ELSE OwnName(M, v)
MountRoot(M, v) ==
  IF M.info[v].root /\ ~Skipped(M, v) THEN MountEx(M, v, RootName(M, v), M.info[v].fs) ELSE M

DiskCfgMountRoots(M) == FoldLeft(MountRoot, M, InOrder(M))
DiskCfgInit(M) == DiskCfgMountRoots(FoldLeft(DiskCfgApply, M, InOrder(M)))
------------------------------------------------------------------------------
(* Power on and off.                                                           *)
DiskMgrRegisterDisk(M, d, w) ==
  IF DiskMgrFindDisk(M, Named(w)) # None THEN M
  ELSE [M EXCEPT !.list = Append(@, d), !.name[d] = w, !.info[<<d, 0>>] = NoInfo]

DiskMgrUnregisterDisk(M, d) == [M EXCEPT !.list = SelectSeq(@, LAMBDA e : e # d)]

NoMem == [list |-> <<>>, name |-> [d \in HardDisk \union Ram \union {UserDisk} |-> d],
          info |-> [v \in DiskVolume |-> NoInfo], mounts |-> {}]

DiskMgrInitDisks == FoldLeft(LAMBDA M, d : DiskMgrRegisterDisk(M, d, d), NoMem, Hard)

VolumesStart ==
  /\ on = FALSE /\ mem = NoMem
  /\ media = [v \in DiskVolume |-> IF v \in DOMAIN Shipped
                                THEN [Blank EXCEPT !.fs = Shipped[v].fs, !.id = Shipped[v].id]
                                ELSE Blank]
  /\ slot = [r \in Ram |-> NoSlot]

Boot ==
  /\ ~on /\ on' = TRUE
  /\ mem' = DiskMgrRegisterDisk(DiskCfgInit(DiskMgrInitDisks), UserDisk, UserDisk)
  /\ media' = [media EXCEPT ![<<UserDisk, 0>>] = [Blank EXCEPT !.fs = "iso9660"]]
  /\ UNCHANGED slot

PowerOff ==
  /\ on /\ on' = FALSE /\ mem' = NoMem
  /\ media' = [v \in DiskVolume |-> IF v[1] \in Ram THEN Blank ELSE media[v]]
  /\ slot' = [r \in Ram |-> NoSlot]
------------------------------------------------------------------------------
(* diskmgr set, rename, setroot, unsetroot: the file first, then the memory.   *)
CmdDiskMgrSet(v, key, w) ==
  LET kind == IF mem.info[v].fs = "none" THEN media[v].fs ELSE mem.info[v].fs
      fs == IF kind \in Writable THEN kind ELSE "none"
      alias == IF key = "disk_name" THEN Named(w) ELSE mem.info[v].alias
      root == IF key = "disk_name" THEN mem.info[v].root ELSE key = "root"
      seen == [mem EXCEPT !.info[v].fs = fs]
  IN  /\ ~Mounted(mem, OwnName(mem, v))
      /\ fs # "none"
      /\ IF Reachable(mem, v, fs)
         THEN /\ media' = [media EXCEPT ![v].cfg = Written(v, fs, alias, root)]
              /\ mem' = [seen EXCEPT !.info[v].alias = alias, !.info[v].root = root,
                                     !.info[v].valid = TRUE]
         ELSE mem' = seen /\ UNCHANGED media
      /\ UNCHANGED <<on, slot>>

CmdDiskMgrClear(v) ==
  LET fs == mem.info[v].fs
  IN  /\ fs \in Writable
      /\ ~Mounted(mem, OwnName(mem, v)) /\ Reachable(mem, v, fs)
      /\ media' = [media EXCEPT ![v].cfg = Written(v, fs, NoName, FALSE)]
      /\ mem' = [mem EXCEPT !.info[v] = [NoInfo EXCEPT !.fs = fs]]
      /\ UNCHANGED <<on, slot>>

(* The shell's shorthands. *)
Setting(v) == \/ \E w \in Word : CmdDiskMgrSet(v, "disk_name", w)
              \/ \E key \in {"root", "plain"} : CmdDiskMgrSet(v, key, "")

(* The files of the system go to dst, unless a step fails on the way. *)
RootSetupCopyTree(dst, ok) == IF ok THEN [media EXCEPT ![dst].bin = TRUE] ELSE media

(* The target is what is mounted under the name of its disk, or else itself. *)
CmdDiskMgrRootSetup(v, ok) ==
  LET user == MountEx(mem, <<UserDisk, 0>>, Named(UserDisk), "iso9660")
      under == {m \in mem.mounts : m.name = DiskName(mem, v)}
      dst == IF under # {} THEN (CHOOSE m \in under : TRUE).vol ELSE v
  IN  /\ DiskMgrFindDisk(mem, Named(UserDisk)) = UserDisk
      /\ user # mem \/ Mounted(mem, Named(UserDisk))
      /\ mem' = user
      /\ media' = RootSetupCopyTree(dst, /\ ok /\ media[v].fs # "none" /\ dst[1] # UserDisk
                                         /\ under # {} \/ Reachable(user, v, media[v].fs))
      /\ UNCHANGED <<on, slot>>

(* mount: the alias if there is one. *)
MountTarget(n) ==
  LET d == DiskMgrFindDisk(mem, n)
  IN  IF n.part > 0 THEN DiskMgrFindPartition(mem, n)
      ELSE IF d = None THEN None ELSE <<d, 0>>
MountName(v) == IF mem.info[v].alias # NoName THEN mem.info[v].alias ELSE OwnName(mem, v)

CmdMountHandler(v) ==
  /\ v[2] > 0 => ~Mounted(mem, DiskName(mem, v))
  /\ Mountable(mem, v, MountName(v), media[v].fs)
  /\ mem' = WithMount(mem, v, MountName(v))
  /\ UNCHANGED <<on, media, slot>>

(* unmount: whole disks, by the name of the disk. *)
CmdUnmountHandler(d) ==
  /\ Mounted(mem, Named(mem.name[d]))
  /\ mem' = VfsUnmountDrive(mem, Named(mem.name[d]))
  /\ UNCHANGED <<on, media, slot>>

(* format: what is known of the volume is not refreshed, the serial is fixed;  *)
(* an image refuses the writes.                                                *)
FormatTarget(n) ==
  LET p == DiskMgrFindPartition(mem, n)
      d == DiskMgrFindDisk(mem, n)
  IN  IF p # None THEN p ELSE IF d = None THEN None ELSE <<d, 0>>
CmdFormatHandler(v, fs) ==
  /\ v[1] # UserDisk
  /\ ~Mounted(mem, DiskName(mem, v))
  /\ media' = [media EXCEPT ![v] = [Blank EXCEPT !.fs = fs, !.id = "12345678"]]
  /\ UNCHANGED <<on, mem, slot>>

(* cp of a disk.cfg from one mounted volume to another. *)
CopyConfig(v, w) ==
  /\ on /\ {v, w} \subseteq {m.vol : m \in mem.mounts}
  /\ v[1] # UserDisk /\ w[1] # UserDisk /\ media[v].cfg # None
  /\ media' = [media EXCEPT ![w].cfg = media[v].cfg]
  /\ UNCHANGED <<on, mem, slot>>

(* ramdisk create.  A slot whose volume is still mounted is left alone here.   *)
FreeSlot == {r \in Ram : ~slot[r].held}
CmdRamDiskCreate(w) ==
  /\ on /\ FreeSlot # {} /\ DiskMgrFindDisk(mem, Named(w)) = None
  /\ LET r == CHOOSE q \in FreeSlot : TRUE
     IN  /\ <<r, 0>> \notin {m.vol : m \in mem.mounts}
         /\ mem' = DiskMgrRegisterDisk(mem, r, w)
         /\ media' = [media EXCEPT ![<<r, 0>>] = Blank]
         /\ slot' = [slot EXCEPT ![r] = [held |-> TRUE, frees |-> 0]]
  /\ UNCHANGED on

RamDiskDestroy(s) == [held |-> FALSE, frees |-> s.frees + 1]

(* Unregistering calls Destroy, and the command calls it again. *)
CmdRamDiskDestroy(r, n) ==
  /\ r \in Ram
  /\ mem' = DiskMgrUnregisterDisk(VfsUnmountDrive(mem, n), r)
  /\ slot' = [slot EXCEPT ![r] = RamDiskDestroy(RamDiskDestroy(@))]
  /\ UNCHANGED <<on, media>>
------------------------------------------------------------------------------
Given == {Named(w) : w \in Word \union HardDisk \union {UserDisk}}
           \union {[disk |-> v[1], part |-> v[2]] : v \in {w \in DiskVolume : w[2] > 0}}

(* What the names a user may give stand for: for diskmgr, mount and format. *)
Resolved == {CmdResolveVolume(mem, n) : n \in Given} \ {None}
MountTargets == {MountTarget(n) : n \in Given} \ {None}
FormatTargets == {FormatTarget(n) : n \in Given} \ {None}

VolumeCommand ==
  \/ \E v \in Resolved : \/ Setting(v) \/ CmdDiskMgrClear(v)
                         \/ \E ok \in BOOLEAN : CmdDiskMgrRootSetup(v, ok)
  \/ \E v \in MountTargets : CmdMountHandler(v)
  \/ \E v \in FormatTargets, fs \in Writable : CmdFormatHandler(v, fs)
  \/ \E d \in {DiskMgrFindDisk(mem, n) : n \in Given} \ {None} : CmdUnmountHandler(d)
  \/ \E n \in Given : \E d \in {DiskMgrFindDisk(mem, n)} : CmdRamDiskDestroy(d, n)

VolumesNext ==
  \/ Boot \/ PowerOff
  \/ on /\ VolumeCommand
  \/ \E v, w \in DiskVolume : v # w /\ CopyConfig(v, w)
  \/ \E w \in Word : CmdRamDiskCreate(w)
------------------------------------------------------------------------------
(* Every volume mounted is there once, under one name; a RAM disk in the list  *)
(* holds its slot; nothing is known of any volume while the power is off.      *)
VolumesTypeOK ==
  /\ \A m, p \in mem.mounts : (m.vol = p.vol \/ m.name = p.name) => m = p
  /\ \A v \in DiskVolume : media[v].fs \in {"none", "fat32", "exfat", "iso9660"}
  /\ \A r \in Ram : slot[r].held <=> r \in Range(mem.list)
  /\ Cardinality(Range(mem.list)) = Len(mem.list)
  /\ ~on => mem = NoMem

(* A boot mounts just the volumes whose disk.cfg, written for them, makes them *)
(* roots, each under its own name; of the logical ones of a disk, which all go *)
(* by the name of the disk, only the first.                                    *)
Root(v) ==
  /\ ~Skipped(mem, v) /\ media[v].fs \in Writable /\ media[v].cfg # None
  /\ media[v].cfg.id = DiskCfgComputeId(v, media[v].fs) /\ media[v].cfg.root
BootMountsRoots ==
  [][~on /\ on' =>
       mem'.mounts = {[vol |-> v, name |-> RootName(mem', v)] :
                       v \in {w \in DiskVolume : Root(w) /\ (IsLogical(w) =>
                              \A u \in DiskVolume : u[1] = w[1] /\ IsLogical(u) /\ Root(u)
                                                    => w[2] <= u[2])}}]_volumeVars

(* After a boot no two volumes have the same alias: the later one went without. *)
BootAliasesUnique ==
  [][~on /\ on' => \A v, w \in DiskVolume :
        mem'.info[v].alias = mem'.info[w].alias /\ v # w => mem'.info[v].alias = NoName]_volumeVars

(* What a command changes in what the kernel knows of a volume, its alias or   *)
(* whether it is a root, is in the disk.cfg of that volume: it outlives the    *)
(* power.                                                                      *)
ChangesAreKept ==
  [][on /\ on' => \A v \in DiskVolume :
        LET now == mem'.info[v] was == mem.info[v]
        IN  v[1] \in Range(mem.list) /\ (now.alias # was.alias \/ now.root # was.root) =>
              /\ media'[v].cfg # None
              /\ media'[v].cfg.name = now.alias /\ media'[v].cfg.root = now.root]_volumeVars

(* "Refuse to format a mounted volume": no command replaces the file system    *)
(* under a mount.                                                              *)
FormatSparesMounted ==
  [][\A m \in mem.mounts : on' => media'[m.vol].fs = media[m.vol].fs]_volumeVars

(* The name the hardware has given to a disk finds that disk.                  *)
NameFindsItself ==
  \A d \in HardDisk \intersect Range(mem.list) : DiskMgrFindDisk(mem, Named(d)) = d
==============================================================================

----------------------------- MODULE Partitions -----------------------------
(* The partition tables of one disk (Source/Drivers/Disk/DiskMgr.c) and the    *)
(* commands that change them (Source/Cmd/DiskMgr.c).  An operation holds       *)
(* GDiskLock with interrupts off from its first read to its last write, so the *)
(* only thing that can come between two of its writes is the end of the power. *)
(* A write of several sectors is one step, which the drive makes or refuses.   *)
(* The disk's sectors are counted in units of what the commands align to:      *)
(* AlignUp is for them and Sectors tells a table from what is between.         *)
EXTENDS Integers, Sequences, SequencesExt

CONSTANTS DiskSectors,   \* Disk.SectorCount
          First, Align,  \* both 2048: where partitions start, what they align to
          MinGptSectors, \* 128: GptInitDiskLocked refuses less
          PrimarySlots,  \* 4
          GptEntries,    \* Hdr.NumberOfPartitionEntries
          PartTypes,     \* partition types a command may name
          Sizes,         \* sectors a command may ask for
          Starts,        \* what may follow -start
          Media,         \* what the disk may hold at first
          MaxCommands

VARIABLES medium, \* the tables on the disk
          known,  \* Disk.PartScheme, Disk.Partitions, Disk.LogicalPartitions
          tabling \* the operation in progress: writes to come, and ghosts

partVars == <<medium, known, tabling>>

NoEntry == [type |-> "zero", start |-> 0, count |-> 0]
Entry(type, start, count) == [type |-> type, start |-> start, count |-> count]
Unused(e) == e.type = "zero" \/ e.count = 0

(* A medium: sector 0 with its signature and slots, the GPT header and table,  *)
(* their backups at the end, and the chain of logical partitions that an       *)
(* extended one leads to.                                                      *)
EmptySlots == [i \in 1..PrimarySlots |-> NoEntry]
EmptyTable == [i \in 1..GptEntries |-> NoEntry]
Blank == [signed |-> FALSE, slots |-> EmptySlots, header |-> FALSE, table |-> EmptyTable,
          bakTable |-> EmptyTable, bakHeader |-> FALSE, chain |-> <<>>]
------------------------------------------------------------------------------
(* Scanning.  Partitions are numbered as they are met, logical ones included.  *)
Numbered(ps) == [i \in 1..Len(ps) |-> [ps[i] EXCEPT !.index = i]]
Found(e, logical) == [index |-> 0, type |-> e.type, start |-> e.start, count |-> e.count,
                      logical |-> logical]
Scheme(s, ps) == [scheme |-> s, parts |-> Numbered(ps)]

MbrPartitions(m) ==
  FlattenSeq([i \in 1..PrimarySlots |->
    CASE Unused(m.slots[i]) -> <<>>
      [] m.slots[i].type = "extended" -> [j \in 1..Len(m.chain) |-> Found(m.chain[j], TRUE)]
      [] OTHER -> <<Found(m.slots[i], FALSE)>>])

(* A type GUID the tables do not know is "unknown", and a type they have no    *)
(* GUID for is written as basic data.                                          *)
Known == {"efi", "swap", "linux", "data"}
GptTypeToPartitionType(guid) == IF guid \in Known THEN guid ELSE "unknown"
PartitionTypeToGptGuid(type) == IF type \in Known THEN type ELSE "data"

PartitionScanMBR(m, k) == IF m.signed THEN Scheme("mbr", MbrPartitions(m)) ELSE k

(* A checksum that does not agree is only reported. *)
GptReadHeader(m) == m.header

PartitionScanGPT(m, k) ==
  IF GptReadHeader(m)
  THEN LET used == SelectSeq(m.table, LAMBDA e : ~Unused(e))
       IN  Scheme("gpt", [i \in 1..Len(used) |->
             [Found(used[i], FALSE) EXCEPT !.type = GptTypeToPartitionType(@)]])
  ELSE k

Protected(m) == \E i \in 1..PrimarySlots : m.slots[i].type = "protective" /\ m.slots[i].count > 0

PartitionScan(m) ==
  IF ~m.signed THEN Scheme("none", <<>>)
  ELSE IF Protected(m) /\ GptReadHeader(m) THEN PartitionScanGPT(m, Scheme("none", <<>>))
  ELSE PartitionScanMBR(m, Scheme("none", <<>>))

(* Disk.PartitionCount counts the primary ones only. *)
PartitionCount == Len(SelectSeq(known.parts, LAMBDA p : ~p.logical))
------------------------------------------------------------------------------
(* An operation's writes: to is the part of the medium, val what it holds      *)
(* then; when the write fails the operation ends ("stop"), leaves out the next *)
(* one ("skip"), or goes on.  torn: memory may be behind the disk.             *)
To(part, val, fails) == [part |-> part, val |-> val, fails |-> fails]

Nothing == [kind |-> "none", writes |-> <<>>, rescan |-> "none", before |-> {}, named |-> {},
            torn |-> FALSE, forced |-> FALSE, commands |-> 0]

Placed(m) == {[type |-> p.type, start |-> p.start, count |-> p.count] : p \in
                {PartitionScan(m).parts[i] : i \in 1..Len(PartitionScan(m).parts)}}

Begin(kind, writes, rescan, named, forced) ==
  /\ tabling.writes = <<>> /\ tabling.commands < MaxCommands
  /\ tabling' = [kind |-> kind, writes |-> writes, rescan |-> rescan,
                 before |-> Placed(medium), named |-> named, torn |-> tabling.torn,
                 forced |-> tabling.forced \/ forced, commands |-> tabling.commands + 1]
  /\ UNCHANGED <<medium, known>>

(* One write by the drive.  What is left of the operation ends with a scan of  *)
(* the scheme it wrote.                                                        *)
RescanNone(m) == known
Rescan(m) == CASE tabling.rescan = "gpt" -> PartitionScanGPT(m, known)
               [] tabling.rescan = "mbr" -> PartitionScanMBR(m, known)
Left(ok) == CASE ok \/ tabling.writes[1].fails = "go" -> Tail(tabling.writes)
              [] ~ok /\ tabling.writes[1].fails = "skip" -> Tail(Tail(tabling.writes))
              [] OTHER -> <<>>

WriteNext ==
  /\ tabling.writes # <<>>
  /\ \E ok \in BOOLEAN :
       LET w == tabling.writes[1]
           m == IF ok THEN [medium EXCEPT ![w.part] = w.val] ELSE medium
           stopped == ~ok /\ w.fails = "stop"
       IN  /\ medium' = IF ok /\ w.part = "slots" THEN [m EXCEPT !.signed = TRUE] ELSE m
           /\ tabling' = [tabling EXCEPT !.writes = Left(ok), !.torn = @ \/ stopped]
           /\ known' = IF Left(ok) = <<>> /\ ~stopped THEN Rescan(medium') ELSE known

(* The power goes; at the next boot DiskMgrRegisterDisk scans the disk. *)
Restart ==
  /\ tabling.writes # <<>> \/ tabling.torn
  /\ known' = PartitionScan(medium)
  /\ tabling' = [tabling EXCEPT !.writes = <<>>, !.torn = FALSE]
  /\ UNCHANGED medium
------------------------------------------------------------------------------
(* GPT.  What is written follows from the disk alone, not from memory.         *)
GptWrites(table) == <<To("table", table, "stop"), To("header", TRUE, "stop"),
                      To("bakTable", table, "skip"), To("bakHeader", TRUE, "go")>>

GptInitDisk ==
  /\ DiskSectors >= MinGptSectors
  /\ Begin("init", <<To("slots", [EmptySlots EXCEPT ![1] = Entry("protective", 1, DiskSectors)],
                        "stop"),
                     To("table", EmptyTable, "stop"), To("header", TRUE, "stop"),
                     To("bakTable", EmptyTable, "stop"), To("bakHeader", TRUE, "go")>>,
           "gpt", Placed(medium), FALSE)

(* An entry that starts there is rewritten; otherwise the first free one is. *)
Lowest(S) == CHOOSE i \in S : \A j \in S : i <= j
Starting(start) == {i \in 1..GptEntries : medium.table[i].type # "zero"
                                          /\ medium.table[i].start = start}
FreeEntries == {i \in 1..GptEntries : medium.table[i].type = "zero"}
EntryFor(start) == IF Starting(start) # {} THEN Lowest(Starting(start)) ELSE Lowest(FreeEntries)

PartitionCreateGPT(start, count, type, forced) ==
  /\ count > 0 /\ start + count <= DiskSectors
  /\ GptReadHeader(medium)
  /\ Starting(start) \cup FreeEntries # {}
  /\ LET i == EntryFor(start)
     IN  Begin("create", GptWrites([medium.table EXCEPT
               ![i] = Entry(PartitionTypeToGptGuid(type), start, count)]),
               "gpt", {p \in Placed(medium) : p.start = start}, forced)

(* The k-th entry that has a type; the backup is left as it was. *)
Kth(k) == {i \in 1..GptEntries : /\ medium.table[i].type # "zero"
                                 /\ k = Len(SelectSeq(SubSeq(medium.table, 1, i),
                                                      LAMBDA e : e.type # "zero"))}
NamedBy(k) == {Entry(p.type, p.start, p.count) : p \in
                 {known.parts[i] : i \in {j \in 1..Len(known.parts) : known.parts[j].index = k}}}

PartitionDeleteGPT(k) ==
  /\ GptReadHeader(medium) /\ Kth(k) # {}
  /\ Begin(IF tabling.torn THEN "blind" ELSE "delete",
           <<To("table", [medium.table EXCEPT ![Lowest(Kth(k))] = NoEntry], "stop"),
             To("header", TRUE, "go")>>, "gpt",
           NamedBy(k), FALSE)
------------------------------------------------------------------------------
(* MBR.  A sector without a signature is first written blank.                  *)
Signed == IF medium.signed THEN medium.slots ELSE EmptySlots
FreeSlots == {i \in 1..PrimarySlots : Unused(Signed[i])}

PartitionCreateMBR(start, count, type, forced) ==
  /\ PartitionCount < PrimarySlots
  /\ count > 0 /\ start + count <= DiskSectors
  /\ known.scheme # "gpt"
  /\ LET blank == IF medium.signed THEN <<>> ELSE <<To("slots", EmptySlots, "stop")>>
         named == IF FreeSlots = {} THEN <<>>
                  ELSE <<To("slots", [Signed EXCEPT ![Lowest(FreeSlots)] =
                                                      Entry(type, start, count)], "stop")>>
     IN  /\ blank \o named # <<>>
         /\ Begin("create", blank \o named, "mbr", {}, forced)

(* The slot is the partition's number less one. *)
SlotOf(k) == k
PartitionDeleteMBR(k) ==
  /\ k \in 1..PrimarySlots /\ known.scheme # "gpt" /\ medium.signed
  /\ Begin("mbrDelete", <<To("slots", [medium.slots EXCEPT ![SlotOf(k)] = NoEntry], "stop")>>,
           "mbr", NamedBy(k), FALSE)
------------------------------------------------------------------------------
(* The commands (Source/Cmd/DiskMgr.c) read the partition list of memory.      *)
AlignUp(n) == ((n + Align - 1) \div Align) * Align
Ends == {First} \cup {known.parts[i].start + known.parts[i].count : i \in
                        {j \in 1..Len(known.parts) : ~known.parts[j].logical}}
Highest(S) == CHOOSE n \in S : \A k \in S : k <= n
DefaultGptStart == AlignUp(Highest(Ends))
DefaultMbrStart(count) == IF DiskSectors - count < First THEN First ELSE DiskSectors - count

CmdCreate(count, type) ==
  IF known.scheme = "gpt"
  THEN PartitionCreateGPT(DefaultGptStart, count, type, FALSE)
  ELSE PartitionCreateMBR(DefaultMbrStart(count), count, type, TRUE)

CmdCreateAt(start, count, type) ==
  IF known.scheme = "gpt"
  THEN PartitionCreateGPT(start, count, type, TRUE)
  ELSE PartitionCreateMBR(start, count, type, TRUE)

CmdInit == GptInitDisk

CmdDelete(k) == IF known.scheme = "gpt" THEN PartitionDeleteGPT(k) ELSE PartitionDeleteMBR(k)

(* The entry is written again, with another name and the type that memory has. *)
CmdLabel(i) ==
  /\ known.scheme = "gpt" /\ i \in 1..Len(known.parts)
  /\ PartitionCreateGPT(known.parts[i].start, known.parts[i].count, known.parts[i].type, FALSE)

PartInit ==
  /\ medium \in Media
  /\ known = PartitionScan(medium)
  /\ tabling = Nothing

Command ==
  \/ CmdInit
  \/ \E count \in Sizes, type \in PartTypes : CmdCreate(count, type)
  \/ \E start \in Starts, count \in Sizes, type \in PartTypes : CmdCreateAt(start, count, type)
  \/ \E k \in 1..(PrimarySlots + GptEntries) : CmdDelete(k)
  \/ \E i \in 1..GptEntries : CmdLabel(i)

PartNext == Command \/ WriteNext \/ Restart
------------------------------------------------------------------------------
Extent == [type : PartTypes \cup Known \cup {"zero", "protective", "extended", "other"},
           start : 0..DiskSectors, count : 0..DiskSectors]
PartTypeOK ==
  /\ medium.slots \in [1..PrimarySlots -> Extent] /\ medium.signed \in BOOLEAN
  /\ medium.table \in [1..GptEntries -> Extent] /\ medium.bakTable \in [1..GptEntries -> Extent]
  /\ known.scheme \in {"none", "mbr", "gpt"}
  /\ Len(known.parts) <= PrimarySlots + GptEntries + Len(medium.chain)
  /\ tabling.commands \in 0..MaxCommands

(* Between commands, unless a write has failed since the disk was registered,  *)
(* the list in memory is what a scan of the disk would find: the scan that     *)
(* ends a command looks at the tables it wrote, DiskMgrRegisterDisk at all.    *)
TableAgrees == tabling.writes = <<>> /\ ~tabling.torn => known = PartitionScan(medium)

(* Wherever a command is stopped, by a failed write or by the end of the       *)
(* power, every partition it did not name is still found: each write leaves a  *)
(* table that can be scanned.  (Not after gpt initialisation, which erases     *)
(* them all; not for an MBR deletion; not for one asked for after a failed      *)
(* write, when the numbers listed are not those of the disk.)                  *)
OthersKept == tabling.kind \in {"create", "delete"} =>
                tabling.before \ tabling.named \subseteq Placed(medium)

(* GPT partitions placed by the command itself never share a sector: the start *)
(* it computes from memory is past every one on the disk, also after a failed  *)
(* write has left memory behind the disk.                                      *)
Overlap(p, q) == p.start < q.start + q.count /\ q.start < p.start + p.count
DefaultsDisjoint ==
  known.scheme = "gpt" /\ ~tabling.forced /\ tabling.kind # "init" =>
    \A p, q \in Placed(medium) : p # q => ~Overlap(p, q)

(* "diskmgr delete <disk> <idx>  Delete partition" (Source/Cmd/DiskMgr.c:1218):*)
(* the partition listed under that number is the one that goes.                *)
DeleteRemovesNamed ==
  tabling.kind = "mbrDelete" => tabling.before \ tabling.named \subseteq Placed(medium)
==============================================================================

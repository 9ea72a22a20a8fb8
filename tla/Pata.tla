-------------------------------- MODULE Pata --------------------------------
(* The IDE driver (Source/Drivers/Disk/Pata.c).  A channel's two drives share  *)
(* one set of registers, and nothing in the driver keeps two threads apart on  *)
(* them, so every access that the other drive or thread could disturb is a     *)
(* step.  Bus mastering never gets past its first guard (Pci.c:136 clears the  *)
(* bit of the BAR that PataDetectDMA tests), so every transfer is by PIO, and  *)
(* the request queues stay empty.  The drives are external: one that works on  *)
(* a command either ignores what is written to its registers, or takes it.     *)
(* The second channel holds one optical drive, and a packet is one step.       *)
EXTENDS Integers, Sequences

CONSTANTS Thread,     \* threads that use the disks of the first channel
          Drive,      \* the ATA drives on it, 0 and 1
          TotalSectors,
          MaxChunk,   \* 255: sectors that one command may ask for
          MaxCount,   \* sectors that one call may ask for
          Disc,       \* sizes of the discs, 0 for none; a size names a disc
          MaxStrange  \* bounds the ghost opt.strange

VARIABLES reg,    \* the channel's registers: sel, lba, nsect
          dev,    \* the command the selected drive works on
          call,   \* what each thread is doing
          cached, \* drives that hold written sectors in their cache
          upset,  \* ghost: a call has given up a command in progress, or lost its error
          opt     \* the optical drive, the driver's view of it, and ghosts

ataVars == <<reg, dev, call, cached, upset>>
pataVars == <<reg, dev, call, cached, upset, opt>>

Ended(how) == [pc |-> "idle", op |-> how, drive |-> 0, lba |-> 0, count |-> 0,
               remaining |-> 0, moved |-> <<>>]
Resting(kind) == [kind |-> kind, st |-> "idle", op |-> "none", drive |-> 0, at |-> 0, left |-> 0]

Active == dev.st \in {"busy", "drq"}
Deaf == Active /\ dev.kind = "ignores"
Status == IF reg.sel = dev.drive THEN dev.st ELSE "idle"

Goto(t, pc) == call' = [call EXCEPT ![t].pc = pc]

(* A call that answers keeps what it asked for and moved, for AnswerIsOwn.     *)
(* There is no reset: a command that is given up goes on.                      *)
Answer(t, how) == /\ call' = [call EXCEPT ![t].pc = "idle", ![t].op = how]
                  /\ upset' = (upset \/ Active)
------------------------------------------------------------------------------
(* Calls.  PataReadSectors and PataWriteSectors go through the asynchronous    *)
(* ones, whose PataDmaTransfer is refused.                                     *)
PataTransfer(t, op, d, lba, n) ==
  /\ call[t].pc = "idle"
  /\ call' = [call EXCEPT ![t] =
       IF lba + n > TotalSectors THEN Ended("DEVICE_INVALID")
       ELSE [pc |-> "select", op |-> op, drive |-> d, lba |-> lba, count |-> n,
             remaining |-> n, moved |-> <<>>]]
  /\ UNCHANGED <<reg, dev, cached, upset>>

PataReadSectors(t) ==
  \E d \in Drive, lba \in 0..(TotalSectors - 1), n \in 1..MaxCount : PataTransfer(t, "read", d, lba, n)
PataWriteSectors(t) ==
  \E d \in Drive, lba \in 0..(TotalSectors - 1), n \in 1..MaxCount : PataTransfer(t, "write", d, lba, n)

Moved(c) == c.count - c.remaining

(* One command for every sector, though each asks for all that remain. *)
SelectDeviceAndDelay(t) ==
  /\ call[t].pc = "select"
  /\ reg' = IF Deaf THEN reg ELSE [reg EXCEPT !.sel = call[t].drive]
  /\ Goto(t, "regs")
  /\ UNCHANGED <<dev, cached, upset>>

NextLbaStuck(c) == c.lba
NextLba(c) == c.lba + Moved(c)
ChunkUncapped(c) == c.remaining
Chunk(c) == IF c.remaining < MaxChunk THEN c.remaining ELSE MaxChunk
SetupLbaRegs(t) ==
  /\ call[t].pc = "regs"
  /\ reg' = IF Deaf THEN reg
            ELSE [reg EXCEPT !.lba = NextLba(call[t]), !.nsect = Chunk(call[t])]
  /\ Goto(t, "command")
  /\ UNCHANGED <<dev, cached, upset>>

(* The drive that reg.sel names begins.  A drive that ignores registers while  *)
(* it works and fails before the command is written has kept the old sector    *)
(* number: the error of the last command is lost and that command made again.  *)
Begun(op) == IF Deaf THEN dev
             ELSE [dev EXCEPT !.st = "busy", !.op = op, !.drive = reg.sel, !.at = reg.lba,
                              !.left = IF op = "flush" THEN 0 ELSE reg.nsect]
Command(t) ==
  /\ call[t].pc = "command"
  /\ dev' = Begun(call[t].op)
  /\ Goto(t, IF call[t].op = "flush" THEN "finish" ELSE "begun")
  /\ upset' = (upset \/ (dev.st = "err" /\ Moved(call[t]) > 0))
  /\ UNCHANGED <<reg, cached>>

(* WaitBsyClear, in its four places: before a flush, after a command, after a  *)
(* written sector, after a flush.                                              *)
AfterBsy(pc) == CASE pc = "flush" -> "command" [] pc = "begun" -> "drq"
                  [] pc \in {"written", "finish"} -> "check"
WaitBsyClear(t) ==
  /\ call[t].pc \in {"flush", "begun", "written", "finish"}
  /\ \/ /\ Status # "busy" /\ Goto(t, AfterBsy(call[t].pc)) /\ UNCHANGED upset
     \/ /\ Status = "busy" /\ Answer(t, "TIMEOUT")
  /\ UNCHANGED <<reg, dev, cached>>

WaitDrqOrErr(t) ==
  /\ call[t].pc = "drq"
  /\ \/ /\ Status = "drq" /\ Goto(t, "data") /\ UNCHANGED upset
     \/ /\ Status # "drq" /\ Answer(t, "DEVICE_ERROR")
  /\ UNCHANGED <<reg, dev, cached>>

(* One sector through the data port.  A drive that is not ready for it gives   *)
(* or takes nothing.                                                           *)
Transfers(t) == Status = "drq" /\ dev.op = call[t].op
DataPort(t) ==
  /\ call[t].pc = "data"
  /\ IF Transfers(t)
     THEN /\ call' = [call EXCEPT
               ![t].moved = Append(@, [op |-> dev.op, drive |-> dev.drive, lba |-> dev.at]),
               ![t].pc = IF dev.op = "write" THEN "written" ELSE "check"]
          /\ dev' = [dev EXCEPT !.at = @ + 1, !.left = @ - 1,
                       !.st = IF dev.op = "read" /\ dev.left = 1 THEN "idle" ELSE "busy"]
          /\ cached' = IF dev.op = "write" THEN cached \cup {dev.drive} ELSE cached
     ELSE /\ call' = [call EXCEPT
               ![t].moved = Append(@, [op |-> "nothing", drive |-> 0, lba |-> 0]),
               ![t].pc = IF call[t].op = "write" THEN "written" ELSE "check"]
          /\ UNCHANGED <<dev, cached>>
  /\ UNCHANGED <<reg, upset>>

CheckErrAndClear(t) ==
  /\ call[t].pc = "check"
  /\ IF Status = "err" THEN Answer(t, "DEVICE_ERROR")
     ELSE IF call[t].op = "flush" \/ call[t].remaining = 1 THEN Answer(t, "SUCCESS")
     ELSE /\ call' = [call EXCEPT ![t].remaining = @ - 1, ![t].pc = "select"]
          /\ UNCHANGED upset
  /\ UNCHANGED <<reg, dev, cached>>

(* PataFlushCache selects no drive: the command goes to the one last selected. *)
PataFlushCache(t) ==
  /\ call[t].pc = "idle"
  /\ \E d \in Drive : call' = [call EXCEPT ![t] =
       [Ended("flush") EXCEPT !.pc = "flush", !.drive = d]]
  /\ UNCHANGED <<reg, dev, cached, upset>>

(* The drive: it has a sector ready or wants one, has finished, or has failed. *)
Device ==
  /\ dev.st = "busy"
  /\ \/ dev.left > 0 /\ dev' = [dev EXCEPT !.st = "drq"] /\ UNCHANGED cached
     \/ /\ dev.left = 0 /\ dev' = [dev EXCEPT !.st = "idle"]
        /\ cached' = IF dev.op = "flush" THEN cached \ {dev.drive} ELSE cached
     \/ dev' = [dev EXCEPT !.st = "err"] /\ UNCHANGED cached
  /\ UNCHANGED <<reg, call, upset>>
------------------------------------------------------------------------------
(* The optical drive.  A packet fails when the disc has been changed since the *)
(* last one (unit attention), when there is none, and for faults.              *)
Packet(o, fault) ==
  CASE fault       -> [ok |-> FALSE, o |-> [o EXCEPT !.sense = "fault"]]
    [] o.attention -> [ok |-> FALSE, o |-> [o EXCEPT !.sense = "attention", !.attention = FALSE]]
    [] o.disc = 0  -> [ok |-> FALSE, o |-> [o EXCEPT !.sense = "no medium"]]
    [] OTHER       -> [ok |-> TRUE, o |-> o]

SenseMissesAttention(o) == [o EXCEPT !.present = @ /\ o.sense # "no medium"]
PataAtapiRequestSense(o) ==
  [o EXCEPT !.present = @ /\ o.sense \notin {"no medium", "attention"}]

(* The ghost known is the disc that the drive had when it last was ready. *)
PataAtapiTestUnitReady(o, fault) ==
  LET r == Packet(o, fault)
  IN  IF r.ok THEN [ok |-> TRUE, o |-> [r.o EXCEPT !.present = TRUE, !.known = o.disc, !.strange = 0]]
      ELSE [ok |-> FALSE, o |-> PataAtapiRequestSense(r.o)]

PataAtapiReadCapacity(o, fault) ==
  LET r == Packet(o, fault)
  IN  IF r.ok THEN [r.o EXCEPT !.total = o.disc]
      ELSE [r.o EXCEPT !.missed = @ \/ r.o.sense = "attention"]

ReadyAndCapacity(o, f, g) ==
  LET r == PataAtapiTestUnitReady(o, f)
  IN  IF r.ok THEN PataAtapiReadCapacity(r.o, g) ELSE r.o

(* IDENTIFY PACKET, INQUIRY, then the medium. *)
PataIdentify(o, f, g) == ReadyAndCapacity([o EXCEPT !.state = "found"], f, g)

(* A drive that shows no sectors is refused by PataRegisterDisk, here 0;       *)
(* Disk.SectorCount is set nowhere else.                                       *)
PataRegisterDisk(o) == o.total
PataInit ==
  /\ opt.state = "absent"
  /\ \E f, g \in BOOLEAN :
       LET o == PataIdentify(opt, f, g)
       IN  opt' = [o EXCEPT !.sectors = PataRegisterDisk(o)]
  /\ UNCHANGED ataVars

PataAtapiRescan ==
  /\ opt.state = "found"
  /\ \E f, g \in BOOLEAN : opt' = ReadyAndCapacity(opt, f, g)
  /\ UNCHANGED ataVars

(* One repetition after a failure, whatever RequestSense has found. *)
PataAtapiReadSectors ==
  /\ opt.state = "found" /\ opt.present
  /\ \E last \in 1..opt.total, f, g \in BOOLEAN :
       LET Try(o, fault) == IF last > o.disc /\ o.disc > 0 THEN Packet(o, TRUE) ELSE Packet(o, fault)
           r1 == Try(opt, f)
           r2 == Try(PataAtapiRequestSense(r1.o), g)
           r  == IF r1.ok THEN r1 ELSE r2
       IN  opt' = IF r.ok /\ r.o.disc # r.o.known
                  THEN [r.o EXCEPT !.strange = IF @ < MaxStrange THEN @ + 1 ELSE @]
                  ELSE [r.o EXCEPT !.missed = @ \/ (~r.ok /\ r.o.sense = "attention")]
  /\ UNCHANGED ataVars

(* The user changes the disc. *)
ChangeDisc ==
  /\ \E d \in Disc : d # opt.disc /\ opt' = [opt EXCEPT !.disc = d, !.attention = d > 0]
  /\ UNCHANGED ataVars
------------------------------------------------------------------------------
PataStart ==
  /\ reg = [sel |-> 0, lba |-> 0, nsect |-> 0]
  /\ \E k \in {"ignores", "restarts"} : dev = Resting(k)
  /\ call = [t \in Thread |-> Ended("none")]
  /\ cached = {} /\ upset = FALSE
  /\ \E d \in Disc : opt = [state |-> "absent", disc |-> d, attention |-> d > 0, sense |-> "none",
                            present |-> FALSE, total |-> 0, sectors |-> 0, known |-> 0,
                            strange |-> 0, missed |-> FALSE]

AtaStep(t) == \/ PataReadSectors(t) \/ PataWriteSectors(t) \/ SelectDeviceAndDelay(t)
              \/ SetupLbaRegs(t) \/ Command(t) \/ WaitBsyClear(t) \/ WaitDrqOrErr(t) \/ DataPort(t)
              \/ CheckErrAndClear(t) \/ PataFlushCache(t)
AtaNext == (\E t \in Thread : AtaStep(t)) \/ Device
AtapiNext == PataInit \/ PataAtapiRescan \/ PataAtapiReadSectors \/ ChangeDisc

PataNext == \/ AtaNext /\ UNCHANGED opt
            \/ AtapiNext
------------------------------------------------------------------------------
PataTypeOK ==
  /\ reg \in [sel : Drive, lba : 0..TotalSectors, nsect : 0..MaxChunk]
  /\ dev.st \in {"idle", "busy", "drq", "err"} /\ dev.drive \in Drive
  /\ dev.left \in 0..MaxChunk /\ dev.at \in 0..TotalSectors
  /\ \A t \in Thread : Len(call[t].moved) <= MaxCount
  /\ cached \subseteq Drive

(* A read or write that answers SUCCESS has moved its own drive's sectors, in  *)
(* order, and a flush that does has emptied the cache of its drive, if that is *)
(* the one last selected.  It is claimed while no call has given up a command  *)
(* or lost an error, and does not hold for two threads: no lock keeps them     *)
(* apart.                                                                      *)
Own(c, op) == [i \in 1..c.count |-> [op |-> op, drive |-> c.drive, lba |-> c.lba + i - 1]]
AnswerIsOwn ==
  \A t \in Thread : LET c == call[t] IN
    (c.op = "SUCCESS" /\ ~upset) =>
       /\ c.count > 0 => c.moved \in {Own(c, "read"), Own(c, "write")}
       /\ c.count = 0 /\ c.drive = reg.sel => c.drive \notin cached

(* A flush that answers SUCCESS has emptied the cache of its drive. *)
FlushReachesDrive ==
  \A t \in Thread : LET c == call[t] IN
    c.op = "SUCCESS" /\ c.count = 0 /\ ~upset => c.drive \notin cached

(* After the disc is changed at most one read gives the new disc's sectors for *)
(* those of the disc the drive was last found ready with: the packet that is   *)
(* repeated after the unit attention.  It is claimed while no unit attention   *)
(* has been the answer to a repeated packet, after which nothing asks.         *)
OneStrangeRead == opt.missed \/ opt.strange <= 1
=============================================================================

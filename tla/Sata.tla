-------------------------------- MODULE Sata --------------------------------
(* The AHCI driver (Source/Drivers/Disk/Sata.c), one port of it, with a disk   *)
(* or an optical drive.  A transfer goes through one of the port's buffers and *)
(* a command slot: a disk's under PortLock, an optical drive's under no lock.  *)
(* Every access that another thread, the drive or the interrupt handler can    *)
(* come between is a step.  The drive and the controller are external.         *)
EXTENDS Integers, FiniteSets, FiniteSetsExt

CONSTANTS Thread,   \* threads that use the port's disk
          Buffers,  \* 8
          Slots,    \* 8
          Sectors,
          MaxChunk, \* 8: sectors of one command to a disk
          MaxCount, \* sectors of one call
          None

VARIABLES port, \* SataPort: status, atapi, lock, sem, present
          buf,  \* BufferLocks and what the buffers hold
          hba,  \* the port's registers: ci, is (TFES), err (in Tfd), halted; and sense
          tbl,  \* CmdTables: the command in every slot
          io,   \* what each thread is doing
          disks \* the disks that SataRegisterDisk has made of the port

sataVars == <<port, buf, hba, tbl, io, disks>>

Nothing == [how |-> "nothing", by |-> None, lba |-> 0]
NoCmd == [op |-> "none", by |-> None, lba |-> 0, count |-> 0, buf |-> 0]
NoIo == [pc |-> "idle", op |-> "none", stage |-> "none", lba |-> 0, count |-> 0, done |-> 0,
         buf |-> 0, slot |-> 0, ok |-> TRUE, moved |-> {}]

Goto(t, pc) == io' = [io EXCEPT ![t].pc = pc]
Chunk(c) == LET left == c.count - c.done IN IF left < MaxChunk THEN left ELSE MaxChunk
This(c) == IF port.atapi THEN 1 ELSE Chunk(c)
Lba(c) == c.lba + c.done
Ended(t, how) == io' = [io EXCEPT ![t] =
  [NoIo EXCEPT !.op = how, !.lba = io[t].lba, !.count = io[t].count, !.moved = io[t].moved]]
------------------------------------------------------------------------------
(* Boot.  A port whose memory runs out stays as it was and its pages are lost; *)
(* one that does not start is in error.  A disk that is not identified shows   *)
(* no sectors and is not registered, an optical drive always is.               *)
SataPortIdentify(identified) == [port EXCEPT !.status = "active", !.sectors = identified]
SataAtapiInit(ready) == [port EXCEPT !.status = "active", !.present = ready, !.sectors = ready]

SataPortInit == {[port EXCEPT !.lost = TRUE], [port EXCEPT !.status = "error"]} \cup
  {IF port.atapi THEN SataAtapiInit(ok) ELSE SataPortIdentify(ok) : ok \in BOOLEAN}

SataRegisterDisk(p) == IF p.atapi \/ p.sectors THEN 1 ELSE 0

SataInit ==
  /\ port.status = "uninitialized" /\ ~port.lost
  /\ port' \in SataPortInit
  /\ disks' = IF port'.status = "active" THEN SataRegisterDisk(port') ELSE 0
  /\ UNCHANGED <<buf, hba, tbl, io>>

Usable(t) == port.status = "active" /\ disks > 0 /\ io[t].pc = "idle"
Begin(t, op, pc, stage) ==
  \E l \in 0..(Sectors - 1), n \in 1..MaxCount :
    /\ l + n <= Sectors
    /\ io' = [io EXCEPT ![t] = [NoIo EXCEPT !.op = op, !.pc = pc, !.stage = stage,
                                            !.lba = l, !.count = n]]
    /\ UNCHANGED <<port, buf, hba, tbl, disks>>

SataPortRead(t) == Usable(t) /\ ~port.atapi /\ Begin(t, "read", "acquire", "access")
SataPortWrite(t) == Usable(t) /\ ~port.atapi /\ Begin(t, "write", "acquire", "access")
SataAtapiReadSectors(t) ==
  Usable(t) /\ port.atapi /\ port.present /\ Begin(t, "read", "idleTfd", "first")
SataAtapiRescan(t) ==
  /\ Usable(t) /\ port.atapi
  /\ io' = [io EXCEPT ![t] = [NoIo EXCEPT !.op = "rescan", !.pc = "idleTfd", !.stage = "ready"]]
  /\ UNCHANGED <<port, buf, hba, tbl, disks>>
------------------------------------------------------------------------------
(* SataAcquireBuffer: the semaphore, then the first buffer that is not locked. *)
TakeSemaphore(t) ==
  /\ io[t].pc = "acquire" /\ ~port.sem
  /\ port' = [port EXCEPT !.sem = TRUE]
  /\ Goto(t, "scan")
  /\ UNCHANGED <<buf, hba, tbl, disks>>

FreeBuffers == {b \in 1..Buffers : buf[b].lock = None}
(* After the buffer: a disk's chunk is copied in or the port locked; a packet  *)
(* gets its PRDT entry.                                                        *)
SataAcquireBuffer(t) ==
  /\ io[t].pc = "scan"
  /\ port' = [port EXCEPT !.sem = FALSE]
  /\ IF FreeBuffers = {} THEN Ended(t, "INCORRECT_VALUE") /\ UNCHANGED buf
     ELSE LET b == Min(FreeBuffers) IN
       /\ buf' = [buf EXCEPT ![b].lock = t]
       /\ io' = [io EXCEPT ![t].buf = b,
                           ![t].pc = IF port.atapi THEN "issue"
                                     ELSE IF io[t].op = "write" THEN "copyIn" ELSE "lock"]
  /\ UNCHANGED <<hba, tbl, disks>>

CopyIn(t) ==
  /\ io[t].pc = "copyIn"
  /\ buf' = [buf EXCEPT ![io[t].buf].holds = [how |-> "write", by |-> t, lba |-> Lba(io[t])]]
  /\ Goto(t, "lock")
  /\ UNCHANGED <<port, hba, tbl, disks>>

LockFree == port.lock = None
SataPortLock(t) ==
  /\ io[t].pc = "lock" /\ LockFree
  /\ port' = [port EXCEPT !.lock = t]
  /\ Goto(t, "slot")
  /\ UNCHANGED <<buf, hba, tbl, disks>>

(* SataWaitTfdIdle before a packet, whose time may run out. *)
SataWaitTfdIdle(t) ==
  /\ io[t].pc = "idleTfd"
  /\ IF hba.ci = {} THEN Goto(t, "slot") ELSE io' = [io EXCEPT ![t].ok = FALSE, ![t].pc = "packed"]
  /\ UNCHANGED <<port, buf, hba, tbl, disks>>

SataFindCmdSlot(t) ==
  /\ io[t].pc = "slot"
  /\ LET free == (1..Slots) \ hba.ci
         left == IF port.atapi THEN "packed" ELSE "unlock" IN
     io' = IF free = {} THEN [io EXCEPT ![t].ok = FALSE, ![t].pc = left]
           ELSE [io EXCEPT ![t].slot = Min(free), ![t].pc = "program"]
  /\ UNCHANGED <<port, buf, hba, tbl, disks>>

(* The command table.  A packet without data needs no buffer. *)
HasData(c) == c.op = "write" \/ c.stage \notin {"ready"}
Commanded(t) == LET c == io[t] IN
  [op |-> IF c.stage \in {"access", "first", "again"} THEN c.op ELSE c.stage, by |-> t,
   lba |-> Lba(c), count |-> This(c), buf |-> c.buf]
Program(t) ==
  /\ io[t].pc = "program"
  /\ tbl' = [tbl EXCEPT ![io[t].slot] = Commanded(t)]
  /\ Goto(t, IF port.atapi /\ HasData(io[t]) THEN "acquire" ELSE "issue")
  /\ UNCHANGED <<port, buf, hba, disks>>

(* The interrupt bits are cleared, and the slot is looked at once more.        *)
(* Whether the last command's ERR stays until the drive answers is its affair. *)
Polled == IF port.atapi THEN "copyOut" ELSE "unlock"
Issue(t) ==
  /\ io[t].pc = "issue"
  /\ LET s == io[t].slot IN
     IF s \in hba.ci
     THEN /\ io' = [io EXCEPT ![t].ok = FALSE, ![t].pc = Polled]
          /\ UNCHANGED <<hba, tbl>>
     ELSE /\ \E err \in {hba.err, FALSE} :
               hba' = [hba EXCEPT !.ci = @ \cup {s}, !.is = FALSE, !.err = err]
          /\ tbl' = IF port.atapi THEN [tbl EXCEPT ![s].buf = io[t].buf] ELSE tbl
          /\ Goto(t, "poll")
  /\ UNCHANGED <<port, buf, disks>>

(* The drive carries out a command of a slot as its table is by then.  Every   *)
(* sector of a chunk moves at once.  A failed command stops the port.          *)
Moves(c) == c.op \in {"read", "write"}
Written(c) == buf[c.buf].holds = [how |-> "write", by |-> c.by, lba |-> c.lba]
HbaDone(s) == LET c == tbl[s] IN
  /\ hba' = [hba EXCEPT !.ci = @ \ {s}, !.err = FALSE]
  /\ buf' = IF c.op = "read" /\ c.buf > 0
            THEN [buf EXCEPT ![c.buf].holds = [how |-> "read", by |-> None, lba |-> c.lba]]
            ELSE buf
  /\ io' = IF c.op = "write" /\ Written(c)
           THEN [io EXCEPT ![c.by].moved = @ \cup c.lba..(c.lba + c.count - 1)] ELSE io
HbaFailed(s) ==
  /\ \E sense \in {"attention", "fault"} :
       hba' = [hba EXCEPT !.err = TRUE, !.is = TRUE, !.halted = TRUE,
                          !.sense = IF port.atapi THEN sense ELSE @]
  /\ UNCHANGED <<buf, io>>
Hba == /\ ~hba.halted
       /\ \E s \in hba.ci : HbaDone(s) \/ HbaFailed(s)
       /\ UNCHANGED <<port, tbl, disks>>

(* The interrupt handler takes the bit that the polling loop also looks for;   *)
(* nobody waits on SlotWait.                                                   *)
SataProcessPortInterrupt ==
  /\ port.status = "active" /\ hba.is
  /\ hba' = [hba EXCEPT !.is = FALSE]
  /\ UNCHANGED <<port, buf, tbl, io, disks>>

(* Stopping the port empties Ci. *)
SataDisablePort(h) == [h EXCEPT !.ci = {}]
SataEnablePort(h) == [h EXCEPT !.halted = FALSE]
SataRecoverPort == hba' = SataEnablePort([SataDisablePort(hba) EXCEPT !.is = FALSE])

(* SataExecuteCommand and SataAtapiPacketEx end: an error or a time that has   *)
(* run out with the slot still set restarts the port.                          *)
Poll(t) ==
  /\ io[t].pc = "poll"
  /\ \/ /\ io[t].slot \notin hba.ci
        /\ io' = [io EXCEPT ![t].ok = ~hba.err, ![t].pc = Polled]
        /\ UNCHANGED hba
     \/ /\ io[t].slot \in hba.ci
        /\ io' = [io EXCEPT ![t].ok = FALSE, ![t].pc = Polled]
        /\ SataRecoverPort
  /\ UNCHANGED <<port, buf, tbl, disks>>

SataPortUnlock(t) ==
  /\ io[t].pc = "unlock"
  /\ port' = [port EXCEPT !.lock = None]
  /\ Goto(t, "copyOut")
  /\ UNCHANGED <<buf, hba, tbl, disks>>

(* A read that has succeeded is copied, and the buffer released.               *)
CopyOut(t) ==
  /\ io[t].pc = "copyOut"
  /\ LET c == io[t]
         mine == c.op = "read" /\ c.stage \in {"access", "first", "again"} /\ c.ok
         own == mine /\ buf[c.buf].holds = [how |-> "read", by |-> None, lba |-> Lba(c)]
     IN io' = [io EXCEPT
          ![t].moved = IF own THEN @ \cup Lba(c)..(Lba(c) + This(c) - 1) ELSE @,
          ![t].pc = IF c.buf > 0 THEN "release" ELSE "packed"]
  /\ UNCHANGED <<port, buf, hba, tbl, disks>>

(* SataReleaseBuffer lets go of the semaphore too, which another may hold.     *)
ReleaseUnlessFailed(t) == IF io[t].ok THEN [buf EXCEPT ![io[t].buf].lock = None] ELSE buf
Released(t) == [buf EXCEPT ![io[t].buf] = [lock |-> None, holds |-> Nothing]]
SataReleaseBuffer(t) ==
  /\ io[t].pc = "release"
  /\ buf' = Released(t)
  /\ port' = [port EXCEPT !.sem = FALSE]
  /\ io' = [io EXCEPT ![t].buf = 0, ![t].pc = "packed"]
  /\ UNCHANGED <<hba, tbl, disks>>
------------------------------------------------------------------------------
(* What follows a command: the next chunk or sector, or for a packet that has  *)
(* failed, REQUEST SENSE and one repetition.                                   *)
Advanced(c) == LET done == c.done + This(c) IN
  [c EXCEPT !.done = done, !.stage = IF port.atapi THEN "first" ELSE "access", !.slot = 0,
            !.pc = IF port.atapi THEN "idleTfd" ELSE "acquire"]
ToStage(t, stage) ==
  io' = [io EXCEPT ![t].stage = stage, ![t].ok = TRUE, ![t].pc = "idleTfd", ![t].slot = 0]

Continue(t) == LET c == io[t] IN
  /\ c.pc = "packed" /\ c.stage \in {"access", "first", "again"}
  /\ IF c.ok THEN IF Advanced(c).done < c.count THEN io' = [io EXCEPT ![t] = Advanced(c)]
                  ELSE Ended(t, "SUCCESS")
     ELSE IF c.stage = "first" THEN ToStage(t, "sense") ELSE Ended(t, "DEVICE_ERROR")
  /\ UNCHANGED <<port, buf, hba, tbl, disks>>

SataAtapiRequestSense(t) ==
  /\ io[t].pc = "packed" /\ io[t].stage \in {"sense", "readySense"}
  /\ port' = [port EXCEPT !.present = @ /\ ~(io[t].ok /\ hba.sense = "attention")]
  /\ IF io[t].stage = "sense" THEN ToStage(t, "again") ELSE Ended(t, "DEVICE_ERROR")
  /\ UNCHANGED <<buf, hba, tbl, disks>>

SataAtapiTestUnitReady(t) ==
  /\ io[t].pc = "packed" /\ io[t].stage = "ready"
  /\ port' = [port EXCEPT !.present = @ \/ io[t].ok]
  /\ ToStage(t, IF io[t].ok THEN "capacity" ELSE "readySense")
  /\ UNCHANGED <<buf, hba, tbl, disks>>

(* Whether it answers or not, SataAtapiRescan succeeds. *)
SataAtapiReadCapacity(t) ==
  /\ io[t].pc = "packed" /\ io[t].stage = "capacity"
  /\ Ended(t, "SUCCESS")
  /\ UNCHANGED <<port, buf, hba, tbl, disks>>
------------------------------------------------------------------------------
SataStart ==
  /\ \E atapi \in BOOLEAN :
       port = [status |-> "uninitialized", atapi |-> atapi, lost |-> FALSE, sectors |-> FALSE,
               lock |-> None, sem |-> FALSE, present |-> FALSE]
  /\ buf = [b \in 1..Buffers |-> [lock |-> None, holds |-> Nothing]]
  /\ hba = [ci |-> {}, is |-> FALSE, err |-> FALSE, halted |-> FALSE, sense |-> "fault"]
  /\ tbl = [s \in 1..Slots |-> NoCmd]
  /\ io = [t \in Thread |-> NoIo]
  /\ disks = 0

IoStep(t) ==
  \/ SataPortRead(t) \/ SataPortWrite(t) \/ SataAtapiReadSectors(t) \/ SataAtapiRescan(t)
  \/ TakeSemaphore(t) \/ SataAcquireBuffer(t) \/ CopyIn(t) \/ SataPortLock(t)
  \/ SataWaitTfdIdle(t) \/ SataFindCmdSlot(t) \/ Program(t) \/ Issue(t) \/ Poll(t)
  \/ SataPortUnlock(t) \/ CopyOut(t) \/ SataReleaseBuffer(t) \/ Continue(t)
  \/ SataAtapiRequestSense(t) \/ SataAtapiTestUnitReady(t) \/ SataAtapiReadCapacity(t)

SataNext == SataInit \/ (\E t \in Thread : IoStep(t)) \/ Hba \/ SataProcessPortInterrupt
------------------------------------------------------------------------------
SataTypeOK ==
  /\ port.lock \in Thread \cup {None} /\ disks \in 0..1
  /\ hba.ci \subseteq 1..Slots
  /\ \A t \in Thread : io[t].buf \in 0..Buffers /\ io[t].done <= io[t].count

(* A transfer that answers SUCCESS has moved all of its sectors, and no others *)
(* in their place: no thread's buffer or command table is another's meanwhile. *)
(* It holds for a disk's users and for one user of an optical drive; two have  *)
(* no lock between the choice of a slot and its bit in Ci.                     *)
SectorsAreOwn ==
  \A t \in Thread : LET c == io[t] IN
    c.op = "SUCCESS" => c.moved = c.lba..(c.lba + c.count - 1)

(* Every locked buffer is a thread's that is in a transfer, whatever of it has *)
(* failed, so that the eight do not run out; no two have the same.             *)
BuffersHeld ==
  /\ \A b \in 1..Buffers : buf[b].lock # None => io[buf[b].lock].buf = b
  /\ \A t \in Thread : io[t].buf > 0 => buf[io[t].buf].lock = t
=============================================================================

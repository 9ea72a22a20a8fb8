--------------------------------- MODULE StdIo --------------------------------
(* Standard I/O (Source/Io/StdIo.c): the ring of the default console, the      *)
(* tasks that write to it and kconsoleout (Source/Basecon.c), which reads it   *)
(* and paints.  Every byte is a number of its own.                             *)
EXTENDS KObj, Sequences

CONSTANTS STDIO_RING_SIZE, STDIO_MSG_MAX,
          OutBuf,   \* the size of kconsoleout's Buf
          MaxBytes, \* bound: how many bytes are offered to the ring
          NoByte

Byte == 1..MaxBytes
Index == 0..(STDIO_RING_SIZE - 1)

ASSUME StdIoAssumption ==
  /\ {STDIO_RING_SIZE, STDIO_MSG_MAX, OutBuf} \subseteq Nat \ {0}
  /\ MaxBytes \in Nat /\ NoByte \notin Byte

VARIABLES ring,     \* StdioRing
          sent,     \* how many bytes have been offered to RingWrite
          accepted, \* the bytes it took, in order
          read      \* the bytes RingRead gave out, in order

ioVars == <<ring, sent, accepted, read>>
vars == <<objVars, ioVars>>

IoInit ==
  /\ Init
  /\ ring = [Buffer |-> [i \in Index |-> NoByte], Head |-> 0, Tail |-> 0, Count |-> 0]
  /\ sent = 0 /\ accepted = <<>> /\ read = <<>>
------------------------------------------------------------------------------
Least(a, b) == IF a < b THEN a ELSE b
NoWrap(i) == i
Wrap(i) == i % STDIO_RING_SIZE

(* The bytes of a message of that size. *)
Message(size) == [i \in 1..size |-> sent + i]

(* RingWrite takes the part of a message that is no longer than STDIO_MSG_MAX  *)
(* and finds room.                                                             *)
TakenWhole(size) == Least(size, STDIO_MSG_MAX)
Taken(size) == Least(Least(size, STDIO_MSG_MAX), STDIO_RING_SIZE - ring.Count)

RingWrite(msg) ==
  LET n == Taken(Len(msg))
      At(i) == (i - ring.Head) % STDIO_RING_SIZE
  IN /\ ring' = [Buffer |-> [i \in Index |-> IF At(i) < n THEN msg[At(i) + 1] ELSE ring.Buffer[i]],
                 Head |-> Wrap(ring.Head + n),
                 Tail |-> ring.Tail,
                 Count |-> ring.Count + n]
     /\ accepted' = accepted \o SubSeq(msg, 1, n)
     /\ sent' = sent + Len(msg)
     /\ UNCHANGED read

Contents(n) == [i \in 1..n |-> ring.Buffer[Wrap(ring.Tail + i - 1)]]

RingRead(n) ==
  /\ ring' = [ring EXCEPT !.Tail = Wrap(@ + n), !.Count = @ - n]
  /\ read' = read \o Contents(n)
  /\ UNCHANGED <<sent, accepted>>

(* The sizes of the next message; with MaxBytes used up, an empty one. *)
Sizes == IF sent < MaxBytes THEN 1..(MaxBytes - sent) ELSE {0}
------------------------------------------------------------------------------
(* StdIoWriteChannel: a reference to the console the channel is bound to, or   *)
(* to the default one, held for the length of the write.                       *)
ResolveChannel(t, next) ==
  /\ Idle(t) /\ t # KConsoleOut
  /\ \E c \in Out :
       LET o == IF held[t][c] = NoObj THEN "Basecon" ELSE held[t][c]
       IN /\ objs' = Ref(objs, o)
          /\ held' = [held EXCEPT ![t]["hand"] = o]
  /\ pc' = [pc EXCEPT ![t] = next]
  /\ UNCHANGED <<boot, tstate, access, ioVars>>

StdIoWriteChannel(t) == ResolveChannel(t, "write")
StdIoReadChannel(t) == t \in UserTask /\ ResolveChannel(t, "read")

ChannelWrite(t) ==
  /\ Runs(t) /\ pc[t] = "write"
  /\ \E n \in Sizes : RingWrite(Message(n))
  /\ pc' = [pc EXCEPT ![t] = "unref"]
  /\ UNCHANGED <<boot, objs, tstate, held, access>>

(* Standard input has no binding, so a program's read of it takes what was     *)
(* written to the default console.                                             *)
ChannelRead(t) ==
  /\ Runs(t) /\ pc[t] = "read"
  /\ \E n \in 0..ring.Count : RingRead(n)
  /\ pc' = [pc EXCEPT ![t] = "unref"]
  /\ UNCHANGED <<boot, objs, tstate, held, access>>

(* SysWriteHandler and Sys2KosKObjWriteHandler: the descriptor or the handle   *)
(* keeps the console alive.  Reading the console goes through a handle only:   *)
(* descriptors 1 and 2 are for writing.  Null and Zero keep no state.          *)
DirectWrite(t) ==
  /\ Idle(t) /\ t \in UserTask
  /\ \E s \in Fd \cup Handle :
       /\ held[t][s] = "Basecon"
       /\ s \in Handle => "write" \in access[t][s]
  /\ \E n \in Sizes : RingWrite(Message(n))
  /\ UNCHANGED objVars

DirectRead(t) ==
  /\ Idle(t) /\ t \in UserTask
  /\ \E h \in Handle : held[t][h] = "Basecon" /\ "read" \in access[t][h]
  /\ \E n \in 1..ring.Count : RingRead(n)
  /\ UNCHANGED objVars
------------------------------------------------------------------------------
(* ConsoleOutThread: it looks the console up once, then reads it to paint. *)
ConsoleOutFind ==
  /\ Runs(KConsoleOut) /\ held[KConsoleOut]["hand"] = NoObj
  /\ objs' = Ref(objs, "Basecon")
  /\ held' = [held EXCEPT ![KConsoleOut]["hand"] = "Basecon"]
  /\ UNCHANGED <<boot, tstate, access, pc, ioVars>>

ConsoleOutRead ==
  /\ held[KConsoleOut]["hand"] # NoObj
  /\ ring.Count > 0
  /\ RingRead(Least(OutBuf, ring.Count))
  /\ UNCHANGED objVars

ConsoleOut == ConsoleOutFind \/ ConsoleOutRead

Boot == KObjInit \/ StdIoInit \/ KObjInitNull \/ KObjInitZero \/ SchedulerInit

ObjNext ==
  \/ Boot
  \/ \E t \in Task : \/ InheritStdChannels(t) \/ TaskExit(t) \/ FreeTaskResources(t)
                      \/ KObjOpen(t) \/ Close(t) \/ KObjUnref(t)

IoNext ==
  \/ ConsoleOut
  \/ \E t \in Task : \/ StdIoWriteChannel(t) \/ StdIoReadChannel(t)
                      \/ ChannelWrite(t) \/ ChannelRead(t)
                      \/ DirectWrite(t) \/ DirectRead(t)

Next == (ObjNext /\ UNCHANGED ioVars) \/ IoNext

Spec == IoInit /\ [][Next]_vars
------------------------------------------------------------------------------
(* The state keeps its types and the ring's indices stay inside it. *)
TypeOK ==
  /\ ObjTypeOK
  /\ ring \in [Buffer : [Index -> Byte \cup {NoByte}], Head : Index, Tail : Index, Count : 0..STDIO_RING_SIZE]
  /\ sent \in Nat
  /\ {accepted, read} \subseteq Seq(Byte)

(* A byte the ring took is given out once and in order, whoever reads and      *)
(* however the ring wraps and fills.                                           *)
BytesOnceInOrder == read \o Contents(ring.Count) = accepted
=============================================================================

------------------------------- MODULE Rtl8139 -------------------------------
(* The Realtek network adapter's driver (Source/Drivers/Network/Rtl8139.c)     *)
(* beside the adapter: one circular receive buffer the adapter writes frames   *)
(* into, each behind a header, and RTL_TX_RING_SIZE transmit slots.  The       *)
(* driver runs in the adapter's interrupt and in the threads that transmit.    *)
(*                                                                             *)
(* The buffer is a function of byte addresses in units of four bytes: what is  *)
(* there is a frame's header, a frame's data, or nothing.  Frames are numbered *)
(* in the order the adapter stores them.  The adapter is modelled by what the  *)
(* driver expects of it: it takes OWN for its own, a frame that reaches the    *)
(* end of the buffer goes on at its start, and CAPR lies Bias bytes behind     *)
(* what was read.                                                              *)
EXTENDS Naturals, Sequences

CONSTANTS RxBufLen,   \* RTL_RX_BUF_SIZE, a multiple of four
          Bias,       \* the 16 bytes CAPR lies behind
          Scratch,    \* the longest payload RtlReceive takes
          Lengths,    \* what a header's Length may be, the CRC's four bytes included
          TxRing,     \* RTL_TX_RING_SIZE
          Sender,     \* threads that transmit
          MaxFrames   \* bound: frames stored, and frames put into slots

VARIABLES attach,  \* Rtl8139Attach: "reset", "listed", "enabled", "counted" or "failed"
          chip,    \* CBR, where the adapter reads up to, ISR and the line's level
          irq,     \* an interrupt raised and not yet taken
          mem,     \* the receive buffer
          rx,      \* RxOffset, what arrived, what was taken, and was it ever reset?
          isr,     \* Rtl8139Isr
          tx,      \* the slots, TxCur, what was queued and what was sent
          send     \* RtlTransmit of each thread

(* Every frame has data, and less than fills the buffer. *)
RtlAssumption ==
  /\ RxBufLen \in Nat \ {0} /\ RxBufLen % 4 = 0 /\ Bias \in 0..RxBufLen - 1 /\ Scratch \in Nat
  /\ Lengths \subseteq 5..RxBufLen - 8 /\ TxRing \in Nat \ {0} /\ MaxFrames \in Nat

rtlVars == <<attach, chip, irq, mem, rx, isr, tx, send>>

Unit == 0..RxBufLen \div 4 - 1
Slot == 0..TxRing - 1
Nothing == [kind |-> "none", frame |-> 0, length |-> 0]
Quiet == [pc |-> "idle", status |-> {}]

RtlStart ==
  /\ attach = "reset"
  /\ chip = [cbr |-> 0, read |-> 0, isr |-> {}]
  /\ irq = FALSE
  /\ mem = [u \in Unit |-> Nothing]
  /\ rx = [offset |-> 0, stored |-> 0, taken |-> <<>>, reset |-> FALSE]
  /\ isr = Quiet
  /\ tx = [own |-> [i \in Slot |-> FALSE], buf |-> [i \in Slot |-> 0], cur |-> 0, at |-> 0,
           queued |-> 0, lock |-> FALSE, sent |-> <<>>]
  /\ send = [s \in Sender |-> "idle"]
------------------------------------------------------------------------------
(* Rtl8139Attach.  RtlProgramBuffers needs memory; NetworkRegisterDevice       *)
(* refuses the name "eth0" when the E1000 took it first.  As in E1000.tla the  *)
(* handler passes the adapter over until GRtlCount counts it.                  *)
ProgramBuffers ==
  /\ attach = "reset" /\ attach' \in {"listed", "failed"}
  /\ UNCHANGED <<chip, irq, mem, rx, isr, tx, send>>

EnableInterrupts ==
  /\ attach = "listed" /\ attach' = "enabled"
  /\ chip' = [chip EXCEPT !.isr = {}]
  /\ UNCHANGED <<irq, mem, rx, isr, tx, send>>

Count ==
  /\ attach = "enabled" /\ attach' = "counted"
  /\ UNCHANGED <<chip, irq, mem, rx, isr, tx, send>>

Initialized == attach \in {"enabled", "counted"}
------------------------------------------------------------------------------
(* The adapter. *)
Raised(c) == irq' = (irq \/ (Initialized /\ chip.isr = {} /\ c # {}))

(* Header and Length bytes, rounded up to the next multiple of four. *)
Advance(offset, length) == (((offset + length + 4 + 3) \div 4) * 4) % RxBufLen
Size(length) == ((length + 4 + 3) \div 4) * 4
Room == (chip.read + RxBufLen - chip.cbr) % RxBufLen

(* It writes the frame at CBR, or says there is no room. *)
StoreFrame ==
  /\ attach \in {"listed", "enabled", "counted"} /\ rx.stored < MaxFrames
  /\ \E n \in Lengths :
       IF Room # 0 /\ Size(n) >= Room
       THEN /\ chip' = [chip EXCEPT !.isr = @ \cup {"overflow"}]
            /\ Raised({"overflow"}) /\ UNCHANGED <<mem, rx>>
       ELSE /\ chip' = [chip EXCEPT !.isr = @ \cup {"ok"}, !.cbr = Advance(@, n)]
            /\ mem' = [u \in Unit |->
                 LET i == (u + RxBufLen \div 4 - chip.cbr \div 4) % (RxBufLen \div 4)
                 IN  IF i = 0 THEN [kind |-> "head", frame |-> rx.stored + 1, length |-> n]
                     ELSE IF i < Size(n) \div 4
                     THEN [kind |-> "data", frame |-> rx.stored + 1, length |-> 0] ELSE mem[u]]
            /\ rx' = [rx EXCEPT !.stored = @ + 1]
            /\ Raised({"ok"})
  /\ UNCHANGED <<attach, isr, tx, send>>

(* It sends the slots in turn, and gives each back by clearing OWN. *)
SendFrame ==
  /\ tx.own[tx.at]
  /\ chip' = [chip EXCEPT !.isr = @ \cup {"sent"}] /\ Raised({"sent"})
  /\ tx' = [tx EXCEPT !.own[tx.at] = FALSE, !.at = (@ + 1) % TxRing,
                      !.sent = Append(@, tx.buf[tx.at])]
  /\ UNCHANGED <<attach, mem, rx, isr, send>>
------------------------------------------------------------------------------
(* Rtl8139Isr: it reads the status and writes it back, which clears the bits   *)
(* that were read, and only those.                                             *)
Rtl8139Isr ==
  /\ irq /\ isr.pc = "idle" /\ irq' = FALSE
  /\ isr' = IF attach # "counted" \/ chip.isr = {} THEN isr
            ELSE [pc |-> "ack", status |-> chip.isr]
  /\ UNCHANGED <<attach, chip, mem, rx, tx, send>>

Acknowledge ==
  /\ isr.pc = "ack"
  /\ chip' = [chip EXCEPT !.isr = @ \ isr.status]
  /\ isr' = [isr EXCEPT !.pc = IF "ok" \in isr.status THEN "look" ELSE "errors"]
  /\ UNCHANGED <<attach, irq, mem, rx, tx, send>>

(* Mutant: data that goes on at the start of the buffer is read on beyond its  *)
(* end.                                                                        *)
PayloadUnwrapped(offset, i) == offset + 4 + i

(* RtlReceive: where byte i of the payload of the frame at offset is read.     *)
PayloadAt(offset, i) ==
  LET wrap == RxBufLen - offset - 4 IN IF i < wrap THEN offset + 4 + i ELSE i - wrap

Inside(offset, n) == \A i \in 0..n - 1 : PayloadAt(offset, i) < RxBufLen

(* The frames whose data is in the n bytes read. *)
Copied(offset, n) == {mem[PayloadAt(offset, i) \div 4].frame : i \in 0..n - 1}

(* The Length the driver finds: a header's own, anything in the midst of a     *)
(* frame.  BUFE, and a Length of none or of more than the buffer, end the loop; *)
(* a payload too long for Scratch is passed over.                              *)
Found(m) == IF m.kind = "head" THEN {m.length} ELSE IF m.kind = "data" THEN Lengths \cup {0} ELSE {0}

Empty == chip.cbr = chip.read

(* What a turn of the loop takes; not followed any more after an overflow. *)
Read(head, n) == IF n > Scratch THEN {head}
                 ELSE IF Inside(rx.offset, n) THEN Copied(rx.offset, n) ELSE {}

Look ==
  /\ isr.pc = "look"
  /\ \E n \in Found(mem[rx.offset \div 4]) :
       IF Empty \/ n = 0
       THEN isr' = [isr EXCEPT !.pc = "errors"] /\ UNCHANGED <<chip, rx>>
       ELSE \E next \in {Advance(rx.offset, n)} :
              /\ rx' = [rx EXCEPT !.offset = next,
                          !.taken = IF rx.reset THEN @
                                    ELSE Append(@, Read(mem[rx.offset \div 4].frame, n - 4))]
              /\ chip' = [chip EXCEPT !.read = next]
              /\ UNCHANGED isr
  /\ UNCHANGED <<attach, irq, mem, tx, send>>

(* What is left of the handler: after an overflow it reads on at the start,    *)
(* where CAPR = 0 is Bias bytes behind, and the adapter writes on at CBR.      *)
Errors ==
  /\ isr.pc = "errors" /\ isr' = Quiet
  /\ IF "overflow" \in isr.status
     THEN rx' = [rx EXCEPT !.offset = 0, !.reset = TRUE] /\ chip' = [chip EXCEPT !.read = Bias]
     ELSE UNCHANGED <<rx, chip>>
  /\ UNCHANGED <<attach, irq, mem, tx, send>>
------------------------------------------------------------------------------
(* RtlTransmit by thread s, under TxLock. *)
Lock(s) ==
  /\ Initialized /\ send[s] = "idle" /\ ~tx.lock /\ tx.queued < MaxFrames
  /\ send' = [send EXCEPT ![s] = "wait"] /\ tx' = [tx EXCEPT !.lock = TRUE]
  /\ UNCHANGED <<attach, chip, irq, mem, rx, isr>>

Free(slot) == ~tx.own[slot]

Copy(s) ==
  /\ send[s] = "wait" /\ Free(tx.cur)
  /\ tx' = [tx EXCEPT !.queued = @ + 1, !.buf[tx.cur] = tx.queued + 1]
  /\ send' = [send EXCEPT ![s] = "start"]
  /\ UNCHANGED <<attach, chip, irq, mem, rx, isr>>

GiveUp(s) ==
  /\ send[s] = "wait" /\ ~Free(tx.cur)
  /\ send' = [send EXCEPT ![s] = "idle"] /\ tx' = [tx EXCEPT !.lock = FALSE]
  /\ UNCHANGED <<attach, chip, irq, mem, rx, isr>>

Start(s) ==
  /\ send[s] = "start"
  /\ tx' = [tx EXCEPT !.own[tx.cur] = TRUE, !.cur = (@ + 1) % TxRing, !.lock = FALSE]
  /\ send' = [send EXCEPT ![s] = "idle"]
  /\ UNCHANGED <<attach, chip, irq, mem, rx, isr>>
------------------------------------------------------------------------------
Attach == ProgramBuffers \/ EnableInterrupts \/ Count
Handler == Rtl8139Isr \/ Acknowledge \/ Look \/ Errors
Transmit(s) == Copy(s) \/ GiveUp(s) \/ Start(s)

RtlNext == \/ Attach \/ Handler \/ StoreFrame \/ SendFrame
           \/ \E s \in Sender : Lock(s) \/ Transmit(s)

RtlSpec == RtlStart /\ [][RtlNext]_rtlVars

(* The boot thread goes on, a handler ends, and so does a spinning thread. *)
RtlFairness == /\ WF_rtlVars(Attach) /\ WF_rtlVars(Handler)
               /\ \A s \in Sender : WF_rtlVars(Transmit(s))
------------------------------------------------------------------------------
RtlTypeOK ==
  /\ attach \in {"reset", "listed", "enabled", "counted", "failed"}
  /\ chip.cbr \in 0..RxBufLen - 1 /\ chip.read \in 0..RxBufLen - 1
  /\ chip.isr \subseteq {"ok", "overflow", "sent"} /\ irq \in BOOLEAN
  /\ mem \in [Unit -> [kind : {"none", "head", "data"}, frame : 0..MaxFrames, length : Lengths \cup {0}]]
  /\ rx.offset \in 0..RxBufLen - 1 /\ rx.stored \in 0..MaxFrames /\ rx.reset \in BOOLEAN
  /\ isr \in [pc : {"idle", "ack", "look", "errors"}, status : SUBSET {"ok", "overflow", "sent"}]
  /\ tx.cur \in Slot /\ tx.at \in Slot /\ tx.queued \in 0..MaxFrames
  /\ send \in [Sender -> {"idle", "wait", "start"}]

(* Until the first overflow every frame is taken once, in order and whole,     *)
(* also one that goes on at the start of the buffer: RxOffset, the rounding of *)
(* each frame's size and the two parts of the copy agree with what the adapter *)
(* wrote.                                                                      *)
WholeInOrder == \A i \in 1..Len(rx.taken) : rx.taken[i] = {i}

(* No slot is filled while the adapter owns it, and frames leave in order. *)
SentInOrder == \A i \in 1..Len(tx.sent) : tx.sent[i] = i

(* No stored frame is forgotten.  One is: an interrupt before GRtlCount counts *)
(* the adapter, or a cause that comes between the handler's read of the status *)
(* and its write, leaves the line high, so that no edge ever comes again.      *)
FramesAreTaken ==
  \A f \in 1..MaxFrames : rx.stored >= f ~> (rx.reset \/ Len(rx.taken) >= f \/ attach = "failed")
=============================================================================

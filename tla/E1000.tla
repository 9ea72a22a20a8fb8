-------------------------------- MODULE E1000 --------------------------------
(* The Intel network adapter's driver (Source/Drivers/Network/E1000.c) beside  *)
(* the adapter: two rings of descriptors in memory, each with a head the       *)
(* adapter moves and a tail the driver moves.  The driver runs in the adapter's *)
(* interrupt, in the network tick (E1000Poll), both on the boot CPU, and in    *)
(* the threads that transmit; each of its writes the adapter can see is a step.*)
(*                                                                             *)
(* Frames are numbered in the order the adapter stores them and in the order   *)
(* the driver puts them on the ring.  The interrupt line is edge triggered: an *)
(* interrupt is raised when a first unmasked cause appears.                    *)
EXTENDS Naturals, Sequences

CONSTANTS RxRing, TxRing,  \* E1000_RX_RING_SIZE, E1000_TX_RING_SIZE
          Sender,          \* threads that transmit
          MaxFrames,       \* bound: frames stored, and frames put on the ring
          MaxLinks         \* bound: changes of the link

(* A ring has a descriptor at least. *)
E1000Assumption == /\ {RxRing, TxRing} \subseteq Nat \ {0}
                   /\ {MaxFrames, MaxLinks} \subseteq Nat

VARIABLES attach,  \* E1000Attach: "reset", "rings", "listed", "enabled", "counted" or "failed"
          chip,    \* RDH, RDT, TDH, TDT, ICR (cause), the link and its changes
          irq,     \* an interrupt raised and not yet taken
          rx,      \* the receive descriptors, RxNext, what arrived and what was taken
          tx,      \* the transmit descriptors, TxTail, what was queued and what was sent
          isr,     \* E1000Isr or E1000Poll on the boot CPU
          send,    \* E1000Transmit of each thread
          up       \* NetDev.Up

e1000Vars == <<attach, chip, irq, rx, tx, isr, send, up>>

RxSlot == 0..RxRing - 1
TxSlot == 0..TxRing - 1
NoFrame == 0
Quiet == [pc |-> "idle", cause |-> {}]

E1000Start ==
  /\ attach = "reset"
  /\ chip = [rdh |-> 0, rdt |-> 0, tdh |-> 0, tdt |-> 0, cause |-> {}, link |-> TRUE, links |-> 0]
  /\ irq = FALSE
  /\ rx = [desc |-> [i \in RxSlot |-> [dd |-> FALSE, frame |-> NoFrame]],
           next |-> 0, stored |-> 0, taken |-> <<>>]
  /\ tx = [desc |-> [i \in TxSlot |-> [dd |-> TRUE, frame |-> NoFrame]],
           tail |-> 0, queued |-> 0, lock |-> FALSE, sent |-> <<>>]
  /\ isr = Quiet
  /\ send = [s \in Sender |-> "idle"]
  /\ up = FALSE
------------------------------------------------------------------------------
(* E1000Attach, in the boot thread.  Without memory for the rings it gives up. *)
(* The receiver runs once the rings are programmed; the cause is masked until  *)
(* E1000EnableInterrupts, and E1000Isr passes the adapter over until           *)
(* GE1000Count counts it.                                                      *)
ProgramRings ==
  /\ attach = "reset"
  /\ \/ attach' = "rings" /\ chip' = [chip EXCEPT !.rdt = RxRing - 1] /\ up' = TRUE
     \/ attach' = "failed" /\ UNCHANGED <<chip, up>>
  /\ UNCHANGED <<irq, rx, tx, isr, send>>

NetworkRegisterDevice ==
  /\ attach = "rings" /\ attach' = "listed"
  /\ UNCHANGED <<chip, irq, rx, tx, isr, send, up>>

EnableInterrupts ==
  /\ attach = "listed" /\ attach' = "enabled"
  /\ chip' = [chip EXCEPT !.cause = {}]
  /\ UNCHANGED <<irq, rx, tx, isr, send, up>>

Count ==
  /\ attach = "enabled" /\ attach' = "counted"
  /\ UNCHANGED <<chip, irq, rx, tx, isr, send, up>>

Initialized == attach \in {"enabled", "counted"}
Receiving == attach \notin {"reset", "failed"}
------------------------------------------------------------------------------
(* The adapter. *)
Raised(c) == irq' = (irq \/ (Initialized /\ chip.cause = {} /\ c # {}))

(* It stores a frame in the descriptor at RDH unless that is RDT. *)
StoreFrame ==
  /\ Receiving /\ chip.link /\ rx.stored < MaxFrames
  /\ IF chip.rdh = chip.rdt
     THEN /\ chip' = [chip EXCEPT !.cause = @ \cup {"rx"}] /\ UNCHANGED rx
     ELSE /\ chip' = [chip EXCEPT !.cause = @ \cup {"rx"}, !.rdh = (@ + 1) % RxRing]
          /\ rx' = [rx EXCEPT !.stored = @ + 1,
                      !.desc[chip.rdh] = [dd |-> TRUE, frame |-> rx.stored + 1]]
  /\ Raised({"rx"})
  /\ UNCHANGED <<attach, tx, isr, send, up>>

(* It sends the frame at TDH unless that is TDT, and sets the descriptor's DD. *)
SendFrame ==
  /\ Receiving /\ chip.link /\ chip.tdh # chip.tdt
  /\ chip' = [chip EXCEPT !.tdh = (@ + 1) % TxRing, !.cause = @ \cup {"tx"}]
  /\ tx' = [tx EXCEPT !.desc[chip.tdh].dd = TRUE, !.sent = Append(@, tx.desc[chip.tdh].frame)]
  /\ Raised({"tx"})
  /\ UNCHANGED <<attach, rx, isr, send, up>>

LinkChange ==
  /\ Receiving /\ chip.links < MaxLinks
  /\ chip' = [chip EXCEPT !.link = ~@, !.links = @ + 1, !.cause = @ \cup {"link"}]
  /\ Raised({"link"})
  /\ UNCHANGED <<attach, rx, tx, isr, send, up>>
------------------------------------------------------------------------------
(* E1000Isr: reading ICR clears it. *)
E1000Isr ==
  /\ irq /\ isr.pc = "idle" /\ irq' = FALSE
  /\ IF attach # "counted" \/ chip.cause = {} THEN UNCHANGED <<chip, isr>>
     ELSE /\ chip' = [chip EXCEPT !.cause = {}]
          /\ isr' = [pc |-> "ack", cause |-> chip.cause]
  /\ UNCHANGED <<attach, rx, tx, send, up>>

(* The write of the causes read clears those that came back meanwhile. *)
Acknowledge ==
  /\ isr.pc = "ack"
  /\ chip' = [chip EXCEPT !.cause = @ \ isr.cause]
  /\ isr' = [isr EXCEPT !.pc = IF "rx" \in isr.cause THEN "look" ELSE "link"]
  /\ UNCHANGED <<attach, irq, rx, tx, send, up>>

E1000Poll ==
  /\ attach = "counted" /\ isr.pc = "idle"
  /\ isr' = [isr EXCEPT !.pc = "look"]
  /\ UNCHANGED <<attach, chip, irq, rx, tx, send, up>>

(* E1000Receive: the frame under RxNext goes to NetworkRx, or is dropped when  *)
(* it has errors or no buffer is to be had; taken holds it either way.         *)
Look ==
  /\ isr.pc = "look"
  /\ LET d == rx.desc[rx.next]
     IN  IF ~d.dd THEN isr' = [isr EXCEPT !.pc = "link"] /\ UNCHANGED rx
         ELSE /\ isr' = [isr EXCEPT !.pc = "clear"]
              /\ rx' = [rx EXCEPT !.taken = Append(@, d.frame)]
  /\ UNCHANGED <<attach, chip, irq, tx, send, up>>

(* The descriptor is emptied before RDT gives it back, and not the other way   *)
(* round.                                                                      *)
ClearedNot(d) == d
Cleared(d) == [dd |-> FALSE, frame |-> NoFrame]

Clear ==
  /\ isr.pc = "clear"
  /\ rx' = [rx EXCEPT !.desc[rx.next] = Cleared(@)]
  /\ isr' = [isr EXCEPT !.pc = "return"]
  /\ UNCHANGED <<attach, chip, irq, tx, send, up>>

Return ==
  /\ isr.pc = "return"
  /\ rx' = [rx EXCEPT !.next = (@ + 1) % RxRing]
  /\ chip' = [chip EXCEPT !.rdt = rx.next]
  /\ isr' = [isr EXCEPT !.pc = "look"]
  /\ UNCHANGED <<attach, irq, tx, send, up>>

(* What is left of E1000Isr: the link. *)
Link ==
  /\ isr.pc = "link" /\ isr' = Quiet
  /\ up' = IF "link" \in isr.cause THEN chip.link ELSE up
  /\ UNCHANGED <<attach, chip, irq, rx, tx, send>>
------------------------------------------------------------------------------
(* E1000Transmit by thread s, under TxLock. *)
Lock(s) ==
  /\ Initialized /\ send[s] = "idle" /\ ~tx.lock /\ tx.queued < MaxFrames
  /\ send' = [send EXCEPT ![s] = "wait"] /\ tx' = [tx EXCEPT !.lock = TRUE]
  /\ UNCHANGED <<attach, chip, irq, rx, isr, up>>

(* It spins until the descriptor at TxTail is done with, and then fills it.    *)
Copy(s) ==
  /\ send[s] = "wait" /\ tx.desc[tx.tail].dd
  /\ tx' = [tx EXCEPT !.queued = @ + 1, !.desc[tx.tail].frame = tx.queued + 1]
  /\ send' = [send EXCEPT ![s] = "arm"]
  /\ UNCHANGED <<attach, chip, irq, rx, isr, up>>

(* BUSY: ten thousand turns without it. *)
GiveUp(s) ==
  /\ send[s] = "wait" /\ ~tx.desc[tx.tail].dd
  /\ send' = [send EXCEPT ![s] = "idle"] /\ tx' = [tx EXCEPT !.lock = FALSE]
  /\ UNCHANGED <<attach, chip, irq, rx, isr, up>>

Arm(s) ==
  /\ send[s] = "arm"
  /\ tx' = [tx EXCEPT !.desc[tx.tail].dd = FALSE]
  /\ send' = [send EXCEPT ![s] = "tail"]
  /\ UNCHANGED <<attach, chip, irq, rx, isr, up>>

MoveTail(s) ==
  /\ send[s] = "tail"
  /\ \E t \in {(tx.tail + 1) % TxRing} :
       /\ tx' = [tx EXCEPT !.tail = t, !.lock = FALSE]
       /\ chip' = [chip EXCEPT !.tdt = t]
  /\ send' = [send EXCEPT ![s] = "idle"]
  /\ UNCHANGED <<attach, irq, rx, isr, up>>
------------------------------------------------------------------------------
Attach == ProgramRings \/ NetworkRegisterDevice \/ EnableInterrupts \/ Count
Handler == E1000Isr \/ Acknowledge \/ Look \/ Clear \/ Return \/ Link
Transmit(s) == Copy(s) \/ GiveUp(s) \/ Arm(s) \/ MoveTail(s)

E1000Next == \/ Attach \/ Handler \/ E1000Poll
             \/ StoreFrame \/ SendFrame \/ LinkChange
             \/ \E s \in Sender : Lock(s) \/ Transmit(s)

(* The boot thread goes on, an interrupt handler ends, the network tick comes  *)
(* back, and so does a thread that spins with interrupts disabled.             *)
E1000Fairness == /\ WF_e1000Vars(Attach) /\ WF_e1000Vars(Handler) /\ WF_e1000Vars(E1000Poll)
                 /\ \A s \in Sender : WF_e1000Vars(Transmit(s))

E1000Spec == E1000Start /\ [][E1000Next]_e1000Vars
------------------------------------------------------------------------------
E1000TypeOK ==
  /\ attach \in {"reset", "rings", "listed", "enabled", "counted", "failed"}
  /\ chip \in [rdh : RxSlot, rdt : RxSlot, tdh : TxSlot, tdt : TxSlot,
               cause : SUBSET {"rx", "tx", "link"}, link : BOOLEAN, links : 0..MaxLinks]
  /\ irq \in BOOLEAN /\ up \in BOOLEAN
  /\ rx.desc \in [RxSlot -> [dd : BOOLEAN, frame : 0..MaxFrames]]
  /\ rx.next \in RxSlot /\ rx.stored \in 0..MaxFrames
  /\ tx.desc \in [TxSlot -> [dd : BOOLEAN, frame : 0..MaxFrames]]
  /\ tx.tail \in TxSlot /\ tx.queued \in 0..MaxFrames /\ tx.lock \in BOOLEAN
  /\ isr \in [pc : {"idle", "ack", "look", "clear", "return", "link"},
              cause : SUBSET {"rx", "tx", "link"}]
  /\ send \in [Sender -> {"idle", "wait", "arm", "tail"}]

(* Whatever the two sides' pace, every frame the adapter stores is taken once  *)
(* and in order: the ones that wait are in the descriptors from RxNext on.     *)
FramesInOrder ==
  /\ \A i \in 1..Len(rx.taken) : rx.taken[i] = i
  /\ isr.pc \notin {"clear", "return"} =>
       \A i \in 0..RxRing - 1 :
         LET d == rx.desc[(rx.next + i) % RxRing] f == Len(rx.taken) + i + 1
         IN  IF f <= rx.stored THEN d.dd /\ d.frame = f ELSE ~d.dd

(* No frame on the transmit ring is overwritten before the adapter sent it,    *)
(* and they leave in the order they were put there.                            *)
SentInOrder == \A i \in 1..Len(tx.sent) : tx.sent[i] = i

(* No stored frame is forgotten, even when its interrupt came before           *)
(* GE1000Count counted the adapter, or never: the network tick polls.          *)
Waits(f) == Len(rx.taken) < f /\ f <= rx.stored
FramesAreTaken == \A f \in 1..MaxFrames : Waits(f) ~> ~Waits(f)

(* Every call of E1000Transmit returns. *)
Transmits(s) == send[s] # "idle"
TransmitEnds == \A s \in Sender : Transmits(s) ~> ~Transmits(s)

(* A frame on the transmit ring is sent, when the link does not stay down.     *)
(* It is not: once every descriptor is filled TDT is TDH again, and the        *)
(* adapter takes a full ring for an empty one.                                 *)
QueuedAreSent == []<>chip.link => \A f \in 1..MaxFrames : tx.queued >= f ~> Len(tx.sent) >= f
=============================================================================

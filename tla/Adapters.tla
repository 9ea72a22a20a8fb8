------------------------------- MODULE Adapters -------------------------------
(* The drivers of the two network adapters, each with an adapter of its own:   *)
(* nothing is shared but the threads that transmit.                            *)
EXTENDS E1000

CONSTANTS RxBufLen, Bias, Scratch, Lengths, TxSlots  \* Rtl8139; TxSlots is RTL_TX_RING_SIZE

VARIABLES attach2, chip2, irq2, mem, rx2, isr2, tx2, send2

R == INSTANCE Rtl8139 WITH TxRing <- TxSlots, attach <- attach2, chip <- chip2, irq <- irq2,
       rx <- rx2, isr <- isr2, tx <- tx2, send <- send2
rtlV == <<attach2, chip2, irq2, mem, rx2, isr2, tx2, send2>>

AdaptersAssumption == E1000Assumption /\ R!RtlAssumption
AdaptersSpec == E1000Spec /\ R!RtlSpec
------------------------------------------------------------------------------
(* What each adapter receives and sends, over states of the right types:       *)
(* FramesInOrder and SentInOrder of E1000, WholeInOrder and SentInOrder of     *)
(* Rtl8139.                                                                    *)
FramesSound == /\ E1000TypeOK /\ FramesInOrder /\ SentInOrder
               /\ R!RtlTypeOK /\ R!WholeInOrder /\ R!SentInOrder
=============================================================================

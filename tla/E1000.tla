------------------------------- MODULE E1000 -------------------------------
(***************************************************************************)
(* src/kernal/drivers/e1000.c: the ring of descriptors that the device     *)
(* fills and the interrupt handler empties, and the ring that the driver   *)
(* fills and the device sends from.  The device works while the handler    *)
(* runs; the handler itself is not interrupted, but interrupts a task that *)
(* sends, and what it hands up may be answered at once (ARP).  Frames are  *)
(* told by the order in which they come from the wire or are sent.         *)
(***************************************************************************)
EXTENDS Integers, Sequences

CONSTANTS
  NRX,       \* E1000_NUM_RX_DESC
  NTX,       \* E1000_NUM_TX_DESC
  MaxFrames, \* bound: frames from the wire
  MaxSent    \* bound: frames sent

ASSUME E1000Assumption == {NRX, NTX} \subseteq Nat \ {0, 1} /\ {MaxFrames, MaxSent} \subseteq Nat

Descs  == 0 .. NRX - 1
Frames == 1 .. MaxFrames
TxDescs == 0 .. NTX - 1

VARIABLES
  ring,     \* rx_descs[] and rx_buffers[]: DD bit and the frame in the buffer
  rdh,      \* device: the descriptor it fills next
  rdt,      \* RDT: the descriptor it must not reach
  cause,    \* ICR: RXT0 is set; the line is asserted as long as it is
  rx_tail,  \* the driver's position
  handler,  \* where the interrupt handler is
  fromWire,  \* frames that came from the wire
  kept,     \* ghost: those the device had a descriptor for, in order
  handed,   \* ghost: those net_receive got, in order
  tx_buffers, tx_tail, \* the driver's side of the sending ring
  tdh, tdt, \* TDH, TDT: the device has what is between them
  sending,  \* where the task is in e1000_send_frame
  framesSent, \* frames e1000_send_frame was given
  onWire,   \* ghost: what the device sent
  torn      \* ghost: a call was interrupted by another, or the ring overrun

receiveVars == <<ring, rdh, rdt, cause, rx_tail, handler, fromWire, kept, handed>>
sendVars    == <<tx_buffers, tx_tail, tdh, tdt, sending, framesSent, onWire, torn>>
e1000Vars   == <<receiveVars, sendVars>>

E1000TypeOK ==
  /\ ring \in [Descs -> [done : BOOLEAN, frame : Frames \cup {0}]]
  /\ rdh \in Descs /\ rdt \in Descs /\ rx_tail \in Descs
  /\ cause \in BOOLEAN
  /\ handler \in {"out", "loop", "handed", "returned"}
  /\ fromWire \in 0 .. MaxFrames
  /\ kept \in Seq(Frames)
  /\ {tx_tail, tdh, tdt} \subseteq TxDescs
  /\ sending \in {"out", "copied", "moved"}

(* e1000_init: every receive descriptor but the last is the device's       *)
E1000Init ==
  /\ ring = [d \in Descs |-> [done |-> FALSE, frame |-> 0]]
  /\ rdh = 0
  /\ rdt = NRX - 1
  /\ cause = FALSE
  /\ rx_tail = 0
  /\ handler = "out"
  /\ fromWire = 0
  /\ kept = <<>>
  /\ handed = <<>>
  /\ tx_buffers = [d \in TxDescs |-> 0]
  /\ tx_tail = 0 /\ tdh = 0 /\ tdt = 0
  /\ sending = "out" /\ framesSent = 0
  /\ onWire = <<>> /\ torn = FALSE

After(d) == (d + 1) % NRX

-----------------------------------------------------------------------------
(* The device takes a frame: without a descriptor of its own it drops it.  *)
FrameArrives ==
  /\ fromWire < MaxFrames
  /\ fromWire' = fromWire + 1
  /\ IF rdh = rdt
     THEN UNCHANGED <<ring, rdh, cause, kept>>
     ELSE /\ ring' = [ring EXCEPT ![rdh] = [done |-> TRUE, frame |-> fromWire']]
          /\ rdh' = After(rdh)
          /\ cause' = TRUE
          /\ kept' = Append(kept, fromWire')
  /\ UNCHANGED <<rdt, rx_tail, handler, handed, sendVars>>

(* e1000_irq_handler reads ICR, which clears it                            *)
Interrupt ==
  /\ handler = "out" /\ cause
  /\ cause' = FALSE
  /\ handler' = "loop"
  /\ UNCHANGED <<ring, rdh, rdt, rx_tail, fromWire, kept, handed, sendVars>>

(* e1000_send_frame for an answer, in the handler: nothing comes between   *)
SendInHandler ==
  /\ framesSent < MaxSent
  /\ framesSent' = framesSent + 1
  /\ tx_buffers' = [tx_buffers EXCEPT ![tx_tail] = framesSent']
  /\ tx_tail' = (tx_tail + 1) % NTX
  /\ tdt' = tx_tail'
  /\ torn' = (torn \/ sending # "out" \/ tx_tail' = tdh)
  /\ UNCHANGED <<tdh, sending, onWire>>

HandUp ==
  /\ handler = "loop" /\ ring[rx_tail].done
  /\ handed' = Append(handed, ring[rx_tail].frame)
  /\ handler' = "handed"
  /\ SendInHandler \/ UNCHANGED sendVars
  /\ UNCHANGED <<ring, rdh, rdt, cause, rx_tail, fromWire, kept>>

(* the descriptor goes back: status, RDT, then the position                *)
GiveBackDescriptor ==
  /\ handler = "handed"
  /\ ring' = [ring EXCEPT ![rx_tail].done = FALSE]
  /\ rdt' = rx_tail
  /\ rx_tail' = After(rx_tail)
  /\ handler' = "loop"
  /\ UNCHANGED <<rdh, cause, fromWire, kept, handed, sendVars>>

Return ==
  /\ handler = "loop" /\ ~ring[rx_tail].done
  /\ handler' = "returned"
  /\ UNCHANGED <<ring, rdh, rdt, cause, rx_tail, fromWire, kept, handed, sendVars>>

(* Mutant: the causes are cleared after the loop, not before it.           *)
EndOfInterruptClears ==
  /\ handler = "returned"
  /\ handler' = "out"
  /\ cause' = FALSE
  /\ UNCHANGED <<ring, rdh, rdt, rx_tail, fromWire, kept, handed, sendVars>>

(* isr_dispatch sends the EOI; the line can interrupt again                *)
EndOfInterrupt ==
  /\ handler = "returned"
  /\ handler' = "out"
  /\ UNCHANGED <<ring, rdh, rdt, cause, rx_tail, fromWire, kept, handed, sendVars>>

-----------------------------------------------------------------------------
(* e1000_send_frame in a task: the buffer, the position and the register.  *)
(* It does not look whether the device is done with the descriptor.        *)
SendCopy ==
  /\ sending = "out" /\ handler = "out" /\ framesSent < MaxSent
  /\ framesSent' = framesSent + 1
  /\ tx_buffers' = [tx_buffers EXCEPT ![tx_tail] = framesSent']
  /\ sending' = "copied"
  /\ UNCHANGED <<receiveVars, tx_tail, tdh, tdt, onWire, torn>>

SendAdvance ==
  /\ sending = "copied" /\ handler = "out"
  /\ tx_tail' = (tx_tail + 1) % NTX
  /\ torn' = (torn \/ tx_tail' = tdh)
  /\ sending' = "moved"
  /\ UNCHANGED <<receiveVars, tx_buffers, tdh, tdt, framesSent, onWire>>

SendTail ==
  /\ sending = "moved" /\ handler = "out"
  /\ tdt' = tx_tail
  /\ sending' = "out"
  /\ UNCHANGED <<receiveVars, tx_buffers, tx_tail, tdh, framesSent, onWire, torn>>

(* the device sends the next frame it was given                            *)
FrameLeaves ==
  /\ tdh # tdt
  /\ onWire' = Append(onWire, tx_buffers[tdh])
  /\ tdh' = (tdh + 1) % NTX
  /\ UNCHANGED <<receiveVars, tx_buffers, tx_tail, tdt, sending, framesSent, torn>>

E1000Next ==
  \/ FrameArrives \/ FrameLeaves
  \/ Interrupt \/ HandUp \/ GiveBackDescriptor \/ Return \/ EndOfInterrupt
  \/ SendCopy \/ SendAdvance \/ SendTail

-----------------------------------------------------------------------------

(* The device never runs over a frame that was not handed up, and the      *)
(* driver stays in step with it: net_receive gets the frames the device    *)
(* had a descriptor for, in order and once, and with the handler out and   *)
(* no interrupt due none is left in the ring.                              *)
FramesHandedUp ==
  /\ handed = SubSeq(kept, 1, Len(handed))
  /\ handler = "out" /\ ~cause => handed = kept

(* As long as no call of e1000_send_frame came into another one and the    *)
(* ring was never full, the frames leave in order and once, and those that *)
(* have not left are in the ring.                                          *)
FramesSent ==
  ~torn =>
    /\ onWire = [i \in 1 .. Len(onWire) |-> i]
    /\ sending = "out" => framesSent - Len(onWire) = (tdt + NTX - tdh) % NTX

CardTrue == FramesHandedUp /\ FramesSent

=============================================================================

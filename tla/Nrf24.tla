-------------------------------- MODULE Nrf24 --------------------------------
(* The nRF24L01 radio and its driver.                                        *)
(*                                                                           *)
(* src/nrf24l01.c and src/nrf24l01_2.c are the same driver over two sets of  *)
(* pins.  A driver function is an operator from the state of the chip to the *)
(* state the SPI command sequence leaves it in.  The chip itself (FIFOs,     *)
(* interrupt flags, what a CE pulse does) is not in the repository: it is    *)
(* modelled from how the driver uses it.                                     *)
(*                                                                           *)
(* Abstracted: the SPI bytes, CRC, data rate, pipes other than the one the   *)
(* firmware addresses.  EN_AA is always ENAA_NONE (initialize_debug is only  *)
(* called with enable_auto_ack = false), so a transmission raises TX_DS and  *)
(* never MAX_RT.                                                             *)
EXTENDS Integers, Sequences

FifoDepth == 3

(* RF_CH_DEFAULT_VAL *)
DefaultRfCh == 2

(* A chip whose TX address is in addrs and whose payloads are in payloads.   *)
(* busy is TRUE from the CE pulse until the packet has left the antenna.     *)
Chips(addrs, payloads) ==
  [pwrUp  : BOOLEAN, primRx : BOOLEAN, ce : BOOLEAN,
   txAddr : addrs, rfCh : 0..127,
   txFifo : Seq(payloads), rxFifo : Seq(payloads),
   txDS   : BOOLEAN, rxDR : BOOLEAN, busy : BOOLEAN]

(* The chip after its own power-on reset. *)
PowerOnChip(defaultAddr) ==
  [pwrUp  |-> FALSE, primRx |-> FALSE, ce |-> FALSE,
   txAddr |-> defaultAddr, rfCh |-> DefaultRfCh,
   txFifo |-> <<>>, rxFifo |-> <<>>,
   txDS   |-> FALSE, rxDR |-> FALSE, busy |-> FALSE]

-----------------------------------------------------------------------------
(* Driver functions *)

ClearCe(c) == [c EXCEPT !.ce = FALSE]
SetCe(c)   == [c EXCEPT !.ce = TRUE]

(* CONFIG is written whole, so a previous PRIM_RX does not survive. *)
PowerUpParam(c, primRx, rxActive) ==
  [c EXCEPT !.pwrUp = TRUE, !.primRx = primRx, !.ce = primRx /\ rxActive]

(* Every register is written except STATUS: a FIFO or an interrupt flag left *)
(* over from before an MCU reset survives initialize_debug.                  *)
InitializeDebug(c, rx, defaultAddr) ==
  PowerUpParam([c EXCEPT !.rfCh = DefaultRfCh, !.txAddr = defaultAddr], rx, TRUE)

IrqClearAll(c)  == [c EXCEPT !.rxDR = FALSE, !.txDS = FALSE]
IrqClearRxDr(c) == [c EXCEPT !.rxDR = FALSE]

FlushTx(c) == [c EXCEPT !.txFifo = <<>>]
FlushRx(c) == [c EXCEPT !.rxFifo = <<>>]

(* Mutant: the TX FIFO is not flushed. *)
ClearFlushRxOnly(c) == IrqClearAll(FlushRx(c))

(* Mutant: the interrupt flags are left as they are. *)
FlushWithoutIrq(c) == FlushTx(FlushRx(c))

ClearFlush(c) == IrqClearAll(FlushTx(FlushRx(c)))

SetTxAddr(c, a) == [c EXCEPT !.txAddr = a]

(* The argument is an unsigned char and RF_CH has a reserved top bit. *)
SetRfCh(c, channel) == [c EXCEPT !.rfCh = channel % 128]

SetAsRx(c, rxActive) ==
  IF c.primRx THEN c ELSE [c EXCEPT !.primRx = TRUE, !.ce = rxActive]

(* Mutant: TX_DS masked in CONFIG. *)
IrqPinTxMasked(c) == c.rxDR

(* Mutant: RX_DR masked in CONFIG. *)
IrqPinRxMasked(c) == c.txDS

(* The IRQ pin is low while an unmasked flag is set; no flag is masked. *)
IrqPinActive(c) == c.rxDR \/ c.txDS

(* W_TX_PAYLOAD: a write to a full FIFO is ignored by the chip. *)
LoadTxPayload(c, p) ==
  IF Len(c.txFifo) < FifoDepth THEN [c EXCEPT !.txFifo = Append(@, p)] ELSE c

(* transmit(): the CE pulse starts the packet at the head of the TX FIFO if  *)
(* the chip is powered up as a transmitter; CE is low again afterwards.      *)
Transmit(c) ==
  [c EXCEPT !.ce = FALSE,
            !.busy = @ \/ (c.pwrUp /\ ~c.primRx /\ c.txFifo # <<>>)]

-----------------------------------------------------------------------------
(* The chip on its own *)

(* What goes on the air: the address and channel registers as they are when  *)
(* the packet leaves, and the oldest payload.                                *)
OnAir(c) == [to |-> c.txAddr, ch |-> c.rfCh, pay |-> Head(c.txFifo)]

PacketSent(c) ==
  [c EXCEPT !.txFifo = Tail(@), !.txDS = TRUE, !.busy = FALSE]

Listening(c) == c.pwrUp /\ c.primRx /\ c.ce

(* A packet heard while the RX FIFO is full is discarded without raising     *)
(* RX_DR; otherwise it is queued and RX_DR is set.                           *)
PacketHeard(c, p) ==
  IF Len(c.rxFifo) < FifoDepth
  THEN [c EXCEPT !.rxFifo = Append(@, p), !.rxDR = TRUE]
  ELSE c
=============================================================================

------------------------------- MODULE RxRelay -------------------------------
(* The uplink of the gateway: packets heard by radio 2 become multicast      *)
(* datagrams.                                                                *)
(*                                                                           *)
(* process_incoming_rf in src/udp_echoserver.c and the part of main() that   *)
(* prepares radio 2, on top of the driver of module Nrf24 (nrf24l01_2.c).    *)
(* One turn of the main loop serves at most one packet.  The n-th packet     *)
(* another radio sends is the number n.                                      *)
EXTENDS Nrf24

CONSTANTS
  MaxPackets,  \* bound: packets sent to radio 2
  MaxResets    \* bound: resets of the microcontroller

ASSUME BoundsAssumption == MaxPackets \in Nat /\ MaxResets \in Nat

NoAddr == "none"

VARIABLES
  pc,       \* where main() is
  r2,       \* radio 2, the receiver
  recData,  \* the local buffer of process_incoming_rf, 0 before it is filled
  out,      \* history: the payloads given to udp_sendto
  heard,    \* history: the payloads radio 2 took in, less those a boot flushed
  aired,    \* packets sent to radio 2 so far
  resets

vars == <<pc, r2, recData, out, heard, aired, resets>>

BootPCs == {"init", "flush", "receive"}
LoopPCs == {"elsewhere", "poll", "pop", "resume", "forward", "clear"}

Init ==
  /\ pc = "init"
  /\ r2 = PowerOnChip(NoAddr)
  /\ recData = 0
  /\ out = <<>> /\ heard = <<>>
  /\ aired = 0 /\ resets = 0

-----------------------------------------------------------------------------
(* Outside the processor *)

(* A packet on the air is heard if radio 2 listens, otherwise it is lost.    *)
PacketAired ==
  /\ aired < MaxPackets
  /\ aired' = aired + 1
  /\ r2' = IF Listening(r2) THEN PacketHeard(r2, aired + 1) ELSE r2
  /\ heard' = IF r2'.rxFifo = r2.rxFifo THEN heard ELSE Append(heard, aired + 1)
  /\ UNCHANGED <<pc, recData, out, resets>>

(* The radio keeps its FIFO, flags and registers; the CE pin goes low.       *)
Reset ==
  /\ resets < MaxResets
  /\ resets' = resets + 1
  /\ pc' = "init"
  /\ r2' = ClearCe(r2)
  /\ recData' = 0
  /\ UNCHANGED <<out, heard, aired>>

-----------------------------------------------------------------------------
(* main() up to the loop.  Radio 2 is first initialized as a transmitter.    *)

BootInitialize ==
  /\ pc = "init"
  /\ r2' = InitializeDebug(r2, FALSE, NoAddr)
  /\ pc' = "flush"
  /\ UNCHANGED <<recData, out, heard, aired, resets>>

BootFlush ==
  /\ pc = "flush"
  /\ r2' = ClearFlush(r2)
  /\ heard' = out
  /\ pc' = "receive"
  /\ UNCHANGED <<recData, out, aired, resets>>

BootReceive ==
  /\ pc = "receive"
  /\ r2' = SetAsRx(r2, TRUE)
  /\ pc' = "elsewhere"
  /\ UNCHANGED <<recData, out, heard, aired, resets>>

-----------------------------------------------------------------------------
(* The main loop *)

(* Frames, timers, records and the demo: everything that is not the uplink.  *)
RestOfLoop ==
  /\ pc = "elsewhere"
  /\ pc' = "poll"
  /\ UNCHANGED <<r2, recData, out, heard, aired, resets>>

NoInterrupt ==
  /\ pc = "poll" /\ ~IrqPinActive(r2)
  /\ pc' = "elsewhere"
  /\ UNCHANGED <<r2, recData, out, heard, aired, resets>>

(* read_rx_payload: clear_ce, R_RX_PAYLOAD, set_ce.                          *)
StopListening ==
  /\ pc = "poll" /\ IrqPinActive(r2)
  /\ r2' = ClearCe(r2)
  /\ pc' = "pop"
  /\ UNCHANGED <<recData, out, heard, aired, resets>>

(* Mutant: the payload stays in the FIFO. *)
PeekPayload ==
  /\ pc = "pop"
  /\ recData' = IF r2.rxFifo = <<>> THEN -1 ELSE Head(r2.rxFifo)
  /\ pc' = "resume"
  /\ UNCHANGED <<r2, out, heard, aired, resets>>

(* An empty FIFO gives whatever is on the SPI line.                          *)
PopPayload ==
  /\ pc = "pop"
  /\ recData' = IF r2.rxFifo = <<>> THEN -1 ELSE Head(r2.rxFifo)
  /\ r2' = [r2 EXCEPT !.rxFifo = IF @ = <<>> THEN @ ELSE Tail(@)]
  /\ pc' = "resume"
  /\ UNCHANGED <<out, heard, aired, resets>>

ResumeListening ==
  /\ pc = "resume"
  /\ r2' = SetCe(r2)
  /\ pc' = "forward"
  /\ UNCHANGED <<recData, out, heard, aired, resets>>

(* pbuf_alloc, pbuf_take, udp_sendto, pbuf_free.  The pool is taken to have  *)
(* a buffer: others are held only by the reassembly queue (ten of the        *)
(* thirty) and by packets that wait for ARP.  What udp_sendto returns is not *)
(* looked at (module Dhcp: the interface may be down).                       *)
Forward ==
  /\ pc = "forward"
  /\ out' = Append(out, recData)
  /\ pc' = "clear"
  /\ UNCHANGED <<r2, recData, heard, aired, resets>>

(* Mutant: the FIFO is flushed along with the interrupt. *)
ClearInterruptAndFifo ==
  /\ pc = "clear"
  /\ r2' = ClearFlush(r2)
  /\ recData' = 0
  /\ pc' = "elsewhere"
  /\ UNCHANGED <<out, heard, aired, resets>>

(* irq_clear_rx_dr; the FIFO is not looked at again.                         *)
ClearInterrupt ==
  /\ pc = "clear"
  /\ r2' = IrqClearRxDr(r2)
  /\ recData' = 0
  /\ pc' = "elsewhere"
  /\ UNCHANGED <<out, heard, aired, resets>>

Main ==
  \/ BootInitialize \/ BootFlush \/ BootReceive
  \/ RestOfLoop \/ NoInterrupt
  \/ StopListening \/ PopPayload \/ ResumeListening \/ Forward \/ ClearInterrupt

Next == Main \/ PacketAired \/ Reset

Spec == Init /\ [][Next]_vars

(* The processor keeps executing.                                            *)
FairSpec == Spec /\ WF_vars(Main)

-----------------------------------------------------------------------------
(* Properties *)

Increasing(s) == \A i, j \in 1..Len(s) : i < j => s[i] < s[j]

(* Type invariant; the buffer of process_incoming_rf only ever holds a       *)
(* packet that was on the air.                                               *)
TypeOK ==
  /\ pc \in BootPCs \cup LoopPCs
  /\ r2 \in Chips({NoAddr}, 1..aired)
  /\ Len(r2.rxFifo) <= FifoDepth
  /\ recData \in 0..aired
  /\ out \in Seq(1..aired) /\ heard \in Seq(1..aired)
  /\ aired \in 0..MaxPackets /\ resets \in 0..MaxResets

(* Packets leave in the order in which they were heard and none twice, not   *)
(* even with a reset between the read and the clear.                         *)
InOrderOnce == Increasing(out)

(* Packets read and not yet multicast, then those in the FIFO. *)
Waiting == (IF pc \in {"resume", "forward"} THEN <<recData>> ELSE <<>>) \o r2.rxFifo

(* What radio 2 took in has been sent or is still waiting: clearing          *)
(* RX_DR after the datagram is sent loses an interrupt but never a packet.   *)
NothingHeardIsLost == pc \in LoopPCs => heard = out \o Waiting

(* process_incoming_rf never reads an empty FIFO: RX_DR, which it tests, may *)
(* lag behind the FIFO but never runs ahead of it, whatever a reset of the   *)
(* processor left in the radio.                                              *)
NeverReadsEmpty == pc = "pop" => r2.rxFifo # <<>>

(* Once the main loop runs, radio 2 is on the air except while a payload is  *)
(* clocked out of it: no boot after a reset and no turn leaves it in standby.*)
OnAirInLoop == pc \in LoopPCs \ {"pop", "resume"} => Listening(r2)

(* A raised interrupt is served: the main loop comes round and clears it.    *)
InterruptServed == r2.rxDR ~> ~r2.rxDR

(* nrf24l01_set_as_rx(true) leaves a radio that monitors for packets: a full *)
(* FIFO is emptied and packets are heard again.  It is not: a radio whose    *)
(* FIFO filled up between the read and the clear raises no more interrupts.  *)
KeepsMonitoring ==
  (Listening(r2) /\ Len(r2.rxFifo) = FifoDepth) ~> Len(r2.rxFifo) < FifoDepth
=============================================================================

------------------------------- MODULE TxRelay -------------------------------
(* The downlink of the gateway: UDP datagrams of 33-byte records become      *)
(* packets of radio 1.                                                       *)
(*                                                                           *)
(* src/udp_echoserver.c (the receive callback and Process_recieved_Packet),  *)
(* demo() and the part of main() that drives radio 1, on top of the driver   *)
(* of module Nrf24.  A record is byte 0, the number of a robot or one of the *)
(* two channel commands 80 and 81, and a payload of 32 bytes.                *)
EXTENDS Nrf24

CONSTANTS
  Robots,        \* values of byte 0 that address a robot
  Bodies,        \* 32-byte payloads a client sends
  Channels,      \* channel numbers a client puts in a command
  FullRecs,      \* records that lie whole in the first pbuf of a datagram
  MaxRecs,       \* bound: records of a datagram
  InboxCap,      \* frames the Ethernet RX ring holds (ETH_RXBUFNB)
  MaxDatagrams,  \* bound: datagrams that arrive
  MaxResets      \* bound: resets of the microcontroller

(* int tx_channel = 110; int rx_channel = 80; *)
TxChannel0 == 110
RxChannel0 == 80

(* The third address byte tells robots apart: 8 after boot, 25 in demo().    *)
BootAddr == "boot"
DemoAddr == "demo"
ResetAddr == "E7"

TornBody == "torn"
Demo32 == "demo32"
Demo10 == "demo10"

ASSUME BoundsAssumption ==
  /\ FullRecs \in Nat \ {0}
  /\ MaxRecs \in Nat
  /\ InboxCap \in Nat \ {0}
  /\ MaxDatagrams \in Nat
  /\ MaxResets \in Nat

ASSUME ByteAssumption == Channels \subseteq 0..255

ASSUME NamesAssumption ==
  /\ {BootAddr, DemoAddr, ResetAddr} \cap Robots = {}
  /\ {TornBody, Demo32, Demo10} \cap Bodies = {}

Addrs    == Robots \cup {BootAddr, DemoAddr, ResetAddr}
Payloads == [id : Robots \cup {DemoAddr}, body : Bodies \cup {TornBody, Demo32, Demo10}]

RobotRecs == [op : {"robot"}, id : Robots, body : Bodies \cup {TornBody}]
Commands  == [op : {"rx", "tx"}, ch : Channels, confirmed : BOOLEAN]
Records   == RobotRecs \cup Commands

Packets == [to : Addrs, ch : 0..127, pay : Payloads]

VARIABLES
  pc,             \* where main() is
  inbox,          \* frames in the RX ring
  cur,            \* records of the datagram in process, from nextPacket on
  firstPacketRecieved,
  rx_channel, tx_channel,
  demoLeft,       \* packets demo() has still to send
  r1,             \* radio 1, the transmitter
  rfCh2,          \* RF_CH of radio 2, which command 81 tunes
  air,            \* history: the packets radio 1 has sent for clients
  arrivals, resets

cpuVars   == <<cur, firstPacketRecieved, rx_channel, tx_channel, demoLeft>>
boundVars == <<arrivals, resets>>
vars      == <<pc, inbox, cpuVars, r1, rfCh2, air, boundVars>>

BootPCs == {"init", "flush", "tune"}
LoopPCs == {"poll", "dispatch", "load", "pulse", "spin", "rest"}
-----------------------------------------------------------------------------
(* What Process_recieved_Packet sees of a datagram *)

(* It is given p->payload and p->len, the first pbuf of the chain only.  The *)
(* loop takes every record that begins there; the last of them may end       *)
(* beyond it, and the bytes it then reads are those of a neighbouring buffer.*)
Tear(r, short) ==
  IF r.op = "robot" THEN {[r EXCEPT !.body = TornBody]}
  ELSE IF short THEN {c \in Commands : c.op = r.op}
  ELSE {r}

SeenBy(recs, short) ==
  LET crosses == Len(recs) > FullRecs
      n       == IF crosses THEN FullRecs + 1 ELSE Len(recs)
  IN  IF crosses \/ (short /\ n > 0)
      THEN {Append(SubSeq(recs, 1, n - 1), r) : r \in Tear(recs[n], short /\ ~crosses)}
      ELSE {recs}

ClientRecs == [op : {"robot"}, id : Robots, body : Bodies] \cup Commands
Datagrams  == UNION {[1..n -> ClientRecs] : n \in 0..MaxRecs}

-----------------------------------------------------------------------------
Init ==
  /\ pc = "init"
  /\ inbox = <<>> /\ cur = <<>>
  /\ firstPacketRecieved = 0
  /\ rx_channel = RxChannel0 /\ tx_channel = TxChannel0
  /\ demoLeft = 0
  /\ r1 = PowerOnChip(ResetAddr)
  /\ rfCh2 = DefaultRfCh
  /\ air = <<>>
  /\ arrivals = 0 /\ resets = 0

(* A datagram for port 60005 reaches the RX ring.  When the ring is full the *)
(* DMA drops the frame, which leaves no trace.                               *)
Arrive(recs, short) ==
  /\ arrivals < MaxDatagrams
  /\ pc \notin BootPCs
  /\ Len(inbox) < InboxCap
  /\ \E seen \in SeenBy(recs, short) : inbox' = Append(inbox, seen)
  /\ arrivals' = arrivals + 1
  /\ UNCHANGED <<pc, cpuVars, r1, rfCh2, air, resets>>

(* The microcontroller restarts.  The radios are separate chips: they keep   *)
(* their registers, their FIFOs and a packet that is being sent.             *)
Reset ==
  /\ resets < MaxResets
  /\ resets' = resets + 1
  /\ pc' = "init"
  /\ inbox' = <<>> /\ cur' = <<>>
  /\ firstPacketRecieved' = 0
  /\ rx_channel' = RxChannel0 /\ tx_channel' = TxChannel0
  /\ demoLeft' = 0
  /\ r1' = ClearCe(r1)
  /\ UNCHANGED <<rfCh2, air, arrivals>>

-----------------------------------------------------------------------------
(* main() up to the loop *)

(* The delays before it last seconds, a packet on the air less than one      *)
(* millisecond: the radio is idle when it is reached.                        *)
BootInitialize ==
  /\ pc = "init" /\ ~r1.busy
  /\ r1' = InitializeDebug(r1, FALSE, ResetAddr)
  /\ pc' = "flush"
  /\ UNCHANGED <<inbox, cpuVars, rfCh2, air, boundVars>>

BootFlush ==
  /\ pc = "flush"
  /\ r1' = ClearFlush(r1)
  /\ pc' = "tune"
  /\ UNCHANGED <<inbox, cpuVars, rfCh2, air, boundVars>>

BootTune ==
  /\ pc = "tune"
  /\ r1' = SetRfCh(SetTxAddr(r1, BootAddr), tx_channel)
  /\ rfCh2' = rx_channel % 128
  /\ pc' = "poll"
  /\ UNCHANGED <<inbox, cpuVars, air, boundVars>>

-----------------------------------------------------------------------------
(* The main loop *)

(* A frame is waiting: LwIP_Pkt_Handle, ip_input, udp_input and the receive  *)
(* callback.                                                                 *)
ReceiveCallback ==
  /\ pc = "poll" /\ inbox # <<>>
  /\ cur' = Head(inbox)
  /\ inbox' = Tail(inbox)
  /\ firstPacketRecieved' = 1
  /\ pc' = "dispatch"
  /\ UNCHANGED <<rx_channel, tx_channel, demoLeft, r1, rfCh2, air, boundVars>>

NoFrame ==
  /\ pc = "poll" /\ inbox = <<>>
  /\ pc' = "rest"
  /\ UNCHANGED <<inbox, cpuVars, r1, rfCh2, air, boundVars>>

(* demo() runs as long as no packet has been received. *)
StartDemo ==
  /\ pc = "rest" /\ firstPacketRecieved = 0
  /\ r1' = SetTxAddr(r1, DemoAddr)
  /\ demoLeft' = 2
  /\ pc' = "load"
  /\ UNCHANGED <<inbox, cur, firstPacketRecieved, rx_channel, tx_channel, rfCh2, air, boundVars>>

SkipDemo ==
  /\ pc = "rest" /\ firstPacketRecieved = 1
  /\ pc' = "poll"
  /\ UNCHANGED <<inbox, cpuVars, r1, rfCh2, air, boundVars>>

-----------------------------------------------------------------------------
(* Process_recieved_Packet: one turn of while(nextPacket < len) *)

(* The turn takes a command only when it is confirmed and changes the        *)
(* channel variable.                                                         *)
Takes(r, channel) == r.confirmed /\ channel # r.ch

SetRxChannel ==
  /\ pc = "dispatch" /\ cur # <<>>
  /\ Head(cur).op = "rx" /\ Takes(Head(cur), rx_channel)
  /\ rx_channel' = Head(cur).ch
  /\ r1' = SetRfCh(r1, Head(cur).ch)
  /\ cur' = Tail(cur)
  /\ UNCHANGED <<pc, inbox, firstPacketRecieved, tx_channel, demoLeft, rfCh2, air, boundVars>>

(* Mutant: command 81 tunes radio 1. *)
SetTxChannelOnRadio1 ==
  /\ pc = "dispatch" /\ cur # <<>>
  /\ Head(cur).op = "tx" /\ Takes(Head(cur), tx_channel)
  /\ tx_channel' = Head(cur).ch
  /\ r1' = SetRfCh(r1, Head(cur).ch)
  /\ cur' = Tail(cur)
  /\ UNCHANGED <<pc, inbox, firstPacketRecieved, rx_channel, demoLeft, rfCh2, air, boundVars>>

SetTxChannel ==
  /\ pc = "dispatch" /\ cur # <<>>
  /\ Head(cur).op = "tx" /\ Takes(Head(cur), tx_channel)
  /\ tx_channel' = Head(cur).ch
  /\ rfCh2' = Head(cur).ch % 128
  /\ cur' = Tail(cur)
  /\ UNCHANGED <<pc, inbox, firstPacketRecieved, rx_channel, demoLeft, r1, air, boundVars>>

(* A command the turn does not take leaves nextPacket where it is: the next  *)
(* turn meets the same command in the same state.                            *)
Stuck ==
  /\ pc = "dispatch" /\ cur # <<>>
  /\ \/ Head(cur).op = "rx" /\ ~Takes(Head(cur), rx_channel)
     \/ Head(cur).op = "tx" /\ ~Takes(Head(cur), tx_channel)

RepeatTurn == Stuck /\ UNCHANGED vars

AddressRobot ==
  /\ pc = "dispatch" /\ cur # <<>> /\ Head(cur).op = "robot"
  /\ r1' = SetTxAddr(r1, Head(cur).id)
  /\ pc' = "load"
  /\ UNCHANGED <<inbox, cpuVars, rfCh2, air, boundVars>>

CallbackReturns ==
  /\ pc = "dispatch" /\ cur = <<>>
  /\ pc' = "rest"
  /\ UNCHANGED <<inbox, cpuVars, r1, rfCh2, air, boundVars>>

-----------------------------------------------------------------------------
(* write_tx_payload(.., true), the wait for the IRQ pin, irq_clear_all.      *)
(* demo() and Process_recieved_Packet have the same sequence.                *)

PayloadNow ==
  IF demoLeft = 2 THEN [id |-> DemoAddr, body |-> Demo32]
  ELSE IF demoLeft = 1 THEN [id |-> DemoAddr, body |-> Demo10]
  ELSE [id |-> Head(cur).id, body |-> Head(cur).body]

WritePayload ==
  /\ pc = "load"
  /\ r1' = LoadTxPayload(r1, PayloadNow)
  /\ pc' = "pulse"
  /\ UNCHANGED <<inbox, cpuVars, rfCh2, air, boundVars>>

PulseCe ==
  /\ pc = "pulse"
  /\ r1' = Transmit(r1)
  /\ pc' = "spin"
  /\ UNCHANGED <<inbox, cpuVars, rfCh2, air, boundVars>>

(* Mutants: the spin is left out; the flags are not cleared; nextPacket does *)
(* not move.                                                                 *)
RecordSentNoSpin ==
  /\ pc = "spin" /\ demoLeft = 0
  /\ r1' = IrqClearAll(r1)
  /\ cur' = Tail(cur)
  /\ pc' = "dispatch"
  /\ UNCHANGED <<inbox, firstPacketRecieved, rx_channel, tx_channel, demoLeft, rfCh2, air, boundVars>>

RecordSentNoClear ==
  /\ pc = "spin" /\ demoLeft = 0 /\ IrqPinActive(r1)
  /\ cur' = Tail(cur)
  /\ pc' = "dispatch"
  /\ UNCHANGED <<inbox, firstPacketRecieved, rx_channel, tx_channel, demoLeft, r1, rfCh2, air, boundVars>>

RecordSentNoAdvance ==
  /\ pc = "spin" /\ demoLeft = 0 /\ IrqPinActive(r1)
  /\ r1' = IrqClearAll(r1)
  /\ pc' = "dispatch"
  /\ UNCHANGED <<inbox, cpuVars, rfCh2, air, boundVars>>

(* while(!irq_pin_active()); irq_clear_all(); and on to the next packet *)
RecordSent ==
  /\ pc = "spin" /\ demoLeft = 0 /\ IrqPinActive(r1)
  /\ r1' = IrqClearAll(r1)
  /\ cur' = Tail(cur)
  /\ pc' = "dispatch"
  /\ UNCHANGED <<inbox, firstPacketRecieved, rx_channel, tx_channel, demoLeft, rfCh2, air, boundVars>>

DemoSent ==
  /\ pc = "spin" /\ demoLeft > 0 /\ IrqPinActive(r1)
  /\ r1' = IrqClearAll(r1)
  /\ demoLeft' = demoLeft - 1
  /\ pc' = IF demoLeft = 2 THEN "load" ELSE "poll"
  /\ UNCHANGED <<inbox, cur, firstPacketRecieved, rx_channel, tx_channel, rfCh2, air, boundVars>>

(* Radio 1 finishes a packet and raises TX_DS.  demo() repeats for ever, so  *)
(* the history leaves its packets out.                                       *)
RadioSends ==
  /\ r1.busy
  /\ air' = IF Head(r1.txFifo).id = DemoAddr THEN air ELSE Append(air, OnAir(r1))
  /\ r1' = PacketSent(r1)
  /\ UNCHANGED <<pc, inbox, cpuVars, rfCh2, boundVars>>

-----------------------------------------------------------------------------
Main ==
  \/ BootInitialize \/ BootFlush \/ BootTune
  \/ ReceiveCallback \/ NoFrame \/ StartDemo \/ SkipDemo
  \/ SetRxChannel \/ SetTxChannel \/ RepeatTurn \/ AddressRobot \/ CallbackReturns
  \/ WritePayload \/ PulseCe \/ RecordSent \/ DemoSent

Next ==
  \/ Main
  \/ RadioSends
  \/ \E recs \in Datagrams, short \in BOOLEAN : Arrive(recs, short)
  \/ Reset

Spec == Init /\ [][Next]_vars

(* The processor keeps executing and the radio finishes what it has begun.   *)
FairSpec == Spec /\ WF_vars(Main) /\ WF_vars(RadioSends)

-----------------------------------------------------------------------------
(* Properties *)

Running == pc \in LoopPCs

ControlType ==
  /\ pc \in BootPCs \cup LoopPCs
  /\ firstPacketRecieved \in {0, 1}
  /\ rx_channel \in 0..255 /\ tx_channel \in 0..255
  /\ demoLeft \in 0..2
  /\ rfCh2 \in 0..127
  /\ arrivals \in Nat /\ resets \in Nat

QueueType ==
  /\ inbox \in Seq(Seq(Records)) /\ Len(inbox) <= InboxCap
  /\ cur \in Seq(Records)

RadioType == r1 \in Chips(Addrs, Payloads) /\ air \in Seq(Packets)

(* Every variable has the type its C declaration or the radio gives it; the  *)
(* channel registers keep their reserved bit clear.                          *)
TypeOK == ControlType /\ QueueType /\ RadioType

(* The address register and the payload of a transmission come from the same *)
(* record: a robot never gets the command of another, although the two are   *)
(* written by separate SPI commands, the radio sends on its own time and     *)
(* keeps its FIFO over a reset of the processor.                             *)
Addressed ==
  /\ r1.busy => r1.txAddr = Head(r1.txFifo).id
  /\ \A i \in 1..Len(air) : air[i].to = air[i].pay.id

(* The spin on the IRQ pin waits for exactly one packet, its own: TX_DS is   *)
(* never left over from an earlier packet (the loop would run ahead of the   *)
(* radio) and never missing with nothing on its way (it would spin for ever).*)
SpinWaitsForOnePacket ==
  pc = "spin" => /\ r1.busy # r1.txDS
                 /\ Len(r1.txFifo) = (IF r1.busy THEN 1 ELSE 0)

(* Each radio is tuned to the variable whose command tunes it, or still to   *)
(* the channel main() gave it: commands, the reserved bit of RF_CH and       *)
(* resets never leave a register and its variable apart.                     *)
ChannelsCoherent ==
  Running =>
    /\ r1.rfCh \in {rx_channel % 128} \cup (IF rx_channel = RxChannel0 THEN {TxChannel0} ELSE {})
    /\ rfCh2 \in {tx_channel % 128} \cup (IF tx_channel = TxChannel0 THEN {RxChannel0} ELSE {})

(* Nothing the processor does touches radio 1 while a packet is on the air.  *)
AirUndisturbed ==
  [][r1.busy /\ r1'.busy => /\ r1'.txAddr = r1.txAddr
                            /\ r1'.rfCh = r1.rfCh
                            /\ r1'.txFifo = r1.txFifo]_vars

(* Once the callback has a datagram, control comes back to the main loop, or *)
(* a channel command that is not taken has stopped it for good.              *)
ReturnsOrStuck == (pc = "dispatch") ~> (pc = "poll" \/ Stuck)

(* The callback is called for every datagram that is received.               *)
EveryDatagramHandled == (inbox # <<>>) ~> (inbox = <<>>)
=============================================================================

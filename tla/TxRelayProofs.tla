---------------------------- MODULE TxRelayProofs ----------------------------
(* Proofs about TxRelay, for every set of robots, payloads and channels and  *)
(* every value of the bounds: its invariants, then its refinement of         *)
(* OrderedRelay under the mapping of MCTxRelay.                              *)
EXTENDS MCTxRelay, SequenceTheorems, FiniteSetTheorems, WellFoundedInduction, TLAPS

Sending == pc \in {"load", "pulse", "spin"}
Quiet(c) == c.txFifo = <<>> /\ ~c.busy /\ ~c.txDS

(* What holds of radio 1 and of the current record at each point of main().  *)
RadioInv ==
  /\ ~r1.rxDR
  /\ pc # "init" => r1.pwrUp /\ ~r1.primRx
  /\ r1.busy => /\ pc \in {"init", "spin"}
                /\ r1.txFifo # <<>>
                /\ r1.txAddr = Head(r1.txFifo).id
  /\ pc \in {"tune", "poll", "dispatch", "rest", "load"} => Quiet(r1)
  /\ Sending => r1.txAddr = PayloadNow.id
  /\ pc = "pulse" => /\ Len(r1.txFifo) = 1 /\ ~r1.busy /\ ~r1.txDS
                     /\ r1.txAddr = Head(r1.txFifo).id
  /\ pc = "spin" => /\ r1.busy # r1.txDS
                    /\ Len(r1.txFifo) = (IF r1.busy THEN 1 ELSE 0)

CurInv ==
  /\ ~Sending => demoLeft = 0
  /\ Sending /\ demoLeft = 0 => cur # <<>> /\ Head(cur) \in RobotRecs

AirInv == \A i \in 1..Len(air) : air[i].to = air[i].pay.id

IInv == TypeOK /\ RadioInv /\ CurInv /\ AirInv

-----------------------------------------------------------------------------
(* Lemma: the records the loop sees of a datagram are records.               *)
LEMMA SeenType ==
  ASSUME NEW recs \in Datagrams, NEW short \in BOOLEAN, NEW seen \in SeenBy(recs, short)
  PROVE  seen \in Seq(Records)
<1>1. recs \in Seq(ClientRecs)
  BY DEF Datagrams
<1>2. ClientRecs \subseteq Records
  BY DEF ClientRecs, Records, RobotRecs
<1>3. recs \in Seq(Records)
  BY <1>1, <1>2
<1>4. ASSUME NEW r \in Records, NEW b \in BOOLEAN, NEW t \in Tear(r, b)
      PROVE  t \in Records
  <2>1. CASE r \in RobotRecs
    BY <2>1, <1>4 DEF Tear, Records, RobotRecs
  <2>2. CASE r \in Commands
    <3>1. r.op # "robot"
      BY <2>2 DEF Commands
    <3> QED BY <1>4, <2>2, <3>1 DEF Tear, Records
  <2> QED BY <2>1, <2>2 DEF Records
<1> DEFINE crosses == Len(recs) > FullRecs
           n == IF crosses THEN FullRecs + 1 ELSE Len(recs)
<1>5. CASE crosses \/ (short /\ n > 0)
  <2>1. n \in 1..Len(recs)
    BY <1>3, <1>5, BoundsAssumption
  <2>2. SubSeq(recs, 1, n - 1) \in Seq(Records)
    BY <1>3, <2>1
  <2>3. recs[n] \in Records
    BY <1>3, <2>1
  <2>4. PICK r \in Tear(recs[n], short /\ ~crosses) : seen = Append(SubSeq(recs, 1, n - 1), r)
    BY <1>5 DEF SeenBy
  <2>5. r \in Records
    BY <2>3, <2>4, <1>4
  <2> QED BY <2>2, <2>4, <2>5
<1>6. CASE ~(crosses \/ (short /\ n > 0))
  BY <1>3, <1>6 DEF SeenBy
<1> QED BY <1>5, <1>6

THEOREM InitInvariant == Init => IInv
<1> SUFFICES ASSUME Init PROVE IInv
  OBVIOUS
<1> USE DEF Init
<1>1. r1 \in Chips(Addrs, Payloads)
  BY DEF PowerOnChip, Chips, Addrs, DefaultRfCh
<1>2. TypeOK
  <2>1. inbox \in Seq(Seq(Records)) /\ Len(inbox) <= InboxCap
    BY BoundsAssumption
  <2>2. cur \in Seq(Records) /\ air \in Seq(Packets)
    OBVIOUS
  <2>3. rx_channel \in 0..255 /\ tx_channel \in 0..255 /\ rfCh2 \in 0..127
    BY DEF RxChannel0, TxChannel0, DefaultRfCh
  <2>4. firstPacketRecieved \in {0, 1}
    OBVIOUS
  <2>5. pc \in BootPCs \cup LoopPCs
    BY DEF BootPCs
  <2>6. demoLeft \in 0..2 /\ arrivals \in Nat /\ resets \in Nat
    OBVIOUS
  <2> HIDE DEF Init
  <2> QED BY <1>1, <2>1, <2>2, <2>3, <2>4, <2>5, <2>6
          DEF TypeOK, ControlType, QueueType, RadioType
<1>3. RadioInv
  BY DEF RadioInv, Sending, PowerOnChip
<1>4. CurInv /\ AirInv
  BY DEF CurInv, AirInv, Sending
<1> QED BY <1>2, <1>3, <1>4 DEF IInv
-----------------------------------------------------------------------------
(* Chip lemmas: a driver call or an event of the radio leaves a chip a chip. *)
LEMMA ChipType ==
  ASSUME NEW c \in Chips(Addrs, Payloads)
  PROVE  /\ ClearCe(c) \in Chips(Addrs, Payloads)
         /\ InitializeDebug(c, FALSE, ResetAddr) \in Chips(Addrs, Payloads)
         /\ ClearFlush(c) \in Chips(Addrs, Payloads)
         /\ IrqClearAll(c) \in Chips(Addrs, Payloads)
         /\ Transmit(c) \in Chips(Addrs, Payloads)
         /\ \A a \in Addrs : SetTxAddr(c, a) \in Chips(Addrs, Payloads)
         /\ \A ch \in 0..255 : SetRfCh(c, ch) \in Chips(Addrs, Payloads)
         /\ \A p \in Payloads : LoadTxPayload(c, p) \in Chips(Addrs, Payloads)
         /\ c.txFifo # <<>> => /\ PacketSent(c) \in Chips(Addrs, Payloads)
                               /\ OnAir(c) \in Packets
<1>1. ClearCe(c) \in Chips(Addrs, Payloads)
  BY DEF ClearCe, Chips
<1>2. InitializeDebug(c, FALSE, ResetAddr) \in Chips(Addrs, Payloads)
  <2> DEFINE d == [c EXCEPT !.rfCh = DefaultRfCh, !.txAddr = ResetAddr]
  <2>1. ResetAddr \in Addrs /\ DefaultRfCh \in 0..127
    BY DEF Addrs, DefaultRfCh
  <2>2. d \in Chips(Addrs, Payloads)
    BY <2>1 DEF Chips
  <2> HIDE DEF d
  <2>3. PowerUpParam(d, FALSE, TRUE) \in Chips(Addrs, Payloads)
    BY <2>2 DEF PowerUpParam, Chips
  <2> QED BY <2>3 DEF d, InitializeDebug
<1>3. \A d \in Chips(Addrs, Payloads) : IrqClearAll(d) \in Chips(Addrs, Payloads)
  BY DEF IrqClearAll, Chips
<1>4. FlushTx(FlushRx(c)) \in Chips(Addrs, Payloads)
  <2>1. <<>> \in Seq(Payloads)
    OBVIOUS
  <2>2. FlushRx(c) \in Chips(Addrs, Payloads)
    BY <2>1 DEF FlushRx, Chips
  <2> QED BY <2>1, <2>2 DEF FlushTx, Chips
<1>5. Transmit(c) \in Chips(Addrs, Payloads)
  BY DEF Transmit, Chips
<1>6. \A a \in Addrs : SetTxAddr(c, a) \in Chips(Addrs, Payloads)
  BY DEF SetTxAddr, Chips
<1>7. ASSUME NEW ch \in 0..255 PROVE SetRfCh(c, ch) \in Chips(Addrs, Payloads)
  <2>1. ch % 128 \in 0..127
    OBVIOUS
  <2> QED BY <2>1 DEF SetRfCh, Chips
<1>8. c.txFifo \in Seq(Payloads)
  BY DEF Chips
<1>9. ASSUME NEW p \in Payloads PROVE LoadTxPayload(c, p) \in Chips(Addrs, Payloads)
  <2>1. Append(c.txFifo, p) \in Seq(Payloads)
    BY <1>8
  <2> QED BY <2>1 DEF LoadTxPayload, Chips
<1>10. ASSUME c.txFifo # <<>>
       PROVE  PacketSent(c) \in Chips(Addrs, Payloads) /\ OnAir(c) \in Packets
  <2>1. Tail(c.txFifo) \in Seq(Payloads) /\ Head(c.txFifo) \in Payloads
    BY <1>8, <1>10
  <2>2. PacketSent(c) \in Chips(Addrs, Payloads)
    BY <2>1 DEF PacketSent, Chips
  <2>3. c.txAddr \in Addrs /\ c.rfCh \in 0..127
    BY DEF Chips
  <2> QED BY <2>1, <2>2, <2>3 DEF OnAir, Packets
<1>11. ClearFlush(c) \in Chips(Addrs, Payloads)
  BY <1>3, <1>4 DEF ClearFlush
<1> QED BY <1>1, <1>2, <1>3, <1>5, <1>6, <1>7, <1>9, <1>10, <1>11

(* Control state, channel variables and counters keep their types. *)
LEMMA ControlTypeStep ==
  ASSUME ControlType, QueueType, [Next]_vars
  PROVE  ControlType'
<1> USE DEF ControlType, BootPCs, LoopPCs, cpuVars, boundVars
<1>1. CASE BootInitialize
  BY <1>1 DEF BootInitialize
<1>2. CASE BootFlush
  BY <1>2 DEF BootFlush
<1>3. CASE BootTune
  BY <1>3 DEF BootTune
<1>4. CASE ReceiveCallback
  BY <1>4 DEF ReceiveCallback
<1>5. CASE NoFrame
  BY <1>5 DEF NoFrame
<1>6. CASE StartDemo
  BY <1>6 DEF StartDemo
<1>7. CASE SkipDemo
  BY <1>7 DEF SkipDemo
<1>8. CASE SetRxChannel
  <2>1. Head(cur) \in Commands
    BY <1>8 DEF SetRxChannel, QueueType, Records, RobotRecs, Commands
  <2>2. Head(cur).ch \in 0..255
    BY <2>1, ByteAssumption DEF Commands
  <2> QED BY <1>8, <2>2 DEF SetRxChannel
<1>9. CASE SetTxChannel
  <2>1. Head(cur) \in Commands
    BY <1>9 DEF SetTxChannel, QueueType, Records, RobotRecs, Commands
  <2>2. Head(cur).ch \in 0..255
    BY <2>1, ByteAssumption DEF Commands
  <2>3. Head(cur).ch % 128 \in 0..127
    BY <2>2
  <2> QED BY <1>9, <2>2, <2>3 DEF SetTxChannel
<1>10. CASE RepeatTurn
  BY <1>10 DEF RepeatTurn, vars
<1>11. CASE AddressRobot
  BY <1>11 DEF AddressRobot
<1>12. CASE CallbackReturns
  BY <1>12 DEF CallbackReturns
<1>13. CASE WritePayload
  BY <1>13 DEF WritePayload
<1>14. CASE PulseCe
  BY <1>14 DEF PulseCe
<1>15. CASE RecordSent
  BY <1>15 DEF RecordSent
<1>16. CASE DemoSent
  BY <1>16 DEF DemoSent
<1>17. CASE RadioSends
  BY <1>17 DEF RadioSends
<1>18. ASSUME NEW recs \in Datagrams, NEW short \in BOOLEAN, Arrive(recs, short)
      PROVE  ControlType'
  BY <1>18 DEF Arrive
<1>19. CASE Reset
  BY <1>19, BoundsAssumption DEF Reset, RxChannel0, TxChannel0
<1>20. CASE UNCHANGED vars
  BY <1>20 DEF vars
<1> QED
  BY <1>1, <1>2, <1>3, <1>4, <1>5, <1>6, <1>7, <1>8, <1>9, <1>10, <1>11, <1>12, <1>13, <1>14, <1>15, <1>16, <1>17, <1>18, <1>19, <1>20 DEF Next, Main

(* The RX ring keeps within its capacity and holds records only. *)
LEMMA QueueTypeStep ==
  ASSUME QueueType, CurInv, [Next]_vars
  PROVE  QueueType'
<1> USE DEF QueueType, cpuVars
<1>1. CASE BootInitialize
  BY <1>1 DEF BootInitialize
<1>2. CASE BootFlush
  BY <1>2 DEF BootFlush
<1>3. CASE BootTune
  BY <1>3 DEF BootTune
<1>4. CASE ReceiveCallback
  <2>1. Head(inbox) \in Seq(Records) /\ Tail(inbox) \in Seq(Seq(Records))
    BY <1>4 DEF ReceiveCallback
  <2>2. Len(Tail(inbox)) <= InboxCap
    BY <1>4, BoundsAssumption DEF ReceiveCallback
  <2> QED BY <1>4, <2>1, <2>2 DEF ReceiveCallback
<1>5. CASE NoFrame
  BY <1>5 DEF NoFrame
<1>6. CASE StartDemo
  BY <1>6 DEF StartDemo
<1>7. CASE SkipDemo
  BY <1>7 DEF SkipDemo
<1>8. CASE SetRxChannel
  BY <1>8 DEF SetRxChannel
<1>9. CASE SetTxChannel
  BY <1>9 DEF SetTxChannel
<1>10. CASE RepeatTurn
  BY <1>10 DEF RepeatTurn, vars
<1>11. CASE AddressRobot
  BY <1>11 DEF AddressRobot
<1>12. CASE CallbackReturns
  BY <1>12 DEF CallbackReturns
<1>13. CASE WritePayload
  BY <1>13 DEF WritePayload
<1>14. CASE PulseCe
  BY <1>14 DEF PulseCe
<1>15. CASE RecordSent
  BY <1>15 DEF RecordSent, CurInv, Sending
<1>16. CASE DemoSent
  BY <1>16 DEF DemoSent
<1>17. CASE RadioSends
  BY <1>17 DEF RadioSends
<1>18. ASSUME NEW recs \in Datagrams, NEW short \in BOOLEAN, Arrive(recs, short)
      PROVE  QueueType'
  <2>1. PICK seen \in SeenBy(recs, short) : inbox' = Append(inbox, seen)
    BY <1>18 DEF Arrive
  <2>2. seen \in Seq(Records)
    BY SeenType
  <2>3. Len(inbox) < InboxCap /\ cur' = cur
    BY <1>18 DEF Arrive
  <2> QED BY <2>1, <2>2, <2>3, BoundsAssumption
<1>19. CASE Reset
  BY <1>19, BoundsAssumption DEF Reset
<1>20. CASE UNCHANGED vars
  BY <1>20 DEF vars
<1> QED
  BY <1>1, <1>2, <1>3, <1>4, <1>5, <1>6, <1>7, <1>8, <1>9, <1>10, <1>11, <1>12, <1>13, <1>14, <1>15, <1>16, <1>17, <1>18, <1>19, <1>20 DEF Next, Main

(* Radio 1 stays a chip and the history a sequence of packets. *)
LEMMA RadioTypeStep ==
  ASSUME ControlType, QueueType, RadioType, RadioInv, CurInv, [Next]_vars
  PROVE  RadioType'
<1> USE DEF RadioType, cpuVars
<1>1. CASE BootInitialize
  BY <1>1, ChipType DEF BootInitialize
<1>2. CASE BootFlush
  BY <1>2, ChipType DEF BootFlush
<1>3. CASE BootTune
  <2>1. BootAddr \in Addrs /\ tx_channel \in 0..255
    BY DEF Addrs, ControlType
  <2>2. SetTxAddr(r1, BootAddr) \in Chips(Addrs, Payloads)
    BY <2>1, ChipType
  <2> QED BY <1>3, <2>1, <2>2, ChipType DEF BootTune
<1>4. CASE ReceiveCallback
  BY <1>4 DEF ReceiveCallback
<1>5. CASE NoFrame
  BY <1>5 DEF NoFrame
<1>6. CASE StartDemo
  <2>1. DemoAddr \in Addrs
    BY DEF Addrs
  <2> QED BY <1>6, <2>1, ChipType DEF StartDemo
<1>7. CASE SkipDemo
  BY <1>7 DEF SkipDemo
<1>8. CASE SetRxChannel
  <2>1. Head(cur) \in Commands
    BY <1>8 DEF SetRxChannel, QueueType, Records, RobotRecs, Commands
  <2>2. Head(cur).ch \in 0..255
    BY <2>1, ByteAssumption DEF Commands
  <2> QED BY <1>8, <2>2, ChipType DEF SetRxChannel
<1>9. CASE SetTxChannel
  BY <1>9 DEF SetTxChannel
<1>10. CASE RepeatTurn
  BY <1>10 DEF RepeatTurn, vars
<1>11. CASE AddressRobot
  <2>1. Head(cur).id \in Addrs
    BY <1>11 DEF AddressRobot, QueueType, Records, RobotRecs, Commands, Addrs
  <2> QED BY <1>11, <2>1, ChipType DEF AddressRobot
<1>12. CASE CallbackReturns
  BY <1>12 DEF CallbackReturns
<1>13. CASE WritePayload
  <2>1. CASE demoLeft = 0
    <3>1. Head(cur) \in RobotRecs
      BY <1>13, <2>1 DEF WritePayload, CurInv, Sending
    <3>2. Head(cur).id \in Robots /\ Head(cur).body \in Bodies \cup {TornBody}
      BY <3>1 DEF RobotRecs
    <3>3. PayloadNow \in Payloads
      BY <2>1, <3>2 DEF PayloadNow, Payloads
    <3> QED BY <1>13, <3>3, ChipType DEF WritePayload
  <2>2. CASE demoLeft # 0
    <3>1. PayloadNow \in Payloads
      BY <2>2 DEF PayloadNow, Payloads, ControlType
    <3> QED BY <1>13, <3>1, ChipType DEF WritePayload
  <2> QED BY <2>1, <2>2
<1>14. CASE PulseCe
  BY <1>14, ChipType DEF PulseCe
<1>15. CASE RecordSent
  BY <1>15, ChipType DEF RecordSent
<1>16. CASE DemoSent
  BY <1>16, ChipType DEF DemoSent
<1>17. CASE RadioSends
  <2>1. r1.txFifo # <<>>
    BY <1>17 DEF RadioSends, RadioInv
  <2>2. PacketSent(r1) \in Chips(Addrs, Payloads) /\ OnAir(r1) \in Packets
    BY <2>1, ChipType
  <2> QED BY <1>17, <2>2 DEF RadioSends
<1>18. ASSUME NEW recs \in Datagrams, NEW short \in BOOLEAN, Arrive(recs, short)
      PROVE  RadioType'
  BY <1>18 DEF Arrive
<1>19. CASE Reset
  BY <1>19, ChipType DEF Reset
<1>20. CASE UNCHANGED vars
  BY <1>20 DEF vars
<1> QED
  BY <1>1, <1>2, <1>3, <1>4, <1>5, <1>6, <1>7, <1>8, <1>9, <1>10, <1>11, <1>12, <1>13, <1>14, <1>15, <1>16, <1>17, <1>18, <1>19, <1>20 DEF Next, Main

(* Radio 1 is in the state its driver expects at every point of main(). *)
LEMMA RadioInvStep ==
  ASSUME TypeOK, RadioInv, CurInv, AirInv, [Next]_vars
  PROVE  RadioInv'
<1> USE DEF RadioInv, Sending, TypeOK, RadioType, QueueType, ControlType, Chips, Quiet, PayloadNow, cpuVars
<1>1. CASE BootInitialize
  BY <1>1 DEF BootInitialize, InitializeDebug, PowerUpParam
<1>2. CASE BootFlush
  BY <1>2 DEF BootFlush, ClearFlush, IrqClearAll, FlushTx, FlushRx
<1>3. CASE BootTune
  BY <1>3 DEF BootTune, SetRfCh, SetTxAddr
<1>4. CASE ReceiveCallback
  BY <1>4 DEF ReceiveCallback
<1>5. CASE NoFrame
  BY <1>5 DEF NoFrame
<1>6. CASE StartDemo
  BY <1>6 DEF StartDemo, SetTxAddr
<1>7. CASE SkipDemo
  BY <1>7 DEF SkipDemo
<1>8. CASE SetRxChannel
  BY <1>8 DEF SetRxChannel, SetRfCh
<1>9. CASE SetTxChannel
  BY <1>9 DEF SetTxChannel
<1>10. CASE RepeatTurn
  BY <1>10 DEF RepeatTurn, vars
<1>11. CASE AddressRobot
  <2>1. Head(cur) \in RobotRecs
    BY <1>11 DEF AddressRobot, Records, RobotRecs, Commands
  <2>2. demoLeft = 0
    BY <1>11 DEF AddressRobot, CurInv, Sending
  <2> QED BY <1>11, <2>1, <2>2 DEF AddressRobot, SetTxAddr
<1>12. CASE CallbackReturns
  BY <1>12 DEF CallbackReturns
<1>13. CASE WritePayload
  <2>1. Quiet(r1) /\ r1.txAddr = PayloadNow.id /\ UNCHANGED PayloadNow
    BY <1>13 DEF WritePayload
  <2>2. r1' = [r1 EXCEPT !.txFifo = <<PayloadNow>>]
    BY <1>13, <2>1 DEF WritePayload, LoadTxPayload, FifoDepth
  <2>3. /\ r1'.txFifo = <<PayloadNow>> /\ ~r1'.busy /\ ~r1'.txDS /\ ~r1'.rxDR
        /\ r1'.pwrUp /\ ~r1'.primRx /\ r1'.txAddr = PayloadNow.id
    BY <1>13, <2>1, <2>2 DEF WritePayload
  <2>4. pc' = "pulse" /\ UNCHANGED PayloadNow
    BY <1>13, <2>1 DEF WritePayload
  <2> HIDE DEF PayloadNow
  <2> QED BY <2>3, <2>4
<1>14. CASE PulseCe
  BY <1>14 DEF PulseCe, Transmit
<1>15. CASE RecordSent
  BY <1>15 DEF RecordSent, IrqClearAll, IrqPinActive
<1>16. CASE DemoSent
  <2>1. r1.txDS /\ ~r1.busy
    BY <1>16 DEF DemoSent, IrqPinActive
  <2>2. r1.txFifo \in Seq(Payloads) /\ Len(r1.txFifo) = 0
    BY <1>16, <2>1 DEF DemoSent, RadioType, Chips
  <2>3. r1.txFifo = <<>>
    BY <2>2, EmptySeq
  <2>4. Quiet(r1') /\ ~r1'.rxDR /\ r1'.pwrUp /\ ~r1'.primRx /\ r1'.txAddr = r1.txAddr
    BY <1>16, <2>1, <2>3 DEF DemoSent, IrqClearAll
  <2>5. pc' = "load" => demoLeft = 2 /\ demoLeft' = 1
    BY <1>16 DEF DemoSent
  <2>6. pc' = "load" => PayloadNow'.id = PayloadNow.id
    BY <2>5
  <2> QED BY <1>16, <2>4, <2>5, <2>6 DEF DemoSent
<1>17. CASE RadioSends
  <2>1. pc \in {"init", "spin"} /\ r1.txFifo \in Seq(Payloads) /\ r1.txFifo # <<>>
    BY <1>17 DEF RadioSends, RadioType, Chips
  <2>2. pc = "spin" => Len(r1.txFifo) = 1 /\ ~r1.txDS
    BY <1>17 DEF RadioSends
  <2>3. pc = "spin" => Len(Tail(r1.txFifo)) = 0
    BY <2>1, <2>2
  <2>4. r1'.txDS /\ ~r1'.busy /\ r1'.txFifo = Tail(r1.txFifo)
    BY <1>17 DEF RadioSends, PacketSent, RadioType, Chips
  <2>5. UNCHANGED <<pc, cur, demoLeft>> /\ r1'.txAddr = r1.txAddr /\ r1'.rxDR = r1.rxDR /\ r1'.pwrUp = r1.pwrUp /\ r1'.primRx = r1.primRx
    BY <1>17 DEF RadioSends, PacketSent, RadioType, Chips
  <2> QED BY <1>17, <2>1, <2>2, <2>3, <2>4, <2>5
<1>18. ASSUME NEW recs \in Datagrams, NEW short \in BOOLEAN, Arrive(recs, short)
      PROVE  RadioInv'
  BY <1>18 DEF Arrive
<1>19. CASE Reset
  BY <1>19 DEF Reset, ClearCe
<1>20. CASE UNCHANGED vars
  BY <1>20 DEF vars
<1> QED
  BY <1>1, <1>2, <1>3, <1>4, <1>5, <1>6, <1>7, <1>8, <1>9, <1>10, <1>11, <1>12, <1>13, <1>14, <1>15, <1>16, <1>17, <1>18, <1>19, <1>20 DEF Next, Main

(* The record being sent is a robot's, and demo() counts only while it sends. *)
LEMMA CurInvStep ==
  ASSUME TypeOK, RadioInv, CurInv, AirInv, [Next]_vars
  PROVE  CurInv'
<1> USE DEF CurInv, Sending, TypeOK, ControlType, QueueType, cpuVars
<1>1. CASE BootInitialize
  BY <1>1 DEF BootInitialize
<1>2. CASE BootFlush
  BY <1>2 DEF BootFlush
<1>3. CASE BootTune
  BY <1>3 DEF BootTune
<1>4. CASE ReceiveCallback
  BY <1>4 DEF ReceiveCallback
<1>5. CASE NoFrame
  BY <1>5 DEF NoFrame
<1>6. CASE StartDemo
  BY <1>6 DEF StartDemo
<1>7. CASE SkipDemo
  BY <1>7 DEF SkipDemo
<1>8. CASE SetRxChannel
  BY <1>8 DEF SetRxChannel
<1>9. CASE SetTxChannel
  BY <1>9 DEF SetTxChannel
<1>10. CASE RepeatTurn
  BY <1>10 DEF RepeatTurn, vars
<1>11. CASE AddressRobot
  <2>1. Head(cur) \in RobotRecs
    BY <1>11 DEF AddressRobot, QueueType, Records, RobotRecs, Commands
  <2> QED BY <1>11, <2>1 DEF AddressRobot
<1>12. CASE CallbackReturns
  BY <1>12 DEF CallbackReturns
<1>13. CASE WritePayload
  BY <1>13 DEF WritePayload
<1>14. CASE PulseCe
  BY <1>14 DEF PulseCe
<1>15. CASE RecordSent
  BY <1>15 DEF RecordSent
<1>16. CASE DemoSent
  BY <1>16 DEF DemoSent
<1>17. CASE RadioSends
  BY <1>17 DEF RadioSends
<1>18. ASSUME NEW recs \in Datagrams, NEW short \in BOOLEAN, Arrive(recs, short)
      PROVE  CurInv'
  BY <1>18 DEF Arrive
<1>19. CASE Reset
  BY <1>19 DEF Reset
<1>20. CASE UNCHANGED vars
  BY <1>20 DEF vars
<1> QED
  BY <1>1, <1>2, <1>3, <1>4, <1>5, <1>6, <1>7, <1>8, <1>9, <1>10, <1>11, <1>12, <1>13, <1>14, <1>15, <1>16, <1>17, <1>18, <1>19, <1>20 DEF Next, Main

(* The history stays well addressed. *)
LEMMA AirInvStep ==
  ASSUME TypeOK, RadioInv, CurInv, AirInv, [Next]_vars
  PROVE  AirInv'
<1> USE DEF AirInv, RadioInv, TypeOK, RadioType, cpuVars
<1>1. CASE BootInitialize
  BY <1>1 DEF BootInitialize
<1>2. CASE BootFlush
  BY <1>2 DEF BootFlush
<1>3. CASE BootTune
  BY <1>3 DEF BootTune
<1>4. CASE ReceiveCallback
  BY <1>4 DEF ReceiveCallback
<1>5. CASE NoFrame
  BY <1>5 DEF NoFrame
<1>6. CASE StartDemo
  BY <1>6 DEF StartDemo
<1>7. CASE SkipDemo
  BY <1>7 DEF SkipDemo
<1>8. CASE SetRxChannel
  BY <1>8 DEF SetRxChannel
<1>9. CASE SetTxChannel
  BY <1>9 DEF SetTxChannel
<1>10. CASE RepeatTurn
  BY <1>10 DEF RepeatTurn, vars
<1>11. CASE AddressRobot
  BY <1>11 DEF AddressRobot
<1>12. CASE CallbackReturns
  BY <1>12 DEF CallbackReturns
<1>13. CASE WritePayload
  BY <1>13 DEF WritePayload
<1>14. CASE PulseCe
  BY <1>14 DEF PulseCe
<1>15. CASE RecordSent
  BY <1>15 DEF RecordSent
<1>16. CASE DemoSent
  BY <1>16 DEF DemoSent
<1>17. CASE RadioSends
  BY <1>17 DEF RadioSends, OnAir
<1>18. ASSUME NEW recs \in Datagrams, NEW short \in BOOLEAN, Arrive(recs, short)
      PROVE  AirInv'
  BY <1>18 DEF Arrive
<1>19. CASE Reset
  BY <1>19 DEF Reset
<1>20. CASE UNCHANGED vars
  BY <1>20 DEF vars
<1> QED
  BY <1>1, <1>2, <1>3, <1>4, <1>5, <1>6, <1>7, <1>8, <1>9, <1>10, <1>11, <1>12, <1>13, <1>14, <1>15, <1>16, <1>17, <1>18, <1>19, <1>20 DEF Next, Main

-----------------------------------------------------------------------------
(* The channel variables are main()'s until the loop runs. *)
ChannelInv ==
  /\ ChannelsCoherent
  /\ ~Running => rx_channel = RxChannel0 /\ tx_channel = TxChannel0

(* A driver call other than set_rf_ch leaves RF_CH alone. *)
LEMMA ChipChannel ==
  ASSUME NEW c \in Chips(Addrs, Payloads)
  PROVE  /\ Transmit(c).rfCh = c.rfCh /\ IrqClearAll(c).rfCh = c.rfCh
         /\ PacketSent(c).rfCh = c.rfCh
         /\ \A a \in Addrs : SetTxAddr(c, a).rfCh = c.rfCh
         /\ \A p : LoadTxPayload(c, p).rfCh = c.rfCh
         /\ \A ch : SetRfCh(c, ch).rfCh = ch % 128
  BY DEF Chips, Transmit, IrqClearAll, PacketSent, SetTxAddr, LoadTxPayload, SetRfCh

(* A command tunes the radio its variable is for, and nothing else does. *)
LEMMA ChannelStep ==
  ASSUME TypeOK, RadioInv, CurInv, ChannelInv, [Next]_vars
  PROVE  ChannelInv'
<1> USE DEF TypeOK, RadioType, cpuVars, BootPCs, LoopPCs, Running
<1>1. CASE BootInitialize
  BY <1>1 DEF BootInitialize, ChannelInv, ChannelsCoherent
<1>2. CASE BootFlush
  BY <1>2 DEF BootFlush, ChannelInv, ChannelsCoherent
<1>3. CASE BootTune
  <2>1. rx_channel = RxChannel0 /\ tx_channel = TxChannel0
    BY <1>3 DEF BootTune, ChannelInv
  <2>2. r1'.rfCh = tx_channel % 128 /\ rfCh2' = rx_channel % 128
    BY <1>3 DEF BootTune, SetRfCh, SetTxAddr, Chips
  <2> QED BY <1>3, <2>1, <2>2 DEF BootTune, ChannelInv, ChannelsCoherent, RxChannel0, TxChannel0
<1>4. CASE ReceiveCallback
  BY <1>4 DEF ReceiveCallback, ChannelInv, ChannelsCoherent
<1>5. CASE NoFrame
  BY <1>5 DEF NoFrame, ChannelInv, ChannelsCoherent
<1>6. CASE StartDemo
  <2>1. DemoAddr \in Addrs
    BY DEF Addrs
  <2>2. r1'.rfCh = r1.rfCh
    BY <1>6, <2>1, ChipChannel DEF StartDemo
  <2> QED BY <1>6, <2>2 DEF StartDemo, ChannelInv, ChannelsCoherent
<1>7. CASE SkipDemo
  BY <1>7 DEF SkipDemo, ChannelInv, ChannelsCoherent
<1>8. CASE SetRxChannel
  <2>1. r1'.rfCh = Head(cur).ch % 128 /\ UNCHANGED rfCh2 /\ rx_channel' = Head(cur).ch
    BY <1>8, ChipChannel DEF SetRxChannel
  <2>2. Head(cur).ch # rx_channel
    BY <1>8 DEF SetRxChannel, Takes
  <2> QED BY <1>8, <2>1, <2>2 DEF SetRxChannel, ChannelInv, ChannelsCoherent
<1>9. CASE SetTxChannel
  <2>1. UNCHANGED r1 /\ rfCh2' = Head(cur).ch % 128 /\ tx_channel' = Head(cur).ch
    BY <1>9, ChipChannel DEF SetTxChannel
  <2>2. Head(cur).ch # tx_channel
    BY <1>9 DEF SetTxChannel, Takes
  <2> QED BY <1>9, <2>1, <2>2 DEF SetTxChannel, ChannelInv, ChannelsCoherent
<1>10. CASE RepeatTurn
  BY <1>10 DEF RepeatTurn, ChannelInv, ChannelsCoherent, vars
<1>11. CASE AddressRobot
  <2>1. Head(cur).id \in Addrs
    BY <1>11 DEF AddressRobot, QueueType, Records, RobotRecs, Commands, Addrs
  <2>2. r1'.rfCh = r1.rfCh
    BY <1>11, <2>1, ChipChannel DEF AddressRobot
  <2> QED BY <1>11, <2>2 DEF AddressRobot, ChannelInv, ChannelsCoherent
<1>12. CASE CallbackReturns
  BY <1>12 DEF CallbackReturns, ChannelInv, ChannelsCoherent
<1>13. CASE WritePayload
  <2>1. r1'.rfCh = r1.rfCh
    BY <1>13, ChipChannel DEF WritePayload
  <2> QED BY <1>13, <2>1 DEF WritePayload, ChannelInv, ChannelsCoherent
<1>14. CASE PulseCe
  <2>1. r1'.rfCh = r1.rfCh
    BY <1>14, ChipChannel DEF PulseCe
  <2> QED BY <1>14, <2>1 DEF PulseCe, ChannelInv, ChannelsCoherent
<1>15. CASE RecordSent
  <2>1. r1'.rfCh = r1.rfCh
    BY <1>15, ChipChannel DEF RecordSent
  <2> QED BY <1>15, <2>1 DEF RecordSent, ChannelInv, ChannelsCoherent
<1>16. CASE DemoSent
  <2>1. r1'.rfCh = r1.rfCh
    BY <1>16, ChipChannel DEF DemoSent
  <2> QED BY <1>16, <2>1 DEF DemoSent, ChannelInv, ChannelsCoherent
<1>17. CASE RadioSends
  <2>1. r1'.rfCh = r1.rfCh
    BY <1>17, ChipChannel DEF RadioSends
  <2> QED BY <1>17, <2>1 DEF RadioSends, ChannelInv, ChannelsCoherent
<1>18. ASSUME NEW recs \in Datagrams, NEW short \in BOOLEAN, Arrive(recs, short)
      PROVE  ChannelInv'
  BY <1>18 DEF Arrive, ChannelInv, ChannelsCoherent
<1>19. CASE Reset
  BY <1>19 DEF Reset, ChannelInv, ChannelsCoherent
<1>20. CASE UNCHANGED vars
  BY <1>20 DEF vars, ChannelInv, ChannelsCoherent
<1> QED
  BY <1>1, <1>2, <1>3, <1>4, <1>5, <1>6, <1>7, <1>8, <1>9, <1>10, <1>11, <1>12, <1>13, <1>14, <1>15, <1>16, <1>17, <1>18, <1>19, <1>20 DEF Next, Main

-----------------------------------------------------------------------------
LEMMA Inductive == IInv /\ [Next]_vars => IInv'
  BY ControlTypeStep, QueueTypeStep, RadioTypeStep, RadioInvStep, CurInvStep, AirInvStep DEF IInv, TypeOK

THEOREM Invariance == Spec => []IInv
  BY InitInvariant, Inductive, PTL DEF Spec

(* Theorem: every variable of the downlink keeps the type its declaration or *)
(* the radio's registers give it (main.c, udp_echoserver.c, nrf24l01.c).     *)
THEOREM TypeCorrect == Spec => []TypeOK
<1>1. IInv => TypeOK
  BY DEF IInv
<1> QED BY Invariance, <1>1, PTL

(* Theorem: for any robots, payloads, datagram size and number of resets the *)
(* radio sends a payload only under the address of the record it came in     *)
(* (udp_echoserver.c:167-172).                                               *)
THEOREM AlwaysAddressed == Spec => []Addressed
<1>1. IInv => Addressed
  BY DEF IInv, RadioInv, AirInv, Addressed
<1> QED BY Invariance, <1>1, PTL

(* Theorem: the spin on the IRQ pin never runs on a stale TX_DS and never    *)
(* starts with nothing to wait for (udp_echoserver.c:171, main.c:434, 438).  *)
THEOREM SpinIsSound == Spec => []SpinWaitsForOnePacket
<1>1. IInv => SpinWaitsForOnePacket
  BY DEF IInv, RadioInv, SpinWaitsForOnePacket
<1> QED BY Invariance, <1>1, PTL

(* Theorem: whatever commands come and wherever a reset falls, a radio is on *)
(* the channel of its variable or still on main()'s (main.c:584-590,         *)
(* udp_echoserver.c:150-164).                                                *)
THEOREM ChannelsAgree == Spec => []ChannelsCoherent
<1>1. Init => ChannelInv
  BY DEF Init, ChannelInv, ChannelsCoherent, Running, LoopPCs
<1>2. IInv /\ ChannelInv /\ [Next]_vars => ChannelInv'
  BY ChannelStep DEF IInv
<1>3. ChannelInv => ChannelsCoherent
  BY DEF ChannelInv
<1> QED BY <1>1, <1>2, <1>3, Invariance, PTL DEF Spec

(* Theorem: no register or FIFO of radio 1 changes under a packet on the air.*)
THEOREM AirIsUndisturbed == Spec => AirUndisturbed
<1> DEFINE A == r1.busy /\ r1'.busy => /\ r1'.txAddr = r1.txAddr
                                       /\ r1'.rfCh = r1.rfCh
                                       /\ r1'.txFifo = r1.txFifo
<1>1. ASSUME IInv, [Next]_vars PROVE A \/ UNCHANGED vars
  <2> SUFFICES ASSUME r1.busy, r1'.busy PROVE A
    OBVIOUS
  <2>0. pc \in {"init", "spin"}
    BY <1>1 DEF IInv, RadioInv
  <2>1. CASE UNCHANGED r1
    BY <2>1
  <2>2. CASE RecordSent \/ DemoSent
    BY <2>2, <1>1 DEF RecordSent, DemoSent, IInv, RadioInv, TypeOK, RadioType, Chips, IrqClearAll
  <2>3. CASE RadioSends
    BY <2>3, <1>1 DEF RadioSends, PacketSent, IInv, TypeOK, RadioType, Chips
  <2>4. CASE Reset
    BY <2>4, <1>1 DEF Reset, ClearCe, IInv, TypeOK, RadioType, Chips
  <2> QED
    BY <2>0, <2>1, <2>2, <2>3, <2>4, <1>1
    DEF Next, Main, vars, BootInitialize, BootFlush, BootTune, ReceiveCallback, NoFrame, StartDemo,
        SkipDemo, SetRxChannel, SetTxChannel, RepeatTurn, AddressRobot, CallbackReturns,
        WritePayload, PulseCe, Arrive
<1> QED BY <1>1, Invariance, PTL DEF Spec, AirUndisturbed

-----------------------------------------------------------------------------
(* Sequences of sequences *)

(* Lemma: a set of numbers that is not empty has a least element.  The       *)
(* initial intervals below its elements are finite sets, and inclusion of    *)
(* finite sets is well founded.                                              *)
LEMMA LeastNumber ==
  ASSUME NEW S \in SUBSET Nat, S # {}
  PROVE  \E n \in S : \A m \in S : n <= m
<1> DEFINE T == {0..(n - 1) : n \in S}
<1>1. T \subseteq FiniteSubsetsOf(Nat)
  <2> SUFFICES ASSUME NEW n \in S PROVE 0..(n - 1) \in FiniteSubsetsOf(Nat)
    OBVIOUS
  <2>1. IsFiniteSet(0..(n - 1))
    BY FS_Interval
  <2> QED BY <2>1 DEF FiniteSubsetsOf
<1>2. T # {}
  OBVIOUS
<1>3. PICK x \in T : \A y \in T : ~ <<y, x>> \in StrictSubsetOrdering(Nat)
  <2> HIDE DEF T
  <2> QED BY ONLY <1>1, <1>2, FS_StrictSubsetOrderingWellFounded, WFMin
<1>4. PICK n \in S : x = 0..(n - 1)
  BY <1>3
<1>5. ASSUME NEW m \in S, m < n
      PROVE  FALSE
  <2>1. /\ 0..(m - 1) \in SUBSET Nat /\ x \in SUBSET Nat
        /\ 0..(m - 1) \subseteq x /\ m \in x /\ m \notin 0..(m - 1)
    BY <1>4, <1>5
  <2>2. <<0..(m - 1), x>> \in StrictSubsetOrdering(Nat)
    BY <2>1 DEF StrictSubsetOrdering
  <2> QED BY <1>3, <2>2
<1>6. \A m \in S : n \in Nat /\ m \in Nat /\ ~(m < n)
  BY <1>4, <1>5
<1>7. \A m \in S : n <= m
  BY ONLY <1>6
<1> QED BY ONLY <1>4, <1>7

(* Lemma: induction over the places of a sequence, on a set T of places.     *)
LEMMA UpTo ==
  ASSUME NEW m \in Nat, NEW T,
         \A k \in 1..m : (\A j \in 1..(k - 1) : j \in T) => k \in T
  PROVE  \A k \in 1..m : k \in T
<1> DEFINE B == {k \in 1..m : k \notin T}
<1>1. CASE B = {}
  BY <1>1
<1>2. CASE B # {}
  <2>1. B \in SUBSET Nat
    OBVIOUS
  <2> HIDE DEF B
  <2>2. PICK k \in B : \A j \in B : k <= j
    BY <1>2, <2>1, LeastNumber
  <2>3. k \in 1..m /\ k \notin T
    BY DEF B
  <2>4. ASSUME NEW j \in 1..(k - 1) PROVE j \in T
    <3>1. j \in 1..m /\ ~(k <= j)
      BY <2>3
    <3> QED BY <2>2, <3>1 DEF B
  <2> QED BY <2>3, <2>4
<1> QED BY <1>1, <1>2

(* f is what FlattenSeq makes of the first n sequences of ss, at each place. *)
Flattens(ss, n, f) == f = [i \in 1..n |-> IF i = 1 THEN ss[i] ELSE f[i - 1] \o ss[i]]

(* Lemma: there is such a function, by induction on n.                       *)
LEMMA FlattensExists ==
  ASSUME NEW ss, NEW n \in Nat
  PROVE  \E f : Flattens(ss, n, f)
<1> DEFINE T == {k \in Nat : \E f : Flattens(ss, k, f)}
<1>0. \E f : Flattens(ss, 0, f)
  <2>1. Flattens(ss, 0, [i \in 1..0 |-> 0])
    BY DEF Flattens
  <2> QED BY <2>1
<1>1. ASSUME NEW k \in 1..n, \A j \in 1..(k - 1) : j \in T
      PROVE  k \in T
  <2>1. \E f : Flattens(ss, k - 1, f)
    <3>1. CASE k = 1
      BY <1>0, <3>1
    <3>2. CASE k # 1
      <4>1. k - 1 \in 1..(k - 1)
        BY <3>2
      <4> QED BY <1>1, <4>1
    <3> QED BY <3>1, <3>2
  <2>2. PICK f : Flattens(ss, k - 1, f)
    BY <2>1
  <2> DEFINE g == [i \in 1..k |-> IF i < k THEN f[i] ELSE IF k = 1 THEN ss[1] ELSE f[k - 1] \o ss[k]]
  <2>3. g = [i \in 1..k |-> IF i = 1 THEN ss[i] ELSE g[i - 1] \o ss[i]]
    <3>1. ASSUME NEW i \in 1..k
          PROVE  g[i] = IF i = 1 THEN ss[i] ELSE g[i - 1] \o ss[i]
      <4>1. CASE i = k
        <5>1. CASE k = 1
          <6>1. ~(i < k)
            BY <4>1
          <6> QED BY <4>1, <5>1, <6>1
        <5>2. CASE k # 1
          <6>1. k - 1 \in 1..k /\ k - 1 < k
            BY <5>2
          <6>2. g[k - 1] = f[k - 1]
            BY <6>1
          <6>3. g[k] = IF k < k THEN f[k] ELSE IF k = 1 THEN ss[1] ELSE f[k - 1] \o ss[k]
            BY <6>1
          <6>4. ~(k < k)
            BY <6>1
          <6>5. g[k] = f[k - 1] \o ss[k]
            BY <5>2, <6>3, <6>4
          <6> HIDE DEF g
          <6> QED BY <4>1, <5>2, <6>2, <6>5
        <5> QED BY <5>1, <5>2
      <4>2. CASE i # k
        <5>1. i \in 1..(k - 1) /\ i < k
          BY <4>2
        <5>2. g[i] = f[i]
          BY <5>1
        <5>3. f[i] = IF i = 1 THEN ss[i] ELSE f[i - 1] \o ss[i]
          BY <2>2, <5>1 DEF Flattens
        <5>4. i # 1 => i - 1 \in 1..k /\ i - 1 < k
          BY <5>1
        <5>5. i # 1 => g[i - 1] = f[i - 1]
          BY <5>4
        <5> QED BY <5>2, <5>3, <5>5
      <4> QED BY <4>1, <4>2
    <3> DEFINE h == [i \in 1..k |-> IF i = 1 THEN ss[i] ELSE g[i - 1] \o ss[i]]
    <3>2. DOMAIN g = 1..k /\ DOMAIN h = 1..k /\ \A i \in 1..k : g[i] = h[i]
      BY <3>1
    <3>3. g = [i \in 1..k |-> g[i]] /\ h = [i \in 1..k |-> h[i]]
      OBVIOUS
    <3> HIDE DEF g, h
    <3> QED BY <3>2, <3>3 DEF h
  <2>4. Flattens(ss, k, g)
    BY <2>3 DEF Flattens
  <2>5. k \in Nat
    OBVIOUS
  <2> QED BY <2>4, <2>5
<1>2. \A k \in 1..n : k \in T
  <2> HIDE DEF T
  <2> QED BY <1>1, UpTo
<1>3. CASE n = 0
  BY <1>0, <1>3
<1>4. CASE n # 0
  <2>1. n \in 1..n
    BY <1>4
  <2> QED BY <1>2, <2>1
<1> QED BY <1>3, <1>4

(* Lemma: FlattenSeq of a sequence of sequences is the last value of it.     *)
LEMMA FlattenIs ==
  ASSUME NEW S, NEW ss \in Seq(Seq(S)), ss # <<>>
  PROVE  \E f : /\ Flattens(ss, Len(ss), f) /\ FlattenSeq(ss) = f[Len(ss)]
                /\ \A i \in 1..Len(ss) : f[i] \in Seq(S)
                /\ f[1] = ss[1]
                /\ \A i \in 2..Len(ss) : f[i] = f[i - 1] \o ss[i]
<1> DEFINE n == Len(ss)
           f == CHOOSE g : g = [i \in 1..n |-> IF i = 1 THEN ss[i] ELSE g[i - 1] \o ss[i]]
<1>1. n \in Nat /\ n # 0 /\ \A i \in 1..n : ss[i] \in Seq(S)
  BY EmptySeq, ElementOfSeq
<1>2. FlattenSeq(ss) = f[n]
  BY <1>1 DEF FlattenSeq
<1>3. Flattens(ss, n, f)
  <2>1. \E g : Flattens(ss, n, g)
    BY <1>1, FlattensExists
  <2>2. \E g : g = [i \in 1..n |-> IF i = 1 THEN ss[i] ELSE g[i - 1] \o ss[i]]
    BY <2>1 DEF Flattens
  <2>3. f = [i \in 1..n |-> IF i = 1 THEN ss[i] ELSE f[i - 1] \o ss[i]]
    BY ONLY <2>2
  <2> QED BY <2>3 DEF Flattens
<1> HIDE DEF f, n
<1>4. ASSUME NEW i \in 1..n
      PROVE  f[i] = IF i = 1 THEN ss[i] ELSE f[i - 1] \o ss[i]
  BY <1>3 DEF Flattens
<1>5. f[1] = ss[1] /\ \A i \in 2..n : f[i] = f[i - 1] \o ss[i]
  <2>1. 1 \in 1..n
    BY <1>1
  <2>2. ASSUME NEW i \in 2..n PROVE i \in 1..n /\ i # 1
    BY <1>1
  <2> QED BY <1>4, <2>1, <2>2
<1>6. \A i \in 1..n : f[i] \in Seq(S)
  <2> DEFINE T == {i \in 1..n : f[i] \in Seq(S)}
  <2>1. ASSUME NEW k \in 1..n, \A j \in 1..(k - 1) : j \in T
        PROVE  k \in T
    <3>1. CASE k = 1
      BY <1>1, <1>5, <3>1
    <3>2. CASE k # 1
      <4>1. k - 1 \in 1..(k - 1) /\ k \in 2..n
        BY <1>1, <3>2
      <4>2. f[k - 1] \in Seq(S)
        BY <2>1, <4>1
      <4>3. f[k - 1] \o ss[k] \in Seq(S)
        BY <1>1, <4>2, ConcatProperties
      <4> QED BY <1>5, <4>1, <4>3
    <3> QED BY <3>1, <3>2
  <2> HIDE DEF T
  <2>2. \A k \in 1..n : k \in T
    BY <1>1, <2>1, UpTo
  <2> QED BY <2>2 DEF T
<1> QED BY <1>2, <1>3, <1>5, <1>6 DEF n

(* Lemma: of no sequences FlattenSeq makes the empty sequence.               *)
LEMMA FlattenEmpty == FlattenSeq(<<>>) = <<>>
  BY DEF FlattenSeq

(* Lemma: FlattenSeq keeps the elements.                                     *)
LEMMA FlattenType ==
  ASSUME NEW S, NEW ss \in Seq(Seq(S))
  PROVE  FlattenSeq(ss) \in Seq(S)
<1>1. CASE ss = <<>>
  BY <1>1, FlattenEmpty, EmptySeq
<1>2. CASE ss # <<>>
  <2>1. Len(ss) \in 1..Len(ss)
    BY <1>2, EmptySeq
  <2> QED BY <1>2, <2>1, FlattenIs
<1> QED BY <1>1, <1>2

(* Lemma: one more sequence at the end.                                      *)
LEMMA FlattenAppend ==
  ASSUME NEW S, NEW ss \in Seq(Seq(S)), NEW s \in Seq(S)
  PROVE  FlattenSeq(Append(ss, s)) = FlattenSeq(ss) \o s
<1> DEFINE tt == Append(ss, s)
           n == Len(ss)
<1>1. /\ tt \in Seq(Seq(S)) /\ tt # <<>> /\ Len(tt) = n + 1 /\ n \in Nat
      /\ \A i \in 1..n : tt[i] = ss[i]
      /\ tt[n + 1] = s
  BY AppendProperties
<1> HIDE DEF tt
<1>2. PICK g : /\ Flattens(tt, Len(tt), g) /\ FlattenSeq(tt) = g[Len(tt)]
               /\ \A i \in 1..Len(tt) : g[i] \in Seq(S)
               /\ g[1] = tt[1]
               /\ \A i \in 2..Len(tt) : g[i] = g[i - 1] \o tt[i]
  <2>1. tt \in Seq(Seq(S)) /\ tt # <<>>
    BY <1>1
  <2> QED BY ONLY <2>1, FlattenIs, Zenon
<1>3. CASE ss = <<>>
  <2>1. n = 0
    BY <1>3
  <2>2. FlattenSeq(tt) = s
    BY <1>1, <1>2, <2>1
  <2> QED BY <1>3, <2>2, FlattenEmpty, ConcatEmptySeq DEF tt
<1>4. CASE ss # <<>>
  <2>1. n \in 1..n /\ n + 1 \in 2..(n + 1) /\ n + 1 - 1 = n
    BY <1>1, <1>4, EmptySeq
  <2>2. PICK f : /\ Flattens(ss, n, f) /\ FlattenSeq(ss) = f[n]
                 /\ \A i \in 1..n : f[i] \in Seq(S)
                 /\ f[1] = ss[1]
                 /\ \A i \in 2..n : f[i] = f[i - 1] \o ss[i]
    BY <1>4, FlattenIs
  <2> DEFINE T == {i \in 1..n : f[i] = g[i]}
  <2>3. ASSUME NEW k \in 1..n, \A j \in 1..(k - 1) : j \in T
        PROVE  k \in T
    <3>1. CASE k = 1
      BY <1>1, <1>2, <2>1, <2>2, <3>1
    <3>2. CASE k # 1
      <4>1. k - 1 \in 1..(k - 1) /\ k \in 2..n /\ k \in 2..Len(tt)
        BY <1>1, <3>2
      <4>2. f[k - 1] = g[k - 1]
        BY <2>3, <4>1
      <4>3. f[k] = f[k - 1] \o ss[k] /\ g[k] = g[k - 1] \o tt[k] /\ tt[k] = ss[k]
        BY <1>1, <1>2, <2>2, <4>1
      <4> QED BY <4>2, <4>3
    <3> QED BY <3>1, <3>2
  <2> HIDE DEF T
  <2>4. \A k \in 1..n : k \in T
    BY <1>1, <2>3, UpTo
  <2>5. f[n] = g[n]
    BY <2>1, <2>4 DEF T
  <2>6. g[n + 1] = g[n] \o s
    <3>1. PICK j \in 2..Len(tt) : j = n + 1
      BY <1>1, <2>1
    <3>2. g[j] = g[j - 1] \o tt[j]
      BY <1>2
    <3>3. j - 1 = n
      BY <1>1, <3>1
    <3>4. tt[j] = s
      BY <1>1, <3>1
    <3> QED BY ONLY <3>1, <3>2, <3>3, <3>4, Zenon
  <2> QED BY <1>1, <1>2, <2>2, <2>5, <2>6 DEF tt
<1> QED BY <1>3, <1>4

(* Concatenation under a name that the provers do not look into.            *)
Joined(a, b) == a \o b

(* Lemma: putting sequences together is associative.                         *)
LEMMA Regroup ==
  ASSUME NEW S, NEW a \in Seq(S), NEW b \in Seq(S), NEW c \in Seq(S)
  PROVE  Joined(Joined(a, b), c) = Joined(a, Joined(b, c))
  BY DEF Joined

(* Lemma: what is put together has the same elements, and <<>> adds none.    *)
LEMMA JoinedType ==
  ASSUME NEW S, NEW a \in Seq(S), NEW b \in Seq(S)
  PROVE  /\ Joined(a, b) \in Seq(S)
         /\ Joined(a, <<>>) = a /\ Joined(<<>>, a) = a
  BY DEF Joined

(* Lemma: what is put at the end leaves what was there in front.             *)
LEMMA PrefixOfJoined ==
  ASSUME NEW S, NEW a \in Seq(S), NEW b \in Seq(S)
  PROVE  IsPrefix(a, Joined(a, b))
<1> DEFINE c == Joined(a, b)
<1>1. /\ c \in Seq(S) /\ Len(c) = Len(a) + Len(b) /\ Len(a) \in Nat /\ Len(b) \in Nat
      /\ \A i \in 1..Len(a) : c[i] = a[i] /\ a[i] \in S
  BY ConcatProperties, LenProperties, ElementOfSeq DEF Joined
<1> HIDE DEF c
<1>2. SubSeq(a, 1, Len(a)) = SubSeq(c, 1, Len(a))
  BY <1>1
<1>3. Len(a) <= Len(c)
  BY <1>1
<1> QED BY <1>2, <1>3 DEF IsPrefix, c

(* Lemma: the first sequence, and the others.                                *)
LEMMA FlattenFirst ==
  ASSUME NEW S, NEW ss \in Seq(Seq(S)), ss # <<>>
  PROVE  FlattenSeq(ss) = Head(ss) \o FlattenSeq(Tail(ss))
<1> DEFINE tt == Tail(ss)
           n == Len(ss)
           h == Head(ss)
<1>1. /\ tt \in Seq(Seq(S)) /\ Len(tt) = n - 1 /\ n \in Nat /\ n # 0
      /\ \A i \in 1..(n - 1) : tt[i] = ss[i + 1]
      /\ h \in Seq(S) /\ h = ss[1] /\ \A i \in 1..n : ss[i] \in Seq(S)
  BY HeadTailProperties, EmptySeq, ElementOfSeq
<1> HIDE DEF tt, h
<1>2. PICK f : /\ Flattens(ss, n, f) /\ FlattenSeq(ss) = f[n]
               /\ \A i \in 1..n : f[i] \in Seq(S)
               /\ f[1] = ss[1]
               /\ \A i \in 2..n : f[i] = f[i - 1] \o ss[i]
  BY FlattenIs
<1>3. CASE n = 1
  <2>1. tt = <<>>
    BY <1>1, <1>3, EmptySeq
  <2>2. FlattenSeq(ss) = h
    BY <1>1, <1>2, <1>3
  <2> QED BY <1>1, <2>1, <2>2, FlattenEmpty, ConcatEmptySeq DEF tt, h
<1>4. CASE n # 1
  <2>1. n - 1 \in 1..(n - 1) /\ tt # <<>> /\ n - 1 + 1 = n
    BY <1>1, <1>4, EmptySeq
  <2>2. PICK g : /\ Flattens(tt, Len(tt), g) /\ FlattenSeq(tt) = g[Len(tt)]
                 /\ \A i \in 1..Len(tt) : g[i] \in Seq(S)
                 /\ g[1] = tt[1]
                 /\ \A i \in 2..Len(tt) : g[i] = g[i - 1] \o tt[i]
    <3>1. tt \in Seq(Seq(S)) /\ tt # <<>>
      BY <1>1, <2>1
    <3> QED BY ONLY <3>1, FlattenIs, Zenon
  <2> DEFINE T == {i \in 1..(n - 1) : f[i + 1] = h \o g[i]}
  <2>3. ASSUME NEW k \in 1..(n - 1), \A j \in 1..(k - 1) : j \in T
        PROVE  k \in T
    <3>0. /\ k + 1 \in 2..n /\ k + 1 - 1 = k /\ tt[k] = ss[k + 1] /\ tt[k] \in Seq(S)
          /\ k \in Nat
      <4>1. k + 1 \in 2..n /\ k + 1 \in 1..n /\ k + 1 - 1 = k /\ k \in Nat
        BY <1>1
      <4> QED BY <1>1, <4>1
    <3>1. f[k + 1] = f[k] \o tt[k]
      <4>1. PICK j \in 2..n : j = k + 1
        BY <3>0
      <4>2. f[j] = f[j - 1] \o ss[j]
        BY <1>2
      <4>3. j - 1 = k
        BY <3>0, <4>1
      <4>4. tt[k] = ss[j]
        BY <3>0, <4>1
      <4> QED BY ONLY <4>1, <4>2, <4>3, <4>4, Zenon
    <3>2. CASE k = 1
      BY <1>1, <1>2, <2>2, <3>1, <3>2
    <3>3. CASE k # 1
      <4>1. k - 1 \in 1..(k - 1) /\ k - 1 + 1 = k /\ k \in 2..Len(tt) /\ k - 1 \in 1..Len(tt)
        BY <1>1, <3>0, <3>3
      <4>2. f[k] = h \o g[k - 1]
        <5>1. f[k - 1 + 1] = h \o g[k - 1]
          BY <2>3, <4>1
        <5> QED BY <4>1, <5>1
      <4>3. g[k] = g[k - 1] \o tt[k] /\ g[k - 1] \in Seq(S)
        BY <2>2, <4>1
      <4>4. h \in Seq(S) /\ tt[k] \in Seq(S)
        BY <1>1, <3>0
      <4>5. Joined(Joined(h, g[k - 1]), tt[k]) = Joined(h, Joined(g[k - 1], tt[k]))
        BY <4>3, <4>4, Regroup
      <4>6. (h \o g[k - 1]) \o tt[k] = h \o (g[k - 1] \o tt[k])
        BY ONLY <4>5 DEF Joined
      <4>7. f[k + 1] = h \o g[k]
        BY ONLY <3>1, <4>2, <4>3, <4>6, Zenon
      <4> QED BY <4>7
    <3> QED BY <3>2, <3>3
  <2> HIDE DEF T
  <2>4. \A k \in 1..(n - 1) : k \in T
    <3>1. n - 1 \in Nat
      BY <1>1
    <3> QED BY <2>3, <3>1, UpTo
  <2>5. f[n] = h \o g[n - 1]
    <3>1. f[n - 1 + 1] = h \o g[n - 1]
      BY <2>1, <2>4 DEF T
    <3> QED BY <2>1, <3>1
  <2> QED BY <1>1, <1>2, <2>2, <2>5 DEF tt, h
<1> QED BY <1>3, <1>4

-----------------------------------------------------------------------------
(* The queue of OrderedRelay: what the ring, cur and radio 1 hold *)

(* Lemma: what the queue holds of a record: its payload, of a command none.  *)
LEMMA RecordPayload ==
  ASSUME NEW r \in Records
  PROVE  /\ PayloadOf(r) \in Seq(Payloads)
         /\ r.op # "robot" => PayloadOf(r) = <<>>
         /\ r \in RobotRecs => PayloadOf(r) = <<[id |-> r.id, body |-> r.body]>>
<1>1. CASE r \in RobotRecs
  <2>1. [id |-> r.id, body |-> r.body] \in Payloads /\ r.op = "robot"
    BY <1>1 DEF RobotRecs, Payloads
  <2> QED BY <2>1 DEF PayloadOf
<1>2. CASE r \in Commands
  <2>1. r.op # "robot" /\ r \notin RobotRecs
    BY <1>2 DEF Commands, RobotRecs
  <2> QED BY <2>1, EmptySeq DEF PayloadOf
<1> QED BY <1>1, <1>2 DEF Records

(* Lemma: the sequences that PayloadsOf puts together.                       *)
LEMMA EachPayload ==
  ASSUME NEW s \in Seq(Records)
  PROVE  [i \in DOMAIN s |-> PayloadOf(s[i])] \in Seq(Seq(Payloads))
<1>1. DOMAIN s = 1..Len(s) /\ Len(s) \in Nat /\ \A i \in 1..Len(s) : s[i] \in Records
  BY LenProperties, ElementOfSeq
<1>2. \A i \in 1..Len(s) : PayloadOf(s[i]) \in Seq(Payloads)
  BY <1>1, RecordPayload
<1> QED BY <1>1, <1>2

(* Lemma: records give payloads.                                             *)
LEMMA PayloadsType ==
  ASSUME NEW s \in Seq(Records)
  PROVE  PayloadsOf(s) \in Seq(Payloads)
  BY EachPayload, FlattenType DEF PayloadsOf

(* Lemma: no records, no payloads.                                           *)
LEMMA PayloadsEmpty == PayloadsOf(<<>>) = <<>>
<1>1. [i \in DOMAIN <<>> |-> PayloadOf(<<>>[i])] = <<>>
  OBVIOUS
<1> QED BY <1>1, FlattenEmpty DEF PayloadsOf

(* Lemma: the payload of the first record comes first.                       *)
LEMMA PayloadsFirst ==
  ASSUME NEW s \in Seq(Records), s # <<>>
  PROVE  PayloadsOf(s) = PayloadOf(Head(s)) \o PayloadsOf(Tail(s))
<1> DEFINE f == [i \in DOMAIN s |-> PayloadOf(s[i])]
           g == [i \in DOMAIN Tail(s) |-> PayloadOf(Tail(s)[i])]
<1>1. /\ DOMAIN s = 1..Len(s) /\ Len(s) \in Nat \ {0} /\ Tail(s) \in Seq(Records)
      /\ Len(Tail(s)) = Len(s) - 1 /\ DOMAIN Tail(s) = 1..(Len(s) - 1)
      /\ \A i \in 1..(Len(s) - 1) : Tail(s)[i] = s[i + 1]
      /\ Head(s) = s[1]
  BY HeadTailProperties, EmptySeq, LenProperties
<1>2. f \in Seq(Seq(Payloads)) /\ g \in Seq(Seq(Payloads))
  BY <1>1, EachPayload
<1>3. Len(f) = Len(s) /\ f # <<>> /\ Len(g) = Len(s) - 1
  BY <1>1
<1>4. Head(f) = PayloadOf(Head(s))
  BY <1>1, <1>2, <1>3
<1>5. \A i \in 1..(Len(s) - 1) : f[i + 1] = g[i]
  BY <1>1
<1> HIDE DEF f, g
<1>6. Tail(f) = g
  <2>1. /\ Tail(f) \in Seq(Seq(Payloads)) /\ Len(Tail(f)) = Len(s) - 1
        /\ \A i \in 1..(Len(s) - 1) : Tail(f)[i] = f[i + 1]
    BY <1>2, <1>3, HeadTailProperties
  <2>2. Len(Tail(f)) = Len(g) /\ \A i \in 1..Len(Tail(f)) : Tail(f)[i] = g[i]
    BY <1>3, <1>5, <2>1
  <2> QED BY <1>2, <2>1, <2>2, SeqEqual
<1>7. FlattenSeq(f) = Head(f) \o FlattenSeq(Tail(f))
  BY <1>2, <1>3, FlattenFirst
<1> QED BY <1>4, <1>6, <1>7 DEF PayloadsOf, f, g

(* Lemma: the sequences that Waiting puts together.                          *)
LEMMA EachFrame ==
  ASSUME NEW b \in Seq(Seq(Records))
  PROVE  [i \in DOMAIN b |-> PayloadsOf(b[i])] \in Seq(Seq(Payloads))
<1>1. DOMAIN b = 1..Len(b) /\ Len(b) \in Nat /\ \A i \in 1..Len(b) : b[i] \in Seq(Records)
  BY LenProperties, ElementOfSeq
<1>2. \A i \in 1..Len(b) : PayloadsOf(b[i]) \in Seq(Payloads)
  BY <1>1, PayloadsType
<1> QED BY <1>1, <1>2

(* Lemma: the frames of the ring give payloads.                              *)
LEMMA WaitingType ==
  ASSUME NEW b \in Seq(Seq(Records))
  PROVE  Waiting(b) \in Seq(Payloads)
  BY EachFrame, FlattenType DEF Waiting

(* Lemma: an empty ring holds none.                                          *)
LEMMA WaitingEmpty == Waiting(<<>>) = <<>>
<1>1. [i \in DOMAIN <<>> |-> PayloadsOf(<<>>[i])] = <<>>
  OBVIOUS
<1> QED BY <1>1, FlattenEmpty DEF Waiting

(* Lemma: the payloads of the oldest frame come first.                       *)
LEMMA WaitingFirst ==
  ASSUME NEW b \in Seq(Seq(Records)), b # <<>>
  PROVE  Waiting(b) = PayloadsOf(Head(b)) \o Waiting(Tail(b))
<1> DEFINE f == [i \in DOMAIN b |-> PayloadsOf(b[i])]
           g == [i \in DOMAIN Tail(b) |-> PayloadsOf(Tail(b)[i])]
<1>1. /\ DOMAIN b = 1..Len(b) /\ Len(b) \in Nat \ {0} /\ Tail(b) \in Seq(Seq(Records))
      /\ Len(Tail(b)) = Len(b) - 1 /\ DOMAIN Tail(b) = 1..(Len(b) - 1)
      /\ \A i \in 1..(Len(b) - 1) : Tail(b)[i] = b[i + 1]
      /\ Head(b) = b[1]
  BY HeadTailProperties, EmptySeq, LenProperties
<1>2. f \in Seq(Seq(Payloads)) /\ g \in Seq(Seq(Payloads))
  BY <1>1, EachFrame
<1>3. Len(f) = Len(b) /\ f # <<>> /\ Len(g) = Len(b) - 1
  BY <1>1
<1>4. Head(f) = PayloadsOf(Head(b))
  BY <1>1, <1>2, <1>3
<1>5. \A i \in 1..(Len(b) - 1) : f[i + 1] = g[i]
  BY <1>1
<1> HIDE DEF f, g
<1>6. Tail(f) = g
  <2>1. /\ Tail(f) \in Seq(Seq(Payloads)) /\ Len(Tail(f)) = Len(b) - 1
        /\ \A i \in 1..(Len(b) - 1) : Tail(f)[i] = f[i + 1]
    BY <1>2, <1>3, HeadTailProperties
  <2>2. Len(Tail(f)) = Len(g) /\ \A i \in 1..Len(Tail(f)) : Tail(f)[i] = g[i]
    BY <1>3, <1>5, <2>1
  <2> QED BY <1>2, <2>1, <2>2, SeqEqual
<1>7. FlattenSeq(f) = Head(f) \o FlattenSeq(Tail(f))
  BY <1>2, <1>3, FlattenFirst
<1> QED BY <1>4, <1>6, <1>7 DEF Waiting, f, g

(* Lemma: a frame that arrives goes behind all others.                       *)
LEMMA WaitingAppend ==
  ASSUME NEW b \in Seq(Seq(Records)), NEW d \in Seq(Records)
  PROVE  Waiting(Append(b, d)) = Waiting(b) \o PayloadsOf(d)
<1> DEFINE c == Append(b, d)
           f == [i \in DOMAIN b |-> PayloadsOf(b[i])]
           g == [i \in DOMAIN c |-> PayloadsOf(c[i])]
           p == PayloadsOf(d)
<1>1. /\ DOMAIN b = 1..Len(b) /\ Len(b) \in Nat
      /\ c \in Seq(Seq(Records)) /\ Len(c) = Len(b) + 1 /\ DOMAIN c = 1..(Len(b) + 1)
      /\ \A i \in 1..Len(b) : c[i] = b[i]
      /\ c[Len(b) + 1] = d
  BY AppendProperties, LenProperties
<1> HIDE DEF c
<1>2. f \in Seq(Seq(Payloads)) /\ g \in Seq(Seq(Payloads)) /\ p \in Seq(Payloads)
  BY <1>1, EachFrame, PayloadsType
<1>3. Len(f) = Len(b) /\ Len(g) = Len(b) + 1
  BY <1>1
<1>4. \A i \in 1..Len(b) : g[i] = f[i]
  BY <1>1
<1>5. g[Len(b) + 1] = p
  BY <1>1
<1> HIDE DEF f, g, p
<1>6. g = Append(f, p)
  <2>1. /\ Append(f, p) \in Seq(Seq(Payloads)) /\ Len(Append(f, p)) = Len(b) + 1
        /\ \A i \in 1..Len(b) : Append(f, p)[i] = f[i]
        /\ Append(f, p)[Len(b) + 1] = p
    BY <1>2, <1>3, AppendProperties
  <2>2. ASSUME NEW i \in 1..Len(g)
        PROVE  g[i] = Append(f, p)[i]
    <3>1. CASE i = Len(b) + 1
      BY <1>5, <2>1, <3>1
    <3>2. CASE i # Len(b) + 1
      <4>1. i \in 1..Len(b)
        BY <1>1, <1>3, <3>2
      <4> QED BY <1>4, <2>1, <4>1
    <3> QED BY <3>1, <3>2
  <2> QED BY <1>2, <1>3, <2>1, <2>2, SeqEqual
<1>7. FlattenSeq(Append(f, p)) = FlattenSeq(f) \o p
  BY <1>2, FlattenAppend
<1> QED BY <1>6, <1>7 DEF Waiting, f, g, p, c

-----------------------------------------------------------------------------
(* The steps of the downlink are steps of OrderedRelay *)

(* Between two callbacks no record is left of a datagram, and a CE pulse     *)
(* starts the payload that was written last.                                 *)
QueueInv ==
  /\ pc # "dispatch" /\ ~(Sending /\ demoLeft = 0) => cur = <<>>
  /\ pc = "pulse" => r1.txFifo = <<PayloadNow>>

(* Lemma: no step breaks QueueInv.                                           *)
LEMMA QueueInvStep ==
  ASSUME IInv, QueueInv, [Next]_vars
  PROVE  QueueInv'
<1> USE DEF QueueInv, IInv, Sending, TypeOK, ControlType, QueueType, cpuVars, PayloadNow
<1>1. CASE BootInitialize
  BY <1>1 DEF BootInitialize
<1>2. CASE BootFlush
  BY <1>2 DEF BootFlush
<1>3. CASE BootTune
  BY <1>3 DEF BootTune
<1>4. CASE ReceiveCallback
  BY <1>4 DEF ReceiveCallback
<1>5. CASE NoFrame
  BY <1>5 DEF NoFrame
<1>6. CASE StartDemo
  BY <1>6 DEF StartDemo
<1>7. CASE SkipDemo
  BY <1>7 DEF SkipDemo
<1>8. CASE SetRxChannel
  BY <1>8 DEF SetRxChannel
<1>9. CASE SetTxChannel
  BY <1>9 DEF SetTxChannel
<1>10. CASE RepeatTurn
  BY <1>10 DEF RepeatTurn, vars
<1>11. CASE AddressRobot
  BY <1>11 DEF AddressRobot, CurInv
<1>12. CASE CallbackReturns
  BY <1>12 DEF CallbackReturns
<1>13. CASE WritePayload
  <2>1. r1 \in Chips(Addrs, Payloads) /\ r1.txFifo = <<>>
    BY <1>13 DEF WritePayload, RadioInv, Quiet, RadioType
  <2>2. LoadTxPayload(r1, PayloadNow).txFifo = <<PayloadNow>>
    BY <2>1 DEF LoadTxPayload, FifoDepth, Chips
  <2> QED BY <1>13, <2>2 DEF WritePayload
<1>14. CASE PulseCe
  BY <1>14 DEF PulseCe
<1>15. CASE RecordSent
  BY <1>15 DEF RecordSent
<1>16. CASE DemoSent
  BY <1>16 DEF DemoSent, CurInv
<1>17. CASE RadioSends
  BY <1>17 DEF RadioSends, RadioInv
<1>18. CASE \E recs \in Datagrams, short \in BOOLEAN : Arrive(recs, short)
  BY <1>18 DEF Arrive
<1>19. CASE Reset
  BY <1>19 DEF Reset
<1>20. CASE UNCHANGED vars
  BY <1>20 DEF vars
<1> QED BY <1>1, <1>2, <1>3, <1>4, <1>5, <1>6, <1>7, <1>8, <1>9, <1>10, <1>11, <1>12,
          <1>13, <1>14, <1>15, <1>16, <1>17, <1>18, <1>19, <1>20 DEF Next, Main

(* Lemma: the three parts of the queue: on the air, of the datagram in       *)
(* process, in the ring.                                                     *)
LEMMA QueueParts ==
  ASSUME IInv
  PROVE  /\ OnItsWay \in Seq(Payloads)
         /\ NotYetLoaded \in Seq(Records)
         /\ PayloadsOf(NotYetLoaded) \in Seq(Payloads)
         /\ Waiting(inbox) \in Seq(Payloads)
         /\ Queued = Joined(Joined(OnItsWay, PayloadsOf(NotYetLoaded)), Waiting(inbox))
         /\ Queued \in Seq(Payloads)
<1> USE DEF IInv, TypeOK
<1>1. OnItsWay \in Seq(Payloads)
  <2>1. r1.txFifo \in Seq(Payloads)
    BY DEF RadioType, Chips
  <2>2. r1.busy => Head(r1.txFifo) \in Payloads
    BY <2>1, HeadTailProperties DEF RadioInv
  <2> QED BY <2>2 DEF OnItsWay
<1>2. NotYetLoaded \in Seq(Records)
  BY DEF QueueType, NotYetLoaded, CurInv, Sending
<1>3. PayloadsOf(NotYetLoaded) \in Seq(Payloads)
  BY <1>2, PayloadsType
<1>4. Waiting(inbox) \in Seq(Payloads)
  BY WaitingType DEF QueueType
<1>5. Queued = Joined(Joined(OnItsWay, PayloadsOf(NotYetLoaded)), Waiting(inbox))
  BY DEF Queued, Joined
<1>6. Queued \in Seq(Payloads)
  BY <1>1, <1>3, <1>4, <1>5, JoinedType
<1> QED BY <1>1, <1>2, <1>3, <1>4, <1>5, <1>6

(* Lemma: a step that leaves the three parts alone leaves the queue alone.   *)
LEMMA SameQueue ==
  ASSUME OnItsWay' = OnItsWay, NotYetLoaded' = NotYetLoaded, inbox' = inbox
  PROVE  Queued' = Queued
  BY DEF Queued

(* Lemma: booting, polling, addressing, loading and demo() do not touch it.  *)
LEMMA MainKeepsQueue ==
  ASSUME IInv, QueueInv, 
         \/ BootInitialize \/ BootFlush \/ BootTune
         \/ NoFrame \/ StartDemo \/ SkipDemo
         \/ RepeatTurn \/ AddressRobot \/ CallbackReturns
         \/ WritePayload \/ DemoSent
  PROVE  UNCHANGED <<Queued, air>>
<1> USE DEF IInv, QueueInv, Sending, TypeOK, ControlType, QueueType, cpuVars, RadioInv, OnItsWay, NotYetLoaded,
            RadioType, Chips
<1>1. CASE BootInitialize
  BY <1>1, SameQueue DEF BootInitialize, InitializeDebug, PowerUpParam
<1>2. CASE BootFlush
  BY <1>2, SameQueue DEF BootFlush, ClearFlush, FlushRx, FlushTx, IrqClearAll
<1>3. CASE BootTune
  BY <1>3, SameQueue DEF BootTune, SetRfCh, SetTxAddr
<1>5. CASE NoFrame
  BY <1>5, SameQueue DEF NoFrame
<1>6. CASE StartDemo
  BY <1>6, SameQueue DEF StartDemo, SetTxAddr
<1>7. CASE SkipDemo
  BY <1>7, SameQueue DEF SkipDemo
<1>10. CASE RepeatTurn
  BY <1>10, SameQueue DEF RepeatTurn, vars
<1>11. CASE AddressRobot
  BY <1>11, SameQueue DEF AddressRobot, SetTxAddr
<1>12. CASE CallbackReturns
  BY <1>12, SameQueue DEF CallbackReturns
<1>13. CASE WritePayload
  BY <1>13, SameQueue DEF WritePayload, LoadTxPayload, Quiet
<1>16. CASE DemoSent
  BY <1>16, SameQueue DEF DemoSent, IrqClearAll, IrqPinActive
<1> QED BY <1>1, <1>2, <1>3, <1>5, <1>6, <1>7, <1>10, <1>11, <1>12, <1>13, <1>16

(* Lemma: a datagram that the callback takes moves from the ring to cur.     *)
LEMMA CallbackKeepsQueue ==
  ASSUME IInv, QueueInv, ReceiveCallback
  PROVE  UNCHANGED <<Queued, air>>
<1> USE DEF IInv, TypeOK, QueueType
<1>1. /\ pc = "poll" /\ inbox # <<>> /\ cur' = Head(inbox) /\ inbox' = Tail(inbox)
      /\ pc' = "dispatch" /\ r1' = r1 /\ air' = air /\ demoLeft' = demoLeft
  BY DEF ReceiveCallback
<1>2. cur = <<>> /\ ~r1.busy
  BY <1>1 DEF QueueInv, Sending, RadioInv
<1>3. OnItsWay = <<>> /\ OnItsWay' = <<>>
  BY <1>1, <1>2 DEF OnItsWay
<1>4. NotYetLoaded = <<>> /\ NotYetLoaded' = Head(inbox)
  BY <1>1, <1>2 DEF NotYetLoaded
<1>5. Head(inbox) \in Seq(Records) /\ Tail(inbox) \in Seq(Seq(Records))
  BY <1>1, HeadTailProperties
<1>6. PICK p \in Seq(Payloads) : p = PayloadsOf(Head(inbox))
  BY <1>5, PayloadsType
<1>7. PICK w \in Seq(Payloads) : w = Waiting(Tail(inbox))
  BY <1>5, WaitingType
<1>8. Waiting(inbox) = Joined(p, w)
  BY <1>1, <1>6, <1>7, WaitingFirst DEF Joined
<1>9. Queued = Joined(Joined(<<>>, <<>>), Joined(p, w))
  BY <1>3, <1>4, <1>8, QueueParts, PayloadsEmpty
<1>10. Queued' = Joined(Joined(<<>>, p), w)
  BY <1>1, <1>3, <1>4, <1>6, <1>7 DEF Queued, Joined
<1>11. <<>> \in Seq(Payloads) /\ Joined(p, w) \in Seq(Payloads)
  BY EmptySeq, JoinedType
<1>12. Queued = Joined(p, w) /\ Queued' = Joined(p, w)
  BY <1>9, <1>10, <1>11, JoinedType
<1> QED BY <1>1, <1>12

(* Lemma: a channel command has no payload.                                  *)
LEMMA CommandKeepsQueue ==
  ASSUME IInv, QueueInv, SetRxChannel \/ SetTxChannel
  PROVE  UNCHANGED <<Queued, air>>
<1> USE DEF IInv, TypeOK, QueueType
<1>1. /\ pc = "dispatch" /\ pc' = pc /\ cur # <<>> /\ Head(cur).op # "robot"
      /\ cur' = Tail(cur) /\ inbox' = inbox /\ air' = air /\ demoLeft' = demoLeft
      /\ r1'.busy = r1.busy /\ r1'.txFifo = r1.txFifo
  BY DEF SetRxChannel, SetTxChannel, SetRfCh, RadioType, Chips
<1>2. OnItsWay' = OnItsWay
  BY <1>1 DEF OnItsWay
<1>3. NotYetLoaded = cur /\ NotYetLoaded' = Tail(cur)
  BY <1>1 DEF NotYetLoaded
<1>4. Head(cur) \in Records /\ Tail(cur) \in Seq(Records)
  BY <1>1, HeadTailProperties
<1>5. PICK p \in Seq(Payloads) : p = PayloadsOf(Tail(cur))
  BY <1>4, PayloadsType
<1>6. PayloadsOf(cur) = Joined(<<>>, p)
  BY <1>1, <1>4, <1>5, PayloadsFirst, RecordPayload DEF Joined
<1>7. PayloadsOf(cur) = p
  BY <1>6, JoinedType
<1>8. Queued = Joined(Joined(OnItsWay, p), Waiting(inbox))
  BY <1>3, <1>7, QueueParts
<1>9. Queued' = Joined(Joined(OnItsWay, p), Waiting(inbox))
  BY <1>1, <1>2, <1>3, <1>5 DEF Queued, Joined
<1> QED BY <1>1, <1>8, <1>9

(* Lemma: the CE pulse puts the payload of the current record on its way.    *)
LEMMA PulseKeepsQueue ==
  ASSUME IInv, QueueInv, PulseCe
  PROVE  UNCHANGED <<Queued, air>>
<1> USE DEF IInv, TypeOK, QueueType
<1>1. /\ pc = "pulse" /\ pc' = "spin" /\ cur' = cur /\ inbox' = inbox
      /\ air' = air /\ demoLeft' = demoLeft /\ r1' = Transmit(r1) /\ ~r1.busy
      /\ r1.txFifo = <<PayloadNow>> /\ r1.pwrUp /\ ~r1.primRx
  BY DEF PulseCe, cpuVars, RadioInv, QueueInv
<1>2. r1'.busy /\ r1'.txFifo = r1.txFifo /\ Head(r1.txFifo) = PayloadNow
  BY <1>1 DEF Transmit, RadioType, Chips
<1>3. OnItsWay = <<>> /\ NotYetLoaded = cur
  BY <1>1 DEF OnItsWay, NotYetLoaded
<1>4. CASE demoLeft # 0
  <2>1. PayloadNow.id = DemoAddr
    BY <1>4 DEF PayloadNow, ControlType
  <2>2. OnItsWay' = <<>> /\ NotYetLoaded' = cur
    BY <1>1, <1>2, <1>4, <2>1 DEF OnItsWay, NotYetLoaded
  <2> QED BY <1>1, <1>3, <2>2, SameQueue
<1>5. CASE demoLeft = 0
  <2>1. cur # <<>> /\ Head(cur) \in RobotRecs
    BY <1>1, <1>5 DEF CurInv, Sending
  <2>2. PayloadNow = [id |-> Head(cur).id, body |-> Head(cur).body] /\ Head(cur).id # DemoAddr
    BY <1>5, <2>1, NamesAssumption DEF PayloadNow, RobotRecs
  <2>3. OnItsWay' = <<PayloadNow>> /\ NotYetLoaded' = Tail(cur)
    BY <1>1, <1>2, <1>5, <2>2 DEF OnItsWay, NotYetLoaded
  <2>4. Head(cur) \in Records /\ Tail(cur) \in Seq(Records)
    BY <2>1, HeadTailProperties
  <2>5. PICK h \in Seq(Payloads) : h = <<PayloadNow>> /\ h = PayloadOf(Head(cur))
    BY <2>1, <2>2, <2>4, RecordPayload
  <2>6. PICK p \in Seq(Payloads) : p = PayloadsOf(Tail(cur))
    BY <2>4, PayloadsType
  <2>7. PayloadsOf(cur) = Joined(h, p)
    BY <2>1, <2>5, <2>6, PayloadsFirst DEF Joined
  <2>8. Queued = Joined(Joined(<<>>, Joined(h, p)), Waiting(inbox))
    BY <1>3, <2>7, QueueParts
  <2>9. Queued' = Joined(Joined(h, p), Waiting(inbox))
    BY <1>1, <2>3, <2>5, <2>6 DEF Queued, Joined
  <2>10. Joined(h, p) \in Seq(Payloads)
    BY JoinedType
  <2> QED BY <1>1, <2>8, <2>9, <2>10, JoinedType
<1> QED BY <1>4, <1>5

(* Lemma: the turn that ends when TX_DS is up moves on to the next record.   *)
LEMMA SentKeepsQueue ==
  ASSUME IInv, QueueInv, RecordSent
  PROVE  UNCHANGED <<Queued, air>>
<1>1. ~r1.busy /\ r1'.busy = r1.busy /\ r1'.txFifo = r1.txFifo
  BY DEF RecordSent, IrqPinActive, IrqClearAll, IInv, RadioInv, TypeOK, RadioType, Chips
<1>2. OnItsWay' = OnItsWay
  BY <1>1 DEF OnItsWay
<1>3. NotYetLoaded' = NotYetLoaded /\ inbox' = inbox /\ air' = air
  BY DEF RecordSent, NotYetLoaded
<1> QED BY <1>2, <1>3, SameQueue

(* Lemma: a client's packet is the head of the queue; demo()'s is not in it. *)
LEMMA RadioSendsHead ==
  ASSUME IInv, QueueInv, RadioSends
  PROVE  Promise!Send \/ UNCHANGED <<Queued, air>>
<1> USE DEF IInv, TypeOK, QueueType
<1>1. /\ r1.busy /\ ~r1'.busy /\ r1' = PacketSent(r1)
      /\ UNCHANGED <<pc, cur, inbox, demoLeft>>
      /\ r1.txFifo # <<>> /\ r1.txAddr = Head(r1.txFifo).id
      /\ air' = IF Head(r1.txFifo).id = DemoAddr THEN air ELSE Append(air, OnAir(r1))
  BY DEF RadioSends, PacketSent, cpuVars, RadioInv, RadioType, Chips
<1>2. OnItsWay' = <<>> /\ NotYetLoaded' = NotYetLoaded
  BY <1>1 DEF OnItsWay, NotYetLoaded
<1>3. CASE Head(r1.txFifo).id = DemoAddr
  <2>1. OnItsWay = <<>> /\ air' = air
    BY <1>1, <1>3 DEF OnItsWay
  <2> QED BY <1>1, <1>2, <2>1, SameQueue
<1>4. CASE Head(r1.txFifo).id # DemoAddr
  <2>1. r1.txFifo \in Seq(Payloads) /\ r1.rfCh \in 0..127
    BY DEF RadioType, Chips
  <2>2. PICK x \in Payloads : x = Head(r1.txFifo)
    BY <1>1, <2>1, HeadTailProperties
  <2>3. PICK p \in Seq(Payloads) : p = PayloadsOf(NotYetLoaded)
    BY QueueParts
  <2>4. PICK w \in Seq(Payloads) : w = Waiting(inbox)
    BY QueueParts
  <2>5. OnItsWay = <<x>>
    BY <1>1, <1>4, <2>2 DEF OnItsWay
  <2>6. Queued = Joined(Joined(<<x>>, p), w)
    BY <2>3, <2>4, <2>5, QueueParts
  <2>7. Queued' = Joined(Joined(<<>>, p), w)
    BY <1>1, <1>2, <2>3, <2>4 DEF Queued, Joined
  <2>8. Joined(Joined(<<>>, p), w) = Joined(p, w)
    BY <2>3, JoinedType
  <2>9. <<x>> \in Seq(Payloads)
    OBVIOUS
  <2>10. Joined(Joined(<<x>>, p), w) = Joined(<<x>>, Joined(p, w))
    <3>1. PICK y \in Seq(Payloads) : y = <<x>>
      BY <2>9
    <3>2. Joined(Joined(y, p), w) = Joined(y, Joined(p, w))
      BY Regroup
    <3> QED BY <3>1, <3>2
  <2>11. PICK q \in Seq(Payloads) : q = Joined(p, w)
    BY JoinedType
  <2>12. /\ Joined(<<x>>, q) # <<>> /\ Head(Joined(<<x>>, q)) = x
         /\ Tail(Joined(<<x>>, q)) = q
    <3>1. Joined(<<x>>, q) # <<>> /\ Head(Joined(<<x>>, q)) = x
      BY DEF Joined
    <3>2. Tail(Joined(<<x>>, q)) = q
      BY DEF Joined
    <3> QED BY <3>1, <3>2
  <2>13. Queued # <<>> /\ Head(Queued) = x /\ Queued' = Tail(Queued)
    BY <2>6, <2>7, <2>8, <2>10, <2>11, <2>12
  <2>14. air' = Append(air, [to |-> x.id, ch |-> r1.rfCh, pay |-> x])
    BY <1>1, <1>4, <2>2 DEF OnAir
  <2> QED BY <2>1, <2>13, <2>14 DEF Promise!Send
<1> QED BY <1>3, <1>4

(* Lemma: a datagram that arrives goes to the end of the queue.              *)
LEMMA ArriveAccepts ==
  ASSUME IInv, QueueInv, NEW recs \in Datagrams, NEW short \in BOOLEAN, Arrive(recs, short)
  PROVE  Promise!Accept
<1> USE DEF IInv, TypeOK, QueueType
<1>1. PICK seen \in SeenBy(recs, short) : inbox' = Append(inbox, seen)
  BY DEF Arrive
<1>2. UNCHANGED <<pc, cur, demoLeft, r1, air>>
  BY DEF Arrive, cpuVars
<1>3. seen \in Seq(Records)
  BY SeenType
<1>4. OnItsWay' = OnItsWay /\ NotYetLoaded' = NotYetLoaded
  BY <1>2 DEF OnItsWay, NotYetLoaded
<1>5. PICK p \in Seq(Payloads) : p = PayloadsOf(NotYetLoaded)
  BY QueueParts
<1>6. PICK w \in Seq(Payloads) : w = Waiting(inbox)
  BY QueueParts
<1>7. PICK d \in Seq(Payloads) : d = PayloadsOf(seen)
  BY <1>3, PayloadsType
<1>8. PICK o \in Seq(Payloads) : o = OnItsWay
  BY QueueParts
<1>9. Waiting(Append(inbox, seen)) = Joined(w, d)
  BY <1>3, <1>6, <1>7, WaitingAppend DEF Joined
<1>10. Queued = Joined(Joined(o, p), w)
  BY <1>5, <1>6, <1>8, QueueParts
<1>11. Queued' = Joined(Joined(o, p), Joined(w, d))
  BY <1>1, <1>4, <1>5, <1>8, <1>9 DEF Queued, Joined
<1>12. PICK a \in Seq(Payloads) : a = Joined(o, p)
  BY JoinedType
<1>13. Joined(a, Joined(w, d)) = Joined(Joined(a, w), d)
  BY Regroup
<1>14. Joined(a, w) \in Seq(Payloads)
  BY JoinedType
<1>15. IsPrefix(Queued, Queued')
  BY <1>10, <1>11, <1>12, <1>13, <1>14, PrefixOfJoined
<1> QED BY <1>2, <1>15 DEF Promise!Accept, IsPrefix, Promise!IsPrefix

(* Lemma: a reset leaves of the queue only the packet the radio has begun.   *)
LEMMA ResetRestarts ==
  ASSUME IInv, QueueInv, Reset
  PROVE  Promise!Restart \/ UNCHANGED <<Queued, air>>
<1> USE DEF IInv, TypeOK, QueueType
<1>1. /\ pc' = "init" /\ inbox' = <<>> /\ cur' = <<>> /\ air' = air
      /\ r1'.busy = r1.busy /\ r1'.txFifo = r1.txFifo
  BY DEF Reset, ClearCe, RadioType, Chips
<1>2. OnItsWay' = OnItsWay /\ NotYetLoaded' = <<>>
  BY <1>1 DEF OnItsWay, NotYetLoaded
<1>3. PICK o \in Seq(Payloads) : o = OnItsWay
  BY QueueParts
<1>4. PICK p \in Seq(Payloads) : p = PayloadsOf(NotYetLoaded)
  BY QueueParts
<1>5. PICK w \in Seq(Payloads) : w = Waiting(inbox)
  BY QueueParts
<1>6. Queued = Joined(Joined(o, p), w)
  BY <1>3, <1>4, <1>5, QueueParts
<1>7. Queued' = Joined(Joined(o, <<>>), <<>>)
  BY <1>1, <1>2, <1>3, PayloadsEmpty, WaitingEmpty DEF Queued, Joined
<1>8. Queued' = o
  BY <1>7, JoinedType
<1>9. CASE o = <<>>
  BY <1>1, <1>8, <1>9 DEF Promise!Restart
<1>10. CASE o # <<>>
  <2>1. PICK x \in Payloads : o = <<x>>
    <3>1. o = <<Head(r1.txFifo)>>
      BY <1>3, <1>10 DEF OnItsWay
    <3>2. o[1] \in Payloads
      BY <3>1
    <3> QED BY <3>1, <3>2
  <2>2. Joined(Joined(o, p), w) = Joined(o, Joined(p, w))
    BY Regroup
  <2>3. PICK q \in Seq(Payloads) : q = Joined(p, w)
    BY JoinedType
  <2>4. Joined(o, q) # <<>> /\ Head(Joined(o, q)) = x
    BY <2>1 DEF Joined
  <2> QED BY <1>1, <1>6, <1>8, <2>1, <2>2, <2>3, <2>4 DEF Promise!Restart
<1> QED BY <1>9, <1>10

(* Theorem: for any robots, payloads, ring size, size of datagrams and number *)
(* of resets, the downlink implements OrderedRelay: the records of the       *)
(* datagrams go on the air in order, each once and to the robot it names     *)
(* (Process_recieved_Packet, udp_echoserver.c; demo() and main(), main.c).   *)
THEOREM RelayImplementsPromise == Spec => ForwardsInOrder
<1>1. Init => IInv /\ QueueInv
  BY InitInvariant DEF Init, QueueInv
<1>2. IInv /\ QueueInv /\ [Next]_vars => (IInv /\ QueueInv)'
  BY Inductive, QueueInvStep
<1>3. Init => Promise!Init
  <2> SUFFICES ASSUME Init PROVE Promise!Init
    OBVIOUS
  <2>1. OnItsWay = <<>> /\ NotYetLoaded = <<>> /\ inbox = <<>> /\ air = <<>>
    BY DEF Init, OnItsWay, NotYetLoaded, PowerOnChip
  <2>2. Queued = <<>>
    <3>1. Queued = Joined(Joined(<<>>, <<>>), <<>>)
      BY <2>1, PayloadsEmpty, WaitingEmpty DEF Queued, Joined
    <3> QED BY <3>1, EmptySeq, JoinedType
  <2> QED BY <2>1, <2>2 DEF Promise!Init
<1>4. IInv /\ QueueInv /\ [Next]_vars => [Promise!Next]_<<Queued, air>>
  <2> SUFFICES ASSUME IInv, QueueInv, [Next]_vars PROVE [Promise!Next]_<<Queued, air>>
    OBVIOUS
  <2>1. CASE \/ BootInitialize \/ BootFlush \/ BootTune
             \/ NoFrame \/ StartDemo \/ SkipDemo
             \/ RepeatTurn \/ AddressRobot \/ CallbackReturns
             \/ WritePayload \/ DemoSent
    BY <2>1, MainKeepsQueue
  <2>2. CASE ReceiveCallback
    BY <2>2, CallbackKeepsQueue
  <2>3. CASE SetRxChannel \/ SetTxChannel
    BY <2>3, CommandKeepsQueue
  <2>4. CASE PulseCe
    BY <2>4, PulseKeepsQueue
  <2>5. CASE RecordSent
    BY <2>5, SentKeepsQueue
  <2>6. CASE RadioSends
    BY <2>6, RadioSendsHead DEF Promise!Next
  <2>7. CASE \E recs \in Datagrams, short \in BOOLEAN : Arrive(recs, short)
    BY <2>7, ArriveAccepts DEF Promise!Next
  <2>8. CASE Reset
    BY <2>8, ResetRestarts DEF Promise!Next
  <2>9. CASE UNCHANGED vars
    <3>1. UNCHANGED <<pc, cur, inbox, demoLeft, r1, air>>
      BY <2>9 DEF vars, cpuVars
    <3>2. OnItsWay' = OnItsWay /\ NotYetLoaded' = NotYetLoaded
      BY <3>1 DEF OnItsWay, NotYetLoaded
    <3> QED BY <3>1, <3>2, SameQueue
  <2> QED BY <2>1, <2>2, <2>3, <2>4, <2>5, <2>6, <2>7, <2>8, <2>9 DEF Next, Main
<1> QED BY <1>1, <1>2, <1>3, <1>4, PTL DEF Spec, ForwardsInOrder, Promise!Spec
=============================================================================

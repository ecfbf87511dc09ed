---------------------------- MODULE RxRelayProofs ----------------------------
(* Proofs about RxRelay, for any number of packets and of resets.            *)
EXTENDS RxRelay, SequenceTheorems, TLAPS

(* Radio 2 at each point of main(): a boot that has flushed it leaves no     *)
(* flag, and where RX_DR is about to be tested it has a packet behind it.    *)
RadioInv ==
  /\ ~r2.txDS
  /\ pc = "init" => ~r2.ce
  /\ pc \in {"flush", "receive"} => ~r2.primRx
  /\ pc # "init" => r2.pwrUp
  /\ pc = "receive" => ~r2.rxDR
  /\ pc \in LoopPCs => r2.primRx
  /\ pc \in LoopPCs \ {"pop", "resume"} => r2.ce
  /\ pc \in {"elsewhere", "poll"} /\ r2.rxDR => r2.rxFifo # <<>>
  /\ pc = "pop" => r2.rxFifo # <<>>

InHand == pc \in {"resume", "forward"}

(* Sent packets are older than the one in hand, which is older than those in *)
(* the FIFO.                                                                 *)
OrderInv ==
  /\ Increasing(out)
  /\ Increasing(r2.rxFifo)
  /\ \A i \in 1..Len(out), j \in 1..Len(r2.rxFifo) : out[i] < r2.rxFifo[j]
  /\ InHand => /\ recData > 0
               /\ \A i \in 1..Len(out) : out[i] < recData
               /\ \A j \in 1..Len(r2.rxFifo) : recData < r2.rxFifo[j]

IInv == TypeOK /\ RadioInv /\ OrderInv

-----------------------------------------------------------------------------
(* Lemma: a sequence of packets stays one when more packets have been aired. *)
LEMMA SeqGrows ==
  ASSUME NEW n \in Nat, NEW q \in Seq(1..n)
  PROVE  q \in Seq(1..(n + 1))
<1>1. 1..n \subseteq 1..(n + 1)
  OBVIOUS
<1> QED BY <1>1

(* Lemma: taking the head off a sequence.                                    *)
LEMMA TakeHead ==
  ASSUME NEW S, NEW q \in Seq(S), q # <<>>
  PROVE  /\ Head(q) = q[1] /\ Head(q) \in S
         /\ Tail(q) \in Seq(S) /\ Len(q) \in Nat \ {0} /\ Len(Tail(q)) = Len(q) - 1
         /\ \A i \in 1..Len(Tail(q)) : Tail(q)[i] = q[i + 1]
  BY HeadTailProperties, EmptySeq

(* Lemma: adding to the end of a sequence.                                   *)
LEMMA AddLast ==
  ASSUME NEW S, NEW q \in Seq(S), NEW e \in S
  PROVE  /\ Append(q, e) \in Seq(S) /\ Len(Append(q, e)) = Len(q) + 1 /\ Len(q) \in Nat
         /\ Append(q, e)[Len(q) + 1] = e
         /\ \A i \in 1..Len(q) : Append(q, e)[i] = q[i]
  BY AppendProperties

(* Lemma: a newer packet at the end keeps a sequence increasing, and all of  *)
(* it above whatever it was above.                                           *)
LEMMA Arrival ==
  ASSUME NEW n \in Nat, NEW q \in Seq(1..n), Increasing(q), NEW f, f = Append(q, n + 1)
  PROVE  /\ Increasing(f)
         /\ \A x \in 0..n : (\A j \in 1..Len(q) : x < q[j]) => \A j \in 1..Len(f) : x < f[j]
<1>1. q \in Seq(1..(n + 1))
  BY SeqGrows
<1>2. /\ Len(f) = Len(q) + 1 /\ Len(q) \in Nat /\ f[Len(q) + 1] = n + 1
      /\ \A i \in 1..Len(q) : f[i] = q[i]
  BY <1>1, AddLast
<1>3. \A i \in 1..Len(q) : q[i] \in 1..n
  OBVIOUS
<1>4. \A i, j \in 1..Len(f) : i < j => f[i] < f[j]
  <2> SUFFICES ASSUME NEW i \in 1..Len(f), NEW j \in 1..Len(f), i < j PROVE f[i] < f[j]
    OBVIOUS
  <2>1. i \in 1..Len(q) /\ f[i] = q[i]
    BY <1>2
  <2>2. CASE j = Len(q) + 1
    BY <2>1, <2>2, <1>2, <1>3
  <2>3. CASE j \in 1..Len(q)
    BY <2>1, <2>3, <1>2 DEF Increasing
  <2> QED BY <2>2, <2>3, <1>2
<1>5. ASSUME NEW x \in 0..n, \A j \in 1..Len(q) : x < q[j], NEW j \in 1..Len(f)
      PROVE  x < f[j]
  <2>1. CASE j = Len(q) + 1
    BY <2>1, <1>2
  <2>2. CASE j \in 1..Len(q)
    BY <2>2, <1>2, <1>5
  <2> QED BY <2>1, <2>2, <1>2
<1> QED BY <1>4, <1>5 DEF Increasing

(* Lemma: what the driver and the radio make of a chip is a chip.            *)
LEMMA ChipType ==
  ASSUME NEW n \in Nat, NEW c \in Chips({NoAddr}, 1..n)
  PROVE  /\ ClearCe(c) \in Chips({NoAddr}, 1..n)
         /\ SetCe(c) \in Chips({NoAddr}, 1..n)
         /\ InitializeDebug(c, FALSE, NoAddr) \in Chips({NoAddr}, 1..n)
         /\ ClearFlush(c) \in Chips({NoAddr}, 1..n)
         /\ SetAsRx(c, TRUE) \in Chips({NoAddr}, 1..n)
         /\ IrqClearRxDr(c) \in Chips({NoAddr}, 1..n)
         /\ c \in Chips({NoAddr}, 1..(n + 1))
         /\ PacketHeard(c, n + 1) \in Chips({NoAddr}, 1..(n + 1))
<1> DEFINE C == Chips({NoAddr}, 1..n)
<1>1. ClearCe(c) \in C /\ SetCe(c) \in C
  BY DEF ClearCe, SetCe, Chips
<1>2. InitializeDebug(c, FALSE, NoAddr) \in C
  <2> DEFINE d == [c EXCEPT !.rfCh = DefaultRfCh, !.txAddr = NoAddr]
  <2>1. DefaultRfCh \in 0..127
    BY DEF DefaultRfCh
  <2>2. d \in C
    BY <2>1 DEF Chips
  <2> HIDE DEF d
  <2>3. PowerUpParam(d, FALSE, TRUE) \in C
    BY <2>2 DEF PowerUpParam, Chips
  <2> QED BY <2>3 DEF d, InitializeDebug
<1>3. ClearFlush(c) \in C
  <2>1. <<>> \in Seq(1..n)
    OBVIOUS
  <2>2. FlushRx(c) \in C
    BY <2>1 DEF FlushRx, Chips
  <2>3. FlushTx(FlushRx(c)) \in C
    BY <2>1, <2>2 DEF FlushTx, Chips
  <2>4. \A d \in C : IrqClearAll(d) \in C
    BY DEF IrqClearAll, Chips
  <2> QED BY <2>3, <2>4 DEF ClearFlush
<1>4. SetAsRx(c, TRUE) \in C
  BY DEF SetAsRx, Chips
<1>5. IrqClearRxDr(c) \in C
  BY DEF IrqClearRxDr, Chips
<1>6. c \in Chips({NoAddr}, 1..(n + 1))
  <2>1. c.txFifo \in Seq(1..(n + 1)) /\ c.rxFifo \in Seq(1..(n + 1))
    BY SeqGrows DEF Chips
  <2> QED BY <2>1 DEF Chips
<1>7. PacketHeard(c, n + 1) \in Chips({NoAddr}, 1..(n + 1))
  <2>1. c.rxFifo \in Seq(1..(n + 1))
    BY <1>6 DEF Chips
  <2>2. Append(c.rxFifo, n + 1) \in Seq(1..(n + 1))
    BY <2>1
  <2> QED BY <1>6, <2>2 DEF PacketHeard, Chips
<1> QED BY <1>1, <1>2, <1>3, <1>4, <1>5, <1>6, <1>7

-----------------------------------------------------------------------------
(* The initial state satisfies the invariant.                                *)
THEOREM InitInvariant == Init => IInv
<1> SUFFICES ASSUME Init PROVE IInv
  OBVIOUS
<1>1. TypeOK
  BY BoundsAssumption DEF Init, TypeOK, BootPCs, PowerOnChip, Chips, DefaultRfCh, FifoDepth
<1>2. RadioInv
  BY DEF Init, RadioInv, PowerOnChip, LoopPCs
<1>3. OrderInv
  BY DEF Init, OrderInv, Increasing, PowerOnChip, InHand
<1> QED BY <1>1, <1>2, <1>3 DEF IInv

-----------------------------------------------------------------------------
(* What each step does to the sequences and to the radio, stated once so     *)
(* that the proofs below need not open the driver.                           *)
LEMMA DriverFacts ==
  ASSUME NEW n \in Nat, NEW c \in Chips({NoAddr}, 1..n)
  PROVE  /\ ClearCe(c).rxFifo = c.rxFifo /\ SetCe(c).rxFifo = c.rxFifo
         /\ InitializeDebug(c, FALSE, NoAddr).rxFifo = c.rxFifo
         /\ ClearFlush(c).rxFifo = <<>>
         /\ SetAsRx(c, TRUE).rxFifo = c.rxFifo
         /\ IrqClearRxDr(c).rxFifo = c.rxFifo
         /\ PacketHeard(c, n + 1).rxFifo =
              IF Len(c.rxFifo) < FifoDepth THEN Append(c.rxFifo, n + 1) ELSE c.rxFifo
         /\ c.rxFifo \in Seq(1..n)
  BY DEF ClearCe, SetCe, InitializeDebug, PowerUpParam, ClearFlush, IrqClearAll, FlushTx,
         FlushRx, SetAsRx, IrqClearRxDr, PacketHeard, Chips

-----------------------------------------------------------------------------
(* The types are preserved by every step.                                    *)
LEMMA TypeStep == IInv /\ [Next]_vars => TypeOK'
<1> SUFFICES ASSUME IInv, [Next]_vars PROVE TypeOK'
  OBVIOUS
<1> DEFINE C == Chips({NoAddr}, 1..aired)
<1>t. /\ pc \in BootPCs \cup LoopPCs /\ r2 \in C /\ Len(r2.rxFifo) <= FifoDepth
      /\ recData \in 0..aired /\ out \in Seq(1..aired) /\ heard \in Seq(1..aired)
      /\ aired \in 0..MaxPackets /\ resets \in 0..MaxResets
  BY DEF IInv, TypeOK
<1>n. aired \in Nat
  BY <1>t, BoundsAssumption
<1>q. r2.rxFifo \in Seq(1..aired)
  BY <1>n, <1>t, DriverFacts
<1>e. <<>> \in Seq(1..aired) /\ Len(<<>>) <= FifoDepth
  BY DEF FifoDepth
<1>p. {"init", "flush", "receive", "elsewhere", "poll", "pop", "resume", "forward", "clear"}
        \subseteq BootPCs \cup LoopPCs
  BY DEF BootPCs, LoopPCs
<1>1. CASE BootInitialize
  <2>1. r2' \in C /\ r2'.rxFifo = r2.rxFifo
    BY <1>1, <1>n, <1>t, ChipType, DriverFacts DEF BootInitialize
  <2> QED BY <1>1, <2>1, <1>t, <1>p DEF BootInitialize, TypeOK
<1>2. CASE BootFlush
  <2>1. r2' \in C /\ r2'.rxFifo = <<>>
    BY <1>2, <1>n, <1>t, ChipType, DriverFacts DEF BootFlush
  <2> QED BY <1>2, <2>1, <1>t, <1>p, <1>e DEF BootFlush, TypeOK
<1>3. CASE BootReceive
  <2>1. r2' \in C /\ r2'.rxFifo = r2.rxFifo
    BY <1>3, <1>n, <1>t, ChipType, DriverFacts DEF BootReceive
  <2> QED BY <1>3, <2>1, <1>t, <1>p DEF BootReceive, TypeOK
<1>4. CASE RestOfLoop \/ NoInterrupt
  BY <1>4, <1>t, <1>p DEF RestOfLoop, NoInterrupt, TypeOK
<1>5. CASE StopListening
  <2>1. r2' \in C /\ r2'.rxFifo = r2.rxFifo
    BY <1>5, <1>n, <1>t, ChipType, DriverFacts DEF StopListening
  <2> QED BY <1>5, <2>1, <1>t, <1>p DEF StopListening, TypeOK
<1>6. CASE PopPayload
  <2>1. r2.rxFifo # <<>>
    BY <1>6 DEF IInv, RadioInv, PopPayload
  <2>a. /\ Tail(r2.rxFifo) \in Seq(1..aired) /\ Len(r2.rxFifo) \in Nat \ {0}
        /\ Len(Tail(r2.rxFifo)) = Len(r2.rxFifo) - 1
    BY <2>1, <1>q, TakeHead
  <2>2. Tail(r2.rxFifo) \in Seq(1..aired) /\ Len(Tail(r2.rxFifo)) <= FifoDepth
    BY <2>a, <1>t DEF FifoDepth
  <2>3. Head(r2.rxFifo) \in 1..aired
    BY <2>1, <1>q, TakeHead
  <2>4. r2' = [r2 EXCEPT !.rxFifo = Tail(r2.rxFifo)] /\ recData' = Head(r2.rxFifo)
    BY <1>6, <2>1 DEF PopPayload
  <2>5. r2' \in C /\ r2'.rxFifo = Tail(r2.rxFifo)
    BY <2>2, <2>4, <1>t DEF Chips
  <2> QED BY <1>6, <2>2, <2>3, <2>4, <2>5, <1>t, <1>p, <1>n DEF PopPayload, TypeOK
<1>7. CASE ResumeListening
  <2>1. r2' \in C /\ r2'.rxFifo = r2.rxFifo
    BY <1>7, <1>n, <1>t, ChipType, DriverFacts DEF ResumeListening
  <2> QED BY <1>7, <2>1, <1>t, <1>p DEF ResumeListening, TypeOK
<1>8. CASE Forward
  <2>1. recData \in 1..aired
    BY <1>8, <1>t DEF IInv, OrderInv, InHand, Forward
  <2>2. Append(out, recData) \in Seq(1..aired)
    BY <2>1, <1>t
  <2> QED BY <1>8, <2>2, <1>t, <1>p DEF Forward, TypeOK
<1>9. CASE ClearInterrupt
  <2>1. r2' \in C /\ r2'.rxFifo = r2.rxFifo
    BY <1>9, <1>n, <1>t, ChipType, DriverFacts DEF ClearInterrupt
  <2> QED BY <1>9, <2>1, <1>t, <1>p, <1>n DEF ClearInterrupt, TypeOK
<1>10. CASE PacketAired
  <2>1. aired' = aired + 1 /\ aired' \in 0..MaxPackets
    BY <1>10, <1>t, BoundsAssumption DEF PacketAired
  <2>2. r2' \in Chips({NoAddr}, 1..(aired + 1))
    BY <1>10, <1>n, <1>t, ChipType DEF PacketAired
  <2>3. Len(r2'.rxFifo) <= FifoDepth
    <3>1. CASE Listening(r2)
      <4>1. r2.rxFifo \in Seq(1..(aired + 1))
        BY <1>n, <1>q, SeqGrows
      <4>2. Len(Append(r2.rxFifo, aired + 1)) = Len(r2.rxFifo) + 1 /\ Len(r2.rxFifo) \in Nat
        BY <4>1, <1>n, AddLast
      <4>3. r2'.rxFifo = IF Len(r2.rxFifo) < FifoDepth THEN Append(r2.rxFifo, aired + 1) ELSE r2.rxFifo
        BY <3>1, <1>10, <1>n, <1>t, DriverFacts DEF PacketAired
      <4> QED BY <4>2, <4>3, <1>t DEF FifoDepth
    <3>2. CASE ~Listening(r2)
      BY <3>2, <1>10, <1>t DEF PacketAired
    <3> QED BY <3>1, <3>2
  <2>4. out \in Seq(1..(aired + 1)) /\ heard \in Seq(1..(aired + 1))
    BY <1>n, <1>t, SeqGrows
  <2>5. Append(heard, aired + 1) \in Seq(1..(aired + 1))
    BY <2>4, <1>n
  <2>6. heard' \in Seq(1..(aired + 1))
    BY <1>10, <2>4, <2>5 DEF PacketAired
  <2> QED BY <1>10, <2>1, <2>2, <2>3, <2>4, <2>6, <1>t DEF PacketAired, TypeOK
<1>11. CASE Reset
  <2>1. r2' \in C /\ r2'.rxFifo = r2.rxFifo
    BY <1>11, <1>n, <1>t, ChipType, DriverFacts DEF Reset
  <2> QED BY <1>11, <2>1, <1>t, <1>p, <1>n, BoundsAssumption DEF Reset, TypeOK
<1>12. CASE UNCHANGED vars
  BY <1>12, <1>t DEF vars, TypeOK
<1> QED BY <1>1, <1>2, <1>3, <1>4, <1>5, <1>6, <1>7, <1>8, <1>9, <1>10, <1>11, <1>12
        DEF Next, Main

-----------------------------------------------------------------------------
(* What the radio is known to be at each point is preserved by every step.   *)
LEMMA RadioStep == IInv /\ [Next]_vars => RadioInv'
<1> SUFFICES ASSUME IInv, [Next]_vars PROVE RadioInv'
  OBVIOUS
<1>t. r2 \in Chips({NoAddr}, 1..aired) /\ aired \in Nat
  BY BoundsAssumption DEF IInv, TypeOK
<1>r. RadioInv
  BY DEF IInv
<1>1. CASE BootInitialize
  BY <1>1, <1>r, <1>t DEF RadioInv, BootInitialize, InitializeDebug, PowerUpParam, Chips, LoopPCs
<1>2. CASE BootFlush
  BY <1>2, <1>r, <1>t DEF RadioInv, BootFlush, ClearFlush, IrqClearAll, FlushTx, FlushRx, Chips, LoopPCs
<1>3. CASE BootReceive
  BY <1>3, <1>r, <1>t DEF RadioInv, BootReceive, SetAsRx, Chips, LoopPCs
<1>4. CASE RestOfLoop \/ NoInterrupt
  BY <1>4, <1>r DEF RadioInv, RestOfLoop, NoInterrupt, LoopPCs
<1>5. CASE StopListening
  BY <1>5, <1>r, <1>t DEF RadioInv, StopListening, IrqPinActive, ClearCe, Chips, LoopPCs
<1>6. CASE PopPayload
  BY <1>6, <1>r, <1>t DEF RadioInv, PopPayload, Chips, LoopPCs
<1>7. CASE ResumeListening
  BY <1>7, <1>r, <1>t DEF RadioInv, ResumeListening, SetCe, Chips, LoopPCs
<1>8. CASE Forward
  BY <1>8, <1>r DEF RadioInv, Forward, LoopPCs
<1>9. CASE ClearInterrupt
  BY <1>9, <1>r, <1>t DEF RadioInv, ClearInterrupt, IrqClearRxDr, Chips, LoopPCs
<1>10. CASE PacketAired
  <2>1. CASE ~Listening(r2)
    BY <2>1, <1>10, <1>r DEF RadioInv, PacketAired
  <2>2. CASE Listening(r2)
    <3>1. Append(r2.rxFifo, aired + 1) # <<>>
      <4>1. r2.rxFifo \in Seq(1..(aired + 1))
        BY <1>t, DriverFacts, SeqGrows
      <4>2. /\ Append(r2.rxFifo, aired + 1) \in Seq(1..(aired + 1))
            /\ Len(Append(r2.rxFifo, aired + 1)) # 0
        BY <4>1, <1>t, AddLast
      <4> QED BY <4>2, EmptySeq
    <3>2. pc \notin {"init", "flush", "receive"}
      BY <2>2, <1>r DEF RadioInv, Listening
    <3>3. r2' = r2 \/ r2' = [r2 EXCEPT !.rxFifo = Append(r2.rxFifo, aired + 1), !.rxDR = TRUE]
      BY <2>2, <1>10 DEF PacketAired, PacketHeard
    <3>4. pc' = pc
      BY <1>10 DEF PacketAired
    <3>5. CASE r2' = r2
      BY <3>4, <3>5, <1>r DEF RadioInv
    <3>6. CASE r2' = [r2 EXCEPT !.rxFifo = Append(r2.rxFifo, aired + 1), !.rxDR = TRUE]
      BY <3>1, <3>2, <3>4, <3>6, <1>r, <1>t DEF RadioInv, Chips
    <3> QED BY <3>3, <3>5, <3>6
  <2> QED BY <2>1, <2>2
<1>11. CASE Reset
  BY <1>11, <1>r, <1>t DEF RadioInv, Reset, ClearCe, Chips, LoopPCs
<1>12. CASE UNCHANGED vars
  BY <1>12, <1>r DEF vars, RadioInv
<1> QED BY <1>1, <1>2, <1>3, <1>4, <1>5, <1>6, <1>7, <1>8, <1>9, <1>10, <1>11, <1>12
        DEF Next, Main

-----------------------------------------------------------------------------
(* The order of the packets is preserved by every step.                      *)
LEMMA OrderStep == IInv /\ [Next]_vars => OrderInv'
<1> SUFFICES ASSUME IInv, [Next]_vars PROVE OrderInv'
  OBVIOUS
<1> DEFINE q == r2.rxFifo
<1>t. /\ r2 \in Chips({NoAddr}, 1..aired) /\ aired \in Nat /\ out \in Seq(1..aired)
      /\ recData \in 0..aired /\ q \in Seq(1..aired)
  BY BoundsAssumption DEF IInv, TypeOK, Chips
<1>o. OrderInv
  BY DEF IInv
<1>1. CASE r2'.rxFifo = q /\ out' = out /\ (InHand' => InHand /\ recData' = recData)
  BY <1>1, <1>o DEF OrderInv, Increasing
<1>2. CASE BootFlush
  <2>1. r2'.rxFifo = <<>>
    BY <1>2, <1>t, DriverFacts DEF BootFlush
  <2>2. out' = out /\ ~InHand'
    BY <1>2 DEF BootFlush, InHand
  <2> QED BY <2>1, <2>2, <1>o DEF OrderInv, Increasing
<1>3. CASE PopPayload
  <2>1. q # <<>>
    BY <1>3 DEF IInv, RadioInv, PopPayload
  <2>2. /\ Head(q) = q[1] /\ Head(q) \in 1..aired /\ Len(q) \in Nat \ {0}
        /\ Tail(q) \in Seq(1..aired) /\ Len(Tail(q)) = Len(q) - 1
        /\ \A i \in 1..Len(Tail(q)) : Tail(q)[i] = q[i + 1]
    BY <2>1, <1>t, TakeHead
  <2>3. r2' = [r2 EXCEPT !.rxFifo = Tail(q)] /\ recData' = Head(q) /\ out' = out
    BY <1>3, <2>1 DEF PopPayload
  <2>4. r2'.rxFifo = Tail(q)
    BY <2>3, <1>t DEF Chips
  <2>5. Increasing(q) /\ \A i \in 1..Len(out), j \in 1..Len(q) : out[i] < q[j]
    BY <1>o DEF OrderInv
  <2>6. Increasing(Tail(q))
    BY <2>2, <2>5 DEF Increasing
  <2>7. \A i \in 1..Len(out), j \in 1..Len(Tail(q)) : out[i] < Tail(q)[j]
    BY <2>2, <2>5
  <2>8. \A i \in 1..Len(out) : out[i] < Head(q)
    BY <2>2, <2>5
  <2>9. \A j \in 1..Len(Tail(q)) : Head(q) < Tail(q)[j]
    BY <2>2, <2>5 DEF Increasing
  <2> QED BY <2>2, <2>3, <2>4, <2>6, <2>7, <2>8, <2>9, <1>o DEF OrderInv
<1>4. CASE Forward
  <2>1. /\ recData > 0
        /\ \A i \in 1..Len(out) : out[i] < recData
        /\ \A j \in 1..Len(q) : recData < q[j]
    BY <1>4, <1>o DEF Forward, OrderInv, InHand
  <2>2. recData \in 1..aired
    BY <2>1, <1>t
  <2>3. /\ out' = Append(out, recData) /\ Len(out') = Len(out) + 1 /\ Len(out) \in Nat
        /\ out'[Len(out) + 1] = recData
        /\ \A i \in 1..Len(out) : out'[i] = out[i]
    BY <1>4, <1>t, <2>2, AddLast DEF Forward
  <2>4. r2' = r2 /\ ~InHand'
    BY <1>4 DEF Forward, InHand
  <2>5. Increasing(out) /\ \A i \in 1..Len(out), j \in 1..Len(q) : out[i] < q[j]
    BY <1>o DEF OrderInv
  <2>6. Increasing(out')
    BY <2>1, <2>3, <2>5 DEF Increasing
  <2>7. \A i \in 1..Len(out'), j \in 1..Len(q) : out'[i] < q[j]
    BY <2>1, <2>3, <2>5
  <2> QED BY <2>4, <2>6, <2>7, <1>o DEF OrderInv
<1>5. CASE PacketAired
  <2>1. out' = out /\ recData' = recData /\ (InHand' <=> InHand)
    BY <1>5 DEF PacketAired, InHand
  <2>2. CASE r2'.rxFifo = q
    BY <2>1, <2>2, <1>1
  <2>3. CASE r2'.rxFifo = Append(q, aired + 1)
    <3>1. Increasing(q) /\ \A i \in 1..Len(out), j \in 1..Len(q) : out[i] < q[j]
      BY <1>o DEF OrderInv
    <3>2. \A x \in 0..aired : (\A j \in 1..Len(q) : x < q[j]) =>
                              \A j \in 1..Len(r2'.rxFifo) : x < r2'.rxFifo[j]
      BY <2>3, <3>1, <1>t, Arrival
    <3>3. \A i \in 1..Len(out) : out[i] \in 0..aired
      BY <1>t
    <3>4. Increasing(r2'.rxFifo)
      BY <2>3, <3>1, <1>t, Arrival
    <3>5. \A i \in 1..Len(out) : \A j \in 1..Len(r2'.rxFifo) : out[i] < r2'.rxFifo[j]
      BY <3>1, <3>2, <3>3
    <3>6. InHand => \A j \in 1..Len(r2'.rxFifo) : recData < r2'.rxFifo[j]
      <4>1. InHand => \A j \in 1..Len(q) : recData < q[j]
        BY <1>o DEF OrderInv
      <4> QED BY <4>1, <3>2, <1>t
    <3>7. Increasing(out) /\ (InHand => recData > 0 /\ \A i \in 1..Len(out) : out[i] < recData)
      BY <1>o DEF OrderInv
    <3> QED BY <2>1, <3>4, <3>5, <3>6, <3>7 DEF OrderInv
  <2>4. r2'.rxFifo = q \/ r2'.rxFifo = Append(q, aired + 1)
    BY <1>5, <1>t, DriverFacts DEF PacketAired
  <2> QED BY <2>2, <2>3, <2>4
<1>6. CASE BootInitialize \/ BootReceive \/ RestOfLoop \/ NoInterrupt \/ StopListening
           \/ ResumeListening \/ ClearInterrupt \/ Reset
  <2>1. r2'.rxFifo = q
    BY <1>6, <1>t, DriverFacts
       DEF BootInitialize, BootReceive, RestOfLoop, NoInterrupt, StopListening,
           ResumeListening, ClearInterrupt, Reset
  <2>2. out' = out /\ (InHand' => InHand /\ recData' = recData)
    BY <1>6 DEF InHand, BootInitialize, BootReceive, RestOfLoop, NoInterrupt, StopListening,
                ResumeListening, ClearInterrupt, Reset
  <2> QED BY <2>1, <2>2, <1>1
<1>7. CASE UNCHANGED vars
  BY <1>7, <1>1 DEF vars, InHand
<1> QED BY <1>2, <1>3, <1>4, <1>5, <1>6, <1>7 DEF Next, Main

-----------------------------------------------------------------------------
(* The invariant of the uplink, for any number of packets and resets.        *)
THEOREM Invariance == Spec => []IInv
<1>1. IInv /\ [Next]_vars => IInv'
  BY TypeStep, RadioStep, OrderStep DEF IInv
<1> QED BY InitInvariant, <1>1, PTL DEF Spec

(* The state of the uplink is always well formed.                            *)
THEOREM TypeCorrect == Spec => []TypeOK
<1>1. IInv => TypeOK
  BY DEF IInv
<1> QED BY Invariance, <1>1, PTL

(* Packets are multicast in the order in which they were sent to the         *)
(* gateway, none of them twice.                                              *)
THEOREM InOrderOnceAlways == Spec => []InOrderOnce
<1>1. IInv => InOrderOnce
  BY DEF IInv, OrderInv, InOrderOnce
<1> QED BY Invariance, <1>1, PTL

(* process_incoming_rf never reads an empty FIFO.                            *)
THEOREM NoEmptyRead == Spec => []NeverReadsEmpty
<1>1. IInv => NeverReadsEmpty
  BY DEF IInv, RadioInv, NeverReadsEmpty
<1> QED BY Invariance, <1>1, PTL

(* Once the main loop runs, radio 2 listens except while it is being read.   *)
THEOREM StaysOnAir == Spec => []OnAirInLoop
<1>1. IInv => OnAirInLoop
  BY DEF IInv, RadioInv, OnAirInLoop, Listening, LoopPCs
<1> QED BY Invariance, <1>1, PTL
-----------------------------------------------------------------------------
(* Nothing is left behind by a boot, and nothing heard is lost by the loop.  *)
HeardInv ==
  /\ NothingHeardIsLost
  /\ pc = "receive" => heard = out /\ r2.rxFifo = <<>>

(* A packet may be moved from one sequence to the next.                      *)
Moves(a, b, e) ==
  /\ Append(a \o b, e) = a \o Append(b, e)
  /\ Append(a, e) \o b = a \o (<<e>> \o b)

LEMMA Regroup ==
  ASSUME NEW S, NEW a \in Seq(S), NEW b \in Seq(S), NEW e \in S
  PROVE  Moves(a, b, e)
<1>1. <<e>> \in Seq(S) /\ a \o b \in Seq(S)
  BY ConcatProperties
<1>2. Append(a, e) = a \o <<e>> /\ Append(b, e) = b \o <<e>> /\ Append(a \o b, e) = (a \o b) \o <<e>>
  BY <1>1, AppendIsConcat
<1>3. (a \o b) \o <<e>> = a \o (b \o <<e>>) /\ (a \o <<e>>) \o b = a \o (<<e>> \o b)
  BY <1>1, ConcatAssociative
<1> QED BY <1>2, <1>3 DEF Moves

(* Lemma: the head is put in front of its tail again.                        *)
LEMMA PutBack ==
  ASSUME NEW S, NEW q \in Seq(S), q # <<>>
  PROVE  <<Head(q)>> \o Tail(q) = q
<1>1. /\ Head(q) = q[1] /\ Head(q) \in S
      /\ Tail(q) \in Seq(S) /\ Len(q) \in Nat \ {0} /\ Len(Tail(q)) = Len(q) - 1
      /\ \A i \in 1..Len(Tail(q)) : Tail(q)[i] = q[i + 1]
  BY TakeHead
<1>2. <<Head(q)>> \in Seq(S) /\ Len(<<Head(q)>>) = 1 /\ <<Head(q)>>[1] = Head(q)
  BY <1>1
<1> DEFINE p == <<Head(q)>> \o Tail(q)
<1>3. /\ p \in Seq(S) /\ Len(p) = Len(q)
      /\ \A i \in 1..Len(q) : p[i] = IF i <= 1 THEN <<Head(q)>>[i] ELSE Tail(q)[i - 1]
  BY <1>1, <1>2, ConcatProperties
<1> HIDE DEF p
<1>4. \A i \in 1..Len(q) : p[i] = q[i]
  <2> SUFFICES ASSUME NEW i \in 1..Len(q) PROVE p[i] = q[i]
    OBVIOUS
  <2>1. CASE i = 1
    BY <2>1, <1>1, <1>2, <1>3
  <2>2. CASE i # 1
    <3>1. i - 1 \in 1..Len(Tail(q)) /\ (i - 1) + 1 = i
      BY <2>2, <1>1
    <3> QED BY <2>2, <3>1, <1>1, <1>3
  <2> QED BY <2>1, <2>2
<1>5. p = q
  BY <1>3, <1>4, SeqEqual
<1> QED BY <1>5 DEF p

LEMMA HeardStep == IInv /\ HeardInv /\ [Next]_vars => HeardInv'
<1> SUFFICES ASSUME IInv, HeardInv, [Next]_vars PROVE HeardInv'
  OBVIOUS
<1> DEFINE q == r2.rxFifo
<1>t. /\ r2 \in Chips({NoAddr}, 1..aired) /\ aired \in Nat /\ out \in Seq(1..aired)
      /\ recData \in 0..aired /\ q \in Seq(1..aired)
  BY BoundsAssumption DEF IInv, TypeOK, Chips
<1>h. (pc \in LoopPCs => heard = out \o Waiting) /\ (pc = "receive" => heard = out /\ q = <<>>)
  BY DEF HeardInv, NothingHeardIsLost
<1>e. <<>> \o q = q /\ out \o <<>> = out /\ <<>> \o <<>> = <<>>
  BY <1>t, ConcatEmptySeq
<1>1. CASE /\ UNCHANGED <<out, heard>> /\ r2'.rxFifo = q
           /\ pc' \in LoopPCs => pc \in LoopPCs /\ Waiting' = Waiting
           /\ pc' # "receive"
  BY <1>1, <1>h DEF HeardInv, NothingHeardIsLost
<1>2. CASE BootFlush
  <2>1. r2'.rxFifo = <<>>
    BY <1>2, <1>t, DriverFacts DEF BootFlush
  <2> QED BY <2>1, <1>2 DEF BootFlush, HeardInv, NothingHeardIsLost, LoopPCs
<1>3. CASE BootReceive
  <2>1. r2'.rxFifo = <<>> /\ heard = out
    BY <1>3, <1>t, <1>h, DriverFacts DEF BootReceive
  <2>2. Waiting' = <<>>
    BY <2>1, <1>3, <1>e DEF BootReceive, Waiting
  <2> QED BY <2>1, <2>2, <1>3, <1>e DEF BootReceive, HeardInv, NothingHeardIsLost
<1>4. CASE PopPayload
  <2>1. q # <<>>
    BY <1>4 DEF IInv, RadioInv, PopPayload
  <2>2. r2' = [r2 EXCEPT !.rxFifo = Tail(q)] /\ recData' = Head(q) /\ pc = "pop" /\ pc' = "resume"
    BY <1>4, <2>1 DEF PopPayload
  <2>3. r2'.rxFifo = Tail(q)
    BY <2>2, <1>t DEF Chips
  <2>4. Waiting' = <<Head(q)>> \o Tail(q) /\ Waiting = <<>> \o q
    BY <2>2, <2>3 DEF Waiting
  <2>5. Waiting' = Waiting
    BY <2>1, <2>4, <1>t, <1>e, PutBack
  <2> QED BY <2>2, <2>5, <1>4, <1>h DEF PopPayload, HeardInv, NothingHeardIsLost, LoopPCs
<1>5. CASE Forward
  <2>1. recData \in 1..aired
    BY <1>5, <1>t DEF Forward, IInv, OrderInv, InHand
  <2>2. out' = Append(out, recData) /\ r2' = r2 /\ heard' = heard /\ pc = "forward" /\ pc' = "clear"
    BY <1>5 DEF Forward
  <2>3. Waiting = <<recData>> \o q /\ Waiting' = q
    BY <2>2, <1>e DEF Waiting
  <2> HIDE DEF q
  <2>4. Moves(out, q, recData)
    BY <2>1, <1>t, Regroup
  <2>5. out' \o q = out \o (<<recData>> \o q)
    BY <2>2, <2>4 DEF Moves
  <2> QED BY <2>2, <2>3, <2>5, <1>h DEF HeardInv, NothingHeardIsLost, LoopPCs
<1>6. CASE PacketAired
  <2>1. UNCHANGED <<out, pc, recData>>
    BY <1>6 DEF PacketAired
  <2>2. CASE r2'.rxFifo = q
    <3>1. heard' = heard
      BY <1>6, <2>2 DEF PacketAired
    <3>2. Waiting' = Waiting
      BY <2>1, <2>2 DEF Waiting
    <3> QED BY <2>1, <2>2, <3>1, <3>2, <1>h DEF HeardInv, NothingHeardIsLost
  <2>3. CASE r2'.rxFifo = Append(q, aired + 1) /\ r2'.rxFifo # q
    <3> DEFINE S == 1..(aired + 1)
    <3>1. out \in Seq(S) /\ q \in Seq(S) /\ aired + 1 \in S
      BY <1>t, SeqGrows
    <3>2. heard' = Append(heard, aired + 1)
      BY <1>6, <2>3 DEF PacketAired
    <3>3. pc # "receive"
      BY <1>6, <2>3 DEF PacketAired, IInv, RadioInv, Listening
    <3>4. InHand => recData \in S
      BY <1>t DEF IInv, OrderInv
    <3> HIDE DEF S, q
    <3> DEFINE w == IF InHand THEN <<recData>> ELSE <<>>
    <3>5. w \in Seq(S)
      BY <3>4
    <3>6. Waiting = w \o q /\ Waiting' = w \o Append(q, aired + 1)
      BY <2>1, <2>3 DEF Waiting, InHand, q
    <3> HIDE DEF w
    <3> DEFINE n == aired + 1
    <3>7. n \in S
      BY <3>1
    <3> HIDE DEF n
    <3>8. w \o q \in Seq(S)
      BY <3>1, <3>5, ConcatProperties
    <3>9. Moves(w, q, n) /\ Moves(out, w \o q, n)
      BY <3>1, <3>5, <3>7, <3>8, Regroup
    <3>10. Append(out \o (w \o q), n) = out \o (w \o Append(q, n))
      BY <3>9 DEF Moves
    <3>11. heard' = Append(heard, n) /\ Waiting' = w \o Append(q, n)
      BY <3>2, <3>6 DEF n
    <3> QED BY <2>1, <3>3, <3>6, <3>10, <3>11, <1>h DEF HeardInv, NothingHeardIsLost
  <2>4. r2'.rxFifo = q \/ r2'.rxFifo = Append(q, aired + 1)
    BY <1>6, <1>t, DriverFacts DEF PacketAired
  <2> QED BY <2>2, <2>3, <2>4
<1>7. CASE BootInitialize \/ RestOfLoop \/ NoInterrupt \/ StopListening
           \/ ResumeListening \/ ClearInterrupt \/ Reset
  <2>1. r2'.rxFifo = q
    BY <1>7, <1>t, DriverFacts
       DEF BootInitialize, RestOfLoop, NoInterrupt, StopListening,
           ResumeListening, ClearInterrupt, Reset
  <2>2. UNCHANGED <<out, heard>> /\ pc' # "receive" /\ (pc' \in LoopPCs => pc \in LoopPCs)
    BY <1>7 DEF LoopPCs, BootInitialize, RestOfLoop, NoInterrupt, StopListening,
                ResumeListening, ClearInterrupt, Reset
  <2>3. pc' \in LoopPCs => Waiting' = Waiting
    BY <2>1, <1>7 DEF Waiting, LoopPCs, BootInitialize, RestOfLoop, NoInterrupt, StopListening,
                      ResumeListening, ClearInterrupt, Reset
  <2> QED BY <2>1, <2>2, <2>3, <1>1
<1>8. CASE UNCHANGED vars
  BY <1>8, <1>h DEF vars, HeardInv, NothingHeardIsLost, Waiting
<1> QED BY <1>2, <1>3, <1>4, <1>5, <1>6, <1>7, <1>8 DEF Next, Main

(* Theorem: a packet that radio 2 took in has been forwarded, is in hand or  *)
(* is in the FIFO, in the order heard (udp_echoserver.c:112-134).            *)
THEOREM NothingIsLost == Spec => []NothingHeardIsLost
<1>1. Init => HeardInv
  BY DEF Init, HeardInv, NothingHeardIsLost, LoopPCs
<1>2. HeardInv => NothingHeardIsLost
  BY DEF HeardInv
<1> QED BY <1>1, <1>2, HeardStep, Invariance, PTL DEF Spec
=============================================================================

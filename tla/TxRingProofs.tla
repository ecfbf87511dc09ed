---------------------------- MODULE TxRingProofs ----------------------------
(* Proofs about TxRing, for any number of descriptors and of frames.         *)
EXTENDS TxRing, TLAPS

-----------------------------------------------------------------------------
(* Types *)

Calls == [pc : CallPCs, frame : 0..MaxFrames, buffer : Descs, desc : Descs]

LEMMA Constants == N \in Nat \ {0, 1} /\ MaxFrames \in Nat /\ Senders \subseteq {"main", "isr"}
  BY RingAssumption

LEMMA NextIsDesc ==
  ASSUME NEW d \in Descs
  PROVE  NextDesc(d) \in Descs
  BY Constants DEF Descs, NextDesc

LEMMA TypeInit == Init => TypeOK
<1> SUFFICES ASSUME Init PROVE TypeOK
  OBVIOUS
<1>1. 1 \in Descs /\ 0 \in 0..MaxFrames
  BY Constants DEF Descs
<1>2. CallType
  BY <1>1 DEF Init, Idle, CallType, CallPCs
<1>3. DmaType
  BY <1>1 DEF Init, DmaType
<1>4. RingType
  BY <1>1 DEF Init, RingType, Intact, Contents
<1>5. HistoryType
  <2>1. <<>> \in Seq(Frames) /\ <<>> \in Seq(Contents)
    OBVIOUS
  <2> QED BY <1>1, <2>1 DEF Init, HistoryType
<1> QED BY <1>2, <1>3, <1>4, <1>5 DEF TypeOK

(* A context takes one step of its call. *)
LEMMA CallKeeps ==
  ASSUME CallType, NEW k \in Senders, NEW c \in Calls, c.pc # "idle" => c.frame \in Frames,
         call' = [call EXCEPT ![k] = c]
  PROVE  CallType'
<1>1. call' \in [Senders -> Calls]
  BY DEF CallType, Calls
<1>2. \A j \in Senders : call'[j] = (IF j = k THEN c ELSE call[j])
  BY DEF CallType
<1> QED BY <1>1, <1>2 DEF CallType, Calls

LEMMA GoKeeps ==
  ASSUME CallType, NEW k \in Senders, NEW pc \in CallPCs, Go(k, pc), call[k].pc # "idle"
  PROVE  CallType'
<1> DEFINE c == [call[k] EXCEPT !.pc = pc]
<1>1. c \in Calls /\ c.frame \in Frames
  BY DEF CallType, Calls
<1>2. call' = [call EXCEPT ![k] = c]
  BY DEF Go
<1> HIDE DEF c
<1> QED BY <1>1, <1>2, CallKeeps

(* What a call does to the types. *)
LEMMA CallTypeStep ==
  ASSUME TypeOK, NEW k \in Senders, Call(k)
  PROVE  TypeOK'
<1> DEFINE c == [pc |-> "headers", frame |-> frames + 1,
                 buffer |-> DMATxDescToSet, desc |-> DMATxDescToSet]
<1>1. frames + 1 \in Frames /\ frames + 1 \in 0..MaxFrames
  BY Constants DEF Call, TypeOK, HistoryType, Frames
<1>2. c \in Calls /\ c.frame \in Frames
  BY <1>1 DEF Calls, CallPCs, TypeOK, RingType
<1>3. call' = [call EXCEPT ![k] = c]
  BY DEF Call
<1> HIDE DEF c
<1>4. CallType'
  BY <1>2, <1>3, CallKeeps DEF TypeOK
<1>5. full' \in BOOLEAN
  BY DEF Call
<1>6. HistoryType'
  BY <1>1, <1>5 DEF Call, TypeOK, HistoryType
<1>7. RingType' /\ DmaType'
  BY DEF Call, ring, TypeOK, RingType, DmaType
<1> QED BY <1>4, <1>6, <1>7 DEF TypeOK

LEMMA OutputTypeStep ==
  ASSUME TypeOK, NEW k \in Senders, Output(k)
  PROVE  TypeOK'
<1> USE DEF TypeOK
<1>1. call[k] \in Calls /\ (call[k].pc # "idle" => call[k].frame \in Frames)
  BY DEF CallType, Calls
<1>2. CASE CopyHeaders(k)
  <2>1. CallType'
    BY <1>2, GoKeeps DEF CopyHeaders, At, CallPCs
  <2>2. RingType'
    BY <1>1, <1>2 DEF CopyHeaders, RingType, Contents, Calls
  <2> QED BY <1>2, <2>1, <2>2 DEF CopyHeaders, DmaType, HistoryType, history
<1>3. CASE CopyPayload(k)
  <2>1. CallType'
    BY <1>3, GoKeeps DEF CopyPayload, At, CallPCs
  <2>2. RingType'
    BY <1>1, <1>3 DEF CopyPayload, RingType, Contents, Calls
  <2> QED BY <1>3, <2>1, <2>2 DEF CopyPayload, DmaType, HistoryType, history
<1>4. CASE CheckOwn(k)
  <2> DEFINE c == [call[k] EXCEPT !.desc = DMATxDescToSet,
                                  !.pc = IF own[DMATxDescToSet] THEN "return" ELSE "give"]
  <2>1. call' = [call EXCEPT ![k] = c]
    BY <1>4 DEF CheckOwn, CallType
  <2>2. c \in Calls /\ c.frame = call[k].frame /\ call[k].pc # "idle"
    BY <1>1, <1>4 DEF CheckOwn, At, Calls, CallPCs, RingType
  <2> HIDE DEF c
  <2>3. CallType'
    BY <1>1, <2>1, <2>2, CallKeeps
  <2> QED BY <1>4, <2>3 DEF CheckOwn, ring, RingType, DmaType, HistoryType, history
<1>5. CASE GiveToDma(k)
  <2>1. CallType'
    BY <1>5, GoKeeps DEF GiveToDma, At, CallPCs
  <2>2. PICK d \in Descriptor(k) : own' = [own EXCEPT ![d] = TRUE]
    BY <1>5 DEF GiveToDma
  <2>3. RingType'
    BY <1>5, <2>2 DEF GiveToDma, RingType
  <2>4. call[k].frame \in Frames
    BY <1>1, <1>5 DEF GiveToDma, At
  <2>5. HistoryType'
    BY <1>5, <2>4 DEF GiveToDma, HistoryType
  <2> QED BY <1>5, <2>1, <2>3, <2>5 DEF GiveToDma, DmaType
<1>6. CASE Advance(k)
  <2>1. CallType'
    BY <1>6, GoKeeps DEF Advance, At, CallPCs
  <2>2. PICK d \in Descriptor(k) : DMATxDescToSet' = NextDesc(d)
    BY <1>6 DEF Advance
  <2>3. d \in Descs
    BY <1>1 DEF Descriptor, Calls, RingType
  <2>4. RingType'
    BY <1>6, <2>2, <2>3, NextIsDesc DEF Advance, RingType
  <2> QED BY <1>6, <2>1, <2>4 DEF Advance, DmaType, HistoryType, history
<1>7. CASE ResumeDma(k)
  <2>1. CallType'
    BY <1>7, GoKeeps DEF ResumeDma, At, CallPCs
  <2>2. DmaType'
    <3>1. CASE tbus
      <4>1. dma' = [dma EXCEPT !.pc = "poll"] /\ ~tbus'
        BY <1>7, <3>1 DEF ResumeDma
      <4> QED BY <4>1 DEF DmaType
    <3>2. CASE ~tbus
      <4>1. dma' = dma /\ ~tbus'
        BY <1>7, <3>2 DEF ResumeDma
      <4> QED BY <3>2, <4>1 DEF DmaType
    <3> QED BY <3>1, <3>2
  <2> QED BY <1>7, <2>1, <2>2 DEF ResumeDma, ring, RingType, HistoryType, history
<1>8. CASE Return(k)
  <2>1. Idle \in Calls /\ Idle.pc = "idle"
    BY Constants DEF Idle, Calls, CallPCs, Descs
  <2>2. CallType'
    BY <1>8, <2>1, CallKeeps DEF Return
  <2>3. ok' \subseteq Frames
    BY <1>1, <1>8 DEF Return, At, HistoryType
  <2> QED BY <1>8, <2>2, <2>3 DEF Return, ring, RingType, DmaType, HistoryType
<1> QED BY <1>2, <1>3, <1>4, <1>5, <1>6, <1>7, <1>8 DEF Output

LEMMA DmaTypeStep ==
  ASSUME TypeOK, Dma
  PROVE  TypeOK'
<1> USE DEF TypeOK
<1>1. CASE DmaPoll
  <2>1. DmaType'
    <3>1. CASE own[dma.at]
      BY <1>1, <3>1 DEF DmaPoll, DmaType
    <3>2. CASE ~own[dma.at]
      BY <1>1, <3>2 DEF DmaPoll, DmaType
    <3> QED BY <3>1, <3>2
  <2> QED BY <1>1, <2>1 DEF DmaPoll, ring, RingType, CallType, HistoryType, history
<1>2. CASE DmaHeaders
  <2>1. buf[dma.at] \in Contents
    BY DEF RingType, DmaType
  <2>2. buf[dma.at].headers \in 0..MaxFrames
    BY <2>1 DEF Contents
  <2>3. dma' = [dma EXCEPT !.headers = buf[dma.at].headers, !.pc = "payload"] /\ UNCHANGED tbus /\ dma.pc = "headers"
    BY <1>2 DEF DmaHeaders
  <2>4. DmaType'
    BY <2>2, <2>3 DEF DmaType
  <2> QED BY <1>2, <2>4 DEF DmaHeaders, ring, RingType, CallType, HistoryType, history
<1>3. CASE DmaPayload
  <2>1. NextDesc(dma.at) \in Descs /\ 0 \in 0..MaxFrames
    BY NextIsDesc, Constants DEF DmaType
  <2>2. dma' = [at |-> NextDesc(dma.at), pc |-> "poll", headers |-> 0] /\ UNCHANGED tbus /\ dma.pc = "payload"
    BY <1>3 DEF DmaPayload
  <2>3. DmaType'
    BY <2>1, <2>2 DEF DmaType
  <2>4. buf[dma.at] \in Contents
    BY DEF RingType, DmaType
  <2>5. [headers |-> dma.headers, payload |-> buf[dma.at].payload] \in Contents
    BY <2>4 DEF Contents, DmaType
  <2>6. HistoryType'
    BY <1>3, <2>5 DEF DmaPayload, HistoryType
  <2>7. RingType'
    BY <1>3 DEF DmaPayload, RingType
  <2> QED BY <1>3, <2>3, <2>6, <2>7 DEF DmaPayload, CallType
<1> QED BY <1>1, <1>2, <1>3 DEF Dma

LEMMA TypeStep == TypeOK /\ [Next]_vars => TypeOK'
<1> SUFFICES ASSUME TypeOK, [Next]_vars PROVE TypeOK'
  OBVIOUS
<1>1. CASE UNCHANGED vars
  BY <1>1 DEF vars, ring, history, TypeOK, RingType, CallType, DmaType, HistoryType
<1> QED BY <1>1, CallTypeStep, OutputTypeStep, DmaTypeStep DEF Next

(* Theorem: ring, calls and DMA keep their types, whoever calls              *)
(* low_level_output; TBUS is up exactly while the DMA is stopped             *)
(* (stm32f2x7_eth.c:1141-1147).                                              *)
THEOREM TypeCorrect == Spec => []TypeOK
  BY TypeInit, TypeStep, PTL DEF Spec
-----------------------------------------------------------------------------
(* The main loop alone *)

OnlyMain == Senders = {"main"}

main == call["main"]

Pends == Len(accepted) - Len(air)

(* The descriptor n places behind d, and how far d is behind another.         *)
Behind(d, n) == IF d + n > N THEN d + n - N ELSE d + n
Ahead(at, d) == IF d >= at THEN d - at ELSE d - at + N
Offset(d) == Ahead(dma.at, d)

(* Where the frames given to the DMA end. *)
End == IF main.pc = "advance" THEN NextDesc(DMATxDescToSet) ELSE DMATxDescToSet

Filling == {"headers", "payload", "check", "give"}

(* The descriptors of the DMA are the ones of the frames given to it and not *)
(* yet sent, one behind the other.                                           *)
PositionInv ==
  /\ Pends \in 0..N
  /\ End = Behind(dma.at, Pends)
  /\ \A d \in Descs : own[d] <=> Offset(d) < Pends

CallInv ==
  /\ main.pc \in Filling => main.buffer = DMATxDescToSet
  /\ main.pc \in {"give", "advance"} => main.desc = DMATxDescToSet
  /\ main.pc = "give" => ~own[DMATxDescToSet]
  /\ dma.pc \in {"headers", "payload"} => own[dma.at]

RingInv == PositionInv /\ CallInv

(* A buffer is filled while it is the CPU's and holds its frame from then on.*)
DataInv ==
  /\ \A i \in 1..Len(air) : air[i] = Intact(accepted[i])
  /\ \A d \in Descs : own[d] => buf[d] = Intact(accepted[Len(air) + 1 + Offset(d)])
  /\ dma.pc = "payload" => dma.headers = buf[dma.at].headers
  /\ main.pc \in Filling => ~own[DMATxDescToSet]
  /\ main.pc \in {"payload", "check", "give"} => buf[DMATxDescToSet].headers = main.frame
  /\ main.pc \in {"check", "give"} => buf[DMATxDescToSet].payload = main.frame

(* Going round the ring. *)
LEMMA Places ==
  ASSUME NEW at \in Descs, NEW p \in 0..N
  PROVE  /\ Behind(at, p) \in Descs
         /\ p < N => Ahead(at, Behind(at, p)) = p /\ NextDesc(Behind(at, p)) = Behind(at, p + 1)
         /\ p > 0 => Behind(NextDesc(at), p - 1) = Behind(at, p)
         /\ \A d \in Descs : /\ Ahead(at, d) \in 0..(N - 1)
                             /\ Behind(at, Ahead(at, d)) = d
                             /\ d = at <=> Ahead(at, d) = 0
                             /\ Ahead(NextDesc(at), d) =
                                  IF d = at THEN N - 1 ELSE Ahead(at, d) - 1
  BY Constants DEF Descs, Behind, Ahead, NextDesc

(* The types that the ring needs, in one place. *)
LEMMA RingTypes ==
  ASSUME TypeOK, OnlyMain
  PROVE  /\ call \in [Senders -> Calls] /\ main \in Calls /\ "main" \in Senders
         /\ DMATxDescToSet \in Descs /\ dma.at \in Descs /\ own \in [Descs -> BOOLEAN]
         /\ buf \in [Descs -> Contents]
         /\ accepted \in Seq(Frames) /\ Len(accepted) \in Nat
         /\ air \in Seq(Contents) /\ Len(air) \in Nat
         /\ main.pc # "idle" => main.frame \in Frames
  BY DEF TypeOK, RingType, CallType, DmaType, HistoryType, OnlyMain, main, Calls

LEMMA MainGoes ==
  ASSUME TypeOK, OnlyMain, NEW pc, Go("main", pc)
  PROVE  /\ main'.pc = pc /\ main'.frame = main.frame
         /\ main'.buffer = main.buffer /\ main'.desc = main.desc
  BY RingTypes DEF Go, main, Calls

-----------------------------------------------------------------------------
LEMMA PositionInit == Init /\ OnlyMain => RingInv
<1> SUFFICES ASSUME Init, OnlyMain PROVE RingInv
  OBVIOUS
<1>1. main.pc = "idle" /\ Pends = 0 /\ dma.at = 1 /\ dma.pc = "poll" /\ 1 \in Descs
  BY Constants DEF Init, main, OnlyMain, Idle, Pends, Descs
<1>2. End = 1 /\ Behind(1, 0) = 1
  BY <1>1, Constants DEF End, Behind, Init
<1>3. ASSUME NEW d \in Descs PROVE ~own[d] /\ ~(Offset(d) < 0)
  <2>1. Ahead(1, d) \in 0..(N - 1) /\ 0 \in 0..N
    BY <1>1, Constants, Places
  <2>2. Offset(d) \in 0..(N - 1)
    BY <1>1, <2>1 DEF Offset
  <2>3. ~own[d]
    BY DEF Init
  <2> QED BY <2>2, <2>3, Constants
<1> QED BY <1>1, <1>2, <1>3, Constants DEF RingInv, PositionInv, CallInv, Filling

(* A step that moves neither end of the ring. *)
LEMMA PositionKept ==
  ASSUME PositionInv, UNCHANGED <<own, DMATxDescToSet, accepted, air>>, dma'.at = dma.at,
         main'.pc = "advance" <=> main.pc = "advance"
  PROVE  PositionInv'
  BY DEF PositionInv, Pends, End, Offset

LEMMA Gives ==
  ASSUME TypeOK, OnlyMain, RingInv, GiveToDma("main")
  PROVE  RingInv' /\ Pends < N /\ own' = [own EXCEPT ![DMATxDescToSet] = TRUE]
         /\ Offset(DMATxDescToSet) = Pends
<1> DEFINE d0 == DMATxDescToSet
           at == dma.at
           p == Pends
<1>1. main.pc = "give" /\ ~own[d0] /\ main.desc = d0 /\ main.buffer = d0
  BY DEF GiveToDma, At, main, RingInv, CallInv, Filling
<1>2. own' = [own EXCEPT ![d0] = TRUE]
  BY <1>1 DEF GiveToDma, Descriptor, main
<1>3. p \in 0..N /\ d0 = Behind(at, p) /\ at \in Descs /\ d0 \in Descs
  BY <1>1, RingTypes DEF RingInv, PositionInv, End
<1>4. p < N
  <2>1. Ahead(at, d0) \in 0..(N - 1)
    BY <1>3, Places
  <2>2. ~(Ahead(at, d0) < p)
    BY <1>1, <1>3 DEF RingInv, PositionInv, Offset
  <2> QED BY <2>1, <2>2, <1>3, Constants
<1>5. Ahead(at, d0) = p /\ NextDesc(d0) = Behind(at, p + 1)
  BY <1>3, <1>4, Places
<1>6. Pends' = p + 1 /\ p + 1 \in 0..N
  <2>1. Len(accepted') = Len(accepted) + 1 /\ air' = air
    BY <1>1, RingTypes DEF GiveToDma, main
  <2> QED BY <2>1, <1>3, <1>4, Constants, RingTypes DEF Pends
<1>7. main'.pc = "advance" /\ main'.desc = d0 /\ UNCHANGED <<DMATxDescToSet, dma>>
  BY <1>1, MainGoes DEF GiveToDma
<1>8. End' = Behind(at, p + 1)
  BY <1>5, <1>7 DEF End
<1>9. ASSUME NEW d \in Descs PROVE own'[d] <=> Ahead(at, d) < p + 1
  <2>1. Ahead(at, d) \in 0..(N - 1) /\ Behind(at, Ahead(at, d)) = d
    BY <1>3, Places
  <2>2. d = d0 <=> Ahead(at, d) = p
    BY <2>1, <1>3, <1>5
  <2>3. own[d] <=> Ahead(at, d) < p
    BY DEF RingInv, PositionInv, Offset
  <2>4. own'[d] <=> own[d] \/ d = d0
    BY <1>2, RingTypes
  <2> QED BY <2>1, <2>2, <2>3, <2>4, <1>3
<1>10. PositionInv'
  BY <1>6, <1>7, <1>8, <1>9 DEF PositionInv, Offset
<1>11. own[at] => own'[at]
  BY <1>2, RingTypes
<1>12. CallInv'
  BY <1>7, <1>11 DEF RingInv, CallInv, Filling
<1> QED BY <1>2, <1>4, <1>5, <1>10, <1>12 DEF RingInv, Offset

LEMMA Sends ==
  ASSUME TypeOK, OnlyMain, RingInv, DmaPayload
  PROVE  RingInv' /\ Pends > 0 /\ own' = [own EXCEPT ![dma.at] = FALSE]
         /\ dma'.at = NextDesc(dma.at)
<1> DEFINE at == dma.at
           p == Pends
<1>1. /\ own' = [own EXCEPT ![at] = FALSE] /\ dma'.at = NextDesc(at) /\ dma'.pc = "poll"
      /\ UNCHANGED <<DMATxDescToSet, call, accepted>> /\ dma.pc = "payload"
  BY DEF DmaPayload
<1>2. own[at] /\ at \in Descs /\ p \in 0..N /\ End = Behind(at, p)
  BY <1>1, RingTypes DEF RingInv, CallInv, PositionInv
<1>3. p > 0
  <2>1. Ahead(at, at) = 0
    BY <1>2, Places
  <2> QED BY <2>1, <1>2 DEF RingInv, PositionInv, Offset
<1>4. Pends' = p - 1 /\ p - 1 \in 0..N
  <2>1. Len(air') = Len(air) + 1
    BY RingTypes DEF DmaPayload
  <2> QED BY <2>1, <1>1, <1>2, <1>3, Constants, RingTypes DEF Pends
<1>5. End' = Behind(NextDesc(at), p - 1)
  <2>1. End' = End
    BY <1>1 DEF End, main
  <2>2. Behind(NextDesc(at), p - 1) = Behind(at, p)
    BY <1>2, <1>3, Places
  <2> QED BY <2>1, <2>2, <1>2
<1>6. ASSUME NEW d \in Descs PROVE own'[d] <=> Ahead(NextDesc(at), d) < p - 1
  <2>1. /\ Ahead(at, d) \in 0..(N - 1) /\ (d = at <=> Ahead(at, d) = 0)
        /\ Ahead(NextDesc(at), d) = IF d = at THEN N - 1 ELSE Ahead(at, d) - 1
    BY <1>2, Places
  <2>2. own[d] <=> Ahead(at, d) < p
    BY DEF RingInv, PositionInv, Offset
  <2>3. own'[d] <=> own[d] /\ d # at
    BY <1>1, RingTypes
  <2> QED BY <2>1, <2>2, <2>3, <1>2, Constants
<1>7. PositionInv'
  BY <1>1, <1>4, <1>5, <1>6 DEF PositionInv, Offset
<1>8. main'.pc = "give" => ~own'[DMATxDescToSet]
  BY <1>1, RingTypes DEF main, RingInv, CallInv
<1>9. CallInv'
  BY <1>1, <1>8 DEF RingInv, CallInv, main
<1> QED BY <1>1, <1>3, <1>7, <1>9 DEF RingInv

LEMMA RingStep == TypeOK /\ OnlyMain /\ RingInv /\ [Next]_vars => RingInv'
<1> SUFFICES ASSUME TypeOK, OnlyMain, RingInv, [Next]_vars PROVE RingInv'
  OBVIOUS
<1> USE DEF RingInv
<1>1. CASE Call("main")
  <2>1. /\ main'.pc = "headers" /\ main'.buffer = DMATxDescToSet /\ main.pc = "idle"
    BY <1>1, RingTypes DEF Call, At, main
  <2>2. UNCHANGED <<own, DMATxDescToSet, accepted, air, dma>>
    BY <1>1 DEF Call, ring
  <2> QED BY <2>1, <2>2, PositionKept DEF CallInv, Filling
<1>2. CASE CopyHeaders("main")
  <2>1. main.pc = "headers" /\ main'.pc = "payload" /\ main'.buffer = main.buffer
    BY <1>2, MainGoes DEF CopyHeaders, At, main
  <2>2. UNCHANGED <<own, DMATxDescToSet, accepted, air, dma>>
    BY <1>2 DEF CopyHeaders, history
  <2> QED BY <2>1, <2>2, PositionKept DEF CallInv, Filling
<1>3. CASE CopyPayload("main")
  <2>1. main.pc = "payload" /\ main'.pc = "check" /\ main'.buffer = main.buffer
    BY <1>3, MainGoes DEF CopyPayload, At, main
  <2>2. UNCHANGED <<own, DMATxDescToSet, accepted, air, dma>>
    BY <1>3 DEF CopyPayload, history
  <2> QED BY <2>1, <2>2, PositionKept DEF CallInv, Filling
<1>4. CASE CheckOwn("main")
  <2>1. /\ main.pc = "check" /\ main'.buffer = main.buffer /\ main'.desc = DMATxDescToSet
        /\ main'.pc = IF own[DMATxDescToSet] THEN "return" ELSE "give"
    BY <1>4, RingTypes DEF CheckOwn, At, main, Calls
  <2>2. UNCHANGED <<own, DMATxDescToSet, accepted, air, dma>>
    BY <1>4 DEF CheckOwn, ring, history
  <2>3. main'.pc = "give" => ~own[DMATxDescToSet]
    BY <2>1
  <2>4. main'.pc \in {"return", "give"}
    BY <2>1
  <2> QED BY <2>1, <2>2, <2>3, <2>4, PositionKept DEF CallInv, Filling
<1>5. CASE GiveToDma("main")
  BY <1>5, Gives
<1>6. CASE Advance("main")
  <2>1. /\ main.pc = "advance" /\ main'.pc = "resume" /\ main.desc = DMATxDescToSet
    BY <1>6, MainGoes DEF Advance, At, main, CallInv
  <2>2. UNCHANGED <<own, accepted, air, dma>> /\ DMATxDescToSet' = NextDesc(DMATxDescToSet)
    BY <1>6, <2>1 DEF Advance, history, Descriptor, main
  <2>3. End' = End /\ Pends' = Pends
    BY <2>1, <2>2 DEF End, Pends
  <2>4. PositionInv'
    BY <2>2, <2>3 DEF PositionInv, Offset
  <2> QED BY <2>1, <2>2, <2>4 DEF CallInv, Filling
<1>7. CASE ResumeDma("main")
  <2>1. main.pc = "resume" /\ main'.pc = "return"
    BY <1>7, MainGoes DEF ResumeDma, At, main
  <2>2. UNCHANGED <<own, DMATxDescToSet, accepted, air>>
    BY <1>7 DEF ResumeDma, ring, history
  <2>3. dma'.at = dma.at /\ dma'.pc \in {"poll", dma.pc}
    BY <1>7 DEF ResumeDma, TypeOK, DmaType
  <2> QED BY <2>1, <2>2, <2>3, PositionKept DEF CallInv, Filling
<1>8. CASE Return("main")
  <2>1. main.pc = "return" /\ main'.pc = "idle"
    BY <1>8, RingTypes DEF Return, At, main, Idle
  <2>2. UNCHANGED <<own, DMATxDescToSet, accepted, air, dma>>
    BY <1>8 DEF Return, ring
  <2> QED BY <2>1, <2>2, PositionKept DEF CallInv, Filling
<1>9. CASE DmaPoll \/ DmaHeaders
  <2>1. UNCHANGED <<own, DMATxDescToSet, accepted, air, call>>
    BY <1>9 DEF DmaPoll, DmaHeaders, ring, history
  <2>2. dma'.at = dma.at /\ (dma'.pc \in {"headers", "payload"} => own[dma.at])
    BY <1>9 DEF DmaPoll, DmaHeaders, TypeOK, DmaType, CallInv
  <2>3. PositionInv'
    BY <2>1, <2>2, PositionKept DEF main
  <2>4. CallInv'
    BY <2>1, <2>2 DEF CallInv, main
  <2> QED BY <2>3, <2>4
<1>10. CASE DmaPayload
  BY <1>10, Sends
<1>11. CASE UNCHANGED vars
  <2>1. UNCHANGED <<own, DMATxDescToSet, accepted, air, call, dma>>
    BY <1>11 DEF vars, ring, history
  <2>2. PositionInv'
    BY <2>1, PositionKept DEF main
  <2> QED BY <2>1, <2>2 DEF CallInv, main
<1>12. \A k \in Senders : k = "main"
  BY DEF OnlyMain
<1> QED BY <1>1, <1>2, <1>3, <1>4, <1>5, <1>6, <1>7, <1>8, <1>9, <1>10, <1>11, <1>12
        DEF Next, Output, Dma

(* Theorem: as long as only the main loop calls low_level_output, the CPU    *)
(* and the DMA agree on where the ring begins and ends, full or not          *)
(* (stm32f2x7_eth.c:1054-1153).                                              *)
THEOREM RingAgrees == OnlyMain /\ Spec => []RingCoherent
<1>1. TypeOK /\ OnlyMain /\ RingInv => RingCoherent
  <2> SUFFICES ASSUME TypeOK, OnlyMain, RingInv, main.pc # "advance", NEW d \in Descs
               PROVE  own[d] <=> Pending(d)
    BY DEF RingCoherent, OnlyMain, main
  <2>1. own[d] <=> Ahead(dma.at, d) < Pends
    BY DEF RingInv, PositionInv, Offset
  <2>2. Pends \in 0..N /\ DMATxDescToSet = Behind(dma.at, Pends) /\ dma.at \in Descs
    BY RingTypes DEF RingInv, PositionInv, End
  <2>3. own[dma.at] <=> Pends > 0
    BY <2>2, Places DEF RingInv, PositionInv, Offset
  <2> QED BY <2>1, <2>2, <2>3, Constants DEF Pending, Ahead, Behind, Descs
<1> DEFINE I == OnlyMain /\ RingInv
<1>2. OnlyMain /\ Init => I
  BY PositionInit
<1>3. TypeOK /\ I /\ [Next]_vars => I'
  BY RingStep DEF OnlyMain
<1>4. TypeOK /\ I => RingCoherent
  BY <1>1
<1> HIDE DEF I
<1> QED BY <1>2, <1>3, <1>4, TypeCorrect, PTL DEF Spec

-----------------------------------------------------------------------------
(* Contents *)

LEMMA DataInit == Init /\ OnlyMain => DataInv
<1> SUFFICES ASSUME Init, OnlyMain PROVE DataInv
  OBVIOUS
<1>1. main.pc = "idle" /\ dma.pc = "poll" /\ air = <<>> /\ Len(air) = 0
  BY DEF Init, main, OnlyMain, Idle
<1>2. \A d \in Descs : ~own[d]
  BY DEF Init
<1> QED BY <1>1, <1>2 DEF DataInv, Filling

(* A step that touches neither a buffer nor an end of the ring. *)
LEMMA DataKept ==
  ASSUME DataInv, UNCHANGED <<own, buf, DMATxDescToSet, accepted, air, dma>>,
         UNCHANGED main \/ main'.pc \notin Filling
  PROVE  DataInv'
  BY DEF DataInv, Offset, Filling

LEMMA DataStep == TypeOK /\ OnlyMain /\ RingInv /\ DataInv /\ ~full' /\ [Next]_vars => DataInv'
<1> SUFFICES ASSUME TypeOK, OnlyMain, RingInv, DataInv, ~full', [Next]_vars PROVE DataInv'
  OBVIOUS
<1> DEFINE d0 == DMATxDescToSet
<1>t. d0 \in Descs /\ dma.at \in Descs /\ main \in Calls
  BY RingTypes
<1>1. CASE Call("main")
  <2>1. main'.pc = "headers" /\ ~own[d0]
    BY <1>1, RingTypes DEF Call, main
  <2>2. UNCHANGED <<own, buf, DMATxDescToSet, accepted, air, dma>>
    BY <1>1 DEF Call, ring
  <2> QED BY <2>1, <2>2 DEF DataInv, Offset, Filling
<1>2. CASE CopyHeaders("main")
  <2>1. /\ main.pc = "headers" /\ main'.pc = "payload" /\ main'.frame = main.frame
        /\ main.buffer = d0 /\ ~own[d0]
    BY <1>2, MainGoes DEF CopyHeaders, At, main, RingInv, CallInv, DataInv, Filling
  <2>2. UNCHANGED <<own, DMATxDescToSet, accepted, air, dma>>
    BY <1>2 DEF CopyHeaders, history
  <2>3. buf'[d0].headers = main.frame /\ \A d \in Descs : d # d0 => buf'[d] = buf[d]
    BY <1>2, <2>1, <1>t, RingTypes DEF CopyHeaders, Contents, main
  <2>4. dma.pc = "payload" => own[dma.at] /\ dma.at # d0
    BY <2>1 DEF RingInv, CallInv
  <2> QED BY <2>1, <2>2, <2>3, <2>4, <1>t DEF DataInv, Offset, Filling
<1>3. CASE CopyPayload("main")
  <2>1. /\ main.pc = "payload" /\ main'.pc = "check" /\ main'.frame = main.frame
        /\ main.buffer = d0 /\ ~own[d0] /\ buf[d0].headers = main.frame
    BY <1>3, MainGoes DEF CopyPayload, At, main, RingInv, CallInv, DataInv, Filling
  <2>2. UNCHANGED <<own, DMATxDescToSet, accepted, air, dma>>
    BY <1>3 DEF CopyPayload, history
  <2>3. /\ buf'[d0].headers = main.frame /\ buf'[d0].payload = main.frame
        /\ \A d \in Descs : d # d0 => buf'[d] = buf[d]
    BY <1>3, <2>1, <1>t, RingTypes DEF CopyPayload, Contents, main
  <2>4. dma.pc = "payload" => own[dma.at] /\ dma.at # d0
    BY <2>1 DEF RingInv, CallInv
  <2> QED BY <2>1, <2>2, <2>3, <2>4, <1>t DEF DataInv, Offset, Filling
<1>4. CASE CheckOwn("main")
  <2>1. /\ main.pc = "check" /\ ~own[d0] /\ main'.pc = "give" /\ main'.frame = main.frame
        /\ buf[d0].headers = main.frame /\ buf[d0].payload = main.frame
    BY <1>4, RingTypes DEF CheckOwn, At, main, Calls, DataInv, Filling
  <2>2. UNCHANGED <<own, buf, DMATxDescToSet, accepted, air, dma>>
    BY <1>4 DEF CheckOwn, ring, history
  <2> QED BY <2>1, <2>2 DEF DataInv, Offset, Filling
<1>5. CASE GiveToDma("main")
  <2>1. /\ main.pc = "give" /\ main'.pc = "advance"
        /\ buf[d0].headers = main.frame /\ buf[d0].payload = main.frame
    BY <1>5, MainGoes DEF GiveToDma, At, main, DataInv
  <2>2. UNCHANGED <<buf, DMATxDescToSet, air, dma>> /\ accepted' = Append(accepted, main.frame)
    BY <1>5 DEF GiveToDma, main
  <2>3. own' = [own EXCEPT ![d0] = TRUE] /\ Offset(d0) = Pends /\ Pends \in 0..N
    BY <1>5, Gives DEF RingInv, PositionInv
  <2>4. buf[d0] = Intact(main.frame)
    BY <2>1, <1>t, RingTypes DEF Contents, Intact
  <2>5. /\ accepted'[Len(accepted) + 1] = main.frame
        /\ \A i \in 1..Len(accepted) : accepted'[i] = accepted[i]
    BY <2>1, <2>2, RingTypes
  <2>6. Len(air) + 1 + Offset(d0) = Len(accepted) + 1 /\ Len(air) <= Len(accepted)
    BY <2>3, RingTypes, Constants DEF Pends
  <2>7. ASSUME NEW d \in Descs, own'[d]
        PROVE  buf'[d] = Intact(accepted'[Len(air') + 1 + Offset(d)'])
    <3>1. CASE d = d0
      BY <3>1, <2>2, <2>4, <2>5, <2>6 DEF Offset
    <3>2. CASE d # d0
      <4>1. own[d] /\ buf[d] = Intact(accepted[Len(air) + 1 + Offset(d)])
        BY <2>3, <2>7, <3>2, RingTypes DEF DataInv
      <4>2. Offset(d) \in 0..(N - 1) /\ Offset(d) < Pends
        BY <4>1, <1>t, Places DEF RingInv, PositionInv, Offset
      <4>3. Len(air) + 1 + Offset(d) \in 1..Len(accepted)
        BY <4>2, RingTypes, Constants DEF Pends
      <4> QED BY <4>1, <4>3, <2>2, <2>5 DEF Offset
    <3> QED BY <3>1, <3>2
  <2>8. \A i \in 1..Len(air') : air'[i] = Intact(accepted'[i])
    BY <2>2, <2>5, <2>6, RingTypes DEF DataInv
  <2>9. dma'.pc = "payload" => dma'.headers = buf'[dma'.at].headers
    BY <2>2 DEF DataInv
  <2> QED BY <2>1, <2>7, <2>8, <2>9 DEF DataInv, Filling
<1>6. CASE Advance("main")
  <2>1. main'.pc = "resume"
    BY <1>6, MainGoes DEF Advance
  <2>2. UNCHANGED <<own, buf, accepted, air, dma>>
    BY <1>6 DEF Advance, history
  <2> QED BY <2>1, <2>2 DEF DataInv, Offset, Filling
<1>7. CASE ResumeDma("main")
  <2>1. main'.pc = "return"
    BY <1>7, MainGoes DEF ResumeDma
  <2>2. UNCHANGED <<own, buf, DMATxDescToSet, accepted, air>>
    BY <1>7 DEF ResumeDma, ring, history
  <2>3. dma'.at = dma.at /\ dma'.headers = dma.headers /\ (dma'.pc = "payload" => dma.pc = "payload")
    BY <1>7 DEF ResumeDma, TypeOK, DmaType
  <2> QED BY <2>1, <2>2, <2>3 DEF DataInv, Offset, Filling
<1>8. CASE Return("main")
  <2>1. main'.pc = "idle"
    BY <1>8, RingTypes DEF Return, main, Idle
  <2>2. UNCHANGED <<own, buf, DMATxDescToSet, accepted, air, dma>>
    BY <1>8 DEF Return, ring
  <2> QED BY <2>1, <2>2, DataKept DEF Filling
<1>9. CASE DmaPoll \/ DmaHeaders
  <2>1. UNCHANGED <<own, buf, DMATxDescToSet, accepted, air, main>>
    BY <1>9 DEF DmaPoll, DmaHeaders, ring, history, main
  <2>2. dma'.at = dma.at /\ (dma'.pc = "payload" => dma'.headers = buf[dma.at].headers)
    BY <1>9 DEF DmaPoll, DmaHeaders, TypeOK, DmaType
  <2> QED BY <2>1, <2>2 DEF DataInv, Offset, Filling
<1>10. CASE DmaPayload
  <2>1. /\ own' = [own EXCEPT ![dma.at] = FALSE] /\ dma'.at = NextDesc(dma.at)
        /\ Pends > 0 /\ Pends \in 0..N /\ own[dma.at]
    BY <1>10, Sends DEF RingInv, PositionInv, CallInv, DmaPayload
  <2>2. /\ UNCHANGED <<buf, DMATxDescToSet, main, accepted>> /\ dma.pc = "payload" /\ dma'.pc = "poll"
        /\ air' = Append(air, [headers |-> dma.headers, payload |-> buf[dma.at].payload])
    BY <1>10 DEF DmaPayload, main
  <2>3. Offset(dma.at) = 0
    BY <2>1, <1>t, Places DEF Offset
  <2>4. buf[dma.at] = Intact(accepted[Len(air) + 1])
    BY <2>1, <2>3, <1>t, RingTypes DEF DataInv
  <2>5. [headers |-> dma.headers, payload |-> buf[dma.at].payload] = Intact(accepted[Len(air) + 1])
    BY <2>2, <2>4 DEF DataInv, Intact
  <2>6. [headers |-> dma.headers, payload |-> buf[dma.at].payload] \in Contents
    BY <1>t, RingTypes DEF TypeOK, DmaType, Contents
  <2>7. /\ Len(air') = Len(air) + 1 /\ air'[Len(air) + 1] = Intact(accepted[Len(air) + 1])
        /\ \A i \in 1..Len(air) : air'[i] = air[i]
    BY <2>2, <2>5, <2>6, RingTypes
  <2>8. \A i \in 1..Len(air') : air'[i] = Intact(accepted'[i])
    BY <2>2, <2>7, RingTypes DEF DataInv
  <2>9. ASSUME NEW d \in Descs, own'[d]
        PROVE  buf'[d] = Intact(accepted'[Len(air') + 1 + Offset(d)'])
    <3>1. d # dma.at /\ own[d]
      BY <2>1, <2>9, <1>t, RingTypes
    <3>2. Offset(d) \in 0..(N - 1) /\ Offset(d)' = Offset(d) - 1
      BY <3>1, <2>1, <1>t, Places DEF Offset
    <3>3. Len(air') + 1 + Offset(d)' = Len(air) + 1 + Offset(d)
      BY <3>2, <2>7, RingTypes, Constants
    <3> QED BY <3>1, <3>3, <2>2 DEF DataInv
  <2>10. ~own[d0] => ~own'[d0]
    BY <2>1, <1>t, RingTypes
  <2> QED BY <2>2, <2>8, <2>9, <2>10 DEF DataInv
<1>11. CASE UNCHANGED vars
  <2>1. UNCHANGED <<own, buf, DMATxDescToSet, accepted, air, call, dma>>
    BY <1>11 DEF vars, ring, history
  <2> QED BY <2>1, DataKept DEF main
<1>12. \A k \in Senders : k = "main"
  BY DEF OnlyMain
<1> QED BY <1>1, <1>2, <1>3, <1>4, <1>5, <1>6, <1>7, <1>8, <1>9, <1>10, <1>11, <1>12
        DEF Next, Output, Dma

(* A ring that was once full stays so in the history. *)
LEMMA FullStays == TypeOK /\ [Next]_vars /\ ~full' => ~full
<1> SUFFICES ASSUME TypeOK, [Next]_vars, ~full' PROVE ~full
  OBVIOUS
<1>1. ASSUME NEW k \in Senders, Call(k) PROVE ~full
  BY <1>1 DEF Call
<1>2. ASSUME NEW k \in Senders, Output(k) PROVE ~full
  BY <1>2 DEF Output, CopyHeaders, CopyPayload, CheckOwn, GiveToDma, Advance, ResumeDma, Return, history
<1>3. CASE Dma
  BY <1>3 DEF Dma, DmaPoll, DmaHeaders, DmaPayload, history
<1>4. CASE UNCHANGED vars
  BY <1>4 DEF vars, history
<1> QED BY <1>1, <1>2, <1>3, <1>4 DEF Next

(* Theorem: as long as only the main loop calls low_level_output and never   *)
(* met a full ring, frames leave in order and in one piece                   *)
(* (ethernetif.c:147-163).                                                   *)
THEOREM WireIsIntact == OnlyMain /\ Spec => []WireInOrderIntact
<1> DEFINE I == OnlyMain /\ RingInv /\ (~full => DataInv)
<1>1. OnlyMain /\ Init => I
  BY PositionInit, DataInit
<1>2. TypeOK /\ I /\ [Next]_vars => I'
  BY RingStep, DataStep, FullStays DEF OnlyMain
<1>3. TypeOK /\ I => WireInOrderIntact
  <2> SUFFICES ASSUME TypeOK, I, ~full
               PROVE  Len(air) <= Len(accepted) /\ \A i \in 1..Len(air) : air[i] = Intact(accepted[i])
    BY DEF WireInOrderIntact
  <2>1. Len(air) <= Len(accepted)
    BY RingTypes, Constants DEF RingInv, PositionInv, Pends
  <2> QED BY <2>1 DEF DataInv
<1> HIDE DEF I
<1> QED BY <1>1, <1>2, <1>3, TypeCorrect, PTL DEF Spec
-----------------------------------------------------------------------------
(* Wake-ups *)

(* A DMA that finds its descriptor taken back has sent every frame.          *)
LEMMA NothingPends ==
  ASSUME TypeOK, OnlyMain, PositionInv, ~own[dma.at]
  PROVE  Len(air) = Len(accepted)
<1>1. dma.at \in Descs /\ Offset(dma.at) = 0
  <2>1. dma.at \in Descs
    BY RingTypes
  <2>2. 0 \in 0..N
    BY Constants
  <2> QED BY <2>1, <2>2, Places DEF Offset
<1>2. Pends \in 0..N /\ ~(0 < Pends)
  BY <1>1 DEF PositionInv
<1> QED BY <1>2, RingTypes, Constants DEF Pends

LEMMA WakeUpStep ==
  TypeOK /\ OnlyMain /\ RingInv /\ WakeUpNotLost /\ [Next]_vars => WakeUpNotLost'
<1> SUFFICES ASSUME TypeOK, OnlyMain, RingInv, WakeUpNotLost, [Next]_vars,
                    dma'.pc = "suspended", Len(air') < Len(accepted')
             PROVE  main'.pc \in {"advance", "resume"}
  BY DEF WakeUpNotLost, OnlyMain, main
<1>t. TypeOK /\ dma.pc = "suspended" /\ Len(air) < Len(accepted)
        => main.pc \in {"advance", "resume"}
  BY DEF WakeUpNotLost, OnlyMain, main
<1>1. CASE Call("main") \/ Return("main")
  <2>1. UNCHANGED <<dma, air, accepted>> /\ main.pc \in {"idle", "return"}
    BY <1>1 DEF Call, Return, At, main
  <2> QED BY <2>1, <1>t
<1>2. CASE CopyHeaders("main") \/ CopyPayload("main") \/ CheckOwn("main")
  <2>1. UNCHANGED <<dma, air, accepted>> /\ main.pc \in {"headers", "payload", "check"}
    BY <1>2 DEF CopyHeaders, CopyPayload, CheckOwn, At, main, history
  <2> QED BY <2>1, <1>t
<1>3. CASE GiveToDma("main") \/ Advance("main")
  BY <1>3, MainGoes DEF GiveToDma, Advance
<1>4. CASE ResumeDma("main")
  <2>1. tbus <=> dma.pc = "suspended"
    BY DEF TypeOK, DmaType
  <2>2. dma'.pc # "suspended"
    BY <1>4, <2>1 DEF ResumeDma, TypeOK, DmaType
  <2> QED BY <2>2
<1>5. CASE DmaPoll
  <2>1. UNCHANGED <<air, accepted>> /\ ~own[dma.at]
    BY <1>5 DEF DmaPoll, history, TypeOK, DmaType
  <2>2. Len(air) = Len(accepted)
    BY <2>1, NothingPends DEF RingInv
  <2> QED BY <2>1, <2>2, RingTypes
<1>6. CASE DmaHeaders \/ DmaPayload
  <2>1. dma'.pc # "suspended"
    <3>1. CASE DmaHeaders
      BY <3>1 DEF DmaHeaders, TypeOK, DmaType
    <3>2. CASE DmaPayload
      BY <3>2 DEF DmaPayload
    <3> QED BY <1>6, <3>1, <3>2
  <2> QED BY <2>1
<1>7. CASE UNCHANGED vars
  BY <1>7, <1>t DEF vars, history, main
<1>8. CASE Next
  <2>1. \A k \in Senders : k = "main"
    BY DEF OnlyMain
  <2>2. Call("main") \/ Output("main") \/ Dma
    BY <1>8, <2>1 DEF Next
  <2> QED BY <1>1, <1>2, <1>3, <1>4, <1>5, <1>6, <2>2 DEF Output, Dma
<1> QED BY <1>7, <1>8

(* Theorem: as long as only the main loop calls low_level_output, a DMA that *)
(* has stopped while frames wait for it is about to be told, full ring or    *)
(* not (stm32f2x7_eth.c:1141-1147).                                          *)
THEOREM DmaIsWoken == OnlyMain /\ Spec => []WakeUpNotLost
<1> DEFINE I == OnlyMain /\ RingInv /\ WakeUpNotLost
<1>1. OnlyMain /\ Init => I
  <2>1. Init => WakeUpNotLost
    BY DEF Init, WakeUpNotLost
  <2> QED BY <2>1, PositionInit
<1>2. TypeOK /\ I /\ [Next]_vars => I'
  BY RingStep, WakeUpStep DEF OnlyMain
<1>3. I => WakeUpNotLost
  OBVIOUS
<1> HIDE DEF I
<1> QED BY <1>1, <1>2, <1>3, TypeCorrect, PTL DEF Spec
=============================================================================

---------------------------- MODULE RxPathProofs ----------------------------
(* Proofs about RxPath: the ring of receive descriptors, for any number of   *)
(* them and whatever the frames carry; then the pbufs and the list of        *)
(* incomplete datagrams, for any datagrams and any bounds of the build.      *)
EXTENDS RxPath, FiniteSetTheorems, FunctionTheorems, SequenceTheorems, WellFoundedInduction, TLAPS

-----------------------------------------------------------------------------
(* Places in the ring and numbers of frames, without remainders *)

Off(t, d) == IF d >= t THEN d - t ELSE d - t + N
After(t, k) == IF t + k <= N THEN t + k ELSE t + k - N
Num(n, i) == IF n + i < 2 * N THEN n + i ELSE n + i - 2 * N

(* There is a descriptor.                                                    *)
LEMMA Size == N \in Nat /\ N > 0
  BY PoolAssumption

(* The number behind n, without a remainder.                                 *)
LEMMA Numbered ==
  ASSUME NEW n \in Numbers
  PROVE  NextNumber(n) = Num(n, 1) /\ Num(n, 1) \in Numbers /\ Num(n, 0) = n
<1>1. n \in 0..(2 * N - 1) /\ 2 * N \in Nat /\ 2 * N > 1
  BY Size DEF Numbers
<1>2. ASSUME NEW m \in Nat, m > 1, n \in 0..(m - 1)
      PROVE  (n + 1) % m = (IF n + 1 < m THEN n + 1 ELSE n + 1 - m)
  <2>1. CASE n + 1 < m
    BY <1>2, <2>1
  <2>2. CASE n + 1 = m
    <3>1. m % m = 0
      BY <1>2
    <3> QED BY <1>2, <2>2, <3>1
  <2> QED BY <1>2, <2>1, <2>2
<1>3. (n + 1) % (2 * N) = (IF n + 1 < 2 * N THEN n + 1 ELSE n + 1 - 2 * N)
  BY <1>1, <1>2
<1> QED BY <1>1, <1>3, Size DEF NextNumber, Num, Numbers

(* Numbers that follow each other.                                           *)
LEMMA NumberOf ==
  ASSUME NEW b \in Numbers, NEW i \in 0..N
  PROVE  /\ Num(b, i) \in Numbers
         /\ i < N => Num(Num(b, i), 1) = Num(b, i + 1) /\ Num(Num(b, 1), i) = Num(b, i + 1)
  BY Size DEF Num, Numbers

(* Places that follow each other.                                            *)
LEMMA AfterOf ==
  ASSUME NEW t \in Descs, NEW k \in 0..N
  PROVE  /\ After(t, k) \in Descs
         /\ k < N => /\ Off(t, After(t, k)) = k
                     /\ NextDesc(After(t, k)) = After(t, k + 1)
                     /\ After(NextDesc(t), k) = After(t, k + 1)
  BY Size DEF After, Off, Descs, NextDesc

(* How far a place is from another.                                          *)
LEMMA OffsetOf ==
  ASSUME NEW t \in Descs, NEW d \in Descs
  PROVE  /\ Off(t, d) \in 0..(N - 1) /\ NextDesc(t) \in Descs
         /\ Off(t, d) = 0 <=> d = t
         /\ d # t => Off(NextDesc(t), d) = Off(t, d) - 1
         /\ Off(NextDesc(t), t) = N - 1
         /\ d = After(t, Off(t, d))
  BY Size DEF After, Off, Descs, NextDesc

-----------------------------------------------------------------------------
(* The ring *)

(* The oldest descriptor the main loop has not given back, and the number of *)
(* the frame that is or will be in it.                                       *)
Oldest == IF pc \in {"copy", "release"} THEN desc ELSE DMARxDescToGet
First == IF pc = "release" THEN fetched ELSE Num(fetched, 1)

RingType ==
  /\ own \in [Descs -> BOOLEAN] /\ slot \in [Descs -> Numbers]
  /\ DMARxDescToGet \in Descs /\ desc \in Descs
  /\ dma \in [at : Descs, pc : {"poll", "armed", "suspended"}]
  /\ stored \in Numbers /\ fetched \in Numbers

(* Of the k frames in the ring the first is at t and has number b; they      *)
(* follow each other up to the descriptor the DMA is at.                     *)
Frames(t, b, k) ==
  /\ dma.at = After(t, k)
  /\ Num(stored, 1) = Num(b, k)
  /\ \A d \in Descs : own[d] <=> Off(t, d) >= k
  /\ \A d \in Descs : Off(t, d) < k => slot[d] = Num(b, Off(t, d))

RingInv ==
  /\ RingType
  /\ \E k \in 0..N : Frames(Oldest, First, k)
  /\ dma.pc = "armed" => own[dma.at]
  /\ pc \in {"get", "copy", "release"} => ~own[Oldest]
  /\ pc \in {"copy", "release"} => DMARxDescToGet = NextDesc(desc)
  /\ pc = "release" => fetched = slot[desc]

(* The first of the frames has a place and a number.                         *)
LEMMA TailTyped ==
  ASSUME RingType
  PROVE  Oldest \in Descs /\ First \in Numbers
  BY Numbered DEF RingType, Oldest, First

(* The DMA fills the descriptor behind the frames.                           *)
LEMMA OneMore ==
  ASSUME RingType, NEW t \in Descs, NEW b \in Numbers, NEW k \in 0..N, Frames(t, b, k),
         own[dma.at], DmaStore
  PROVE  k + 1 \in 0..N /\ Frames(t, b, k + 1)'
<1>1. k < N
  <2>1. Off(t, dma.at) \in 0..(N - 1) /\ Off(t, dma.at) >= k
    BY OffsetOf DEF RingType, Frames
  <2> QED BY <2>1, Size
<1>2. dma.at = After(t, k) /\ Off(t, dma.at) = k /\ NextDesc(dma.at) = After(t, k + 1)
  BY <1>1, AfterOf DEF Frames
<1>3. /\ stored' = Num(stored, 1) /\ slot' = [slot EXCEPT ![dma.at] = stored']
      /\ own' = [own EXCEPT ![dma.at] = FALSE] /\ dma'.at = NextDesc(dma.at)
  BY Numbered DEF DmaStore, RingType
<1>4. stored' = Num(b, k) /\ Num(stored', 1) = Num(b, k + 1)
  BY <1>1, <1>3, NumberOf DEF Frames
<1>5. ASSUME NEW d \in Descs
      PROVE  /\ own'[d] <=> Off(t, d) >= k + 1
             /\ Off(t, d) < k + 1 => slot'[d] = Num(b, Off(t, d))
  <2>0. Off(t, d) \in 0..(N - 1) /\ k \in Nat
    BY OffsetOf
  <2>1. CASE d = dma.at
    <3>1. ~own'[d] /\ slot'[d] = Num(b, k) /\ Off(t, d) = k
      BY <1>2, <1>3, <1>4, <2>1 DEF RingType
    <3> QED BY <2>0, <3>1
  <2>2. CASE d # dma.at
    <3>1. (own'[d] <=> own[d]) /\ slot'[d] = slot[d]
      BY <1>3, <2>2 DEF RingType
    <3>2. Off(t, d) # k
      BY <1>2, <2>2, OffsetOf
    <3>3. (own[d] <=> Off(t, d) >= k) /\ (Off(t, d) < k => slot[d] = Num(b, Off(t, d)))
      BY DEF Frames
    <3>4. (Off(t, d) >= k <=> Off(t, d) >= k + 1) /\ (Off(t, d) < k <=> Off(t, d) < k + 1)
      BY <2>0, <3>2
    <3> QED BY <3>1, <3>3, <3>4
  <2> QED BY <2>1, <2>2
<1> QED BY <1>1, <1>2, <1>3, <1>4, <1>5, Size DEF Frames

(* The main loop gives the first of the frames back.                         *)
LEMMA OneLess ==
  ASSUME RingType, NEW t \in Descs, NEW b \in Numbers, NEW k \in 0..N, Frames(t, b, k),
         ~own[t], own' = [own EXCEPT ![t] = TRUE], UNCHANGED <<slot, dma, stored>>
  PROVE  k - 1 \in 0..N /\ Frames(NextDesc(t), Num(b, 1), k - 1)'
<1>1. k > 0 /\ k - 1 \in 0..N /\ k - 1 < N
  <2>1. Off(t, t) = 0 /\ k \in Nat
    BY OffsetOf
  <2> QED BY <2>1, Size DEF Frames
<1>2. dma'.at = After(NextDesc(t), k - 1)
  <2>1. After(NextDesc(t), k - 1) = After(t, k - 1 + 1) /\ k - 1 + 1 = k
    BY <1>1, AfterOf
  <2> QED BY <2>1 DEF Frames
<1>3. Num(stored', 1) = Num(Num(b, 1), k - 1)
  <2>1. Num(Num(b, 1), k - 1) = Num(b, k - 1 + 1) /\ k - 1 + 1 = k
    BY <1>1, NumberOf
  <2> QED BY <2>1 DEF Frames
<1>4. ASSUME NEW d \in Descs
      PROVE  /\ own'[d] <=> Off(NextDesc(t), d) >= k - 1
             /\ Off(NextDesc(t), d) < k - 1 => slot'[d] = Num(Num(b, 1), Off(NextDesc(t), d))
  <2>0. Off(t, d) \in 0..(N - 1) /\ k \in 0..N
    BY OffsetOf
  <2>1. CASE d = t
    <3>1. own'[d] /\ Off(NextDesc(t), d) = N - 1
      BY <2>1, OffsetOf DEF RingType
    <3> QED BY <1>1, <2>0, <3>1, Size
  <2>2. CASE d # t
    <3>1. (own'[d] <=> own[d]) /\ slot'[d] = slot[d]
      BY <2>2 DEF RingType
    <3>2. Off(NextDesc(t), d) = Off(t, d) - 1 /\ Off(t, d) # 0
      BY <2>2, OffsetOf
    <3>3. (own[d] <=> Off(t, d) >= k) /\ (Off(t, d) < k => slot[d] = Num(b, Off(t, d)))
      BY DEF Frames
    <3>4. Off(t, d) - 1 \in 0..N /\ Off(t, d) - 1 < N
      BY <2>0, <3>2, Size
    <3>5. Num(Num(b, 1), Off(t, d) - 1) = Num(b, Off(t, d) - 1 + 1) /\ Off(t, d) - 1 + 1 = Off(t, d)
      BY <2>0, <3>4, NumberOf
    <3>6. (Off(t, d) >= k <=> Off(t, d) - 1 >= k - 1) /\ (Off(t, d) < k <=> Off(t, d) - 1 < k - 1)
      BY <2>0
    <3> QED BY <3>1, <3>2, <3>3, <3>5, <3>6
  <2> QED BY <2>1, <2>2
<1> QED BY <1>1, <1>2, <1>3, <1>4 DEF Frames

(* The frames behind a step that says where the first is.                    *)
LEMMA NextFrames ==
  ASSUME NEW t, NEW b, NEW k \in 0..N, Frames(t, b, k)', Oldest' = t, First' = b
  PROVE  (\E j \in 0..N : Frames(Oldest, First, j))'
  BY DEF Frames

Busy == {"get", "copy", "release"}

(* A step that neither moves the ring nor the place in it.                   *)
LEMMA RingKept ==
  ASSUME RingInv, UNCHANGED <<own, slot, DMARxDescToGet, stored, desc, fetched>>,
         dma'.at = dma.at, dma' \in [at : Descs, pc : {"poll", "armed", "suspended"}],
         dma'.pc = "armed" => own[dma.at],
         pc' = pc \/ (pc \notin Busy /\ (pc' \notin Busy \/ (pc' = "get" /\ ~own[DMARxDescToGet])))
  PROVE  RingInv'
<1>1. RingType'
  BY DEF RingInv, RingType
<1>2. Oldest' = Oldest /\ First' = First
  BY DEF Oldest, First, Busy
<1>3. (\E k \in 0..N : Frames(Oldest, First, k))'
  BY <1>2 DEF RingInv, Frames
<1>4. /\ (dma.pc = "armed" => own[dma.at])'
      /\ (pc \in Busy => ~own[Oldest])'
  BY <1>2 DEF RingInv, Busy, Oldest
<1>5. /\ (pc \in {"copy", "release"} => DMARxDescToGet = NextDesc(desc))'
      /\ (pc = "release" => fetched = slot[desc])'
  BY DEF RingInv, Busy, NextDesc
<1> QED BY <1>1, <1>3, <1>4, <1>5 DEF RingInv, Busy

(* The steps of IP and of process_incoming_rf stay away from the ring.       *)
LEMMA OtherSteps ==
  ASSUME \/ Input \/ MakeRoom \/ RoomMade \/ MakeEntry \/ EntryMade \/ Enqueue \/ Deliver
         \/ NoPacket \/ AllocPacket \/ SendPacket
  PROVE  UNCHANGED <<ring, hardware, desc, fetched>> /\ pc \notin Busy /\ pc' \notin Busy
<1>1. Drop => pc' = "radio"
  BY DEF Drop
<1>2. RemoveOldest => pc' \in {pc, "room made", "entry made", "broken list"}
  BY DEF RemoveOldest
<1>3. Chain => pc' \in {"radio", "deliver"}
  BY DEF Chain, ThrowAway, Keep, HandUp
<1>4. CASE Input \/ RoomMade \/ EntryMade
  BY <1>1, <1>4 DEF Input, RoomMade, EntryMade, Busy
<1>5. CASE MakeRoom \/ MakeEntry
  BY <1>1, <1>2, <1>5 DEF MakeRoom, MakeEntry, Busy
<1>6. CASE Enqueue
  BY <1>3, <1>6 DEF Enqueue, Busy
<1>7. CASE Deliver \/ NoPacket \/ AllocPacket \/ SendPacket
  BY <1>7 DEF Deliver, NoPacket, AllocPacket, SendPacket, Busy
<1> QED BY <1>4, <1>5, <1>6, <1>7

(* It is kept by every step.                                                 *)
LEMMA RingStep == RingInv /\ [Next]_vars => RingInv'
<1> SUFFICES ASSUME RingInv, [Next]_vars PROVE RingInv'
  OBVIOUS
<1>t. RingType /\ Oldest \in Descs /\ First \in Numbers
  BY TailTyped DEF RingInv
<1> PICK t \in Descs : t = Oldest
  BY <1>t
<1> PICK b \in Numbers : b = First
  BY <1>t
<1> PICK k \in 0..N : Frames(t, b, k)
  BY DEF RingInv
<1>1. CASE DmaPoll
  <2>1. /\ UNCHANGED <<own, slot, DMARxDescToGet, stored, desc, fetched, pc>>
        /\ dma'.at = dma.at /\ dma' \in [at : Descs, pc : {"poll", "armed", "suspended"}]
        /\ dma'.pc = "armed" => own[dma.at]
    BY <1>1, <1>t DEF DmaPoll, ring, RingType
  <2> QED BY <2>1, RingKept
<1>2. CASE DmaStore
  <2>1. dma.pc = "armed" /\ own[dma.at] /\ dma.at \in Descs
    BY <1>2, <1>t DEF DmaStore, RingInv, RingType
  <2>2. k + 1 \in 0..N /\ Frames(t, b, k + 1)'
    BY <1>2, <1>t, <2>1, OneMore
  <2>3. /\ stored' = Num(stored, 1) /\ slot' = [slot EXCEPT ![dma.at] = stored']
        /\ own' = [own EXCEPT ![dma.at] = FALSE]
        /\ dma' = [at |-> NextDesc(dma.at), pc |-> "poll"]
        /\ UNCHANGED <<DMARxDescToGet, desc, pc, fetched>>
    BY <1>2, <1>t, Numbered DEF DmaStore, RingType
  <2>4. Oldest' = t /\ First' = b
    BY <2>3 DEF Oldest, First
  <2>5. RingType'
    <3>1. stored' \in Numbers /\ NextDesc(dma.at) \in Descs
      BY <1>t, <2>1, <2>3, Numbered, OffsetOf DEF RingType
    <3> QED BY <2>3, <3>1, <1>t DEF RingType
  <2>6. (\E j \in 0..N : Frames(Oldest, First, j))'
    BY <2>2, <2>4, NextFrames
  <2>7. (pc \in Busy => ~own[Oldest])'
    <3>1. pc \in Busy => ~own[Oldest]
      BY DEF RingInv, Busy
    <3> QED BY <2>3, <2>4, <3>1, <1>t DEF RingType
  <2>8. (pc = "release" => fetched = slot[desc])'
    <3>1. pc = "release" => fetched = slot[desc] /\ ~own[desc]
      BY DEF RingInv, Oldest
    <3> QED BY <2>1, <2>3, <3>1, <1>t DEF RingType
  <2>9. (pc \in {"copy", "release"} => DMARxDescToGet = NextDesc(desc))'
    BY <2>3 DEF RingInv, NextDesc
  <2>10. dma'.pc # "armed"
    BY <2>3
  <2> QED BY <2>5, <2>6, <2>7, <2>8, <2>9, <2>10 DEF RingInv, Busy
<1>3. CASE DmaNextFrame \/ ResumeReception
  <2>1. /\ UNCHANGED <<own, slot, DMARxDescToGet, stored, desc, fetched>>
        /\ dma'.at = dma.at /\ dma' \in [at : Descs, pc : {"poll", "armed", "suspended"}]
        /\ dma'.pc = "armed" => dma.pc = "armed"
        /\ pc' = pc \/ (pc = "resume" /\ pc' \in {"radio", "input"})
    BY <1>3, <1>t DEF DmaNextFrame, ResumeReception, ring, RingType
  <2>2. dma.pc = "armed" => own[dma.at]
    BY DEF RingInv
  <2> QED BY <2>1, <2>2, RingKept DEF Busy
<1>4. CASE CheckFrameReceived
  <2>1. /\ UNCHANGED <<own, slot, DMARxDescToGet, stored, desc, fetched, dma>>
        /\ pc = "check" /\ (pc' = "radio" \/ (pc' = "get" /\ ~own[DMARxDescToGet]))
    BY <1>4 DEF CheckFrameReceived, ring, hardware
  <2>2. (dma.pc = "armed" => own[dma.at]) /\ dma \in [at : Descs, pc : {"poll", "armed", "suspended"}]
    BY <1>t DEF RingInv, RingType
  <2> QED BY <2>1, <2>2, RingKept DEF Busy
<1>5. CASE GetReceivedFrame
  <2>1. /\ pc = "get" /\ pc' = "copy" /\ desc' = DMARxDescToGet
        /\ DMARxDescToGet' = NextDesc(DMARxDescToGet)
        /\ UNCHANGED <<own, slot, dma, stored, fetched>>
    BY <1>5 DEF GetReceivedFrame, hardware
  <2>2. RingType'
    BY <2>1, <1>t, OffsetOf DEF RingType
  <2>3. Oldest' = t /\ First' = b
    BY <2>1 DEF Oldest, First
  <2>4. Frames(t, b, k)'
    BY <2>1 DEF Frames
  <2>5. ~own[Oldest]
    BY <2>1 DEF RingInv
  <2>6. (DMARxDescToGet = NextDesc(desc))'
    BY <2>1 DEF NextDesc
  <2> QED BY <2>1, <2>2, <2>3, <2>4, <2>5, <2>6, NextFrames DEF RingInv
<1>6. CASE CopyFrame
  <2>1. /\ pc = "copy" /\ pc' = "release" /\ fetched' = slot[desc]
        /\ UNCHANGED <<own, slot, DMARxDescToGet, dma, stored, desc>>
    BY <1>6 DEF CopyFrame, ring, hardware
  <2>2. RingType'
    BY <2>1, <1>t DEF RingType
  <2>3. t = desc /\ ~own[t] /\ Off(t, t) = 0
    BY <2>1, OffsetOf DEF RingInv, Oldest
  <2>4. slot[desc] = Num(b, 0) /\ Num(b, 0) = b
    BY <2>3, Numbered DEF Frames
  <2>5. Oldest' = t /\ First' = b
    BY <2>1, <2>3, <2>4 DEF Oldest, First
  <2>6. Frames(t, b, k)'
    BY <2>1 DEF Frames
  <2>7. (DMARxDescToGet = NextDesc(desc))'
    BY <2>1 DEF RingInv, NextDesc
  <2> QED BY <2>1, <2>2, <2>3, <2>5, <2>6, <2>7, NextFrames DEF RingInv
<1>7. CASE ReleaseDescriptor
  <2>1. /\ pc = "release" /\ pc' = "resume" /\ own' = [own EXCEPT ![desc] = TRUE]
        /\ UNCHANGED <<slot, DMARxDescToGet, dma, stored, desc, fetched>>
    BY <1>7 DEF ReleaseDescriptor, hardware
  <2>2. RingType'
    BY <2>1, <1>t DEF RingType
  <2>3. t = desc /\ ~own[t] /\ b = fetched /\ DMARxDescToGet = NextDesc(t)
    BY <2>1 DEF RingInv, Oldest, First
  <2>4. k - 1 \in 0..N /\ Frames(NextDesc(t), Num(b, 1), k - 1)'
    BY <2>1, <2>3, <1>t, OneLess
  <2>5. Oldest' = NextDesc(t) /\ First' = Num(b, 1)
    BY <2>1, <2>3 DEF Oldest, First
  <2>6. (\E j \in 0..N : Frames(Oldest, First, j))'
    BY <2>4, <2>5, NextFrames
  <2>7. (dma.pc = "armed" => own[dma.at])'
    BY <2>1, <1>t DEF RingInv, RingType
  <2> QED BY <2>1, <2>2, <2>6, <2>7 DEF RingInv
<1>8. CASE \/ Input \/ MakeRoom \/ RoomMade \/ MakeEntry \/ EntryMade \/ Enqueue \/ Deliver
           \/ NoPacket \/ AllocPacket \/ SendPacket
  <2>1. UNCHANGED <<ring, hardware, desc, fetched>> /\ pc \notin Busy /\ pc' \notin Busy
    BY <1>8, OtherSteps
  <2>2. (dma.pc = "armed" => own[dma.at]) /\ dma \in [at : Descs, pc : {"poll", "armed", "suspended"}]
    BY <1>t DEF RingInv, RingType
  <2>3. UNCHANGED <<own, slot, DMARxDescToGet, stored, desc, fetched, dma>>
    BY <2>1 DEF ring, hardware
  <2> QED BY <2>1, <2>2, <2>3, RingKept
<1>9. CASE UNCHANGED vars
  <2>1. UNCHANGED <<own, slot, DMARxDescToGet, stored, desc, fetched, dma, pc>>
    BY <1>9 DEF vars, ring, hardware
  <2>2. (dma.pc = "armed" => own[dma.at]) /\ dma \in [at : Descs, pc : {"poll", "armed", "suspended"}]
    BY <1>t DEF RingInv, RingType
  <2> QED BY <2>1, <2>2, RingKept
<1> QED BY <1>1, <1>2, <1>3, <1>4, <1>5, <1>6, <1>7, <1>8, <1>9 DEF Next, MainLoop, Dma

(* It holds at the start.                                                    *)
LEMMA RingInit == Init => RingInv
<1> SUFFICES ASSUME Init PROVE RingInv
  OBVIOUS
<1>1. 1 \in Descs /\ 0 \in Numbers /\ 0 \in 0..N
  BY Size DEF Descs, Numbers
<1>2. RingType
  BY <1>1 DEF Init, RingType
<1>3. Oldest = 1 /\ First = Num(0, 1) /\ First \in Numbers /\ stored = 0
  BY <1>1, Numbered DEF Init, Oldest, First
<1>4. After(1, 0) = 1 /\ \A d \in Descs : Off(1, d) >= 0
  <2>1. After(1, 0) = 1
    BY Size DEF After
  <2>2. ASSUME NEW d \in Descs PROVE Off(1, d) >= 0
    BY Size DEF Off, Descs
  <2> QED BY <2>1, <2>2
<1>5. Num(First, 0) = First
  BY <1>3, Numbered
<1>6. \A d \in Descs : ~(Off(1, d) < 0)
  BY <1>4, <1>1, OffsetOf
<1>7. \A d \in Descs : own[d]
  BY DEF Init
<1>8. dma.at = 1 /\ dma.pc = "poll" /\ pc = "check"
  BY DEF Init
<1>9. Frames(Oldest, First, 0)
  BY <1>3, <1>4, <1>5, <1>6, <1>7, <1>8 DEF Frames
<1> QED BY <1>1, <1>2, <1>8, <1>9 DEF RingInv

(* The main loop copies the frames in the order the DMA stored them, leaves  *)
(* none out, and never copies from a buffer the DMA may write, wherever the  *)
(* DMA comes in between: for any number of descriptors and any frames.       *)
THEOREM FramesFollow == Spec => []FramesInOrder
<1>1. RingInv => FramesInOrder
  <2> SUFFICES ASSUME RingInv, pc = "copy"
               PROVE  ~own[desc] /\ slot[desc] = NextNumber(fetched)
    BY DEF FramesInOrder
  <2>1. ~own[desc] /\ desc \in Descs /\ fetched \in Numbers
    BY DEF RingInv, RingType, Oldest
  <2>2. Oldest = desc /\ First = Num(fetched, 1) /\ First \in Numbers
    BY <2>1, Numbered DEF Oldest, First
  <2>3. PICK k \in 0..N : Frames(desc, First, k)
    BY <2>2 DEF RingInv
  <2>4. Off(desc, desc) = 0
    BY <2>1, OffsetOf
  <2>5. slot[desc] = Num(First, 0)
    BY <2>1, <2>3, <2>4 DEF Frames
  <2>6. Num(First, 0) = NextNumber(fetched)
    BY <2>1, <2>2, Numbered
  <2> QED BY <2>1, <2>5, <2>6
<1> QED BY <1>1, RingInit, RingStep, PTL DEF Spec

(* What of the wake-ups does not follow from the places of the frames. *)
SleepInv == dma.pc = "suspended" /\ own[dma.at] => pc = "resume" /\ rbus

(* RBUS stays up as long as the DMA has stopped and descriptors lack. *)
FlagInv == dma.pc = "suspended" => rbus

LEMMA SleepStep == RingType /\ FlagInv /\ SleepInv /\ [Next]_vars => FlagInv' /\ SleepInv'
<1> SUFFICES ASSUME RingType, FlagInv, SleepInv, [Next]_vars
             PROVE  FlagInv' /\ SleepInv'
  OBVIOUS
<1> USE DEF FlagInv, SleepInv
<1>1. CASE DmaPoll \/ DmaStore \/ DmaNextFrame
  BY <1>1 DEF DmaPoll, DmaStore, DmaNextFrame, RingType, ring
<1>2. CASE CheckFrameReceived \/ GetReceivedFrame \/ CopyFrame
  <2>1. UNCHANGED <<own, dma, rbus>> /\ pc # "resume"
    BY <1>2 DEF CheckFrameReceived, GetReceivedFrame, CopyFrame, ring, hardware
  <2> QED BY <2>1
<1>3. CASE ReleaseDescriptor
  BY <1>3 DEF ReleaseDescriptor, hardware
<1>4. CASE ResumeReception
  <2>1. dma'.pc # "suspended"
    BY <1>4 DEF ResumeReception, RingType
  <2> QED BY <2>1
<1>5. CASE \/ Input \/ MakeRoom \/ RoomMade \/ MakeEntry \/ EntryMade \/ Enqueue \/ Deliver
           \/ NoPacket \/ AllocPacket \/ SendPacket
  <2>1. UNCHANGED <<own, dma, rbus>>
    BY <1>5, OtherSteps DEF ring, hardware
  <2>2. pc # "resume"
    BY <1>5 DEF Input, MakeRoom, RoomMade, MakeEntry, EntryMade, Enqueue, Deliver,
                NoPacket, AllocPacket, SendPacket
  <2> QED BY <2>1, <2>2
<1>6. CASE UNCHANGED vars
  BY <1>6 DEF vars, ring, hardware
<1> QED BY <1>1, <1>2, <1>3, <1>4, <1>5, <1>6 DEF Next, MainLoop, Dma

(* A DMA at a descriptor it does not own has the ring full of frames.        *)
LEMMA FullRing ==
  ASSUME RingInv, pc = "check", ~own[dma.at]
  PROVE  ~own[DMARxDescToGet]
<1>1. RingType /\ DMARxDescToGet \in Descs /\ dma.at \in Descs /\ Oldest = DMARxDescToGet
  BY DEF RingInv, RingType, Oldest
<1>2. PICK k \in 0..N : Frames(DMARxDescToGet, First, k)
  BY <1>1 DEF RingInv
<1>3. Off(DMARxDescToGet, dma.at) \in 0..(N - 1) /\ Off(DMARxDescToGet, dma.at) < k
  <2>1. Off(DMARxDescToGet, dma.at) \in 0..(N - 1)
    BY <1>1, OffsetOf
  <2>2. ~(Off(DMARxDescToGet, dma.at) >= k)
    BY <1>1, <1>2 DEF Frames
  <2> QED BY <2>1, <2>2, Size
<1>4. Off(DMARxDescToGet, DMARxDescToGet) = 0
  BY <1>1, OffsetOf
<1>5. ~(0 >= k)
  BY <1>3, Size
<1> QED BY <1>1, <1>2, <1>4, <1>5 DEF Frames

(* Theorem: for any number of descriptors, a DMA that has stopped at a       *)
(* descriptor given back since is about to be told, and one that waits for   *)
(* its descriptor waits for a frame the main loop finds at its next look     *)
(* (ethernetif.c:214-232).                             *)
THEOREM DmaIsWoken == Spec => []WakeUpNotLost
<1> DEFINE I == RingInv /\ FlagInv /\ SleepInv
<1>1. Init => I
  <2>1. Init => FlagInv /\ SleepInv
    BY DEF Init, FlagInv, SleepInv
  <2> QED BY <2>1, RingInit
<1>2. I /\ [Next]_vars => I'
  BY RingStep, SleepStep DEF RingInv
<1>3. I => WakeUpNotLost
  <2> SUFFICES ASSUME RingInv, SleepInv, dma.pc = "suspended"
               PROVE  /\ own[dma.at] => pc = "resume" /\ rbus
                      /\ pc = "check" => ~own[DMARxDescToGet]
    BY DEF WakeUpNotLost
  <2>1. own[dma.at] => pc = "resume" /\ rbus
    BY DEF SleepInv
  <2> QED BY <2>1, FullRing
<1> HIDE DEF I
<1> QED BY <1>1, <1>2, <1>3, PTL DEF Spec

-----------------------------------------------------------------------------
(* Numbers and sets *)

(* A set of numbers has a least one: what induction would be used for.       *)
LEMMA LeastNumber ==
  ASSUME NEW S \in SUBSET Nat, S # {}
  PROVE  \E n \in S : \A m \in S : n <= m
<1> DEFINE T == {0..(n - 1) : n \in S}
<1>1. T \subseteq FiniteSubsetsOf(Nat)
  <2> SUFFICES ASSUME NEW n \in S PROVE 0..(n - 1) \in FiniteSubsetsOf(Nat)
    OBVIOUS
  <2>1. IsFiniteSet(0..(n - 1))
    BY FS_Interval
  <2> QED BY <2>1 DEF FiniteSubsetsOf
<1>2. T # {}
  OBVIOUS
<1>3. PICK x \in T : \A y \in T : ~ <<y, x>> \in StrictSubsetOrdering(Nat)
  <2> HIDE DEF T
  <2> QED BY ONLY <1>1, <1>2, FS_StrictSubsetOrderingWellFounded, WFMin
<1>4. PICK n \in S : x = 0..(n - 1)
  BY <1>3
<1>5. ASSUME NEW m \in S, m < n
      PROVE  FALSE
  <2>1. /\ 0..(m - 1) \in SUBSET Nat /\ x \in SUBSET Nat
        /\ 0..(m - 1) \subseteq x /\ m \in x /\ m \notin 0..(m - 1)
    BY <1>4, <1>5
  <2>2. <<0..(m - 1), x>> \in StrictSubsetOrdering(Nat)
    BY <2>1 DEF StrictSubsetOrdering
  <2> QED BY <1>3, <2>2
<1>6. \A m \in S : n \in Nat /\ m \in Nat /\ ~(m < n)
  BY <1>4, <1>5
<1>7. \A m \in S : n <= m
  BY ONLY <1>6
<1> QED BY ONLY <1>4, <1>7

(* Max is one of a set of bounded numbers, and none of them is greater.      *)
LEMMA MaxOf ==
  ASSUME NEW n \in Nat, NEW S \in SUBSET (1..n), S # {}
  PROVE  Max(S) \in S /\ \A x \in S : Max(S) >= x
<1> DEFINE T == {n - x : x \in S}
<1>1. T \in SUBSET Nat /\ T # {}
  <2>1. \A x \in S : n - x \in Nat
    OBVIOUS
  <2>2. T \subseteq Nat
    BY <2>1
  <2>3. PICK x \in S : TRUE
    OBVIOUS
  <2>4. n - x \in T
    OBVIOUS
  <2> QED BY <2>2, <2>4
<1>2. PICK t \in T : \A u \in T : t <= u
  <2> HIDE DEF T
  <2> QED BY <1>1, LeastNumber
<1>3. PICK x \in S : t = n - x
  BY <1>2
<1>4. \A y \in S : x >= y
  <2> SUFFICES ASSUME NEW y \in S PROVE x >= y
    OBVIOUS
  <2>1. n - y \in T
    OBVIOUS
  <2> QED BY <1>2, <1>3, <2>1
<1> HIDE DEF T
<1> QED BY <1>4 DEF Max

(* Sequences *)

(* A sequence without its element i.                                         *)
LEMMA RemoveAtIs ==
  ASSUME NEW S, NEW s \in Seq(S), NEW i \in DOMAIN s
  PROVE  /\ RemoveAt(s, i) \in Seq(S) /\ Len(RemoveAt(s, i)) = Len(s) - 1
         /\ DOMAIN RemoveAt(s, i) = 1..(Len(s) - 1)
         /\ \A j \in 1..(Len(s) - 1) :
              RemoveAt(s, i)[j] = IF j < i THEN s[j] ELSE s[j + 1]
<1>0. i \in 1..Len(s) /\ Len(s) \in Nat
  BY LenProperties
<1> DEFINE a == SubSeq(s, 1, i - 1)
           b == SubSeq(s, i + 1, Len(s))
<1>1. a \in Seq(S) /\ Len(a) = i - 1 /\ \A j \in 1..(i - 1) : a[j] = s[j]
  <2>1. \A j \in 1..(i - 1) : j \in 1..Len(s)
    BY <1>0
  <2> QED BY <1>0, <2>1, SubSeqProperties
<1>2. b \in Seq(S) /\ Len(b) = Len(s) - i /\ \A j \in 1..(Len(s) - i) : b[j] = s[i + j]
  <2>1. \A j \in (i + 1)..Len(s) : j \in 1..Len(s)
    BY <1>0
  <2>2. b \in Seq(S) /\ Len(b) = (IF i + 1 <= Len(s) THEN Len(s) - (i + 1) + 1 ELSE 0)
        /\ \A j \in 1..(Len(s) - (i + 1) + 1) : b[j] = s[i + 1 + j - 1]
    BY <1>0, <2>1, SubSeqProperties
  <2> QED BY <1>0, <2>2
<1>3. RemoveAt(s, i) = a \o b
  BY DEF RemoveAt
<1> HIDE DEF a, b
<1>4. /\ a \o b \in Seq(S) /\ Len(a \o b) = Len(a) + Len(b)
      /\ \A j \in 1..(Len(a) + Len(b)) : (a \o b)[j] = IF j <= Len(a) THEN a[j] ELSE b[j - Len(a)]
  BY <1>1, <1>2, ConcatProperties
<1>5. ASSUME NEW j \in 1..(Len(s) - 1)
      PROVE  (a \o b)[j] = IF j < i THEN s[j] ELSE s[j + 1]
  <2>1. CASE j < i
    <3>1. j \in 1..(i - 1) /\ j <= i - 1
      BY <1>0, <2>1
    <3>2. j \in 1..(Len(a) + Len(b))
      BY <1>0, <1>1, <1>2
    <3>3. (a \o b)[j] = a[j]
      BY <1>1, <1>4, <3>1, <3>2
    <3> QED BY <1>1, <2>1, <3>1, <3>3
  <2>2. CASE j >= i
    <3>1. j - (i - 1) \in 1..(Len(s) - i) /\ i + (j - (i - 1)) = j + 1 /\ ~(j <= i - 1) /\ ~(j < i)
      BY <1>0, <2>2
    <3>2. j \in 1..(Len(a) + Len(b))
      BY <1>0, <1>1, <1>2
    <3>3. (a \o b)[j] = b[j - (i - 1)]
      BY <1>1, <1>4, <3>1, <3>2
    <3>4. b[j - (i - 1)] = s[i + (j - (i - 1))]
      BY <1>2, <3>1
    <3> QED BY <3>1, <3>3, <3>4
  <2>3. j < i \/ j >= i
    BY <1>0
  <2> QED BY <2>1, <2>2, <2>3
<1>6. Len(a \o b) = Len(s) - 1
  BY <1>0, <1>1, <1>2, <1>4
<1>7. DOMAIN (a \o b) = 1..(Len(s) - 1)
  BY <1>4, <1>6, LenProperties
<1> QED BY <1>3, <1>4, <1>5, <1>6, <1>7, Zenon

(* A sequence with one more element, at i.                                   *)
LEMMA InsertAtIs ==
  ASSUME NEW S, NEW s \in Seq(S), NEW i \in 1..(Len(s) + 1), NEW e \in S
  PROVE  /\ InsertAt(s, i, e) \in Seq(S) /\ Len(InsertAt(s, i, e)) = Len(s) + 1
         /\ DOMAIN InsertAt(s, i, e) = 1..(Len(s) + 1)
         /\ \A j \in 1..(Len(s) + 1) :
              InsertAt(s, i, e)[j] = IF j < i THEN s[j] ELSE IF j = i THEN e ELSE s[j - 1]
<1>0. Len(s) \in Nat
  BY LenProperties
<1> DEFINE a == SubSeq(s, 1, i - 1)
           b == SubSeq(s, i, Len(s))
<1>1. a \in Seq(S) /\ Len(a) = i - 1 /\ \A j \in 1..(i - 1) : a[j] = s[j]
  <2>1. \A j \in 1..(i - 1) : j \in 1..Len(s)
    BY <1>0
  <2> QED BY <1>0, <2>1, SubSeqProperties
<1>2. b \in Seq(S) /\ Len(b) = Len(s) - i + 1 /\ \A j \in 1..(Len(s) - i + 1) : b[j] = s[i + j - 1]
  <2>1. \A j \in i..Len(s) : j \in 1..Len(s)
    BY <1>0
  <2>2. b \in Seq(S) /\ Len(b) = (IF i <= Len(s) THEN Len(s) - i + 1 ELSE 0)
        /\ \A j \in 1..(Len(s) - i + 1) : b[j] = s[i + j - 1]
    BY <1>0, <2>1, SubSeqProperties
  <2> QED BY <1>0, <2>2
<1>3. InsertAt(s, i, e) = a \o <<e>> \o b
  BY DEF InsertAt
<1>4. Append(a, e) = a \o <<e>>
  <2> HIDE DEF a, b
  <2> QED BY <1>1, AppendIsConcat
<1> HIDE DEF a, b
<1>5. Append(a, e) \in Seq(S) /\ Len(Append(a, e)) = i
      /\ \A j \in 1..i : Append(a, e)[j] = IF j < i THEN a[j] ELSE e
  BY <1>0, <1>1, AppendProperties
<1> DEFINE c == Append(a, e)
<1>6. /\ c \o b \in Seq(S) /\ Len(c \o b) = Len(s) + 1
      /\ \A j \in 1..(Len(s) + 1) : (c \o b)[j] = IF j <= i THEN c[j] ELSE b[j - i]
  <2> HIDE DEF c
  <2>1. c \in Seq(S) /\ Len(c) = i
    BY <1>5 DEF c
  <2>2. /\ c \o b \in Seq(S) /\ Len(c \o b) = Len(c) + Len(b)
        /\ \A j \in 1..(Len(c) + Len(b)) : (c \o b)[j] = IF j <= Len(c) THEN c[j] ELSE b[j - Len(c)]
    BY <2>1, <1>2, ConcatProperties
  <2> QED BY <1>0, <1>2, <2>1, <2>2
<1>c. \A j \in 1..i : c[j] = IF j < i THEN a[j] ELSE e
  BY <1>5
<1> HIDE DEF c
<1>7. ASSUME NEW j \in 1..(Len(s) + 1)
      PROVE  (c \o b)[j] = IF j < i THEN s[j] ELSE IF j = i THEN e ELSE s[j - 1]
  <2>1. CASE j <= i
    <3>1. j \in 1..i /\ j \in 1..(Len(c) + Len(b)) /\ j <= Len(c) /\ (j < i => j \in 1..(i - 1))
      BY <1>0, <1>2, <1>6, <2>1
    <3>2. (c \o b)[j] = c[j]
      BY <1>6, <3>1
    <3>3. j # i => j < i
      BY <1>0, <2>1
    <3> QED BY <1>1, <1>c, <3>1, <3>2, <3>3
  <2>2. CASE j > i
    <3>1. (c \o b)[j] = b[j - i] /\ j - i \in 1..(Len(s) - i + 1) /\ i + (j - i) - 1 = j - 1
      BY <1>0, <1>6, <2>2
    <3>2. b[j - i] = s[i + (j - i) - 1]
      BY <1>2, <3>1
    <3>3. ~(j < i) /\ j # i
      BY <1>0, <2>2
    <3> QED BY <3>1, <3>2, <3>3
  <2>3. j <= i \/ j > i
    BY <1>0
  <2> QED BY <2>1, <2>2, <2>3
<1>8. InsertAt(s, i, e) = c \o b
  BY <1>3, <1>4 DEF c
<1> QED BY <1>6, <1>7, <1>8, LenProperties

(* Fragments of one datagram *)

(* A fragment of a datagram, and when two of them are the same.              *)
LEMMA FragmentIs ==
  ASSUME NEW id \in Ids, NEW f \in FragmentsOf(id)
  PROVE  /\ f.id = id /\ f.start \in Nat /\ f.end \in Nat /\ f.end = f.start + 1
         /\ f.end <= Parts[id] /\ Parts[id] \in Nat /\ Parts[id] >= 2
         /\ f.mf <=> f.end < Parts[id]
         /\ f \in Fragments
         /\ \A g \in FragmentsOf(id) : g.start = f.start => g = f
<1>1. Parts[id] \in Nat /\ Parts[id] >= 2
  BY PartsAssumption DEF Ids
<1>2. PICK n \in 1..Parts[id] : f = Fragment(id, n)
  BY DEF FragmentsOf
<1>3. f \in Fragments
  BY DEF Fragments
<1>4. ASSUME NEW g \in FragmentsOf(id), g.start = f.start
      PROVE  g = f
  <2>1. PICK m \in 1..Parts[id] : g = Fragment(id, m)
    BY DEF FragmentsOf
  <2>2. m - 1 = n - 1
    BY <1>2, <1>4, <2>1 DEF Fragment
  <2>3. m = n
    BY <1>1, <2>2
  <2> QED BY <1>2, <2>1, <2>3
<1>5. f.id = id /\ f.start = n - 1 /\ f.end = n /\ f.mf = (n < Parts[id])
  BY <1>2 DEF Fragment
<1>6. f.mf <=> f.end < Parts[id]
  BY <1>5
<1>7. f.start \in Nat /\ f.end \in Nat /\ f.end = f.start + 1 /\ f.end <= Parts[id]
  BY <1>1, <1>5
<1> QED BY <1>1, <1>3, <1>4, <1>5, <1>6, <1>7

(* A datagram has finitely many fragments.                                   *)
LEMMA FragmentsFinite ==
  ASSUME NEW id \in Ids
  PROVE  IsFiniteSet(FragmentsOf(id))
<1> DEFINE S == 1..Parts[id]
           g == [n \in S |-> Fragment(id, n)]
<1>1. IsFiniteSet(S)
  BY PartsAssumption, FS_Interval DEF Ids
<1>2. g \in [S -> FragmentsOf(id)] /\ \A f \in FragmentsOf(id) : \E n \in S : g[n] = f
  BY DEF FragmentsOf
<1>3. g \in Surjection(S, FragmentsOf(id))
  BY <1>2 DEF Surjection
<1> QED BY <1>1, <1>3, FS_Surjection

(* A fragment takes from one to FirstClen pbufs.                             *)
LEMMA ClenIs ==
  /\ FirstClen \in Nat /\ FirstClen >= 1
  /\ \A f : Clen(f) \in 1..FirstClen
  BY PartsAssumption DEF Clen

(* Fragments that lie one behind the other *)
Sorted(p) == \A i, j \in DOMAIN p : i < j => p[i].end <= p[j].start

(* p is made of fragments of datagram id, in order.                          *)
Piece(p, id) ==
  /\ id \in Ids /\ p \in Seq(Fragments)
  /\ ToSet(p) \subseteq FragmentsOf(id) /\ Sorted(p)

(* What the elements of such a sequence are.                                 *)
LEMMA PieceIs ==
  ASSUME NEW p, NEW id, Piece(p, id)
  PROVE  /\ Len(p) \in Nat /\ DOMAIN p = 1..Len(p)
         /\ \A i \in 1..Len(p) :
              /\ p[i] \in FragmentsOf(id) /\ p[i] \in ToSet(p)
              /\ p[i].start \in Nat /\ p[i].end = p[i].start + 1 /\ p[i].end \in Nat
         /\ \A i, j \in 1..Len(p) : i < j => p[i].end <= p[j].start
<1>1. Len(p) \in Nat /\ DOMAIN p = 1..Len(p)
  BY LenProperties DEF Piece
<1>2. \A i \in 1..Len(p) : p[i] \in ToSet(p)
  BY <1>1 DEF ToSet
<1>3. \A i \in 1..Len(p) : p[i] \in FragmentsOf(id)
  BY <1>2 DEF Piece
<1>4. \A i \in 1..Len(p) : p[i].start \in Nat /\ p[i].end = p[i].start + 1 /\ p[i].end \in Nat
  BY <1>3, FragmentIs DEF Piece
<1> QED BY <1>1, <1>2, <1>3, <1>4 DEF Piece, Sorted

(* The walk stops in front of the first fragment that is not before f.       *)
LEMMA PlaceIs ==
  ASSUME NEW p, NEW id, Piece(p, id), NEW f \in FragmentsOf(id)
  PROVE  /\ Place(p, f) \in 1..(Len(p) + 1)
         /\ \A j \in 1..Len(p) : j < Place(p, f) => p[j].end <= f.start
         /\ Place(p, f) <= Len(p) => f.start < p[Place(p, f)].end
<1>0. f.start \in Nat
  BY FragmentIs DEF Piece
<1>1. CASE \E i \in DOMAIN p : f.start < p[i].end
  <2> DEFINE S == {i \in 1..Len(p) : f.start < p[i].end}
  <2>1. S \in SUBSET Nat /\ S # {}
    BY <1>1, PieceIs
  <2>2. PICK i \in S : \A j \in S : i <= j
    <3> HIDE DEF S
    <3> QED BY <2>1, LeastNumber
  <2>3. \A j \in 1..(i - 1) : p[j].end <= f.start
    <3> SUFFICES ASSUME NEW j \in 1..(i - 1) PROVE p[j].end <= f.start
      OBVIOUS
    <3>1. j \in 1..Len(p) /\ j \notin S
      BY <2>2, PieceIs
    <3> QED BY <3>1, <1>0, PieceIs
  <2>4. i \in DOMAIN p /\ f.start < p[i].end
    BY PieceIs
  <2>5. /\ Place(p, f) \in DOMAIN p /\ f.start < p[Place(p, f)].end
        /\ \A j \in 1..(Place(p, f) - 1) : p[j].end <= f.start
    BY <1>1, <2>3, <2>4 DEF Place
  <2> HIDE DEF S
  <2> QED BY <2>5, PieceIs
<1>2. CASE ~ \E i \in DOMAIN p : f.start < p[i].end
  <2>1. Place(p, f) = Len(p) + 1
    BY <1>2 DEF Place
  <2>2. \A j \in 1..Len(p) : p[j].end <= f.start
    BY <1>0, <1>2, PieceIs
  <2> QED BY <2>1, <2>2, PieceIs
<1> QED BY <1>1, <1>2

(* A fragment is thrown away when it is there already, and only then.        *)
LEMMA AcceptsIs ==
  ASSUME NEW p, NEW id, Piece(p, id), NEW f \in FragmentsOf(id)
  PROVE  /\ ~Accepts(p, f) => f \in ToSet(p)
         /\ Accepts(p, f) =>
              /\ f \notin ToSet(p)
              /\ \A j \in 1..Len(p) : j >= Place(p, f) => f.end <= p[j].start
<1> DEFINE i == Place(p, f)
<1>0. f.start \in Nat /\ f.end = f.start + 1
  BY FragmentIs DEF Piece
<1>1. ASSUME i <= Len(p)
      PROVE  i \in 1..Len(p) /\ i \in DOMAIN p /\ f.start < p[i].start + 1
  BY <1>1, PlaceIs, PieceIs
<1>2. ASSUME ~Accepts(p, f) PROVE f \in ToSet(p)
  <2>1. /\ i \in DOMAIN p
        /\ ~(f.start < p[i].start /\ (i > 1 => f.start >= p[i - 1].end /\ f.end <= p[i].start))
    BY <1>2 DEF Accepts
  <2>0. i \in 1..Len(p) /\ i <= Len(p)
    BY <2>1, PieceIs
  <2>2. i \in 1..Len(p) /\ f.start < p[i].start + 1 /\ p[i].start \in Nat
    BY <1>1, <2>0, PieceIs
  <2>3. i > 1 => f.start >= p[i - 1].end
    <3> SUFFICES ASSUME i > 1 PROVE f.start >= p[i - 1].end
      OBVIOUS
    <3>1. i - 1 \in 1..Len(p) /\ i - 1 < i
      BY <2>2
    <3>2. p[i - 1].end \in Nat
      BY <3>1, PieceIs
    <3>3. p[i - 1].end <= f.start
      BY <3>1, PlaceIs
    <3> QED BY <1>0, <3>2, <3>3
  <2>4. f.start = p[i].start
    BY <2>1, <2>2, <2>3, <1>0
  <2>5. f = p[i]
    BY <2>2, <2>4, FragmentIs, PieceIs DEF Piece
  <2> QED BY <2>2, <2>5, PieceIs
<1>3. ASSUME Accepts(p, f)
      PROVE  /\ \A j \in 1..Len(p) : j >= i => f.end <= p[j].start
             /\ f \notin ToSet(p)
  <2>1. ASSUME NEW j \in 1..Len(p), j >= i
        PROVE  f.end <= p[j].start
    <3>1. i <= Len(p) /\ i \in Nat /\ p[j].start \in Nat
      BY <2>1, PlaceIs, PieceIs
    <3>2. f.start < p[i].start /\ i \in 1..Len(p) /\ p[i].start \in Nat /\ p[i].end = p[i].start + 1
      BY <1>1, <1>3, <3>1, PieceIs DEF Accepts
    <3>3. CASE j = i
      BY <1>0, <3>2, <3>3
    <3>4. CASE j # i
      <4>1. p[i].end <= p[j].start
        BY <2>1, <3>1, <3>2, <3>4, PieceIs
      <4> QED BY <1>0, <3>1, <3>2, <4>1
    <3> QED BY <3>3, <3>4
  <2>2. ASSUME f \in ToSet(p) PROVE FALSE
    <3>1. PICK k \in 1..Len(p) : p[k] = f
      BY <2>2, PieceIs DEF ToSet
    <3>2. k < i
      BY <1>0, <2>1, <3>1, PlaceIs
    <3>3. p[k].end <= f.start
      BY <3>2, PlaceIs
    <3> QED BY <1>0, <3>1, <3>3
  <2> QED BY <2>1, <2>2
<1> QED BY <1>2, <1>3

(* A fragment that is accepted is put where it belongs.                      *)
LEMMA ChainedIs ==
  ASSUME NEW p, NEW id, Piece(p, id), NEW f \in FragmentsOf(id), Accepts(p, f)
  PROVE  /\ Piece(Chained(p, f), id) /\ Chained(p, f) # <<>>
         /\ ToSet(Chained(p, f)) = ToSet(p) \cup {f}
         /\ Len(Chained(p, f)) = Len(p) + 1
         /\ Chained(p, f)[Place(p, f)] = f
<1> DEFINE i == Place(p, f)
           q == Chained(p, f)
<1>0. /\ f \in Fragments /\ f.start \in Nat /\ f.end = f.start + 1
      /\ i \in 1..(Len(p) + 1) /\ Len(p) \in Nat /\ p \in Seq(Fragments)
  BY FragmentIs, PlaceIs, PieceIs DEF Piece
<1>1. /\ q \in Seq(Fragments) /\ Len(q) = Len(p) + 1 /\ DOMAIN q = 1..(Len(p) + 1)
      /\ \A j \in 1..(Len(p) + 1) : q[j] = IF j < i THEN p[j] ELSE IF j = i THEN f ELSE p[j - 1]
  <2>1. q = InsertAt(p, i, f)
    BY DEF Chained
  <2>2. p \in Seq(Fragments) /\ i \in 1..(Len(p) + 1) /\ f \in Fragments
    BY <1>0
  <2> HIDE DEF i, q
  <2>3. /\ InsertAt(p, i, f) \in Seq(Fragments) /\ Len(InsertAt(p, i, f)) = Len(p) + 1
        /\ DOMAIN InsertAt(p, i, f) = 1..(Len(p) + 1)
    BY ONLY <2>2, InsertAtIs
  <2>4. \A j \in 1..(Len(p) + 1) :
          InsertAt(p, i, f)[j] = IF j < i THEN p[j] ELSE IF j = i THEN f ELSE p[j - 1]
    BY ONLY <2>2, InsertAtIs
  <2> QED BY <2>1, <2>3, <2>4
<1> HIDE DEF q
<1>2. ToSet(q) = ToSet(p) \cup {f}
  <2>1. ASSUME NEW g \in ToSet(q) PROVE g \in ToSet(p) \cup {f}
    <3>1. PICK j \in 1..(Len(p) + 1) : g = q[j]
      BY <1>1 DEF ToSet
    <3>2. j < i => j \in 1..Len(p)
      BY <1>0
    <3>3. j > i => j - 1 \in 1..Len(p)
      BY <1>0
    <3>4. j < i \/ j = i \/ j > i
      BY <1>0
    <3> QED BY <1>1, <3>1, <3>2, <3>3, <3>4, PieceIs
  <2>2. f = q[i] /\ i \in DOMAIN q
    BY <1>0, <1>1
  <2>3. ASSUME NEW g \in ToSet(p) PROVE g \in ToSet(q)
    <3>1. PICK j \in 1..Len(p) : g = p[j]
      BY PieceIs DEF ToSet
    <3>2. CASE j < i
      <4>1. j \in 1..(Len(p) + 1) /\ q[j] = g
        BY <1>0, <1>1, <3>1, <3>2
      <4> QED BY <4>1, <1>1 DEF ToSet
    <3>3. CASE j >= i
      <4>1. j + 1 \in 1..(Len(p) + 1) /\ ~(j + 1 < i) /\ j + 1 # i /\ j + 1 - 1 = j
        BY <1>0, <3>3
      <4>2. q[j + 1] = g
        BY <1>1, <3>1, <4>1
      <4> QED BY <4>1, <4>2, <1>1 DEF ToSet
    <3> QED BY <1>0, <3>2, <3>3
  <2>4. f \in ToSet(q)
    BY <2>2 DEF ToSet
  <2> QED BY <2>1, <2>3, <2>4
<1>3. Sorted(q)
  <2> SUFFICES ASSUME NEW j \in 1..(Len(p) + 1), NEW k \in 1..(Len(p) + 1), j < k
               PROVE  q[j].end <= q[k].start
    BY <1>1 DEF Sorted
  <2>1. CASE k < i
    <3>1. j \in 1..Len(p) /\ k \in 1..Len(p) /\ q[j] = p[j] /\ q[k] = p[k]
      BY <1>0, <1>1, <2>1
    <3> QED BY <3>1, PieceIs
  <2>2. CASE k = i
    <3>1. j \in 1..Len(p) /\ q[j] = p[j] /\ q[k] = f /\ j < i
      BY <1>0, <1>1, <2>2
    <3> QED BY <3>1, PlaceIs
  <2>3. CASE k > i /\ j < i
    <3>1. j \in 1..Len(p) /\ k - 1 \in 1..Len(p) /\ q[j] = p[j] /\ q[k] = p[k - 1] /\ k - 1 >= i
      BY <1>0, <1>1, <2>3
    <3>2. p[j].end <= f.start /\ f.end <= p[k - 1].start
      BY <2>3, <3>1, PlaceIs, AcceptsIs
    <3>3. p[j].end \in Nat /\ p[k - 1].start \in Nat
      BY <3>1, PieceIs
    <3>a. f.start \in Nat /\ f.end \in Nat /\ f.start <= f.end
      BY <1>0
    <3>b. \A w, x, y, z \in Nat : w <= x /\ x <= y /\ y <= z => w <= z
      OBVIOUS
    <3>4. p[j].end <= p[k - 1].start
      BY ONLY <3>2, <3>3, <3>a, <3>b
    <3> QED BY <3>1, <3>4
  <2>4. CASE k > i /\ j = i
    <3>1. k - 1 \in 1..Len(p) /\ q[j] = f /\ q[k] = p[k - 1] /\ k - 1 >= i
      BY <1>0, <1>1, <2>4
    <3> QED BY <3>1, AcceptsIs
  <2>5. CASE k > i /\ j > i
    <3>1. j - 1 \in 1..Len(p) /\ k - 1 \in 1..Len(p) /\ q[j] = p[j - 1] /\ q[k] = p[k - 1] /\ j - 1 < k - 1
      BY <1>0, <1>1, <2>5
    <3> QED BY <3>1, PieceIs
  <2>6. (k < i \/ k = i \/ k > i) /\ (j < i \/ j = i \/ j > i)
    BY <1>0
  <2> QED BY <2>1, <2>2, <2>3, <2>4, <2>5, <2>6
<1>4. q # <<>>
  BY <1>0, <1>1, EmptySeq
<1>5. q[i] = f
  BY <1>0, <1>1
<1>6. Piece(q, id)
  BY <1>1, <1>2, <1>3 DEF Piece
<1> QED BY <1>1, <1>2, <1>4, <1>5, <1>6 DEF q

(* With every fragment there is no hole.                                     *)
LEMMA CompleteIs ==
  ASSUME NEW q, NEW id, Piece(q, id), ToSet(q) = FragmentsOf(id)
  PROVE  /\ q[1].start = 0
         /\ \A j \in 1..(Len(q) - 1) : Joins(q, j)
<1>0. Parts[id] \in Nat /\ Parts[id] >= 2 /\ Len(q) \in Nat
  BY PartsAssumption, PieceIs DEF Piece, Ids
<1>1. ASSUME NEW n \in 1..Parts[id]
      PROVE  \E k \in 1..Len(q) : q[k].start = n - 1
  <2>1. Fragment(id, n) \in ToSet(q)
    BY DEF FragmentsOf
  <2>2. PICK k \in 1..Len(q) : q[k] = Fragment(id, n)
    BY <2>1, PieceIs DEF ToSet
  <2>3. q[k].start = n - 1
    BY <2>2 DEF Fragment
  <2> QED BY <2>3
<1>2. q[1].start = 0
  <2>1. PICK k \in 1..Len(q) : q[k].start = 0
    <3>1. 1 \in 1..Parts[id] /\ 1 - 1 = 0
      BY <1>0
    <3> QED BY <3>1, <1>1
  <2>2. 1 \in 1..Len(q) /\ q[1].start \in Nat /\ q[1].end = q[1].start + 1
    BY <1>0, PieceIs
  <2>3. k # 1 => q[1].end <= q[k].start
    BY <2>2, PieceIs
  <2> QED BY <2>1, <2>2, <2>3
<1>3. ASSUME NEW j \in 1..(Len(q) - 1)
      PROVE  q[j].end = q[j + 1].start
  <2>1. /\ j \in 1..Len(q) /\ j + 1 \in 1..Len(q)
        /\ q[j].end <= q[j + 1].start
        /\ q[j].end \in Nat /\ q[j + 1].start \in Nat
        /\ q[j + 1] \in FragmentsOf(id)
    BY <1>0, PieceIs
  <2>2. q[j + 1].start + 1 <= Parts[id]
    BY <2>1, FragmentIs DEF Piece
  <2>3. q[j].end + 1 \in 1..Parts[id] /\ q[j].end + 1 - 1 = q[j].end
    <3>1. q[j].end + 1 <= Parts[id]
      BY ONLY <1>0, <2>1, <2>2
    <3> QED BY ONLY <1>0, <2>1, <3>1
  <2> DEFINE n == q[j].end + 1
  <2>n. \E k \in 1..Len(q) : q[k].start = n - 1
    <3> HIDE DEF n
    <3>1. n \in 1..Parts[id]
      BY <2>3 DEF n
    <3> QED BY <3>1, <1>1
  <2>p. PICK k \in 1..Len(q) : q[k].start = n - 1
    BY <2>n
  <2>4. q[k].start = q[j].end
    BY <2>p, <2>1
  <2> HIDE DEF n
  <2>5. k > j
    <3>1. k < j => q[k].end <= q[j].start
      BY <2>1, PieceIs
    <3>2. q[k].end = q[k].start + 1 /\ q[j].end = q[j].start + 1 /\ q[j].start \in Nat
      BY <2>1, PieceIs
    <3>3. k # j
      BY <2>4, <3>2
    <3>4. ~(k < j)
      BY <2>4, <3>1, <3>2
    <3> QED BY <3>3, <3>4
  <2>6. CASE k = j + 1
    BY <2>4, <2>6
  <2>7. CASE k > j + 1
    <3>1. q[j + 1].end <= q[k].start /\ q[j + 1].end = q[j + 1].start + 1
      BY <2>1, <2>7, PieceIs
    <3> QED BY <2>1, <2>4, <3>1
  <2> QED BY <2>5, <2>6, <2>7
<1> QED BY <1>2, <1>3 DEF Joins

(* The walk finds a datagram complete that is.                               *)
LEMMA CompleteIsValid ==
  ASSUME NEW p, NEW id, Piece(p, id), NEW f \in FragmentsOf(id), Accepts(p, f),
         ToSet(Chained(p, f)) = FragmentsOf(id)
  PROVE  Valid(p, f)
<1> DEFINE i == Place(p, f)
           q == Chained(p, f)
<1>1. /\ Piece(q, id) /\ Len(q) = Len(p) + 1 /\ i \in 1..(Len(p) + 1) /\ Len(p) \in Nat
      /\ ToSet(q) = FragmentsOf(id)
  BY ChainedIs, PlaceIs, PieceIs
<1> HIDE DEF i, q
<1>2. q[1].start = 0 /\ \A j \in 1..(Len(q) - 1) : Joins(q, j)
  BY <1>1, CompleteIs
<1>3. \A j \in 1..(i - 2) : Joins(q, j)
  BY <1>1, <1>2
<1>4. i > 1 => Joins(q, i - 1)
  BY <1>1, <1>2
<1>5. \A j \in i..(Len(q) - 1) : Joins(q, j)
  BY <1>1, <1>2
<1> QED BY <1>2, <1>3, <1>4, <1>5 DEF Valid, i, q

(* What may be handed up: without a hole but in front of f, which came last. *)
WholeBut(q, f) ==
  /\ q[1].start = 0 /\ ~Last(q).mf /\ ToSet(q) \subseteq FragmentsOf(f.id)
  /\ \A j \in 1..(Len(q) - 1) : Joins(q, j) \/ q[j + 1] = f

(* The walk finds a datagram complete that has no hole but in front of f.    *)
LEMMA ValidIsWhole ==
  ASSUME NEW p, NEW id, Piece(p, id), NEW f \in FragmentsOf(id), Accepts(p, f), Valid(p, f),
         \E g \in ToSet(p) \cup {f} : ~g.mf
  PROVE  WholeBut(Chained(p, f), f)
<1> DEFINE i == Place(p, f)
           q == Chained(p, f)
<1>1. /\ Piece(q, id) /\ Len(q) = Len(p) + 1 /\ i \in 1..(Len(p) + 1) /\ Len(p) \in Nat
      /\ ToSet(q) = ToSet(p) \cup {f} /\ q[i] = f /\ f.id = id
  BY ChainedIs, PlaceIs, PieceIs, FragmentIs DEF Piece
<1>2. /\ q[1].start = 0 /\ \A j \in 1..(i - 2) : Joins(q, j)
      /\ \A j \in i..(Len(q) - 1) : Joins(q, j)
  BY DEF Valid
<1> HIDE DEF i, q
<1>3. ASSUME NEW j \in 1..(Len(q) - 1) PROVE Joins(q, j) \/ q[j + 1] = f
  <2>1. CASE j \in 1..(i - 2)
    BY <1>2, <2>1
  <2>2. CASE j \in i..(Len(q) - 1)
    BY <1>2, <2>2
  <2>3. CASE j = i - 1
    <3>1. j + 1 = i
      BY <1>1, <2>3
    <3> QED BY <1>1, <3>1
  <2> QED BY <1>1, <2>1, <2>2, <2>3
<1>4. ~Last(q).mf
  <2>1. PICK g \in ToSet(q) : ~g.mf
    BY <1>1
  <2>2. PICK k \in 1..Len(q) : q[k] = g
    BY <1>1, PieceIs DEF ToSet
  <2>3. Len(q) \in 1..Len(q)
    BY <1>1
  <2>4. id \in Ids /\ q[k] \in FragmentsOf(id) /\ q[Len(q)] \in FragmentsOf(id)
    BY <1>1, <2>3, PieceIs DEF Piece
  <2>5. q[k].end = Parts[id]
    BY <2>1, <2>2, <2>4, FragmentIs
  <2>6. k < Len(q) => q[k].end <= q[Len(q)].start
    BY <1>1, <2>3, PieceIs
  <2>7. q[Len(q)].end <= Parts[id] /\ q[Len(q)].end = q[Len(q)].start + 1 /\ q[Len(q)].start \in Nat
        /\ Parts[id] \in Nat
    BY <2>4, FragmentIs
  <2>8. k = Len(q)
    BY <1>1, <2>5, <2>6, <2>7
  <2> QED BY <2>1, <2>2, <2>8 DEF Last
<1>5. Len(q) >= 1 /\ ToSet(q) \subseteq FragmentsOf(f.id)
  BY <1>1 DEF Piece
<1> QED BY <1>2, <1>3, <1>4, <1>5 DEF WholeBut, q

-----------------------------------------------------------------------------
(* Counting pbufs *)

(* Finitely many fragments have finitely many pbufs.                         *)
LEMMA PbufsFinite ==
  ASSUME NEW S, IsFiniteSet(S)
  PROVE  IsFiniteSet(PbufsOf(S)) /\ Cardinality(PbufsOf(S)) \in Nat
<1>0. IsFiniteSet(1..FirstClen)
  BY FS_Interval, ClenIs
<1>1. IsFiniteSet(S \X (1..FirstClen))
  BY <1>0, FS_Product
<1>2. PbufsOf(S) \subseteq S \X (1..FirstClen)
  BY DEF PbufsOf
<1>3. IsFiniteSet(PbufsOf(S))
  BY <1>1, <1>2, FS_Subset
<1> QED BY <1>3, FS_CardinalityType

(* Pbufs of fragments that have nothing in common add up.                    *)
LEMMA PbufsUnion ==
  ASSUME NEW S, IsFiniteSet(S), NEW T, IsFiniteSet(T), S \cap T = {}
  PROVE  Cardinality(PbufsOf(S \cup T)) = Cardinality(PbufsOf(S)) + Cardinality(PbufsOf(T))
<1>1. PbufsOf(S \cup T) = PbufsOf(S) \cup PbufsOf(T)
  BY DEF PbufsOf
<1>2. PbufsOf(S) \cap PbufsOf(T) = {}
  BY DEF PbufsOf
<1>3. Cardinality(PbufsOf(S) \cup PbufsOf(T)) =
        Cardinality(PbufsOf(S)) + Cardinality(PbufsOf(T)) - Cardinality(PbufsOf(S) \cap PbufsOf(T))
  BY PbufsFinite, FS_Union
<1>4. Cardinality({}) = 0
  BY FS_EmptySet
<1>5. Cardinality(PbufsOf(S)) \in Nat /\ Cardinality(PbufsOf(T)) \in Nat
  BY PbufsFinite
<1>6. Cardinality(PbufsOf(S \cup T)) =
        Cardinality(PbufsOf(S)) + Cardinality(PbufsOf(T)) - 0
  BY <1>1, <1>2, <1>3, <1>4
<1> QED BY <1>5, <1>6

(* Pbufs of the fragments that are left.                                     *)
LEMMA PbufsMinus ==
  ASSUME NEW S, IsFiniteSet(S), NEW T \in SUBSET S
  PROVE  /\ IsFiniteSet(S \ T) /\ IsFiniteSet(T)
         /\ Cardinality(PbufsOf(S \ T)) = Cardinality(PbufsOf(S)) - Cardinality(PbufsOf(T))
<1>1. IsFiniteSet(S \ T) /\ IsFiniteSet(T)
  BY FS_Subset
<1>2. (S \ T) \cap T = {} /\ (S \ T) \cup T = S
  OBVIOUS
<1>3. Cardinality(PbufsOf(S)) = Cardinality(PbufsOf(S \ T)) + Cardinality(PbufsOf(T))
  BY <1>1, <1>2, PbufsUnion
<1> QED BY <1>1, <1>3, PbufsFinite

(* The pbufs of one fragment.                                                *)
LEMMA PbufsOne ==
  ASSUME NEW f
  PROVE  Cardinality(PbufsOf({f})) = Clen(f) /\ IsFiniteSet({f})
<1>1. Clen(f) \in 1..FirstClen /\ FirstClen \in Nat
  BY ClenIs
<1>2. PbufsOf({f}) = {f} \X (1..Clen(f))
  <2>1. PbufsOf({f}) \subseteq {f} \X (1..Clen(f))
    BY <1>1 DEF PbufsOf
  <2>2. {f} \X (1..Clen(f)) \subseteq PbufsOf({f})
    BY <1>1 DEF PbufsOf
  <2> QED BY <2>1, <2>2
<1>3. IsFiniteSet({f}) /\ Cardinality({f}) = 1
  BY FS_Singleton
<1>4. IsFiniteSet(1..Clen(f)) /\ Cardinality(1..Clen(f)) = Clen(f)
  BY <1>1, FS_Interval
<1>5. Cardinality({f} \X (1..Clen(f))) = 1 * Clen(f)
  <2>1. Cardinality({f} \X (1..Clen(f))) = Cardinality({f}) * Cardinality(1..Clen(f))
    BY ONLY <1>3, <1>4, FS_Product, Zenon
  <2> QED BY ONLY <1>3, <1>4, <2>1, Zenon
<1>6. 1 * Clen(f) = Clen(f)
  BY <1>1
<1>7. Cardinality(PbufsOf({f})) = Clen(f)
  BY <1>2, <1>5, <1>6
<1> QED BY <1>3, <1>7

(* ClenOf counts the pbufs of the fragments in p, each once.                 *)
LEMMA ClenOfIs ==
  ASSUME NEW p, NEW id, Piece(p, id)
  PROVE  IsFiniteSet(ToSet(p)) /\ ClenOf(p) = Cardinality(PbufsOf(ToSet(p))) /\ ClenOf(p) \in Nat
<1> DEFINE A == {x \in (DOMAIN p) \X (1..FirstClen) : x[2] <= Clen(p[x[1]])}
           B == PbufsOf(ToSet(p))
           F == [x \in A |-> <<p[x[1]], x[2]>>]
           G == [i \in 1..Len(p) |-> p[i]]
<1>0. Len(p) \in Nat /\ DOMAIN p = 1..Len(p) /\ FirstClen \in Nat
  BY PieceIs, ClenIs
<1>1. IsFiniteSet(1..Len(p)) /\ IsFiniteSet(1..FirstClen)
  BY <1>0, FS_Interval
<1>2. IsFiniteSet(A)
  <2>1. IsFiniteSet((1..Len(p)) \X (1..FirstClen))
    BY <1>1, FS_Product
  <2>2. A \subseteq (1..Len(p)) \X (1..FirstClen)
    BY <1>0
  <2> QED BY <2>1, <2>2, FS_Subset
<1>3. \A i, j \in 1..Len(p) : p[i] = p[j] => i = j
  <2> SUFFICES ASSUME NEW i \in 1..Len(p), NEW j \in 1..Len(p), p[i] = p[j], i < j PROVE FALSE
    BY <1>0
  <2> QED BY PieceIs
<1>4. G \in Surjection(1..Len(p), ToSet(p))
  <2>1. G \in [1..Len(p) -> ToSet(p)]
    BY <1>0 DEF ToSet
  <2>2. \A t \in ToSet(p) : \E i \in 1..Len(p) : G[i] = t
    BY <1>0 DEF ToSet
  <2> HIDE DEF G
  <2> QED BY <2>1, <2>2 DEF Surjection
<1>5. IsFiniteSet(ToSet(p))
  <2> HIDE DEF G
  <2> QED BY <1>1, <1>4, FS_Surjection
<1>6. F \in [A -> B]
  <2>1. ASSUME NEW x \in A PROVE <<p[x[1]], x[2]>> \in B
    <3>1. x[1] \in 1..Len(p) /\ x[2] \in 1..FirstClen /\ x[2] <= Clen(p[x[1]])
      BY <1>0
    <3>2. p[x[1]] \in ToSet(p)
      BY <1>0, <3>1 DEF ToSet
    <3> QED BY <3>1, <3>2 DEF PbufsOf
  <2> HIDE DEF A, B
  <2> QED BY <2>1
<1>7. \A a, b \in A : F[a] = F[b] => a = b
  <2> SUFFICES ASSUME NEW a \in A, NEW b \in A, F[a] = F[b] PROVE a = b
    OBVIOUS
  <2>1. p[a[1]] = p[b[1]] /\ a[2] = b[2]
    <3> HIDE DEF A
    <3>1. F[a] = <<p[a[1]], a[2]>> /\ F[b] = <<p[b[1]], b[2]>>
      OBVIOUS
    <3> HIDE DEF F
    <3>2. <<p[a[1]], a[2]>> = <<p[b[1]], b[2]>>
      BY <3>1
    <3> QED BY ONLY <3>2
  <2>2. /\ a[1] \in 1..Len(p) /\ b[1] \in 1..Len(p) /\ a = <<a[1], a[2]>> /\ b = <<b[1], b[2]>>
    BY <1>0
  <2>3. a[1] = b[1]
    BY <1>3, <2>1, <2>2
  <2> QED BY <2>1, <2>2, <2>3
<1>8. \A t \in B : \E x \in A : F[x] = t
  <2> SUFFICES ASSUME NEW t \in B PROVE \E x \in A : F[x] = t
    OBVIOUS
  <2>1. t[1] \in ToSet(p) /\ t[2] \in 1..FirstClen /\ t[2] <= Clen(t[1]) /\ t = <<t[1], t[2]>>
    BY DEF PbufsOf
  <2>2. PICK i \in 1..Len(p) : p[i] = t[1]
    BY <1>0, <2>1 DEF ToSet
  <2>3. <<i, t[2]>> \in A
    BY <1>0, <2>1, <2>2
  <2>4. F[<<i, t[2]>>] = <<p[i], t[2]>>
    <3> HIDE DEF A
    <3> QED BY <2>3
  <2> HIDE DEF A, F
  <2> QED BY <2>1, <2>2, <2>3, <2>4
<1> HIDE DEF A, B, F
<1>9. ExistsBijection(A, B)
  BY <1>6, <1>7, <1>8, Fun_IsBij DEF ExistsBijection
<1>10. Cardinality(B) = Cardinality(A)
  BY <1>2, <1>9, FS_Bijection
<1>11. ClenOf(p) = Cardinality(A)
  BY DEF ClenOf, A
<1>12. Cardinality(A) \in Nat
  BY <1>2, FS_CardinalityType
<1> QED BY <1>5, <1>10, <1>11, <1>12 DEF B

(* The list of datagrams *)

(* The struct ip_reassdata of a datagram.                                    *)
Entries == [id : Ids, p : Seq(Fragments), lastfrag : BOOLEAN]

(* An incomplete datagram that knows whether its last fragment was seen.     *)
Proper(r) ==
  /\ r \in Entries /\ Piece(r.p, r.id)
  /\ r.lastfrag = \E f \in ToSet(r.p) : ~f.mf
  /\ ToSet(r.p) # FragmentsOf(r.id)

(* The list holds incomplete datagrams, each once.                           *)
Listed(list) ==
  /\ list \in Seq(Entries)
  /\ \A i \in DOMAIN list : Proper(list[i])
  /\ \A i, j \in DOMAIN list : list[i].id = list[j].id => i = j

(* The fragments in the list.                                                *)
HeldIn(list) == UNION {ToSet(list[i].p) : i \in DOMAIN list}

(* The datagrams of the list have no fragment in common.                     *)
LEMMA ListedIs ==
  ASSUME NEW list, Listed(list)
  PROVE  /\ Len(list) \in Nat /\ DOMAIN list = 1..Len(list)
         /\ \A i \in 1..Len(list) :
              /\ list[i] \in Entries /\ Proper(list[i]) /\ list[i].id \in Ids
              /\ IsFiniteSet(ToSet(list[i].p))
              /\ ToSet(list[i].p) \subseteq HeldIn(list)
              /\ \A f \in ToSet(list[i].p) : f.id = list[i].id
         /\ \A i, j \in 1..Len(list) : list[i].id = list[j].id => i = j
         /\ \A i, j \in 1..Len(list) : i # j => ToSet(list[i].p) \cap ToSet(list[j].p) = {}
         /\ IsFiniteSet(HeldIn(list))
<1>1. Len(list) \in Nat /\ DOMAIN list = 1..Len(list)
  BY LenProperties DEF Listed
<1>2. ASSUME NEW i \in 1..Len(list)
      PROVE  /\ list[i] \in Entries /\ Proper(list[i]) /\ list[i].id \in Ids
             /\ IsFiniteSet(ToSet(list[i].p))
             /\ ToSet(list[i].p) \subseteq HeldIn(list)
             /\ \A f \in ToSet(list[i].p) : f.id = list[i].id
  <2>1. Proper(list[i])
    BY <1>1 DEF Listed
  <2>2. list[i] \in Entries /\ Piece(list[i].p, list[i].id)
    BY <2>1 DEF Proper
  <2>3. list[i].id \in Ids
    BY <2>2 DEF Piece
  <2>4. IsFiniteSet(ToSet(list[i].p))
    BY <2>2, ClenOfIs
  <2>5. ToSet(list[i].p) \subseteq HeldIn(list)
    BY <1>1 DEF HeldIn
  <2>6. \A f \in ToSet(list[i].p) : f.id = list[i].id
    BY <2>2, FragmentIs DEF Piece
  <2> QED BY <2>1, <2>2, <2>3, <2>4, <2>5, <2>6
<1>3. \A i, j \in 1..Len(list) : list[i].id = list[j].id => i = j
  BY <1>1 DEF Listed
<1>4. ASSUME NEW i \in 1..Len(list), NEW j \in 1..Len(list), i # j
      PROVE  ToSet(list[i].p) \cap ToSet(list[j].p) = {}
  BY <1>2, <1>3, <1>4
<1>5. IsFiniteSet(HeldIn(list))
  <2> DEFINE S == {ToSet(list[i].p) : i \in DOMAIN list}
             G == [i \in 1..Len(list) |-> ToSet(list[i].p)]
  <2>1. G \in [1..Len(list) -> S]
    BY <1>1
  <2>2. \A t \in S : \E i \in 1..Len(list) : G[i] = t
    BY <1>1
  <2>3. \A t \in S : IsFiniteSet(t)
    BY <1>1, <1>2
  <2>4. HeldIn(list) = UNION S
    BY DEF HeldIn
  <2> HIDE DEF G, S
  <2>5. G \in Surjection(1..Len(list), S)
    BY <2>1, <2>2 DEF Surjection
  <2>6. IsFiniteSet(1..Len(list))
    BY <1>1, FS_Interval
  <2>7. IsFiniteSet(S)
    BY <2>5, <2>6, FS_Surjection
  <2> QED BY <2>3, <2>4, <2>7, FS_UNION
<1> QED BY <1>1, <1>2, <1>3, <1>4, <1>5

(* The list without datagram i holds all the others.                         *)
LEMMA RemoveListed ==
  ASSUME NEW list, Listed(list), NEW i \in 1..Len(list)
  PROVE  /\ Listed(RemoveAt(list, i))
         /\ Len(RemoveAt(list, i)) = Len(list) - 1
         /\ HeldIn(RemoveAt(list, i)) = HeldIn(list) \ ToSet(list[i].p)
         /\ \A k \in 1..(Len(list) - 1) :
              \E j \in 1..Len(list) : j # i /\ RemoveAt(list, i)[k] = list[j]
         /\ \A j \in 1..Len(list) :
              j # i => \E k \in 1..(Len(list) - 1) : RemoveAt(list, i)[k] = list[j]
<1> DEFINE r == RemoveAt(list, i)
           n == Len(list)
<1>0. n \in Nat /\ DOMAIN list = 1..n /\ list \in Seq(Entries)
  BY ListedIs DEF Listed
<1>1. /\ r \in Seq(Entries) /\ Len(r) = n - 1 /\ DOMAIN r = 1..(n - 1)
      /\ \A k \in 1..(n - 1) : r[k] = IF k < i THEN list[k] ELSE list[k + 1]
  <2>1. i \in DOMAIN list
    BY <1>0
  <2>2. r \in Seq(Entries) /\ Len(r) = n - 1 /\ DOMAIN r = 1..(n - 1)
    BY <1>0, <2>1, RemoveAtIs
  <2>3. \A k \in 1..(n - 1) : r[k] = IF k < i THEN list[k] ELSE list[k + 1]
    BY <1>0, <2>1, RemoveAtIs
  <2> QED BY <2>2, <2>3
<1> HIDE DEF r
<1>2. ASSUME NEW k \in 1..(n - 1)
      PROVE  \E j \in 1..n : /\ j # i /\ r[k] = list[j]
                             /\ j = IF k < i THEN k ELSE k + 1
  <2>1. CASE k < i
    BY <1>0, <1>1, <2>1
  <2>2. CASE k >= i
    <3>1. k + 1 \in 1..n /\ k + 1 # i /\ ~(k < i)
      BY <1>0, <2>2
    <3> QED BY <1>1, <3>1
  <2> QED BY <1>0, <2>1, <2>2
<1>3. ASSUME NEW j \in 1..n, j # i
      PROVE  \E k \in 1..(n - 1) : r[k] = list[j]
  <2>1. CASE j < i
    <3>1. j \in 1..(n - 1)
      BY <1>0, <2>1
    <3> QED BY <1>1, <2>1, <3>1
  <2>2. CASE j > i
    <3>1. j - 1 \in 1..(n - 1) /\ ~(j - 1 < i) /\ j - 1 + 1 = j
      BY <1>0, <2>2
    <3>2. r[j - 1] = list[j]
      BY <1>1, <3>1
    <3> QED BY <3>1, <3>2
  <2> QED BY <1>0, <1>3, <2>1, <2>2
<1>4. \A k \in 1..(n - 1) : Proper(r[k])
  BY <1>2, ListedIs
<1>5. ASSUME NEW k \in 1..(n - 1), NEW l \in 1..(n - 1), r[k].id = r[l].id
      PROVE  k = l
  <2>1. PICK a \in 1..n : a # i /\ r[k] = list[a] /\ a = IF k < i THEN k ELSE k + 1
    BY <1>2
  <2>2. PICK b \in 1..n : b # i /\ r[l] = list[b] /\ b = IF l < i THEN l ELSE l + 1
    BY <1>2
  <2>3. a = b
    BY <1>5, <2>1, <2>2, ListedIs
  <2> QED BY <1>0, <2>1, <2>2, <2>3
<1>6. HeldIn(r) = HeldIn(list) \ ToSet(list[i].p)
  <2>1. ASSUME NEW f \in HeldIn(r) PROVE f \in HeldIn(list) \ ToSet(list[i].p)
    <3>1. PICK k \in 1..(n - 1) : f \in ToSet(r[k].p)
      BY <1>1 DEF HeldIn
    <3>2. PICK j \in 1..n : j # i /\ f \in ToSet(list[j].p)
      BY <1>2, <3>1
    <3> QED BY <3>2, ListedIs
  <2>2. ASSUME NEW f \in HeldIn(list) \ ToSet(list[i].p) PROVE f \in HeldIn(r)
    <3>1. PICK j \in 1..n : f \in ToSet(list[j].p)
      BY <1>0 DEF HeldIn
    <3>2. j # i
      BY <2>2, <3>1
    <3>3. PICK k \in 1..(n - 1) : r[k] = list[j]
      BY <1>3, <3>2
    <3> QED BY <1>1, <3>1, <3>3 DEF HeldIn
  <2> QED BY <2>1, <2>2
<1>7. Listed(r)
  BY <1>1, <1>4, <1>5 DEF Listed
<1> QED BY <1>1, <1>2, <1>3, <1>6, <1>7 DEF r

(* What stands in front of datagram i is a list, too.                        *)
LEMMA PrefixListed ==
  ASSUME NEW list, Listed(list), NEW i \in 1..Len(list)
  PROVE  /\ Listed(SubSeq(list, 1, i - 1)) /\ Len(SubSeq(list, 1, i - 1)) = i - 1
         /\ \A k \in 1..(i - 1) : k \in 1..Len(list) /\ SubSeq(list, 1, i - 1)[k] = list[k]
<1> DEFINE r == SubSeq(list, 1, i - 1)
<1>0. Len(list) \in Nat /\ DOMAIN list = 1..Len(list) /\ list \in Seq(Entries)
  BY ListedIs DEF Listed
<1>1. \A k \in 1..(i - 1) : k \in 1..Len(list) /\ list[k] \in Entries
  BY <1>0, ListedIs
<1>2. r \in Seq(Entries) /\ Len(r) = i - 1 /\ \A k \in 1..(i - 1) : r[k] = list[k]
  <2>1. 1 \in Int /\ i - 1 \in Int /\ i - 1 \in Nat
    BY <1>0
  <2>2. r \in Seq(Entries)
    BY <1>1, <2>1, SubSeqProperties
  <2>3. Len(r) = i - 1
    BY <1>1, <2>1, SubSeqProperties
  <2>4. \A k \in 1..(i - 1) : r[k] = list[k]
    BY <1>1, <2>1, SubSeqProperties
  <2> QED BY <2>2, <2>3, <2>4
<1> HIDE DEF r
<1>3. DOMAIN r = 1..(i - 1)
  BY <1>2, LenProperties
<1>4. Listed(r)
  BY <1>0, <1>1, <1>2, <1>3, ListedIs DEF Listed
<1> QED BY <1>1, <1>2, <1>4 DEF r

(* The list with more fragments of datagram i.                               *)
LEMMA ReplaceListed ==
  ASSUME NEW list, Listed(list), NEW i \in 1..Len(list), NEW e, Proper(e), e.id = list[i].id
  PROVE  /\ Listed([list EXCEPT ![i] = e])
         /\ Len([list EXCEPT ![i] = e]) = Len(list)
         /\ HeldIn([list EXCEPT ![i] = e]) = (HeldIn(list) \ ToSet(list[i].p)) \cup ToSet(e.p)
<1> DEFINE r == [list EXCEPT ![i] = e]
           n == Len(list)
<1>0. n \in Nat /\ DOMAIN list = 1..n /\ list \in Seq(Entries) /\ e \in Entries
  BY ListedIs DEF Listed, Proper
<1>1. r \in Seq(Entries) /\ Len(r) = n /\ DOMAIN r = 1..n
  BY <1>0, ExceptSeq
<1>2. \A k \in 1..n : r[k] = IF k = i THEN e ELSE list[k]
  BY <1>0
<1> HIDE DEF r
<1>3. \A k \in 1..n : Proper(r[k]) /\ r[k].id = list[k].id
  BY <1>2, ListedIs
<1>4. HeldIn(r) = (HeldIn(list) \ ToSet(list[i].p)) \cup ToSet(e.p)
  <2>1. ASSUME NEW f \in HeldIn(r) PROVE f \in (HeldIn(list) \ ToSet(list[i].p)) \cup ToSet(e.p)
    <3>1. PICK k \in 1..n : f \in ToSet(r[k].p)
      BY <1>1 DEF HeldIn
    <3>2. CASE k = i
      BY <1>2, <3>1, <3>2
    <3>3. CASE k # i
      <4>1. f \in ToSet(list[k].p)
        BY <1>2, <3>1, <3>3
      <4> QED BY <3>3, <4>1, ListedIs
    <3> QED BY <3>2, <3>3
  <2>2. ASSUME NEW f \in HeldIn(list) \ ToSet(list[i].p) PROVE f \in HeldIn(r)
    <3>1. PICK k \in 1..n : f \in ToSet(list[k].p)
      BY <1>0 DEF HeldIn
    <3>2. k # i
      BY <2>2, <3>1
    <3>3. r[k] = list[k]
      BY <1>2, <3>2
    <3> QED BY <1>1, <3>1, <3>3 DEF HeldIn
  <2>3. ASSUME NEW f \in ToSet(e.p) PROVE f \in HeldIn(r)
    <3>1. r[i] = e
      BY <1>2
    <3> QED BY <1>1, <3>1 DEF HeldIn
  <2> QED BY <2>1, <2>2, <2>3
<1>5. Listed(r)
  <2>1. ASSUME NEW k \in 1..n, NEW l \in 1..n, r[k].id = r[l].id PROVE k = l
    BY <1>3, <2>1, ListedIs
  <2> QED BY <1>1, <1>3, <2>1 DEF Listed
<1> QED BY <1>1, <1>4, <1>5 DEF r

(* What is taken out does not matter to the rest of the list.                *)
LEMMA RemoveSame ==
  ASSUME NEW list \in Seq(Entries), NEW i \in 1..Len(list), NEW e \in Entries
  PROVE  RemoveAt([list EXCEPT ![i] = e], i) = RemoveAt(list, i)
<1> DEFINE r == [list EXCEPT ![i] = e]
           n == Len(list)
<1>0. n \in Nat /\ DOMAIN list = 1..n
  BY LenProperties
<1>1. r \in Seq(Entries) /\ Len(r) = n /\ DOMAIN r = 1..n
  BY <1>0, ExceptSeq
<1>2. \A k \in 1..n : k # i => r[k] = list[k]
  BY <1>0
<1> HIDE DEF r
<1>3. /\ RemoveAt(r, i) \in Seq(Entries) /\ Len(RemoveAt(r, i)) = n - 1
      /\ RemoveAt(list, i) \in Seq(Entries) /\ Len(RemoveAt(list, i)) = n - 1
  BY <1>0, <1>1, RemoveAtIs
<1>4. ASSUME NEW k \in 1..(n - 1) PROVE RemoveAt(r, i)[k] = RemoveAt(list, i)[k]
  <2>1. RemoveAt(r, i)[k] = IF k < i THEN r[k] ELSE r[k + 1]
    BY <1>0, <1>1, RemoveAtIs
  <2>2. RemoveAt(list, i)[k] = IF k < i THEN list[k] ELSE list[k + 1]
    BY <1>0, RemoveAtIs
  <2>3. k \in 1..n /\ k + 1 \in 1..n /\ (k < i => k # i) /\ (~(k < i) => k + 1 # i)
    BY <1>0
  <2>4. CASE k < i
    BY <1>2, <2>1, <2>2, <2>3, <2>4
  <2>5. CASE ~(k < i)
    BY <1>2, <2>1, <2>2, <2>3, <2>5
  <2> QED BY <2>4, <2>5
<1>5. \A k \in 1..Len(RemoveAt(r, i)) : RemoveAt(r, i)[k] = RemoveAt(list, i)[k]
  BY <1>3, <1>4
<1> QED BY <1>3, <1>5, SeqEqual DEF r

(* A new entry at the front. *)
LEMMA FrontListed ==
  ASSUME NEW list, Listed(list), NEW e, Proper(e), e.p = <<>>,
         \A i \in 1..Len(list) : list[i].id # e.id
  PROVE  /\ Listed(<<e>> \o list) /\ Len(<<e>> \o list) = Len(list) + 1
         /\ HeldIn(<<e>> \o list) = HeldIn(list)
         /\ (<<e>> \o list)[1] = e
         /\ \A k \in 1..Len(list) : (<<e>> \o list)[k + 1] = list[k]
<1> DEFINE r == <<e>> \o list
           n == Len(list)
<1>0. n \in Nat /\ DOMAIN list = 1..n /\ list \in Seq(Entries) /\ e \in Entries
  BY ListedIs DEF Listed, Proper
<1>1. /\ r \in Seq(Entries) /\ Len(r) = n + 1 /\ DOMAIN r = 1..(n + 1) /\ r[1] = e
      /\ \A k \in 1..n : r[k + 1] = list[k]
  <2>1. <<e>> \in Seq(Entries) /\ Len(<<e>>) = 1 /\ <<e>>[1] = e
    BY <1>0
  <2>2. /\ r \in Seq(Entries) /\ Len(r) = 1 + n
        /\ \A k \in 1..(1 + n) : r[k] = IF k <= 1 THEN <<e>>[k] ELSE list[k - 1]
    BY <1>0, <2>1, ConcatProperties
  <2> HIDE DEF r
  <2>3. r[1] = e
    BY <1>0, <2>1, <2>2
  <2>4. ASSUME NEW k \in 1..n PROVE r[k + 1] = list[k]
    <3>1. k + 1 \in 1..(1 + n) /\ ~(k + 1 <= 1) /\ k + 1 - 1 = k
      BY <1>0
    <3> QED BY <2>2, <3>1
  <2>5. DOMAIN r = 1..(n + 1) /\ Len(r) = n + 1
    BY <1>0, <2>2, LenProperties
  <2> QED BY <2>2, <2>3, <2>4, <2>5
<1> HIDE DEF r
<1>2. ASSUME NEW k \in 1..(n + 1) PROVE k = 1 \/ \E j \in 1..n : k = j + 1 /\ r[k] = list[j]
  <2>1. k = 1 \/ (k - 1 \in 1..n /\ k = k - 1 + 1)
    BY <1>0
  <2> QED BY <1>1, <2>1
<1>3. \A k \in 1..(n + 1) : Proper(r[k])
  BY <1>1, <1>2, ListedIs
<1>4. ASSUME NEW k \in 1..(n + 1), NEW l \in 1..(n + 1), r[k].id = r[l].id PROVE k = l
  <2>1. CASE k = 1 \/ l = 1
    BY <1>1, <1>2, <1>4, <2>1
  <2>2. CASE k # 1 /\ l # 1
    <3>1. PICK a \in 1..n : k = a + 1 /\ r[k] = list[a]
      BY <1>2, <2>2
    <3>2. PICK b \in 1..n : l = b + 1 /\ r[l] = list[b]
      BY <1>2, <2>2
    <3>3. a = b
      BY <1>4, <3>1, <3>2, ListedIs
    <3> QED BY <3>1, <3>2, <3>3
  <2> QED BY <2>1, <2>2
<1>5. HeldIn(r) = HeldIn(list)
  <2>1. ASSUME NEW f \in HeldIn(r) PROVE f \in HeldIn(list)
    <3>1. PICK k \in 1..(n + 1) : f \in ToSet(r[k].p)
      BY <1>1 DEF HeldIn
    <3>2. k # 1
      BY <1>1, <3>1 DEF ToSet
    <3> QED BY <1>0, <1>2, <3>1, <3>2 DEF HeldIn
  <2>2. ASSUME NEW f \in HeldIn(list) PROVE f \in HeldIn(r)
    <3>1. PICK j \in 1..n : f \in ToSet(list[j].p)
      BY <1>0 DEF HeldIn
    <3>2. j + 1 \in 1..(n + 1) /\ r[j + 1] = list[j]
      BY <1>0, <1>1
    <3> QED BY <1>1, <3>1, <3>2 DEF HeldIn
  <2> QED BY <2>1, <2>2
<1>6. Listed(r)
  BY <1>1, <1>3, <1>4 DEF Listed
<1> QED BY <1>1, <1>5, <1>6 DEF r

(* Where a fragment is in hand.                                              *)
Reassembling ==
  {"make room", "room made", "make entry", "entry made", "enqueue", "deliver", "broken list"}

(* Types of what IP reassembly and the pool change.                          *)
PathType ==
  /\ pc \in PCs /\ rbus \in BOOLEAN
  /\ frag \in Fragments \cup {Whole, Nothing}
  /\ chain \in Seq(Fragments)
  /\ freed \in Nat /\ pool \in Nat /\ ip_reass_pbufcount \in Nat

(* No datagram is listed without a fragment.                                 *)
ListInv ==
  /\ Listed(reassdatagrams) /\ Len(reassdatagrams) <= MaxDatagrams
  /\ \A i \in 1..Len(reassdatagrams) : reassdatagrams[i].p # <<>>

(* What the main loop has in hand, at each place.                            *)
HandInv ==
  /\ pc = "input" => frag # Nothing
  /\ pc \in Reassembling => frag \in Fragments
  /\ pc \in {"check", "get", "copy", "radio", "send"} => frag = Nothing
  /\ pc # "null pbuf"
  /\ IF pc = "deliver"
     THEN chain # <<>> /\ Piece(chain, frag.id) /\ WholeBut(chain, frag)
     ELSE chain = <<>>

(* The pbufs of what is in hand, and of the packet that is sent.             *)
InHand == IF chain = <<>> THEN FrameClen(frag) ELSE ClenOf(chain)
Sending == IF pc = "send" THEN 1 ELSE 0

(* What the list has lost by a wrong dequeue: fragments of the datagram of   *)
(* the fragment in hand, some but not all.                                   *)
ListBroken ==
  /\ Index = {}
  /\ ip_reass_pbufcount - Cardinality(PbufsOf(HeldIn(reassdatagrams)))
       \in 1..(Cardinality(PbufsOf(FragmentsOf(frag.id))) - 1)

(* Where the pbufs are. *)
CountInv ==
  /\ pc # "broken list" => ip_reass_pbufcount = Cardinality(PbufsOf(HeldIn(reassdatagrams)))
  /\ pc = "broken list" => ListBroken
  /\ pool + ip_reass_pbufcount + Sending + InHand = PoolSize
  /\ freed + ip_reass_pbufcount <= MaxPbufs
  /\ pc \in {"enqueue", "make entry", "entry made"} =>
       ip_reass_pbufcount + Clen(frag) <= MaxPbufs

(* The inductive invariant.                                                  *)
PathInv == PathType /\ ListInv /\ HandInv /\ CountInv

-----------------------------------------------------------------------------
(* What the bounds of the build are assumed to be.                           *)
LEMMA Sizes ==
  /\ PoolSize \in Nat /\ WholeClen \in Nat /\ MaxPbufs \in Nat /\ FirstClen \in Nat
  /\ FirstClen >= 1 /\ FirstClen <= WholeClen /\ PoolSize >= MaxPbufs + WholeClen
  /\ MaxDatagrams \in Nat /\ MaxDatagrams >= 1
  BY PoolAssumption, PartsAssumption

(* A fragment is neither the whole frame nor none.                           *)
LEMMA FrameIs ==
  /\ Whole \notin Fragments /\ Nothing \notin Fragments /\ Whole # Nothing
  /\ FrameClen(Whole) = WholeClen /\ FrameClen(Nothing) = 0
  /\ \A f \in Fragments :
       /\ FrameClen(f) = Clen(f) /\ Clen(f) \in Nat /\ Clen(f) >= 1 /\ Clen(f) <= FirstClen
       /\ f.id \in Ids /\ f \in FragmentsOf(f.id)
<1>1. ASSUME NEW f \in Fragments
      PROVE  f.id \in Ids /\ f \in FragmentsOf(f.id) /\ f # Whole /\ f # Nothing
  <2>1. PICK id \in Ids : f \in FragmentsOf(id)
    BY DEF Fragments
  <2>2. f.id = id /\ f.end = f.start + 1 /\ f.start \in Nat /\ (f.mf <=> f.end < Parts[id])
        /\ Parts[id] \in Nat /\ Parts[id] >= 2
    BY <2>1, FragmentIs
  <2>3. f # Nothing
    <3>1. Nothing.start = 0 /\ Nothing.end = 0
      BY DEF Nothing
    <3> QED BY <2>2, <3>1
  <2>4. f # Whole
    <3>1. Whole.end = 1 /\ ~Whole.mf
      BY DEF Whole
    <3>2. f.end = 1 => f.mf
      BY <2>2
    <3> QED BY <3>1, <3>2
  <2> QED BY <2>1, <2>2, <2>3, <2>4
<1>2. Whole # Nothing
  <2>1. Whole.end = 1 /\ Nothing.end = 0
    BY DEF Whole, Nothing
  <2> QED BY <2>1
<1>3. FrameClen(Whole) = WholeClen /\ FrameClen(Nothing) = 0
  BY <1>2 DEF FrameClen
<1>4. \A f \in Fragments : FrameClen(f) = Clen(f)
  BY <1>1 DEF FrameClen
<1>5. \A f : Clen(f) \in Nat /\ Clen(f) >= 1 /\ Clen(f) <= FirstClen
  BY ClenIs
<1> QED BY <1>1, <1>2, <1>3, <1>4, <1>5

(* Some but not all fragments of a datagram have at least one pbuf, and at   *)
(* least one less than all.                                                  *)
LEMMA SomePbufs ==
  ASSUME NEW S, IsFiniteSet(S), NEW T \in SUBSET S, T # {}, T # S
  PROVE  Cardinality(PbufsOf(T)) \in 1..(Cardinality(PbufsOf(S)) - 1)
<1>1. ASSUME NEW U, IsFiniteSet(U), U # {} PROVE Cardinality(PbufsOf(U)) \in Nat \ {0}
  <2>1. PICK f \in U : TRUE
    BY <1>1
  <2>2. <<f, 1>> \in PbufsOf(U)
    BY <2>1, ClenIs DEF PbufsOf
  <2> QED BY <1>1, <2>2, PbufsFinite, FS_EmptySet
<1>2. /\ IsFiniteSet(S \ T) /\ IsFiniteSet(T) /\ S \ T # {}
      /\ Cardinality(PbufsOf(S \ T)) = Cardinality(PbufsOf(S)) - Cardinality(PbufsOf(T))
  BY PbufsMinus
<1>3. Cardinality(PbufsOf(T)) \in Nat \ {0} /\ Cardinality(PbufsOf(S \ T)) \in Nat \ {0}
  BY <1>1, <1>2
<1>4. Cardinality(PbufsOf(S)) \in Nat
  BY PbufsFinite
<1> HIDE DEF PbufsOf
<1> QED BY <1>2, <1>3, <1>4

(* The oldest dequeued with the wrong prev stands in front of the datagram   *)
(* of the fragment in hand, which is the last.                               *)
LEMMA WrongPrev ==
  ASSUME ListInv, frag \in Fragments, NEW i \in Others(reassdatagrams, frag),
         i = Max(Others(reassdatagrams, frag)), ~PrevIsRight(reassdatagrams, i)
  PROVE  /\ i = Len(reassdatagrams) - 1 /\ Len(reassdatagrams) \in Nat
         /\ reassdatagrams[i + 1].id = frag.id
<1> DEFINE n == Len(reassdatagrams)
<1>1. /\ n \in Nat /\ DOMAIN reassdatagrams = 1..n /\ i \in 1..n /\ i # n
      /\ \A j, k \in 1..n : reassdatagrams[j].id = reassdatagrams[k].id => j = k
  BY ListedIs DEF ListInv, Others, PrevIsRight
<1>2. Others(reassdatagrams, frag) \in SUBSET (1..n)
  BY <1>1 DEF Others
<1>3. \A j \in Others(reassdatagrams, frag) : i >= j
  <2> DEFINE others == Others(reassdatagrams, frag)
  <2>1. n \in Nat /\ others \in SUBSET (1..n) /\ others # {} /\ i = Max(others)
    BY <1>1, <1>2
  <2> HIDE DEF others, n
  <2>2. \A j \in others : Max(others) >= j
    BY <2>1, MaxOf
  <2>3. \A j \in others : i >= j
    BY <2>1, <2>2
  <2> QED BY <2>3 DEF others
<1>4. reassdatagrams[n].id = frag.id /\ n \in 1..n
  <2>1. n \in 1..n /\ ~(i >= n)
    BY <1>1
  <2> QED BY <1>1, <1>3, <2>1 DEF Others
<1>5. i = n - 1
  <2>1. CASE i < n - 1
    <3>0. n \in Nat /\ i \in 1..n
      BY <1>1
    <3> HIDE DEF n
    <3>1. n - 1 \in 1..n /\ n - 1 # n /\ ~(i >= n - 1)
      BY <2>1, <3>0
    <3> USE DEF n
    <3>2. reassdatagrams[n - 1].id = frag.id
      BY <1>1, <1>3, <3>1 DEF Others
    <3> QED BY <1>1, <1>4, <3>1, <3>2
  <2> HIDE DEF n
  <2> QED BY <1>1, <2>1
<1> QED BY <1>1, <1>4, <1>5

(* Without the last two datagrams the list holds what the others hold.       *)
LEMMA TwoLost ==
  ASSUME NEW list, Listed(list), NEW i \in 1..Len(list), i + 1 = Len(list)
  PROVE  /\ HeldIn(SubSeq(list, 1, i - 1))
              = (HeldIn(list) \ ToSet(list[i].p)) \ ToSet(list[i + 1].p)
         /\ ToSet(list[i + 1].p) \in SUBSET (HeldIn(list) \ ToSet(list[i].p))
<1> DEFINE r == SubSeq(list, 1, i - 1)
           n == Len(list)
<1>0. /\ n \in Nat /\ DOMAIN list = 1..n
      /\ \A j, k \in 1..n : j # k => ToSet(list[j].p) \cap ToSet(list[k].p) = {}
      /\ \A j \in 1..n : ToSet(list[j].p) \subseteq HeldIn(list)
  BY ListedIs
<1>1. /\ n \in Nat /\ DOMAIN list = 1..n /\ i + 1 \in 1..n
      /\ \A j, k \in 1..n : j # k => ToSet(list[j].p) \cap ToSet(list[k].p) = {}
      /\ \A j \in 1..n : ToSet(list[j].p) \subseteq HeldIn(list)
  <2>1. i \in 1..n /\ i + 1 = n
    OBVIOUS
  <2> HIDE DEF n
  <2>2. i + 1 \in 1..n
    BY <1>0, <2>1
  <2> QED BY <1>0, <2>2
<1>2. /\ Listed(r) /\ Len(r) = i - 1
      /\ \A k \in 1..(i - 1) : k \in 1..n /\ r[k] = list[k]
  BY PrefixListed
<1>3. DOMAIN r = 1..(i - 1)
  BY <1>2, ListedIs
<1> HIDE DEF r, n
<1>4. ASSUME NEW f \in HeldIn(r)
      PROVE  f \in (HeldIn(list) \ ToSet(list[i].p)) \ ToSet(list[i + 1].p)
  <2>1. PICK k \in 1..(i - 1) : f \in ToSet(r[k].p)
    BY <1>3 DEF HeldIn
  <2>2. k \in 1..n /\ k # i /\ k # i + 1 /\ f \in ToSet(list[k].p)
    BY <1>1, <1>2, <2>1 DEF n
  <2> QED BY <1>1, <2>2 DEF n
<1>5. ASSUME NEW f \in (HeldIn(list) \ ToSet(list[i].p)) \ ToSet(list[i + 1].p)
      PROVE  f \in HeldIn(r)
  <2>1. PICK k \in 1..n : f \in ToSet(list[k].p)
    BY <1>1 DEF HeldIn
  <2>2. k # i /\ k # i + 1
    BY <1>5, <2>1
  <2>3. k \in 1..(i - 1)
    BY <1>1, <2>1, <2>2 DEF n
  <2> QED BY <1>2, <1>3, <2>1, <2>3 DEF HeldIn
<1>6. ToSet(list[i + 1].p) \in SUBSET (HeldIn(list) \ ToSet(list[i].p))
  <2>1. i \in 1..n /\ i + 1 # i
    BY <1>1 DEF n
  <2> QED BY <1>1, <2>1
<1> QED BY <1>4, <1>5, <1>6 DEF r

(* What freeing datagram i does. *)
LEMMA FreedIs ==
  ASSUME ListInv, ip_reass_pbufcount = Cardinality(PbufsOf(HeldIn(reassdatagrams))),
         NEW i \in 1..Len(reassdatagrams)
  PROVE  LET n == ClenOf(reassdatagrams[i].p)
             list == RemoveAt(reassdatagrams, i)
         IN  /\ n \in Nat /\ ip_reass_pbufcount - n \in Nat
             /\ ip_reass_pbufcount - n = Cardinality(PbufsOf(HeldIn(list)))
             /\ Listed(list) /\ Len(list) <= MaxDatagrams
             /\ \A k \in 1..Len(list) : list[k].p # <<>>
<1> DEFINE n == ClenOf(reassdatagrams[i].p)
           list == RemoveAt(reassdatagrams, i)
           S == HeldIn(reassdatagrams)
           T == ToSet(reassdatagrams[i].p)
<1>1. /\ Listed(list) /\ Len(list) = Len(reassdatagrams) - 1 /\ HeldIn(list) = S \ T
      /\ \A k \in 1..(Len(reassdatagrams) - 1) :
           \E j \in 1..Len(reassdatagrams) : j # i /\ list[k] = reassdatagrams[j]
  BY RemoveListed DEF ListInv
<1>2. IsFiniteSet(S) /\ T \in SUBSET S /\ Piece(reassdatagrams[i].p, reassdatagrams[i].id)
  BY ListedIs DEF ListInv, Proper
<1>3. n = Cardinality(PbufsOf(T)) /\ n \in Nat
  BY <1>2, ClenOfIs
<1>4. IsFiniteSet(S \ T) /\ Cardinality(PbufsOf(S \ T)) = Cardinality(PbufsOf(S)) - Cardinality(PbufsOf(T))
  BY <1>2, PbufsMinus
<1>5. Cardinality(PbufsOf(S \ T)) \in Nat
  BY <1>4, PbufsFinite
<1>6. Len(list) <= MaxDatagrams /\ \A k \in 1..Len(list) : list[k].p # <<>>
  <2>1. Len(reassdatagrams) \in Nat
    BY ListedIs DEF ListInv
  <2> HIDE DEF list
  <2> QED BY <1>1, <2>1, Sizes DEF ListInv
<1> HIDE DEF n, list, S, T
<1>7. ip_reass_pbufcount - n = Cardinality(PbufsOf(HeldIn(list))) /\ ip_reass_pbufcount - n \in Nat
  BY <1>1, <1>3, <1>4, <1>5 DEF S
<1>8. n \in Nat /\ Listed(list)
  BY <1>1, <1>3
<1> QED BY <1>6, <1>7, <1>8 DEF n, list

(* The entry of frag's datagram. *)
OwnEntry == IF Index = {} THEN 1 ELSE Max(Index)

(* The list that has an entry for frag's datagram holds the same fragments.  *)
LEMMA EnteredIs ==
  ASSUME ListInv, frag \in Fragments, ~NoEntryLeft
  PROVE  /\ Listed(Entered) /\ Len(Entered) <= MaxDatagrams
         /\ OwnEntry \in 1..Len(Entered) /\ Entered[OwnEntry].id = frag.id
         /\ HeldIn(Entered) = HeldIn(reassdatagrams)
         /\ \A k \in 1..Len(Entered) : k # OwnEntry => Entered[k].p # <<>>
         /\ Index # {} => Entered = reassdatagrams
         /\ Index = {} => Entered[OwnEntry].p = <<>>
<1>0. /\ Len(reassdatagrams) \in Nat /\ DOMAIN reassdatagrams = 1..Len(reassdatagrams)
      /\ Listed(reassdatagrams)
  BY ListedIs DEF ListInv
<1>1. CASE Index # {}
  <2>1. Index \in SUBSET (1..Len(reassdatagrams))
    BY <1>0 DEF Index
  <2>2. Max(Index) \in Index
    BY <1>0, <1>1, <2>1, MaxOf
  <2>3. OwnEntry \in 1..Len(reassdatagrams) /\ reassdatagrams[OwnEntry].id = frag.id
    BY <1>1, <2>1, <2>2 DEF OwnEntry, Index
  <2>4. Entered = reassdatagrams
    BY <1>1 DEF Entered
  <2> QED BY <1>0, <1>1, <2>3, <2>4 DEF ListInv
<1>2. CASE Index = {}
  <2> DEFINE e == [id |-> frag.id, p |-> <<>>, lastfrag |-> FALSE]
  <2>1. Entered = <<e>> \o reassdatagrams /\ OwnEntry = 1
    BY <1>2 DEF Entered, OwnEntry
  <2>2. e \in Entries /\ e.p = <<>> /\ e.id = frag.id /\ e.lastfrag = FALSE
    BY FrameIs DEF Entries
  <2> HIDE DEF e
  <2>3. Proper(e)
    <3>1. ToSet(e.p) = {} /\ DOMAIN e.p = {}
      BY <2>2 DEF ToSet
    <3>2. Sorted(e.p)
      BY <3>1 DEF Sorted
    <3>3. Piece(e.p, e.id)
      BY <2>2, <3>1, <3>2, FrameIs DEF Piece, Entries
    <3>4. frag \in FragmentsOf(e.id)
      BY <2>2, FrameIs
    <3>5. e.lastfrag = \E f \in ToSet(e.p) : ~f.mf
      BY <2>2, <3>1
    <3> QED BY <2>2, <3>1, <3>3, <3>4, <3>5 DEF Proper
  <2>4. \A i \in 1..Len(reassdatagrams) : reassdatagrams[i].id # e.id
    BY <1>0, <1>2, <2>2 DEF Index
  <2>5. /\ Listed(<<e>> \o reassdatagrams)
        /\ Len(<<e>> \o reassdatagrams) = Len(reassdatagrams) + 1
        /\ HeldIn(<<e>> \o reassdatagrams) = HeldIn(reassdatagrams)
        /\ (<<e>> \o reassdatagrams)[1] = e
        /\ \A k \in 1..Len(reassdatagrams) : (<<e>> \o reassdatagrams)[k + 1] = reassdatagrams[k]
    BY <1>0, <2>2, <2>3, <2>4, FrontListed
  <2>6. /\ Listed(Entered) /\ Len(Entered) = Len(reassdatagrams) + 1
        /\ HeldIn(Entered) = HeldIn(reassdatagrams) /\ Entered[1] = e
        /\ \A k \in 1..Len(reassdatagrams) : Entered[k + 1] = reassdatagrams[k]
    BY <2>1, <2>5
  <2>7. Len(Entered) <= MaxDatagrams
    <3>1. Len(reassdatagrams) # MaxDatagrams /\ Len(reassdatagrams) <= MaxDatagrams
      BY <1>2 DEF NoEntryLeft, ListInv
    <3>2. ASSUME NEW x \in Nat, NEW m \in Nat, x # m, x <= m PROVE x + 1 <= m
      BY <3>2
    <3>3. Len(reassdatagrams) \in Nat /\ MaxDatagrams \in Nat
      BY <1>0, Sizes
    <3>4. Len(reassdatagrams) + 1 <= MaxDatagrams
      BY <3>1, <3>2, <3>3
    <3> QED BY <2>6, <3>4
  <2>8. ASSUME NEW k \in 1..Len(Entered), k # 1 PROVE Entered[k].p # <<>>
    <3>1. k - 1 \in 1..Len(reassdatagrams) /\ k - 1 + 1 = k
      BY <1>0, <2>6, <2>8
    <3> QED BY <2>6, <3>1 DEF ListInv
  <2>9. 1 \in 1..Len(Entered)
    BY <1>0, <2>6
  <2> QED BY <1>2, <2>1, <2>2, <2>6, <2>7, <2>8, <2>9
<1> QED BY <1>1, <1>2

(* A record with two of its fields changed.                                  *)
LEMMA TwoFields ==
  ASSUME NEW r \in Entries, NEW q \in Seq(Fragments), NEW c \in BOOLEAN
  PROVE  [[r EXCEPT !.lastfrag = c] EXCEPT !.p = q] = [id |-> r.id, p |-> q, lastfrag |-> c]
<1>1. [r EXCEPT !.lastfrag = c] \in Entries
  BY DEF Entries
<1>2. [r EXCEPT !.lastfrag = c].id = r.id /\ [r EXCEPT !.lastfrag = c].lastfrag = c
  BY DEF Entries
<1>3. ASSUME NEW s \in Entries
      PROVE  [s EXCEPT !.p = q] = [id |-> s.id, p |-> q, lastfrag |-> s.lastfrag]
  BY DEF Entries
<1> HIDE DEF Entries
<1>4. [[r EXCEPT !.lastfrag = c] EXCEPT !.p = q]
        = [id |-> [r EXCEPT !.lastfrag = c].id, p |-> q, lastfrag |-> [r EXCEPT !.lastfrag = c].lastfrag]
  BY <1>1, <1>3, Zenon
<1> QED BY <1>2, <1>4

(* The fragment is thrown away, kept, or completes its datagram.             *)
LEMMA ChainStep ==
  ASSUME PathInv, pc = "enqueue", ~NoEntryLeft, Chain, freed' = 0, UNCHANGED rbus
  PROVE  PathInv'
<1> DEFINE i == OwnEntry
           L == Entered
           p == L[i].p
           q == Chained(p, frag)
           lf == (L[i].lastfrag \/ ~frag.mf)
           M == [L EXCEPT ![i].lastfrag = @ \/ ~frag.mf]
           id == frag.id
<1>1. /\ PathType /\ ListInv /\ HandInv /\ CountInv
      /\ frag \in Fragments /\ chain = <<>> /\ id \in Ids /\ frag \in FragmentsOf(id)
      /\ FrameClen(frag) = Clen(frag) /\ Clen(frag) \in Nat /\ Clen(frag) <= FirstClen
      /\ freed \in Nat /\ pool \in Nat /\ ip_reass_pbufcount \in Nat
  BY FrameIs DEF PathInv, HandInv, Reassembling, PathType
<1>2. /\ Listed(L) /\ Len(L) <= MaxDatagrams /\ i \in 1..Len(L) /\ L[i].id = id
      /\ HeldIn(L) = HeldIn(reassdatagrams)
      /\ \A k \in 1..Len(L) : k # i => L[k].p # <<>>
  BY <1>1, EnteredIs
<1>3. /\ L[i] \in Entries /\ Proper(L[i]) /\ Piece(p, id)
      /\ ToSet(p) # FragmentsOf(id) /\ DOMAIN L = 1..Len(L) /\ L \in Seq(Entries)
      /\ L[i].lastfrag = \E f \in ToSet(p) : ~f.mf
      /\ L[i].lastfrag \in BOOLEAN
  BY <1>2, ListedIs DEF Proper, Listed, Entries
<1>4. /\ ip_reass_pbufcount = Cardinality(PbufsOf(HeldIn(L)))
      /\ pool + ip_reass_pbufcount + Clen(frag) = PoolSize
      /\ ip_reass_pbufcount + Clen(frag) <= MaxPbufs
      /\ IsFiniteSet(HeldIn(L)) /\ ToSet(p) \in SUBSET HeldIn(L)
  <2>1. Sending = 0 /\ InHand = Clen(frag)
    BY <1>1 DEF Sending, InHand
  <2>2. pool + ip_reass_pbufcount + Sending + InHand = PoolSize
    BY <1>1 DEF CountInv
  <2>3. pool + ip_reass_pbufcount + Clen(frag) = PoolSize
    BY <1>1, <2>1, <2>2
  <2> QED BY <1>1, <1>2, <2>3, ListedIs DEF CountInv
<1>5. CASE ~Accepts(p, frag)
  <2>1. ThrowAway(M)
    BY <1>5 DEF Chain, OwnEntry
  <2>2. frag \in ToSet(p)
    BY <1>1, <1>3, <1>5, AcceptsIs
  <2>3. p # <<>>
    BY <2>2 DEF ToSet
  <2>4. M = L
    <3>1. lf = L[i].lastfrag
      BY <1>3, <2>2
    <3>2. [L[i] EXCEPT !.lastfrag = lf] = L[i]
      BY <1>3, <3>1 DEF Entries
    <3>3. M = [L EXCEPT ![i] = [L[i] EXCEPT !.lastfrag = lf]]
      OBVIOUS
    <3>4. [L EXCEPT ![i] = L[i]] = L
      BY <1>2, <1>3
    <3> QED BY <3>2, <3>3, <3>4
  <2> HIDE DEF i, L, p, q, lf, M
  <2>5. /\ reassdatagrams' = L /\ frag' = Nothing /\ pool' = pool + Clen(frag) /\ pc' = "radio"
        /\ chain' = <<>> /\ ip_reass_pbufcount' = ip_reass_pbufcount
    BY <1>1, <2>1, <2>4 DEF ThrowAway
  <2>6. PathType'
    BY <1>1, <2>5 DEF PathType, PCs
  <2>7. ListInv'
    BY <1>2, <2>3, <2>5 DEF ListInv, p
  <2>8. HandInv'
    BY <2>5 DEF HandInv, Reassembling
  <2>9. CountInv'
    <3>1. Sending' = 0 /\ InHand' = 0
      BY <2>5, FrameIs DEF Sending, InHand
    <3>2. pool' + ip_reass_pbufcount' + 0 + 0 = PoolSize
      BY <1>1, <1>4, <2>5
    <3>3. freed' + ip_reass_pbufcount' <= MaxPbufs
      BY <1>1, <1>4, <2>5, Sizes
    <3> QED BY <1>4, <2>5, <3>1, <3>2, <3>3 DEF CountInv
  <2> QED BY <2>6, <2>7, <2>8, <2>9 DEF PathInv
<1>6. CASE Accepts(p, frag)
  <2>0. frag \notin ToSet(p)
    BY <1>1, <1>3, <1>6, AcceptsIs
  <2>1. /\ Piece(q, id) /\ q # <<>> /\ ToSet(q) = ToSet(p) \cup {frag}
        /\ q \in Seq(Fragments) /\ lf \in BOOLEAN
        /\ lf = \E f \in ToSet(q) : ~f.mf
    <3>1. Piece(q, id) /\ q # <<>> /\ ToSet(q) = ToSet(p) \cup {frag}
      BY <1>1, <1>3, <1>6, ChainedIs
    <3>2. lf <=> \E f \in ToSet(q) : ~f.mf
      BY <1>3, <3>1
    <3> QED BY <3>1, <3>2 DEF Piece
  <2>2. /\ IsFiniteSet(ToSet(p)) /\ ClenOf(p) = Cardinality(PbufsOf(ToSet(p))) /\ ClenOf(p) \in Nat
        /\ IsFiniteSet(ToSet(q)) /\ ClenOf(q) = Cardinality(PbufsOf(ToSet(q)))
    BY <1>3, <2>1, ClenOfIs
  <2>3. ClenOf(q) = ClenOf(p) + Clen(frag)
    <3>1. ToSet(p) \cap {frag} = {} /\ IsFiniteSet({frag})
          /\ Cardinality(PbufsOf({frag})) = Clen(frag)
      BY <2>0, PbufsOne
    <3>2. Cardinality(PbufsOf(ToSet(p) \cup {frag})) =
            Cardinality(PbufsOf(ToSet(p))) + Cardinality(PbufsOf({frag}))
      BY <2>2, <3>1, PbufsUnion
    <3> QED BY <2>1, <2>2, <3>1, <3>2
  <2>4. CASE lf /\ Valid(p, frag)
    <3> DEFINE e == [L[i] EXCEPT !.lastfrag = lf]
               R == RemoveAt(L, i)
    <3>1. HandUp(M, i, q)
      <4>1. M[i].lastfrag = lf
        BY <1>2, <1>3 DEF Entries
      <4>2. M[i].p = p
        BY <1>2, <1>3 DEF Entries
      <4> QED BY <1>6, <2>4, <4>1, <4>2 DEF Chain, OwnEntry
    <3>2. RemoveAt(M, i) = R
      <4>1. e \in Entries /\ M = [L EXCEPT ![i] = e]
        BY <1>2, <1>3, <2>1 DEF Entries
      <4> HIDE DEF e, i, L, M
      <4> QED BY <1>2, <1>3, <4>1, RemoveSame
    <3>3. WholeBut(q, frag)
      <4>1. \E g \in ToSet(p) \cup {frag} : ~g.mf
        BY <2>1, <2>4
      <4> HIDE DEF p, lf, id
      <4> QED BY <1>1, <1>3, <1>6, <2>4, <4>1, ValidIsWhole DEF q
    <3>4. /\ Listed(R) /\ Len(R) = Len(L) - 1 /\ HeldIn(R) = HeldIn(L) \ ToSet(p)
          /\ \A k \in 1..(Len(L) - 1) : \E j \in 1..Len(L) : j # i /\ R[k] = L[j]
      <4> HIDE DEF i, L
      <4> QED BY <1>2, RemoveListed
    <3> HIDE DEF i, L, p, q, lf, M, R, id
    <3>5. /\ reassdatagrams' = R /\ ip_reass_pbufcount' = ip_reass_pbufcount + Clen(frag) - ClenOf(q)
          /\ chain' = q /\ pc' = "deliver" /\ frag' = frag /\ pool' = pool
      BY <3>1, <3>2 DEF HandUp
    <3>6. /\ Cardinality(PbufsOf(HeldIn(R))) = Cardinality(PbufsOf(HeldIn(L))) - ClenOf(p)
          /\ Cardinality(PbufsOf(HeldIn(R))) \in Nat
      BY <1>4, <2>2, <3>4, PbufsMinus, PbufsFinite
    <3>7. /\ ip_reass_pbufcount' = ip_reass_pbufcount - ClenOf(p)
          /\ ip_reass_pbufcount' = Cardinality(PbufsOf(HeldIn(R))) /\ ip_reass_pbufcount' \in Nat
      BY <1>1, <1>4, <2>2, <2>3, <3>5, <3>6
    <3>8. PathType'
      BY <1>1, <2>1, <3>5, <3>7 DEF PathType, PCs
    <3>9. ListInv'
      <4>1. Len(L) \in Nat
        BY <1>2, ListedIs
      <4>2. Len(R) <= MaxDatagrams /\ \A k \in 1..Len(R) : R[k].p # <<>>
        BY <1>2, <3>4, <4>1, Sizes
      <4> QED BY <3>4, <3>5, <4>2 DEF ListInv
    <3>10. HandInv'
      BY <1>1, <2>1, <3>3, <3>5 DEF HandInv, Reassembling, id
    <3>11. CountInv'
      <4>1. Sending' = 0 /\ InHand' = ClenOf(q)
        BY <2>1, <3>5 DEF Sending, InHand
      <4>2. pool' + ip_reass_pbufcount' + 0 + ClenOf(q) = PoolSize
        <5>1. /\ pool \in Nat /\ ip_reass_pbufcount \in Nat
              /\ pool + ip_reass_pbufcount + 0 + Clen(frag) = PoolSize
          BY <1>1, <1>4
        <5>2. /\ ClenOf(p) \in Nat /\ Clen(frag) \in Nat /\ ClenOf(q) = ClenOf(p) + Clen(frag)
              /\ pool' = pool /\ ip_reass_pbufcount' = ip_reass_pbufcount - ClenOf(p)
          BY <1>1, <2>2, <2>3, <3>5, <3>7, ClenIs
        <5> QED BY ONLY <5>1, <5>2
      <4>3. freed' + ip_reass_pbufcount' <= MaxPbufs
        <5>1. /\ freed' = 0 /\ ClenOf(p) \in Nat /\ MaxPbufs \in Nat
              /\ ip_reass_pbufcount' = ip_reass_pbufcount - ClenOf(p)
          BY <1>1, <2>2, <3>7, Sizes
        <5>2. /\ ip_reass_pbufcount \in Nat /\ Clen(frag) \in Nat
              /\ ip_reass_pbufcount + Clen(frag) <= MaxPbufs
          BY <1>1, <1>4, ClenIs
        <5> QED BY ONLY <5>1, <5>2
      <4> QED BY <3>5, <3>7, <4>1, <4>2, <4>3 DEF CountInv
    <3> QED BY <3>8, <3>9, <3>10, <3>11 DEF PathInv
  <2>5. CASE ~(lf /\ Valid(p, frag))
    <3> DEFINE e == [id |-> id, p |-> q, lastfrag |-> lf]
               R == [L EXCEPT ![i] = e]
    <3>1. Keep(M, i, q)
      <4>1. M[i].lastfrag = lf
        BY <1>2, <1>3 DEF Entries
      <4>2. M[i].p = p
        BY <1>2, <1>3 DEF Entries
      <4> QED BY <1>6, <2>5, <4>1, <4>2 DEF Chain, OwnEntry
    <3>2. [M EXCEPT ![i].p = q] = R
      <4>1. M = [L EXCEPT ![i] = [L[i] EXCEPT !.lastfrag = lf]]
        OBVIOUS
      <4>2. [[L[i] EXCEPT !.lastfrag = lf] EXCEPT !.p = q] = e
        <5>1. L[i] \in Entries /\ L[i].id = id
          BY <1>2, <1>3
        <5> HIDE DEF L, i, p, q, lf, id, e
        <5>2. q \in Seq(Fragments) /\ lf \in BOOLEAN
          BY <2>1
        <5>3. L[i].id = id
          BY <5>1
        <5>4. [[L[i] EXCEPT !.lastfrag = lf] EXCEPT !.p = q] = [id |-> L[i].id, p |-> q, lastfrag |-> lf]
          BY <5>1, <5>2, TwoFields, Zenon
        <5>5. [id |-> L[i].id, p |-> q, lastfrag |-> lf] = [id |-> id, p |-> q, lastfrag |-> lf]
          BY <5>3
        <5> QED BY <5>4, <5>5 DEF e
      <4>3. M[i] = [L[i] EXCEPT !.lastfrag = lf]
        BY <1>2, <1>3, <4>1
      <4>4. [M EXCEPT ![i].p = q] = [M EXCEPT ![i] = e]
        BY <4>2, <4>3
      <4> HIDE DEF e, L, i, q
      <4>5. [M EXCEPT ![i] = e] = R
        BY <4>1
      <4> QED BY <4>4, <4>5
    <3>3. Proper(e) /\ e.id = id
      <4>1. ToSet(q) # FragmentsOf(id)
        <5> SUFFICES ASSUME ToSet(q) = FragmentsOf(id) PROVE FALSE
          OBVIOUS
        <5>1. Valid(p, frag)
          <6> HIDE DEF p, id
          <6> QED BY <1>1, <1>3, <1>6, CompleteIsValid
        <5>2. lf
          <6>1. Parts[id] \in Nat /\ Parts[id] >= 2
            BY <1>1, PartsAssumption DEF Ids
          <6>2. Parts[id] \in 1..Parts[id] /\ ~(Parts[id] < Parts[id])
            BY <6>1
          <6>3. Fragment(id, Parts[id]) \in FragmentsOf(id) /\ ~Fragment(id, Parts[id]).mf
            BY <6>2 DEF FragmentsOf, Fragment
          <6> HIDE DEF q, lf, id
          <6> QED BY <2>1, <6>3
        <5> QED BY <2>5, <5>1, <5>2
      <4>2. e \in Entries
        BY <1>1, <2>1 DEF Entries
      <4>3. e.p = q /\ e.id = id /\ e.lastfrag = lf
        OBVIOUS
      <4> HIDE DEF e, q, lf, id
      <4> QED BY <2>1, <4>1, <4>2, <4>3 DEF Proper
    <3>4. /\ Listed(R) /\ Len(R) = Len(L)
          /\ HeldIn(R) = (HeldIn(L) \ ToSet(p)) \cup ToSet(q)
      <4>1. e.p = q
        OBVIOUS
      <4> HIDE DEF e, L, i, q
      <4>2. Proper(e) /\ e.id = L[i].id /\ Listed(L) /\ i \in 1..Len(L)
        BY <1>2, <3>3
      <4>3. Listed(R) /\ Len(R) = Len(L)
        BY ONLY <4>2, ReplaceListed
      <4>4. HeldIn(R) = (HeldIn(L) \ ToSet(L[i].p)) \cup ToSet(e.p)
        BY ONLY <4>2, ReplaceListed
      <4> QED BY <4>1, <4>3, <4>4
    <3>5. \A k \in 1..Len(R) : R[k].p # <<>>
      <4>1. e.p = q
        OBVIOUS
      <4> HIDE DEF e, L, i, q
      <4> QED BY <1>2, <1>3, <2>1, <3>4, <4>1
    <3> HIDE DEF i, L, p, q, lf, M, R, id, e
    <3>6. /\ reassdatagrams' = R /\ ip_reass_pbufcount' = ip_reass_pbufcount + Clen(frag)
          /\ chain' = <<>> /\ pc' = "radio" /\ frag' = Nothing /\ pool' = pool
      BY <1>1, <3>1, <3>2 DEF Keep
    <3>7. HeldIn(R) = HeldIn(L) \cup {frag} /\ frag \notin HeldIn(L)
      <4>1. HeldIn(R) = HeldIn(L) \cup {frag}
        BY <1>4, <2>1, <3>4
      <4>2. ASSUME frag \in HeldIn(L) PROVE FALSE
        <5>1. PICK k \in 1..Len(L) : frag \in ToSet(L[k].p)
          BY <1>3, <4>2 DEF HeldIn
        <5>2. L[k].id = id
          BY <1>2, <5>1, ListedIs DEF id
        <5>3. k = i
          BY <1>2, <5>2, ListedIs
        <5> QED BY <2>0, <5>1, <5>3 DEF p
      <4> QED BY <4>1, <4>2
    <3>8. Cardinality(PbufsOf(HeldIn(R))) = ip_reass_pbufcount + Clen(frag)
      <4>1. HeldIn(L) \cap {frag} = {} /\ IsFiniteSet({frag})
            /\ Cardinality(PbufsOf({frag})) = Clen(frag)
        BY <3>7, PbufsOne
      <4>2. Cardinality(PbufsOf(HeldIn(L) \cup {frag})) =
              Cardinality(PbufsOf(HeldIn(L))) + Cardinality(PbufsOf({frag}))
        BY <1>4, <4>1, PbufsUnion
      <4> QED BY <1>4, <3>7, <4>1, <4>2
    <3>9. PathType'
      BY <1>1, <3>6 DEF PathType, PCs
    <3>10. ListInv'
      BY <1>2, <3>4, <3>5, <3>6 DEF ListInv
    <3>11. HandInv'
      BY <3>6 DEF HandInv, Reassembling
    <3>12. CountInv'
      <4>1. Sending' = 0 /\ InHand' = 0
        BY <3>6, FrameIs DEF Sending, InHand
      <4>2. pool' + ip_reass_pbufcount' + 0 + 0 = PoolSize
        BY <1>1, <1>4, <3>6
      <4>3. freed' + ip_reass_pbufcount' <= MaxPbufs
        BY <1>1, <1>4, <3>6, Sizes
      <4> QED BY <3>6, <3>8, <4>1, <4>2, <4>3 DEF CountInv
    <3> QED BY <3>9, <3>10, <3>11, <3>12 DEF PathInv
  <2> QED BY <2>4, <2>5
<1> QED BY <1>5, <1>6

(* What is less still fits.                                                  *)
LEMMA SmallerSum ==
  ASSUME NEW a \in Nat, NEW b \in Nat, NEW k \in Nat, NEW m \in Nat, a + k <= m, b <= a
  PROVE  b + k <= m
  OBVIOUS

(* A step that leaves the list of datagrams alone.                           *)
LEMMA ListAlone ==
  ASSUME PathInv, pc # "broken list", pc' # "broken list", UNCHANGED reass,
         rbus' \in BOOLEAN, pc' \in PCs, HandInv',
         frag' \in Fragments \cup {Whole, Nothing}, chain' \in Seq(Fragments),
         freed' \in Nat, freed' <= freed, pool' \in Nat,
         Sending \in Nat, InHand \in Nat, Sending' \in Nat, InHand' \in Nat,
         pool' + Sending' + InHand' = pool + Sending + InHand,
         pc' \in {"enqueue", "make entry", "entry made"} =>
           ip_reass_pbufcount + Clen(frag') <= MaxPbufs
  PROVE  PathInv'
<1>1. UNCHANGED <<reassdatagrams, ip_reass_pbufcount>>
  BY DEF reass
<1>2. PathType'
  BY <1>1 DEF PathInv, PathType
<1>3. ListInv'
  BY <1>1 DEF PathInv, ListInv
<1>4. CountInv'
  <2>1. /\ pool \in Nat /\ freed \in Nat /\ ip_reass_pbufcount \in Nat /\ MaxPbufs \in Nat
        /\ pool + ip_reass_pbufcount + Sending + InHand = PoolSize
        /\ freed + ip_reass_pbufcount <= MaxPbufs
        /\ ip_reass_pbufcount = Cardinality(PbufsOf(HeldIn(reassdatagrams)))
    BY Sizes DEF PathInv, PathType, CountInv
  <2>2. pool' + ip_reass_pbufcount + Sending' + InHand' = PoolSize
    <3>1. PoolSize \in Nat
      BY Sizes
    <3>2. pool' \in Nat /\ Sending \in Nat /\ InHand \in Nat /\ Sending' \in Nat /\ InHand' \in Nat
          /\ pool' + Sending' + InHand' = pool + Sending + InHand
      OBVIOUS
    <3>3. pool \in Nat /\ ip_reass_pbufcount \in Nat
          /\ pool + ip_reass_pbufcount + Sending + InHand = PoolSize
      BY <2>1
    <3>5. PICK x \in Nat : x = pool'
      BY <3>2
    <3>6. PICK y \in Nat : y = Sending'
      BY <3>2
    <3>7. PICK z \in Nat : z = InHand'
      BY <3>2
    <3>8. x + y + z = pool + Sending + InHand
      BY ONLY <3>2, <3>5, <3>6, <3>7, Zenon
    <3>9. x + ip_reass_pbufcount + y + z = PoolSize
      BY ONLY <3>1, <3>2, <3>3, <3>8
    <3> QED BY ONLY <3>5, <3>6, <3>7, <3>9, Zenon
  <2>3. freed' + ip_reass_pbufcount <= MaxPbufs
    BY <2>1, SmallerSum
  <2> QED BY <1>1, <2>1, <2>2, <2>3 DEF CountInv
<1> QED BY <1>2, <1>3, <1>4 DEF PathInv

(* What is in hand, and what it takes.                                       *)
LEMMA InHandIs ==
  ASSUME PathInv
  PROVE  /\ Sending \in Nat /\ InHand \in Nat
         /\ freed \in Nat /\ pool \in Nat /\ ip_reass_pbufcount \in Nat
         /\ pool + ip_reass_pbufcount + Sending + InHand = PoolSize
         /\ ip_reass_pbufcount <= MaxPbufs
         /\ pc # "deliver" => chain = <<>> /\ InHand = FrameClen(frag)
         /\ FrameClen(frag) \in Nat
         /\ pc = "deliver" => InHand = ClenOf(chain)
<1>1. FrameClen(frag) \in Nat
  BY FrameIs, Sizes DEF PathInv, PathType
<1>2. Sending \in Nat
  BY DEF Sending
<1>3. freed \in Nat /\ pool \in Nat /\ ip_reass_pbufcount \in Nat
      /\ freed + ip_reass_pbufcount <= MaxPbufs /\ MaxPbufs \in Nat
      /\ pool + ip_reass_pbufcount + Sending + InHand = PoolSize
  BY Sizes DEF PathInv, PathType, CountInv
<1>4. ip_reass_pbufcount <= MaxPbufs
  BY <1>3
<1>5. CASE pc # "deliver"
  <2>1. chain = <<>>
    BY <1>5 DEF PathInv, HandInv
  <2> QED BY <1>1, <1>2, <1>3, <1>4, <1>5, <2>1 DEF InHand
<1>6. CASE pc = "deliver"
  <2>1. chain # <<>> /\ Piece(chain, frag.id)
    BY <1>6 DEF PathInv, HandInv
  <2>2. ClenOf(chain) \in Nat
    BY <2>1, ClenOfIs
  <2> QED BY <1>1, <1>2, <1>3, <1>4, <1>6, <2>1, <2>2 DEF InHand
<1> QED BY <1>5, <1>6

(* The frame in hand is freed.                                               *)
LEMMA DropStep ==
  ASSUME PathInv, Drop, pc \in {"input", "make room", "room made", "entry made"}, UNCHANGED rbus
  PROVE  PathInv'
<1>1. /\ frag' = Nothing /\ pool' = pool + FrameClen(frag) /\ freed' = 0 /\ pc' = "radio"
      /\ chain' = chain /\ chain = <<>> /\ UNCHANGED reass /\ UNCHANGED rbus
      /\ InHand = FrameClen(frag) /\ FrameClen(frag) \in Nat
  BY InHandIs DEF Drop
<1>2. HandInv'
  BY <1>1 DEF HandInv, Reassembling
<1>3. Sending = 0 /\ Sending' = 0 /\ InHand' = 0
  BY <1>1, FrameIs DEF Sending, InHand
<1>4. /\ pc' \in PCs /\ rbus' \in BOOLEAN /\ chain' \in Seq(Fragments)
      /\ freed' \in Nat /\ freed' <= freed /\ pool' \in Nat
  <2>1. freed \in Nat /\ pool \in Nat /\ rbus \in BOOLEAN /\ chain \in Seq(Fragments)
    BY DEF PathInv, PathType
  <2>2. pool' \in Nat
    BY ONLY <1>1, <2>1
  <2>3. freed' \in Nat /\ freed' <= freed
    BY ONLY <1>1, <2>1
  <2> QED BY <1>1, <2>1, <2>2, <2>3 DEF PCs
<1>5. pool' + Sending' + InHand' = pool + Sending + InHand
  <2>1. pool \in Nat
    BY DEF PathInv, PathType
  <2>2. pool' = pool + FrameClen(frag) /\ InHand = FrameClen(frag) /\ FrameClen(frag) \in Nat
    BY <1>1
  <2> QED BY ONLY <1>3, <2>1, <2>2
<1>6. frag' \in Fragments \cup {Whole, Nothing}
  BY <1>1
<1>7. ~(pc' \in {"enqueue", "make entry", "entry made"})
  BY <1>1
<1>8. InHand \in Nat /\ InHand' \in Nat /\ Sending \in Nat /\ Sending' \in Nat
  BY <1>1, <1>3
<1> QED BY <1>1, <1>2, <1>4, <1>5, <1>6, <1>7, <1>8, ListAlone

(* The main loop goes on with what it has in hand.                           *)
LEMMA HandAlone ==
  ASSUME PathInv, pc # "broken list", pc' # "broken list",
         UNCHANGED <<frag, chain, reass, pool>>, rbus' \in BOOLEAN,
         freed' = freed \/ freed' = 0, pc' \in PCs, pc # "send", pc' # "send",
         HandInv',
         pc' \in {"enqueue", "make entry", "entry made"} =>
           ip_reass_pbufcount + Clen(frag) <= MaxPbufs
  PROVE  PathInv'
<1>1. Sending' = 0 /\ Sending = 0 /\ InHand' = InHand
  BY DEF Sending, InHand
<1>2. freed' \in Nat /\ freed' <= freed
  <2>1. freed \in Nat
    BY DEF PathInv, PathType
  <2>2. CASE freed' = freed
    BY ONLY <2>1, <2>2
  <2>3. CASE freed' = 0
    BY ONLY <2>1, <2>3
  <2> QED BY <2>2, <2>3
<1>3. pool' + Sending' + InHand' = pool + Sending + InHand
  BY <1>1
<1>4. /\ frag' \in Fragments \cup {Whole, Nothing} /\ chain' \in Seq(Fragments)
      /\ pool' \in Nat /\ UNCHANGED reass
  BY DEF PathInv, PathType
<1>5. Sending \in Nat /\ InHand \in Nat /\ Sending' \in Nat /\ InHand' \in Nat
  BY <1>1, InHandIs
<1>6. pc' \in {"enqueue", "make entry", "entry made"} =>
           ip_reass_pbufcount + Clen(frag') <= MaxPbufs
  OBVIOUS
<1> QED BY <1>2, <1>3, <1>4, <1>5, <1>6, ListAlone

(* ip_input and the test in front of ip_reass_remove_oldest_datagram.        *)
LEMMA InputStep ==
  ASSUME PathInv, Input
  PROVE  PathInv'
<1>1. UNCHANGED rbus /\ pc = "input"
  BY DEF Input, hardware
<1>2. CASE frag = Whole
  BY <1>1, <1>2, DropStep DEF Input
<1>3. CASE frag # Whole
  <2>1. /\ frag \in Fragments /\ chain = <<>> /\ rbus \in BOOLEAN /\ rbus' = rbus
        /\ UNCHANGED <<frag, chain, freed, reass, pool>>
        /\ pc' = IF Overflows THEN "make room" ELSE "enqueue"
    BY <1>1, <1>3 DEF Input, PathInv, PathType, HandInv, hand
  <2>2. HandInv'
    BY <2>1, FrameIs DEF HandInv, Reassembling
  <2>3. pc' = "enqueue" => ip_reass_pbufcount + Clen(frag) <= MaxPbufs
    <3>1. FrameClen(frag) = Clen(frag) /\ Clen(frag) \in Nat /\ MaxPbufs \in Nat
          /\ ip_reass_pbufcount \in Nat
      BY <2>1, FrameIs, Sizes, InHandIs
    <3> QED BY <2>1, <3>1 DEF Overflows
  <2>4. pc' \in {"make room", "enqueue"}
    BY <2>1
  <2> QED BY <1>1, <2>1, <2>2, <2>3, <2>4, HandAlone DEF PCs
<1> QED BY <1>2, <1>3

(* One round of the loop that makes room.                                    *)
LEMMA RemoveOldestStep ==
  ASSUME PathInv, RemoveOldest, pc \in {"make room", "make entry"}, UNCHANGED rbus
  PROVE  PathInv'
<1> DEFINE others == Others(reassdatagrams, frag)
           oldest == Max(others)
           n == ClenOf(reassdatagrams[oldest].p)
<1>1. /\ frag \in Fragments /\ chain = <<>> /\ frag' = frag /\ chain' = chain
      /\ rbus \in BOOLEAN /\ rbus' = rbus /\ others # {}
  BY DEF PathInv, PathType, HandInv, Reassembling, RemoveOldest
<1>2. oldest \in 1..Len(reassdatagrams) /\ oldest \in others
  <2>1. Len(reassdatagrams) \in Nat /\ others \in SUBSET (1..Len(reassdatagrams))
    BY ListedIs DEF PathInv, ListInv, Others
  <2> HIDE DEF others
  <2> QED BY <1>1, <2>1, MaxOf
<1>3. /\ reassdatagrams' = Dequeued(reassdatagrams, oldest)
      /\ ip_reass_pbufcount' = ip_reass_pbufcount - n
      /\ pool' = pool + n /\ freed' = freed + n
  BY DEF RemoveOldest, FreeDatagram
<1>4. /\ pc' \in {"make room", "room made", "make entry", "entry made", "broken list"}
      /\ pc' \in {"make entry", "entry made"} => pc = "make entry"
      /\ pc' # "broken list" => PrevIsRight(reassdatagrams, oldest)
  BY DEF RemoveOldest
<1>5. /\ n \in Nat /\ ip_reass_pbufcount - n \in Nat
      /\ ip_reass_pbufcount - n = Cardinality(PbufsOf(HeldIn(RemoveAt(reassdatagrams, oldest))))
      /\ Listed(RemoveAt(reassdatagrams, oldest))
      /\ Len(RemoveAt(reassdatagrams, oldest)) <= MaxDatagrams
      /\ \A k \in 1..Len(RemoveAt(reassdatagrams, oldest)) :
           RemoveAt(reassdatagrams, oldest)[k].p # <<>>
  <2> HIDE DEF others, oldest
  <2> QED BY <1>2, FreedIs DEF PathInv, CountInv
<1>6. ListInv'
  <2>1. CASE PrevIsRight(reassdatagrams, oldest)
    BY <1>3, <1>5, <2>1 DEF ListInv, Dequeued
  <2>2. CASE ~PrevIsRight(reassdatagrams, oldest)
    <3> HIDE DEF others, oldest
    <3>1. reassdatagrams' = SubSeq(reassdatagrams, 1, oldest - 1)
      BY <1>3, <2>2 DEF Dequeued
    <3>2. /\ Listed(reassdatagrams) /\ Len(reassdatagrams) <= MaxDatagrams
          /\ \A i \in 1..Len(reassdatagrams) : reassdatagrams[i].p # <<>>
          /\ Len(reassdatagrams) \in Nat /\ MaxDatagrams \in Nat
      BY Sizes, ListedIs DEF PathInv, ListInv
    <3>3. /\ Listed(reassdatagrams') /\ Len(reassdatagrams') = oldest - 1
          /\ \A k \in 1..(oldest - 1) :
               k \in 1..Len(reassdatagrams) /\ reassdatagrams'[k] = reassdatagrams[k]
      BY <1>2, <3>1, <3>2, PrefixListed
    <3>4. Len(reassdatagrams') <= MaxDatagrams
      <4>1. Len(reassdatagrams') = oldest - 1 /\ oldest \in 1..Len(reassdatagrams)
            /\ Len(reassdatagrams) \in Nat /\ Len(reassdatagrams) <= MaxDatagrams
            /\ MaxDatagrams \in Nat
        BY <1>2, <3>2, <3>3
      <4>2. oldest - 1 <= MaxDatagrams
        BY ONLY <4>1
      <4> QED BY <4>1, <4>2
    <3>5. \A k \in 1..Len(reassdatagrams') : reassdatagrams'[k].p # <<>>
      BY <3>2, <3>3
    <3> QED BY <3>3, <3>4, <3>5 DEF ListInv
  <2> QED BY <2>1, <2>2
<1>7. pc' # "broken list" =>
        ip_reass_pbufcount' = Cardinality(PbufsOf(HeldIn(reassdatagrams')))
  BY <1>3, <1>4, <1>5 DEF Dequeued
<1>13. pc' = "broken list" => ListBroken'
  <2> SUFFICES ASSUME pc' = "broken list" PROVE ListBroken'
    OBVIOUS
  <2>1. ~PrevIsRight(reassdatagrams, oldest)
    BY DEF RemoveOldest
  <2> HIDE DEF others, n
  <2>2. /\ oldest = Len(reassdatagrams) - 1 /\ Len(reassdatagrams) \in Nat
        /\ reassdatagrams[oldest + 1].id = frag.id
    BY <1>1, <1>2, <2>1, WrongPrev DEF PathInv, others
  <2> HIDE DEF oldest
  <2>3. reassdatagrams' = SubSeq(reassdatagrams, 1, oldest - 1)
    BY <1>3, <2>1 DEF Dequeued
  <2> DEFINE T == ToSet(reassdatagrams[oldest + 1].p)
             F == FragmentsOf(frag.id)
             S == HeldIn(reassdatagrams) \ ToSet(reassdatagrams[oldest].p)
  <2>4. /\ oldest + 1 = Len(reassdatagrams) /\ oldest + 1 \in 1..Len(reassdatagrams)
        /\ oldest - 1 < oldest + 1 /\ Listed(reassdatagrams)
    <3>1. /\ oldest = Len(reassdatagrams) - 1 /\ Len(reassdatagrams) \in Nat
          /\ oldest \in 1..Len(reassdatagrams)
      BY <1>2, <2>2
    <3>2. /\ oldest + 1 = Len(reassdatagrams) /\ oldest + 1 \in 1..Len(reassdatagrams)
          /\ oldest - 1 < oldest + 1
      BY ONLY <3>1
    <3> QED BY <3>2 DEF PathInv, ListInv
  <2>5. HeldIn(reassdatagrams') = S \ T /\ T \in SUBSET S /\ IsFiniteSet(S)
    <3>1. IsFiniteSet(HeldIn(reassdatagrams))
      BY <2>4, ListedIs
    <3> QED BY <1>2, <2>3, <2>4, <3>1, TwoLost, FS_Subset
  <2>6. /\ IsFiniteSet(F) /\ T \in SUBSET F /\ T # {} /\ T # F
    <3> DEFINE r == reassdatagrams[oldest + 1]
    <3>1. Proper(r) /\ r.p # <<>> /\ r.id = frag.id
      BY <2>2, <2>4, ListedIs DEF PathInv, ListInv
    <3>2. T \subseteq F /\ T # F /\ r.p \in Seq(Fragments)
      BY <3>1 DEF Proper, Piece
    <3>3. T # {}
      <4> DEFINE p == r.p
      <4>1. p \in Seq(Fragments) /\ p # <<>>
        BY <3>1, <3>2
      <4> HIDE DEF p
      <4>2. 1 \in DOMAIN p
        BY ONLY <4>1, LenProperties, EmptySeq
      <4>3. p[1] \in ToSet(p)
        BY <4>2 DEF ToSet
      <4> QED BY <4>3 DEF p
    <3>4. IsFiniteSet(F)
      BY <1>1, FrameIs, FragmentsFinite
    <3> QED BY <3>2, <3>3, <3>4
  <2>7. Cardinality(PbufsOf(T)) \in 1..(Cardinality(PbufsOf(F)) - 1)
    <3> HIDE DEF T, F
    <3> QED BY <2>6, SomePbufs
  <2>8. Cardinality(PbufsOf(S \ T)) = Cardinality(PbufsOf(S)) - Cardinality(PbufsOf(T))
    <3> HIDE DEF S, T
    <3> QED BY <2>5, PbufsMinus
  <2>9. ip_reass_pbufcount' = Cardinality(PbufsOf(S))
    BY <1>2, <1>3, <1>5, <2>4, RemoveListed
  <2>10. ip_reass_pbufcount' - Cardinality(PbufsOf(HeldIn(reassdatagrams')))
           \in 1..(Cardinality(PbufsOf(F)) - 1)
    <3> HIDE DEF S, T, F
    <3>1. Cardinality(PbufsOf(S)) \in Nat
      BY <2>5, PbufsFinite
    <3>2. Cardinality(PbufsOf(HeldIn(reassdatagrams'))) =
            Cardinality(PbufsOf(S)) - Cardinality(PbufsOf(T))
      BY <2>5, <2>8
    <3> QED BY ONLY <2>7, <2>9, <3>1, <3>2
  <2>11. Index' = {}
    <3>1. /\ Listed(reassdatagrams') /\ Len(reassdatagrams') = oldest - 1
          /\ \A k \in 1..(oldest - 1) :
               k \in 1..Len(reassdatagrams) /\ reassdatagrams'[k] = reassdatagrams[k]
      BY <1>2, <2>3, <2>4, PrefixListed
    <3>2. DOMAIN reassdatagrams' = 1..(oldest - 1)
      BY <3>1, ListedIs
    <3>3. \A k \in 1..(oldest - 1) : k # oldest + 1
      <4>1. oldest \in 1..Len(reassdatagrams) /\ Len(reassdatagrams) \in Nat
        BY <1>2, <2>2
      <4> QED BY ONLY <4>1
    <3>4. \A j, k \in 1..Len(reassdatagrams) :
            reassdatagrams[j].id = reassdatagrams[k].id => j = k
      BY <2>4, ListedIs
    <3>5. \A k \in 1..(oldest - 1) : reassdatagrams'[k].id # frag.id
      BY ONLY <2>2, <2>4, <3>1, <3>3, <3>4
    <3> QED BY <1>1, <3>2, <3>5 DEF Index
  <2> QED BY <1>1, <2>10, <2>11 DEF ListBroken
<1> HIDE DEF others, oldest, n
<1>8. freed \in Nat /\ pool \in Nat /\ ip_reass_pbufcount \in Nat /\ chain \in Seq(Fragments)
      /\ freed + n \in Nat /\ pool + n \in Nat
  <2>1. freed \in Nat /\ pool \in Nat /\ ip_reass_pbufcount \in Nat /\ chain \in Seq(Fragments)
    BY DEF PathInv, PathType
  <2>2. n \in Nat
    BY <1>5
  <2>3. freed + n \in Nat /\ pool + n \in Nat
    BY ONLY <2>1, <2>2
  <2> QED BY <2>1, <2>3
<1>9. PathType'
  <2>1. pc' \in PCs /\ freed' \in Nat /\ pool' \in Nat /\ ip_reass_pbufcount' \in Nat
    BY <1>3, <1>4, <1>5, <1>8 DEF PCs
  <2> QED BY <1>1, <1>8, <2>1 DEF PathType
<1>10. HandInv'
  BY <1>1, <1>4, FrameIs DEF HandInv, Reassembling
<1>11. n \in Nat /\ ip_reass_pbufcount - n \in Nat
  BY <1>5
<1>12. CountInv'
  <2>1. Sending = 0 /\ Sending' = 0 /\ InHand' = InHand
    BY <1>1, <1>4 DEF Sending, InHand
  <2>2. pool' + ip_reass_pbufcount' + Sending' + InHand' = PoolSize
    <3>1. pool + ip_reass_pbufcount + 0 + InHand = PoolSize /\ InHand \in Nat /\ PoolSize \in Nat
      BY <2>1, InHandIs, Sizes
    <3>2. (pool + n) + (ip_reass_pbufcount - n) + 0 + InHand = PoolSize
      BY ONLY <1>8, <1>11, <3>1
    <3> QED BY <1>3, <2>1, <3>2
  <2>3. freed' + ip_reass_pbufcount' <= MaxPbufs
    <3>1. freed + ip_reass_pbufcount <= MaxPbufs
      BY DEF PathInv, CountInv
    <3>2. (freed + n) + (ip_reass_pbufcount - n) = freed + ip_reass_pbufcount
      BY ONLY <1>8, <1>11
    <3> QED BY <1>3, <3>1, <3>2
  <2>4. ASSUME pc' \in {"make entry", "entry made"}
        PROVE  ip_reass_pbufcount' + Clen(frag') <= MaxPbufs
    <3>1. ip_reass_pbufcount + Clen(frag) <= MaxPbufs
      BY <1>4, <2>4 DEF PathInv, CountInv
    <3>2. Clen(frag) \in Nat /\ ip_reass_pbufcount \in Nat /\ MaxPbufs \in Nat
      BY <1>1, FrameIs, InHandIs, Sizes
    <3>3. ip_reass_pbufcount - n + Clen(frag) <= MaxPbufs
      <4>1. ASSUME NEW a \in Nat, NEW b \in Nat, NEW c \in Nat, a + b <= c PROVE a - n + b <= c
        BY ONLY <1>11, <4>1
      <4> QED BY <3>1, <3>2, <4>1
    <3> QED BY <1>1, <1>3, <3>3
  <2> QED BY <1>4, <1>7, <1>13, <2>2, <2>3, <2>4 DEF CountInv
<1> QED BY <1>6, <1>9, <1>10, <1>12 DEF PathInv

(* Room for one more fragment.                                               *)
LEMMA MakeRoomStep ==
  ASSUME PathInv, MakeRoom
  PROVE  PathInv'
<1>1. UNCHANGED rbus /\ pc = "make room" /\ (RemoveOldest \/ Drop)
  BY DEF MakeRoom, hardware
<1> QED BY <1>1, RemoveOldestStep, DropStep

(* Room for one more datagram.                                               *)
LEMMA MakeEntryStep ==
  ASSUME PathInv, MakeEntry
  PROVE  PathInv'
<1>1. UNCHANGED rbus /\ pc = "make entry" /\ RemoveOldest
  BY DEF MakeEntry, hardware
<1> QED BY <1>1, RemoveOldestStep

(* The tests behind ip_reass_remove_oldest_datagram.                         *)
LEMMA RoomMadeStep ==
  ASSUME PathInv, RoomMade \/ EntryMade
  PROVE  PathInv'
<1>1. /\ UNCHANGED rbus /\ pc \in {"room made", "entry made"} /\ frag \in Fragments /\ chain = <<>>
      /\ rbus \in BOOLEAN
  BY DEF RoomMade, EntryMade, hardware, PathInv, PathType, HandInv, Reassembling
<1>2. CASE Drop
  BY <1>1, <1>2, DropStep
<1>3. CASE ~Drop
  <2>1. /\ pc' = "enqueue" /\ freed' = 0 /\ UNCHANGED <<frag, chain, reass, pool>>
        /\ pc = "room made" => ~Overflows
    BY <1>3 DEF RoomMade, EntryMade
  <2>2. HandInv'
    BY <1>1, <2>1, FrameIs DEF HandInv, Reassembling
  <2>3. ip_reass_pbufcount + Clen(frag) <= MaxPbufs
    <3>1. CASE pc = "room made"
      <4>1. FrameClen(frag) = Clen(frag) /\ Clen(frag) \in Nat /\ MaxPbufs \in Nat
            /\ ip_reass_pbufcount \in Nat
        BY <1>1, FrameIs, Sizes, InHandIs
      <4>2. ~(ip_reass_pbufcount + Clen(frag) > MaxPbufs)
        BY <2>1, <3>1, <4>1 DEF Overflows
      <4> QED BY <4>1, <4>2
    <3>2. CASE pc = "entry made"
      BY <3>2 DEF PathInv, CountInv
    <3> QED BY <1>1, <3>1, <3>2
  <2> QED BY <1>1, <2>1, <2>2, <2>3, HandAlone DEF PCs
<1> QED BY <1>2, <1>3

(* ip_reass with the entry of the datagram.                                  *)
LEMMA EnqueueStep ==
  ASSUME PathInv, Enqueue
  PROVE  PathInv'
<1>1. UNCHANGED rbus /\ pc = "enqueue" /\ freed' = 0
  BY DEF Enqueue, hardware
<1>2. CASE NoEntryLeft
  <2>1. pc' = "make entry" /\ UNCHANGED <<frag, chain, reass, pool>>
    BY <1>2 DEF Enqueue
  <2>2. frag \in Fragments /\ chain = <<>> /\ rbus \in BOOLEAN
        /\ ip_reass_pbufcount + Clen(frag) <= MaxPbufs
    BY <1>1 DEF PathInv, PathType, HandInv, Reassembling, CountInv
  <2>3. HandInv'
    BY <2>1, <2>2, FrameIs DEF HandInv, Reassembling
  <2> QED BY <1>1, <2>1, <2>2, <2>3, HandAlone DEF PCs
<1>3. CASE ~NoEntryLeft
  BY <1>1, <1>3, ChainStep DEF Enqueue
<1> QED BY <1>2, <1>3

(* The pbufs of a datagram handed up go back to the pool.                    *)
LEMMA DeliverStep ==
  ASSUME PathInv, Deliver
  PROVE  PathInv'
<1>1. /\ pc = "deliver" /\ pool' = pool + ClenOf(chain) /\ chain' = <<>> /\ frag' = Nothing
      /\ pc' = "radio" /\ UNCHANGED <<freed, reass, rbus>>
  BY DEF Deliver, hardware
<1>2. HandInv'
  BY <1>1 DEF HandInv, Reassembling
<1>3. Sending = 0 /\ Sending' = 0 /\ InHand' = 0 /\ InHand = ClenOf(chain) /\ ClenOf(chain) \in Nat
  BY <1>1, FrameIs, InHandIs DEF Sending, InHand
<1>4. pool' \in Nat /\ freed' \in Nat /\ freed' <= freed /\ rbus' \in BOOLEAN
      /\ chain' \in Seq(Fragments) /\ pc' \in PCs
  BY <1>1, <1>3, InHandIs DEF PathInv, PathType, PCs
<1>5. pool' + Sending' + InHand' = pool + Sending + InHand
  BY <1>1, <1>3, InHandIs
<1>6. InHand \in Nat /\ InHand' \in Nat /\ Sending \in Nat /\ Sending' \in Nat
  BY <1>3
<1>7. frag' \in Fragments \cup {Whole, Nothing} /\ ~(pc' \in {"enqueue", "make entry", "entry made"})
  BY <1>1
<1> QED BY <1>1, <1>2, <1>4, <1>5, <1>6, <1>7, ListAlone

(* A frame takes its pbufs from the pool, or is left out.                    *)
LEMMA CopyFrameStep ==
  ASSUME PathInv, CopyFrame
  PROVE  PathInv'
<1>1. /\ pc = "copy" /\ pc' = "release" /\ UNCHANGED <<rbus, chain, freed, reass>>
      /\ frag = Nothing /\ chain = <<>>
  BY DEF CopyFrame, hardware, PathInv, HandInv
<1>2. /\ frag' \in Fragments \cup {Whole, Nothing} /\ FrameClen(frag') \in Nat
      /\ pool' \in Nat /\ pool' + FrameClen(frag') = pool
  <2>1. PICK f \in Fragments \cup {Whole} :
          IF FrameClen(f) <= pool THEN frag' = f /\ pool' = pool - FrameClen(f)
          ELSE frag' = Nothing /\ UNCHANGED pool
    BY DEF CopyFrame
  <2>2. FrameClen(f) \in Nat /\ pool \in Nat
    BY FrameIs, Sizes, InHandIs
  <2>3. CASE FrameClen(f) <= pool
    BY <2>1, <2>2, <2>3
  <2>4. CASE ~(FrameClen(f) <= pool)
    BY <2>1, <2>2, <2>4, FrameIs
  <2> QED BY <2>3, <2>4
<1>3. HandInv'
  BY <1>1 DEF HandInv, Reassembling
<1>4. Sending = 0 /\ Sending' = 0 /\ InHand' = FrameClen(frag') /\ InHand = 0
  BY <1>1, FrameIs DEF Sending, InHand
<1>5. /\ freed' \in Nat /\ freed' <= freed /\ rbus' \in BOOLEAN
      /\ chain' \in Seq(Fragments) /\ pc' \in PCs
  BY <1>1, InHandIs DEF PathInv, PathType, PCs
<1>6. pool' + Sending' + InHand' = pool + Sending + InHand
  BY <1>2, <1>4, InHandIs
<1>7. InHand \in Nat /\ InHand' \in Nat /\ Sending \in Nat /\ Sending' \in Nat
  BY <1>2, <1>4
<1>8. ~(pc' \in {"enqueue", "make entry", "entry made"})
  BY <1>1
<1> QED BY <1>1, <1>2, <1>3, <1>5, <1>6, <1>7, <1>8, ListAlone

(* Every packet of the radio finds its pbuf.                                 *)
LEMMA AllocPacketStep ==
  ASSUME PathInv, AllocPacket
  PROVE  PathInv'
<1>1. /\ pc = "radio" /\ UNCHANGED <<rbus, frag, chain, freed, reass>>
      /\ frag = Nothing /\ chain = <<>>
      /\ IF pool > 0 THEN pc' = "send" /\ pool' = pool - 1
         ELSE pc' = "null pbuf" /\ UNCHANGED pool
  BY DEF AllocPacket, hardware, hand, PathInv, HandInv
<1>2. Sending = 0 /\ InHand = 0
  BY <1>1, FrameIs DEF Sending, InHand
<1>3. pool > 0
  BY <1>2, InHandIs, Sizes
<1>4. pc' = "send" /\ pool' = pool - 1 /\ pool' \in Nat
  BY <1>1, <1>3, InHandIs
<1>5. Sending' = 1 /\ InHand' = 0
  BY <1>1, <1>4, FrameIs DEF Sending, InHand
<1>6. HandInv'
  BY <1>1, <1>4 DEF HandInv, Reassembling
<1>7. /\ freed' \in Nat /\ freed' <= freed /\ rbus' \in BOOLEAN
      /\ chain' \in Seq(Fragments) /\ pc' \in PCs /\ frag' \in Fragments \cup {Whole, Nothing}
  BY <1>1, <1>4, InHandIs DEF PathInv, PathType, PCs
<1>8. pool' + Sending' + InHand' = pool + Sending + InHand
  BY <1>2, <1>4, <1>5, InHandIs
<1>9. InHand \in Nat /\ InHand' \in Nat /\ Sending \in Nat /\ Sending' \in Nat
      /\ ~(pc' \in {"enqueue", "make entry", "entry made"})
  BY <1>2, <1>4, <1>5
<1> QED BY <1>1, <1>4, <1>6, <1>7, <1>8, <1>9, ListAlone

(* The pbuf of a packet goes back to the pool.                               *)
LEMMA SendPacketStep ==
  ASSUME PathInv, SendPacket
  PROVE  PathInv'
<1>1. /\ pc = "send" /\ pc' = "check" /\ pool' = pool + 1
      /\ UNCHANGED <<rbus, frag, chain, freed, reass>>
      /\ frag = Nothing /\ chain = <<>>
  BY DEF SendPacket, hardware, hand, PathInv, HandInv
<1>2. Sending = 1 /\ InHand = 0 /\ Sending' = 0 /\ InHand' = 0
  BY <1>1, FrameIs DEF Sending, InHand
<1>3. HandInv'
  BY <1>1 DEF HandInv, Reassembling
<1>4. /\ freed' \in Nat /\ freed' <= freed /\ rbus' \in BOOLEAN /\ pool' \in Nat
      /\ chain' \in Seq(Fragments) /\ pc' \in PCs /\ frag' \in Fragments \cup {Whole, Nothing}
  BY <1>1, InHandIs DEF PathInv, PathType, PCs
<1>5. pool' + Sending' + InHand' = pool + Sending + InHand
  BY <1>1, <1>2, InHandIs
<1>6. InHand \in Nat /\ InHand' \in Nat /\ Sending \in Nat /\ Sending' \in Nat
      /\ ~(pc' \in {"enqueue", "make entry", "entry made"})
  BY <1>1, <1>2
<1> QED BY <1>1, <1>3, <1>4, <1>5, <1>6, ListAlone

(* The steps of the ring and of the DMA.                                     *)
LEMMA RingAside ==
  ASSUME PathInv,
         \/ CheckFrameReceived \/ GetReceivedFrame \/ ReleaseDescriptor \/ ResumeReception
         \/ NoPacket \/ Dma \/ UNCHANGED vars
  PROVE  PathInv'
<1>1. UNCHANGED <<frag, chain, freed, reass, pool>>
  BY DEF CheckFrameReceived, GetReceivedFrame, ReleaseDescriptor, ResumeReception, NoPacket,
         Dma, DmaPoll, DmaStore, DmaNextFrame, vars, hand
<1>2. rbus' \in BOOLEAN
  BY DEF CheckFrameReceived, GetReceivedFrame, ReleaseDescriptor, ResumeReception, NoPacket,
         Dma, DmaPoll, DmaStore, DmaNextFrame, vars, hardware, PathInv, PathType
<1>3. CASE UNCHANGED pc
  <2>1. UNCHANGED <<pc, frag, chain, freed, pool, reassdatagrams, ip_reass_pbufcount>>
    BY <1>1, <1>3 DEF reass
  <2>2. PathType' /\ ListInv' /\ HandInv'
    BY <1>2, <2>1 DEF PathInv, PathType, ListInv, HandInv
  <2>3. CountInv'
    BY <2>1 DEF PathInv, CountInv, ListBroken, Index, Sending, InHand
  <2> QED BY <2>2, <2>3 DEF PathInv
<1>4. CASE pc' # pc
  <2>1. \/ CheckFrameReceived \/ GetReceivedFrame \/ ReleaseDescriptor \/ ResumeReception
        \/ NoPacket
    BY <1>4 DEF Dma, DmaPoll, DmaStore, DmaNextFrame, vars
  <2>2. /\ pc' \in {"check", "get", "copy", "resume", "radio", "input"}
        /\ pc \in {"check", "get", "release", "resume", "radio"}
    BY <2>1 DEF CheckFrameReceived, GetReceivedFrame, ReleaseDescriptor, ResumeReception, NoPacket
  <2>3. chain = <<>> /\ (pc' = "input" => frag # Nothing)
        /\ (pc' \in {"check", "get", "copy", "radio"} => frag = Nothing)
    BY <2>1, <2>2 DEF CheckFrameReceived, GetReceivedFrame, ReleaseDescriptor, ResumeReception,
         NoPacket, PathInv, HandInv
  <2>4. HandInv'
    BY <1>1, <2>2, <2>3 DEF HandInv, Reassembling
  <2>5. pc' \in PCs /\ pc # "send" /\ pc' # "send"
        /\ pc # "broken list" /\ pc' # "broken list"
        /\ ~(pc' \in {"enqueue", "make entry", "entry made"})
    BY <2>2 DEF PCs
  <2> QED BY <1>1, <1>2, <2>4, <2>5, HandAlone
<1> QED BY <1>3, <1>4

(* It holds at the start.                                                    *)
LEMMA InitPath ==
  ASSUME Init
  PROVE  PathInv
<1>1. /\ rbus = FALSE /\ pc = "check" /\ frag = Nothing /\ chain = <<>> /\ freed = 0
      /\ reassdatagrams = <<>> /\ ip_reass_pbufcount = 0 /\ pool = PoolSize
  BY DEF Init
<1>2. PathType
  <2>1. chain \in Seq(Fragments)
    BY <1>1
  <2> QED BY <1>1, <2>1, Sizes DEF PathType, PCs
<1>3. ListInv
  <2>1. Listed(<<>>)
    BY DEF Listed
  <2> QED BY <1>1, <2>1, Sizes DEF ListInv
<1>4. HandInv
  BY <1>1 DEF HandInv, Reassembling
<1>5. CountInv
  <2>1. HeldIn(reassdatagrams) = {}
    BY <1>1 DEF HeldIn
  <2>2. PbufsOf({}) = {} /\ Cardinality(PbufsOf({})) = 0
    BY FS_EmptySet DEF PbufsOf
  <2>3. Sending = 0 /\ InHand = 0
    BY <1>1, FrameIs DEF Sending, InHand
  <2>4. ip_reass_pbufcount = Cardinality(PbufsOf(HeldIn(reassdatagrams)))
    BY <1>1, <2>1, <2>2
  <2> QED BY <1>1, <2>3, <2>4, Sizes DEF CountInv
<1> QED BY <1>2, <1>3, <1>4, <1>5 DEF PathInv

(* It is kept by every step.                                                 *)
LEMMA PathStep ==
  ASSUME PathInv, [Next]_vars
  PROVE  PathInv'
BY InputStep, MakeRoomStep, MakeEntryStep, RoomMadeStep, EnqueueStep, DeliverStep, CopyFrameStep,
   AllocPacketStep, SendPacketStep, RingAside DEF Next, MainLoop

-----------------------------------------------------------------------------
(* Theorems about the pbufs and the list of datagrams *)

(* Type correctness, for any datagrams and any bounds the build may set: the *)
(* list of ip_reass holds each datagram once, with fragments of its own in   *)
(* ascending order, and IP_REASS_FLAG_LASTFRAG says whether the last is in.  *)
THEOREM TypeCorrect == Spec => []TypeOK
<1>1. ASSUME RingInv, PathInv PROVE TypeOK
  <2>1. /\ own \in [Descs -> BOOLEAN] /\ slot \in [Descs -> Numbers]
        /\ {DMARxDescToGet, desc, dma.at} \subseteq Descs
        /\ dma.pc \in {"poll", "armed", "suspended"} /\ rbus \in BOOLEAN
        /\ {stored, fetched} \subseteq Numbers
        /\ pc \in PCs /\ frag \in Fragments \cup {Whole, Nothing}
        /\ chain \in Seq(Fragments)
    BY <1>1 DEF RingInv, RingType, PathInv, PathType
  <2>2. freed \in 0..MaxPbufs
    <3>1. freed + ip_reass_pbufcount <= MaxPbufs
      BY <1>1 DEF PathInv, CountInv
    <3>2. freed \in Nat /\ ip_reass_pbufcount \in Nat /\ MaxPbufs \in Nat
      BY <1>1, Sizes DEF PathInv, PathType
    <3> QED BY ONLY <3>1, <3>2
  <2>3. pool \in 0..PoolSize
    <3>1. /\ pool \in Nat /\ ip_reass_pbufcount \in Nat /\ Sending \in Nat /\ InHand \in Nat
          /\ PoolSize \in Nat /\ pool + ip_reass_pbufcount + Sending + InHand = PoolSize
      BY <1>1, InHandIs, Sizes
    <3> QED BY ONLY <3>1
  <2>4. Len(reassdatagrams) <= MaxDatagrams /\ Listed(reassdatagrams)
        /\ \A i \in 1..Len(reassdatagrams) : reassdatagrams[i].p # <<>>
    BY <1>1 DEF PathInv, ListInv
  <2>5. /\ DOMAIN reassdatagrams = 1..Len(reassdatagrams)
        /\ \A i \in 1..Len(reassdatagrams) : Proper(reassdatagrams[i])
        /\ \A i, j \in 1..Len(reassdatagrams) :
             reassdatagrams[i].id = reassdatagrams[j].id => i = j
    BY <2>4, ListedIs
  <2>6. ASSUME NEW i \in DOMAIN reassdatagrams
        PROVE  LET r == reassdatagrams[i] IN
               /\ r.p # <<>> /\ Ascending(r.p)
               /\ ToSet(r.p) \subseteq FragmentsOf(r.id)
               /\ r.lastfrag = \E f \in ToSet(r.p) : ~f.mf
    <3> DEFINE r == reassdatagrams[i]
    <3>1. /\ r.p # <<>> /\ Piece(r.p, r.id)
          /\ r.lastfrag = \E f \in ToSet(r.p) : ~f.mf
      BY <2>4, <2>5 DEF Proper
    <3> HIDE DEF r
    <3>2. Ascending(r.p)
      <4>1. /\ Len(r.p) \in Nat
            /\ \A a, b \in 1..Len(r.p) : a < b => r.p[a].end <= r.p[b].start
        BY <3>1, PieceIs
      <4>2. ASSUME NEW a \in 1..(Len(r.p) - 1)
            PROVE  r.p[a].end <= r.p[a + 1].start
        <5>1. a \in 1..Len(r.p) /\ a + 1 \in 1..Len(r.p) /\ a < a + 1
          BY <4>1
        <5> QED BY <4>1, <5>1
      <4> QED BY <4>2 DEF Ascending
    <3>3. ToSet(r.p) \subseteq FragmentsOf(r.id)
      BY <3>1 DEF Piece
    <3> QED BY <3>1, <3>2, <3>3 DEF r
  <2> QED BY <2>1, <2>2, <2>3, <2>4, <2>5, <2>6 DEF TypeOK
<1> QED BY <1>1, RingInit, RingStep, InitPath, PathStep, PTL DEF Spec

(* However fragments are repeated, thrown away, handed up or freed to make   *)
(* room, ip_reass_pbufcount is what the list holds and every pbuf is counted,*)
(* in hand or free.  The one thing that goes wrong is the dequeue with the   *)
(* wrong prev in ip_reass_remove_oldest_datagram: it loses the datagram of   *)
(* the fragment in hand, whose pbufs stay counted, and nothing else.         *)
THEOREM PbufsCounted == Spec => []PbufsAccounted
<1>1. ASSUME PathInv PROVE PbufsAccounted
  <2>1. Held = HeldIn(reassdatagrams)
    BY DEF Held, HeldIn
  <2>2. CASE pc = "broken list"
    BY <1>1, <2>1, <2>2 DEF PathInv, CountInv, ListBroken, Lost, PbufsAccounted, Sending, InHand
  <2>3. CASE pc # "broken list"
    <3>1. /\ ip_reass_pbufcount = Cardinality(PbufsOf(Held))
          /\ ip_reass_pbufcount \in Nat
      BY <1>1, <2>1, <2>3 DEF PathInv, PathType, CountInv
    <3>2. \A a \in Nat : a - a = 0
      OBVIOUS
    <3>3. Lost = 0
      BY <3>1, <3>2 DEF Lost
    <3> QED BY <1>1, <2>3, <3>3 DEF PathInv, CountInv, PbufsAccounted, Sending, InHand
  <2> QED BY <2>2, <2>3
<1> QED BY <1>1, InitPath, PathStep, PTL DEF Spec

(* The longest frame and every radio packet find their pbufs, whatever is    *)
(* kept for reassembly, because opt.h's relation between PBUF_POOL_SIZE and  *)
(* IP_REASS_MAX_PBUFS holds: process_incoming_rf never has the null pbuf it  *)
(* does not look for.                                                        *)
THEOREM RoomToReceive == Spec => []StackCanReceive
<1>1. ASSUME PathInv PROVE StackCanReceive
  <2>1. /\ ip_reass_pbufcount <= MaxPbufs /\ ip_reass_pbufcount \in Nat /\ pool \in Nat
        /\ pool + ip_reass_pbufcount + Sending + InHand = PoolSize
    BY <1>1, InHandIs
  <2>2. ASSUME pc = "copy" PROVE pool >= WholeClen
    <3>1. Sending = 0
      BY <2>2 DEF Sending
    <3>2. InHand = 0
      BY <1>1, <2>2, FrameIs DEF InHand, PathInv, HandInv
    <3>3. pool + ip_reass_pbufcount = PoolSize
      BY <2>1, <3>1, <3>2, Sizes
    <3> QED BY ONLY <2>1, <3>3, Sizes
  <2>3. pc # "null pbuf"
    BY <1>1 DEF PathInv, HandInv
  <2> QED BY <2>1, <2>2, <2>3 DEF StackCanReceive
<1> QED BY <1>1, InitPath, PathStep, PTL DEF Spec

(* What is handed up is one datagram from its first fragment to its last in  *)
(* order, and has no hole but in front of the fragment that came last, where *)
(* ip_reass_chain_frag_into_datagram_and_validate does not look.             *)
THEOREM HandedUpWhole == Spec => []WholeButForOneHole
<1>1. ASSUME PathInv PROVE WholeButForOneHole
  BY <1>1 DEF PathInv, HandInv, WholeBut, WholeButForOneHole
<1> QED BY <1>1, InitPath, PathStep, PTL DEF Spec

(* A datagram goes up with its last missing fragment, whichever that is: the *)
(* list holds none that is complete, which no timer would ever take out.     *)
THEOREM NoneLeftComplete == Spec => []NothingCompleteWaits
<1>1. ASSUME PathInv PROVE NothingCompleteWaits
  <2>1. /\ DOMAIN reassdatagrams = 1..Len(reassdatagrams)
        /\ \A i \in 1..Len(reassdatagrams) : Proper(reassdatagrams[i])
    BY <1>1, ListedIs DEF PathInv, ListInv
  <2> QED BY <2>1 DEF NothingCompleteWaits, Proper
<1> QED BY <1>1, InitPath, PathStep, PTL DEF Spec
=============================================================================

------------------------------- MODULE TxRing -------------------------------
(* How a frame leaves the gateway: low_level_output of ethernetif.c, the     *)
(* ring of transmit descriptors of stm32f2x7_eth.c and the Ethernet DMA.     *)
(*                                                                           *)
(* low_level_output is called by the main loop (lwIP's answers and timers,   *)
(* the uplink) and by TIM2_IRQHandler, whose igmp_tmr sends delayed reports. *)
(* Nothing keeps the handler out while the main loop is inside.  The handler *)
(* preempts the main loop between any two steps and runs to its end; the DMA *)
(* runs beside both.                                                         *)
(*                                                                           *)
(* A frame is a number and is copied from two pbufs, headers and payload.    *)
(* It fits one buffer (mtu 1500, ETH_TX_BUF_SIZE 1524), so of                *)
(* ETH_Prepare_Transmit_Descriptors only buf_count = 1 is reachable.         *)
EXTENDS Integers, Sequences, FiniteSets

CONSTANTS
  N,          \* ETH_TXBUFNB
  MaxFrames,  \* bound: frames handed to low_level_output
  Senders     \* the contexts that send: {"main"} or {"main", "isr"}

ASSUME RingAssumption ==
  /\ N \in Nat \ {0, 1} /\ MaxFrames \in Nat
  /\ Senders \subseteq {"main", "isr"}

VARIABLES
  own,             \* the OWN bit of each descriptor: TRUE is the DMA's
  buf,             \* what each buffer holds: headers and payload
  DMATxDescToSet,
  call,            \* the call of low_level_output in progress, per context
  dma,             \* the DMA: descriptor, phase and the headers it has read
  tbus,            \* ETH_DMASR_TBUS: the DMA found no frame and stopped
  frames,          \* frames handed over so far
  accepted,        \* history: frames given to the DMA
  ok,              \* history: frames for which ERR_OK was returned
  full,            \* history: low_level_output met a full ring
  air              \* history: headers and payloads sent

ring == <<own, buf, DMATxDescToSet>>
history == <<accepted, ok, full, air>>
vars == <<ring, call, dma, tbus, frames, history>>

Descs == 1..N
Frames == 1..MaxFrames

(* What is in a buffer, or on the wire: headers and payload may come from    *)
(* different frames.                                                         *)
Contents == [headers : 0..MaxFrames, payload : 0..MaxFrames]
Intact(f) == [headers |-> f, payload |-> f]

Idle == [pc |-> "idle", frame |-> 0, buffer |-> 1, desc |-> 1]

(* Buffer2NextDescAddr *)
NextDesc(d) == IF d = N THEN 1 ELSE d + 1

Init ==
  /\ own = [d \in Descs |-> FALSE]
  /\ buf = [d \in Descs |-> Intact(0)]
  /\ DMATxDescToSet = 1
  /\ call = [k \in Senders |-> Idle]
  /\ dma = [at |-> 1, pc |-> "poll", headers |-> 0]
  /\ tbus = FALSE /\ frames = 0
  /\ accepted = <<>> /\ ok = {} /\ full = FALSE /\ air = <<>>

(* The main loop stands still while the handler runs.                        *)
Runs(k) == k = "main" /\ "isr" \in Senders => call["isr"].pc = "idle"

At(k, pc) == Runs(k) /\ call[k].pc = pc

Go(k, pc) == call' = [call EXCEPT ![k].pc = pc]

-----------------------------------------------------------------------------
(* low_level_output *)

(* buffer = DMATxDescToSet->Buffer1Addr, before any look at the OWN bit.     *)
Call(k) ==
  /\ At(k, "idle")
  /\ frames < MaxFrames
  /\ frames' = frames + 1
  /\ full' = (full \/ own[DMATxDescToSet])
  /\ call' = [call EXCEPT ![k] = [pc |-> "headers", frame |-> frames + 1,
                                  buffer |-> DMATxDescToSet, desc |-> DMATxDescToSet]]
  /\ UNCHANGED <<ring, dma, tbus, accepted, ok, air>>

CopyHeaders(k) ==
  /\ At(k, "headers")
  /\ buf' = [buf EXCEPT ![call[k].buffer].headers = call[k].frame]
  /\ Go(k, "payload")
  /\ UNCHANGED <<own, DMATxDescToSet, dma, tbus, frames, history>>

(* Mutant: memcpy of the first pbuf only. *)
CopyNoPayload(k) ==
  /\ At(k, "payload")
  /\ Go(k, "check")
  /\ UNCHANGED <<ring, dma, tbus, frames, history>>

CopyPayload(k) ==
  /\ At(k, "payload")
  /\ buf' = [buf EXCEPT ![call[k].buffer].payload = call[k].frame]
  /\ Go(k, "check")
  /\ UNCHANGED <<own, DMATxDescToSet, dma, tbus, frames, history>>

-----------------------------------------------------------------------------
(* ETH_Prepare_Transmit_Descriptors *)

(* ETH_ERROR if the DMA owns the descriptor; the result is not looked at.    *)
CheckOwn(k) ==
  /\ At(k, "check")
  /\ call' = [call EXCEPT ![k].desc = DMATxDescToSet,
                          ![k].pc = IF own[DMATxDescToSet] THEN "return" ELSE "give"]
  /\ UNCHANGED <<ring, dma, tbus, frames, history>>

(* DMATxDescToSet is not volatile: the compiler may read it again for each   *)
(* statement or keep the value it has.                                       *)
Descriptor(k) == {call[k].desc, DMATxDescToSet}

(* FS, LS and the size, then OWN. *)
GiveToDma(k) ==
  /\ At(k, "give")
  /\ \E d \in Descriptor(k) : own' = [own EXCEPT ![d] = TRUE]
  /\ accepted' = Append(accepted, call[k].frame)
  /\ Go(k, "advance")
  /\ UNCHANGED <<buf, DMATxDescToSet, dma, tbus, frames, ok, full, air>>

(* Mutant: DMATxDescToSet is left where it is. *)
StayAtDescriptor(k) ==
  /\ At(k, "advance")
  /\ Go(k, "resume")
  /\ UNCHANGED <<ring, dma, tbus, frames, history>>

Advance(k) ==
  /\ At(k, "advance")
  /\ \E d \in Descriptor(k) : DMATxDescToSet' = NextDesc(d)
  /\ Go(k, "resume")
  /\ UNCHANGED <<own, buf, dma, tbus, frames, history>>

(* Mutant: the flag is cleared but DMATPDR is not written. *)
ClearTbusOnly(k) ==
  /\ At(k, "resume")
  /\ tbus' = FALSE
  /\ Go(k, "return")
  /\ UNCHANGED <<ring, dma, frames, history>>

(* TBUS is cleared and DMATPDR written: the DMA polls again. *)
ResumeDma(k) ==
  /\ At(k, "resume")
  /\ tbus' = FALSE
  /\ dma' = IF tbus THEN [dma EXCEPT !.pc = "poll"] ELSE dma
  /\ Go(k, "return")
  /\ UNCHANGED <<ring, frames, history>>

(* return ERR_OK, in every case *)
Return(k) ==
  /\ At(k, "return")
  /\ ok' = ok \cup {call[k].frame}
  /\ call' = [call EXCEPT ![k] = Idle]
  /\ UNCHANGED <<ring, dma, tbus, frames, accepted, full, air>>

Output(k) ==
  \/ CopyHeaders(k) \/ CopyPayload(k) \/ CheckOwn(k)
  \/ GiveToDma(k) \/ Advance(k) \/ ResumeDma(k) \/ Return(k)

-----------------------------------------------------------------------------
(* The DMA *)

DmaPoll ==
  /\ dma.pc = "poll"
  /\ IF own[dma.at]
     THEN dma' = [dma EXCEPT !.pc = "headers"] /\ UNCHANGED tbus
     ELSE dma' = [dma EXCEPT !.pc = "suspended"] /\ tbus' = TRUE
  /\ UNCHANGED <<ring, call, frames, history>>

DmaHeaders ==
  /\ dma.pc = "headers"
  /\ dma' = [dma EXCEPT !.headers = buf[dma.at].headers, !.pc = "payload"]
  /\ UNCHANGED <<ring, call, tbus, frames, history>>

DmaPayload ==
  /\ dma.pc = "payload"
  /\ air' = Append(air, [headers |-> dma.headers, payload |-> buf[dma.at].payload])
  /\ own' = [own EXCEPT ![dma.at] = FALSE]
  /\ dma' = [at |-> NextDesc(dma.at), pc |-> "poll", headers |-> 0]
  /\ UNCHANGED <<buf, DMATxDescToSet, call, tbus, frames, accepted, ok, full>>

Dma == DmaPoll \/ DmaHeaders \/ DmaPayload

Next == (\E k \in Senders : Call(k) \/ Output(k)) \/ Dma

Spec == Init /\ [][Next]_vars

(* A call that was begun goes on, and the DMA transmits: the link is up.     *)
FairSpec == Spec /\ WF_vars(\E k \in Senders : Output(k)) /\ WF_vars(Dma)

-----------------------------------------------------------------------------
(* Properties *)

CallPCs == {"idle", "headers", "payload", "check", "give", "advance", "resume", "return"}

RingType ==
  /\ own \in [Descs -> BOOLEAN]
  /\ buf \in [Descs -> Contents]
  /\ DMATxDescToSet \in Descs

CallType ==
  /\ call \in [Senders -> [pc : CallPCs, frame : 0..MaxFrames, buffer : Descs, desc : Descs]]
  /\ \A k \in Senders : call[k].pc # "idle" => call[k].frame \in Frames

DmaType ==
  /\ dma \in [at : Descs, pc : {"poll", "headers", "payload", "suspended"}, headers : 0..MaxFrames]
  /\ tbus <=> dma.pc = "suspended"

HistoryType ==
  /\ frames \in 0..MaxFrames
  /\ accepted \in Seq(Frames) /\ ok \subseteq Frames /\ full \in BOOLEAN
  /\ air \in Seq(Contents)

(* Type invariant; a call in progress has a frame, and the TBUS flag is up   *)
(* exactly while the DMA is stopped.                                         *)
TypeOK == RingType /\ CallType /\ DmaType /\ HistoryType

(* The frames on the wire are the frames given to the DMA, in that order and *)
(* each in one piece: no buffer is written while the DMA reads it, as long   *)
(* as the ring was never full.                                               *)
WireInOrderIntact ==
  ~full =>
    /\ Len(air) <= Len(accepted)
    /\ \A i \in 1..Len(air) : air[i] = Intact(accepted[i])

(* Where the DMA reads and where the CPU writes agree: the descriptors the   *)
(* DMA owns are the ones from its own to DMATxDescToSet, so neither waits at *)
(* a descriptor that the other will never touch.                             *)
Pending(d) ==
  IF dma.at < DMATxDescToSet THEN d \in dma.at..(DMATxDescToSet - 1)
  ELSE IF dma.at > DMATxDescToSet THEN d \in dma.at..N \/ d < DMATxDescToSet
  ELSE own[dma.at]

RingCoherent ==
  (\A k \in Senders : call[k].pc # "advance") => \A d \in Descs : own[d] <=> Pending(d)

(* No wake-up is lost: a DMA that has stopped while frames wait for it is     *)
(* about to be told, whenever it stopped between the check of a descriptor,  *)
(* its hand-over and the look at TBUS (stm32f2x7_eth.c:1141-1147).           *)
WakeUpNotLost ==
  dma.pc = "suspended" /\ Len(air) < Len(accepted)
    => \E k \in Senders : call[k].pc \in {"advance", "resume"}

OnWire(f) == \E i \in 1..Len(air) : air[i] = Intact(f)

(* low_level_output returns ERR_OK if the packet could be sent: it is then   *)
(* on the wire in the end.                                                   *)
SentWhenOk == \A f \in Frames : f \in ok ~> OnWire(f)

(* That is so until the ring overflows.                                      *)
SentUnlessFull == \A f \in Frames : f \in ok ~> OnWire(f) \/ full

(* The ring drains: a descriptor is not kept by the DMA for ever.            *)
RingDrains == \A d \in Descs : own[d] ~> ~own[d]
=============================================================================

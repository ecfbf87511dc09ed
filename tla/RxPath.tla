------------------------------- MODULE RxPath -------------------------------
(* The way of a frame from the receive DMA to UDP: the ring of receive       *)
(* descriptors, ETH_CheckFrameReceived and low_level_input, IP reassembly,   *)
(* and the pool of pbufs they share with process_incoming_rf.                *)
(*                                                                           *)
(* A frame takes one descriptor (its buffer holds the longest packet) and is *)
(* known by a number modulo 2 * N; what it carries is chosen when it is      *)
(* copied.  The DMA runs between any two steps of the main loop.             *)
EXTENDS Reass

CONSTANTS
  N,            \* ETH_RXBUFNB
  PoolSize,     \* PBUF_POOL_SIZE
  WholeClen,    \* pbufs of the longest frame that is not a fragment
  MaxDatagrams, \* MEMP_NUM_REASSDATA
  MaxPbufs      \* IP_REASS_MAX_PBUFS

(* opt.h wants PBUF_POOL_SIZE > IP_REASS_MAX_PBUFS "so that the stack is     *)
(* still able to receive packets even if the maximum amount of fragments is  *)
(* enqueued"; the build leaves room for the longest frame.                   *)
ASSUME PoolAssumption ==
  /\ N \in Nat \ {0} /\ MaxDatagrams \in Nat \ {0} /\ MaxPbufs \in Nat \ {0}
  /\ WholeClen \in Nat /\ FirstClen <= WholeClen
  /\ PoolSize \in Nat /\ PoolSize >= MaxPbufs + WholeClen

VARIABLES
  own,                \* Status OWN: the descriptor belongs to the DMA
  slot,               \* the number of the frame in its buffer
  DMARxDescToGet,
  dma,                \* where the DMA is, and what it does
  rbus,               \* the RBUS flag of DMASR
  stored,             \* number of the last frame the DMA stored
  pc,                 \* where the main loop is
  desc,               \* frame.descriptor
  frag,               \* the frame in hand: a fragment, Whole, or Nothing
  chain,              \* the datagram handed up, in order
  freed,              \* pbufs_freed
  reassdatagrams,
  ip_reass_pbufcount,
  pool,               \* free pbufs
  fetched             \* history: number of the last frame copied

ring == <<own, slot, DMARxDescToGet>>
hardware == <<dma, rbus, stored>>
reass == <<reassdatagrams, ip_reass_pbufcount>>
hand == <<frag, chain, freed>>
vars == <<ring, hardware, pc, desc, hand, reass, pool, fetched>>

Descs == 1..N
Numbers == 0..(2 * N - 1)
NextDesc(d) == IF d = N THEN 1 ELSE d + 1
NextNumber(n) == (n + 1) % (2 * N)

(* No datagram has the id 0. *)
Whole == [id |-> 0, start |-> 0, end |-> 1, mf |-> FALSE]
Nothing == [id |-> 0, start |-> 0, end |-> 0, mf |-> FALSE]
FrameClen(f) == CASE f = Whole -> WholeClen [] f = Nothing -> 0 [] OTHER -> Clen(f)

(* ETH_DMARxDescChainInit *)
Init ==
  /\ own = [d \in Descs |-> TRUE]
  /\ slot = [d \in Descs |-> 0]
  /\ DMARxDescToGet = 1 /\ desc = 1
  /\ dma = [at |-> 1, pc |-> "poll"] /\ rbus = FALSE
  /\ stored = 0 /\ fetched = 0
  /\ pc = "check" /\ frag = Nothing /\ chain = <<>> /\ freed = 0
  /\ reassdatagrams = <<>> /\ ip_reass_pbufcount = 0 /\ pool = PoolSize

-----------------------------------------------------------------------------
(* The receive DMA *)

(* It looks at the next descriptor and stops at one it does not own. *)
DmaPoll ==
  /\ dma.pc = "poll"
  /\ IF own[dma.at]
     THEN dma' = [dma EXCEPT !.pc = "armed"] /\ UNCHANGED rbus
     ELSE dma' = [dma EXCEPT !.pc = "suspended"] /\ rbus' = TRUE
  /\ UNCHANGED <<ring, stored, pc, desc, hand, reass, pool, fetched>>

DmaStore ==
  /\ dma.pc = "armed"
  /\ stored' = NextNumber(stored)
  /\ slot' = [slot EXCEPT ![dma.at] = stored']
  /\ own' = [own EXCEPT ![dma.at] = FALSE]
  /\ dma' = [at |-> NextDesc(dma.at), pc |-> "poll"]
  /\ UNCHANGED <<DMARxDescToGet, rbus, pc, desc, hand, reass, pool, fetched>>

(* Another frame on the wire makes a suspended DMA look again. *)
DmaNextFrame ==
  /\ dma.pc = "suspended"
  /\ dma' = [dma EXCEPT !.pc = "poll"]
  /\ UNCHANGED <<ring, rbus, stored, pc, desc, hand, reass, pool, fetched>>

Dma == DmaPoll \/ DmaStore \/ DmaNextFrame

-----------------------------------------------------------------------------
(* ETH_CheckFrameReceived and low_level_input *)

CheckFrameReceived ==
  /\ pc = "check"
  /\ pc' = IF own[DMARxDescToGet] THEN "radio" ELSE "get"
  /\ UNCHANGED <<ring, hardware, desc, hand, reass, pool, fetched>>

(* Mutant: DMARxDescToGet stays. *)
GetAgain ==
  /\ pc = "get"
  /\ desc' = DMARxDescToGet
  /\ pc' = "copy"
  /\ UNCHANGED <<ring, hardware, hand, reass, pool, fetched>>

GetReceivedFrame ==
  /\ pc = "get"
  /\ desc' = DMARxDescToGet
  /\ DMARxDescToGet' = NextDesc(DMARxDescToGet)
  /\ pc' = "copy"
  /\ UNCHANGED <<own, slot, hardware, hand, reass, pool, fetched>>

(* pbuf_alloc from the pool, and memcpy if there was room. *)
CopyFrame ==
  /\ pc = "copy"
  /\ \E f \in Fragments \cup {Whole} :
       IF FrameClen(f) <= pool
       THEN frag' = f /\ pool' = pool - FrameClen(f)
       ELSE frag' = Nothing /\ UNCHANGED pool
  /\ fetched' = slot[desc]
  /\ pc' = "release"
  /\ UNCHANGED <<ring, hardware, desc, chain, freed, reass>>

(* Seg_Count is 1. *)
ReleaseDescriptor ==
  /\ pc = "release"
  /\ own' = [own EXCEPT ![desc] = TRUE]
  /\ pc' = "resume"
  /\ UNCHANGED <<slot, DMARxDescToGet, hardware, desc, hand, reass, pool, fetched>>

(* Mutant: RBUS is cleared, DMARPDR not written. *)
ClearRbusOnly ==
  /\ pc = "resume"
  /\ rbus' = FALSE
  /\ pc' = IF frag = Nothing THEN "radio" ELSE "input"
  /\ UNCHANGED <<ring, dma, stored, desc, hand, reass, pool, fetched>>

(* RBUS is cleared and DMARPDR written: a suspended DMA looks again. *)
ResumeReception ==
  /\ pc = "resume"
  /\ rbus' = FALSE
  /\ dma' = IF rbus /\ dma.pc = "suspended" THEN [dma EXCEPT !.pc = "poll"] ELSE dma
  /\ pc' = IF frag = Nothing THEN "radio" ELSE "input"
  /\ UNCHANGED <<ring, stored, desc, hand, reass, pool, fetched>>

-----------------------------------------------------------------------------
(* ip_input and ip_reass *)

(* Mutant: the new fragment is not counted in. *)
OverflowsBehind == ip_reass_pbufcount > MaxPbufs

Overflows == ip_reass_pbufcount + FrameClen(frag) > MaxPbufs

(* nullreturn: pbuf_free. *)
Drop ==
  /\ frag' = Nothing
  /\ pool' = pool + FrameClen(frag)
  /\ freed' = 0
  /\ pc' = "radio"
  /\ UNCHANGED <<chain, reass>>

(* A frame that is no fragment is dealt with and freed. *)
Input ==
  /\ pc = "input"
  /\ IF frag = Whole
     THEN Drop
     ELSE /\ pc' = IF Overflows THEN "make room" ELSE "enqueue"
          /\ UNCHANGED <<hand, reass, pool>>
  /\ UNCHANGED <<ring, hardware, desc, fetched>>

Index == {i \in DOMAIN reassdatagrams : reassdatagrams[i].id = frag.id}

(* ip_reass_free_complete_datagram on datagram i. *)
FreeDatagram(i) ==
  LET n == ClenOf(reassdatagrams[i].p) IN
  /\ reassdatagrams' = Dequeued(reassdatagrams, i)
  /\ ip_reass_pbufcount' = ip_reass_pbufcount - n
  /\ pool' = pool + n
  /\ freed' = freed + n

(* One round of the loop of ip_reass_remove_oldest_datagram.  The walks that *)
(* follow a wrong dequeue read freed entries, and go in a circle once one of *)
(* them is taken again; the model ends there, with what was lost.            *)
RemoveOldest ==
  LET others == Others(reassdatagrams, frag)
      oldest == Max(others)
      again == freed' < Clen(frag) /\ Cardinality(others) > 1
  IN  /\ others # {}
      /\ FreeDatagram(oldest)
      /\ pc' = CASE ~PrevIsRight(reassdatagrams, oldest)  -> "broken list"
                 [] PrevIsRight(reassdatagrams, oldest) /\ again -> pc
                 [] OTHER -> IF pc = "make room" THEN "room made" ELSE "entry made"
      /\ UNCHANGED <<frag, chain>>

MakeRoom ==
  /\ pc = "make room"
  /\ RemoveOldest \/ (Others(reassdatagrams, frag) = {} /\ Drop)
  /\ UNCHANGED <<ring, hardware, desc, fetched>>

RoomMade ==
  /\ pc = "room made"
  /\ IF freed = 0 \/ Overflows
     THEN Drop
     ELSE pc' = "enqueue" /\ freed' = 0 /\ UNCHANGED <<frag, chain, reass, pool>>
  /\ UNCHANGED <<ring, hardware, desc, fetched>>

(* memp_malloc has no ip_reassdata left for a new datagram. *)
MakeEntry ==
  /\ pc = "make entry"
  /\ RemoveOldest
  /\ UNCHANGED <<ring, hardware, desc, fetched>>

EntryMade ==
  /\ pc = "entry made"
  /\ IF freed < Clen(frag)
     THEN Drop
     ELSE pc' = "enqueue" /\ freed' = 0 /\ UNCHANGED <<frag, chain, reass, pool>>
  /\ UNCHANGED <<ring, hardware, desc, fetched>>

(* The list with frag's datagram in it: a new one goes to the front. *)
Entered ==
  IF Index # {} THEN reassdatagrams
  ELSE <<[id |-> frag.id, p |-> <<>>, lastfrag |-> FALSE]>> \o reassdatagrams

NoEntryLeft == Index = {} /\ Len(reassdatagrams) = MaxDatagrams

(* Mutant: ip_reass_pbufcount keeps the pbufs of a fragment thrown away. *)
ThrowAwayUncounted(list) ==
  /\ reassdatagrams' = list
  /\ ip_reass_pbufcount' = ip_reass_pbufcount + Clen(frag)
  /\ frag' = Nothing /\ pool' = pool + Clen(frag)
  /\ pc' = "radio"
  /\ UNCHANGED chain

(* freepbuf: the fragment is not kept. *)
ThrowAway(list) ==
  /\ reassdatagrams' = list
  /\ frag' = Nothing /\ pool' = pool + Clen(frag)
  /\ pc' = "radio"
  /\ UNCHANGED <<chain, ip_reass_pbufcount>>

Keep(list, i, q) ==
  /\ reassdatagrams' = [list EXCEPT ![i].p = q]
  /\ ip_reass_pbufcount' = ip_reass_pbufcount + Clen(frag)
  /\ frag' = Nothing
  /\ pc' = "radio"
  /\ UNCHANGED <<chain, pool>>

(* The datagram leaves the list and goes up. *)
HandUp(list, i, q) ==
  /\ reassdatagrams' = RemoveAt(list, i)
  /\ ip_reass_pbufcount' = ip_reass_pbufcount + Clen(frag) - ClenOf(q)
  /\ chain' = q
  /\ pc' = "deliver"
  /\ UNCHANGED <<frag, pool>>

(* The datagram's flags are updated before anything is known of the rest of  *)
(* the fragment.                                                             *)
Chain ==
  LET own_i == IF Index = {} THEN 1 ELSE Max(Index)
      list == [Entered EXCEPT ![own_i].lastfrag = @ \/ ~frag.mf]
      p == list[own_i].p
      q == Chained(p, frag)
  IN  CASE ~Accepts(p, frag) -> ThrowAway(list)
        [] Accepts(p, frag) /\ list[own_i].lastfrag /\ Valid(p, frag) ->
             HandUp(list, own_i, q)
        [] OTHER -> Keep(list, own_i, q)

Enqueue ==
  /\ pc = "enqueue"
  /\ freed' = 0
  /\ IF NoEntryLeft
     THEN pc' = "make entry" /\ UNCHANGED <<frag, chain, reass, pool>>
     ELSE Chain
  /\ UNCHANGED <<ring, hardware, desc, fetched>>

(* udp_input and the receive callback end with pbuf_free. *)
Deliver ==
  /\ pc = "deliver"
  /\ pool' = pool + ClenOf(chain)
  /\ chain' = <<>> /\ frag' = Nothing
  /\ pc' = "radio"
  /\ UNCHANGED <<ring, hardware, desc, freed, reass, fetched>>

-----------------------------------------------------------------------------
(* process_incoming_rf *)

NoPacket ==
  /\ pc = "radio"
  /\ pc' = "check"
  /\ UNCHANGED <<ring, hardware, desc, hand, reass, pool, fetched>>

(* The pbuf of a packet; that there is none is not looked at. *)
AllocPacket ==
  /\ pc = "radio"
  /\ IF pool > 0 THEN pc' = "send" /\ pool' = pool - 1
     ELSE pc' = "null pbuf" /\ UNCHANGED pool
  /\ UNCHANGED <<ring, hardware, desc, hand, reass, fetched>>

SendPacket ==
  /\ pc = "send"
  /\ pool' = pool + 1
  /\ pc' = "check"
  /\ UNCHANGED <<ring, hardware, desc, hand, reass, fetched>>

-----------------------------------------------------------------------------
MainLoop ==
  \/ CheckFrameReceived \/ GetReceivedFrame \/ CopyFrame
  \/ ReleaseDescriptor \/ ResumeReception
  \/ Input \/ MakeRoom \/ RoomMade \/ MakeEntry \/ EntryMade
  \/ Enqueue \/ Deliver
  \/ NoPacket \/ AllocPacket \/ SendPacket

Next == MainLoop \/ Dma

Spec == Init /\ [][Next]_vars

(* The loop runs on, and the DMA looks at the descriptor it is told to.      *)
FairSpec == Spec /\ WF_vars(MainLoop) /\ WF_vars(DmaPoll)

-----------------------------------------------------------------------------
(* Properties *)

PCs == {"check", "get", "copy", "release", "resume", "input", "make room", "room made",
        "make entry", "entry made", "enqueue", "deliver", "radio", "send",
        "broken list", "null pbuf"}

Ascending(p) == \A i \in 1..(Len(p) - 1) : p[i].end <= p[i + 1].start

(* Type invariant; the list holds each datagram once, with fragments of its  *)
(* own in ascending order, and knows whether the last one was seen.          *)
TypeOK ==
  /\ own \in [Descs -> BOOLEAN] /\ slot \in [Descs -> Numbers]
  /\ {DMARxDescToGet, desc, dma.at} \subseteq Descs
  /\ dma.pc \in {"poll", "armed", "suspended"} /\ rbus \in BOOLEAN
  /\ {stored, fetched} \subseteq Numbers
  /\ pc \in PCs /\ frag \in Fragments \cup {Whole, Nothing}
  /\ chain \in Seq(Fragments) /\ freed \in 0..MaxPbufs /\ pool \in 0..PoolSize
  /\ Len(reassdatagrams) <= MaxDatagrams
  /\ \A i, j \in DOMAIN reassdatagrams :
       reassdatagrams[i].id = reassdatagrams[j].id => i = j
  /\ \A i \in DOMAIN reassdatagrams :
       LET r == reassdatagrams[i] IN
       /\ r.p # <<>> /\ Ascending(r.p)
       /\ ToSet(r.p) \subseteq FragmentsOf(r.id)
       /\ r.lastfrag = \E f \in ToSet(r.p) : ~f.mf

(* The fragments in the list, and the pbufs of a set of fragments. *)
Held == UNION {ToSet(reassdatagrams[i].p) : i \in DOMAIN reassdatagrams}

PbufsOf(S) == {x \in S \X (1..FirstClen) : x[2] <= Clen(x[1])}

(* Pbufs ip_reass_pbufcount still counts though the list has lost them. *)
Lost == ip_reass_pbufcount - Cardinality(PbufsOf(Held))

(* ip_reass_pbufcount tracks "the current number of pbufs current in-flight" *)
(* whatever is repeated, thrown away, handed up or freed to make room, and a *)
(* pbuf that is neither counted nor in anybody's hands is free.  Where the   *)
(* oldest is dequeued with the wrong prev, the datagram that was not to be   *)
(* freed, that of the fragment in hand, is lost: it is on the list no longer *)
(* and its pbufs, but no others, stay counted.                               *)
PbufsAccounted ==
  /\ IF pc = "broken list"
     THEN Index = {} /\ Lost \in 1..(Cardinality(PbufsOf(FragmentsOf(frag.id))) - 1)
     ELSE Lost = 0
  /\ pool + ip_reass_pbufcount + (IF pc = "send" THEN 1 ELSE 0)
       + (IF chain = <<>> THEN FrameClen(frag) ELSE ClenOf(chain)) = PoolSize

(* opt.h: with a pool larger than IP_REASS_MAX_PBUFS "the stack is still     *)
(* able to receive packets even if the maximum amount of fragments is        *)
(* enqueued".  The longest frame finds its pbufs, and so does a radio packet *)
(* in process_incoming_rf, which does not look whether it got one.           *)
StackCanReceive ==
  /\ ip_reass_pbufcount <= MaxPbufs
  /\ pc = "copy" => pool >= WholeClen
  /\ pc # "null pbuf"

(* A datagram that is handed up is made of the fragments of one datagram in  *)
(* order, from the first to the last, without a hole but where the code does *)
(* not look: in front of the fragment that came last.                        *)
WholeButForOneHole ==
  pc = "deliver" =>
    /\ chain[1].start = 0 /\ ~Last(chain).mf
    /\ ToSet(chain) \subseteq FragmentsOf(frag.id)
    /\ \A i \in 1..(Len(chain) - 1) : Joins(chain, i) \/ chain[i + 1] = frag

(* A datagram goes up as soon as its fragments are there, whichever came     *)
(* last: none waits in the list with nothing missing, for no timer would     *)
(* ever look at it.                                                          *)
NothingCompleteWaits ==
  \A i \in DOMAIN reassdatagrams :
    ToSet(reassdatagrams[i].p) # FragmentsOf(reassdatagrams[i].id)

(* The main loop copies the frames in the order the DMA stored them, leaves  *)
(* none out, and never copies from a buffer the DMA may write.               *)
FramesInOrder ==
  pc = "copy" => ~own[desc] /\ slot[desc] = NextNumber(fetched)

(* No wake-up is lost: a DMA that has stopped at a descriptor given back     *)
(* since is about to be told, and one at a descriptor that is not given back *)
(* stopped with the ring full: a look of the main loop finds a frame.        *)
WakeUpNotLost ==
  dma.pc = "suspended" =>
    /\ own[dma.at] => pc = "resume" /\ rbus
    /\ pc = "check" => ~own[DMARxDescToGet]

(* A DMA that stopped for want of a descriptor receives again without a      *)
(* further frame to wake it, unless the main loop stands at a broken list.   *)
ReceptionResumes == dma.pc = "suspended" ~> dma.pc = "armed" \/ pc = "broken list"
=============================================================================

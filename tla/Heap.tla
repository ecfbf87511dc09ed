-------------------------------- MODULE Heap --------------------------------
(* The heap of lwIP, core/mem.c: a list of blocks that tiles ram[], each     *)
(* with a struct mem in front, searched from the lowest free block.          *)
(*                                                                           *)
(* Every PBUF_RAM packet the gateway builds itself (DHCP requests, ARP       *)
(* requests, IGMP reports) and the DHCP client live in it.  With NO_SYS the  *)
(* semaphore of mem.c does nothing; the calls are atomic here, that is, the  *)
(* timer interrupt is taken to stay out of a call in progress.               *)
(*                                                                           *)
(* Addresses are offsets into ram.  A struct mem that is no longer linked is *)
(* no longer part of the heap.  ram_end's prev is never read and left out.   *)
EXTENDS Integers

CONSTANTS
  MEM_SIZE,   \* MEM_SIZE_ALIGNED; also the address of ram_end
  HDR,        \* SIZEOF_STRUCT_MEM
  MIN,        \* MIN_SIZE_ALIGNED
  ALIGN,      \* MEM_ALIGNMENT
  Sizes       \* sizes asked for

ASSUME SizeAssumption ==
  /\ MEM_SIZE \in Nat \ {0} /\ HDR \in Nat \ {0} /\ MIN \in Nat \ {0}
  /\ ALIGN \in Nat \ {0} /\ HDR + MIN <= MEM_SIZE
  /\ Sizes \subseteq Nat \ {0}

VARIABLES
  heap,   \* ram: the linked struct mems by address; lfree: the lowest free one
  given,  \* history: what each block that was handed out was asked for
  last    \* history: the last request and what it got, until a block changes

vars == <<heap, given, last>>

End == MEM_SIZE
Null == -1
NoRequest == [size |-> 0, got |-> 0]

(* LWIP_MEM_ALIGN_SIZE, then at least MIN_SIZE_ALIGNED. *)
BlockSize(size) ==
  LET aligned == ((size + ALIGN - 1) \div ALIGN) * ALIGN
  IN  IF aligned < MIN THEN MIN ELSE aligned

(* The data a block can hold. *)
Room(ram, h) == ram[h].next - (h + HDR)

Init ==
  /\ heap = [ram |-> [h \in {0, End} |-> [next |-> End, prev |-> h,
                                            used |-> IF h = End THEN 1 ELSE 0]],
             lfree |-> 0]
  /\ given = [h \in {} |-> 0]
  /\ last = NoRequest

-----------------------------------------------------------------------------
(* Lists *)

(* prev of block h, if it is one, becomes p. *)
Follows(ram, h, p) == IF h = End THEN ram[h] ELSE [ram[h] EXCEPT !.prev = p]

(* A new unused block at p, between h and its successor. *)
Insert(ram, h, p) ==
  LET n == ram[h].next IN
  [b \in DOMAIN ram \cup {p} |->
     CASE b = p -> [next |-> n, prev |-> h, used |-> 0]
       [] b = h -> [ram[h] EXCEPT !.next = p]
       [] b = n -> Follows(ram, n, p)
       [] OTHER -> ram[b]]

(* Mutant: the block behind keeps its prev. *)
RemoveOneWay(ram, h) ==
  LET n == ram[h].next IN
  [b \in DOMAIN ram \ {n} |->
     IF b = h THEN [ram[h] EXCEPT !.next = ram[n].next] ELSE ram[b]]

(* The block after h is taken out of the list. *)
Remove(ram, h) ==
  LET n == ram[h].next
      after == ram[n].next
  IN  [b \in DOMAIN ram \ {n} |->
         CASE b = h -> [ram[h] EXCEPT !.next = after]
           [] b = after -> Follows(ram, after, h)
           [] OTHER -> ram[b]]

(* The block after h becomes part of h. *)
Absorb(hp, h) ==
  [ram |-> Remove(hp.ram, h),
   lfree |-> IF hp.lfree = hp.ram[h].next THEN h ELSE hp.lfree]

(* Mutant: only the hole that follows is plugged. *)
PlugForwardOnly(hp, h) ==
  IF hp.ram[hp.ram[h].next].used = 0 THEN Absorb(hp, h) ELSE hp

(* plug_holes: first forward, then backward. *)
PlugHoles(hp, h) ==
  LET f == IF hp.ram[hp.ram[h].next].used = 0 THEN Absorb(hp, h) ELSE hp
      p == f.ram[h].prev
  IN  IF p # h /\ f.ram[p].used = 0 THEN Absorb(f, p) ELSE f

-----------------------------------------------------------------------------
(* mem_malloc *)

(* Mutant: the last place is never taken. *)
FittingNotAtEnd(hp, size) ==
  {h \in DOMAIN hp.ram : h >= hp.lfree /\ h < MEM_SIZE - size - HDR
                           /\ hp.ram[h].used = 0 /\ Room(hp.ram, h) >= size}

(* The blocks the scan would take, which begins at lfree. *)
Fitting(hp, size) ==
  {h \in DOMAIN hp.ram : h >= hp.lfree /\ h < MEM_SIZE - size
                           /\ hp.ram[h].used = 0 /\ Room(hp.ram, h) >= size}

IsLowest(h, S) == h \in S /\ \A b \in S : h <= b

(* Mutant: a remainder too small to hold anything is split off. *)
SplitsAlways(ram, h, size) == Room(ram, h) >= size + HDR

Splits(ram, h, size) == Room(ram, h) >= size + HDR + MIN

Use(ram, h, size) ==
  LET r == IF Splits(ram, h, size) THEN Insert(ram, h, h + HDR + size) ELSE ram
  IN  [r EXCEPT ![h].used = 1]

(* while (lfree->used && lfree != ram_end) lfree = lfree->next               *)
NextFree(f, ram, h) == IsLowest(f, {b \in DOMAIN ram : b >= h /\ (ram[b].used = 0 \/ b = End)})

Fails(asked) ==
  /\ BlockSize(asked) > MEM_SIZE \/ Fitting(heap, BlockSize(asked)) = {}
  /\ last' = [size |-> asked, got |-> Null]
  /\ UNCHANGED <<heap, given>>

Gets(asked, h) ==
  /\ BlockSize(asked) <= MEM_SIZE
  /\ IsLowest(h, Fitting(heap, BlockSize(asked)))
  /\ LET ram == Use(heap.ram, h, BlockSize(asked)) IN
       \E f \in DOMAIN ram :
         /\ IF h = heap.lfree THEN NextFree(f, ram, h) ELSE f = heap.lfree
         /\ heap' = [ram |-> ram, lfree |-> f]
  /\ given' = [b \in DOMAIN given \cup {h} |-> IF b = h THEN asked ELSE given[b]]
  /\ last' = [size |-> asked, got |-> h]

MemMalloc(asked) == Fails(asked) \/ \E h \in DOMAIN heap.ram : Gets(asked, h)

-----------------------------------------------------------------------------
(* mem_free *)

FreedLfree(lfree, h) == IF h < lfree THEN h ELSE lfree

MemFree(h) ==
  /\ heap' = PlugHoles([ram |-> [heap.ram EXCEPT ![h].used = 0],
                        lfree |-> FreedLfree(heap.lfree, h)], h)
  /\ given' = [b \in DOMAIN given \ {h} |-> given[b]]
  /\ last' = NoRequest

-----------------------------------------------------------------------------
(* mem_realloc, which only shrinks *)

(* Mutant: the header of the hole is left out of account. *)
HoleOffset(h, size) == h + size

HoleAt(h, size) == h + HDR + size

(* The hole behind h grows downwards to p. *)
MoveHole(hp, h, p) ==
  [ram |-> Insert(Remove(hp.ram, h), h, p),
   lfree |-> IF hp.lfree = hp.ram[h].next THEN p ELSE hp.lfree]

(* Mutant: lfree is not lowered to the new hole. *)
NewHoleAbove(hp, h, p) == [ram |-> Insert(hp.ram, h, p), lfree |-> hp.lfree]

NewHole(hp, h, p) ==
  [ram |-> Insert(hp.ram, h, p), lfree |-> IF p < hp.lfree THEN p ELSE hp.lfree]

Shrink(hp, h, size) ==
  LET room == Room(hp.ram, h)
      p == HoleAt(h, size)
  IN  CASE size = room -> hp
        [] size < room /\ hp.ram[hp.ram[h].next].used = 0 -> MoveHole(hp, h, p)
        [] size + HDR + MIN <= room /\ hp.ram[hp.ram[h].next].used = 1 -> NewHole(hp, h, p)
        [] OTHER -> hp

MemRealloc(h, asked) ==
  /\ BlockSize(asked) <= Room(heap.ram, h)
  /\ heap' = Shrink(heap, h, BlockSize(asked))
  /\ given' = [given EXCEPT ![h] = asked]
  /\ last' = NoRequest

Next ==
  \/ \E size \in Sizes : MemMalloc(size)
  \/ \E h \in DOMAIN given : MemFree(h)
  \/ \E h \in DOMAIN given, size \in Sizes : MemRealloc(h, size)

Spec == Init /\ [][Next]_vars

-----------------------------------------------------------------------------
(* Properties *)

(* Type invariant: the list of blocks tiles the heap from 0 to ram_end, and  *)
(* prev is the inverse of next.                                              *)
Linked(ram) ==
  /\ ram \in [DOMAIN ram -> [next : DOMAIN ram, prev : DOMAIN ram, used : {0, 1}]]
  /\ {0, End} \subseteq DOMAIN ram /\ DOMAIN ram \subseteq 0..End
  /\ ram[End] = [next |-> End, prev |-> End, used |-> 1] /\ ram[0].prev = 0
  /\ \A h \in DOMAIN ram \ {End} :
       /\ ram[h].next > h
       /\ \A b \in DOMAIN ram : b <= h \/ b >= ram[h].next
       /\ ram[h].next # End => ram[ram[h].next].prev = h
       /\ h # 0 => ram[h].prev < h /\ ram[ram[h].prev].next = h

TypeOK == Linked(heap.ram) /\ heap.lfree \in DOMAIN heap.ram

(* The blocks handed out are the used blocks, each with room for what was    *)
(* asked: no block is lost, handed out twice or cut short by what is done    *)
(* with its neighbours.                                                      *)
OwnersKeepTheirBlocks ==
  /\ DOMAIN given = {h \in DOMAIN heap.ram \ {End} : heap.ram[h].used = 1}
  /\ \A h \in DOMAIN given : BlockSize(given[h]) <= Room(heap.ram, h)

(* mem.c: after plug_holes "there should not exist one empty struct mem      *)
(* pointing to another empty struct mem"; nor does any other call leave two. *)
NoAdjacentHoles ==
  \A h \in DOMAIN heap.ram : heap.ram[h].used = 0 => heap.ram[heap.ram[h].next].used = 1

(* "All allocated blocks will be MIN_SIZE bytes big, at least", and so are   *)
(* the holes: no call leaves a remainder that nobody can use.                *)
RemaindersUsable ==
  \A h \in DOMAIN heap.ram \ {End} : Room(heap.ram, h) >= MIN

(* mem.c: lfree is a "pointer to the lowest free block"; all below it is in  *)
(* use, so a scan that begins there misses no hole.                          *)
LfreeIsLowest ==
  /\ heap.lfree = End \/ heap.ram[heap.lfree].used = 0
  /\ \A h \in DOMAIN heap.ram : h < heap.lfree => heap.ram[h].used = 1

(* mem_malloc returns NULL only if no free block is big enough, although it  *)
(* scans from lfree only.                                                    *)
FailsOnlyIfFull ==
  last.got = Null =>
    \A h \in DOMAIN heap.ram :
      heap.ram[h].used = 0 => Room(heap.ram, h) < BlockSize(last.size)
=============================================================================

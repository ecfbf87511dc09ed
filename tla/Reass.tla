-------------------------------- MODULE Reass --------------------------------
(* Reassembly of IP datagrams, core/ipv4/ip_frag.c of lwIP: what the         *)
(* functions of the file do to the list of incomplete datagrams.             *)
(*                                                                           *)
(* A datagram is always cut in the same way, into Parts[id] fragments, so    *)
(* two fragments of it are equal or disjoint; they may be lost, repeated and *)
(* come in any order.  The timers are all at IP_REASS_MAXAGE: ip_reass_tmr,  *)
(* which would count them down, is called by tcpip.c only, which is not      *)
(* built.  The two IP addresses and the identification are one id.           *)
EXTENDS Integers, SequencesExt

CONSTANTS
  Parts,     \* the number of fragments of each datagram, by its id
  FirstClen  \* pbufs of a datagram's first fragment; the others take one

ASSUME PartsAssumption ==
  /\ \A id \in DOMAIN Parts : Parts[id] \in Nat \ {0, 1}
  /\ FirstClen \in Nat \ {0}

Ids == DOMAIN Parts

(* struct ip_reass_helper, with the MF bit and the id of the IP header.      *)
Fragment(id, n) == [id |-> id, start |-> n - 1, end |-> n, mf |-> n < Parts[id]]

FragmentsOf(id) == {Fragment(id, n) : n \in 1..Parts[id]}

Fragments == UNION {FragmentsOf(id) : id \in Ids}

(* pbuf_clen of one fragment, and of the fragments in p.                     *)
Clen(f) == IF f.start = 0 THEN FirstClen ELSE 1

ClenOf(p) == Cardinality({x \in (DOMAIN p) \X (1..FirstClen) : x[2] <= Clen(p[x[1]])})

-----------------------------------------------------------------------------
(* ip_reass_chain_frag_into_datagram_and_validate *)

(* Where the walk along p stops: the first fragment that does not lie wholly *)
(* before f.                                                                 *)
Place(p, f) ==
  IF \E i \in DOMAIN p : f.start < p[i].end
  THEN CHOOSE i \in DOMAIN p :
         /\ f.start < p[i].end
         /\ \A j \in 1..(i - 1) : p[j].end <= f.start
  ELSE Len(p) + 1

(* freepbuf: f is there already, or overlaps.  A new first fragment is not   *)
(* compared with the one behind it.                                          *)
Accepts(p, f) ==
  LET i == Place(p, f) IN
  i \in DOMAIN p => /\ f.start < p[i].start
                    /\ i > 1 => f.start >= p[i - 1].end /\ f.end <= p[i].start

Chained(p, f) == InsertAt(p, Place(p, f), f)

Joins(p, i) == p[i].end = p[i + 1].start

(* Mutant: the walk behind the new fragment is left out. *)
ValidBefore(p, f) ==
  LET i == Place(p, f)
      q == Chained(p, f)
  IN  q[1].start = 0 /\ \A j \in 1..(i - 2) : Joins(q, j)

(* Mutant: only a fragment that goes to the end is taken to complete. *)
ValidAtEnd(p, f) ==
  LET q == Chained(p, f) IN
  q[1].start = 0 /\ q[Len(q)] = f /\ \A j \in 1..(Len(q) - 1) : Joins(q, j)

(* No hole on the way to f, none behind it, and the first fragment is there. *)
(* The joint in front of f is looked at only when f goes to the end.         *)
Valid(p, f) ==
  LET i == Place(p, f)
      q == Chained(p, f)
  IN  /\ q[1].start = 0
      /\ \A j \in 1..(i - 2) : Joins(q, j)
      /\ i > Len(p) /\ i > 1 => Joins(q, i - 1)
      /\ \A j \in i..(Len(q) - 1) : Joins(q, j)

-----------------------------------------------------------------------------
(* ip_reass_remove_oldest_datagram *)

(* Of equal timers the last in the list counts as the oldest. *)
Others(list, f) == {i \in DOMAIN list : list[i].id # f.id}

(* prev is the last datagram but one.  Dequeuing is right for the head of    *)
(* the list, where prev is not used, and for the last datagram.  When f's    *)
(* own datagram is the last and two or more stand before it, prev is the     *)
(* oldest itself: it is freed and stays in the list.                         *)
PrevIsRight(list, i) == i = 1 \/ i = Len(list)

(* ip_reass_dequeue_datagram.  With the wrong prev the freed entry stays     *)
(* linked, and memp_free writes the next free entry into its next pointer:   *)
(* what stood behind it, f's own datagram, is on the list no longer, and its *)
(* pbufs are neither freed nor taken from the count.                         *)
Dequeued(list, i) ==
  IF PrevIsRight(list, i) THEN RemoveAt(list, i) ELSE SubSeq(list, 1, i - 1)
==============================================================================

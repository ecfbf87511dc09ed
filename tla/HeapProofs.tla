----------------------------- MODULE HeapProofs -----------------------------
(* Proofs about Heap, for any size of heap, header, alignment and requests.  *)
EXTENDS Heap, TLAPS

Block(ram) == [next : DOMAIN ram, prev : DOMAIN ram, used : {0, 1}]

(* Lemma: a block is never smaller than MIN_SIZE_ALIGNED.                    *)
LEMMA BlockSizeMin ==
  ASSUME NEW size \in Sizes
  PROVE  BlockSize(size) \in Nat /\ BlockSize(size) >= MIN
<1> DEFINE q == (size + ALIGN - 1) \div ALIGN
<1>1. size \in Nat /\ size > 0 /\ ALIGN \in Nat /\ ALIGN > 0 /\ MIN \in Nat
  BY SizeAssumption
<1>2. q \in Int
  BY <1>1
<1>3. q * ALIGN \in Int
  BY <1>1, <1>2
<1>4. BlockSize(size) = IF q * ALIGN < MIN THEN MIN ELSE q * ALIGN
  BY DEF BlockSize
<1>5. ASSUME NEW a \in Int, BlockSize(size) = IF a < MIN THEN MIN ELSE a
      PROVE  BlockSize(size) \in Nat /\ BlockSize(size) >= MIN
  BY <1>1, <1>5
<1> HIDE DEF q
<1> QED BY <1>3, <1>4, <1>5

-----------------------------------------------------------------------------
(* Lists *)

(* Lemma: what is known of each block of a list.                             *)
LEMMA LinkedFacts ==
  ASSUME NEW ram, Linked(ram)
  PROVE  /\ End \in Nat /\ End > 0 /\ DOMAIN ram \subseteq 0..End
         /\ 0 \in DOMAIN ram /\ End \in DOMAIN ram
         /\ ram[End].next = End /\ ram[End].prev = End /\ ram[End].used = 1
         /\ ram[0].prev = 0
         /\ \A b \in DOMAIN ram :
              /\ b \in Nat /\ b <= End
              /\ ram[b].next \in DOMAIN ram /\ ram[b].prev \in DOMAIN ram /\ ram[b].used \in {0, 1}
              /\ ram[b] = [next |-> ram[b].next, prev |-> ram[b].prev, used |-> ram[b].used]
         /\ \A b \in DOMAIN ram \ {End} :
              /\ ram[b].next > b
              /\ ram[b].next # End => ram[ram[b].next].prev = b
              /\ b # 0 => ram[b].prev < b /\ ram[ram[b].prev].next = b
         /\ \A b \in DOMAIN ram \ {End}, c \in DOMAIN ram : c <= b \/ c >= ram[b].next
<1>1. End \in Nat /\ End > 0
  BY SizeAssumption DEF End
<1>2. \A b \in DOMAIN ram : ram[b] \in [next : DOMAIN ram, prev : DOMAIN ram, used : {0, 1}]
  BY DEF Linked
<1>3. \A b \in DOMAIN ram : b \in Nat /\ b <= End
  BY <1>1 DEF Linked
<1> QED BY <1>1, <1>2, <1>3 DEF Linked

(* Lemma: the successor of a block, which comes after it and no other        *)
(* between, and is the successor of no other.                                *)
LEMMA NextFacts ==
  ASSUME NEW ram, Linked(ram), NEW b \in DOMAIN ram \ {End}, NEW n, n = ram[b].next
  PROVE  /\ n \in DOMAIN ram /\ n \in Nat /\ b \in Nat /\ n > b /\ n <= End /\ End \in Nat
         /\ ram[n].used = 0 => n # End
         /\ n # End => ram[n].prev = b
         /\ \A c \in DOMAIN ram : c \in Nat /\ (c <= b \/ c >= n)
<1>1. n \in DOMAIN ram /\ b \in DOMAIN ram /\ End \in Nat /\ ram[End].used = 1
  BY LinkedFacts
<1>2. n \in Nat /\ n <= End /\ b \in Nat
  BY <1>1, LinkedFacts
<1>3. n > b /\ (n # End => ram[n].prev = b)
  BY LinkedFacts
<1>4. \A c \in DOMAIN ram : c \in Nat /\ (c <= b \/ c >= n)
  BY LinkedFacts
<1> QED BY <1>1, <1>2, <1>3, <1>4

(* Lemma: the predecessor of a block.                                        *)
LEMMA PrevFacts ==
  ASSUME NEW ram, Linked(ram), NEW h \in DOMAIN ram \ {End}, NEW p, p = ram[h].prev
  PROVE  /\ p \in DOMAIN ram /\ p \in Nat /\ h \in Nat
         /\ h = 0 => p = h
         /\ h # 0 => p < h /\ ram[p].next = h /\ p # End
<1>1. p \in DOMAIN ram /\ h \in DOMAIN ram /\ ram[0].prev = 0 /\ ram[End].next = End /\ h # End
  BY LinkedFacts
<1>2. p \in Nat /\ h \in Nat
  BY <1>1, LinkedFacts
<1>3. h # 0 => p < h /\ ram[p].next = h
  BY LinkedFacts
<1>4. h = 0 => p = h
  BY <1>1
<1>5. h # 0 => p # End
  BY <1>1, <1>3
<1> QED BY <1>1, <1>2, <1>3, <1>4, <1>5

(* Lemma: a block inserted between h and its successor leaves a list.        *)
LEMMA InsertLinked ==
  ASSUME NEW ram, Linked(ram), NEW h \in DOMAIN ram \ {End},
         NEW p \in Nat, h < p, p < ram[h].next,
         NEW new, new = Insert(ram, h, p)
  PROVE  /\ Linked(new)
         /\ DOMAIN new = DOMAIN ram \cup {p} /\ p \notin DOMAIN ram
         /\ new[p].next = ram[h].next /\ new[p].used = 0
         /\ new[h].next = p
         /\ \A b \in DOMAIN ram : new[b].used = ram[b].used
         /\ \A b \in DOMAIN ram \ {h} : new[b].next = ram[b].next
<1> DEFINE n == ram[h].next
           D == DOMAIN ram \cup {p}
<1>0. End \in Nat /\ End > 0 /\ DOMAIN ram \subseteq 0..End /\ 0 \in DOMAIN ram /\ End \in DOMAIN ram
  BY LinkedFacts
<1>1. /\ n \in DOMAIN ram /\ h \in DOMAIN ram /\ h # End /\ n > h /\ n # h
      /\ p \notin DOMAIN ram /\ p # h /\ p # n /\ n # 0 /\ p # 0
  BY <1>0 DEF Linked
<1>2. \A b \in DOMAIN ram : /\ ram[b] \in Block(ram)
                            /\ ram[b] = [next |-> ram[b].next, prev |-> ram[b].prev,
                                         used |-> ram[b].used]
  BY DEF Linked, Block
<1>3. DOMAIN new = D
  BY DEF Insert
<1>4. new[p] = [next |-> n, prev |-> h, used |-> 0]
  BY DEF Insert
<1>5. new[h] = [next |-> p, prev |-> ram[h].prev, used |-> ram[h].used]
  BY <1>1, <1>2 DEF Insert
<1>6. n # End => new[n] = [next |-> ram[n].next, prev |-> p, used |-> ram[n].used]
  BY <1>1, <1>2 DEF Insert, Follows
<1>7. n = End => new[n] = ram[n]
  BY <1>1 DEF Insert, Follows
<1>8. \A b \in DOMAIN ram \ {h, n} : new[b] = ram[b]
  BY <1>1 DEF Insert
<1>9. /\ \A b \in DOMAIN ram : new[b].used = ram[b].used
      /\ \A b \in DOMAIN ram \ {h} : new[b].next = ram[b].next
  BY <1>5, <1>6, <1>7, <1>8
<1>10. \A b \in DOMAIN ram : \/ new[b].prev = ram[b].prev
                             \/ b = n /\ n # End /\ new[b].prev = p
  BY <1>5, <1>6, <1>7, <1>8
<1>11. new = [b \in DOMAIN new |-> new[b]]
  BY DEF Insert
<1>12. \A b \in D : new[b] \in [next : D, prev : D, used : {0, 1}]
  <2>1. \A b \in DOMAIN ram : new[b] \in [next : D, prev : D, used : {0, 1}]
    BY <1>1, <1>2, <1>5, <1>6, <1>7, <1>8 DEF Block
  <2>2. new[p] \in [next : D, prev : D, used : {0, 1}]
    BY <1>1, <1>4
  <2> QED BY <2>1, <2>2
<1>13. Linked(new)
  <2>1. new \in [DOMAIN new -> [next : DOMAIN new, prev : DOMAIN new, used : {0, 1}]]
    BY <1>3, <1>11, <1>12
  <2>2. /\ {0, End} \subseteq DOMAIN new /\ DOMAIN new \subseteq 0..End
        /\ new[End] = [next |-> End, prev |-> End, used |-> 1]
    <3>1. new[End] = ram[End]
      BY <1>0, <1>1, <1>7, <1>8
    <3>2. p <= End
      BY <1>0, <1>1
    <3> QED BY <3>1, <3>2, <1>0, <1>3 DEF Linked
  <2>3. new[0].prev = 0
    <3>1. new[0].prev = ram[0].prev
      BY <1>0, <1>1, <1>10
    <3> QED BY <3>1 DEF Linked
  <2>4. ASSUME NEW b \in DOMAIN new \ {End}
        PROVE  /\ new[b].next > b
               /\ \A c \in DOMAIN new : c <= b \/ c >= new[b].next
               /\ new[b].next # End => new[new[b].next].prev = b
               /\ b # 0 => new[b].prev < b /\ new[new[b].prev].next = b
    <3>1. CASE b = p
      BY <3>1, <1>0, <1>1, <1>3, <1>4, <1>5, <1>6 DEF Linked
    <3>2. CASE b = h
      <4>1. new[b].next > b /\ (new[b].next # End => new[new[b].next].prev = b)
        BY <3>2, <1>0, <1>1, <1>4, <1>5
      <4>2. \A c \in DOMAIN new : c <= b \/ c >= new[b].next
        BY <3>2, <1>0, <1>1, <1>3, <1>5 DEF Linked
      <4>3. b # 0 => new[b].prev < b /\ new[new[b].prev].next = b
        <5>1. /\ h # 0 => ram[h].prev < h /\ ram[ram[h].prev].next = h
              /\ new[h].prev = ram[h].prev /\ ram[h].prev \in DOMAIN ram /\ h \in Int
          BY <1>0, <1>1, <1>2, <1>5 DEF Linked, Block
        <5>2. h # 0 => ram[h].prev # h
          BY <5>1
        <5>3. h # 0 => new[ram[h].prev].next = ram[ram[h].prev].next
          BY <5>1, <5>2, <1>9
        <5> QED BY <3>2, <5>1, <5>3
      <4> QED BY <4>1, <4>2, <4>3
    <3>3. CASE b # p /\ b # h
      <4>0. b \in DOMAIN ram \ {End, h} /\ new[b].next = ram[b].next
        BY <3>3, <1>3, <1>9
      <4>1. new[b].next > b
        BY <4>0 DEF Linked
      <4>2. b < h \/ b >= n
        <5>1. (b <= h \/ b >= n) /\ b \in Nat /\ h \in Nat /\ n \in Nat
          BY <4>0, <1>1, LinkedFacts
        <5> QED BY <4>0, <5>1
      <4>3. \A c \in DOMAIN new : c <= b \/ c >= new[b].next
        <5>1. ram[b].next \in DOMAIN ram /\ ram[b].next \in Int /\ (b < h => ram[b].next <= h)
          BY <4>0, <1>0, <1>1 DEF Linked
        <5> QED BY <4>0, <4>2, <5>1, <1>0, <1>1, <1>3 DEF Linked
      <4>4. new[b].next # End => new[new[b].next].prev = b
        <5>1. ram[b].next \in DOMAIN ram /\ ram[b].next # n
          BY <4>0, <4>2, <1>0, <1>1 DEF Linked
        <5> QED BY <4>0, <5>1, <1>10 DEF Linked
      <4>5. b # 0 => new[b].prev < b /\ new[new[b].prev].next = b
        <5>1. CASE b = n
          BY <5>1, <4>0, <1>0, <1>1, <1>4, <1>6
        <5>2. CASE b # n
          <6>1. b # 0 => ram[b].prev \in DOMAIN ram /\ ram[b].prev # h /\ new[b].prev = ram[b].prev
            <7>1. ram[b].prev \in DOMAIN ram /\ new[b].prev = ram[b].prev
              BY <5>2, <4>0, <1>2, <1>10 DEF Block
            <7>2. b # 0 => ram[ram[b].prev].next = b
              BY <4>0 DEF Linked
            <7> QED BY <5>2, <7>1, <7>2
          <6>2. b # 0 => ram[b].prev < b /\ ram[ram[b].prev].next = b
            BY <4>0, LinkedFacts
          <6>3. b # 0 => new[ram[b].prev].next = ram[ram[b].prev].next
            BY <6>1, <1>9
          <6> QED BY <6>1, <6>2, <6>3
        <5> QED BY <5>1, <5>2
      <4> QED BY <4>1, <4>3, <4>4, <4>5
    <3> QED BY <3>1, <3>2, <3>3
  <2> QED BY <2>1, <2>2, <2>3, <2>4 DEF Linked
<1> QED BY <1>1, <1>3, <1>4, <1>5, <1>9, <1>13

(* r has no longer the block n, which was behind h. *)
CanRemove(ram, h, n) ==
  Linked(ram) /\ h \in DOMAIN ram \ {End} /\ n = ram[h].next /\ n # End

Removed(ram, h, n, r) ==
  /\ Linked(r) /\ DOMAIN r = DOMAIN ram \ {n}
  /\ r[h].next = ram[n].next
  /\ \A b \in DOMAIN ram \ {n} : r[b].used = ram[b].used
  /\ \A b \in DOMAIN ram \ {h, n} : r[b].next = ram[b].next

(* Lemma: so does taking out the successor of h.                             *)
LEMMA RemoveDoes ==
  ASSUME NEW ram, NEW h, NEW n, CanRemove(ram, h, n)
  PROVE  Removed(ram, h, n, Remove(ram, h))
<1> DEFINE new == Remove(ram, h)
<1> DEFINE a == ram[n].next
           D == DOMAIN ram \ {n}
<1> USE DEF CanRemove
<1>0. End \in Nat /\ End > 0 /\ DOMAIN ram \subseteq 0..End /\ 0 \in DOMAIN ram /\ End \in DOMAIN ram
  BY LinkedFacts
<1>1. /\ n \in DOMAIN ram /\ h \in DOMAIN ram /\ h # End /\ n > h /\ n # h
      /\ a \in DOMAIN ram /\ a > n /\ a # n /\ a # h /\ n # End /\ n # 0
  BY <1>0 DEF Linked
<1>2. \A b \in DOMAIN ram : /\ ram[b] \in Block(ram)
                            /\ ram[b] = [next |-> ram[b].next, prev |-> ram[b].prev,
                                         used |-> ram[b].used]
  BY DEF Linked, Block
<1>3. DOMAIN new = D
  BY DEF Remove
<1>5. new[h] = [next |-> a, prev |-> ram[h].prev, used |-> ram[h].used]
  BY <1>1, <1>2 DEF Remove
<1>6. a # End => new[a] = [next |-> ram[a].next, prev |-> h, used |-> ram[a].used]
  BY <1>1, <1>2 DEF Remove, Follows
<1>7. a = End => new[a] = ram[a]
  BY <1>1 DEF Remove, Follows
<1>8. \A b \in D \ {h, a} : new[b] = ram[b]
  BY <1>1 DEF Remove
<1>9. /\ \A b \in D : new[b].used = ram[b].used
      /\ \A b \in D \ {h} : new[b].next = ram[b].next
  BY <1>5, <1>6, <1>7, <1>8
<1>10. \A b \in D : \/ b # a /\ new[b].prev = ram[b].prev
                    \/ b = a /\ a = End /\ new[b].prev = ram[b].prev
                    \/ b = a /\ a # End /\ new[b].prev = h
  BY <1>5, <1>6, <1>7, <1>8
<1>11. new = [b \in DOMAIN new |-> new[b]]
  BY DEF Remove
<1> HIDE DEF new
<1>12. \A b \in D \ {End} : b # h => ram[b].next # n
  BY <1>0, <1>1 DEF Linked
<1>13. \A b \in D : b # a /\ b # End => ram[b].prev # n
  BY <1>0, <1>1 DEF Linked
<1>14. Linked(new)
  <2>1. new \in [DOMAIN new -> [next : DOMAIN new, prev : DOMAIN new, used : {0, 1}]]
    <3>1. ASSUME NEW b \in D
          PROVE  new[b] \in [next : D, prev : D, used : {0, 1}]
      <4>1. b # a => ram[b].prev # n
        BY <1>0, <1>1, <1>13, LinkedFacts
      <4>2. CASE b = h
        BY <4>1, <4>2, <1>1, <1>2, <1>5 DEF Block
      <4>3. CASE b = a /\ a # End
        BY <4>3, <1>0, <1>1, <1>2, <1>6, <1>12 DEF Block
      <4>4. CASE b = End
        <5>1. new[End] = [next |-> End, prev |-> End, used |-> 1] /\ End \in D
          BY <1>0, <1>1, <1>7, <1>8 DEF Linked
        <5> QED BY <4>4, <5>1
      <4>5. CASE b # h /\ b # a /\ b # End
        BY <4>5, <4>1, <1>2, <1>8, <1>12 DEF Block
      <4> QED BY <4>2, <4>3, <4>4, <4>5
    <3> QED BY <3>1, <1>3, <1>11
  <2>2. /\ {0, End} \subseteq DOMAIN new /\ DOMAIN new \subseteq 0..End
        /\ new[End] = [next |-> End, prev |-> End, used |-> 1]
    <3>1. new[End] = ram[End]
      BY <1>0, <1>1, <1>7, <1>8
    <3> QED BY <3>1, <1>0, <1>1, <1>3 DEF Linked
  <2>3. new[0].prev = 0
    <3>1. new[0].prev = ram[0].prev
      BY <1>0, <1>1, <1>10
    <3> QED BY <3>1 DEF Linked
  <2>4. ASSUME NEW b \in DOMAIN new \ {End}
        PROVE  /\ new[b].next > b
               /\ \A c \in DOMAIN new : c <= b \/ c >= new[b].next
               /\ new[b].next # End => new[new[b].next].prev = b
               /\ b # 0 => new[b].prev < b /\ new[new[b].prev].next = b
    <3>0. b \in DOMAIN ram \ {End, n} /\ b \in D
      BY <1>3
    <3>1. b # h => new[b].next = ram[b].next /\ ram[b].next # n
      BY <3>0, <1>9, <1>12
    <3>2. new[b].next > b /\ \A c \in DOMAIN new : c <= b \/ c >= new[b].next
      <4>1. CASE b = h
        <5>1. \A c \in D : (c <= h \/ c >= n) /\ (c <= n \/ c >= a) /\ c # n /\ c \in Nat
          BY <1>0, <1>1, LinkedFacts
        <5>2. h \in Nat /\ n \in Nat /\ a \in Nat
          BY <1>1, LinkedFacts
        <5> QED BY <4>1, <5>1, <5>2, <1>1, <1>3, <1>5
      <4>2. CASE b # h
        <5>1. ram[b].next > b /\ \A c \in DOMAIN ram : c <= b \/ c >= ram[b].next
          BY <3>0, LinkedFacts
        <5> QED BY <4>2, <5>1, <3>1, <1>3
      <4> QED BY <4>1, <4>2
    <3>3. new[b].next # End => new[new[b].next].prev = b
      <4>1. CASE b = h
        BY <4>1, <1>5, <1>6
      <4>2. CASE b # h /\ new[b].next # End
        <5>1. ram[b].next # a
          <6>1. ram[b].next # End /\ ram[ram[b].next].prev = b
            BY <4>2, <3>0, <3>1, LinkedFacts
          <6>2. a # End => ram[a].prev = n
            BY <1>1, LinkedFacts
          <6> QED BY <6>1, <6>2, <3>0
        <5>2. ram[b].next \in D
          BY <4>2, <3>0, <3>1, LinkedFacts
        <5>3. new[ram[b].next].prev = ram[ram[b].next].prev
          BY <5>1, <5>2, <1>10
        <5> QED BY <4>2, <5>3, <3>0, <3>1, LinkedFacts
      <4> QED BY <4>1, <4>2
    <3>4. b # 0 => new[b].prev < b /\ new[new[b].prev].next = b
      <4>1. CASE b = a
        <5>1. new[b].prev = h /\ new[h].next = a
          BY <4>1, <3>0, <1>5, <1>6
        <5> QED BY <5>1, <4>1, <1>0, <1>1, LinkedFacts
      <4>2. CASE b # a /\ b # 0
        <5>1. ram[b].prev # n /\ new[b].prev = ram[b].prev
          BY <4>2, <3>0, <1>10, <1>13
        <5>2. ram[b].prev \in D /\ ram[b].prev < b /\ ram[ram[b].prev].next = b
          BY <5>1, <4>2, <3>0, LinkedFacts
        <5>3. ram[b].prev # h
          BY <5>2, <3>0
        <5>4. new[ram[b].prev].next = b
          BY <5>2, <5>3, <1>9
        <5> QED BY <5>1, <5>2, <5>4
      <4> QED BY <4>1, <4>2
    <3> QED BY <3>2, <3>3, <3>4
  <2> QED BY <2>1, <2>2, <2>3, <2>4 DEF Linked
<1> QED BY <1>1, <1>3, <1>5, <1>9, <1>14 DEF Removed, new

(* r has a new free block p behind h. *)
CanInsert(ram, h, p) ==
  Linked(ram) /\ h \in DOMAIN ram \ {End} /\ p \in Nat /\ h < p /\ p < ram[h].next

Inserted(ram, h, p, r) ==
  /\ Linked(r) /\ DOMAIN r = DOMAIN ram \cup {p} /\ p \notin DOMAIN ram
  /\ r[p].next = ram[h].next /\ r[p].used = 0 /\ r[h].next = p
  /\ \A b \in DOMAIN ram : r[b].used = ram[b].used
  /\ \A b \in DOMAIN ram \ {h} : r[b].next = ram[b].next

(* Lemma: InsertLinked in one word.                                          *)
LEMMA InsertDoes ==
  ASSUME NEW ram, NEW h, NEW p, CanInsert(ram, h, p)
  PROVE  Inserted(ram, h, p, Insert(ram, h, p))
<1> DEFINE r == Insert(ram, h, p)
<1>1. r = Insert(ram, h, p)
  OBVIOUS
<1> HIDE DEF r
<1>2. Inserted(ram, h, p, r)
  BY <1>1, InsertLinked DEF CanInsert, Inserted
<1> QED BY <1>2 DEF r

Mark(ram, h, v) == [ram EXCEPT ![h].used = v]

(* Lemma: marking a block used or unused leaves a list.                      *)
LEMMA MarkLinked ==
  ASSUME NEW ram, Linked(ram), NEW h \in DOMAIN ram \ {End}, NEW v \in {0, 1},
         NEW new, new = Mark(ram, h, v)
  PROVE  /\ Linked(new) /\ DOMAIN new = DOMAIN ram
         /\ \A b \in DOMAIN ram : new[b].next = ram[b].next /\ new[b].prev = ram[b].prev
         /\ new[h].used = v
         /\ \A b \in DOMAIN ram \ {h} : new[b].used = ram[b].used
<1>1. DOMAIN new = DOMAIN ram /\ new = [b \in DOMAIN new |-> new[b]]
  BY DEF Linked, Mark
<1>2. new[h] = [next |-> ram[h].next, prev |-> ram[h].prev, used |-> v]
  BY LinkedFacts DEF Linked, Mark
<1>3. \A b \in DOMAIN ram \ {h} : new[b] = ram[b]
  BY DEF Linked, Mark
<1>4. \A b \in DOMAIN ram : new[b].next = ram[b].next /\ new[b].prev = ram[b].prev
  BY <1>2, <1>3
<1>5. \A b \in DOMAIN ram : new[b] \in [next : DOMAIN ram, prev : DOMAIN ram, used : {0, 1}]
  <2>1. ASSUME NEW b \in DOMAIN ram
        PROVE  new[b] \in [next : DOMAIN ram, prev : DOMAIN ram, used : {0, 1}]
    <3>1. CASE b = h
      <4>1. ram[h].next \in DOMAIN ram /\ ram[h].prev \in DOMAIN ram
        BY LinkedFacts
      <4> QED BY <3>1, <4>1, <1>2
    <3>2. CASE b # h
      BY <3>2, <1>3 DEF Linked
    <3> QED BY <3>1, <3>2
  <2> QED BY <2>1
<1>6. new \in [DOMAIN new -> [next : DOMAIN new, prev : DOMAIN new, used : {0, 1}]]
  BY <1>1, <1>5
<1>7. new[End] = ram[End]
  BY <1>3, LinkedFacts
<1>8. Linked(new)
  <2>1. ASSUME NEW b \in DOMAIN new \ {End}
        PROVE  /\ new[b].next > b
               /\ \A c \in DOMAIN new : c <= b \/ c >= new[b].next
               /\ new[b].next # End => new[new[b].next].prev = b
               /\ b # 0 => new[b].prev < b /\ new[new[b].prev].next = b
    <3>1. new[b].next = ram[b].next /\ new[b].prev = ram[b].prev /\ b \in DOMAIN ram \ {End}
      BY <1>1, <1>4
    <3>2. /\ new[ram[b].next].prev = ram[ram[b].next].prev
          /\ new[ram[b].prev].next = ram[ram[b].prev].next
      BY <3>1, <1>4, LinkedFacts
    <3>3. /\ ram[b].next > b
          /\ \A c \in DOMAIN ram : c <= b \/ c >= ram[b].next
          /\ ram[b].next # End => ram[ram[b].next].prev = b
          /\ b # 0 => ram[b].prev < b /\ ram[ram[b].prev].next = b
      BY <3>1, LinkedFacts
    <3> QED BY <3>1, <3>2, <3>3, <1>1
  <2>2. new[0].prev = 0
    BY <1>4, LinkedFacts
  <2> QED BY <2>1, <2>2, <1>1, <1>6, <1>7 DEF Linked
<1> QED BY <1>1, <1>2, <1>3, <1>4, <1>8

-----------------------------------------------------------------------------
(* What every call keeps up of the heap hp. *)

Holes(ram) == \A b \in DOMAIN ram : ram[b].used = 0 => ram[ram[b].next].used = 1

Rooms(ram) == \A b \in DOMAIN ram \ {End} : Room(ram, b) >= MIN

Lowest(ram, low) ==
  /\ low \in DOMAIN ram
  /\ low = End \/ ram[low].used = 0
  /\ \A b \in DOMAIN ram : b < low => ram[b].used = 1

Good(hp) == Linked(hp.ram) /\ Holes(hp.ram) /\ Rooms(hp.ram) /\ Lowest(hp.ram, hp.lfree)

InUse(ram) == {b \in DOMAIN ram \ {End} : ram[b].used = 1}

(* Lemma: a block put in use, split or not, leaves the heap good, with lfree *)
(* at the next free block.                                                   *)
LEMMA UseGood ==
  ASSUME NEW hp, Good(hp), NEW size \in Nat, size >= MIN,
         NEW h \in DOMAIN hp.ram \ {End}, hp.ram[h].used = 0, h >= hp.lfree,
         Room(hp.ram, h) >= size,
         NEW f \in DOMAIN Use(hp.ram, h, size),
         IF h = hp.lfree THEN NextFree(f, Use(hp.ram, h, size), h) ELSE f = hp.lfree
  PROVE  LET new == Use(hp.ram, h, size) IN
         /\ Good([ram |-> new, lfree |-> f])
         /\ InUse(new) = InUse(hp.ram) \cup {h}
         /\ Room(new, h) >= size
         /\ \A b \in InUse(hp.ram) : Room(new, b) = Room(hp.ram, b)
<1> DEFINE ram == hp.ram
           p == h + HDR + size
           r == IF Splits(ram, h, size) THEN Insert(ram, h, p) ELSE ram
           new == Use(hp.ram, h, size)
<1>0. /\ MIN \in Nat /\ HDR \in Nat /\ HDR > 0 /\ MIN > 0 /\ Linked(ram)
      /\ h \in DOMAIN ram /\ h # End /\ h \in Nat /\ ram[h].next \in Nat /\ ram[h].next \in DOMAIN ram
  <2>1. Linked(ram) /\ h \in DOMAIN ram /\ h # End
    BY DEF Good
  <2>2. h \in Nat /\ ram[h].next \in DOMAIN ram
    BY ONLY <2>1, LinkedFacts, Zenon
  <2>3. ram[h].next \in Nat
    BY ONLY <2>1, <2>2, LinkedFacts, Zenon
  <2> QED BY <2>1, <2>2, <2>3, SizeAssumption
<1>1. /\ Linked(r) /\ DOMAIN ram \subseteq DOMAIN r
      /\ \A b \in DOMAIN ram : r[b].used = ram[b].used
      /\ \A b \in DOMAIN ram \ {h} : r[b].next = ram[b].next
      /\ Room(r, h) >= size
      /\ \/ r = ram
         \/ /\ DOMAIN r = DOMAIN ram \cup {p} /\ p \notin DOMAIN ram
            /\ r[p].used = 0 /\ r[p].next = ram[h].next /\ r[h].next = p
            /\ Room(r, p) >= MIN /\ p \in Nat /\ p > h
  <2>1. CASE Splits(ram, h, size)
    <3>1. ram[h].next - (h + HDR) >= size + HDR + MIN
      BY <2>1 DEF Splits, Room
    <3>2. p \in Nat /\ h < p /\ p < ram[h].next /\ ram[h].next - (p + HDR) >= MIN
      BY <3>1, <1>0
    <3>3. r = Insert(ram, h, p)
      BY <2>1
    <3> HIDE DEF r, p
    <3>4. /\ Linked(r) /\ DOMAIN r = DOMAIN ram \cup {p} /\ p \notin DOMAIN ram
          /\ r[p].next = ram[h].next /\ r[p].used = 0 /\ r[h].next = p
          /\ \A b \in DOMAIN ram : r[b].used = ram[b].used
          /\ \A b \in DOMAIN ram \ {h} : r[b].next = ram[b].next
      <4>1. h \in DOMAIN ram \ {End} /\ Linked(ram) /\ p \in Nat /\ h < p /\ p < ram[h].next
        BY <3>2, <1>0
      <4> HIDE DEF ram
      <4> QED BY <4>1, <3>3, InsertLinked
    <3>5. Room(r, h) >= size /\ Room(r, p) >= MIN
      BY <3>2, <3>4, <1>0 DEF Room, p
    <3> QED BY <3>2, <3>4, <3>5
  <2>2. CASE ~Splits(ram, h, size)
    BY <2>2, <1>0
  <2> QED BY <2>1, <2>2
<1>2. new = Mark(r, h, 1)
  BY DEF Use, Mark
<1> HIDE DEF r, new
<1>3. /\ Linked(new) /\ DOMAIN new = DOMAIN r /\ new[h].used = 1
      /\ \A b \in DOMAIN r : new[b].next = r[b].next
      /\ \A b \in DOMAIN r \ {h} : new[b].used = r[b].used
  <2>1. h \in DOMAIN r \ {End}
    BY <1>0, <1>1
  <2> QED BY <2>1, <1>1, <1>2, MarkLinked
<1>4. Holes(new)
  <2>1. ASSUME NEW b \in DOMAIN new, new[b].used = 0 PROVE new[new[b].next].used = 1
    <3>1. b # h
      BY <2>1, <1>3
    <3>2. CASE b \in DOMAIN ram
      <4>1. ram[b].used = 0 /\ ram[b].next \in DOMAIN ram /\ new[b].next = ram[b].next
        BY <3>1, <3>2, <2>1, <1>0, <1>1, <1>3, LinkedFacts
      <4>2. ram[ram[b].next].used = 1
        BY <4>1, <3>2 DEF Good, Holes
      <4> QED BY <4>1, <4>2, <1>1, <1>3
    <3>3. CASE b \notin DOMAIN ram
      <4>1. new[b].next = ram[h].next
        BY <3>3, <1>1, <1>3
      <4>2. ram[ram[h].next].used = 1
        BY <1>0 DEF Good, Holes
      <4> QED BY <4>1, <4>2, <1>0, <1>1, <1>3
    <3> QED BY <3>2, <3>3
  <2> QED BY <2>1 DEF Holes
<1>5. /\ \A b \in DOMAIN new : Room(new, b) = Room(r, b)
      /\ \A b \in DOMAIN ram \ {h} : Room(r, b) = Room(ram, b)
  BY <1>1, <1>3 DEF Room
<1>6. Rooms(new)
  <2>1. ASSUME NEW b \in DOMAIN new \ {End} PROVE Room(r, b) >= MIN
    <3>1. CASE b = h
      <4>0. h \in DOMAIN r /\ Linked(r)
        BY <1>0, <1>1
      <4>2. r[h].next \in Nat
        BY <4>0, LinkedFacts
      <4>1. Room(r, h) \in Int
        BY <4>2, <1>0 DEF Room
      <4> QED BY <3>1, <4>1, <1>0, <1>1
    <3>2. CASE b \in DOMAIN ram \ {h}
      BY <3>2, <2>1, <1>5 DEF Good, Rooms
    <3>3. CASE b \notin DOMAIN ram
      BY <3>3, <1>1, <1>3
    <3> QED BY <3>1, <3>2, <3>3
  <2> QED BY <2>1, <1>5 DEF Rooms
<1>7. Lowest(new, f)
  <2>0. f \in DOMAIN new /\ f \in Nat /\ DOMAIN new \subseteq Nat /\ hp.lfree \in Nat
    BY <1>0, <1>3, LinkedFacts DEF new, Good, Lowest
  <2>1. CASE h = hp.lfree
    <3>1. /\ f >= h /\ (new[f].used = 0 \/ f = End)
          /\ \A b \in DOMAIN new : b >= h /\ new[b].used = 0 => f <= b
      BY <2>1 DEF NextFree, IsLowest, new
    <3>2. ASSUME NEW b \in DOMAIN new, b < f PROVE new[b].used = 1
      <4>0. new[b].used \in {0, 1}
        BY <1>3, LinkedFacts
      <4>1. CASE b >= h
        BY <4>0, <4>1, <3>1, <3>2, <2>0
      <4>2. CASE b < h
        <5>1. b \in DOMAIN ram /\ b # h
          BY <4>2, <2>0, <1>0, <1>1, <1>3
        <5>2. ram[b].used = 1
          BY <4>2, <5>1, <2>1 DEF Good, Lowest
        <5> QED BY <5>1, <5>2, <1>1, <1>3
      <4> QED BY <4>1, <4>2, <2>0, <1>0
    <3> QED BY <3>1, <3>2, <2>0 DEF Lowest
  <2>2. CASE h # hp.lfree
    <3>1. f = hp.lfree /\ f \in DOMAIN ram /\ f < h /\ f # End
      <4>1. f = hp.lfree /\ f \in DOMAIN ram
        BY <2>2 DEF Good, Lowest
      <4>2. h <= End /\ End \in Nat
        BY <1>0, LinkedFacts
      <4> QED BY <4>1, <4>2, <2>0, <2>2, <1>0
    <3>2. new[f].used = 0
      BY <3>1, <2>2, <1>1, <1>3 DEF Good, Lowest
    <3>3. ASSUME NEW b \in DOMAIN new, b < f PROVE new[b].used = 1
      <4>1. b \in DOMAIN ram /\ b # h
        BY <3>1, <3>3, <2>0, <1>0, <1>1, <1>3
      <4>2. ram[b].used = 1
        BY <4>1, <3>1, <3>3 DEF Good, Lowest
      <4> QED BY <4>1, <4>2, <1>1, <1>3
    <3> QED BY <3>2, <3>3, <2>0 DEF Lowest
  <2> QED BY <2>1, <2>2
<1>8. InUse(new) = InUse(ram) \cup {h}
  BY <1>0, <1>1, <1>3 DEF InUse
<1>9. Room(new, h) >= size
  BY <1>0, <1>1, <1>3, <1>5
<1>10. \A b \in InUse(ram) : Room(new, b) = Room(ram, b)
  BY <1>1, <1>3, <1>5 DEF InUse
<1> QED BY <1>3, <1>4, <1>6, <1>7, <1>8, <1>9, <1>10 DEF Good, new

-----------------------------------------------------------------------------
(* mem_free *)

(* A free block b with a free block n behind it, none of them below low.     *)
FreePair(ram, low, b, n) ==
  /\ Linked(ram) /\ Rooms(ram) /\ Lowest(ram, low)
  /\ b \in DOMAIN ram \ {End} /\ ram[b].used = 0 /\ low <= b
  /\ n = ram[b].next /\ ram[n].used = 0

(* r has the blocks of ram but n, and nobody who uses one can tell.          *)
Joined(ram, low, b, n, r) ==
  /\ Linked(r) /\ Rooms(r) /\ Lowest(r, low)
  /\ DOMAIN r = DOMAIN ram \ {n}
  /\ \A c \in DOMAIN r : r[c].used = ram[c].used
  /\ \A c \in DOMAIN r \ {b} : r[c].next = ram[c].next
  /\ r[b].next = ram[n].next
  /\ InUse(r) = InUse(ram)
  /\ \A c \in InUse(r) : Room(r, c) = Room(ram, c)

(* Lemma: a free block that absorbs the free block behind it leaves a list   *)
(* with the same blocks in use and the same lowest free block.               *)
LEMMA AbsorbKeeps ==
  ASSUME NEW ram, NEW low, NEW b, NEW n, FreePair(ram, low, b, n)
  PROVE  Joined(ram, low, b, n, Remove(ram, b))
<1> DEFINE r == Remove(ram, b)
<1> USE DEF FreePair
<1> HIDE DEF r
<1>0. /\ n \in DOMAIN ram /\ n # End /\ n > b /\ n # b /\ n \in Nat /\ b \in Nat
      /\ low \in Nat /\ HDR \in Nat /\ MIN \in Nat
  <2>1. n \in DOMAIN ram /\ n # End /\ n > b /\ n \in Nat /\ b \in Nat
    BY NextFacts
  <2>2. low \in Nat
    BY NextFacts DEF Lowest
  <2> QED BY <2>1, <2>2, SizeAssumption
<1>2. /\ Linked(r) /\ DOMAIN r = DOMAIN ram \ {n}
      /\ r[b].next = ram[n].next /\ ram[n].next > n
      /\ \A c \in DOMAIN ram \ {n} : r[c].used = ram[c].used
      /\ \A c \in DOMAIN ram \ {b, n} : r[c].next = ram[c].next
  <2>1. CanRemove(ram, b, n)
    BY <1>0 DEF CanRemove
  <2>2. Removed(ram, b, n, r)
    BY <2>1, RemoveDoes DEF r
  <2>3. ram[n].next > n
    BY <1>0, NextFacts
  <2> QED BY <2>2, <2>3 DEF Removed
<1>3. Rooms(r)
  <2>1. ASSUME NEW c \in DOMAIN r \ {End} PROVE Room(r, c) >= MIN
    <3>1. CASE c = b
      <4>1. ram[b].next - (b + HDR) >= MIN
        BY DEF Rooms, Room
      <4>2. ram[n].next \in Nat /\ r[b].next = ram[n].next /\ r[b].next > n
        BY <1>0, <1>2, LinkedFacts
      <4> QED BY <3>1, <4>1, <4>2, <1>0 DEF Room
    <3>2. CASE c # b
      BY <3>2, <2>1, <1>2 DEF Rooms, Room
    <3> QED BY <3>1, <3>2
  <2> QED BY <2>1 DEF Rooms
<1>4. Lowest(r, low)
  <2>1. low \in DOMAIN r
    BY <1>0, <1>2 DEF Lowest
  <2>2. low = End \/ r[low].used = 0
    BY <2>1, <1>2 DEF Lowest
  <2>3. \A c \in DOMAIN r : c < low => r[c].used = 1
    BY <1>2 DEF Lowest
  <2> QED BY <2>1, <2>2, <2>3 DEF Lowest
<1>5. InUse(r) = InUse(ram)
  BY <1>0, <1>2 DEF InUse
<1>6. \A c \in InUse(r) : Room(r, c) = Room(ram, c)
  <2>1. ASSUME NEW c \in InUse(r) PROVE Room(r, c) = Room(ram, c)
    <3>1. c \in DOMAIN ram \ {b, n}
      BY <1>2 DEF InUse
    <3> QED BY <3>1, <1>2 DEF Room
  <2> QED BY <2>1
<1> QED BY <1>2, <1>3, <1>4, <1>5, <1>6 DEF Joined, r

(* The heap with h just freed: the only free blocks that may be next to one  *)
(* another are h and its neighbours.                                         *)
Near(ram, low, h) ==
  /\ Linked(ram) /\ Rooms(ram) /\ Lowest(ram, low) /\ low <= h
  /\ h \in DOMAIN ram \ {End} /\ ram[h].used = 0
  /\ \A b \in DOMAIN ram \ {h} :
       ram[b].used = 0 /\ ram[b].next # h => ram[ram[b].next].used = 1

(* Lemma: the forward half of plug_holes.                                    *)
LEMMA PlugForward ==
  ASSUME NEW ram, NEW low, NEW h, Near(ram, low, h),
         NEW n, n = ram[h].next, ram[n].used = 0,
         NEW r, r = Remove(ram, h)
  PROVE  /\ Near(r, low, h) /\ r[r[h].next].used = 1 /\ low # n
         /\ InUse(r) = InUse(ram)
         /\ \A c \in InUse(r) : Room(r, c) = Room(ram, c)
<1>0. n \in DOMAIN ram /\ n # h /\ n # End /\ n > h /\ n \in Nat /\ h \in Nat
  BY NextFacts DEF Near
<1>a. low # n
  BY <1>0 DEF Near, Lowest
<1>1. Joined(ram, low, h, n, r)
  <2>1. FreePair(ram, low, h, n)
    BY DEF Near, FreePair
  <2> QED BY <2>1, AbsorbKeeps
<1>2. ram[n].next # h /\ ram[n].next # n /\ ram[n].next \in DOMAIN ram
  <2>1. n \in DOMAIN ram \ {End} /\ Linked(ram)
    BY <1>0 DEF Near
  <2>2. ram[n].next \in Nat /\ ram[n].next > n /\ ram[n].next \in DOMAIN ram
    BY <2>1, NextFacts
  <2> QED BY <2>2, <1>0
<1>3. ram[ram[n].next].used = 1
  BY <1>0, <1>2 DEF Near
<1>4. r[r[h].next].used = 1
  <2>1. ram[n].next \in DOMAIN r
    BY <1>1, <1>2 DEF Joined
  <2> QED BY <2>1, <1>1, <1>3 DEF Joined
<1>5. ASSUME NEW b \in DOMAIN r \ {h}, r[b].used = 0, r[b].next # h
      PROVE  r[r[b].next].used = 1
  <2>1. /\ b \in DOMAIN ram \ {h, n} /\ ram[b].used = 0 /\ ram[b].next # h
        /\ r[b].next = ram[b].next
    BY <1>1, <1>5 DEF Joined
  <2>2. ram[ram[b].next].used = 1
    BY <2>1 DEF Near
  <2>3. ram[b].next # n
    BY <2>2
  <2>4. ram[b].next \in DOMAIN ram
    BY <2>1, LinkedFacts DEF Near
  <2>5. ram[b].next \in DOMAIN r
    BY <2>3, <2>4, <1>1 DEF Joined
  <2> QED BY <2>1, <2>2, <2>5, <1>1 DEF Joined
<1>6. h \in DOMAIN r \ {End} /\ r[h].used = 0
  BY <1>0, <1>1 DEF Near, Joined
<1>7. low <= h
  BY DEF Near
<1> QED BY <1>a, <1>1, <1>4, <1>5, <1>6, <1>7 DEF Near, Joined

(* Lemma: the backward half of plug_holes, with nothing free behind h.       *)
LEMMA PlugBackward ==
  ASSUME NEW ram, NEW low, NEW h, Near(ram, low, h), ram[ram[h].next].used = 1,
         NEW p, p = ram[h].prev, p # h, ram[p].used = 0,
         NEW r, r = Remove(ram, p)
  PROVE  /\ Linked(r) /\ Rooms(r) /\ Lowest(r, low) /\ low # h /\ Holes(r)
         /\ ram[p].next = h
         /\ InUse(r) = InUse(ram)
         /\ \A c \in InUse(r) : Room(r, c) = Room(ram, c)
<1> USE DEF Near
<1>0. /\ p \in DOMAIN ram \ {End} /\ p \in Nat /\ h \in Nat /\ p < h /\ ram[p].next = h
      /\ ram[h].next \in DOMAIN ram /\ ram[h].next # h
  <2>1. p \in DOMAIN ram \ {End} /\ p \in Nat /\ h \in Nat /\ p < h /\ ram[p].next = h
    BY PrevFacts
  <2>2. ram[h].next \in DOMAIN ram /\ ram[h].next > h /\ ram[h].next \in Nat
    BY NextFacts
  <2> QED BY <2>1, <2>2
<1>1. low <= p /\ low # h
  <2>1. low # h
    BY <1>0 DEF Lowest
  <2>2. low \in DOMAIN ram /\ low <= h
    BY DEF Lowest
  <2>3. low \in Nat /\ (low <= p \/ low >= h)
    BY <1>0, <2>2, NextFacts
  <2> QED BY <2>1, <2>2, <2>3, <1>0
<1>2. Joined(ram, low, p, h, r)
  <2>1. FreePair(ram, low, p, h)
    BY <1>0, <1>1 DEF FreePair
  <2> QED BY <2>1, AbsorbKeeps
<1>3. ASSUME NEW b \in DOMAIN r, r[b].used = 0
      PROVE  r[r[b].next].used = 1
  <2>1. CASE b = p
    BY <2>1, <1>0, <1>2 DEF Joined
  <2>2. CASE b # p
    <3>1. b \in DOMAIN ram \ {h, p} /\ ram[b].used = 0 /\ r[b].next = ram[b].next
      BY <2>2, <1>2, <1>3 DEF Joined
    <3>2. b # End /\ ram[b].next \in DOMAIN ram
      BY <3>1, LinkedFacts
    <3>3. ram[b].next # End => ram[ram[b].next].prev = b
      BY <3>1, <3>2, LinkedFacts
    <3>4. ram[b].next # h
      BY <3>1, <3>3, <1>0
    <3>5. ram[ram[b].next].used = 1
      BY <3>1, <3>4
    <3> QED BY <3>1, <3>2, <3>4, <3>5, <1>2 DEF Joined
  <2> QED BY <2>1, <2>2
<1> QED BY <1>0, <1>1, <1>2, <1>3 DEF Holes, Joined

(* Lemma: no two free blocks are left if the predecessor of h is in use.     *)
LEMMA PlugNone ==
  ASSUME NEW ram, NEW low, NEW h, Near(ram, low, h), ram[ram[h].next].used = 1,
         NEW p, p = ram[h].prev, p = h \/ ram[p].used # 0
  PROVE  Holes(ram)
<1> USE DEF Near
<1>1. ASSUME NEW b \in DOMAIN ram, ram[b].used = 0
      PROVE  ram[ram[b].next].used = 1
  <2>1. CASE ram[b].next = h
    <3>1. b # End /\ h # End
      BY <1>1, LinkedFacts
    <3>2. b \in Nat /\ h \in Nat /\ h > b /\ ram[h].prev = b
      BY <2>1, <3>1, NextFacts
    <3> QED BY <3>2, <1>1
  <2>2. CASE ram[b].next # h
    BY <2>2, <1>1
  <2> QED BY <2>1, <2>2
<1> QED BY <1>1 DEF Holes

(* What a call that leaves the blocks in use alone leaves of the heap.       *)
Sound(hp, used, ram) ==
  /\ Good(hp) /\ InUse(hp.ram) = used
  /\ \A c \in used : Room(hp.ram, c) = Room(ram, c)

(* Lemma: plug_holes makes a heap with h just freed good again.              *)
LEMMA PlugHolesGood ==
  ASSUME NEW ram, NEW low, NEW h, Near(ram, low, h)
  PROVE  Sound(PlugHoles([ram |-> ram, lfree |-> low], h), InUse(ram), ram)
<1> DEFINE hp == [ram |-> ram, lfree |-> low]
           r == IF ram[ram[h].next].used = 0 THEN Remove(ram, h) ELSE ram
           p == r[h].prev
           f == [ram |-> r, lfree |-> low]
<1>1. /\ Near(r, low, h) /\ r[r[h].next].used = 1
      /\ InUse(r) = InUse(ram)
      /\ \A c \in InUse(r) : Room(r, c) = Room(ram, c)
      /\ (IF hp.ram[hp.ram[h].next].used = 0 THEN Absorb(hp, h) ELSE hp) = f
  <2> DEFINE n == ram[h].next
  <2>1. CASE ram[n].used = 0
    <3>1. r = Remove(ram, h)
      BY <2>1
    <3> HIDE DEF r
    <3>2. /\ Near(r, low, h) /\ r[r[h].next].used = 1 /\ low # n
          /\ InUse(r) = InUse(ram)
          /\ \A c \in InUse(r) : Room(r, c) = Room(ram, c)
      <4> HIDE DEF n
      <4>1. n = ram[h].next
        BY DEF n
      <4> QED BY <2>1, <3>1, <4>1, PlugForward
    <3>3. Absorb(hp, h) = [ram |-> r, lfree |-> low]
      BY <3>1, <3>2 DEF Absorb
    <3> QED BY <2>1, <3>2, <3>3
  <2>2. CASE ram[n].used # 0
    <3>1. h \in DOMAIN ram /\ Linked(ram)
      BY DEF Near
    <3>2. n \in DOMAIN ram
      BY <3>1, LinkedFacts
    <3>3. ram[n].used = 1
      BY <2>2, <3>1, <3>2, LinkedFacts
    <3>4. r = ram
      BY <2>2
    <3> QED BY <2>2, <3>3, <3>4
  <2> QED BY <2>1, <2>2
<1>2. PlugHoles(hp, h) = IF p # h /\ r[p].used = 0 THEN Absorb(f, p) ELSE f
  <2> DEFINE g == IF hp.ram[hp.ram[h].next].used = 0 THEN Absorb(hp, h) ELSE hp
  <2>1. g = f
    BY <1>1
  <2>2. PlugHoles(hp, h) = IF g.ram[h].prev # h /\ g.ram[g.ram[h].prev].used = 0
                           THEN Absorb(g, g.ram[h].prev) ELSE g
    BY ONLY DEF PlugHoles
  <2>3. f.ram = r /\ p = r[h].prev
    OBVIOUS
  <2> HIDE DEF g, f, r, p, hp
  <2> QED BY ONLY <2>1, <2>2, <2>3, Zenon
<1> HIDE DEF r, p
<1>3. CASE p # h /\ r[p].used = 0
  <2> DEFINE q == Remove(r, p)
  <2>1. /\ Linked(q) /\ Rooms(q) /\ Lowest(q, low) /\ low # h /\ Holes(q)
        /\ r[p].next = h /\ InUse(q) = InUse(r)
        /\ \A c \in InUse(q) : Room(q, c) = Room(r, c)
    <3>1. p = r[h].prev
      BY DEF p
    <3> HIDE DEF q
    <3>2. q = Remove(r, p)
      BY DEF q
    <3> QED BY <1>1, <1>3, <3>1, <3>2, PlugBackward
  <2>2. Absorb(f, p) = [ram |-> q, lfree |-> low]
    BY <2>1 DEF Absorb
  <2> HIDE DEF q
  <2> QED BY <1>1, <1>2, <1>3, <2>1, <2>2 DEF Good, Sound
<1>4. CASE ~(p # h /\ r[p].used = 0)
  <2>1. Holes(r)
    <3>1. p = r[h].prev /\ (p = h \/ r[p].used # 0)
      BY <1>4 DEF p
    <3> QED BY <1>1, <3>1, PlugNone
  <2>2. PlugHoles(hp, h) = f
    BY <1>2, <1>4
  <2> QED BY <1>1, <2>1, <2>2 DEF Good, Near, Sound
<1> QED BY <1>3, <1>4

(* Lemma: mem_free of a block in use takes it out of use, and changes no     *)
(* other.                                                                    *)
LEMMA FreeGood ==
  ASSUME NEW hp, Good(hp), NEW h \in InUse(hp.ram),
         NEW new, new = PlugHoles([ram |-> Mark(hp.ram, h, 0), lfree |-> FreedLfree(hp.lfree, h)], h)
  PROVE  Sound(new, InUse(hp.ram) \ {h}, hp.ram)
<1> DEFINE ram == hp.ram
           low == hp.lfree
           m == Mark(ram, h, 0)
           l == FreedLfree(low, h)
<1>0. /\ Linked(ram) /\ Holes(ram) /\ Rooms(ram) /\ Lowest(ram, low)
      /\ h \in DOMAIN ram \ {End} /\ ram[h].used = 1
  BY DEF Good, InUse
<1> HIDE DEF ram, low, m
<1>1. /\ Linked(m) /\ DOMAIN m = DOMAIN ram /\ m[h].used = 0
      /\ \A b \in DOMAIN ram : m[b].next = ram[b].next
      /\ \A b \in DOMAIN ram \ {h} : m[b].used = ram[b].used
  <2>1. m = Mark(ram, h, 0) /\ 0 \in {0, 1}
    BY DEF m
  <2>2. Linked(ram) /\ h \in DOMAIN ram \ {End}
    BY <1>0
  <2> QED BY ONLY <2>1, <2>2, MarkLinked
<1>2. \A b \in DOMAIN ram : Room(m, b) = Room(ram, b)
  BY <1>1 DEF Room
<1>3. h \in Nat /\ low \in Nat /\ low \in DOMAIN ram /\ low # h /\ DOMAIN ram \subseteq Nat
  <2>1. low \in DOMAIN ram /\ low # h
    BY <1>0 DEF Lowest
  <2> QED BY <1>0, <2>1, LinkedFacts
<1>4. Lowest(m, l) /\ l <= h
  <2>1. CASE h < low
    <3>1. l = h
      BY <2>1 DEF FreedLfree
    <3> QED BY <2>1, <3>1, <1>0, <1>1, <1>3 DEF Lowest
  <2>2. CASE ~(h < low)
    <3>1. l = low /\ low < h
      BY <2>2, <1>3 DEF FreedLfree
    <3>2. low = End \/ m[low].used = 0
      BY <3>1, <1>0, <1>1, <1>3 DEF Lowest
    <3>3. \A b \in DOMAIN m : b < low => m[b].used = 1
      BY <3>1, <1>0, <1>1, <1>3 DEF Lowest
    <3> QED BY <3>1, <3>2, <3>3, <1>1, <1>3 DEF Lowest
  <2> QED BY <2>1, <2>2
<1>5. Near(m, l, h)
  <2>1. Rooms(m)
    BY <1>0, <1>1, <1>2 DEF Rooms
  <2>2. ASSUME NEW b \in DOMAIN m \ {h}, m[b].used = 0, m[b].next # h
        PROVE  m[m[b].next].used = 1
    <3>1. b \in DOMAIN ram /\ ram[b].used = 0 /\ m[b].next = ram[b].next
      BY <2>2, <1>1
    <3>2. ram[ram[b].next].used = 1
      BY <3>1, <1>0 DEF Holes
    <3>3. ram[b].next \in DOMAIN ram \ {h}
      BY <3>1, <2>2, <1>0, LinkedFacts
    <3> QED BY <3>1, <3>2, <3>3, <1>1
  <2> QED BY <2>1, <2>2, <1>0, <1>1, <1>4 DEF Near
<1>6. InUse(m) = InUse(ram) \ {h}
  BY <1>0, <1>1 DEF InUse
<1>7. Sound(new, InUse(m), m)
  <2>1. new = PlugHoles([ram |-> m, lfree |-> l], h)
    BY DEF m, ram, low
  <2> HIDE DEF l
  <2> QED BY <1>5, <2>1, PlugHolesGood
<1>8. InUse(m) \subseteq DOMAIN ram
  BY <1>1 DEF InUse
<1> QED BY <1>2, <1>6, <1>7, <1>8 DEF Sound, ram

-----------------------------------------------------------------------------
(* mem_realloc *)

(* h has shrunk to size, its owner's neighbours notice nothing.              *)
Shrunk(hp, h, size, ram) ==
  /\ Good(hp) /\ InUse(hp.ram) = InUse(ram)
  /\ Room(hp.ram, h) >= size
  /\ \A c \in InUse(ram) \ {h} : Room(hp.ram, c) = Room(ram, c)

(* Lemma: a new hole behind h, where none was.                               *)
LEMMA NewHoleGood ==
  ASSUME NEW ram, NEW low, Good([ram |-> ram, lfree |-> low]), NEW h \in InUse(ram),
         NEW size \in Nat, size >= MIN, size + HDR + MIN <= Room(ram, h),
         ram[ram[h].next].used = 1
  PROVE  Shrunk(NewHole([ram |-> ram, lfree |-> low], h, HoleAt(h, size)), h, size, ram)
<1> DEFINE p == HoleAt(h, size)
           r == Insert(ram, h, p)
           l == IF p < low THEN p ELSE low
<1>0. /\ Linked(ram) /\ Holes(ram) /\ Rooms(ram) /\ Lowest(ram, low)
      /\ h \in DOMAIN ram \ {End} /\ ram[h].used = 1
      /\ HDR \in Nat /\ MIN \in Nat /\ HDR > 0 /\ MIN > 0
  BY SizeAssumption DEF Good, InUse
<1>1. /\ ram[h].next \in DOMAIN ram /\ ram[h].next \in Nat /\ h \in Nat
      /\ p \in Nat /\ p = h + HDR + size /\ h < p /\ p < ram[h].next /\ ram[h].next - (p + HDR) >= MIN
  <2>1. ram[h].next \in DOMAIN ram /\ ram[h].next \in Nat /\ h \in Nat
    BY <1>0, NextFacts
  <2> QED BY <2>1, <1>0 DEF Room, HoleAt
<1> HIDE DEF p, r
<1>2. /\ Linked(r) /\ DOMAIN r = DOMAIN ram \cup {p} /\ p \notin DOMAIN ram
      /\ r[p].next = ram[h].next /\ r[p].used = 0 /\ r[h].next = p
      /\ \A b \in DOMAIN ram : r[b].used = ram[b].used
      /\ \A b \in DOMAIN ram \ {h} : r[b].next = ram[b].next
  <2>1. CanInsert(ram, h, p)
    BY <1>0, <1>1 DEF CanInsert
  <2>2. Inserted(ram, h, p, r)
    BY <2>1, InsertDoes DEF r
  <2> QED BY <2>2 DEF Inserted
<1>3. Holes(r)
  <2>1. ASSUME NEW b \in DOMAIN r, r[b].used = 0 PROVE r[r[b].next].used = 1
    <3>1. CASE b = p
      BY <3>1, <1>1, <1>2
    <3>2. CASE b # p
      <4>1. b \in DOMAIN ram \ {h} /\ ram[b].used = 0 /\ r[b].next = ram[b].next
        BY <3>2, <2>1, <1>0, <1>2
      <4>2. ram[ram[b].next].used = 1 /\ ram[b].next \in DOMAIN ram
        BY <4>1, <1>0, LinkedFacts DEF Holes
      <4> QED BY <4>1, <4>2, <1>2
    <3> QED BY <3>1, <3>2
  <2> QED BY <2>1 DEF Holes
<1>4. Room(r, h) = size /\ Room(r, p) >= MIN
  BY <1>0, <1>1, <1>2 DEF Room
<1>5. \A b \in DOMAIN ram \ {h} : Room(r, b) = Room(ram, b)
  BY <1>2 DEF Room
<1>6. Rooms(r)
  BY <1>0, <1>2, <1>4, <1>5 DEF Rooms
<1>7. Lowest(r, l)
  <2>1. low \in DOMAIN ram /\ DOMAIN ram \subseteq Nat /\ low # p
    BY <1>0, <1>2, LinkedFacts DEF Lowest
  <2>2. CASE p < low
    <3>1. l = p
      BY <2>2
    <3>2. ASSUME NEW b \in DOMAIN r, b < p PROVE r[b].used = 1
      <4>1. b \in DOMAIN ram /\ b < low
        BY <3>2, <2>1, <2>2, <1>1, <1>2
      <4> QED BY <4>1, <1>0, <1>2 DEF Lowest
    <3> QED BY <3>1, <3>2, <1>2 DEF Lowest
  <2>3. CASE ~(p < low)
    <3>1. l = low /\ low < p
      BY <2>1, <2>3, <1>1
    <3>2. low = End \/ r[low].used = 0
      BY <2>1, <1>0, <1>2 DEF Lowest
    <3>3. ASSUME NEW b \in DOMAIN r, b < low PROVE r[b].used = 1
      <4>1. b \in DOMAIN ram
        BY <3>1, <3>3, <2>1, <1>1, <1>2
      <4> QED BY <4>1, <3>3, <1>0, <1>2 DEF Lowest
    <3> QED BY <3>1, <3>2, <3>3, <2>1, <1>2 DEF Lowest
  <2> QED BY <2>2, <2>3
<1>8. InUse(r) = InUse(ram)
  BY <1>1, <1>2 DEF InUse
<1>9. NewHole([ram |-> ram, lfree |-> low], h, HoleAt(h, size)) = [ram |-> r, lfree |-> l]
  BY DEF NewHole, r, p
<1>10. size >= size
  OBVIOUS
<1> HIDE DEF l
<1> QED BY <1>2, <1>3, <1>4, <1>5, <1>6, <1>7, <1>8, <1>9, <1>10 DEF Shrunk, Good, InUse

(* Lemma: the hole behind h moved down.                                      *)
LEMMA MoveHoleGood ==
  ASSUME NEW ram, NEW low, Good([ram |-> ram, lfree |-> low]), NEW h \in InUse(ram),
         NEW size \in Nat, size >= MIN, size < Room(ram, h),
         ram[ram[h].next].used = 0
  PROVE  Shrunk(MoveHole([ram |-> ram, lfree |-> low], h, HoleAt(h, size)), h, size, ram)
<1> DEFINE p == HoleAt(h, size)
           n == ram[h].next
           q == Remove(ram, h)
           r == Insert(q, h, p)
           l == IF low = n THEN p ELSE low
<1>0. /\ Linked(ram) /\ Holes(ram) /\ Rooms(ram) /\ Lowest(ram, low)
      /\ h \in DOMAIN ram \ {End} /\ ram[h].used = 1
      /\ HDR \in Nat /\ MIN \in Nat /\ HDR > 0 /\ MIN > 0
  BY SizeAssumption DEF Good, InUse
<1>1. /\ n \in DOMAIN ram /\ n \in Nat /\ h \in Nat /\ n # End /\ n > h
      /\ p \in Nat /\ p = h + HDR + size /\ h < p /\ p < n
  <2>1. n \in DOMAIN ram /\ n \in Nat /\ h \in Nat /\ n # End /\ n > h
    BY <1>0, NextFacts
  <2> QED BY <2>1, <1>0 DEF Room, HoleAt
<1>2. ram[n].next \in DOMAIN ram /\ ram[n].next \in Nat /\ ram[n].next > n /\ ram[ram[n].next].used = 1
  <2>1. n \in DOMAIN ram \ {End} /\ ram[n].used = 0
    BY <1>1
  <2> HIDE DEF n
  <2>2. ram[n].next \in DOMAIN ram /\ ram[n].next \in Nat /\ ram[n].next > n
    BY <1>0, <2>1, NextFacts
  <2> QED BY <1>0, <2>1, <2>2 DEF Holes
<1> HIDE DEF p, q, r
<1>3. /\ Linked(q) /\ DOMAIN q = DOMAIN ram \ {n}
      /\ q[h].next = ram[n].next
      /\ \A b \in DOMAIN ram \ {n} : q[b].used = ram[b].used
      /\ \A b \in DOMAIN ram \ {h, n} : q[b].next = ram[b].next
  <2>1. CanRemove(ram, h, n)
    BY <1>0, <1>1 DEF CanRemove
  <2> HIDE DEF n
  <2>2. Removed(ram, h, n, q)
    BY <2>1, RemoveDoes DEF q
  <2> QED BY <2>2 DEF Removed
<1>4. /\ Linked(r) /\ DOMAIN r = DOMAIN q \cup {p} /\ p \notin DOMAIN q
      /\ r[p].next = ram[n].next /\ r[p].used = 0 /\ r[h].next = p
      /\ \A b \in DOMAIN q : r[b].used = q[b].used
      /\ \A b \in DOMAIN q \ {h} : r[b].next = q[b].next
  <2>1. CanInsert(q, h, p)
    BY <1>0, <1>1, <1>2, <1>3 DEF CanInsert
  <2> HIDE DEF n
  <2>2. Inserted(q, h, p, r)
    BY <2>1, InsertDoes DEF r
  <2> QED BY <2>2, <1>3 DEF Inserted
<1> HIDE DEF n
<1>5. Holes(r)
  <2>1. ASSUME NEW b \in DOMAIN r, r[b].used = 0 PROVE r[r[b].next].used = 1
    <3>1. CASE b = p
      BY <3>1, <1>2, <1>3, <1>4
    <3>2. CASE b # p
      <4>1. b \in DOMAIN ram \ {h, n} /\ ram[b].used = 0 /\ r[b].next = ram[b].next
        BY <3>2, <2>1, <1>0, <1>3, <1>4
      <4>2. ram[ram[b].next].used = 1 /\ ram[b].next \in DOMAIN ram /\ ram[n].used = 0
        BY <4>1, <1>0, LinkedFacts DEF Holes, n
      <4>3. ram[b].next # n
        BY <4>2
      <4> QED BY <4>1, <4>2, <4>3, <1>3, <1>4
    <3> QED BY <3>1, <3>2
  <2> QED BY <2>1 DEF Holes
<1>6. Room(r, h) = size /\ Room(r, p) >= MIN
  <2>1. Room(ram, n) >= MIN
    BY <1>0, <1>1 DEF Rooms
  <2> QED BY <2>1, <1>0, <1>1, <1>2, <1>4 DEF Room
<1>7. \A b \in DOMAIN ram \ {h, n} : Room(r, b) = Room(ram, b)
  BY <1>3, <1>4 DEF Room
<1>8. Rooms(r)
  <2>1. ASSUME NEW b \in DOMAIN r \ {End} PROVE Room(r, b) >= MIN
    BY <1>0, <1>3, <1>4, <1>6, <1>7 DEF Rooms
  <2> QED BY <2>1 DEF Rooms
<1>9. Lowest(r, l)
  <2>1. low \in DOMAIN ram /\ DOMAIN ram \subseteq Nat /\ ram[n].used = 0
    BY <1>0, LinkedFacts DEF Lowest, n
  <2>2. \A b \in DOMAIN ram : b <= h \/ b >= n
    BY <1>0, NextFacts DEF n
  <2>3. CASE low = n
    <3>1. l = p
      BY <2>3
    <3>2. ASSUME NEW b \in DOMAIN r, b < p PROVE r[b].used = 1
      <4>1. b \in DOMAIN ram \ {n} /\ b < low
        BY <3>2, <2>1, <2>3, <1>1, <1>3, <1>4
      <4> QED BY <4>1, <1>0, <1>3, <1>4 DEF Lowest
    <3> QED BY <3>1, <3>2, <1>4 DEF Lowest
  <2>4. CASE low # n
    <3>1. l = low /\ low <= h
      <4>1. ~(n < low)
        BY <2>1, <1>0, <1>1 DEF Lowest
      <4> QED BY <4>1, <2>1, <2>2, <2>4, <1>1
    <3>2. low \in DOMAIN r /\ (low = End \/ r[low].used = 0)
      BY <2>1, <2>4, <1>0, <1>3, <1>4 DEF Lowest
    <3>3. ASSUME NEW b \in DOMAIN r, b < low PROVE r[b].used = 1
      <4>1. b \in DOMAIN ram \ {n}
        BY <3>1, <3>3, <2>1, <1>1, <1>3, <1>4
      <4> QED BY <4>1, <3>3, <1>0, <1>3, <1>4 DEF Lowest
    <3> QED BY <3>1, <3>2, <3>3 DEF Lowest
  <2> QED BY <2>3, <2>4
<1>10. InUse(r) = InUse(ram)
  <2>1. ram[n].used = 0
    BY DEF n
  <2>2. p # n => p \notin DOMAIN ram
    BY <1>3, <1>4
  <2> QED BY <2>1, <2>2, <1>1, <1>3, <1>4 DEF InUse
<1>11. MoveHole([ram |-> ram, lfree |-> low], h, HoleAt(h, size)) = [ram |-> r, lfree |-> l]
  BY DEF MoveHole, r, q, p, n
<1>12. \A c \in InUse(ram) \ {h} : Room(r, c) = Room(ram, c)
  <2>1. InUse(ram) \ {h} \subseteq DOMAIN ram \ {h, n}
    BY DEF InUse, n
  <2> QED BY <2>1, <1>7
<1>13. size >= size
  OBVIOUS
<1> HIDE DEF l
<1> QED BY <1>4, <1>5, <1>6, <1>8, <1>9, <1>10, <1>11, <1>12, <1>13 DEF Shrunk, Good

(* Lemma: mem_realloc, whichever way it goes.                                *)
LEMMA ShrinkGood ==
  ASSUME NEW ram, NEW low, Good([ram |-> ram, lfree |-> low]), NEW h \in InUse(ram),
         NEW size \in Nat, size >= MIN, size <= Room(ram, h)
  PROVE  Shrunk(Shrink([ram |-> ram, lfree |-> low], h, size), h, size, ram)
<1> DEFINE hp == [ram |-> ram, lfree |-> low]
<1>0. Room(ram, h) \in Int /\ HDR \in Nat /\ MIN \in Nat /\ MIN > 0 /\ HDR > 0
      /\ ram[ram[h].next].used \in {0, 1}
  <2>1. Linked(ram) /\ h \in DOMAIN ram \ {End}
    BY DEF Good, InUse
  <2>2. ram[h].next \in DOMAIN ram /\ ram[h].next \in Nat /\ h \in Nat
    BY <2>1, NextFacts
  <2>3. ram[ram[h].next].used \in {0, 1}
    BY <2>1, <2>2, LinkedFacts
  <2> QED BY <2>2, <2>3, SizeAssumption DEF Room
<1>1. Shrunk(hp, h, size, ram)
  BY <1>0 DEF Shrunk
<1>2. CASE size < Room(ram, h) /\ ram[ram[h].next].used = 0
  <2>1. Shrink(hp, h, size) = MoveHole(hp, h, HoleAt(h, size))
    BY <1>0, <1>2 DEF Shrink
  <2> QED BY <1>2, <2>1, MoveHoleGood
<1>3. CASE size + HDR + MIN <= Room(ram, h) /\ ram[ram[h].next].used = 1
  <2>1. Shrink(hp, h, size) = NewHole(hp, h, HoleAt(h, size))
    BY <1>0, <1>3 DEF Shrink
  <2> QED BY <1>3, <2>1, NewHoleGood
<1>4. CASE /\ ~(size < Room(ram, h) /\ ram[ram[h].next].used = 0)
           /\ ~(size + HDR + MIN <= Room(ram, h) /\ ram[ram[h].next].used = 1)
  <2>1. Shrink(hp, h, size) = hp
    BY <1>0, <1>4 DEF Shrink
  <2> QED BY <1>1, <2>1
<1> QED BY <1>2, <1>3, <1>4

-----------------------------------------------------------------------------
(* The invariant: a good heap whose blocks in use are those handed out, each *)
(* large enough, and a last request that failed because nothing would do.    *)
IInv ==
  /\ heap = [ram |-> heap.ram, lfree |-> heap.lfree]
  /\ Good(heap)
  /\ DOMAIN given = InUse(heap.ram)
  /\ \A h \in DOMAIN given : given[h] \in Sizes /\ BlockSize(given[h]) <= Room(heap.ram, h)
  /\ FailsOnlyIfFull

(* Lemma: the invariant says what the properties say.                        *)
LEMMA IInvImplies ==
  ASSUME IInv
  PROVE  /\ TypeOK /\ OwnersKeepTheirBlocks /\ NoAdjacentHoles
         /\ RemaindersUsable /\ LfreeIsLowest /\ FailsOnlyIfFull
BY DEF IInv, Good, Holes, Rooms, Lowest, InUse, TypeOK, OwnersKeepTheirBlocks,
       NoAdjacentHoles, RemaindersUsable, LfreeIsLowest

(* Lemma: mem_init makes one free block of the whole heap.                   *)
LEMMA InitGood == Init => IInv
<1> SUFFICES ASSUME Init PROVE IInv
  OBVIOUS
<1>0. End \in Nat /\ End > 0 /\ End = MEM_SIZE /\ HDR \in Nat /\ MIN \in Nat /\ HDR + MIN <= MEM_SIZE
  BY SizeAssumption DEF End
<1> DEFINE ram == [h \in {0, End} |-> [next |-> End, prev |-> h, used |-> IF h = End THEN 1 ELSE 0]]
<1>1. heap = [ram |-> ram, lfree |-> 0] /\ DOMAIN given = {} /\ last = NoRequest
  BY DEF Init
<1>2. /\ DOMAIN ram = {0, End}
      /\ ram[0] = [next |-> End, prev |-> 0, used |-> 0]
      /\ ram[End] = [next |-> End, prev |-> End, used |-> 1]
      /\ ram = [b \in DOMAIN ram |-> ram[b]]
  BY <1>0
<1> HIDE DEF ram
<1>3. Linked(ram)
  <2>1. ram \in [DOMAIN ram -> [next : DOMAIN ram, prev : DOMAIN ram, used : {0, 1}]]
    <3>1. \A b \in DOMAIN ram : ram[b] \in [next : DOMAIN ram, prev : DOMAIN ram, used : {0, 1}]
      BY <1>2
    <3> QED BY <3>1, <1>2
  <2> QED BY <2>1, <1>0, <1>2 DEF Linked
<1>4. Holes(ram) /\ Lowest(ram, 0) /\ InUse(ram) = {}
  BY <1>0, <1>2 DEF Holes, Lowest, InUse
<1>5. Rooms(ram)
  BY <1>0, <1>2 DEF Rooms, Room
<1>6. FailsOnlyIfFull
  BY <1>1 DEF FailsOnlyIfFull, NoRequest, Null
<1> QED BY <1>1, <1>3, <1>4, <1>5, <1>6 DEF IInv, Good

(* Lemma: mem_malloc keeps the invariant when it finds nothing ...           *)
LEMMA FailsKeeps ==
  ASSUME IInv, NEW asked \in Sizes, Fails(asked)
  PROVE  IInv'
<1> DEFINE ram == heap.ram
           size == BlockSize(asked)
<1>1. heap' = heap /\ given' = given /\ last' = [size |-> asked, got |-> Null]
  BY DEF Fails
<1>2. /\ Linked(ram) /\ Lowest(ram, heap.lfree) /\ size \in Nat /\ size > 0
      /\ HDR \in Nat /\ HDR > 0 /\ End = MEM_SIZE /\ End \in Nat
  BY BlockSizeMin, SizeAssumption DEF IInv, Good, End
<1>3. ASSUME NEW h \in DOMAIN ram, ram[h].used = 0
      PROVE  Room(ram, h) < size
  <2>0. h # End
    <3>1. ram[End].used = 1
      BY ONLY <1>2, LinkedFacts, Zenon
    <3> QED BY <1>3, <3>1
  <2>1. /\ h \in Nat /\ ram[h].next \in Nat /\ ram[h].next <= End
        /\ Room(ram, h) = ram[h].next - (h + HDR) /\ Room(ram, h) \in Int
    <3>1. h \in Nat /\ ram[h].next \in Nat /\ ram[h].next <= End
      BY <1>2, <2>0, NextFacts
    <3> QED BY <3>1, <1>2 DEF Room
  <2>2. CASE size > MEM_SIZE
    BY <1>2, <2>1, <2>2
  <2>3. CASE Fitting(heap, size) = {}
    <3>1. h >= heap.lfree
      <4>1. heap.lfree \in DOMAIN ram /\ ~(h < heap.lfree)
        BY <1>2, <1>3 DEF Lowest
      <4>2. heap.lfree \in Nat
        BY <4>1, <1>2, LinkedFacts
      <4> QED BY <4>1, <4>2, <2>1
    <3>2. ~(h < MEM_SIZE - size /\ Room(ram, h) >= size)
      BY <1>3, <2>3, <3>1 DEF Fitting
    <3> QED BY <3>2, <1>2, <2>1
  <2> QED BY <2>2, <2>3 DEF Fails
<1>4. FailsOnlyIfFull'
  BY <1>1, <1>3 DEF FailsOnlyIfFull
<1> QED BY <1>1, <1>4 DEF IInv

(* ... and when it hands out block h.                                        *)
LEMMA GetsKeeps ==
  ASSUME IInv, NEW asked \in Sizes, NEW h \in DOMAIN heap.ram, Gets(asked, h)
  PROVE  IInv'
<1> DEFINE hp == heap
           size == BlockSize(asked)
           new == Use(heap.ram, h, size)
<1>1. PICK f \in DOMAIN new :
        /\ IF h = heap.lfree THEN NextFree(f, new, h) ELSE f = heap.lfree
        /\ heap' = [ram |-> new, lfree |-> f]
  BY DEF Gets
<1>2. /\ h \in Fitting(heap, size) /\ size \in Nat /\ size >= MIN /\ size > 0
      /\ last' = [size |-> asked, got |-> h]
      /\ DOMAIN given' = DOMAIN given \cup {h} /\ given'[h] = asked
      /\ \A b \in DOMAIN given \ {h} : given'[b] = given[b]
  BY BlockSizeMin, SizeAssumption DEF Gets, IsLowest
<1>3. /\ h \in DOMAIN heap.ram \ {End} /\ heap.ram[h].used = 0 /\ h >= heap.lfree
      /\ Room(heap.ram, h) >= size /\ h \in Nat
  <2>1. h < MEM_SIZE - size /\ MEM_SIZE \in Nat /\ End = MEM_SIZE
    BY <1>2, SizeAssumption DEF Fitting, End
  <2>2. Linked(heap.ram)
    BY DEF IInv, Good
  <2>3. h \in Nat
    BY <2>2, LinkedFacts
  <2> QED BY <1>2, <2>1, <2>3 DEF Fitting
<1> HIDE DEF size, new
<1>4. /\ Good([ram |-> new, lfree |-> f])
      /\ InUse(new) = InUse(heap.ram) \cup {h}
      /\ Room(new, h) >= size
      /\ \A b \in InUse(heap.ram) : Room(new, b) = Room(heap.ram, b)
  BY <1>1, <1>2, <1>3, UseGood DEF new, IInv
<1>5. h \notin InUse(heap.ram)
  BY <1>3 DEF InUse
<1>6. ASSUME NEW b \in DOMAIN given'
      PROVE  given'[b] \in Sizes /\ BlockSize(given'[b]) <= Room(new, b)
  <2>1. CASE b = h
    <3>1. size <= Room(new, h)
      BY <1>4, <1>2
    <3> QED BY <2>1, <3>1, <1>2 DEF size
  <2>2. CASE b # h
    BY <2>2, <1>2, <1>4, <1>6 DEF IInv
  <2> QED BY <2>1, <2>2
<1>7. FailsOnlyIfFull'
  BY <1>2, <1>3 DEF FailsOnlyIfFull, Null
<1> QED BY <1>1, <1>2, <1>4, <1>6, <1>7 DEF IInv

(* Lemma: mem_free keeps the invariant.                                      *)
LEMMA FreeKeeps ==
  ASSUME IInv, NEW h \in DOMAIN given, MemFree(h)
  PROVE  IInv'
<1> DEFINE new == PlugHoles([ram |-> Mark(heap.ram, h, 0), lfree |-> FreedLfree(heap.lfree, h)], h)
<1>1. /\ heap' = new /\ last' = NoRequest
      /\ DOMAIN given' = DOMAIN given \ {h} /\ \A b \in DOMAIN given' : given'[b] = given[b]
  BY DEF MemFree, Mark
<1>2. new = [ram |-> new.ram, lfree |-> new.lfree]
  BY DEF PlugHoles, Absorb
<1> HIDE DEF new
<1>3. Sound(new, InUse(heap.ram) \ {h}, heap.ram)
  BY FreeGood DEF new, IInv
<1>4. FailsOnlyIfFull'
  BY <1>1 DEF FailsOnlyIfFull, NoRequest, Null
<1>5. ASSUME NEW b \in DOMAIN given'
      PROVE  given'[b] \in Sizes /\ BlockSize(given'[b]) <= Room(new.ram, b)
  BY <1>1, <1>3, <1>5 DEF IInv, Sound
<1> QED BY <1>1, <1>2, <1>3, <1>4, <1>5 DEF IInv, Sound

(* Lemma: mem_realloc keeps the invariant.                                   *)
LEMMA ReallocKeeps ==
  ASSUME IInv, NEW h \in DOMAIN given, NEW asked \in Sizes, MemRealloc(h, asked)
  PROVE  IInv'
<1> DEFINE size == BlockSize(asked)
           new == Shrink(heap, h, size)
<1>1. /\ heap' = new /\ last' = NoRequest
      /\ size \in Nat /\ size >= MIN /\ size <= Room(heap.ram, h)
      /\ DOMAIN given' = DOMAIN given /\ given'[h] = asked
      /\ \A b \in DOMAIN given \ {h} : given'[b] = given[b]
  BY BlockSizeMin DEF MemRealloc
<1>2. new = [ram |-> new.ram, lfree |-> new.lfree]
  BY DEF Shrink, MoveHole, NewHole, IInv
<1> HIDE DEF new, size
<1>3. Shrunk(new, h, size, heap.ram)
  <2> DEFINE ram == heap.ram
             low == heap.lfree
  <2>1. Good([ram |-> ram, lfree |-> low]) /\ h \in InUse(ram) /\ size <= Room(ram, h)
    BY <1>1 DEF IInv
  <2>2. new = Shrink([ram |-> ram, lfree |-> low], h, size)
    BY DEF IInv, new
  <2> HIDE DEF ram, low
  <2>3. Shrunk(new, h, size, ram)
    BY <1>1, <2>1, <2>2, ShrinkGood
  <2> QED BY <2>3 DEF ram
<1>4. FailsOnlyIfFull'
  BY <1>1 DEF FailsOnlyIfFull, NoRequest, Null
<1>5. ASSUME NEW b \in DOMAIN given'
      PROVE  given'[b] \in Sizes /\ BlockSize(given'[b]) <= Room(new.ram, b)
  <2>1. CASE b = h
    <3>1. Room(new.ram, h) >= size
      BY <1>3 DEF Shrunk
    <3>2. size <= Room(new.ram, h)
      BY <3>1
    <3> QED BY <2>1, <3>2, <1>1 DEF size
  <2>2. CASE b # h
    BY <2>2, <1>1, <1>3, <1>5 DEF IInv, Shrunk
  <2> QED BY <2>1, <2>2
<1> QED BY <1>1, <1>2, <1>3, <1>4, <1>5 DEF IInv, Shrunk

(* Theorem: the invariant holds of every sequence of calls.                  *)
THEOREM InvariantHolds == Spec => []IInv
<1>1. Init => IInv
  BY InitGood
<1>2. ASSUME IInv, [Next]_vars
      PROVE  IInv'
  <2>1. ASSUME NEW size \in Sizes, MemMalloc(size) PROVE IInv'
    BY <1>2, <2>1, FailsKeeps, GetsKeeps DEF MemMalloc
  <2>2. ASSUME NEW h \in DOMAIN given, MemFree(h) PROVE IInv'
    BY <1>2, <2>2, FreeKeeps
  <2>3. ASSUME NEW h \in DOMAIN given, NEW size \in Sizes, MemRealloc(h, size) PROVE IInv'
    BY <1>2, <2>3, ReallocKeeps
  <2>4. CASE UNCHANGED vars
    BY <1>2, <2>4 DEF vars, IInv, FailsOnlyIfFull
  <2> QED BY <1>2, <2>1, <2>2, <2>3, <2>4 DEF Next
<1> QED BY <1>1, <1>2, PTL DEF Spec

(* Theorem: the list of blocks always tiles the heap, prev being the inverse *)
(* of next (mem.c:154-161, 223-256).                                         *)
THEOREM TypeCorrect == Spec => []TypeOK
<1>1. IInv => TypeOK
  BY IInvImplies
<1> QED BY <1>1, InvariantHolds, PTL

(* Theorem: no call loses, hands out twice or cuts short a block that is in  *)
(* use, whatever it does with its neighbours.                                *)
THEOREM BlocksKept == Spec => []OwnersKeepTheirBlocks
<1>1. IInv => OwnersKeepTheirBlocks
  BY IInvImplies
<1> QED BY <1>1, InvariantHolds, PTL

(* Theorem: no two free blocks are ever adjacent (mem.c:214, 565-570).   *)
THEOREM HolesPlugged == Spec => []NoAdjacentHoles
<1>1. IInv => NoAdjacentHoles
  BY IInvImplies
<1> QED BY <1>1, InvariantHolds, PTL

(* Theorem: every block can hold at least MIN_SIZE (mem.c:163).              *)
THEOREM BlocksUsable == Spec => []RemaindersUsable
<1>1. IInv => RemaindersUsable
  BY IInvImplies
<1> QED BY <1>1, InvariantHolds, PTL

(* Theorem: lfree is the lowest free block (mem.c:180).                      *)
THEOREM LowestFree == Spec => []LfreeIsLowest
<1>1. IInv => LfreeIsLowest
  BY IInvImplies
<1> QED BY <1>1, InvariantHolds, PTL

(* Theorem: mem_malloc returns NULL only if no free block would do.          *)
THEOREM FirstFitFinds == Spec => []FailsOnlyIfFull
<1>1. IInv => FailsOnlyIfFull
  BY IInvImplies
<1> QED BY <1>1, InvariantHolds, PTL
=============================================================================

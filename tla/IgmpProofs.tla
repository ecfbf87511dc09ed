----------------------------- MODULE IgmpProofs -----------------------------
(* Proofs about Igmp, for any response times and any number of messages.     *)
EXTENDS Igmp, SequenceTheorems, TLAPS

-----------------------------------------------------------------------------
(* The group in the main loop *)

member == group[Multicast]

Joined == <<Multicast, Zero>>
Answering == {"check", "start", "state"}
Reported == {"stop", "idle", "flag"}

(* The list grows twice, and the group of the queries to all is never in it. *)
ListInv ==
  /\ pc = "add" => list = <<>>
  /\ pc \in {"add", "up"} => allsystems = Zero
  /\ pc \in {"up", "init", "join"} => list = <<Zero>>
  /\ pc \in {"join timer", "join state", "loop"} \cup Reported => list = Joined
  /\ pc \in Answering => /\ list \in {<<Zero>>, Joined}
                         /\ todo \in {<<>>, <<Zero>>} \/ (list = Joined /\ todo \in {<<Multicast>>, Joined})
  /\ pc \in {"start", "state"} => todo # <<>>

(* Where the answer to a report has come, and what last_reporter_flag says.  *)
ReportInv ==
  /\ list # Joined => member.last = 0 /\ member.state = "NON_MEMBER"
  /\ pc \in {"join timer", "join state"} => member.state = "NON_MEMBER" /\ lastReport = "own"
  /\ pc \in {"loop"} \cup Answering /\ list = Joined => member.state # "NON_MEMBER"
  /\ pc \in {"loop"} \cup Answering /\ member.last = 1 =>
       lastReport = "own" /\ member.state = "DELAYING_MEMBER"
  /\ pc \in {"stop", "idle"} => member.state = "DELAYING_MEMBER"
  /\ pc \in {"idle", "flag"} => member.timer = 0
  /\ pc = "flag" => member.state = "IDLE_MEMBER"

Scheduled == member.timer > 0 /\ member.state = "DELAYING_MEMBER"

(* An unanswered query is still to be handled, or being handled, or the      *)
(* timer that answers it runs.                                               *)
AnswerInv ==
  /\ pc \in BootPCs \cup Reported => ~asked
  /\ list # Joined => ~asked
  /\ pc \in Answering /\ todo # <<>> => maxresp >= 4
  /\ pc = "loop" /\ asked => Scheduled
  /\ pc = "check" /\ asked => Scheduled \/ (todo # <<>> /\ Head(todo) = Multicast)
  /\ pc \in {"start", "state"} /\ asked /\ Head(todo) # Multicast => Scheduled
  /\ pc = "state" /\ Head(todo) = Multicast =>
       member.timer >= 2 \/ (ticked /\ member.timer = 1)

-----------------------------------------------------------------------------
(* Lists *)

Lists == {<<>>, <<Zero>>, Joined}

LEMMA ListedIf ==
  ASSUME list \in Lists, NEW g
  PROVE  Listed(g) <=> (list # <<>> /\ g = Zero) \/ (list = Joined /\ g = Multicast)
<1>1. CASE list = <<>>
  <2>1. Len(list) = 0 /\ list # Joined
    BY <1>1 DEF Joined
  <2> QED BY <1>1, <2>1 DEF Listed, Contains
<1>2. CASE list = <<Zero>>
  BY <1>2 DEF Listed, Contains, Joined
<1>3. CASE list = Joined
  <2>1. Len(list) = 2 /\ list[1] = Multicast /\ list[2] = Zero
    BY <1>3 DEF Joined
  <2> QED BY <1>3, <2>1 DEF Listed, Contains, Joined
<1> QED BY <1>1, <1>2, <1>3 DEF Lists

LEMMA ListIsOne ==
  ASSUME TypeOK, ListInv
  PROVE  list \in Lists
  BY DEF ListInv, TypeOK, Lists, BootPCs, Answering, Reported

LEMMA Distinct ==
  /\ Joined # <<Zero>> /\ Joined # <<>> /\ <<Zero>> # <<>> /\ <<Multicast>> # <<>>
  /\ Multicast # Zero /\ AllHosts # Zero /\ AllHosts # Multicast
  /\ Head(<<Zero>>) = Zero /\ Head(<<Multicast>>) = Multicast /\ Head(Joined) = Multicast
  /\ Tail(<<Zero>>) = <<>> /\ Tail(<<Multicast>>) = <<>> /\ Tail(Joined) = <<Zero>>
  /\ <<Multicast>> # <<Zero>> /\ <<Multicast>> # Joined
  BY DEF Joined, Multicast, Zero, AllHosts

(* Only a query for the group itself finds it.                               *)
LEMMA WhomAQueryConcerns ==
  ASSUME list = Joined, NEW kind
  PROVE  Concerned(kind) \in {<<>>, <<Multicast>>}
<1>1. ~Listed(AllHosts) /\ Listed(Multicast)
  BY ListedIf, Distinct DEF Lists
<1> QED BY <1>1 DEF Concerned, Dest

-----------------------------------------------------------------------------
(* Types *)

States == {"NON_MEMBER", "DELAYING_MEMBER", "IDLE_MEMBER"}
Members == [timer : Nat, last : {0, 1}, state : States]
Bounded(t) == t <= JoinDelay \/ \E m \in MaxResps : t <= m \div 2
GroupType ==
  /\ group \in [Groups -> Members]
  /\ \A g \in Groups : Bounded(group[g].timer)

LEMMA GroupTyped == TypeOK => GroupType
  BY DEF TypeOK, GroupType, Members, States, Bounded

(* A store to one field of one group.                                        *)
LEMMA SetsState ==
  ASSUME GroupType, NEW g \in Groups, NEW st \in States,
         group' = [group EXCEPT ![g].state = st]
  PROVE  /\ GroupType'
         /\ group'[g].state = st /\ group'[g].timer = group[g].timer /\ group'[g].last = group[g].last
         /\ \A h \in Groups : h # g => group'[h] = group[h]
  BY DEF GroupType, Members

LEMMA SetsTimer ==
  ASSUME GroupType, NEW g \in Groups, NEW t \in Nat, Bounded(t),
         group' = [group EXCEPT ![g].timer = t]
  PROVE  /\ GroupType'
         /\ group'[g].timer = t /\ group'[g].state = group[g].state /\ group'[g].last = group[g].last
         /\ \A h \in Groups : h # g => group'[h] = group[h]
  BY DEF GroupType, Members

LEMMA SetsLast ==
  ASSUME GroupType, NEW g \in Groups, NEW l \in {0, 1},
         group' = [group EXCEPT ![g].last = l]
  PROVE  /\ GroupType'
         /\ group'[g].last = l /\ group'[g].state = group[g].state /\ group'[g].timer = group[g].timer
         /\ \A h \in Groups : h # g => group'[h] = group[h]
  BY DEF GroupType, Members

LEMMA Halves ==
  ASSUME NEW m \in 0..255
  PROVE  m \in Nat /\ m \div 2 \in Nat
  OBVIOUS

LEMMA JoinDelayBounded ==
  JoinDelay \in Nat /\ Bounded(JoinDelay) /\ 0 \in Nat /\ Bounded(0)
  BY DEF Bounded, JoinDelay

(* A timer started with half of maxresp is within bounds.                    *)
LEMMA HalfIsBounded ==
  ASSUME TypeOK
  PROVE  maxresp \in Nat /\ maxresp \div 2 \in Nat /\ Bounded(maxresp \div 2)
<1>2. CASE maxresp \in MaxResps
  <2>1. maxresp \in 0..255
    BY <1>2, MessagesAssumption
  <2>2. maxresp \in Nat /\ maxresp \div 2 \in Nat
    BY <2>1, Halves
  <2> QED BY <1>2, <2>2 DEF Bounded
<1>3. CASE maxresp \in {0, JoinDelay, V1Delay}
  BY <1>3 DEF Bounded, JoinDelay, V1Delay
<1> QED BY <1>2, <1>3 DEF TypeOK

(* The handler of the timer, seen from one group.                            *)
LEMMA TickOf ==
  ASSUME GroupType, IgmpTmr, NEW g \in Groups
  PROVE  /\ group'[g].timer = (IF Listed(g) /\ group[g].timer > 0 THEN group[g].timer - 1 ELSE group[g].timer)
         /\ group'[g].last = (IF Reports(g) THEN 1 ELSE group[g].last)
         /\ group'[g].state = group[g].state
  BY DEF IgmpTmr, GroupType, Members

LEMMA TickTyped ==
  ASSUME GroupType, IgmpTmr
  PROVE  GroupType'
<1>1. ASSUME NEW g \in Groups PROVE group'[g] \in Members /\ Bounded(group'[g].timer)
  <2> DEFINE t == IF Listed(g) /\ group[g].timer > 0 THEN group[g].timer - 1 ELSE group[g].timer
             l == IF Reports(g) THEN 1 ELSE group[g].last
  <2>1. group[g] \in Members /\ Bounded(group[g].timer)
    BY DEF GroupType
  <2>2. t \in Nat /\ t <= group[g].timer /\ l \in {0, 1}
    BY <2>1 DEF Members
  <2>3. group'[g] = [group[g] EXCEPT !.timer = t, !.last = l]
    BY DEF IgmpTmr
  <2> HIDE DEF t, l
  <2>4. group'[g] \in Members /\ group'[g].timer = t
    BY <2>1, <2>2, <2>3 DEF Members
  <2>5. Bounded(t)
    <3>1. \A m \in MaxResps : m \div 2 \in Nat
      BY MessagesAssumption, Halves
    <3> QED BY <2>1, <2>2, <3>1 DEF Bounded, Members, JoinDelay
  <2> QED BY <2>4, <2>5
<1>2. group' = [g \in Groups |-> group'[g]]
  BY DEF IgmpTmr
<1> QED BY <1>1, <1>2 DEF GroupType
-----------------------------------------------------------------------------
(* The invariant is kept *)

Fields ==
  /\ pc \in BootPCs \cup {"loop"} \cup Answering \cup Reported
  /\ todo \in Seq(Groups) /\ list \in Seq(Groups)
  /\ maxresp \in MaxResps \cup {0, JoinDelay, V1Delay}
  /\ allsystems \in {Zero, AllHosts}
  /\ asked \in BOOLEAN /\ ticked \in BOOLEAN
  /\ lastReport \in {"none", "own", "other"}
  /\ messages \in 0..MaxMessages

LEMMA TypeParts == TypeOK <=> Fields /\ GroupType
<1>1. Members = [timer : Nat, last : {0, 1},
                 state : {"NON_MEMBER", "DELAYING_MEMBER", "IDLE_MEMBER"}]
  BY DEF Members, States
<1>2. BootPCs \cup {"loop"} \cup Answering \cup Reported
        = BootPCs \cup {"loop", "check", "start", "state", "stop", "idle", "flag"}
  BY DEF BootPCs, Answering, Reported
<1>3. GroupType <=> /\ group \in [Groups -> Members]
                    /\ \A g \in Groups : \/ group[g].timer <= JoinDelay
                                         \/ \E m \in MaxResps : group[g].timer <= m \div 2
  BY DEF GroupType, Bounded
<1> QED BY Zenon, <1>1, <1>2, <1>3 DEF TypeOK, Fields

LEMMA OneMore ==
  ASSUME messages \in 0..MaxMessages, messages < MaxMessages
  PROVE  messages + 1 \in 0..MaxMessages
<1>1. MaxMessages \in Nat
  BY MessagesAssumption
<1> QED BY <1>1

LEMMA Sequences ==
  /\ <<>> \in Seq(Groups) /\ <<Zero>> \in Seq(Groups) /\ <<Multicast>> \in Seq(Groups)
  /\ Joined \in Seq(Groups) /\ <<Multicast>> \o <<Zero>> = Joined
<1>1. Zero \in Groups /\ Multicast \in Groups
  BY DEF Groups
<1>2. /\ <<>> \in Seq(Groups) /\ <<Zero>> \in Seq(Groups) /\ <<Multicast>> \in Seq(Groups)
      /\ <<Multicast, Zero>> \in Seq(Groups)
  BY <1>1
<1>3. <<Multicast>> \o <<Zero>> = <<Multicast, Zero>>
  <2> DEFINE s == <<Multicast>> \o <<Zero>>
             t == <<Multicast, Zero>>
  <2>1. s \in Seq(Groups) /\ t \in Seq(Groups)
    BY <1>2
  <2>2. Len(s) = 2 /\ Len(t) = 2
    BY <1>2
  <2>3. s[1] = t[1] /\ s[2] = t[2]
    BY <1>2
  <2> HIDE DEF s, t
  <2>4. Len(s) = Len(t) /\ \A i \in 1..Len(s) : s[i] = t[i]
    BY <2>2, <2>3
  <2>5. s = t
    BY <2>1, <2>4, SeqEqual, Zenon
  <2> QED BY <2>5 DEF s, t
<1> QED BY <1>2, <1>3 DEF Joined

(* What is left to do in an answer, and whose turn it is.                    *)
LEMMA ToDo ==
  ASSUME TypeOK, ListInv, pc \in Answering, todo # <<>>
  PROVE  /\ Head(todo) \in Groups /\ Tail(todo) \in {<<>>, <<Zero>>} /\ Tail(todo) \in Seq(Groups)
         /\ Head(todo) = Multicast => list = Joined
         /\ Head(todo) # Multicast => Head(todo) = Zero
<1>1. todo \in {<<Zero>>, <<Multicast>>, Joined}
  BY DEF ListInv
<1>2. todo # <<Zero>> => list = Joined
  BY <1>1 DEF ListInv
<1> QED BY <1>1, <1>2, Distinct, Sequences DEF Groups

(* A query that arrives puts <<Multicast>> or nothing in todo.               *)
LEMMA QueryFinds ==
  ASSUME ListInv, ReceiveQuery
  PROVE  /\ todo' \in {<<>>, <<Multicast>>} /\ maxresp' \in MaxResps \cup {V1Delay}
         /\ todo' = <<Multicast>> => maxresp' \in MaxResps
         /\ asked' \in BOOLEAN /\ (asked' => asked \/ todo' = <<Multicast>>)
<1>1. list = Joined
  BY DEF ReceiveQuery, ListInv
<1>2. PICK kind \in Queries, m \in MaxResps :
        /\ todo' = Concerned(kind)
        /\ maxresp' = IF kind = "general" /\ m = 0 THEN V1Delay ELSE m
        /\ asked' = (asked \/ Multicast \in ToSet(Concerned(kind)))
  BY DEF ReceiveQuery
<1>3. todo' \in {<<>>, <<Multicast>>}
  BY <1>1, <1>2, WhomAQueryConcerns
<1>4. ToSet(<<>>) = {}
  BY DEF ToSet
<1>5. todo' = <<Multicast>> => kind # "general"
  <2>1. ~Listed(AllHosts)
    BY <1>1, ListedIf, Distinct DEF Lists
  <2>2. kind = "general" => Concerned(kind) = <<>>
    BY <2>1 DEF Concerned, Dest
  <2> QED BY <1>2, <2>2, Distinct
<1>6. asked' => asked \/ todo' = <<Multicast>>
  BY <1>2, <1>3, <1>4
<1>7. maxresp' \in MaxResps \cup {V1Delay}
  BY <1>2
<1>8. todo' = <<Multicast>> => maxresp' \in MaxResps
  BY <1>2, <1>5
<1>9. asked' \in BOOLEAN
  BY <1>2
<1> QED BY <1>3, <1>6, <1>7, <1>8, <1>9

LEMMA FieldsStep ==
  ASSUME TypeOK, ListInv, [Next]_vars
  PROVE  Fields'
<1> USE Sequences, Distinct DEF Fields, BootPCs, Answering, Reported
<1>0. Fields
  BY TypeParts
<1>1. CASE NetifAdd
  BY <1>0, <1>1 DEF NetifAdd, history, ListInv
<1>2. CASE NetifSetUp
  BY <1>0, <1>2 DEF NetifSetUp, history
<1>3. CASE IgmpInit
  BY <1>0, <1>3 DEF IgmpInit, history
<1>4. CASE JoinReport
  BY <1>0, <1>4 DEF JoinReport, ListInv
<1>5. CASE JoinTimer \/ JoinState \/ StartTimer \/ StopTimer \/ SetIdle \/ ClearFlag
  BY <1>0, <1>5 DEF JoinTimer, JoinState, StartTimer, StopTimer, SetIdle, ClearFlag, history
<1>6. CASE CheckMember
  <2>1. pc = "check" /\ todo # <<>> /\ pc' \in {"start", "check"} /\ todo' \in {todo, Tail(todo)}
    BY <1>6 DEF CheckMember
  <2>2. todo' \in Seq(Groups)
    BY <1>0, <2>1, ToDo
  <2> QED BY <1>0, <1>6, <2>1, <2>2 DEF CheckMember, history
<1>7. CASE SetDelaying
  <2>1. Tail(todo) \in Seq(Groups)
    BY <1>7, ToDo DEF SetDelaying, ListInv
  <2> QED BY <1>0, <1>7, <2>1 DEF SetDelaying, history
<1>8. CASE MembersDone
  BY <1>0, <1>8 DEF MembersDone, history
<1>9. CASE Rebind
  BY <1>0, <1>9, OneMore DEF Rebind, history
<1>10. CASE ReceiveQuery
  <2>1. messages' \in 0..MaxMessages
    BY <1>0, <1>10, OneMore DEF ReceiveQuery
  <2>2. pc' = "check" /\ ticked' = FALSE /\ UNCHANGED <<allsystems, list, lastReport>>
    BY <1>10 DEF ReceiveQuery
  <2>3. todo' \in Seq(Groups) /\ maxresp' \in MaxResps \cup {0, JoinDelay, V1Delay} /\ asked' \in BOOLEAN
    BY <1>10, QueryFinds
  <2> QED BY <1>0, <2>1, <2>2, <2>3
<1>11. CASE ReceiveReport
  BY <1>0, <1>11, OneMore DEF ReceiveReport
<1>12. CASE IgmpTmr
  <2>1. ticked' \in BOOLEAN /\ asked' \in BOOLEAN /\ lastReport' \in {"own", lastReport}
    BY <1>12 DEF IgmpTmr
  <2> QED BY <1>0, <1>12, <2>1 DEF IgmpTmr
<1>13. CASE UNCHANGED vars
  BY <1>0, <1>13 DEF vars, handler, history
<1> QED BY <1>1, <1>2, <1>3, <1>4, <1>5, <1>6, <1>7, <1>8, <1>9, <1>10, <1>11, <1>12, <1>13
        DEF Next, Main

(* What each step does to the group of the clients. *)
LEMMA GroupStep ==
  ASSUME TypeOK, ListInv, [Next]_vars
  PROVE  GroupType'
<1>0. GroupType /\ Fields
  BY TypeParts
<1>1. CASE NetifAdd
  BY <1>0, <1>1, SetsState DEF NetifAdd, ListInv, Groups, States
<1>2. CASE JoinReport
  BY <1>0, <1>2, SetsLast DEF JoinReport, Groups
<1>3. CASE JoinTimer
  BY <1>0, <1>3, SetsTimer, JoinDelayBounded DEF JoinTimer, Groups
<1>4. CASE JoinState
  BY <1>0, <1>4, SetsState DEF JoinState, Groups, States
<1>5. CASE StartTimer
  <2>1. Head(todo) \in Groups
    BY <1>5, ToDo DEF StartTimer, ListInv, Answering
  <2> QED BY <1>0, <1>5, <2>1, HalfIsBounded, SetsTimer DEF StartTimer
<1>6. CASE SetDelaying
  <2>1. Head(todo) \in Groups
    BY <1>6, ToDo DEF SetDelaying, ListInv, Answering
  <2> QED BY <1>0, <1>6, <2>1, SetsState DEF SetDelaying, States
<1>7. CASE StopTimer
  BY <1>0, <1>7, SetsTimer, JoinDelayBounded DEF StopTimer, Groups
<1>8. CASE SetIdle
  BY <1>0, <1>8, SetsState DEF SetIdle, Groups, States
<1>9. CASE ClearFlag
  BY <1>0, <1>9, SetsLast DEF ClearFlag, Groups
<1>10. CASE IgmpTmr
  BY <1>0, <1>10, TickTyped
<1>11. CASE UNCHANGED group
  BY <1>0, <1>11 DEF GroupType
<1>12. NetifSetUp \/ IgmpInit \/ CheckMember \/ MembersDone \/ Rebind \/ ReceiveQuery \/ ReceiveReport
         \/ UNCHANGED vars => UNCHANGED group
  BY DEF NetifSetUp, IgmpInit, CheckMember, MembersDone, Rebind, ReceiveQuery, ReceiveReport, vars
<1> QED BY <1>1, <1>2, <1>3, <1>4, <1>5, <1>6, <1>7, <1>8, <1>9, <1>10, <1>11, <1>12 DEF Next, Main

LEMMA ListStep ==
  ASSUME TypeOK, ListInv, [Next]_vars
  PROVE  ListInv'
<1> USE Sequences, Distinct DEF ListInv, BootPCs, Answering, Reported
<1>1. CASE NetifAdd
  BY <1>1 DEF NetifAdd
<1>2. CASE NetifSetUp
  BY <1>2 DEF NetifSetUp
<1>3. CASE IgmpInit
  BY <1>3 DEF IgmpInit
<1>4. CASE JoinReport
  BY <1>4 DEF JoinReport
<1>5. CASE JoinTimer \/ JoinState \/ StartTimer \/ StopTimer \/ SetIdle \/ ClearFlag
  BY <1>5 DEF JoinTimer, JoinState, StartTimer, StopTimer, SetIdle, ClearFlag
<1>6. CASE CheckMember
  <2>1. /\ pc = "check" /\ todo # <<>> /\ UNCHANGED <<list, allsystems>>
        /\ (pc' = "start" /\ todo' = todo) \/ (pc' = "check" /\ todo' = Tail(todo))
    BY <1>6 DEF CheckMember
  <2>2. Tail(todo) \in {<<>>, <<Zero>>}
    BY <2>1, ToDo
  <2> QED BY <2>1, <2>2
<1>7. CASE SetDelaying
  <2>1. Tail(todo) \in {<<>>, <<Zero>>}
    BY <1>7, ToDo DEF SetDelaying
  <2> QED BY <1>7, <2>1 DEF SetDelaying
<1>8. CASE MembersDone
  <2>1. list \in {<<Zero>>, Joined} /\ UNCHANGED <<list, allsystems>>
    BY <1>8 DEF MembersDone
  <2>2. Listed(Multicast) <=> list = Joined
    BY <2>1, ListedIf DEF Lists
  <2>3. pc' = IF list = Joined THEN "loop" ELSE "init"
    BY <1>8, <2>2 DEF MembersDone
  <2> QED BY <2>1, <2>3
<1>9. CASE Rebind
  BY <1>9 DEF Rebind
<1>10. CASE ReceiveQuery
  <2>1. todo' \in {<<>>, <<Multicast>>}
    BY <1>10, QueryFinds
  <2> QED BY <1>10, <2>1 DEF ReceiveQuery
<1>11. CASE ReceiveReport
  BY <1>11 DEF ReceiveReport
<1>12. CASE IgmpTmr
  BY <1>12 DEF IgmpTmr
<1>13. CASE UNCHANGED vars
  BY <1>13 DEF vars, handler
<1> QED BY <1>1, <1>2, <1>3, <1>4, <1>5, <1>6, <1>7, <1>8, <1>9, <1>10, <1>11, <1>12, <1>13
        DEF Next, Main

-----------------------------------------------------------------------------
(* The flag of the last reporter *)

SameTimer == member'.timer = member.timer
SameState == member'.state = member.state
SameLast == member'.last = member.last
Same == SameTimer /\ SameState /\ SameLast

(* What each step does to the group of the clients.                          *)
LEMMA MemberStep ==
  ASSUME TypeOK, ListInv
  PROVE  /\ NetifAdd => Same
         /\ JoinReport => SameTimer /\ SameState /\ member'.last = 1
         /\ JoinTimer => member'.timer = JoinDelay /\ SameState /\ SameLast
         /\ JoinState => SameTimer /\ member'.state = "DELAYING_MEMBER" /\ SameLast
         /\ StartTimer /\ Head(todo) # Multicast => Same
         /\ StartTimer /\ Head(todo) = Multicast =>
              member'.timer = maxresp \div 2 /\ SameState /\ SameLast
         /\ SetDelaying /\ Head(todo) # Multicast => Same
         /\ SetDelaying /\ Head(todo) = Multicast =>
              SameTimer /\ member'.state = "DELAYING_MEMBER" /\ SameLast
         /\ StopTimer => member'.timer = 0 /\ SameState /\ SameLast
         /\ SetIdle => SameTimer /\ member'.state = "IDLE_MEMBER" /\ SameLast
         /\ ClearFlag => SameTimer /\ SameState /\ member'.last = 0
<1> USE DEF member, Same, SameTimer, SameState, SameLast
<1>0. GroupType /\ Multicast \in Groups /\ Zero \in Groups /\ Zero # Multicast
  BY GroupTyped, Distinct DEF Groups
<1>1. NetifAdd => Same
  <2> SUFFICES ASSUME NetifAdd PROVE Same
    OBVIOUS
  <2>1. group' = [group EXCEPT ![Zero].state = "IDLE_MEMBER"]
    BY DEF NetifAdd, ListInv
  <2> QED BY <1>0, <2>1, SetsState DEF States
<1>2. JoinReport => SameTimer /\ SameState /\ member'.last = 1
  BY <1>0, SetsLast DEF JoinReport
<1>3. JoinTimer => member'.timer = JoinDelay /\ SameState /\ SameLast
  BY <1>0, SetsTimer, JoinDelayBounded DEF JoinTimer
<1>4. JoinState => SameTimer /\ member'.state = "DELAYING_MEMBER" /\ SameLast
  BY <1>0, SetsState DEF JoinState, States
<1>5. /\ StartTimer /\ Head(todo) # Multicast => Same
      /\ StartTimer /\ Head(todo) = Multicast =>
           member'.timer = maxresp \div 2 /\ SameState /\ SameLast
  <2> SUFFICES ASSUME StartTimer
               PROVE  /\ Head(todo) # Multicast => Same
                      /\ Head(todo) = Multicast =>
                           member'.timer = maxresp \div 2 /\ SameState /\ SameLast
    OBVIOUS
  <2>1. Head(todo) \in Groups
    BY ToDo DEF StartTimer, ListInv, Answering
  <2> QED BY <1>0, <2>1, HalfIsBounded, SetsTimer DEF StartTimer
<1>6. /\ SetDelaying /\ Head(todo) # Multicast => Same
      /\ SetDelaying /\ Head(todo) = Multicast =>
           SameTimer /\ member'.state = "DELAYING_MEMBER" /\ SameLast
  <2> SUFFICES ASSUME SetDelaying
               PROVE  /\ Head(todo) # Multicast => Same
                      /\ Head(todo) = Multicast =>
                           SameTimer /\ member'.state = "DELAYING_MEMBER" /\ SameLast
    OBVIOUS
  <2>1. Head(todo) \in Groups
    BY ToDo DEF SetDelaying, ListInv, Answering
  <2> QED BY <1>0, <2>1, SetsState DEF SetDelaying, States
<1>7. StopTimer => member'.timer = 0 /\ SameState /\ SameLast
  BY <1>0, SetsTimer, JoinDelayBounded DEF StopTimer
<1>8. SetIdle => SameTimer /\ member'.state = "IDLE_MEMBER" /\ SameLast
  BY <1>0, SetsState DEF SetIdle, States
<1>9. ClearFlag => SameTimer /\ SameState /\ member'.last = 0
  BY <1>0, SetsLast DEF ClearFlag
<1> QED BY Zenon, <1>1, <1>2, <1>3, <1>4, <1>5, <1>6, <1>7, <1>8, <1>9

LEMMA OthersKeep ==
  NetifSetUp \/ IgmpInit \/ CheckMember \/ MembersDone \/ Rebind \/ ReceiveQuery
    \/ ReceiveReport \/ UNCHANGED vars => Same
<1>1. NetifSetUp \/ IgmpInit \/ CheckMember \/ MembersDone \/ Rebind \/ ReceiveQuery
        \/ ReceiveReport \/ UNCHANGED vars => UNCHANGED group
  BY DEF NetifSetUp, IgmpInit, CheckMember, MembersDone, Rebind, ReceiveQuery, ReceiveReport, vars
<1> QED BY <1>1 DEF Same, SameTimer, SameState, SameLast, member

(* The handler of the timer reports for a member that is listed.             *)
Fires == list = Joined /\ member.timer = 1 /\ member.state = "DELAYING_MEMBER"

LEMMA ZeroIsNotOne == 0 # 1
  OBVIOUS

LEMMA StoppedIsSilent == member.timer = 0 => ~Fires
<1>1. ASSUME member.timer = 0, member.timer = 1 PROVE FALSE
  BY <1>1
<1> QED BY <1>1 DEF Fires

LEMMA MemberTick ==
  ASSUME TypeOK, ListInv, IgmpTmr
  PROVE  /\ SameState /\ UNCHANGED <<pc, list, todo, maxresp>>
         /\ member.timer \in Nat /\ member.last \in {0, 1}
         /\ list # Joined \/ member.timer = 0 => SameTimer
         /\ list = Joined /\ member.timer > 0 => member'.timer = member.timer - 1
         /\ Fires => member'.last = 1 /\ lastReport' = "own" /\ ~asked'
         /\ ~Fires => SameLast /\ lastReport' = lastReport /\ (asked' <=> asked)
<1>1. Multicast \in Groups /\ GroupType /\ group[Multicast] \in Members
  BY GroupTyped DEF GroupType, Groups
<1>2. Listed(Multicast) <=> list = Joined
  BY ListIsOne, ListedIf, Distinct
<1>3. Reports(Multicast) <=> Fires
  BY <1>2 DEF Reports, Fires, member
<1>4. /\ member'.timer = (IF Listed(Multicast) /\ member.timer > 0 THEN member.timer - 1 ELSE member.timer)
      /\ member'.last = (IF Reports(Multicast) THEN 1 ELSE member.last)
      /\ SameState
  BY <1>1, TickOf DEF member, SameState
<1>5. /\ asked' = (asked /\ ~Reports(Multicast)) /\ UNCHANGED <<pc, list, todo, maxresp>>
      /\ lastReport' = IF Reports(Multicast) THEN "own" ELSE lastReport
  BY DEF IgmpTmr
<1>6. asked \in BOOLEAN /\ member.timer \in Nat /\ member.last \in {0, 1}
  BY <1>1 DEF TypeOK, member, Members
<1>7. Fires => ~asked'
  BY <1>3, <1>5
<1>8. ~Fires => (asked' <=> asked)
  BY <1>3, <1>5
<1> QED BY <1>2, <1>3, <1>4, <1>5, <1>6, <1>7, <1>8 DEF SameTimer, SameLast

LEMMA ReportStep ==
  ASSUME TypeOK, ListInv, ListInv', ReportInv, [Next]_vars
  PROVE  ReportInv'
<1> USE DEF ReportInv, Answering, Reported
<1>0. member.last \in {0, 1} /\ member.state \in States
  BY GroupTyped DEF GroupType, Groups, member, Members
<1>1. CASE NetifAdd
  <2>1. Same /\ list # Joined /\ pc' = "up"
    BY <1>1, MemberStep, Distinct DEF NetifAdd, ListInv
  <2> QED BY <2>1 DEF Same, SameTimer, SameState, SameLast
<1>2. CASE NetifSetUp \/ IgmpInit
  <2>1. pc' \in {"check", "join"} /\ list' = list /\ list # Joined
    BY <1>2, Distinct DEF NetifSetUp, IgmpInit, ListInv
  <2>2. Same
    BY <1>2, OthersKeep
  <2>3. member'.last = 0 /\ member'.state = "NON_MEMBER" /\ list' # Joined
    BY <2>1, <2>2 DEF Same, SameState, SameLast
  <2>4. pc' \notin {"join timer", "join state", "stop", "idle", "flag"}
    BY <2>1
  <2>5. member'.last # 1
    BY <2>3, ZeroIsNotOne, Zenon
  <2> QED BY <2>3, <2>4, <2>5
<1>3. CASE JoinReport
  <2>1. SameState /\ member'.last = 1 /\ list # Joined /\ list' = Joined
    BY <1>3, MemberStep, Distinct, Sequences DEF JoinReport, ListInv
  <2> QED BY <1>3, <2>1 DEF JoinReport, SameState
<1>4. CASE JoinTimer
  <2>1. SameState /\ list = Joined /\ list' = Joined /\ lastReport' = lastReport
    BY <1>4, MemberStep DEF JoinTimer, ListInv, history
  <2> QED BY <1>4, <2>1 DEF JoinTimer, SameState
<1>5. CASE JoinState
  <2>1. member'.state = "DELAYING_MEMBER" /\ list' = Joined /\ lastReport' = lastReport
    BY <1>5, MemberStep DEF JoinState, ListInv, history
  <2> QED BY <1>5, <2>1 DEF JoinState
<1>6. CASE CheckMember \/ MembersDone \/ Rebind \/ ReceiveQuery
  <2>1. /\ list' = list /\ lastReport' = lastReport
        /\ pc \in {"check", "loop"} /\ pc' \in {"check", "start", "loop", "init"}
    BY <1>6 DEF CheckMember, MembersDone, Rebind, ReceiveQuery, history
  <2>2. Same
    BY <1>6, OthersKeep
  <2>3. pc' = "init" => list' # Joined
    BY Distinct DEF ListInv
  <2> QED BY <2>1, <2>2, <2>3 DEF Same, SameTimer, SameState, SameLast
<1>7. CASE StartTimer
  <2>1. /\ SameState /\ SameLast /\ list' = list /\ lastReport' = lastReport
        /\ pc = "start" /\ pc' = "state"
    BY <1>7, MemberStep DEF StartTimer, Same, history
  <2> QED BY <2>1 DEF SameState, SameLast
<1>8. CASE SetDelaying
  <2>1. /\ SameLast /\ list' = list /\ lastReport' = lastReport /\ pc = "state" /\ pc' = "check"
        /\ SameState \/ (member'.state = "DELAYING_MEMBER" /\ list = Joined)
    <3>1. pc = "state" /\ todo # <<>>
      BY <1>8 DEF SetDelaying, ListInv
    <3>2. Head(todo) = Multicast => list = Joined
      BY <3>1, ToDo
    <3> QED BY <1>8, <3>2, MemberStep DEF SetDelaying, Same, history
  <2> QED BY <2>1 DEF SameState, SameLast
<1>9. CASE StopTimer
  <2>1. member'.timer = 0 /\ SameState /\ list' = Joined
    BY <1>9, MemberStep DEF StopTimer, ListInv
  <2> QED BY <1>9, <2>1 DEF StopTimer, SameState
<1>10. CASE SetIdle
  <2>1. SameTimer /\ member'.state = "IDLE_MEMBER" /\ list' = Joined
    BY <1>10, MemberStep DEF SetIdle, ListInv
  <2> QED BY <1>10, <2>1 DEF SetIdle, SameTimer
<1>11. CASE ClearFlag
  <2>1. member'.last = 0 /\ SameState /\ list' = Joined
    BY <1>11, MemberStep DEF ClearFlag, ListInv
  <2> QED BY <1>11, <2>1 DEF ClearFlag, SameState
<1>12. CASE ReceiveReport
  <2>1. /\ list = Joined /\ list' = Joined /\ pc = "loop"
        /\ pc' = IF member.state = "DELAYING_MEMBER" THEN "stop" ELSE "loop"
    BY <1>12 DEF ReceiveReport, ListInv, member
  <2>2. Same
    BY <1>12, OthersKeep
  <2> QED BY <2>1, <2>2 DEF Same, SameTimer, SameState, SameLast
<1>13. CASE IgmpTmr
  <2>1. list # Joined => ~Fires
    BY DEF Fires
  <2>2. pc \in {"idle", "flag"} => ~Fires /\ SameTimer
    <3>1. pc \in {"idle", "flag"} => member.timer = 0
      OBVIOUS
    <3>2. member.timer = 0 => SameTimer
      BY <1>13, MemberTick
    <3>3. member.timer = 0 => ~Fires
      BY StoppedIsSilent
    <3> QED BY <3>1, <3>2, <3>3, Zenon
  <2>3. Fires => member.state = "DELAYING_MEMBER"
    BY DEF Fires
  <2> QED BY <1>13, <2>1, <2>2, <2>3, MemberTick DEF SameTimer, SameState, SameLast
<1>14. CASE UNCHANGED vars
  <2>1. Same
    BY <1>14, OthersKeep
  <2> QED BY <1>14, <2>1 DEF Same, SameTimer, SameState, SameLast, vars, handler, history
<1> QED BY <1>1, <1>2, <1>3, <1>4, <1>5, <1>6, <1>7, <1>8, <1>9, <1>10, <1>11, <1>12, <1>13, <1>14
        DEF Next, Main

-----------------------------------------------------------------------------
(* The answer to a query *)

(* Half of the response time of every query lasts through a tick.            *)
LongEnough == \A m \in MaxResps : m >= 4

LEMMA HalfLasts ==
  ASSUME NEW m \in Nat, m >= 4
  PROVE  m \div 2 >= 2
  OBVIOUS

(* The invariant where no answer is in progress and none is due.             *)
LEMMA NothingAsked ==
  ASSUME ~asked', pc' \notin {"start", "state"},
         pc' = "check" => maxresp' >= 4
  PROVE  AnswerInv'
  BY DEF AnswerInv, Answering

(* The invariant where the state of the group is that of an unanswered query.*)
LEMMA StillScheduled ==
  ASSUME asked' => Scheduled' /\ list' = Joined,
         pc' \in {"loop", "check", "start"} \/ (pc' \in {"init"} /\ ~asked'),
         pc' \in Answering /\ todo' # <<>> => maxresp' >= 4
  PROVE  AnswerInv'
  BY DEF AnswerInv, Answering, BootPCs, Reported

LEMMA KeptScheduled ==
  ASSUME Same
  PROVE  Scheduled' <=> Scheduled
  BY DEF Same, SameTimer, SameState, Scheduled

LEMMA AnswerStep ==
  ASSUME LongEnough, TypeOK, ListInv, ListInv', ReportInv, AnswerInv, [Next]_vars
  PROVE  AnswerInv'
<1>0. /\ member.timer \in Nat /\ member.state \in States /\ maxresp \in Nat
      /\ asked \in BOOLEAN /\ ticked \in BOOLEAN
  BY GroupTyped, HalfIsBounded DEF GroupType, Groups, member, Members, TypeOK
<1>a. asked => list = Joined
  BY DEF AnswerInv
<1>1. CASE NetifAdd \/ NetifSetUp \/ IgmpInit \/ JoinReport \/ JoinTimer \/ JoinState
  <2>1. /\ pc \in BootPCs /\ asked' = asked /\ pc' \notin {"start", "state"}
        /\ pc' = "check" => maxresp' = JoinDelay
    BY <1>1 DEF NetifAdd, NetifSetUp, IgmpInit, JoinReport, JoinTimer, JoinState, BootPCs, history
  <2>2. ~asked'
    BY <2>1 DEF AnswerInv
  <2>3. JoinDelay >= 4
    BY DEF JoinDelay
  <2> QED BY <2>1, <2>2, <2>3, NothingAsked
<1>2. CASE StopTimer \/ SetIdle \/ ClearFlag
  <2>1. pc \in Reported /\ asked' = asked /\ pc' \notin {"check", "start", "state"}
    BY <1>2 DEF StopTimer, SetIdle, ClearFlag, Reported, history
  <2>2. ~asked'
    BY <2>1 DEF AnswerInv
  <2> QED BY <2>1, <2>2, NothingAsked
<1>3. CASE ReceiveReport
  <2>1. ~asked' /\ pc' \notin {"check", "start", "state"}
    BY <1>3 DEF ReceiveReport
  <2> QED BY <2>1, NothingAsked
<1>4. CASE CheckMember
  <2>1. /\ pc = "check" /\ todo # <<>> /\ asked' = asked /\ list' = list /\ maxresp' = maxresp
        /\ (pc' = "start" /\ todo' = todo) \/ (pc' = "check" /\ ~Restarts(Head(todo)))
    BY <1>4 DEF CheckMember, history
  <2>2. Same
    BY <1>4, OthersKeep
  <2>3. maxresp >= 4
    BY <2>1 DEF AnswerInv, Answering
  <2>4. CASE asked /\ Head(todo) = Multicast /\ pc' = "start"
    BY <2>1, <2>3, <2>4, <1>a DEF AnswerInv, Answering, BootPCs, Reported
  <2>5. CASE asked /\ Head(todo) = Multicast /\ pc' = "check"
    <3>1. member.state # "NON_MEMBER"
      BY <2>1, <2>5, <1>a DEF ReportInv, Answering
    <3>2. member.state = "DELAYING_MEMBER" /\ ~(maxresp > member.timer)
      BY <2>1, <2>5, <3>1, <1>0 DEF Restarts, member, States
    <3>3. Scheduled
      BY <2>3, <3>2, <1>0 DEF Scheduled
    <3> QED BY <2>1, <2>2, <2>3, <2>5, <3>3, <1>a, KeptScheduled, StillScheduled
  <2>6. CASE asked /\ Head(todo) # Multicast
    <3>1. Scheduled
      BY <2>1, <2>6 DEF AnswerInv
    <3> QED BY <2>1, <2>2, <2>3, <3>1, <1>a, KeptScheduled, StillScheduled
  <2>7. CASE ~asked
    BY <2>1, <2>3, <2>7, StillScheduled
  <2> QED BY <2>1, <2>4, <2>5, <2>6, <2>7
<1>5. CASE StartTimer
  <2>1. /\ pc = "start" /\ pc' = "state" /\ asked' = asked /\ list' = list /\ todo' = todo
        /\ maxresp' = maxresp /\ todo # <<>>
    BY <1>5 DEF StartTimer, history, ListInv
  <2>2. maxresp >= 4
    BY <2>1 DEF AnswerInv, Answering
  <2>3. CASE Head(todo) = Multicast
    <3>1. member'.timer >= 2
      BY <1>5, <2>3, <2>2, <1>0, HalfLasts, MemberStep
    <3> QED BY <2>1, <2>2, <2>3, <3>1, <1>a DEF AnswerInv, Answering, BootPCs, Reported
  <2>4. CASE Head(todo) # Multicast
    <3>1. asked => Scheduled'
      <4>1. Same
        BY <1>5, <2>4, MemberStep
      <4>2. asked => Scheduled
        BY <2>1, <2>4 DEF AnswerInv
      <4> QED BY <4>1, <4>2, KeptScheduled
    <3> QED BY <2>1, <2>2, <2>4, <3>1, <1>a DEF AnswerInv, Answering, BootPCs, Reported
  <2> QED BY <2>3, <2>4
<1>6. CASE SetDelaying
  <2>1. /\ pc = "state" /\ pc' = "check" /\ asked' = asked /\ list' = list
        /\ maxresp' = maxresp /\ todo # <<>>
    BY <1>6 DEF SetDelaying, history, ListInv
  <2>2. maxresp >= 4
    BY <2>1 DEF AnswerInv, Answering
  <2>3. CASE Head(todo) = Multicast
    <3>1. member.timer > 0
      BY <2>1, <2>3, <1>0 DEF AnswerInv
    <3>2. Scheduled'
      BY <1>6, <2>3, <3>1, MemberStep DEF Scheduled, SameTimer
    <3> QED BY <2>1, <2>2, <3>2, <1>a, StillScheduled
  <2>4. CASE Head(todo) # Multicast
    <3>1. asked => Scheduled'
      <4>1. Same
        BY <1>6, <2>4, MemberStep
      <4>2. asked => Scheduled
        BY <2>1, <2>4 DEF AnswerInv
      <4> QED BY <4>1, <4>2, KeptScheduled
    <3> QED BY <2>1, <2>2, <3>1, <1>a, StillScheduled
  <2> QED BY <2>3, <2>4
<1>7. CASE MembersDone
  <2>1. /\ pc = "check" /\ todo = <<>> /\ asked' = asked /\ list' = list /\ todo' = todo
        /\ pc' = IF Listed(Multicast) THEN "loop" ELSE "init"
    BY <1>7 DEF MembersDone, history
  <2>2. Same
    BY <1>7, OthersKeep
  <2>3. asked => Scheduled
    BY <2>1 DEF AnswerInv
  <2>4. Listed(Multicast) <=> list = Joined
    BY ListIsOne, ListedIf, Distinct
  <2> QED BY <2>1, <2>2, <2>3, <2>4, <1>a, KeptScheduled, StillScheduled
<1>8. CASE Rebind
  <2>1. pc = "loop" /\ pc' = "check" /\ asked' = asked /\ list' = list /\ maxresp' = JoinDelay
    BY <1>8 DEF Rebind, history
  <2>2. Same
    BY <1>8, OthersKeep
  <2>3. asked => Scheduled
    BY <2>1 DEF AnswerInv
  <2>4. JoinDelay >= 4
    BY DEF JoinDelay
  <2> QED BY <2>1, <2>2, <2>3, <2>4, <1>a, KeptScheduled, StillScheduled
<1>9. CASE ReceiveQuery
  <2>1. pc = "loop" /\ pc' = "check" /\ list' = list /\ list = Joined
    BY <1>9 DEF ReceiveQuery, ListInv
  <2>2. Same
    BY <1>9, OthersKeep
  <2>3. asked => Scheduled
    BY <2>1 DEF AnswerInv
  <2>4. todo' # <<>> => todo' = <<Multicast>> /\ maxresp' >= 4
    BY <1>9, QueryFinds DEF LongEnough
  <2>5. CASE todo' = <<Multicast>>
    <3>1. Head(todo') = Multicast /\ todo' # <<>>
      BY <2>5, Distinct
    <3> QED BY <2>1, <2>4, <3>1 DEF AnswerInv, Answering, BootPCs, Reported
  <2>6. CASE todo' # <<Multicast>>
    <3>1. asked' => asked
      BY <1>9, <2>6, QueryFinds
    <3> QED BY <2>1, <2>2, <2>3, <2>4, <2>6, <3>1, KeptScheduled, StillScheduled
  <2> QED BY <2>5, <2>6
<1>10. CASE IgmpTmr
  <2>1. /\ SameState /\ pc' = pc /\ list' = list /\ todo' = todo /\ maxresp' = maxresp
        /\ asked' => asked /\ ~Fires
    BY <1>10, <1>0, MemberTick
  <2>2. ticked' = (pc # "loop") /\ (pc # "loop" => ~ticked)
    BY <1>10 DEF IgmpTmr
  <2>3. asked' /\ Scheduled => Scheduled'
    <3> SUFFICES ASSUME asked', Scheduled PROVE Scheduled'
      OBVIOUS
    <3>1. asked /\ list = Joined /\ ~Fires
      BY <2>1, <1>a
    <3>2. member'.timer = member.timer - 1 /\ member.timer # 1
      BY <1>10, <3>1, MemberTick DEF Scheduled, Fires
    <3>3. member'.timer > 0
      BY <3>2, <1>0 DEF Scheduled
    <3> QED BY <2>1, <3>3 DEF Scheduled, SameState
  <2>4. pc' = "state" /\ Head(todo') = Multicast =>
          member'.timer >= 2 \/ (ticked' /\ member'.timer = 1)
    <3> SUFFICES ASSUME pc' = "state", Head(todo') = Multicast
                 PROVE  member'.timer >= 2 \/ (ticked' /\ member'.timer = 1)
      OBVIOUS
    <3>1. pc = "state" /\ Head(todo) = Multicast /\ todo # <<>>
      BY <2>1 DEF ListInv
    <3>2. list = Joined
      BY <3>1, ToDo DEF Answering
    <3>3. ~ticked /\ member.timer >= 2
      BY <2>2, <3>1 DEF AnswerInv
    <3>4. ticked'
      BY <2>2, <3>1
    <3>5. member'.timer = member.timer - 1
      BY <1>10, <3>2, <3>3, <1>0, MemberTick
    <3> QED BY <3>3, <3>4, <3>5, <1>0
  <2> QED BY <2>1, <2>3, <2>4 DEF AnswerInv
<1>11. CASE UNCHANGED vars
  <2>1. /\ asked' = asked /\ pc' = pc /\ list' = list /\ todo' = todo /\ maxresp' = maxresp
        /\ ticked' = ticked
    BY <1>11 DEF vars, handler, history
  <2>2. member' = member
    BY <1>11 DEF vars, member
  <2> QED BY <2>1, <2>2 DEF AnswerInv, Scheduled
<1> QED BY <1>1, <1>2, <1>3, <1>4, <1>5, <1>6, <1>7, <1>8, <1>9, <1>10, <1>11
        DEF Next, Main

-----------------------------------------------------------------------------
(* Theorems *)

LEMMA Starts == Init => TypeOK /\ ListInv /\ ReportInv /\ AnswerInv
<1> SUFFICES ASSUME Init PROVE TypeOK /\ ListInv /\ ReportInv /\ AnswerInv
  OBVIOUS
<1>1. Fields
  <2>1. MaxMessages \in Nat /\ <<>> \in Seq(Groups)
    BY MessagesAssumption, Sequences
  <2>2. 0 \in 0..MaxMessages
    BY <2>1
  <2> QED BY <2>1, <2>2, Zenon DEF Init, Fields, BootPCs
<1>2. member.timer = 0 /\ member.last = 0 /\ member.state = "NON_MEMBER"
  BY DEF Init, member, Groups
<1>3. GroupType
  BY DEF Init, GroupType, Members, States, Bounded, JoinDelay
<1>4. /\ pc = "add" /\ list = <<>> /\ list # Joined /\ allsystems = Zero /\ ~asked
  BY Distinct DEF Init
<1>5. ListInv
  BY <1>4 DEF ListInv, Answering, Reported
<1>6. ReportInv
  BY <1>2, <1>4, ZeroIsNotOne DEF ReportInv, Answering, Reported
<1>7. AnswerInv
  BY <1>4 DEF AnswerInv, Answering
<1> QED BY <1>1, <1>3, <1>5, <1>6, <1>7, TypeParts

LEMMA TypeStep == TypeOK /\ ListInv /\ [Next]_vars => TypeOK' /\ ListInv'
<1>1. (TypeOK <=> Fields /\ GroupType)'
  BY TypeParts, PTL
<1>2. TypeOK /\ ListInv /\ [Next]_vars => Fields' /\ GroupType' /\ ListInv'
  BY FieldsStep, GroupStep, ListStep
<1> QED BY <1>1, <1>2

(* Types, and the bound of the timers: none exceeds half the response time   *)
(* of a query or the delay of a member that joins.                           *)
THEOREM TypeCorrect == Spec => []TypeOK
<1> DEFINE I == TypeOK /\ ListInv
<1>1. Init => I
  BY Starts
<1>2. I /\ [Next]_vars => I'
  BY TypeStep
<1>3. I => TypeOK
  OBVIOUS
<1> HIDE DEF I
<1> QED BY <1>1, <1>2, <1>3, PTL DEF Spec

(* Once igmp_joingroup is through, igmp_group_list is what it and igmp_start *)
(* have made of it, whatever queries, reports and rebinds follow: the group  *)
(* of the clients, and the group of address 0.0.0.0 that igmp_start created  *)
(* in the place of 224.0.0.1, which is never listed.                         *)
Membership ==
  /\ pc \notin BootPCs \cup Answering => list = <<Multicast, Zero>>
  /\ list \in {<<>>, <<Zero>>, <<Multicast, Zero>>}
  /\ ~Listed(AllHosts)

THEOREM GroupsListed == Spec => []Membership
<1> DEFINE I == TypeOK /\ ListInv
<1>1. Init => I
  BY Starts
<1>2. I /\ [Next]_vars => I'
  BY TypeStep
<1>3. I => Membership
  <2> SUFFICES ASSUME TypeOK, ListInv PROVE Membership
    OBVIOUS
  <2>1. list \in Lists
    BY ListIsOne
  <2>2. pc \notin BootPCs \cup Answering => list = Joined
    BY DEF TypeOK, ListInv, BootPCs, Answering, Reported
  <2>3. ~Listed(AllHosts)
    BY <2>1, ListedIf, Distinct
  <2> QED BY <2>1, <2>2, <2>3 DEF Membership, Lists, Joined
<1> HIDE DEF I
<1> QED BY <1>1, <1>2, <1>3, PTL DEF Spec

(* last_reporter_flag claims the last report of the group only if it was     *)
(* this host's, whatever the timer does in the middle of igmp_input.         *)
THEOREM LastReporterRight == Spec => []LastReporterIsUs
<1> DEFINE I == TypeOK /\ ListInv /\ ReportInv
<1>1. Init => I
  BY Starts
<1>2. I /\ [Next]_vars => I'
  BY TypeStep, ReportStep
<1>3. I => LastReporterIsUs
  BY DEF ReportInv, LastReporterIsUs, member
<1> HIDE DEF I
<1> QED BY <1>1, <1>2, <1>3, PTL DEF Spec

(* An unanswered query always has the timer of the group running and its     *)
(* state at DELAYING_MEMBER, provided that half of every response time       *)
(* outlasts the one tick that may fall between the stores of the timer and   *)
(* of the state in igmp_delaying_member.                                     *)
THEOREM QueryKept == LongEnough /\ Spec => []AnswerScheduled
<1> DEFINE I == LongEnough /\ TypeOK /\ ListInv /\ ReportInv /\ AnswerInv
<1>1. LongEnough /\ Init => I
  BY Starts
<1>2. I /\ [Next]_vars => I'
  <2>1. LongEnough => LongEnough'
    BY DEF LongEnough
  <2> QED BY <2>1, TypeStep, ReportStep, AnswerStep
<1>3. I => AnswerScheduled
  BY DEF AnswerInv, AnswerScheduled, Scheduled, member
<1> HIDE DEF I
<1> QED BY <1>1, <1>2, <1>3, PTL DEF Spec
=============================================================================

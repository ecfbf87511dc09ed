--------------------------- MODULE MainLoopProofs ---------------------------
(* Proofs about MainLoop, for every width of LocalTime, every tick, every    *)
(* list of intervals and every bound of MainLoop.                            *)
EXTENDS MainLoop, TLAPS

-----------------------------------------------------------------------------
(* Modulo W *)

LEMMA Numbers == /\ W \in Nat \ {0} /\ Period \in Nat \ {0}
                 /\ MaxTurn \in 0..(W - 1) /\ MaxDatagrams \in Nat
  BY TimeAssumption

(* A time is its own remainder.                                              *)
LEMMA ModSmall ==
  ASSUME NEW x \in 0..(W - 1)
  PROVE  x % W = x
  BY Numbers

(* Unsigned subtraction undoes addition, on either side of the wrap.         *)
LEMMA Difference ==
  ASSUME NEW a \in 0..(W - 1), NEW d \in 0..(W - 1)
  PROVE  /\ (a + d) % W \in 0..(W - 1)
         /\ (((a + d) % W) - a) % W = d
  <1>1. CASE a + d < W
    <2>1. (a + d) % W = a + d
      BY <1>1, Numbers, ModSmall
    <2>2. QED
      BY <2>1, Numbers, ModSmall
  <1>2. CASE a + d >= W
    <2>1. (a + d) % W = a + d - W
      BY <1>2, Numbers
    <2>2. a + d - W - a = d - W /\ (d - W) % W = d
      BY Numbers
    <2>3. QED
      BY <1>2, <2>1, <2>2, Numbers
  <1>3. QED
    BY <1>1, <1>2, Numbers

(* Two steps forward are one. *)
LEMMA Forward ==
  ASSUME NEW a \in 0..(W - 1), NEW d \in 0..(W - 1), NEW e \in Nat, d + e < W
  PROVE  (((a + d) % W) + e) % W = (a + (d + e)) % W
  <1>1. CASE a + d < W
    <2>1. (a + d) % W = a + d
      BY <1>1, Numbers, ModSmall
    <2>2. a + d + e = a + (d + e)
      OBVIOUS
    <2>3. (((a + d) % W) + e) % W = (a + d + e) % W
      BY <2>1
    <2>4. QED
      BY <2>2, <2>3
  <1>2. CASE a + d >= W
    <2>1. (a + d) % W = a + d - W
      BY <1>2, Numbers
    <2>2. (a + (d + e)) % W = a + d + e - W
      BY <1>2, Numbers
    <2>3. (a + d - W + e) % W = a + d - W + e
      BY <1>2, Numbers
    <2>4. QED
      BY <2>1, <2>2, <2>3, Numbers
  <1>3. QED
    BY <1>1, <1>2, Numbers
-----------------------------------------------------------------------------
(* The periodic timers *)

Looked(t) == pc # "timers" \/ t < next

(* What timer t holds is the time age[t] - turn before the one passed on     *)
(* last, and that is less than its interval once t was looked at.            *)
Held(t) ==
  /\ timer[t] \in 0..(W - 1)
  /\ age[t] - turn \in 0..(Interval[t] + MaxTurn - 1)
  /\ localtime = (timer[t] + (age[t] - turn)) % W
  /\ Looked(t) => age[t] - turn < Interval[t]

ClockTypes ==
  /\ LocalTime \in 0..(W - 1) /\ localtime \in 0..(W - 1)
  /\ timer \in [Timers -> 0..(W - 1)] /\ age \in [Timers -> Nat]
  /\ turn \in 0..MaxTurn /\ next \in Nat \ {0} /\ pc \in PCs

ClockInv ==
  /\ ClockTypes
  /\ LocalTime = (localtime + turn) % W
  /\ \A t \in Timers : Held(t)

(* What is assumed of one timer. *)
LEMMA IntervalFits ==
  ASSUME NEW t \in Timers
  PROVE  t \in Nat /\ Interval[t] \in Nat \ {0} /\ Interval[t] + MaxTurn <= W
  BY TimeAssumption DEF Timers

LEMMA ClockInit == Init => ClockInv
  <1> SUFFICES ASSUME Init PROVE ClockInv
    OBVIOUS
  <1>1. 0 % W = 0
    BY Numbers
  <1>2. ASSUME NEW t \in Timers PROVE Held(t)
    <2>1. timer[t] = 0 /\ age[t] = 0 /\ turn = 0 /\ localtime = 0
      BY DEF Init
    <2>2. QED
      BY <1>1, <2>1, IntervalFits, Numbers DEF Held
  <1>3. ClockTypes
    BY Numbers DEF Init, ClockTypes, PCs
  <1>4. QED
    BY <1>1, <1>2, <1>3, Numbers DEF Init, ClockInv

(* A tick: the times passed on and held stay, and so do their distances.     *)
LEMMA ClockTick == ClockInv /\ SysTick => ClockInv'
  <1> SUFFICES ASSUME ClockInv, SysTick PROVE ClockInv'
    OBVIOUS
  <1> USE DEF ClockInv
  <1>1. /\ LocalTime' = (LocalTime + Period) % W
        /\ turn' = turn + Period /\ turn + Period <= MaxTurn
        /\ age' = [t \in Timers |-> age[t] + Period]
        /\ UNCHANGED <<timer, localtime, next, pc>>
    BY DEF SysTick
  <1>2. turn' \in 0..MaxTurn /\ turn + Period < W
    BY <1>1, Numbers DEF ClockTypes
  <1>3. LocalTime' = (localtime' + turn') % W
    <2>1. localtime \in 0..(W - 1) /\ turn \in 0..(W - 1) /\ Period \in Nat
      BY Numbers DEF ClockTypes
    <2>2. (((localtime + turn) % W) + Period) % W = (localtime + (turn + Period)) % W
      BY <1>2, <2>1, Forward
    <2>3. QED
      BY <1>1, <2>2
  <1>4. LocalTime' \in 0..(W - 1)
    BY <1>1, Numbers DEF ClockTypes
  <1>5. age' \in [Timers -> Nat]
    BY <1>1, Numbers DEF ClockTypes
  <1>6. ASSUME NEW t \in Timers PROVE Held(t)'
    <2>1. age'[t] = age[t] + Period
      BY <1>1
    <2>2. age'[t] - turn' = age[t] - turn
      BY <2>1, <1>1, Numbers DEF ClockTypes
    <2>3. Held(t)
      OBVIOUS
    <2>4. QED
      BY <1>1, <2>2, <2>3 DEF Held, Looked
  <1>7. ClockTypes'
    BY <1>1, <1>2, <1>4, <1>5 DEF ClockTypes
  <1>8. QED
    BY <1>3, <1>6, <1>7

(* A pass begins: every timer was looked at in the one before.               *)
LEMMA ClockPass == ClockInv /\ PassTime => ClockInv'
  <1> SUFFICES ASSUME ClockInv, PassTime PROVE ClockInv'
    OBVIOUS
  <1> USE DEF ClockInv
  <1>1. /\ pc = "periodic" /\ pc' = "timers"
        /\ localtime' = LocalTime /\ next' = 1 /\ turn' = 0
        /\ UNCHANGED <<LocalTime, timer, age>>
    BY DEF PassTime
  <1>2. LocalTime' = (localtime' + turn') % W
    BY <1>1, ModSmall DEF ClockTypes
  <1>3. ASSUME NEW t \in Timers PROVE Held(t)'
    <2>1. Held(t) /\ age[t] - turn < Interval[t]
      BY <1>1 DEF Held, Looked
    <2>2. age[t] \in Nat /\ turn \in 0..MaxTurn /\ timer[t] \in 0..(W - 1)
      BY DEF ClockTypes
    <2>3. age[t] - turn \in 0..(W - 1) /\ (age[t] - turn) + turn < W
      <3>1. Interval[t] \in Nat /\ Interval[t] + MaxTurn <= W
        BY IntervalFits
      <3>2. age[t] - turn \in 0..(Interval[t] + MaxTurn - 1)
        BY <2>1 DEF Held
      <3>3. QED
        BY <2>1, <2>2, <3>1, <3>2, Numbers
    <2>4. (age[t] - turn) + turn = age[t]
      BY <2>2, Numbers
    <2>5. LocalTime = (timer[t] + age[t]) % W
      <3>1. localtime = (timer[t] + (age[t] - turn)) % W
        BY <2>1 DEF Held
      <3>2. (((timer[t] + (age[t] - turn)) % W) + turn) % W
              = (timer[t] + ((age[t] - turn) + turn)) % W
        BY <2>2, <2>3, Forward, Numbers
      <3>3. QED
        BY <3>1, <3>2, <2>4
    <2>6. age'[t] - turn' = age[t]
      BY <1>1, <2>2
    <2>7. age[t] \in 0..(Interval[t] + MaxTurn - 1)
      BY <2>1, <2>2, IntervalFits, Numbers
    <2>8. ~Looked(t)'
      BY <1>1, IntervalFits DEF Looked, Timers
    <2>9. QED
      BY <1>1, <2>2, <2>5, <2>6, <2>7, <2>8 DEF Held
  <1>4. ClockTypes'
    BY <1>1, Numbers DEF ClockTypes, PCs
  <1>5. QED
    BY <1>2, <1>3, <1>4

(* What Due finds is how old the time held was when LocalTime was passed on. *)
LEMMA DueIsTrue ==
  ASSUME ClockTypes, NEW t \in Timers, Held(t)
  PROVE  Due(t) <=> age[t] - turn >= Interval[t]
  <1>1. age[t] - turn \in 0..(W - 1)
    <2>1. Interval[t] \in Nat /\ Interval[t] + MaxTurn <= W
      BY IntervalFits
    <2>2. age[t] - turn \in 0..(Interval[t] + MaxTurn - 1)
      BY DEF Held
    <2>3. age[t] \in Nat /\ turn \in Nat
      BY Numbers DEF ClockTypes
    <2>4. QED
      BY <2>1, <2>2, <2>3, Numbers
  <1>2. (localtime - timer[t]) % W = age[t] - turn
    BY <1>1, Difference DEF Held, ClockTypes
  <1>3. QED
    BY <1>2 DEF Due

LEMMA ClockLook == ClockInv /\ LookAtTimer => ClockInv'
  <1> SUFFICES ASSUME ClockInv, LookAtTimer PROVE ClockInv'
    OBVIOUS
  <1> USE DEF ClockInv
  <1>1. /\ pc = "timers" /\ next \in Timers /\ next' = next + 1
        /\ UNCHANGED <<LocalTime, localtime, turn, pc>>
    BY DEF LookAtTimer
  <1>2. IF age[next] - turn >= Interval[next]
        THEN /\ timer' = [timer EXCEPT ![next] = localtime]
             /\ age' = [age EXCEPT ![next] = turn]
        ELSE UNCHANGED <<timer, age>>
    BY <1>1, DueIsTrue DEF LookAtTimer
  <1>3. ClockTypes'
    <2>1. turn \in Nat /\ localtime \in 0..(W - 1)
      BY Numbers DEF ClockTypes
    <2>2. timer' \in [Timers -> 0..(W - 1)] /\ age' \in [Timers -> Nat]
      BY <1>1, <1>2, <2>1 DEF ClockTypes
    <2>3. next' \in Nat \ {0}
      BY <1>1 DEF ClockTypes
    <2>4. QED
      BY <1>1, <2>2, <2>3 DEF ClockTypes
  <1>4. ASSUME NEW t \in Timers PROVE Held(t)'
    <2>1. CASE t # next
      <3>1. timer'[t] = timer[t] /\ age'[t] = age[t]
        BY <1>2, <2>1 DEF ClockTypes
      <3>2. Looked(t)' => Looked(t)
        BY <1>1, <2>1, IntervalFits DEF Looked, ClockTypes
      <3>3. QED
        BY <1>1, <3>1, <3>2 DEF Held
    <2>2. CASE t = next /\ age[next] - turn >= Interval[next]
      <3>1. timer'[t] = localtime /\ age'[t] = turn
        BY <1>1, <1>2, <2>2 DEF ClockTypes
      <3>2. age'[t] - turn' = 0
        BY <1>1, <3>1, Numbers DEF ClockTypes
      <3>3. localtime = (localtime + 0) % W
        BY ModSmall DEF ClockTypes
      <3>4. localtime \in 0..(W - 1)
        BY DEF ClockTypes
      <3>5. 0 \in 0..(Interval[t] + MaxTurn - 1) /\ 0 < Interval[t]
        BY IntervalFits, Numbers
      <3>6. QED
        BY <1>1, <3>1, <3>2, <3>3, <3>4, <3>5 DEF Held
    <2>3. CASE t = next /\ ~(age[next] - turn >= Interval[next])
      <3>1. timer'[t] = timer[t] /\ age'[t] = age[t] /\ age[t] - turn < Interval[t]
        BY <1>2, <2>3, IntervalFits, Numbers DEF ClockTypes
      <3>2. QED
        BY <1>1, <3>1 DEF Held
    <2>4. QED
      BY <2>1, <2>2, <2>3
  <1>5. QED
    BY <1>1, <1>3, <1>4

LEMMA ClockDone == ClockInv /\ TimersDone => ClockInv'
  <1> SUFFICES ASSUME ClockInv, TimersDone PROVE ClockInv'
    OBVIOUS
  <1> USE DEF ClockInv
  <1>1. /\ next \notin Timers /\ pc' = "display"
        /\ UNCHANGED <<LocalTime, timer, localtime, next, age, turn>>
    BY DEF TimersDone, clock
  <1>2. ASSUME NEW t \in Timers PROVE t < next
    BY <1>1, TimeAssumption DEF Timers, ClockTypes
  <1>3. ASSUME NEW t \in Timers PROVE Held(t)'
    <2>1. Looked(t)
      BY <1>2 DEF Looked
    <2>2. QED
      BY <1>1, <2>1 DEF Held
  <1>4. ClockTypes'
    BY <1>1 DEF ClockTypes, PCs
  <1>5. QED
    BY <1>1, <1>3, <1>4

(* The other steps leave the times alone. *)
LEMMA ClockOther ==
  ASSUME ClockInv, UNCHANGED clock, pc' \in PCs, (pc # "timers" /\ pc' # "timers") \/ pc' = pc
  PROVE  ClockInv'
  <1> USE DEF ClockInv
  <1>1. UNCHANGED <<LocalTime, timer, localtime, next, age, turn>>
    BY DEF clock
  <1>2. ASSUME NEW t \in Timers PROVE Held(t)'
    <2>1. Looked(t)' => Looked(t)
      BY <1>1 DEF Looked
    <2>2. QED
      BY <1>1, <2>1 DEF Held
  <1>3. ClockTypes'
    BY <1>1 DEF ClockTypes
  <1>4. QED
    BY <1>1, <1>2, <1>3

LEMMA ClockNext == ClockInv /\ [Next]_vars => ClockInv'
  <1> SUFFICES ASSUME ClockInv, [Next]_vars PROVE ClockInv'
    OBVIOUS
  <1>0. pc \in PCs
    BY DEF ClockInv, ClockTypes
  <1>1. CASE SysTick
    BY <1>1, ClockTick
  <1>2. CASE PassTime
    BY <1>2, ClockPass
  <1>3. CASE LookAtTimer
    BY <1>3, ClockLook
  <1>4. CASE TimersDone
    BY <1>4, ClockDone
  <1>5. CASE TIM2
    BY <1>0, <1>5, ClockOther DEF TIM2
  <1>6. CASE NoDatagram
    BY <1>6, ClockOther DEF NoDatagram, PCs
  <1>7. CASE Receive
    BY <1>7, ClockOther DEF Receive, PCs
  <1>8. CASE CountDatagram
    BY <1>8, ClockOther DEF CountDatagram, PCs
  <1>9. CASE SetFirst
    BY <1>9, ClockOther DEF SetFirst, PCs
  <1>10. CASE BeforeFirst
    BY <1>10, ClockOther DEF BeforeFirst, PCs
  <1>11. CASE SetUnits
    BY <1>11, ClockOther DEF SetUnits, PCs
  <1>12. CASE SetTens
    BY <1>12, ClockOther DEF SetTens, PCs
  <1>13. CASE UNCHANGED vars
    BY <1>0, <1>13, ClockOther DEF vars
  <1>14. QED
    BY <1>1, <1>2, <1>3, <1>4, <1>5, <1>6, <1>7, <1>8, <1>9, <1>10, <1>11, <1>12, <1>13
       DEF Next, Loop

THEOREM ClockCorrect == Spec => []ClockInv
  BY ClockInit, ClockNext, PTL DEF Spec

(* No periodic timer is more than one pass of the loop late, on either side  *)
(* of the wrap of LocalTime (LwIP_Periodic_Handle).                          *)
THEOREM TimersPunctual == Spec => []NeverLate
  <1>1. ClockInv => NeverLate
    <2> SUFFICES ASSUME ClockInv, NEW t \in Timers PROVE age[t] - turn < Interval[t] + MaxTurn
      BY DEF NeverLate
    <2>1. age[t] - turn \in 0..(Interval[t] + MaxTurn - 1)
      BY DEF ClockInv, Held
    <2>2. /\ Interval[t] \in Nat /\ MaxTurn \in Nat
          /\ age[t] \in Nat /\ turn \in Nat
      BY IntervalFits, Numbers DEF ClockInv, ClockTypes
    <2>3. QED
      BY <2>1, <2>2
  <1>2. QED
    BY <1>1, ClockCorrect, PTL

(* No periodic timer fires before its interval is over.                      *)
THEOREM TimersPatient == Spec => NeverEarly
  <1>1. ASSUME ClockInv, [Next]_vars, NEW t \in Timers, timer'[t] # timer[t]
        PROVE  age[t] - turn >= Interval[t]
    <2>1. LookAtTimer
      BY <1>1 DEF Next, Loop, vars, clock, SysTick, TIM2, NoDatagram, Receive, CountDatagram,
                  SetFirst, PassTime, TimersDone, BeforeFirst, SetUnits, SetTens
    <2>2. timer \in [Timers -> 0..(W - 1)] /\ ClockTypes /\ Held(t)
      BY <1>1 DEF ClockInv, ClockTypes
    <2>3. next = t /\ Due(t)
      BY <1>1, <2>1, <2>2 DEF LookAtTimer
    <2>4. QED
      BY <2>2, <2>3, DueIsTrue
  <1>2. ClockInv /\ [Next]_vars =>
          [\A t \in Timers : timer'[t] # timer[t] => age[t] - turn >= Interval[t]]_vars
    BY <1>1
  <1>3. QED
    BY <1>2, ClockCorrect, PTL DEF Spec, NeverEarly

-----------------------------------------------------------------------------
(* The count and the display *)

CountTypes ==
  /\ {fps, register, shown, units, tens} \subseteq Nat
  /\ received \in 0..MaxDatagrams /\ firstPacketRecieved \in {0, 1} /\ cut \in {0, 1}
  /\ pc \in PCs

(* The loop drives the digits only before the first datagram, the interrupt  *)
(* only after it; and the interrupt is all that changes fps under fps++.     *)
CountInv ==
  /\ CountTypes
  /\ pc \in {"units", "tens"} => firstPacketRecieved = 0
  /\ pc = "tens" => units = 22
  /\ pc = "fps++" => fps <= register /\ (cut = 0 => fps = register)
  /\ DigitsAgree
  /\ DatagramsCounted

LEMMA CountInit == Init => CountInv
  BY Numbers DEF Init, CountInv, CountTypes, PCs, DigitsAgree, DatagramsCounted

LEMMA CountNext == CountInv /\ [Next]_vars => CountInv'
  <1> SUFFICES ASSUME CountInv, [Next]_vars PROVE CountInv'
    OBVIOUS
  <1> USE Numbers DEF CountInv, CountTypes, PCs, DigitsAgree, DatagramsCounted
  <1>1. CASE SysTick
    BY <1>1 DEF SysTick, count, digits
  <1>2. CASE PassTime
    BY <1>2 DEF PassTime, count, digits
  <1>3. CASE LookAtTimer
    BY <1>3 DEF LookAtTimer, count, digits
  <1>4. CASE TimersDone
    BY <1>4 DEF TimersDone, count, digits
  <1>5. CASE TIM2
    BY <1>5 DEF TIM2, ShowCount
  <1>6. CASE NoDatagram
    BY <1>6 DEF NoDatagram, count, digits
  <1>7. CASE Receive
    BY <1>7 DEF Receive, digits
  <1>8. CASE CountDatagram
    BY <1>8 DEF CountDatagram, digits
  <1>9. CASE SetFirst
    BY <1>9 DEF SetFirst, digits
  <1>10. CASE BeforeFirst
    BY <1>10 DEF BeforeFirst, count, digits
  <1>11. CASE SetUnits
    BY <1>11 DEF SetUnits, count
  <1>12. CASE SetTens
    BY <1>12 DEF SetTens, count
  <1>13. CASE UNCHANGED vars
    BY <1>13 DEF vars, count, digits
  <1>14. QED
    BY <1>1, <1>2, <1>3, <1>4, <1>5, <1>6, <1>7, <1>8, <1>9, <1>10, <1>11, <1>12, <1>13
       DEF Next, Loop

THEOREM CountCorrect == Spec => []CountInv
  BY CountInit, CountNext, PTL DEF Spec

(* Outside setNumber both digits of the display belong to one number: the    *)
(* main loop and TIM2_IRQHandler never drive them at once.                   *)
THEOREM DisplayCorrect == Spec => []DigitsAgree
  <1>1. CountInv => DigitsAgree
    BY DEF CountInv
  <1>2. QED
    BY <1>1, CountCorrect, PTL

(* fps++ of the receive callback and the reset by TIM2_IRQHandler lose no    *)
(* datagram, and count one twice only when they met.                         *)
THEOREM CountComplete == Spec => []DatagramsCounted
  <1>1. CountInv => DatagramsCounted
    BY DEF CountInv
  <1>2. QED
    BY <1>1, CountCorrect, PTL

-----------------------------------------------------------------------------
(* Types *)

LEMMA WrapOnce == ASSUME NEW x \in W..(2 * W - 1) PROVE x % W = x - W
  BY Numbers

LEMMA WrapTwice == ASSUME NEW x \in (2 * W)..(3 * W - 1) PROVE x % W = x - 2 * W
  BY Numbers

(* Forward, when the two steps together may go around. *)
LEMMA ForwardFar ==
  ASSUME NEW a \in 0..(W - 1), NEW d \in 0..(W - 1), NEW e \in 0..(W - 1)
  PROVE  (((a + d) % W) + e) % W = (a + (d + e)) % W
  <1> DEFINE r == (a + d) % W
  <1>1. r \in 0..(W - 1) /\ (r = a + d \/ r = a + d - W)
    <2>1. CASE a + d < W
      BY <2>1, ModSmall, Numbers
    <2>2. CASE a + d >= W
      BY <2>2, WrapOnce, Numbers
    <2>3. QED
      BY <2>1, <2>2, Numbers
  <1>2. \/ r + e < W /\ (r + e) % W = r + e
        \/ r + e >= W /\ (r + e) % W = r + e - W
    <2>1. CASE r + e < W
      BY <1>1, <2>1, ModSmall, Numbers
    <2>2. CASE r + e >= W
      BY <1>1, <2>2, WrapOnce, Numbers
    <2>3. QED
      BY <1>1, <2>1, <2>2, Numbers
  <1>3. \/ a + (d + e) < W /\ (a + (d + e)) % W = a + (d + e)
        \/ a + (d + e) \in W..(2 * W - 1) /\ (a + (d + e)) % W = a + (d + e) - W
        \/ a + (d + e) >= 2 * W /\ (a + (d + e)) % W = a + (d + e) - 2 * W
    <2>1. CASE a + (d + e) < W
      BY <2>1, ModSmall, Numbers
    <2>2. CASE a + (d + e) \in W..(2 * W - 1)
      BY <2>2, WrapOnce, Numbers
    <2>3. CASE a + (d + e) \in (2 * W)..(3 * W - 1)
      BY <2>3, WrapTwice, Numbers
    <2>4. QED
      BY <2>1, <2>2, <2>3, Numbers
  <1>4. (r + e) % W \in 0..(W - 1) /\ (a + (d + e)) % W \in 0..(W - 1)
    BY <1>1, <1>2, <1>3, Numbers
  <1> HIDE DEF r
  <1>5. (r + e) % W = (a + (d + e)) % W
    BY <1>1, <1>2, <1>3, <1>4, Numbers
  <1>6. QED
    BY <1>5 DEF r

(* The types, and that every timer holds the time it is old, modulo W.       *)
THEOREM TypeCorrect == Spec => []TypeOK
  <1>1. ASSUME ClockInv, NEW t \in Timers PROVE LocalTime = (timer[t] + age[t]) % W
    <2>1. /\ Interval[t] \in Nat /\ Interval[t] + MaxTurn <= W
          /\ age[t] \in Nat /\ turn \in 0..(W - 1) /\ timer[t] \in 0..(W - 1)
      BY <1>1, IntervalFits, Numbers DEF ClockInv, ClockTypes
    <2>2. age[t] - turn \in 0..(Interval[t] + MaxTurn - 1)
      BY <1>1 DEF ClockInv, Held
    <2>3. age[t] - turn \in 0..(W - 1) /\ (age[t] - turn) + turn = age[t]
      BY <2>1, <2>2, Numbers
    <2>4. /\ LocalTime = (localtime + turn) % W
          /\ localtime = (timer[t] + (age[t] - turn)) % W
      BY <1>1 DEF ClockInv, Held
    <2>5. (((timer[t] + (age[t] - turn)) % W) + turn) % W
            = (timer[t] + ((age[t] - turn) + turn)) % W
      BY <2>1, <2>3, ForwardFar
    <2>6. QED
      BY <2>3, <2>4, <2>5
  <1>2. ClockInv /\ CountInv => TypeOK
    <2> SUFFICES ASSUME ClockInv, CountInv PROVE TypeOK
      OBVIOUS
    <2>1. ClockTypes /\ CountTypes
      BY DEF ClockInv, CountInv
    <2>2. \A t \in Timers : LocalTime = (timer[t] + age[t]) % W
      BY <1>1
    <2>3. QED
      BY <2>1, <2>2 DEF TypeOK, ClockTypes, CountTypes
  <1>3. QED
    BY <1>2, ClockCorrect, CountCorrect, PTL
=============================================================================

------------------------------ MODULE MainLoop ------------------------------
(* The main loop and the two interrupts that cut into it: SysTick, which     *)
(* advances LocalTime, and TIM2, which shows and resets the count of         *)
(* datagrams.  Of the passes of the loop this module has what depends on     *)
(* them: the receive callback's counting, LwIP_Periodic_Handle, and the      *)
(* display before the first datagram.                                        *)
(*                                                                           *)
(* TIM2 has preemption priority 0: neither the loop nor SysTick cuts into    *)
(* its handler, which is one step.  Times are in ms.                         *)
EXTENDS Integers, Sequences

CONSTANTS
  W,             \* LocalTime is counted modulo W, 2^32
  Period,        \* SYSTEMTICK_PERIOD_MS
  Interval,      \* the interval of each periodic timer, in the code's order
  MaxTurn,       \* bound: ms from one look at LocalTime to the next
  MaxDatagrams   \* bound: datagrams received

Timers == 1..Len(Interval)

(* A pass of the loop is so short that no timer goes once around W.          *)
ASSUME TimeAssumption ==
  /\ W \in Nat \ {0} /\ Period \in Nat \ {0}
  /\ MaxTurn \in 0..(W - 1) /\ MaxDatagrams \in Nat
  /\ Interval \in Seq(Nat \ {0})
  /\ \A t \in Timers : Interval[t] + MaxTurn <= W

VARIABLES
  LocalTime,
  timer,       \* TCPTimer, ARPTimer, DHCPfineTimer, DHCPcoarseTimer
  pc,          \* where the loop is
  localtime,   \* the argument of LwIP_Periodic_Handle
  next,        \* the timer it looks at next
  fps, firstPacketRecieved,
  register,    \* the value fps++ has read
  units, tens, \* the number each digit was last set for
  age,         \* history: ms since what each timer holds was the time
  turn,        \* history: ms since LocalTime was last passed on
  received,    \* history: datagrams received
  shown,       \* history: the sum of the counts shown
  cut          \* history: 1 if the interrupt ever reset fps in the middle of fps++

clock == <<LocalTime, timer, localtime, next, age, turn>>
count == <<fps, firstPacketRecieved, register, received, shown, cut>>
digits == <<units, tens>>
vars == <<clock, pc, count, digits>>

Init ==
  /\ LocalTime = 0 /\ localtime = 0 /\ next = 1 /\ turn = 0
  /\ timer = [t \in Timers |-> 0] /\ age = [t \in Timers |-> 0]
  /\ pc = "check"
  /\ fps = 0 /\ firstPacketRecieved = 0 /\ register = 0
  /\ received = 0 /\ shown = 0 /\ cut = 0
  /\ units = 0 /\ tens = 0

-----------------------------------------------------------------------------
(* Interrupts *)

(* Bound: no timer gets this old, see NeverLate. *)
Young == \A t \in Timers : age[t] < 2 * W

(* SysTick_Handler, Time_Update *)
SysTick ==
  /\ turn + Period <= MaxTurn /\ Young
  /\ LocalTime' = (LocalTime + Period) % W
  /\ turn' = turn + Period
  /\ age' = [t \in Timers |-> age[t] + Period]
  /\ UNCHANGED <<timer, localtime, next, pc, count, digits>>

(* Mutant: the count is reset before it is shown. *)
ShowReset ==
  /\ fps' = 0
  /\ units' = 0 /\ tens' = 0 /\ UNCHANGED shown

(* setNumber(fps), fps = 0 *)
ShowCount ==
  /\ units' = fps /\ tens' = fps
  /\ shown' = shown + fps
  /\ fps' = 0

(* Mutant: the handler always shows the count. *)
TIM2Always ==
  /\ ShowCount
  /\ cut' = IF pc = "fps++" THEN 1 ELSE cut
  /\ UNCHANGED <<clock, pc, firstPacketRecieved, register, received>>

(* TIM2_IRQHandler; igmp_tmr is in Igmp. *)
TIM2 ==
  /\ firstPacketRecieved = 1
  /\ ShowCount
  /\ cut' = IF pc = "fps++" THEN 1 ELSE cut
  /\ UNCHANGED <<clock, pc, firstPacketRecieved, register, received>>

-----------------------------------------------------------------------------
(* The loop *)

NoDatagram ==
  /\ pc = "check"
  /\ pc' = "periodic"
  /\ UNCHANGED <<clock, count, digits>>

(* udp_echoserver_receive_callback: fps++ reads ... *)
Receive ==
  /\ pc = "check"
  /\ received < MaxDatagrams
  /\ received' = received + 1
  /\ register' = fps
  /\ pc' = "fps++"
  /\ UNCHANGED <<clock, fps, firstPacketRecieved, shown, cut, digits>>

(* ... and writes. *)
CountDatagram ==
  /\ pc = "fps++"
  /\ fps' = register + 1
  /\ pc' = "first"
  /\ UNCHANGED <<clock, firstPacketRecieved, register, received, shown, cut, digits>>

SetFirst ==
  /\ pc = "first"
  /\ firstPacketRecieved' = 1
  /\ pc' = "periodic"
  /\ UNCHANGED <<clock, fps, register, received, shown, cut, digits>>

(* LwIP_Periodic_Handle(LocalTime) *)
PassTime ==
  /\ pc = "periodic"
  /\ localtime' = LocalTime
  /\ next' = 1 /\ turn' = 0
  /\ pc' = "timers"
  /\ UNCHANGED <<LocalTime, timer, age, count, digits>>

(* Mutant: the sum may wrap when the time has not yet. *)
DueAt(t) == localtime >= (timer[t] + Interval[t]) % W

(* The difference of two unsigned values. *)
Due(t) == (localtime - timer[t]) % W >= Interval[t]

(* Mutant: else if. *)
LookFirstDue ==
  /\ pc = "timers" /\ next \in Timers
  /\ IF Due(next)
     THEN /\ timer' = [timer EXCEPT ![next] = localtime]
          /\ age' = [age EXCEPT ![next] = turn]
          /\ pc' = "display"
     ELSE UNCHANGED <<timer, age, pc>>
  /\ next' = next + 1
  /\ UNCHANGED <<LocalTime, localtime, turn, count, digits>>

(* One timer, and what it is for. *)
LookAtTimer ==
  /\ pc = "timers" /\ next \in Timers
  /\ IF Due(next)
     THEN /\ timer' = [timer EXCEPT ![next] = localtime]
          /\ age' = [age EXCEPT ![next] = turn]
     ELSE UNCHANGED <<timer, age>>
  /\ next' = next + 1
  /\ UNCHANGED <<LocalTime, localtime, turn, pc, count, digits>>

TimersDone ==
  /\ pc = "timers" /\ next \notin Timers
  /\ pc' = "display"
  /\ UNCHANGED <<clock, count, digits>>

(* process_incoming_rf and demo() touch nothing here. *)
BeforeFirst ==
  /\ pc = "display"
  /\ pc' = IF firstPacketRecieved = 0 THEN "units" ELSE "check"
  /\ UNCHANGED <<clock, count, digits>>

(* setNumber(22), one digit after the other *)
SetUnits ==
  /\ pc = "units"
  /\ units' = 22
  /\ pc' = "tens"
  /\ UNCHANGED <<clock, count, tens>>

SetTens ==
  /\ pc = "tens"
  /\ tens' = 22
  /\ pc' = "check"
  /\ UNCHANGED <<clock, count, units>>

Loop ==
  \/ NoDatagram \/ Receive \/ CountDatagram \/ SetFirst
  \/ PassTime \/ LookAtTimer \/ TimersDone
  \/ BeforeFirst \/ SetUnits \/ SetTens

Next == SysTick \/ TIM2 \/ Loop

Spec == Init /\ [][Next]_vars

(* The loop never stops, and time goes on (within MaxTurn).                  *)
FairSpec == Spec /\ WF_vars(Loop) /\ WF_vars(SysTick)

-----------------------------------------------------------------------------
(* Properties *)

PCs == {"check", "fps++", "first", "periodic", "timers", "display", "units", "tens"}

(* Type invariant; every timer holds the time it is old, modulo W.           *)
TypeOK ==
  /\ LocalTime \in 0..(W - 1) /\ localtime \in 0..(W - 1)
  /\ timer \in [Timers -> 0..(W - 1)] /\ age \in [Timers -> Nat]
  /\ \A t \in Timers : LocalTime = (timer[t] + age[t]) % W
  /\ turn \in 0..MaxTurn /\ next \in Nat
  /\ pc \in PCs
  /\ {fps, register, shown, units, tens} \subseteq Nat
  /\ received \in 0..MaxDatagrams /\ firstPacketRecieved \in {0, 1}
  /\ cut \in {0, 1}

(* A timer never fires before its interval is over, on whichever side of the *)
(* wrap of LocalTime the two times lie.                                      *)
NeverEarly ==
  [][\A t \in Timers :
       timer'[t] # timer[t] => age[t] - turn >= Interval[t]]_vars

(* A timer is never looked at without firing when its interval is over: it   *)
(* is late by one pass of the loop at most, after a wrap as well as before.  *)
NeverLate == \A t \in Timers : age[t] - turn < Interval[t] + MaxTurn

(* Each of them fires again and again. *)
TimersFire == \A t \in Timers : []<><<timer'[t] # timer[t]>>_vars

(* The loop and the interrupt drive the same outputs, but never at once:     *)
(* outside setNumber the two digits belong to one number.                    *)
DigitsAgree == pc # "tens" => units = tens

(* Each datagram is in a count shown or in the one to be shown next, and in  *)
(* one only unless the interrupt ever came between the two halves of fps++.  *)
DatagramsCounted ==
  LET counted == shown + fps + (IF pc = "fps++" THEN 1 ELSE 0)
  IN  counted >= received /\ (cut = 0 => counted = received)
=============================================================================

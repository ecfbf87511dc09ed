-------------------------------- MODULE Igmp --------------------------------
(* Membership of the multicast group that the clients send to.               *)
(*                                                                           *)
(* igmp.c as the firmware uses it: LwIP_Init of src/netconf.c registers the  *)
(* interface and joins the group, queries and reports are handled in the     *)
(* main loop, and the timer runs in TIM2_IRQHandler.  The handler preempts   *)
(* the main loop between any two accesses to a group.                        *)
(*                                                                           *)
(* Abstracted: addresses are names; a group also on other interfaces, use    *)
(* counts and igmp_leavegroup, which has no caller.  A time unit is one call *)
(* of igmp_tmr, which is 1 s (init_Timer), not IGMP_TMR_INTERVAL.            *)
EXTENDS Integers, SequencesExt

CONSTANTS
  MaxResps,    \* maxresp fields of the queries that arrive
  Queries,     \* kinds of queries that arrive
  MaxMessages  \* bound: queries and reports that arrive, and rebinds

ASSUME MessagesAssumption ==
  /\ MaxResps \subseteq 0..255 /\ MaxMessages \in Nat
  /\ Queries \subseteq {"general", "specific", "specific to all"}

(* 0.0.0.0, the group of MULTICAST_ADDR0..3 and 224.0.0.1.                   *)
Zero == "zero"
Multicast == "multicast"
AllHosts == "all hosts"

Groups == {Zero, Multicast}

(* IGMP_JOIN_DELAYING_MEMBER_TMR and IGMP_V1_DELAYING_MEMBER_TMR             *)
JoinDelay == 5
V1Delay == 10

VARIABLES
  pc,          \* where the main loop is
  todo,        \* groups igmp_delaying_member is still to be called for
  maxresp,     \* its second argument
  allsystems,
  list,        \* igmp_group_list
  group,       \* timer, state and last_reporter_flag of each group
  asked,       \* history: a query that found Multicast is unanswered
  lastReport,  \* history: who was the last to report Multicast
  messages,
  ticked       \* igmp_tmr has run since the main loop was last at its top

handler == <<pc, todo, maxresp, ticked>>
history == <<asked, lastReport>>
vars == <<handler, allsystems, list, group, history, messages>>

Listed(g) == Contains(list, g)

-----------------------------------------------------------------------------
(* LwIP_Init                                                                 *)

Init ==
  /\ pc = "add" /\ todo = <<>> /\ maxresp = 0 /\ ticked = FALSE
  /\ allsystems = Zero
  /\ list = <<>>
  /\ group = [g \in Groups |-> [timer |-> 0, state |-> "NON_MEMBER", last |-> 0]]
  /\ asked = FALSE /\ lastReport = "none"
  /\ messages = 0

(* netif_add: igmp_start creates a group for allsystems, which igmp_init has *)
(* not set yet.                                                              *)
NetifAdd ==
  /\ pc = "add"
  /\ list' = <<allsystems>>
  /\ group' = [group EXCEPT ![allsystems].state = "IDLE_MEMBER"]
  /\ pc' = "up"
  /\ UNCHANGED <<todo, maxresp, ticked, allsystems, history, messages>>

(* netif_set_up: igmp_report_groups                                          *)
NetifSetUp ==
  /\ pc = "up"
  /\ todo' = list /\ maxresp' = JoinDelay
  /\ pc' = "check"
  /\ UNCHANGED <<ticked, allsystems, list, group, history, messages>>

IgmpInit ==
  /\ pc = "init"
  /\ allsystems' = AllHosts
  /\ pc' = "join"
  /\ UNCHANGED <<todo, maxresp, ticked, list, group, history, messages>>

(* igmp_joingroup: a first report, then the timer, then the state.           *)
JoinReport ==
  /\ pc = "join"
  /\ list' = <<Multicast>> \o list
  /\ group' = [group EXCEPT ![Multicast].last = 1]
  /\ lastReport' = "own"
  /\ pc' = "join timer"
  /\ UNCHANGED <<todo, maxresp, ticked, allsystems, asked, messages>>

JoinTimer ==
  /\ pc = "join timer"
  /\ group' = [group EXCEPT ![Multicast].timer = JoinDelay]
  /\ pc' = "join state"
  /\ UNCHANGED <<todo, maxresp, ticked, allsystems, list, history, messages>>

JoinState ==
  /\ pc = "join state"
  /\ group' = [group EXCEPT ![Multicast].state = "DELAYING_MEMBER"]
  /\ pc' = "loop" /\ ticked' = FALSE
  /\ UNCHANGED <<todo, maxresp, allsystems, list, history, messages>>

(* dhcp_bind brings an interface that a NAK took down up again.              *)
Rebind ==
  /\ pc = "loop" /\ messages < MaxMessages
  /\ messages' = messages + 1
  /\ todo' = list /\ maxresp' = JoinDelay
  /\ pc' = "check" /\ ticked' = FALSE
  /\ UNCHANGED <<allsystems, list, group, history>>

-----------------------------------------------------------------------------
(* igmp_input                                                                *)

Dest(kind) == IF kind = "specific" THEN Multicast ELSE AllHosts

(* ip_input drops a packet for a group that is not in the list.              *)
Concerned(kind) ==
  IF ~Listed(Dest(kind)) THEN <<>>
  ELSE IF kind = "general" THEN SelectSeq(list, LAMBDA g : g # allsystems)
  ELSE IF Listed(Multicast) THEN <<Multicast>> ELSE <<>>

ReceiveQuery ==
  /\ pc = "loop" /\ messages < MaxMessages
  /\ messages' = messages + 1
  /\ \E kind \in Queries, m \in MaxResps :
       /\ todo' = Concerned(kind)
       /\ maxresp' = IF kind = "general" /\ m = 0 THEN V1Delay ELSE m
       /\ asked' = (asked \/ Multicast \in ToSet(Concerned(kind)))
  /\ pc' = "check" /\ ticked' = FALSE
  /\ UNCHANGED <<allsystems, list, group, lastReport>>

(* Mutant: the query of the shorter delay wins, as the protocol has it.      *)
RestartsIfEarlier(g) ==
  \/ group[g].state = "IDLE_MEMBER"
  \/ group[g].state = "DELAYING_MEMBER" /\ maxresp < group[g].timer

Restarts(g) ==
  \/ group[g].state = "IDLE_MEMBER"
  \/ group[g].state = "DELAYING_MEMBER" /\ maxresp > group[g].timer

(* igmp_delaying_member, the test *)
CheckMember ==
  /\ pc = "check" /\ todo # <<>>
  /\ IF Restarts(Head(todo))
     THEN pc' = "start" /\ UNCHANGED todo
     ELSE todo' = Tail(todo) /\ UNCHANGED pc
  /\ UNCHANGED <<maxresp, ticked, allsystems, list, group, history, messages>>

(* igmp_start_timer(group, maxresp / 2) *)
StartTimer ==
  /\ pc = "start"
  /\ group' = [group EXCEPT ![Head(todo)].timer = maxresp \div 2]
  /\ pc' = "state"
  /\ UNCHANGED <<todo, maxresp, ticked, allsystems, list, history, messages>>

SetDelaying ==
  /\ pc = "state"
  /\ group' = [group EXCEPT ![Head(todo)].state = "DELAYING_MEMBER"]
  /\ todo' = Tail(todo)
  /\ pc' = "check"
  /\ UNCHANGED <<maxresp, ticked, allsystems, list, history, messages>>

(* igmp_input returns, or netif_set_up does.                                 *)
MembersDone ==
  /\ pc = "check" /\ todo = <<>>
  /\ pc' = IF Listed(Multicast) THEN "loop" ELSE "init"
  /\ ticked' = FALSE
  /\ UNCHANGED <<todo, maxresp, allsystems, list, group, history, messages>>

(* The report of another member.  It is ignored unless one of ours is due.   *)
ReceiveReport ==
  /\ pc = "loop" /\ messages < MaxMessages
  /\ messages' = messages + 1
  /\ asked' = FALSE /\ lastReport' = "other"
  /\ pc' = IF group[Multicast].state = "DELAYING_MEMBER" THEN "stop" ELSE "loop"
  /\ UNCHANGED <<todo, maxresp, ticked, allsystems, list, group>>

StopTimer ==
  /\ pc = "stop"
  /\ group' = [group EXCEPT ![Multicast].timer = 0]
  /\ pc' = "idle"
  /\ UNCHANGED <<todo, maxresp, ticked, allsystems, list, history, messages>>

SetIdle ==
  /\ pc = "idle"
  /\ group' = [group EXCEPT ![Multicast].state = "IDLE_MEMBER"]
  /\ pc' = "flag"
  /\ UNCHANGED <<todo, maxresp, ticked, allsystems, list, history, messages>>

(* Mutant: the flag stays as it is. *)
KeepFlag ==
  /\ pc = "flag"
  /\ pc' = "loop" /\ ticked' = FALSE
  /\ UNCHANGED <<todo, maxresp, allsystems, list, group, history, messages>>

ClearFlag ==
  /\ pc = "flag"
  /\ group' = [group EXCEPT ![Multicast].last = 0]
  /\ pc' = "loop" /\ ticked' = FALSE
  /\ UNCHANGED <<todo, maxresp, allsystems, list, history, messages>>

-----------------------------------------------------------------------------
(* TIM2_IRQHandler: igmp_tmr and igmp_timeout for every group of the list.   *)

(* Mutant: the state is confused. *)
ReportsIdle(g) ==
  Listed(g) /\ group[g].timer = 1 /\ group[g].state = "IDLE_MEMBER"

(* The timer of g runs out and a report is sent. *)
Reports(g) ==
  Listed(g) /\ group[g].timer = 1 /\ group[g].state = "DELAYING_MEMBER"

(* A handler of the main loop takes far less than the period of the timer,   *)
(* so at most one tick falls into it.                                        *)
IgmpTmr ==
  /\ pc # "loop" => ~ticked
  /\ ticked' = (pc # "loop")
  /\ group' = [g \in Groups |->
       [group[g] EXCEPT !.timer = IF Listed(g) /\ @ > 0 THEN @ - 1 ELSE @,
                        !.last  = IF Reports(g) THEN 1 ELSE @]]
  /\ asked' = (asked /\ ~Reports(Multicast))
  /\ lastReport' = IF Reports(Multicast) THEN "own" ELSE lastReport
  /\ UNCHANGED <<pc, todo, maxresp, allsystems, list, messages>>

Main ==
  \/ NetifAdd \/ NetifSetUp \/ IgmpInit
  \/ JoinReport \/ JoinTimer \/ JoinState
  \/ CheckMember \/ StartTimer \/ SetDelaying \/ MembersDone
  \/ StopTimer \/ SetIdle \/ ClearFlag

Next == Main \/ Rebind \/ ReceiveQuery \/ ReceiveReport \/ IgmpTmr

Spec == Init /\ [][Next]_vars

(* The main loop finishes what it has begun and TIM2 keeps counting; no      *)
(* message has to arrive.                                                    *)
FairSpec == Spec /\ WF_vars(Main) /\ WF_vars(IgmpTmr)

-----------------------------------------------------------------------------
(* Properties *)

BootPCs == {"add", "up", "init", "join", "join timer", "join state"}

(* Type invariant; a delay never exceeds half the response time of a query.  *)
TypeOK ==
  /\ pc \in BootPCs \cup {"loop", "check", "start", "state", "stop", "idle", "flag"}
  /\ todo \in Seq(Groups) /\ list \in Seq(Groups)
  /\ maxresp \in MaxResps \cup {0, JoinDelay, V1Delay}
  /\ allsystems \in {Zero, AllHosts}
  /\ group \in [Groups -> [timer : Nat, last : {0, 1},
                           state : {"NON_MEMBER", "DELAYING_MEMBER", "IDLE_MEMBER"}]]
  /\ \A g \in Groups : \/ group[g].timer <= JoinDelay
                       \/ \E m \in MaxResps : group[g].timer <= m \div 2
  /\ asked \in BOOLEAN /\ ticked \in BOOLEAN
  /\ lastReport \in {"none", "own", "other"}
  /\ messages \in 0..MaxMessages

(* last_reporter_flag never claims the last report for this host when        *)
(* another member has reported since, whatever the timer does in the middle  *)
(* of igmp_input.                                                            *)
LastReporterIsUs ==
  pc = "loop" /\ group[Multicast].last = 1 => lastReport = "own"

(* While a query is unanswered the timer of the group runs and the state     *)
(* lets igmp_timeout report: an unfinished answer is never forgotten.        *)
AnswerScheduled ==
  pc = "loop" /\ asked =>
    group[Multicast].timer > 0 /\ group[Multicast].state = "DELAYING_MEMBER"

(* A query that igmp_input takes to concern the group is answered by this    *)
(* host or by another.  Queries to all systems never are: their group is not *)
(* in the list, for NetifAdd came before IgmpInit.                           *)
QueryAnswered == asked ~> ~asked
=============================================================================

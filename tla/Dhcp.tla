-------------------------------- MODULE Dhcp --------------------------------
(* How the gateway gets its address.                                         *)
(*                                                                           *)
(* LwIP_DHCP_Process_Handle in src/netconf.c drives lwIP's DHCP client       *)
(* (dhcp.c): it starts the client, takes the leased address and stops the    *)
(* client, or gives up and configures a static address.  Both run in the     *)
(* main loop, on the 500 ms timer and when a frame arrives.                  *)
(*                                                                           *)
(* Abstracted: the options of a message but for the server id of an offer;   *)
(* netmask and gateway, which follow the address.  Left out: RENEWING,       *)
(* REBINDING and REBOOTING, which need a client that outlives its binding;   *)
(* the client is stopped in the tick that binds it.  Memory for the client   *)
(* and its requests is taken to be there: MEM_SIZE is 10 KB and the heap is  *)
(* otherwise used for one packet at a time.                                  *)
EXTENDS Integers

CONSTANTS
  Addrs,       \* the addresses a server may offer
  MaxReplies   \* bound: replies (of servers and to the ARP probe) delivered

ASSUME RepliesAssumption == MaxReplies \in Nat

NoAddr == "0.0.0.0"
Static == "static"

ASSUME AddrsAssumption == NoAddr \notin Addrs /\ Static \notin Addrs

MAX_DHCP_TRIES == 4

(* DHCP_FINE_TIMER_MSECS is 500. *)
TicksPerSecond == 2

VARIABLES
  DHCP_state,
  s,        \* netif.dhcp, the interface and the requests on the network
  replies,  \* replies delivered so far
  refused,  \* history: transactions that were NAKed or declined
  bare      \* history: transactions with an offer that named no server

vars == <<DHCP_state, s, replies, refused, bare>>

Done == {"ADDRESS_ASSIGNED", "TIMEOUT"}

-----------------------------------------------------------------------------
(* dhcp.c: operators on the record s.                                        *)
(* s.xid is the static variable of dhcp_create_request; a request goes out   *)
(* in the step that numbers it, so it is also dhcp->xid.                     *)

(* A change of state resets the number of tries. *)
SetState(st, new) ==
  IF st.state = new THEN st ELSE [st EXCEPT !.state = new, !.tries = 0]

(* Retransmissions reuse the transaction identifier. *)
CreateRequest(st, type) ==
  LET x == IF st.tries = 0 THEN st.xid + 1 ELSE st.xid
  IN  [st EXCEPT !.xid = x,
                 !.sent = @ \cup {[type |-> type, xid |-> x, addr |-> st.offered]}]

Arm(st, ticks) == [st EXCEPT !.tries = @ + 1, !.timeout = ticks]

(* 1 << tries seconds, tries having been incremented; 60 from the sixth on.  *)
Backoff(st) ==
  TicksPerSecond * (IF st.tries < 5 THEN <<2, 4, 8, 16, 32>>[st.tries + 1] ELSE 60)

Discover(st) ==
  LET r == CreateRequest(SetState([st EXCEPT !.offered = NoAddr], "SELECTING"), "DISCOVER")
  IN  Arm(r, Backoff(r))

(* Mutant: the retransmission timer is not started. *)
SelectUnarmed(st) ==
  [CreateRequest(SetState(st, "REQUESTING"), "REQUEST") EXCEPT !.tries = @ + 1]

Select(st) ==
  LET r == CreateRequest(SetState(st, "REQUESTING"), "REQUEST")
  IN  Arm(r, Backoff(r))

(* The ARP probe is repeated after 500 ms. *)
Check(st) == Arm(SetState(st, "CHECKING"), 1)

(* 10 s of silence. *)
Decline(st) ==
  Arm(CreateRequest(SetState(st, "BACKING_OFF"), "DECLINE"), 10 * TicksPerSecond)

(* Mutant: the interface stays as it is. *)
BindLeavingDown(st) == SetState([st EXCEPT !.addr = st.offered], "BOUND")

Bind(st) == SetState([st EXCEPT !.addr = st.offered, !.up = 1], "BOUND")

GoDown(st) == [st EXCEPT !.up = 0, !.addr = NoAddr]

Release(st) ==
  LET r == CreateRequest([SetState(st, "OFF") EXCEPT !.offered = NoAddr], "RELEASE")
  IN  GoDown(Arm(r, TicksPerSecond))

HandleNak(st) == Discover(SetState(GoDown(st), "BACKING_OFF"))

(* dhcp_timeout *)
RequestTimeout(st) ==
  CASE st.state \in {"BACKING_OFF", "SELECTING"}     -> Discover(st)
    [] st.state = "REQUESTING" /\ st.tries <= 5      -> Select(st)
    [] st.state = "REQUESTING" /\ st.tries > 5       -> Discover(Release(st))
    [] st.state = "CHECKING" /\ st.tries <= 1        -> Check(st)
    [] st.state = "CHECKING" /\ st.tries > 1         -> Bind(st)

FineTimer(st) ==
  IF st.state = "NONE" \/ st.timeout = 0 THEN st
  ELSE IF st.timeout > 1 THEN [st EXCEPT !.timeout = @ - 1]
  ELSE RequestTimeout([st EXCEPT !.timeout = 0])

Start(st) ==
  Discover([st EXCEPT !.state = "OFF", !.tries = 0, !.timeout = 0])

Stop(st) ==
  [st EXCEPT !.state = "NONE", !.tries = 0, !.timeout = 0, !.offered = NoAddr]

-----------------------------------------------------------------------------
(* LwIP_DHCP_Process_Handle, after the fine timer of the same period.        *)

GivesUp(st) == st.tries > MAX_DHCP_TRIES

UseStatic(st) == [Stop(st) EXCEPT !.addr = Static]

FineTick ==
  /\ DHCP_state \notin Done
  /\ LET t == FineTimer(s) IN
       \/ /\ DHCP_state = "START"
          /\ s' = Start(t) /\ DHCP_state' = "WAIT_ADDRESS"
       \/ /\ DHCP_state = "WAIT_ADDRESS" /\ t.addr # NoAddr
          /\ s' = Stop(t) /\ DHCP_state' = "ADDRESS_ASSIGNED"
       \/ /\ DHCP_state = "WAIT_ADDRESS" /\ t.addr = NoAddr /\ GivesUp(t)
          /\ s' = UseStatic(t) /\ DHCP_state' = "TIMEOUT"
       \/ /\ DHCP_state = "WAIT_ADDRESS" /\ t.addr = NoAddr /\ ~GivesUp(t)
          /\ s' = t /\ UNCHANGED DHCP_state
  /\ UNCHANGED <<replies, refused, bare>>

-----------------------------------------------------------------------------
(* The network: a server answers any request it has seen, at any time, any   *)
(* number of times or never, so replies are lost, late, repeated, reordered. *)

Answers ==
  [type : {"OFFER"}, xid : {r.xid : r \in {q \in s.sent : q.type = "DISCOVER"}},
   addr : Addrs, server : BOOLEAN]
  \cup {[type |-> t, xid |-> r.xid, addr |-> r.addr, server |-> TRUE] :
          t \in {"ACK", "NAK"}, r \in {q \in s.sent : q.type = "REQUEST"}}

(* Mutant: any transaction identifier is accepted. *)
AcceptsAnyXid(m) == TRUE

Accepts(m) == m.xid = s.xid

(* An offer without the option that names the server is passed over.         *)
HandleOffer(st, m) == IF m.server THEN Select([st EXCEPT !.offered = m.addr]) ELSE st

(* dhcp_recv stops the timer, then calls the handler of the message.         *)
HandleReply(st, m) ==
  LET stopped == [st EXCEPT !.timeout = 0] IN
  CASE m.type = "OFFER" /\ st.state = "SELECTING"  -> HandleOffer(stopped, m)
    [] m.type = "ACK"   /\ st.state = "REQUESTING" ->
         Check([stopped EXCEPT !.offered = m.addr, !.lease = m.xid])
    [] m.type = "NAK"   /\ st.state = "REQUESTING" -> HandleNak(stopped)
    [] OTHER -> st

DhcpRecv ==
  /\ replies < MaxReplies
  /\ replies' = replies + 1
  /\ \E m \in Answers :
       /\ s' = IF s.state # "NONE" /\ Accepts(m) THEN HandleReply(s, m) ELSE s
       /\ refused' = IF m.type = "NAK" /\ m.xid = s.xid /\ s.state = "REQUESTING"
                     THEN refused \cup {m.xid} ELSE refused
       /\ bare' = IF /\ m.type = "OFFER" /\ ~m.server
                     /\ m.xid = s.xid /\ s.state = "SELECTING"
                  THEN bare \cup {m.xid} ELSE bare
  /\ UNCHANGED DHCP_state

(* dhcp_arp_reply: another host answers for the offered address. *)
ArpReply ==
  /\ replies < MaxReplies
  /\ s.state = "CHECKING"
  /\ replies' = replies + 1
  /\ s' = Decline(s)
  /\ refused' = refused \cup {s.lease}
  /\ UNCHANGED <<DHCP_state, bare>>

-----------------------------------------------------------------------------
(* netif_add with a cleared address, then netif_set_up, in LwIP_Init.        *)
(* lease is a history: the transaction whose ACK is being bound.             *)
Init ==
  /\ DHCP_state = "START"
  /\ s = [state |-> "NONE", tries |-> 0, timeout |-> 0, offered |-> NoAddr, xid |-> 0,
          up |-> 1, addr |-> NoAddr, sent |-> {}, lease |-> 0]
  /\ replies = 0 /\ refused = {} /\ bare = {}

Next == FineTick \/ DhcpRecv \/ ArpReply

Spec == Init /\ [][Next]_vars

(* The main loop keeps calling LwIP_Periodic_Handle and SysTick keeps        *)
(* counting; nothing is promised of the network.                             *)
FairSpec == Spec /\ WF_vars(FineTick)

-----------------------------------------------------------------------------
(* Properties *)

States == {"NONE", "OFF", "SELECTING", "REQUESTING", "CHECKING", "BACKING_OFF"}

(* Type invariant; in no step is a client left behind with more tries than   *)
(* LwIP_DHCP_Process_Handle allows, nor bound.                               *)
TypeOK ==
  /\ DHCP_state \in {"START", "WAIT_ADDRESS"} \cup Done
  /\ s.state \in States /\ s.tries \in 0..MAX_DHCP_TRIES
  /\ s.timeout \in Nat /\ s.xid \in Nat /\ s.lease \in 0..s.xid
  /\ s.up \in {0, 1}
  /\ s.offered \in Addrs \cup {NoAddr}
  /\ s.addr \in Addrs \cup {NoAddr, Static}
  /\ s.sent \subseteq [type : {"DISCOVER", "REQUEST", "DECLINE", "RELEASE"},
                       xid : 1..s.xid, addr : Addrs \cup {NoAddr}]
  /\ replies \in 0..MaxReplies /\ refused \subseteq 1..s.xid /\ bare \subseteq Nat

(* dhcp_recv stops the retransmission timer whatever it then does with a     *)
(* reply.  A client that waits is in a state dhcp_timeout acts on, and its   *)
(* timer was started again, but for one path: the transaction it is still    *)
(* selecting in got an offer that named no server.                           *)
RetryTimerArmed ==
  DHCP_state = "WAIT_ADDRESS" =>
    /\ s.state \notin {"NONE", "OFF"}
    /\ s.timeout = 0 => s.state = "SELECTING" /\ s.xid \in bare

(* The address taken from a server is never that of a transaction that was   *)
(* NAKed before it was acknowledged, or for which another host answered the  *)
(* ARP probe, however old the replies that arrive.                           *)
LeaseIsGood ==
  DHCP_state = "ADDRESS_ASSIGNED" => s.addr \in Addrs /\ s.lease \notin refused

(* A leased address is used on an interface that is up, even if an earlier   *)
(* NAK took it down.                                                         *)
LeasedIsUp == DHCP_state = "ADDRESS_ASSIGNED" => s.up = 1

(* netif.c says that enabling DHCP makes a down interface come up once       *)
(* configured.  It does not when a NAK took it down and the static address   *)
(* is configured afterwards: nothing calls netif_set_up then.                *)
ConfiguredIsUp == DHCP_state \in Done => s.up = 1

(* The client waits for an offer and has no timer that would ask again.      *)
Stalled == DHCP_state = "WAIT_ADDRESS" /\ s.state = "SELECTING" /\ s.timeout = 0

(* With finitely many replies the gateway ends up with an address, leased or *)
(* static, unless it waits for ever after an offer that named no server.     *)
AddressUnlessStalled == <>(DHCP_state \in Done /\ s.addr # NoAddr) \/ <>[]Stalled
=============================================================================

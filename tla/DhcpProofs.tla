----------------------------- MODULE DhcpProofs -----------------------------
(* Proofs about Dhcp, for every set of addresses and every number of         *)
(* replies, in any order and however late.                                   *)
EXTENDS Dhcp, TLAPS

Msgs == [type : {"DISCOVER", "REQUEST", "DECLINE", "RELEASE"}, xid : Nat,
         addr : Addrs \cup {NoAddr}]

(* The client in the middle of a step, too. *)
Clients ==
  [state : States \cup {"BOUND"}, tries : Nat, timeout : Nat,
   offered : Addrs \cup {NoAddr}, xid : Nat, up : {0, 1},
   addr : Addrs \cup {NoAddr, Static}, sent : SUBSET Msgs, lease : Nat]

(* What an operator leaves alone. *)
SameLease(a, b) == a.addr = b.addr /\ a.up = b.up /\ a.lease = b.lease

(* The requests that b has sent beyond those of a are of this type, with     *)
(* b's transaction and address.                                              *)
Sends(a, b, type) == b.sent = a.sent \cup {[type |-> type, xid |-> b.xid, addr |-> b.offered]}

LEMMA BackoffLasts ==
  ASSUME NEW st \in Clients
  PROVE  Backoff(st) \in Nat \ {0}
  BY DEF Backoff, TicksPerSecond, Clients

LEMMA SetStateSets ==
  ASSUME NEW st \in Clients, NEW new \in States \cup {"BOUND"}
  PROVE  /\ SetState(st, new) \in Clients
         /\ SetState(st, new) = [st EXCEPT !.state = new,
                                   !.tries = IF st.state = new THEN st.tries ELSE 0]
  BY DEF SetState, Clients

LEMMA CreateRequestSends ==
  ASSUME NEW st \in Clients, NEW type \in {"DISCOVER", "REQUEST", "DECLINE", "RELEASE"}
  PROVE  LET r == CreateRequest(st, type) IN
         /\ r \in Clients /\ SameLease(st, r) /\ Sends(st, r, type)
         /\ r.xid = IF st.tries = 0 THEN st.xid + 1 ELSE st.xid
         /\ r.state = st.state /\ r.tries = st.tries /\ r.timeout = st.timeout
         /\ r.offered = st.offered
  <1> DEFINE x == IF st.tries = 0 THEN st.xid + 1 ELSE st.xid
             msg == [type |-> type, xid |-> x, addr |-> st.offered]
  <1>1. x \in Nat /\ msg \in Msgs
    BY DEF Clients, Msgs
  <1>2. CreateRequest(st, type) = [st EXCEPT !.xid = x, !.sent = st.sent \cup {msg}]
    BY DEF CreateRequest, Clients
  <1>3. st.sent \cup {msg} \in SUBSET Msgs
    BY <1>1 DEF Clients
  <1> HIDE DEF x, msg
  <1>4. CreateRequest(st, type) \in Clients
    BY <1>1, <1>2, <1>3 DEF Clients
  <1>5. /\ CreateRequest(st, type).xid = x
        /\ CreateRequest(st, type).sent = st.sent \cup {msg}
        /\ CreateRequest(st, type).offered = st.offered
    BY <1>2 DEF Clients
  <1>6. Sends(st, CreateRequest(st, type), type)
    BY <1>5 DEF Sends, msg
  <1>7. QED
    BY <1>2, <1>4, <1>5, <1>6 DEF Clients, SameLease, x

(* b is a in state new, with a request of this type out and a retransmission *)
(* timer that runs: a new transaction, unless it is a further try.           *)
IsRequest(a, b, type, new) ==
  /\ b \in Clients /\ SameLease(a, b) /\ Sends(a, b, type)
  /\ b.state = new /\ b.timeout > 0
  /\ b.tries = (IF a.state = new THEN a.tries ELSE 0) + 1
  /\ b.xid = IF a.state = new /\ a.tries # 0 THEN a.xid ELSE a.xid + 1

LEMMA ArmArms ==
  ASSUME NEW st \in Clients, NEW ticks \in Nat
  PROVE  /\ Arm(st, ticks) \in Clients
         /\ Arm(st, ticks) = [st EXCEPT !.tries = st.tries + 1, !.timeout = ticks]
  <1>1. Arm(st, ticks) = [st EXCEPT !.tries = st.tries + 1, !.timeout = ticks]
    BY DEF Arm
  <1>2. st.tries + 1 \in Nat
    BY DEF Clients
  <1>3. [st EXCEPT !.tries = st.tries + 1, !.timeout = ticks] \in Clients
    BY <1>2 DEF Clients
  <1>4. QED
    BY <1>1, <1>3

LEMMA Requests ==
  ASSUME NEW st \in Clients, NEW new \in States,
         NEW type \in {"DISCOVER", "REQUEST", "DECLINE", "RELEASE"},
         NEW ticks \in Nat \ {0}
  PROVE  LET b == Arm(CreateRequest(SetState(st, new), type), ticks) IN
         IsRequest(st, b, type, new) /\ b.offered = st.offered
  <1> DEFINE u == SetState(st, new)
             r == CreateRequest(u, type)
             b == Arm(r, ticks)
  <1>1. /\ u \in Clients
        /\ u = [st EXCEPT !.state = new, !.tries = IF st.state = new THEN st.tries ELSE 0]
    BY SetStateSets
  <1> HIDE DEF u
  <1>2. /\ r \in Clients /\ SameLease(u, r) /\ Sends(u, r, type)
        /\ r.xid = IF u.tries = 0 THEN u.xid + 1 ELSE u.xid
        /\ r.state = u.state /\ r.tries = u.tries /\ r.offered = u.offered
    <2>1. u \in Clients
      BY ONLY <1>1
    <2> QED BY <2>1, CreateRequestSends
  <1> HIDE DEF r
  <1>3. b \in Clients /\ b = [r EXCEPT !.tries = r.tries + 1, !.timeout = ticks]
    BY <1>2, ArmArms
  <1> HIDE DEF b
  <1>4. /\ b.state = r.state /\ b.timeout = ticks /\ b.tries = r.tries + 1 /\ b.xid = r.xid
        /\ b.offered = r.offered /\ b.sent = r.sent
        /\ b.addr = r.addr /\ b.up = r.up /\ b.lease = r.lease
    BY <1>2, <1>3 DEF Clients
  <1>5. /\ u.state = new /\ u.tries = (IF st.state = new THEN st.tries ELSE 0)
        /\ u.xid = st.xid /\ u.offered = st.offered /\ u.sent = st.sent
        /\ u.addr = st.addr /\ u.up = st.up /\ u.lease = st.lease
    BY <1>1 DEF Clients
  <1>6. SameLease(st, b) /\ Sends(st, b, type)
    BY <1>2, <1>4, <1>5 DEF SameLease, Sends
  <1>7. IsRequest(st, b, type, new) /\ b.offered = st.offered
    BY <1>2, <1>3, <1>4, <1>5, <1>6 DEF IsRequest
  <1>8. QED
    BY <1>7 DEF b, r, u

LEMMA DiscoverRequests ==
  ASSUME NEW st \in Clients
  PROVE  IsRequest(st, Discover(st), "DISCOVER", "SELECTING")
  <1> DEFINE a == [st EXCEPT !.offered = NoAddr]
             r == CreateRequest(SetState(a, "SELECTING"), "DISCOVER")
             b == Arm(r, Backoff(r))
  <1>1. /\ a \in Clients /\ a.state = st.state /\ a.tries = st.tries /\ a.xid = st.xid
        /\ a.sent = st.sent /\ SameLease(st, a)
    BY DEF Clients, SameLease
  <1> HIDE DEF a
  <1>2. r \in Clients
    BY <1>1, SetStateSets, CreateRequestSends DEF States
  <1>3. Backoff(r) \in Nat \ {0}
    BY <1>2, BackoffLasts
  <1>4. IsRequest(a, b, "DISCOVER", "SELECTING")
    BY <1>1, <1>3, Requests DEF States
  <1> HIDE DEF b
  <1>5. IsRequest(st, b, "DISCOVER", "SELECTING")
    BY <1>1, <1>4 DEF IsRequest, SameLease, Sends
  <1>6. QED
    BY <1>5 DEF Discover, b, a

LEMMA SelectRequests ==
  ASSUME NEW st \in Clients
  PROVE  IsRequest(st, Select(st), "REQUEST", "REQUESTING") /\ Select(st).offered = st.offered
  <1> DEFINE r == CreateRequest(SetState(st, "REQUESTING"), "REQUEST")
  <1>1. r \in Clients
    BY SetStateSets, CreateRequestSends DEF States
  <1>2. Backoff(r) \in Nat \ {0}
    BY <1>1, BackoffLasts
  <1>3. QED
    BY <1>2, Requests DEF States, Select

LEMMA DeclineRequests ==
  ASSUME NEW st \in Clients
  PROVE  IsRequest(st, Decline(st), "DECLINE", "BACKING_OFF")
  BY Requests DEF States, Decline, TicksPerSecond

(* The probe of an offered address. *)
LEMMA CheckProbes ==
  ASSUME NEW st \in Clients
  PROVE  LET c == Check(st) IN
         /\ c \in Clients /\ SameLease(st, c) /\ c.state = "CHECKING" /\ c.timeout > 0
         /\ c.tries = (IF st.state = "CHECKING" THEN st.tries ELSE 0) + 1
         /\ c.xid = st.xid /\ c.sent = st.sent /\ c.offered = st.offered
  <1> DEFINE u == SetState(st, "CHECKING")
  <1>1. /\ u \in Clients
        /\ u = [st EXCEPT !.state = "CHECKING",
                          !.tries = IF st.state = "CHECKING" THEN st.tries ELSE 0]
    BY SetStateSets DEF States
  <1> HIDE DEF u
  <1>2. Arm(u, 1) \in Clients /\ Arm(u, 1) = [u EXCEPT !.tries = u.tries + 1, !.timeout = 1]
    BY <1>1, ArmArms
  <1>3. Check(st) = Arm(u, 1)
    BY DEF Check, u
  <1>4. /\ u.state = "CHECKING" /\ u.tries = (IF st.state = "CHECKING" THEN st.tries ELSE 0)
        /\ u.xid = st.xid /\ u.offered = st.offered /\ u.sent = st.sent
        /\ u.addr = st.addr /\ u.up = st.up /\ u.lease = st.lease
    BY <1>1 DEF Clients
  <1> DEFINE c == Arm(u, 1)
  <1>5. /\ c.state = u.state /\ c.tries = u.tries + 1 /\ c.timeout = 1
        /\ c.xid = u.xid /\ c.offered = u.offered /\ c.sent = u.sent
        /\ c.addr = u.addr /\ c.up = u.up /\ c.lease = u.lease
    BY <1>1, <1>2 DEF Clients
  <1> HIDE DEF c
  <1>6. SameLease(st, c) /\ c \in Clients
    BY <1>2, <1>4, <1>5 DEF SameLease, c
  <1>7. /\ c \in Clients /\ SameLease(st, c) /\ c.state = "CHECKING" /\ c.timeout > 0
        /\ c.tries = (IF st.state = "CHECKING" THEN st.tries ELSE 0) + 1
        /\ c.xid = st.xid /\ c.sent = st.sent /\ c.offered = st.offered
    BY <1>4, <1>5, <1>6
  <1>8. QED
    BY <1>3, <1>7 DEF c

-----------------------------------------------------------------------------
(* The invariant *)

(* Transactions are numbered from 1; a request names the address it is for.  *)
Known(st, ref) ==
  /\ ref \subseteq 1..st.xid /\ st.lease \in 0..st.xid
  /\ \A m \in st.sent : m.xid \in 1..st.xid /\ (m.type = "REQUEST" => m.addr \in Addrs)

(* What was offered is asked for, and probed, in a transaction that nobody   *)
(* has refused; the probe follows the ACK of that transaction.               *)
Deal(st, ref) ==
  /\ st.state \in {"REQUESTING", "CHECKING"} => st.offered \in Addrs /\ st.xid \notin ref
  /\ st.state = "CHECKING" => st.lease = st.xid

(* A client at work, in the middle of a step too. *)
Busy(st, ref) ==
  /\ st \in Clients /\ st.state \in {"SELECTING", "REQUESTING", "CHECKING", "BACKING_OFF"}
  /\ st.addr = NoAddr /\ st.xid # 0 /\ Known(st, ref) /\ Deal(st, ref)

Waiting(st, ref) == Busy(st, ref) /\ st.timeout > 0

(* Between two steps: the timer may be stopped, but only after an offer that *)
(* named no server, in the transaction that the client still selects in.     *)
Pending(st, ref, silent) ==
  Busy(st, ref) /\ (st.timeout = 0 => st.state = "SELECTING" /\ st.xid \in silent)

(* Good hands for the address. *)
Leased(st, ref) == st.addr \in Addrs /\ st.lease \notin ref /\ st.up = 1

Bound(st, ref) == st \in Clients /\ Known(st, ref) /\ Leased(st, ref)

IInv ==
  /\ DHCP_state \in {"START", "WAIT_ADDRESS"} \cup Done
  /\ s \in Clients /\ Known(s, refused) /\ replies \in 0..MaxReplies
  /\ DHCP_state = "START" => s.state = "NONE" /\ s.addr = NoAddr /\ s.tries = 0
  /\ bare \subseteq Nat
  /\ DHCP_state = "WAIT_ADDRESS" => Pending(s, refused, bare) /\ s.tries <= MAX_DHCP_TRIES
  /\ DHCP_state \in Done => s.state = "NONE" /\ s.tries = 0
  /\ DHCP_state = "ADDRESS_ASSIGNED" => Leased(s, refused)

(* A request of a client keeps what is known of the transactions, and with   *)
(* the first one of a state comes a transaction that nobody has refused.     *)
Ready(a, ref, type, new) ==
  /\ a \in Clients /\ Known(a, ref) /\ a.addr = NoAddr
  /\ a.xid # 0 \/ a.state # new
  /\ type = "REQUEST" => a.offered \in Addrs

LEMMA RequestKnown ==
  ASSUME NEW a, NEW b, NEW ref, NEW type, NEW new,
         Ready(a, ref, type, new), IsRequest(a, b, type, new),
         type = "REQUEST" => b.offered = a.offered
  PROVE  /\ b.xid \in Nat \ {0} /\ a.xid <= b.xid /\ Known(b, ref) /\ b.addr = NoAddr
         /\ a.state # new \/ a.tries = 0 => b.xid = a.xid + 1
         /\ a.state = new /\ a.tries # 0 => b.xid = a.xid
  <1> DEFINE msg == [type |-> type, xid |-> b.xid, addr |-> b.offered]
  <1>1. /\ a.xid \in Nat /\ b.xid \in Nat /\ b.lease = a.lease /\ b.addr = a.addr
        /\ b.sent = a.sent \cup {msg}
        /\ b.xid = IF a.state = new /\ a.tries # 0 THEN a.xid ELSE a.xid + 1
    BY DEF Ready, IsRequest, Sends, SameLease, Clients
  <1>2. b.xid # 0 /\ a.xid <= b.xid
    BY <1>1 DEF Ready
  <1>3. ref \subseteq 1..b.xid /\ b.lease \in 0..b.xid
    BY <1>1, <1>2 DEF Ready, Known
  <1>4. ASSUME NEW m \in b.sent
        PROVE  m.xid \in 1..b.xid /\ (m.type = "REQUEST" => m.addr \in Addrs)
    <2>1. CASE m \in a.sent
      BY <1>1, <1>2, <2>1 DEF Ready, Known
    <2>2. CASE m = msg
      BY <1>1, <1>2, <2>2 DEF Ready
    <2>3. QED
      BY <1>1, <2>1, <2>2
  <1>5. QED
    BY <1>1, <1>2, <1>3, <1>4 DEF Known, Ready

LEMMA DiscoverWaits ==
  ASSUME NEW a, NEW ref, Ready(a, ref, "DISCOVER", "SELECTING")
  PROVE  Waiting(Discover(a), ref)
  <1>1. a \in Clients
    BY DEF Ready
  <1>2. IsRequest(a, Discover(a), "DISCOVER", "SELECTING")
    BY <1>1, DiscoverRequests
  <1>3. /\ Discover(a).xid \in Nat \ {0} /\ Known(Discover(a), ref)
        /\ Discover(a).addr = NoAddr
    BY <1>2, RequestKnown
  <1>4. QED
    BY <1>2, <1>3 DEF Waiting, Busy, Deal, IsRequest

LEMMA SelectWaits ==
  ASSUME NEW a, NEW ref, Ready(a, ref, "REQUEST", "REQUESTING"),
         a.state = "REQUESTING" => a.xid \notin ref
  PROVE  Waiting(Select(a), ref)
  <1>1. a \in Clients
    BY DEF Ready
  <1>2. IsRequest(a, Select(a), "REQUEST", "REQUESTING") /\ Select(a).offered = a.offered
    BY <1>1, SelectRequests
  <1> DEFINE b == Select(a)
  <1>3. /\ b.xid \in Nat \ {0} /\ Known(b, ref) /\ b.addr = NoAddr
        /\ a.state # "REQUESTING" \/ a.tries = 0 => b.xid = a.xid + 1
        /\ a.state = "REQUESTING" /\ a.tries # 0 => b.xid = a.xid
    BY <1>2, RequestKnown
  <1>4. b.state = "REQUESTING" /\ b.timeout > 0 /\ b \in Clients
    BY <1>2 DEF IsRequest
  <1>5. a.xid + 1 \notin ref
    BY DEF Ready, Known, Clients
  <1>6. b.xid \notin ref
    BY <1>3, <1>5
  <1>7. b.offered \in Addrs
    BY <1>2 DEF Ready
  <1> HIDE DEF b
  <1>8. Waiting(b, ref)
    BY <1>3, <1>4, <1>6, <1>7 DEF Waiting, Busy, Deal
  <1>9. QED
    BY <1>8 DEF b

LEMMA CheckWaits ==
  ASSUME NEW a, NEW ref, a \in Clients, Known(a, ref), a.addr = NoAddr, a.xid # 0,
         a.offered \in Addrs, a.xid \notin ref, a.lease = a.xid
  PROVE  Waiting(Check(a), ref)
  <1> DEFINE b == Check(a)
  <1>1. /\ b \in Clients /\ SameLease(a, b) /\ b.state = "CHECKING" /\ b.timeout > 0
        /\ b.xid = a.xid /\ b.sent = a.sent /\ b.offered = a.offered
    BY CheckProbes
  <1> HIDE DEF b
  <1>2. Known(b, ref)
    BY <1>1 DEF Known, SameLease
  <1>3. Waiting(b, ref)
    BY <1>1, <1>2 DEF Waiting, Busy, Deal, SameLease
  <1>4. QED
    BY <1>3 DEF b

(* The refused transaction is over: the next request numbers a new one. *)
LEMMA RefusedKnown ==
  ASSUME NEW a, NEW ref, a \in Clients, Known(a, ref), a.xid # 0
  PROVE  Known(a, ref \cup {a.xid})
  <1>1. a.xid \in Nat
    BY DEF Clients
  <1>2. a.xid \in 1..a.xid
    BY <1>1
  <1>3. QED
    BY <1>2 DEF Known

LEMMA DeclineWaits ==
  ASSUME NEW a, NEW ref, Busy(a, ref), a.state = "CHECKING"
  PROVE  Waiting(Decline(a), ref \cup {a.lease})
  <1> DEFINE b == Decline(a)
             new == ref \cup {a.lease}
  <1>1. a \in Clients /\ a.lease = a.xid
    BY DEF Busy, Deal
  <1>2. Ready(a, new, "DECLINE", "BACKING_OFF")
    BY <1>1, RefusedKnown DEF Ready, Busy
  <1>3. IsRequest(a, b, "DECLINE", "BACKING_OFF")
    BY <1>1, DeclineRequests
  <1> HIDE DEF b, new
  <1>4. b.xid \in Nat \ {0} /\ Known(b, new) /\ b.addr = NoAddr
    BY <1>2, <1>3, RequestKnown
  <1>5. Waiting(b, new)
    BY <1>3, <1>4 DEF Waiting, Busy, Deal, IsRequest
  <1>6. QED
    BY <1>5 DEF b, new

LEMMA NakWaits ==
  ASSUME NEW a, NEW ref, Busy(a, ref)
  PROVE  Waiting(HandleNak(a), ref \cup {a.xid}) /\ HandleNak(a).tries = 1
  <1> DEFINE new == ref \cup {a.xid}
             g == GoDown(a)
             u == SetState(g, "BACKING_OFF")
             b == Discover(u)
  <1>1. /\ g \in Clients /\ g.addr = NoAddr /\ g.xid = a.xid /\ g.sent = a.sent
        /\ g.lease = a.lease
    BY DEF GoDown, Clients, Busy
  <1> HIDE DEF g
  <1>2. /\ u \in Clients
        /\ u = [g EXCEPT !.state = "BACKING_OFF",
                         !.tries = IF g.state = "BACKING_OFF" THEN g.tries ELSE 0]
    BY <1>1, SetStateSets DEF States
  <1> HIDE DEF u
  <1>3. /\ u.addr = NoAddr /\ u.xid = a.xid /\ u.sent = a.sent /\ u.lease = a.lease
        /\ u.state = "BACKING_OFF"
    BY <1>1, <1>2 DEF Clients
  <1>4. Known(a, new) /\ a.xid # 0
    BY RefusedKnown DEF Busy
  <1> HIDE DEF new
  <1>5. Known(u, new)
    BY <1>3, <1>4 DEF Known
  <1>6. Ready(u, new, "DISCOVER", "SELECTING")
    BY <1>2, <1>3, <1>4, <1>5 DEF Ready
  <1>7. Waiting(b, new)
    BY <1>6, DiscoverWaits
  <1>8. IsRequest(u, b, "DISCOVER", "SELECTING")
    BY <1>2, DiscoverRequests
  <1>9. b.tries = 1
    BY <1>3, <1>8 DEF IsRequest
  <1>10. QED
    BY <1>7, <1>9 DEF HandleNak, b, u, g, new

LEMMA BindBinds ==
  ASSUME NEW a, NEW ref, Busy(a, ref), a.state = "CHECKING"
  PROVE  Bound(Bind(a), ref)
  <1> DEFINE o == [a EXCEPT !.addr = a.offered, !.up = 1]
             b == SetState(o, "BOUND")
  <1>1. a \in Clients /\ a.offered \in Addrs /\ a.lease \notin ref
    BY DEF Busy, Deal
  <1>2. /\ o \in Clients /\ o.addr = a.offered /\ o.up = 1 /\ o.lease = a.lease
        /\ o.sent = a.sent /\ o.xid = a.xid
    BY <1>1 DEF Clients
  <1> HIDE DEF o
  <1>3. /\ b \in Clients
        /\ b = [o EXCEPT !.state = "BOUND", !.tries = IF o.state = "BOUND" THEN o.tries ELSE 0]
    BY <1>2, SetStateSets
  <1> HIDE DEF b
  <1>4. /\ b.addr = a.offered /\ b.up = 1 /\ b.lease = a.lease
        /\ b.sent = a.sent /\ b.xid = a.xid
    BY <1>2, <1>3 DEF Clients
  <1>5. Known(b, ref)
    BY <1>4 DEF Known, Busy
  <1>6. Bound(b, ref)
    BY <1>1, <1>3, <1>4, <1>5 DEF Bound, Leased
  <1>7. QED
    BY <1>6 DEF Bind, b, o

-----------------------------------------------------------------------------
(* The steps *)

(* The client that runs out of patience, within the tries allowed. *)
LEMMA TimeoutActs ==
  ASSUME NEW a, NEW ref, Busy(a, ref), a.tries <= MAX_DHCP_TRIES
  PROVE  LET t == RequestTimeout(a) IN
         (Waiting(t, ref) /\ t.tries <= MAX_DHCP_TRIES + 1) \/ Bound(t, ref)
  <1>1. a \in Clients /\ a.tries \in Nat /\ a.tries <= 4
    BY DEF Busy, Clients, MAX_DHCP_TRIES
  <1>2. CASE a.state \in {"BACKING_OFF", "SELECTING"}
    <2>1. RequestTimeout(a) = Discover(a)
      BY <1>2 DEF RequestTimeout
    <2>2. Ready(a, ref, "DISCOVER", "SELECTING")
      BY <1>1 DEF Ready, Busy
    <2>3. Waiting(Discover(a), ref)
      BY <2>2, DiscoverWaits
    <2>4. Discover(a).tries <= 5
      BY <1>1, DiscoverRequests DEF IsRequest
    <2>5. QED
      BY <2>1, <2>3, <2>4 DEF MAX_DHCP_TRIES
  <1>3. CASE a.state = "REQUESTING"
    <2>1. RequestTimeout(a) = Select(a)
      BY <1>1, <1>3 DEF RequestTimeout
    <2>2. Ready(a, ref, "REQUEST", "REQUESTING") /\ a.xid \notin ref
      BY <1>1, <1>3 DEF Ready, Busy, Deal
    <2>3. Waiting(Select(a), ref)
      BY <2>2, SelectWaits
    <2>4. Select(a).tries <= 5
      BY <1>1, SelectRequests DEF IsRequest
    <2>5. QED
      BY <2>1, <2>3, <2>4 DEF MAX_DHCP_TRIES
  <1>4. CASE a.state = "CHECKING" /\ a.tries <= 1
    <2>1. RequestTimeout(a) = Check(a)
      BY <1>1, <1>4 DEF RequestTimeout
    <2>2. Waiting(Check(a), ref)
      BY <1>1, <1>4, CheckWaits DEF Busy, Deal
    <2>3. Check(a).tries <= 5
      BY <1>1, CheckProbes
    <2>4. QED
      BY <2>1, <2>2, <2>3 DEF MAX_DHCP_TRIES
  <1>5. CASE a.state = "CHECKING" /\ ~(a.tries <= 1)
    <2>1. RequestTimeout(a) = Bind(a)
      BY <1>1, <1>5 DEF RequestTimeout
    <2>2. QED
      BY <1>5, <2>1, BindBinds
  <1>6. QED
    BY <1>2, <1>3, <1>4, <1>5 DEF Busy

LEMMA FineTimerActs ==
  ASSUME NEW a, NEW ref, NEW silent, Pending(a, ref, silent), a.tries <= MAX_DHCP_TRIES
  PROVE  LET t == FineTimer(a) IN
         (Pending(t, ref, silent) /\ t.tries <= MAX_DHCP_TRIES + 1) \/ Bound(t, ref)
  <1>1. /\ a \in Clients /\ a.timeout \in Nat /\ a.tries \in Nat /\ a.state # "NONE"
        /\ Busy(a, ref)
    BY DEF Pending, Busy, Clients
  <1>2. CASE a.timeout > 1
    <2> DEFINE t == [a EXCEPT !.timeout = a.timeout - 1]
    <2>1. FineTimer(a) = t
      BY <1>1, <1>2 DEF FineTimer
    <2>2. /\ t \in Clients /\ t.state = a.state /\ t.addr = a.addr /\ t.xid = a.xid
          /\ t.sent = a.sent /\ t.lease = a.lease /\ t.offered = a.offered
          /\ t.tries = a.tries /\ t.timeout > 0
      BY <1>1, <1>2 DEF Clients
    <2> HIDE DEF t
    <2>3. Known(t, ref) /\ Deal(t, ref)
      BY <1>1, <2>2 DEF Busy, Known, Deal
    <2>4. Pending(t, ref, silent)
      BY <1>1, <2>2, <2>3 DEF Pending, Busy
    <2>5. t.tries <= MAX_DHCP_TRIES + 1
      BY <1>1, <2>2 DEF MAX_DHCP_TRIES
    <2>6. QED
      BY <2>1, <2>4, <2>5
  <1>3. CASE a.timeout = 1
    <2> DEFINE z == [a EXCEPT !.timeout = 0]
    <2>1. FineTimer(a) = RequestTimeout(z)
      BY <1>1, <1>3 DEF FineTimer
    <2>2. /\ z \in Clients /\ z.state = a.state /\ z.addr = a.addr /\ z.xid = a.xid
          /\ z.sent = a.sent /\ z.lease = a.lease /\ z.offered = a.offered
          /\ z.tries = a.tries
      BY <1>1 DEF Clients
    <2> HIDE DEF z
    <2>3. Known(z, ref) /\ Deal(z, ref)
      BY <1>1, <2>2 DEF Busy, Known, Deal
    <2>4. Busy(z, ref)
      BY <1>1, <2>2, <2>3 DEF Busy
    <2>5. QED
      BY <2>1, <2>2, <2>4, TimeoutActs DEF Pending, Waiting
  <1>4. CASE a.timeout = 0
    <2>1. FineTimer(a) = a
      BY <1>4 DEF FineTimer
    <2>2. a.tries <= MAX_DHCP_TRIES + 1
      BY <1>1 DEF MAX_DHCP_TRIES
    <2>3. QED
      BY <2>1, <2>2
  <1>5. QED
    BY <1>1, <1>2, <1>3, <1>4

LEMMA StoppedSleeps ==
  ASSUME NEW a, a.state = "NONE"
  PROVE  FineTimer(a) = a
  BY DEF FineTimer

(* The end of the client: stopped, with what is known of its requests. *)
LEMMA StopStops ==
  ASSUME NEW a, NEW ref, a \in Clients, Known(a, ref)
  PROVE  /\ Stop(a) \in Clients /\ Known(Stop(a), ref) /\ SameLease(a, Stop(a))
         /\ Stop(a).state = "NONE" /\ Stop(a).tries = 0
  <1> DEFINE b == Stop(a)
  <1>1. /\ b \in Clients /\ b.state = "NONE" /\ b.tries = 0 /\ b.xid = a.xid
        /\ b.sent = a.sent /\ b.lease = a.lease /\ b.addr = a.addr /\ b.up = a.up
    BY DEF Stop, Clients, States
  <1> HIDE DEF b
  <1>2. Known(b, ref) /\ SameLease(a, b)
    BY <1>1 DEF Known, SameLease
  <1>3. QED
    BY <1>1, <1>2 DEF b

LEMMA StaticStops ==
  ASSUME NEW a, NEW ref, a \in Clients, Known(a, ref)
  PROVE  /\ UseStatic(a) \in Clients /\ Known(UseStatic(a), ref)
         /\ UseStatic(a).state = "NONE" /\ UseStatic(a).tries = 0
  <1> DEFINE u == Stop(a)
             b == [u EXCEPT !.addr = Static]
  <1>1. u \in Clients /\ Known(u, ref) /\ u.state = "NONE" /\ u.tries = 0
    BY StopStops
  <1> HIDE DEF u
  <1>2. /\ b \in Clients /\ b.state = "NONE" /\ b.tries = 0 /\ b.xid = u.xid
        /\ b.sent = u.sent /\ b.lease = u.lease
    BY <1>1 DEF Clients
  <1> HIDE DEF b
  <1>3. Known(b, ref)
    BY <1>1, <1>2 DEF Known
  <1>4. QED
    BY <1>2, <1>3 DEF UseStatic, b, u

LEMMA StartWaits ==
  ASSUME NEW a, NEW ref, a \in Clients, Known(a, ref), a.addr = NoAddr
  PROVE  Waiting(Start(a), ref) /\ Start(a).tries = 1
  <1> DEFINE o == [a EXCEPT !.state = "OFF", !.tries = 0, !.timeout = 0]
             b == Discover(o)
  <1>1. /\ o \in Clients /\ o.state = "OFF" /\ o.xid = a.xid /\ o.sent = a.sent
        /\ o.lease = a.lease /\ o.addr = a.addr
    BY DEF Clients, States
  <1> HIDE DEF o
  <1>2. Known(o, ref)
    BY <1>1 DEF Known
  <1>3. Ready(o, ref, "DISCOVER", "SELECTING")
    BY <1>1, <1>2 DEF Ready
  <1>4. Waiting(b, ref) /\ IsRequest(o, b, "DISCOVER", "SELECTING")
    BY <1>1, <1>3, DiscoverWaits, DiscoverRequests
  <1>5. b.tries = 1
    BY <1>1, <1>4 DEF IsRequest
  <1>6. QED
    BY <1>4, <1>5 DEF Start, b, o

LEMMA InitHolds == Init => IInv
  <1> SUFFICES ASSUME Init PROVE IInv
    OBVIOUS
  <1>1. s \in Clients
    BY DEF Init, Clients, States, Msgs
  <1>2. Known(s, refused)
    BY DEF Init, Known
  <1>3. QED
    BY <1>1, <1>2, RepliesAssumption DEF Init, IInv, Done

LEMMA TickKeeps ==
  ASSUME IInv, FineTick
  PROVE  IInv'
  <1> DEFINE t == FineTimer(s)
  <1>1. /\ s \in Clients /\ Known(s, refused) /\ replies \in 0..MaxReplies
        /\ bare \subseteq Nat
        /\ UNCHANGED <<replies, refused, bare>> /\ DHCP_state \in {"START", "WAIT_ADDRESS"}
    BY DEF IInv, FineTick
  <1>2. CASE DHCP_state = "START"
    <2>1. s.state = "NONE" /\ s.addr = NoAddr
      BY <1>2 DEF IInv
    <2>2. t = s
      BY <1>1, <2>1, StoppedSleeps
    <2>3. s' = Start(s) /\ DHCP_state' = "WAIT_ADDRESS"
      BY <1>2, <2>2 DEF FineTick
    <2>4. Waiting(s', refused') /\ s'.tries = 1
      BY <1>1, <2>1, <2>3, StartWaits
    <2>5. s' \in Clients /\ Known(s', refused') /\ Pending(s', refused', bare')
      BY <2>4 DEF Waiting, Pending, Busy
    <2>6. QED
      BY <1>1, <2>3, <2>4, <2>5 DEF IInv, Done, MAX_DHCP_TRIES
  <1>3. CASE DHCP_state = "WAIT_ADDRESS"
    <2>1. Pending(s, refused, bare) /\ s.tries <= MAX_DHCP_TRIES
      BY <1>3 DEF IInv
    <2>2. (Pending(t, refused, bare) /\ t.tries <= MAX_DHCP_TRIES + 1) \/ Bound(t, refused)
      BY <2>1, FineTimerActs
    <2> HIDE DEF t
    <2>3. /\ t \in Clients /\ Known(t, refused)
          /\ t.addr # NoAddr => Leased(t, refused)
          /\ t.addr = NoAddr => Pending(t, refused, bare)
      BY <2>2, AddrsAssumption DEF Pending, Busy, Bound, Leased
    <2>4. CASE t.addr # NoAddr /\ s' = Stop(t) /\ DHCP_state' = "ADDRESS_ASSIGNED"
      <3>1. /\ s' \in Clients /\ Known(s', refused') /\ SameLease(t, s')
            /\ s'.state = "NONE" /\ s'.tries = 0
        BY <1>1, <2>3, <2>4, StopStops
      <3>2. Leased(s', refused')
        BY <1>1, <2>3, <2>4, <3>1 DEF Leased, SameLease
      <3>3. QED
        BY <1>1, <2>4, <3>1, <3>2 DEF IInv, Done
    <2>5. CASE t.addr = NoAddr /\ s' = UseStatic(t) /\ DHCP_state' = "TIMEOUT"
      <3>1. /\ s' \in Clients /\ Known(s', refused') /\ s'.state = "NONE" /\ s'.tries = 0
        BY <1>1, <2>3, <2>5, StaticStops
      <3>2. QED
        BY <1>1, <2>5, <3>1 DEF IInv, Done
    <2>6. CASE t.addr = NoAddr /\ ~GivesUp(t) /\ s' = t /\ UNCHANGED DHCP_state
      <3>1. Pending(s', refused', bare') /\ s' \in Clients /\ Known(s', refused')
        BY <1>1, <2>3, <2>6
      <3>2. s'.tries <= MAX_DHCP_TRIES
        BY <2>3, <2>6 DEF GivesUp, Clients, MAX_DHCP_TRIES
      <3>3. QED
        BY <1>1, <1>3, <2>6, <3>1, <3>2 DEF IInv, Done
    <2>7. QED
      BY <1>3, <2>4, <2>5, <2>6 DEF FineTick, t
  <1>4. QED
    BY <1>1, <1>2, <1>3

LEMMA RecvKeeps ==
  ASSUME IInv, DhcpRecv
  PROVE  IInv'
  <1>1. /\ s \in Clients /\ Known(s, refused) /\ replies \in 0..MaxReplies
        /\ bare \subseteq Nat
        /\ UNCHANGED DHCP_state /\ replies' \in 0..MaxReplies
    BY RepliesAssumption DEF IInv, DhcpRecv
  <1>2. CASE UNCHANGED <<s, refused, bare>>
    BY <1>1, <1>2 DEF IInv, Pending, Busy, Deal, Known, Leased
  <1>3. CASE ~UNCHANGED <<s, refused, bare>>
    <2>1. PICK m \in Answers :
             /\ s' = IF s.state # "NONE" /\ Accepts(m) THEN HandleReply(s, m) ELSE s
             /\ refused' = IF m.type = "NAK" /\ m.xid = s.xid /\ s.state = "REQUESTING"
                           THEN refused \cup {m.xid} ELSE refused
             /\ bare' = IF /\ m.type = "OFFER" /\ ~m.server
                           /\ m.xid = s.xid /\ s.state = "SELECTING"
                        THEN bare \cup {m.xid} ELSE bare
      BY DEF DhcpRecv
    <2>2. s.state # "NONE" /\ m.xid = s.xid /\ s' = HandleReply(s, m)
      BY <1>3, <2>1 DEF Accepts
    <2>3. DHCP_state = "WAIT_ADDRESS" /\ Busy(s, refused)
      BY <2>2 DEF IInv, Pending
    <2>4. m.addr \in Addrs /\ m.type \in {"OFFER", "ACK", "NAK"}
      BY <1>1, <2>1 DEF Answers, Known
    <2>5. s.tries \in Nat /\ s.tries <= 4 /\ s.xid \in Nat
      BY <1>1, <2>3 DEF IInv, MAX_DHCP_TRIES, Clients
    <2> DEFINE z == [s EXCEPT !.timeout = 0]
    <2>6. /\ z \in Clients /\ z.state = s.state /\ z.addr = s.addr /\ z.xid = s.xid
          /\ z.sent = s.sent /\ z.lease = s.lease /\ z.offered = s.offered
          /\ z.tries = s.tries /\ z.timeout = 0
      BY <1>1 DEF Clients
    <2> HIDE DEF z
    <2>7. Busy(z, refused)
      BY <2>3, <2>6 DEF Busy, Known, Deal
    <2>8. Pending(s', refused', bare') /\ s'.tries <= MAX_DHCP_TRIES
      <3>1. CASE m.type = "OFFER" /\ s.state = "SELECTING" /\ m.server
        <4> DEFINE o == [z EXCEPT !.offered = m.addr]
        <4>1. s' = Select(o) /\ refused' = refused
          BY <2>1, <2>2, <3>1 DEF HandleReply, HandleOffer, z
        <4>2. /\ o \in Clients /\ o.offered = m.addr /\ o.xid = s.xid /\ o.addr = s.addr
              /\ o.sent = s.sent /\ o.lease = s.lease /\ o.state = "SELECTING"
          BY <2>4, <2>6, <3>1 DEF Clients
        <4> HIDE DEF o
        <4>3. Known(o, refused)
          BY <1>1, <4>2 DEF Known
        <4>4. Ready(o, refused, "REQUEST", "REQUESTING")
          BY <2>3, <2>4, <4>2, <4>3 DEF Ready, Busy
        <4>5. Waiting(Select(o), refused)
          BY <4>2, <4>4, SelectWaits
        <4>6. Select(o).tries = 1
          BY <4>2, SelectRequests DEF IsRequest
        <4>7. QED
          BY <4>1, <4>5, <4>6 DEF MAX_DHCP_TRIES, Waiting, Pending
      <3>2. CASE m.type = "OFFER" /\ s.state = "SELECTING" /\ ~m.server
        <4>1. s' = z /\ refused' = refused /\ s.xid \in bare'
          BY <2>1, <2>2, <3>2 DEF HandleReply, HandleOffer, z
        <4>2. QED
          BY <2>5, <2>6, <2>7, <3>2, <4>1 DEF Pending, MAX_DHCP_TRIES
      <3>3. CASE m.type = "ACK" /\ s.state = "REQUESTING"
        <4> DEFINE o == [z EXCEPT !.offered = m.addr, !.lease = m.xid]
        <4>1. s' = Check(o) /\ refused' = refused
          BY <2>1, <2>2, <3>3 DEF HandleReply, z
        <4>2. /\ o \in Clients /\ o.offered = m.addr /\ o.xid = s.xid /\ o.addr = s.addr
              /\ o.sent = s.sent /\ o.lease = s.xid /\ o.state = "REQUESTING"
          BY <2>2, <2>4, <2>5, <2>6, <3>3 DEF Clients
        <4> HIDE DEF o
        <4>3. Known(o, refused)
          BY <1>1, <2>5, <4>2 DEF Known
        <4>4. o.xid \notin refused /\ o.xid # 0 /\ o.addr = NoAddr
          BY <2>3, <3>3, <4>2 DEF Busy, Deal
        <4>5. Waiting(Check(o), refused)
          BY <2>4, <4>2, <4>3, <4>4, CheckWaits
        <4>6. Check(o).tries = 1
          BY <4>2, CheckProbes
        <4>7. QED
          BY <4>1, <4>5, <4>6 DEF MAX_DHCP_TRIES, Waiting, Pending
      <3>4. CASE m.type = "NAK" /\ s.state = "REQUESTING"
        <4>1. s' = HandleNak(z) /\ refused' = refused \cup {z.xid}
          BY <2>1, <2>2, <2>6, <3>4 DEF HandleReply, z
        <4>2. Waiting(HandleNak(z), refused \cup {z.xid}) /\ HandleNak(z).tries = 1
          BY <2>7, NakWaits
        <4>3. QED
          BY <4>1, <4>2 DEF MAX_DHCP_TRIES, Waiting, Pending
      <3>5. CASE /\ ~(m.type = "OFFER" /\ s.state = "SELECTING")
                 /\ ~(m.type = "ACK" /\ s.state = "REQUESTING")
                 /\ ~(m.type = "NAK" /\ s.state = "REQUESTING")
        <4>1. s' = s /\ refused' = refused /\ bare' = bare
          BY <2>1, <2>2, <3>5 DEF HandleReply
        <4>2. QED
          BY <1>3, <4>1
      <3>6. QED
        BY <2>4, <3>1, <3>2, <3>3, <3>4, <3>5
    <2>9. s' \in Clients /\ Known(s', refused')
      BY <2>8 DEF Pending, Busy
    <2>10. bare' \subseteq Nat
      BY <1>1, <2>1, <2>2, <2>5
    <2>11. QED
      BY <1>1, <2>3, <2>8, <2>9, <2>10 DEF IInv, Done
  <1>4. QED
    BY <1>2, <1>3

LEMMA ArpKeeps ==
  ASSUME IInv, ArpReply
  PROVE  IInv'
  <1>1. /\ s \in Clients /\ Known(s, refused) /\ s.state = "CHECKING"
        /\ UNCHANGED <<DHCP_state, bare>> /\ replies' \in 0..MaxReplies
        /\ bare \subseteq Nat
        /\ s' = Decline(s) /\ refused' = refused \cup {s.lease}
    BY RepliesAssumption DEF IInv, ArpReply
  <1>2. DHCP_state = "WAIT_ADDRESS" /\ Busy(s, refused)
    BY <1>1 DEF IInv, Pending
  <1>3. Waiting(s', refused')
    BY <1>1, <1>2, DeclineWaits
  <1>4. s'.tries <= 4
    BY <1>1, DeclineRequests DEF IsRequest
  <1>5. s' \in Clients /\ Known(s', refused') /\ Pending(s', refused', bare')
    BY <1>3 DEF Waiting, Pending, Busy
  <1>6. QED
    BY <1>1, <1>2, <1>3, <1>4, <1>5 DEF IInv, Done, MAX_DHCP_TRIES

(* A client that waits has a transaction of its own, asked for what was      *)
(* offered in it, and counts at most the tries that the driver allows; an    *)
(* address was acknowledged in a transaction that nobody has refused.        *)
THEOREM ClientCorrect == Spec => []IInv
  <1>1. IInv /\ [Next]_vars => IInv'
    <2> SUFFICES ASSUME IInv, [Next]_vars PROVE IInv'
      OBVIOUS
    <2>1. CASE UNCHANGED vars
      BY <2>1 DEF vars, IInv, Pending, Busy, Deal, Known, Leased
    <2>2. QED
      BY <2>1, TickKeeps, RecvKeeps, ArpKeeps DEF Next
  <1>2. QED
    BY <1>1, InitHolds, PTL DEF Spec

(* Every variable keeps its type, and no step leaves a client behind with    *)
(* more tries than LwIP_DHCP_Process_Handle allows, nor one that is bound.   *)
THEOREM TypeCorrect == Spec => []TypeOK
  <1>1. IInv => TypeOK
    <2> SUFFICES ASSUME IInv PROVE TypeOK
      OBVIOUS
    <2>1. s.state \in States
      BY DEF IInv, Pending, Busy, States, Done
    <2>2. s.tries \in 0..MAX_DHCP_TRIES
      BY DEF IInv, MAX_DHCP_TRIES, Clients
    <2>3. s.sent \subseteq [type : {"DISCOVER", "REQUEST", "DECLINE", "RELEASE"},
                            xid : 1..s.xid, addr : Addrs \cup {NoAddr}]
      BY DEF IInv, Clients, Msgs, Known
    <2>4. /\ s.timeout \in Nat /\ s.xid \in Nat /\ s.up \in {0, 1}
          /\ s.offered \in Addrs \cup {NoAddr} /\ s.addr \in Addrs \cup {NoAddr, Static}
      BY DEF IInv, Clients
    <2>5. s.lease \in 0..s.xid /\ refused \subseteq 1..s.xid
      BY DEF IInv, Known
    <2>6. QED
      BY <2>1, <2>2, <2>3, <2>4, <2>5 DEF IInv, TypeOK
  <1>2. QED
    BY <1>1, ClientCorrect, PTL

(* A client that waits has its retransmission timer running, whatever reply  *)
(* dhcp_recv stopped it for, unless it selects and the transaction got an    *)
(* offer without a server id: that path of dhcp_handle_offer, and no other,  *)
(* leaves the timer stopped.                                                 *)
THEOREM TimerArmed == Spec => []RetryTimerArmed
  <1>1. IInv => RetryTimerArmed
    BY DEF IInv, Pending, Busy, Clients, RetryTimerArmed
  <1>2. QED
    BY <1>1, ClientCorrect, PTL

(* The address taken is never one of a transaction that was NAKed, or whose  *)
(* probe another host answered, however late and in whatever order the       *)
(* replies arrive.                                                           *)
THEOREM LeaseHonoured == Spec => []LeaseIsGood
  <1>1. IInv => LeaseIsGood
    BY DEF IInv, Leased, LeaseIsGood
  <1>2. QED
    BY <1>1, ClientCorrect, PTL

(* A leased address is used on an interface that is up, even after a NAK     *)
(* that took it down.                                                        *)
THEOREM LeaseBringsUp == Spec => []LeasedIsUp
  <1>1. IInv => LeasedIsUp
    BY DEF IInv, Leased, LeasedIsUp
  <1>2. QED
    BY <1>1, ClientCorrect, PTL
=============================================================================

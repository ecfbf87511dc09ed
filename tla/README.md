# Formal model of ImmortalsSender

ImmortalsSender is the firmware of a robot-soccer radio gateway (STM32F2x7, no
operating system: one main loop and two interrupt handlers). UDP datagrams from
the PC become packets of a transmitting nRF24L01 radio; packets heard by a
second, receiving radio become multicast datagrams. The repository has no tests
and one line of documentation; the reference for every definition is the code
that the project file builds (`USE_DHCP`, `LWIP_IGMP`, `NO_SYS` 1,
`SYS_LIGHTWEIGHT_PROT` 0, optimization level 3).

## 1. Inventory

| Component | Source | State it keeps | Operations | Module |
|---|---|---|---|---|
| Downlink | `src/src/udp_echoserver.c`, `demo()` and the radio part of `main()` in `src/src/main.c` | `rx_channel`, `tx_channel`, `firstPacketRecieved`, the datagram in process and `nextPacket` | receive callback, `Process_recieved_Packet`, `demo` | `TxRelay` |
| Uplink | `process_incoming_rf` in `src/src/udp_echoserver.c` | none of its own: the RX FIFO and RX_DR of radio 2 | one call per turn of the main loop | `RxRelay` |
| Radio driver | `src/src/nrf24l01.c`, `nrf24l01_2.c` (the same driver on other pins) | registers, FIFOs and interrupt flags of the chips | some sixty register operations over SPI, of which the firmware calls about fifteen | `Nrf24` |
| DHCP | `LwIP_DHCP_Process_Handle` in `src/src/netconf.c`, lwIP's `dhcp.c` | `DHCP_state`; `struct dhcp`: state, tries, timer, offered address, transaction id; interface flags and address | 500 ms tick, replies of servers, ARP conflict | `Dhcp` |
| Ethernet transmit path | `low_level_output` in `ethernetif.c`, `ETH_Prepare_Transmit_Descriptors` in `stm32f2x7_eth.c` | five descriptors and buffers, `DMATxDescToSet`, the TBUS flag | send a frame, from the main loop or TIM2 | `TxRing` |
| IGMP membership | lwIP's `igmp.c`, the order of `LwIP_Init`, `TIM2_IRQHandler` | list of groups with timer, state and last-reporter flag | register, join, receive query and report, tick | `Igmp` |
| Ethernet receive path | `ETH_CheckFrameReceived`, `ETH_Get_Received_Frame` in `stm32f2x7_eth.c`, `low_level_input`, `ethernetif_input` in `ethernetif.c` | five descriptors and buffers, `DMARxDescToGet`, the RBUS flag; the pool of pbufs | poll for a frame, take it, copy it, give the descriptor back | `RxPath` |
| IP reassembly | lwIP's `ip_frag.c` | list of incomplete datagrams and their fragments, `ip_reass_pbufcount` | fragment arrives, oldest datagram dropped, datagram handed up | `Reass`, `RxPath` |
| Periodic timers | `LwIP_Periodic_Handle` in `netconf.c` | four time stamps against the 32-bit `LocalTime` | periodic handler, SysTick | `MainLoop` |
| Frame-rate display | `setNumber` in `main.c`, `fps`, `TIM2_IRQHandler` | `fps`, `firstPacketRecieved`, the two digits | datagram counted, count shown and reset | `MainLoop` |
| Heap | lwIP's `mem.c` | the list of blocks in `ram[]`, `lfree` | `mem_malloc`, `mem_free`, `mem_realloc` | `Heap` |

The main loop polls the RX ring, hands a frame to lwIP, which calls the receive
callback; runs the periodic timers; serves radio 2; and sends the demo packets
while no datagram has arrived. SysTick only advances `LocalTime`. TIM2 shows
the frame rate and calls `igmp_tmr`, so it enters lwIP and the Ethernet driver
while the main loop may be inside them.

What is hard here:

* the radios and the DMA act on their own time, and the radios keep their state
  over a reset of the processor;
* every wait is a spin without a time-out, so one lost flag stops everything;
* the interrupt handler shares the group list, lwIP and the TX ring with the
  main loop without a lock;
* radio 2 raises one interrupt flag for a FIFO of three packets;
* the loop over records does not advance past a command it does not take;
* the network loses, repeats, delays and reorders replies and fragments;
* frames, fragments of incomplete datagrams and radio packets share one pool of
  pbufs, and `process_incoming_rf` does not look whether it got one;
* the clock wraps under the timers that are compared with it.

What makes each part correct: a payload goes once, in order, to the robot it
names and on the channel last commanded (downlink); what radio 2 took in is
sent once and in order, and it stays on the air (uplink); the gateway always
ends with a usable address (DHCP); an acknowledged frame is sent, unmixed, and
the ring never stalls (transmit path); a query for a joined group is answered
(IGMP); frames are read once and in order, every pbuf is accounted for, a
datagram goes up when it is complete and only then (receive path); a timer is
never early, late or lost at the wrap (timers); an owner of a block never loses
a byte of it and a request fails only when nothing fits (heap). Sections 3 and 4 say
where the code falls short of that. `PROJECT.json` lists the hazards with their
lines and the properties that cover them.

## 2. Modules

**`Nrf24`** – the driver functions as operators from the state of the chip
(a record: power, CE, PRIM_RX, address, channel, FIFOs, flags) to the state the
SPI commands leave it in, and the chip itself, which is external and modelled
from how the driver uses it. Auto-acknowledge is off in this firmware, so a
transmission always ends with TX_DS.

**`TxRelay`** – `pc` is the place in `main()`: `init`, `flush`, `tune` for the
boot, `poll` and `rest` for the two halves of the loop, `dispatch` for the head
of `while(nextPacket < len)`, and `load`, `pulse`, `spin` for
`write_tx_payload`, its CE pulse and the wait for the IRQ pin. `cur` is the
datagram from `nextPacket` on. `Arrive`, `RadioSends` and `Reset` come at any
moment. A datagram whose records reach beyond the first pbuf, or whose length
is no multiple of 33, ends in a torn record (`SeenBy`): its body, or the
confirmation and channel bytes of a command, are arbitrary.
`beep` only delays.

**`OrderedRelay`** – the abstract promise of the downlink: a queue whose head
goes on the air next, to the robot it names; a restart may drop the queue, all
but a packet already begun. `MCTxRelay` maps `TxRelay` to it: the queue is the
payload of the packet on its way, those of the records not yet loaded and those
of the frames in the RX ring (`OnItsWay`, `PayloadsOf`, `Waiting`).

**`RxRelay`** – one turn of `process_incoming_rf` in five steps (CE low, pop, CE
high, `udp_sendto`, clear RX_DR), with `PacketAired` and `Reset` between any
two. Packets are numbered in the order they were on the air.

**`Dhcp`** – `FineTick` is the 500 ms branch of `LwIP_Periodic_Handle`:
`dhcp_fine_tmr`, then `LwIP_DHCP_Process_Handle`. `DhcpRecv` and `ArpReply` are
the handlers of `dhcp.c`; each function of `dhcp.c` is an operator on the record
`s`. The set of requests sent is also the network: any of them may be answered
at any time, any number of times, or never. An offer may come with or without
the option that names its server; without it `dhcp_handle_offer` does nothing,
after `dhcp_recv` has stopped the timer (`HandleOffer`). `bare` is a history of
the transactions with such an offer. The states after the binding are left out:
the same tick that sees the address stops the client.

**`TxRing`** – `low_level_output` in eight steps, per context; `Runs` says that
the main loop stands still while the handler runs. The DMA polls, reads headers,
reads payload and gives the descriptor back. A buffer holds a pair of headers
and payload, which may come from different frames. `DMATxDescToSet` is not
volatile, so after an interruption a statement may use the value read before or
a new one.

**`Igmp`** – the accesses of `igmp_delaying_member`, `igmp_joingroup` and
`igmp_input` to a group are separate steps of the main loop; `IgmpTmr` is the
whole interrupt handler. A time unit is one call of `igmp_tmr`. `Concerned` is
the walk over the groups for each of the three kinds of queries; `asked` records
a query that found the group.

**`Heap`** – the list of struct mems as a function from the offsets in use to
next, prev and used; `lfree`; and what each block was handed out for. A call is
one step: the functions are sequential and NO_SYS removes their locks. `Fitting`
is the scan from `lfree`, `PlugHoles` the merge in both directions, `Shrink` the
three cases of `mem_realloc`. Struct mems that are no longer linked are dropped
from the function; nothing reads them.

**`Reass`**, **`RxPath`** – `Reass` has the functions on the list of one
datagram: where the walk stops (`Place`), whether the fragment is accepted or
freed (`Accepts`), and whether the chain is taken for complete (`Valid`), with
exactly the joints the code compares. `RxPath` is the main loop from
`ETH_CheckFrameReceived` through `low_level_input` and `ip_reass` to the
receive callback, and the pbuf that `process_incoming_rf` takes; the DMA runs
between any two steps and is suspended when it finds no descriptor. A frame is
known by its number modulo 2N; its contents (a fragment or a whole datagram) are
chosen when it is copied, which covers every loss, repetition and reordering. One
frame takes one descriptor, whose buffer (1524 bytes) holds the longest packet.
`RemoveOldest` follows the loop of `ip_reass_remove_oldest_datagram` and its
`prev`. Where `prev` is not the predecessor, the freed entry stays linked,
`memp_free` writes over its `next`, and the fragment's own datagram is on the list
no longer while its pbufs stay allocated and counted (`Dequeued`). The step does
all of that; the model ends behind it (`"broken list"`), for the walks that follow
read freed entries. `MaxPbufs` and `PoolSize` keep the relation
that `opt.h` asks for, as an assumption.

**`MainLoop`** – the passes of the loop as far as time matters: a datagram or
none, `LwIP_Periodic_Handle` timer by timer, and the display. `SysTick` comes
between any two steps, `TIM2` too; `fps++` is a read and a write, a digit of
`setNumber` one step each. `age`, `turn`, `received`, `shown` and `cut` are
history: how old each timer's time stamp really is, how long a pass has taken,
and what was counted.

## 3. Runs

| Run | Config | What it shows |
|---|---|---|
| `downlink` | `MCTxRelay.cfg` | two robots, two channels (one above 127), two datagrams of up to two records, of which one lies in the first pbuf, one reset: `Addressed`, `SpinWaitsForOnePacket`, `ChannelsCoherent`, `AirUndisturbed`, the refinement `ForwardsInOrder`, and `ReturnsOrStuck`: the only way not to come back from the callback is an untaken command |
| `downlink_hang` | `TxRelayHang.cfg` | counterexample to `EveryDatagramHandled` |
| `uplink` | `RxRelay.cfg` | seven packets (two FIFOs and one), two resets: `InOrderOnce`, `NothingHeardIsLost`, `NeverReadsEmpty`, `InterruptServed` |
| `uplink_deaf` | `RxRelayDeaf.cfg` | counterexample to `KeepsMonitoring` |
| `dhcp` | `Dhcp.cfg` | two addresses, six replies: `RetryTimerArmed`, `LeaseIsGood`, `LeasedIsUp`, and `AddressUnlessStalled`: the gateway ends with an address or waits for ever after an offer that named no server |
| `dhcp_down` | `DhcpDown.cfg` | counterexample to `ConfiguredIsUp` |
| `txring` | `TxRing.cfg` | three descriptors, seven frames from the main loop: `WireInOrderIntact` and `SentUnlessFull` until the ring overflows, `RingCoherent`, `WakeUpNotLost` and `RingDrains` always |
| `txring_isr` | `TxRingIsr.cfg` | counterexample to `SentWhenOk`: a report from TIM2, in a ring with more descriptors than frames |
| `igmp` | `Igmp.cfg` | five messages of any kind, queries of all three kinds, three response times: `LastReporterIsUs`, `AnswerScheduled`, `QueryAnswered` |
| `heap` | `Heap.cfg` | every sequence of calls on a heap of 120 bytes, three sizes of requests: `TypeOK` (the blocks tile the heap), `OwnersKeepTheirBlocks`, `NoAdjacentHoles`, `RemaindersUsable`, `LfreeIsLowest`, `FailsOnlyIfFull` |
| `rxpath` | `RxPath.cfg` | four datagrams of 4, 2, 2 and 2 fragments, whole frames and radio packets, two descriptors, seven pbufs, three entries: `FramesInOrder`, `WakeUpNotLost`, `ReceptionResumes`, `PbufsAccounted`, `StackCanReceive`, `WholeButForOneHole`, `NothingCompleteWaits` |
| `clock` | `MainLoop.cfg` | a clock of 16 values, a tick of 3, timers of 6 and 9, three datagrams: `NeverEarly`, `NeverLate`, `TimersFire`, `DatagramsCounted`, `DigitsAgree` |

The type invariants of all modules but `Heap` and `OnAirInLoop` of `RxRelay` are
proved (section 5) and so not among the properties of the runs.

Bounds. The FIFO depth of the radios (3) is the real one; seven packets fill it
twice. The downlink keeps nothing from one datagram to the next but the two
channels and the radio, so two datagrams show every pair; a second pbuf begins
after the first record so that torn records occur. The TX ring has three
descriptors instead of five: wrap-around, full and empty all occur, and seven
frames go round it twice. Six replies allow two complete exchanges with a NAK
or a conflict each. The heap holds up to six of the smallest blocks; with
its three sizes remainders are sometimes split off and sometimes too small
(11,088 states). `rxpath` (1.1 million states) shrinks
the build's numbers and keeps their order: 2 descriptors for 5, a pool of 7 for
30, a first fragment of 2 pbufs for up to 4, 3 entries for
`MEMP_NUM_REASSDATA` 5 and 5 pbufs for `IP_REASS_MAX_PBUFS` 10; both limits are
reached, a datagram can be dropped for another's sake, and four fragments are the
fewest between which a hole can be left. `clock` wraps every 16 ms; the build has
2^32 ms, a tick of 10 and intervals of 250, 5000, 500 and 60000 ms.
`CHECK_DEADLOCK FALSE` stands where the modelled activity
ends: `Dhcp` once the address is configured, `TxRing` once the frames are sent,
`RxPath` where the list is broken.

Fairness. The processor keeps executing (weak fairness of the steps of the main
loop, of a call in progress and of the periodic tick; an interrupt handler runs
to its end). The radio finishes a packet it has begun and the DMA transmits
while the link is up; the receive DMA looks at the descriptor it is told to, and
SysTick goes on. Nothing is assumed of other hosts, of other radios or of
resets. In `Igmp` at most one tick falls into one handler: the period of TIM2
is a second.

What a pass is worth, and where it ends:

* `WireInOrderIntact` and `SentUnlessFull` end where the ring overflows
  (`full`): `low_level_output` then copies over a waiting frame and returns
  ERR_OK all the same. Without the exception both are violated.
* `igmp` assumes response times of at least four units. With two or three, a
  tick between the two assignments of `igmp_delaying_member` finds the timer at
  1 and the state still IDLE_MEMBER, and the answer is lost (`QueryAnswered` is
  violated with `MaxResps = {2}`); with one the delay is zero. Messages are
  bounded, so a query that keeps putting the answer off is not seen to starve
  it; `igmp_delaying_member` would let it.
* `RetryTimerArmed` and `AddressUnlessStalled` except one wait without a timer, and
  no other: in SELECTING, after an offer of the current transaction that named no
  server (section 4). Without the exception one such offer violates both. A later
  complete offer ends that wait.
* `dhcp` says nothing of what happens after the binding; the lease is never
  renewed.
* `WholeButForOneHole` states what `ip_reass` really guarantees: the joint in
  front of the fragment that completes a datagram is not compared, so one hole is
  possible there (section 4).
* `PbufsAccounted` says that the count is what the list holds, and behind a
  dequeue with the wrong `prev` exactly what has gone wrong: the datagram of the
  fragment in hand is on the list no longer, and what is counted beyond what the list
  holds is some but not all of that datagram's pbufs. Demanding that the count is
  exact there, too, is violated (section 4). Everything the run claims is checked in
  that state but `ReceptionResumes`, which ends there, and nothing is claimed of
  what follows: the code then walks freed entries.
* `StackCanReceive` is about one frame and one radio packet at a time, which is
  what the main loop has in hand.
* `heap` takes the calls as atomic, which nothing in the code enforces against
  the interrupt handler (section 4).
* `DatagramsCounted` allows for the reset that TIM2 puts into the middle of
  `fps++` (`cut`): then a count may be shown twice. The display itself shows the
  count modulo 100.
* `NothingHeardIsLost` says packets are kept, not that they are sent: see
  `uplink_deaf`.

## 4. Where the code and its comments disagree

1. **A repeated or unconfirmed channel command stops the firmware**
   (`udp_echoserver.c:147`, `:157`): `nextPacket` only advances inside the `if`.
2. **Radio 2 goes deaf** (`udp_echoserver.c:134`): one payload is read per
   interrupt, and the flag of packets that came meanwhile is cleared with it.
   Each such packet stays behind; three of them fill the FIFO for good.
3. **The static address may sit on a down interface** (`netconf.c:266`): a NAK
   takes the interface down and only `dhcp_bind` brings it up.
4. **An IGMP report from the interrupt handler** (`stm32f2xx_it.c:149`) can
   destroy the frame the main loop is handing over, and ERR_OK is returned.

A run refutes the comment in each of these. The next two no run refutes; the
properties of `dhcp` and `rxpath` state them as their exceptions:

5. **An offer without a server identifier silences the DHCP client**
   (`dhcp.c:228`): `dhcp_recv` has stopped the timer at line 1454 and nothing
   starts it again. `tries` stays at 4 or less, so `netconf.c:255` does not give up
   either: the gateway waits for another offer, for ever.
6. **Making room can lose the datagram it is made for** (`ip_frag.c:241`): `prev`
   is the last element that has a successor. When the fragment's own datagram is
   the last of three or more that is the oldest itself: it is freed and stays
   linked, the own datagram drops off the list and its pbufs are lost to the pool
   and counted for ever. The assertions at lines 162 to 164 are compiled out.

Also noted:

* General IGMP queries are ignored (`netconf.c:126`): `igmp_init` runs after the
  interface is registered, a group 0.0.0.0 is registered instead of
  224.0.0.1, and `ip_input` drops what is sent to a group nobody registered.
  Queries for the group itself are answered.
* A datagram can be taken for complete with a fragment missing
  (`ip_frag.c:378`): a fragment inserted in the middle is only compared with the
  one behind it, where the comment of line 561 has "all fragments are received".
  Fragments 1, 4 and 3 of four are handed up without the second. lwIP does
  not compare the UDP checksum in this build (`lwipopts.h:147`).
* `ip_reass_tmr` is never called (`ip_frag.c:120`), so an incomplete datagram
  stays until another one needs its room.
* The heap is entered from the TIM2 handler (`igmp_send`) while "protect the heap
  from concurrent access" (`mem.c:508`) does nothing in this build.
* A frame that meets a full TX ring is acknowledged (`ethernetif.c:157`), a query
  can be lost to the timer interrupt (`igmp.c:672`), `igmp_tmr` is called once a
  second where the header of the function asks for 100 ms, and the comment above
  TIM2's set-up says 128 Hz.

## 5. Proofs

TLAPS proves the following for every value of the constants, from the named
assumptions on the constants only, or from the hypothesis a theorem states.

**`TxRelayProofs`** (any robots, payloads, channel bytes, datagrams, resets) –
`TypeCorrect`, `AlwaysAddressed`, `SpinIsSound`, `ChannelsAgree`, the action
property `AirIsUndisturbed` and the refinement of `OrderedRelay`,
`RelayImplementsPromise`. The invariant is
`IInv == TypeOK /\ RadioInv /\ CurInv /\ AirInv`. `Addressed` alone is not
inductive: that the packet in the FIFO belongs to the address register holds
only because the FIFO is empty whenever an address is written. `RadioInv` says
so for every place of `main()`: radio 1 is quiet (empty FIFO, nothing on the
air, no TX_DS) from the flush of the boot up to `load`, and from `load` to
`spin` its address is that of the payload in hand. `CurInv` ties that payload to
the head of `cur` or to the demo. `SeenType` is the lemma that a torn datagram
still consists of records; `ChipType` that every driver function keeps the
types of the chip. `ChannelsAgree` adds `ChannelInv`, which also covers the boot
between the reset of the variables and the tuning of the radios.

`RelayImplementsPromise` takes the mapping of `MCTxRelay` and shows for every
step of the downlink what it is of the promise: `Arrive` is `Accept`, the
`RadioSends` of a client's packet is `Send`, `Reset` is `Restart` (or nothing,
when nothing was queued), and every other step leaves the queue as it is. The two
that move something inside the queue are the callback, which takes a frame from
the ring to `cur`, and `PulseCe`, which takes the head of `cur` to the air. They
need `QueueInv` beside `IInv`: nothing is left in `cur` when the next frame is
taken, and what the CE pulse starts is the payload written last. The queue is
flattened from the frames; `FlattenFirst` and `FlattenAppend` say what
`FlattenSeq` does at its two ends. They are proved for sequences of any length,
by the least place where the claim would fail: `LeastNumber` gets that place from
the well-foundedness of inclusion on finite sets (`WFMin` has no operator for a
parameter, where the induction theorems of the library have one).

**`RxRelayProofs`** (any number of packets and resets) – `TypeCorrect`,
`InOrderOnceAlways`, `NoEmptyRead`, `StaysOnAir` and `NothingIsLost`. The
invariant is `IInv == TypeOK /\ RadioInv /\ OrderInv`. `NeverReadsEmpty` needs
that RX_DR implies a packet at the top of the loop, which needs that a boot which
has flushed the FIFO has also cleared RX_DR and left PRIM_RX off, so that nothing
is heard before `set_as_rx`. `InOrderOnce` needs the order of the three places a
packet can be in: sent, in hand, in the FIFO. `TakeHead`, `AddLast` and `Arrival`
are the facts on sequences behind it. `NothingIsLost` follows each packet from
the FIFO to the hand to the datagrams sent (`HeardInv`).

**`DhcpProofs`** (any addresses, any number of replies) – `TypeCorrect`,
`TimerArmed`, `LeaseHonoured` and `LeaseBringsUp`, all from one invariant: a
client that waits is in a state `dhcp_timeout` acts on, its timer runs unless it
selects and its current transaction is in `bare`, it has tried no more often than
the driver allows, and its current transaction is not one that was refused; a
client with an address holds it from such a transaction on an interface that is up.
`RetryTimerArmed` is not inductive without the first part, for the states are
what decides whether the timer is read.

**`TxRingProofs`** (any number of descriptors and of frames) – `TypeCorrect`
with both senders; `RingAgrees`, `WireIsIntact` and `DmaIsWoken` where the main
loop is the only sender, which is their hypothesis `OnlyMain`: with the interrupt handler
frames destroy each other (`txring_isr`). `PositionInv` counts: the DMA owns the `Pends`
descriptors from its own on, where `Pends` is the number of frames handed over
and not yet read, and `DMATxDescToSet` is the one behind them. `DataInv` says
what each of those buffers holds, until the ring was full; from there on nothing
is claimed of the contents, but the positions still agree. They give
`WakeUpNotLost`: a DMA that finds its descriptor not its own has `Pends = 0`, and
the frame that ends that has a call on its way to the look at TBUS.

**`IgmpProofs`** (any response times, any number of messages) – `TypeCorrect`,
`GroupsListed`, `LastReporterRight` and `QueryKept`. `ListInv` has the list of groups at every
place: it grows twice, and the group of the queries to all is never in it; `GroupsListed`
states that.
`ReportInv` says that the flag is only up while the state is DELAYING_MEMBER
outside the three steps that take a report. `QueryKept` has the hypothesis
`LongEnough`, response times of at least four units: the timer is then set to two
or more, and at most one tick falls between the store of the timer and that of
the state (`AnswerInv`). Without it the property is false.

**`RxPathProofs`** (any number of descriptors, datagrams and fragments, any pool
and limits in the relation of `opt.h`) – all that `rxpath` checks but the
liveness: `FramesFollow`, `DmaIsWoken`, `TypeCorrect`, `PbufsCounted`, `RoomToReceive`,
`HandedUpWhole` and `NoneLeftComplete`. There are two
invariants. `RingInv` lays the frames out: from the oldest descriptor the main
loop has not given back on, the frames that wait carry consecutive numbers, the
DMA stands behind the last of them and owns the descriptor it has armed, and the
rest of the ring is the DMA's. Places and numbers are taken without remainders
(`After`, `Off`, `Num`), which `AfterOf`, `OffsetOf` and `NumberOf` tie to the
operators of the module, so that each step moves one end of that stretch by one.

`PathInv == PathType /\ ListInv /\ HandInv /\ CountInv` is for the pbufs and the
list of datagrams. `ListInv` says of each entry that its fragments are of one
datagram, sorted, none twice, and not all of them; of two entries, that they are
of different datagrams. That is more than `NothingCompleteWaits` and
`WholeButForOneHole` state, and both need it: a chain without a gap that the code
would notice is complete only if nothing is in it twice or out of place.
`HandInv` says what the main loop has in hand at each place, and `CountInv` where
the pbufs are: `PbufsAccounted`, and in addition that what
`ip_reass_remove_oldest_datagram` has freed so far and what is still held stay
below `MaxPbufs`, from which `StackCanReceive` follows. Behind a dequeue
with the wrong `prev` the count is no longer what the list holds, and `ListBroken`
takes that part's place: `WrongPrev` shows that the oldest then stands directly in
front of the datagram of the fragment in hand, which is the last, `TwoLost` that the
prefix left holds what the others hold, and `SomePbufs` that what was lost is at
least one pbuf and not all of that datagram's, for a waiting datagram is incomplete.

**`HeapProofs`** (any size of heap, header, alignment, least block and requests)
– `TypeCorrect`, `BlocksKept`, `HolesPlugged`, `BlocksUsable`, `LowestFree` and
`FirstFitFinds`. The invariant is the conjunction of what they state and that the
last request that failed, failed rightly. The core are lemmas on the linked list
(`Linked`): what inserting a header, removing one and moving one do to the tiling,
and that a block is never within another. `FirstFitFinds` needs `LfreeIsLowest`,
which needs that `plug_holes` moves `lfree` with a hole it merges away.

**`MainLoopProofs`** (any range of the clock, tick and intervals for which no pass
takes a timer once around the range) – `TypeCorrect`, `TimersPunctual`,
`TimersPatient`, `DisplayCorrect` and `CountComplete`. A timer's time stamp is
the time it is old, modulo the range; `Difference` shows that the unsigned
subtraction recovers that age on either side of the wrap. That it is below the
range, without which the remainder says nothing, follows from the order in which
the handler looks at the timers (`ClockInv`).

Only model-checked: the liveness properties `ReturnsOrStuck`, `InterruptServed`,
`AddressUnlessStalled`, `SentUnlessFull`, `RingDrains`, `QueryAnswered`,
`ReceptionResumes` and `TimersFire`. They rest on fairness, of which the prover
knows neither `ENABLED` nor the well-founded orders an argument would need. Of
`RingDrains` and `ReceptionResumes` the part that is safety is proved: the DMA
does not sleep through a frame or a free descriptor (`WakeUpNotLost`). Every
invariant, every action property and the refinement of the passing runs are
proved.

## 6. Not modelled

Boot and pin set-up, SPI transfers and busy-wait delays (straight-line, no
state); lwIP's ARP, IP, UDP, ICMP and TCP code, taken for what its calls do for
the firmware; the parts of lwIP the build leaves out (sockets, SNMP, PPP, IPv6,
the FreeRTOS port); ST's peripheral and board libraries, which make up most of the
lines of the repository; driver functions without a caller. DHCP renewal,
rebinding and reboot cannot be reached. Frames of several receive descriptors do
not occur, and the segment patterns of the digits say nothing. `ip_frag`, the
sending side, is never reached.

What happens to the heap when the TIM2 handler enters it in the middle of a call
depends on the order in which the compiler places the accesses; the model says
what each call does when it is left alone.

## 7. Plan

Written: `Nrf24`, `TxRelay` with `OrderedRelay`, `RxRelay`, `Dhcp`, `TxRing`,
`Igmp`, `Heap`, `Reass` with `RxPath`, `MainLoop`, and proofs of their safety.
What is left, in this order:

1. `Gateway`: `TxRelay` and `RxRelay` in one loop, to show that a busy downlink
   only delays the uplink and a stuck one stops it.
2. ARP (`etharp.c`): the table, its ageing and the packet that waits for an
   answer. The uplink is multicast (`udp_echoserver.c:129`) and never consults the
   table; only answers to pings and the client's check of its own address do.

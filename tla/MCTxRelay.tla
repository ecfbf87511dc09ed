------------------------------ MODULE MCTxRelay ------------------------------
(* TxRelay for TLC, and its refinement of OrderedRelay.                      *)
EXTENDS TxRelay, SequencesExt

(* What goes on the air of a record; of a command, nothing. *)
PayloadOf(r) == IF r.op = "robot" THEN <<[id |-> r.id, body |-> r.body]>> ELSE <<>>

(* The payloads of the records of s, in order. *)
PayloadsOf(s) == FlattenSeq([i \in DOMAIN s |-> PayloadOf(s[i])])

OnItsWay ==
  IF r1.busy /\ Head(r1.txFifo).id # DemoAddr THEN <<Head(r1.txFifo)>> ELSE <<>>

(* In "spin" the head of cur is on its way or already sent. *)
NotYetLoaded == IF pc = "spin" /\ demoLeft = 0 THEN Tail(cur) ELSE cur

(* Those of the frames in the RX ring. *)
Waiting(frames) == FlattenSeq([i \in DOMAIN frames |-> PayloadsOf(frames[i])])

Queued == OnItsWay \o PayloadsOf(NotYetLoaded) \o Waiting(inbox)

Promise == INSTANCE OrderedRelay WITH Channel <- 0..127, queue <- Queued, out <- air

(* The code forwards the records of the datagrams in order, each once and to *)
(* the robot it names, over interleaved commands, torn records, the demo and *)
(* resets of the processor.                                                  *)
ForwardsInOrder == Promise!Spec
=============================================================================

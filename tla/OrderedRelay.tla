----------------------------- MODULE OrderedRelay -----------------------------
(* What the downlink promises: payloads accepted from the network go on the  *)
(* air in the order in which they were accepted, each once and each to the   *)
(* robot it names.  A restart may lose what has been accepted, all but the   *)
(* packet the radio has already begun; it never reorders or repeats.         *)
EXTENDS Sequences, SequencesExt

CONSTANT Channel

VARIABLES queue,  \* payloads accepted, not yet on the air
          out     \* packets sent

Init == queue = <<>> /\ out = <<>>

Accept == IsPrefix(queue, queue') /\ UNCHANGED out

Send == /\ queue # <<>>
        /\ \E ch \in Channel :
             out' = Append(out, [to |-> Head(queue).id, ch |-> ch, pay |-> Head(queue)])
        /\ queue' = Tail(queue)

Restart == /\ queue # <<>>
           /\ queue' \in {<<>>, <<Head(queue)>>}
           /\ UNCHANGED out

Next == Accept \/ Send \/ Restart

Spec == Init /\ [][Next]_<<queue, out>>
=============================================================================

--------------------------- MODULE PacketChannel ---------------------------
(***************************************************************************)
(* What a CraftReader promises its caller (spec.md 5, Ordering; 8.3-8.5,   *)
(* 8.8): the packets the peer wrote come out in the order they were        *)
(* written, each once.  A closed connection loses the packets it had not   *)
(* carried yet.  A packet that has arrived is eventually received by a     *)
(* caller that keeps reading.                                              *)
(***************************************************************************)
EXTENDS Naturals, Sequences

CONSTANT Messages   \* what a packet can read as

VARIABLES
  queue,     \* packets written and carried, not yet received
  received   \* what the reader returned, in order

vars == <<queue, received>>

Init == queue = <<>> /\ received = <<>>

\* The peer writes a packet and it arrives.
Send(m) ==
  /\ queue' = Append(queue, m)
  /\ UNCHANGED received

\* A read call returns the oldest packet.
Receive ==
  /\ queue # <<>>
  /\ received' = Append(received, Head(queue))
  /\ queue' = Tail(queue)

\* The connection ends: the packets not carried yet are lost.
Cut ==
  /\ \E k \in 0 .. Len(queue) : queue' = SubSeq(queue, 1, k)
  /\ UNCHANGED received

Next == (\E m \in Messages : Send(m)) \/ Receive \/ Cut

Spec == Init /\ [][Next]_vars /\ WF_vars(Receive)

=============================================================================

----------------------------- MODULE MCUdpLink -----------------------------
(***************************************************************************)
(* The example programs with datagrams of 28 words instead of 2250 and     *)
(* small counters.                                                         *)
(***************************************************************************)
EXTENDS UdpLink, MCCorpus

CONSTANTS s1, p1

OneClock == {[integer |-> <<0, 7>>, fractional |-> <<<<0, 0>>, <<0, 3000>>>>]}

AllToOne == [s \in Senders |-> p1]

ReceiverOptions == [p \in Parsers |-> DefaultOptions]

\* A packet with a tail; and one whose tail is lost, because it fills the
\* receiver's buffer, so that it is accepted.
Trailing    == [words |-> DataPacket, extra |-> 1]
Overflowing ==
  Slice(<<<<DataPacket[1][1], 28>>, <<9, 9>>>> \o SubSeq(DataPacket, 3, 7)
          \o [i \in 1..22 |-> <<0, i>>])
Strangers   == {Trailing, Overflowing}
=============================================================================

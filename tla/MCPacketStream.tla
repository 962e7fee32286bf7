-------------------------- MODULE MCPacketStream ---------------------------
(***************************************************************************)
(* Datagrams for a stream parser: two data streams, a version context of   *)
(* the same stream id under both packet types, numbers on both sides of    *)
(* the wrap, and datagrams refused at framing, by the profile and for what *)
(* follows the packet.                                                     *)
(***************************************************************************)
EXTENDS StreamHistory, MCCorpus

CONSTANTS p1, p2

Numbered(words, s) ==
  [words EXCEPT ![1] = <<@[1] - (@[1] % 16) + s, @[2]>>]
OtherStream(words) == [words EXCEPT ![2] = <<\h0A0B, \h0C0D>>]

Accepted ==
  {Slice(Numbered(DataPacket, s)) : s \in {14, 15, 0}}
    \cup {Slice(Numbered(VersionPacket(4), 15)), Slice(Numbered(VersionPacket(5), 0)),
          Slice(OtherStream(Numbered(DataPacket, 15)))}

\* A later standard's; cut short; two packets in one datagram; foreign OUI.
Refused ==
  {Slice(QueryLongPacket), Slice(SubSeq(DataPacket, 1, 7)),
   Slice(DataPacket \o ContextPacket), Slice([DataPacket EXCEPT ![3] = <<\h006A, \h621F>>])}

StreamDatagrams == Accepted \cup Refused

\* The second parser is there to be left alone.
ThreeAndOne == [p \in Parsers |-> IF p = p1 THEN 3 ELSE 1]

Legacy ==
  [p \in Parsers |-> [standard |-> "V1_2_1", compatibility |-> "LegacyVersionPacketType"]]
=============================================================================

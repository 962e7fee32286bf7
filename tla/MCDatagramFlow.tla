-------------------------- MODULE MCDatagramFlow ---------------------------
(***************************************************************************)
(* A source that sends a data stream, and datagrams of others.             *)
(***************************************************************************)
EXTENDS DatagramFlow, MCCorpus

CONSTANT p1

DataKey ==
  [packet_type |-> SignalDataWithStreamId, packet_class |-> StandardFlowSignalData,
   stream_id |-> DataPacket[2]]
DataOnly == {DataKey}

WiresOf(key, s) == {Slice([DataPacket EXCEPT ![1] = <<@[1] - (@[1] % 16) + s, @[2]>>])}

\* A packet of a later standard, and a packet with a tail.
Foreign == {Slice(FlowPacket), [words |-> DataPacket, extra |-> 1]}

SomeOptions ==
  [p \in Parsers |-> [standard |-> "V1_1", compatibility |-> "Strict"]]
=============================================================================

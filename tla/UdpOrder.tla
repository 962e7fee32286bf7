------------------------------ MODULE UdpOrder ------------------------------
(***************************************************************************)
(* UdpLink with the true order of the datagrams: every data packet and     *)
(* every context of a sender has an index, 0, 1, 2, ..., of its own.  The  *)
(* programs are shown to be a DatagramFlow, and so what a receiver reports *)
(* to be what TrueOrder promises, as long as no two senders share one.     *)
(***************************************************************************)
EXTENDS UdpLink

CONSTANT MaxIndex   \* bound: the last index of a stream

VARIABLES
  sent,    \* history: the next index of each sender's two streams
  latest   \* history: the sender and index of the latest datagram of a stream accepted

ovars == <<lvars, sent, latest>>

\* The streams of a sender, as the tracker tells them apart.
StreamOf(type, class) ==
  [packet_type |-> type, packet_class |-> class, stream_id |-> STREAM_ID]
DataStream    == StreamOf(SignalDataWithStreamId, StandardFlowSignalData)
ContextStream == StreamOf(ContextWithStreamId, StandardFlowSignalContext)
Streams       == {DataStream, ContextStream}

\* The stream and number of a datagram of a sender.
PrologueOfDatagram(m) == PrologueOf(m.bytes.words)
StreamOfDatagram(m) ==
  StreamOf(PrologueOfDatagram(m).header.packet_type, PrologueOfDatagram(m).class_id.packet_class)

OInit ==
  /\ LInit
  /\ sent = [s \in Senders |-> [key \in Streams |-> 0]]
  /\ latest = [p \in Parsers |-> NothingSeen]

Count(s, key) ==
  /\ sent[s][key] <= MaxIndex
  /\ sent' = [sent EXCEPT ![s][key] = @ + 1]
  /\ UNCHANGED latest

OSend(s) ==
  \E now \in Times :
    \/ LSendContext(s, now, sent[s][ContextStream]) /\ Count(s, ContextStream)
    \/ LSendData(s, now, sent[s][DataStream]) /\ Count(s, DataStream)

ODeliver(m) ==
  /\ Deliver(m)
  /\ result'[m.to].error = Ok
  /\ latest' = [latest EXCEPT ![m.to] =
       [key \in DOMAIN @ \cup {StreamOfDatagram(m)} |->
          IF key = StreamOfDatagram(m) THEN [from |-> m.from, index |-> m.index] ELSE @[key]]]
  /\ UNCHANGED sent

ORest ==
  /\ \/ \E s \in Senders : LStopSender(s)
     \/ \E m \in network : Lose(m)
     \/ \E p \in Parsers, d \in Datagrams : DeliverForeign(p, d)
     \/ \E p \in Parsers : StopReceiver(p)
  /\ UNCHANGED <<sent, latest>>

OStartReceiver(p) ==
  /\ StartReceiver(p)
  /\ latest' = [latest EXCEPT ![p] = NothingSeen]
  /\ UNCHANGED sent

-----------------------------------------------------------------------------
(* The flow that a receiver and its only sender are.                       *)

SenderOf(p) == CHOOSE s \in Senders : DestinationOf[s] = p

\* All that a sender ever sends with a number.
DatagramsWith ==
  [key \in Streams |-> [sequence \in SequenceNumber |->
     IF key = DataStream
     THEN {Sent(WriteIqData(16, SignalDataSpec(sequence, now), SamplesForPacket(count),
                            BlankBuffer)) :
             count \in 0..(PacketCounts - 1), now \in Times}
     ELSE {Sent(WritePacket(SignalContextPacket(sequence, now), BlankBuffer, DefaultOptions)) :
             now \in Times}]]
NumberedDatagrams(key, sequence) == DatagramsWith[key][sequence]

\* The counters of the only sender of a receiver, per stream.
FlowSequence ==
  [p \in Parsers |-> [key \in Streams |->
     IF key = DataStream THEN data_sequence[SenderOf(p)] ELSE context_sequence[SenderOf(p)]]]
FlowSent == [p \in Parsers |-> sent[SenderOf(p)]]

\* What a datagram in flight is to the receiver that is given it.
FlowMessage(m) ==
  [to       |-> m.to,
   key      |-> StreamOfDatagram(m),
   sequence |-> PrologueOfDatagram(m).header.sequence,
   index    |-> m.index,
   bytes    |-> Received(m.bytes)]
FlowNetwork == {FlowMessage(m) : m \in network}

FlowLatest == [p \in Parsers |-> [key \in DOMAIN latest[p] |-> latest[p][key].index]]

Flow == INSTANCE DatagramFlow WITH
  Keys      <- Streams,
  Wires     <- NumberedDatagrams,
  Datagrams <- {Received(d) : d \in Datagrams},
  sequence  <- FlowSequence,
  sent      <- FlowSent,
  network   <- FlowNetwork,
  latest    <- FlowLatest

\* A sender that is run again begins a turn of its counters.
OStartSender(s) ==
  /\ LStartSender(s)
  /\ \A key \in Streams : Flow!NextTurn(sent[s][key]) <= MaxIndex + 1
  /\ sent' = [sent EXCEPT ![s] = [key \in Streams |-> Flow!NextTurn(@[key])]]
  /\ UNCHANGED latest

ONext ==
  \/ \E s \in Senders : OSend(s) \/ OStartSender(s)
  \/ \E m \in network : ODeliver(m)
  \/ \E p \in Parsers : OStartReceiver(p)
  \/ ORest

OSpec == OInit /\ [][ONext]_ovars

-----------------------------------------------------------------------------

\* Every receiver has a sender, and no two senders share one.
OneSenderEach ==
  /\ \A p \in Parsers : \E s \in Senders : DestinationOf[s] = p
  /\ \A s, t \in Senders : DestinationOf[s] = DestinationOf[t] => s = t

\* What others send is refused: a packet of theirs would be of no stream of the flow.
ForeignersAreRefused ==
  \A d \in Datagrams : ParsePacketExact(Received(d), DefaultOptions).error # Ok

(* The two programs and the network between them are a DatagramFlow: what  *)
(* one buffer, two counters, a restart with zeroes, a receive buffer and a *)
(* loop that ends at its first error do to the datagrams is what sources,  *)
(* restarts and resets of the flow do (udp_sender.rs 42-78, 109-124,       *)
(* udp_receiver.rs 5-32).  Its theorems then say what the receiver prints. *)
ImplementsDatagramFlow == Flow!FSpec

(* "duplicate DIFI sequence from {source}" (udp_receiver.rs 17): the       *)
(* datagram before it on that stream came from that source.                *)
DuplicatesAreOfTheSource ==
  [][\A p \in Parsers, s \in Senders : \A key \in DOMAIN latest[p] :
       (/\ source'[p] = s
        /\ latest'[p][key] # latest[p][key]
        /\ result'[p].sequence_status = Duplicate)
       => latest[p][key].from = s]_ovars
=============================================================================

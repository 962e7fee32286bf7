------------------------------- MODULE UdpLink -------------------------------
(***************************************************************************)
(* The example programs at work: udp_sender.rs processes, the network and  *)
(* udp_receiver.rs processes, each of which has one PacketStreamParser for *)
(* whatever arrives at its port.  Every process stops at its first error   *)
(* and may be run again, from scratch.                                     *)
(***************************************************************************)
EXTENDS UdpSender, PacketStream, DatagramNetwork

CONSTANTS
  DestinationOf,   \* the receiver each sender is connected to; receivers are Parsers
  RECEIVE_WORDS    \* 2250 in the code: the receiver's buffer of 9000 bytes

ASSUME DestinationAssumption == DestinationOf \in [Senders -> Parsers]
ASSUME ReceiveAssumption     == RECEIVE_WORDS \in Nat /\ UDP_DATAGRAM_WORDS <= RECEIVE_WORDS
\* PacketStreamParser::new: a receiver parses with the default options.
ASSUME ReceiverOptionsAssumption == \A p \in Parsers : OptionsOf[p] = DefaultOptions

VARIABLES
  receiver,  \* whether each receiver is "Running" or "Stopped"
  source     \* where the datagram of its last recv_from came from

lvars == <<uvars, vars, network, receiver, source>>

Nobody  == "Nobody"
Foreign == "Foreign"   \* a source that is no udp_sender

LInit ==
  /\ UInit
  /\ Init
  /\ network = {}
  /\ receiver = [p \in Parsers |-> "Running"]
  /\ source = [p \in Parsers |-> Nobody]

-----------------------------------------------------------------------------
(* Sending: an index the wire does not carry goes with every datagram, for *)
(* UdpOrder to compare with.                                               *)

SendTo(s, index, write) ==
  Transmit([from |-> s, to |-> DestinationOf[s], index |-> index, bytes |-> Sent(write)])

LSendContext(s, now, index) ==
  /\ SendContext(s, now)
  /\ SendTo(s, index, ContextWrite(s, now))
  /\ UNCHANGED <<vars, receiver, source>>

LSendData(s, now, index) ==
  /\ SendData(s, now)
  /\ SendTo(s, index, DataWrite(s, now))
  /\ UNCHANGED <<vars, receiver, source>>

LStopSender(s)  == StopSender(s) /\ UNCHANGED <<vars, network, receiver, source>>
LStartSender(s) == StartSender(s) /\ UNCHANGED <<vars, network, receiver, source>>

-----------------------------------------------------------------------------
(* Receiving.                                                              *)

\* recv_from drops what does not fit in the buffer.
Received(d) ==
  IF Len(d.words) < RECEIVE_WORDS THEN d ELSE Slice(SubSeq(d.words, 1, RECEIVE_WORDS))

\* One turn of the loop: the `?` after parse_datagram ends the program.
Receive(p, from, d) ==
  /\ receiver[p] = "Running"
  /\ ParseDatagram(p, Received(d))
  /\ receiver' = [receiver EXCEPT ![p] = IF result'[p].error = Ok THEN @ ELSE "Stopped"]
  /\ source' = [source EXCEPT ![p] = from]
  /\ UNCHANGED <<uvars, network>>

Deliver(m)           == Receive(m.to, m.from, m.bytes)
DeliverForeign(p, d) == Receive(p, Foreign, d)

Lose(m) == Drop(m) /\ UNCHANGED <<uvars, vars, receiver, source>>

\* recv_from fails, or the user stops the program.
StopReceiver(p) ==
  /\ receiver[p] = "Running"
  /\ receiver' = [receiver EXCEPT ![p] = "Stopped"]
  /\ UNCHANGED <<uvars, vars, network, source>>

StartReceiver(p) ==
  /\ receiver[p] = "Stopped"
  /\ ResetSequences(p)
  /\ receiver' = [receiver EXCEPT ![p] = "Running"]
  /\ source' = [source EXCEPT ![p] = Nobody]
  /\ UNCHANGED <<uvars, network>>

-----------------------------------------------------------------------------

SenderStep(s) == \E now \in Times : LSendContext(s, now, 0) \/ LSendData(s, now, 0)

LNext ==
  \/ \E s \in Senders : SenderStep(s) \/ LStopSender(s) \/ LStartSender(s)
  \/ \E m \in network : Deliver(m) \/ Lose(m)
  \/ \E p \in Parsers :
       \/ \E d \in Datagrams : DeliverForeign(p, d)
       \/ StopReceiver(p)
       \/ StartReceiver(p)

LSpec == LInit /\ [][LNext]_lvars

\* A signal context of a sender that is in flight to its receiver.
ContextInFlight(s, m) ==
  /\ m.from = s
  /\ HeaderOf(ReadU32(m.bytes.words, 0)).packet_type = ContextWithStreamId

(* A sender that is not stopped goes on: its loop waits for nothing but an *)
(* interval.  Only a SenderStep takes a turn of it.                        *)
SenderFairness(s) == WF_turn(ContextTurn(s) \/ DataTurn(s))

(* The network loses what it likes, but not every context of a sender that *)
(* never ceases to send them: strong fairness of DeliverContext, with what *)
(* enables it written out.                                                 *)
DeliverContext(s) == \E m \in network : ContextInFlight(s, m) /\ Deliver(m)
Deliverable(s) ==
  receiver[DestinationOf[s]] = "Running" /\ \E m \in network : ContextInFlight(s, m)
NetworkFairness(s) == []<>Deliverable(s) => []<><<DeliverContext(s)>>_lvars

FairLSpec == LSpec /\ \A s \in Senders : SenderFairness(s) /\ NetworkFairness(s)

-----------------------------------------------------------------------------

\* Every value the programs and the network can hold (udp_receiver.rs 5-12).
LinkTypeOK ==
  /\ UdpSenderTypeOK
  /\ TypeOK
  /\ Cardinality(network) <= Capacity
  /\ \A m \in network :
       m.from \in Senders /\ m.to = DestinationOf[m.from] /\ Len(m.bytes.words) <= RECEIVE_WORDS
  /\ receiver \in [Parsers -> {"Running", "Stopped"}]
  /\ source \in [Parsers -> Senders \cup {Nobody, Foreign}]

(* A receiver never refuses a datagram of the sender program, although its *)
(* two kinds of packet, of different sizes, are written into one buffer    *)
(* and sent from it, and although an exact parse refuses what follows a    *)
(* packet: only others' datagrams can end its loop (udp_sender.rs 54-74,   *)
(* 116-118, udp_receiver.rs 11-12).                                        *)
OnlyForeignersStopReceivers ==
  \A p \in Parsers :
    result[p].error \notin {Ok, NoResult.error} => source[p] = Foreign

\* Whether the last packet a sender's receiver accepted was a context of that sender.
HearsContext(s) ==
  LET p == DestinationOf[s]
  IN /\ source[p] = s
     /\ result[p].error = Ok
     /\ result[p].packet.variant = "SignalContext"

(* As long as both run, a receiver hears of the context of its sender over *)
(* and over again, whenever it was started and whatever was lost: this is  *)
(* why the sender repeats it (udp_sender.rs 71-74).                        *)
ReceiversLearnContext ==
  \A s \in Senders :
    <>[](pc[s] # "Stopped" /\ receiver[DestinationOf[s]] = "Running") => []<>HearsContext(s)
=============================================================================

---------------------------- MODULE DatagramFlow ---------------------------
(***************************************************************************)
(* Sources number the packets of their streams as udp_sender.rs does and   *)
(* are restarted, a network loses, repeats and reorders the datagrams and  *)
(* adds foreign ones, and each source has a PacketStreamParser of its own, *)
(* as README.md asks when stream ids overlap.  The packets are real: a     *)
(* datagram in flight is a byte slice and the parser parses it.            *)
(***************************************************************************)
EXTENDS PacketStream, DatagramNetwork

CONSTANTS
  Keys,        \* the streams every source sends
  Wires(_, _), \* the datagrams of a stream that carry a sequence number
  MaxIndex     \* bound: the last true index a source sends

ASSUME KeysAssumption  == Keys \subseteq SequenceKey
ASSUME BoundsAssumption == MaxIndex \in Nat /\ Capacity \in Nat
ASSUME WireAssumption ==
  \A p \in Parsers, key \in Keys, s \in SequenceNumber : \A d \in Wires(key, s) :
    LET parsed   == ParsePacketExact(d, OptionsOf[p])
        prologue == parsed.packet.prologue
    IN /\ d.words \in Seq(Word) /\ d.extra \in 0..3
       /\ parsed.error = Ok
       /\ prologue.header.packet_type = key.packet_type
       /\ prologue.class_id.packet_class = key.packet_class
       /\ prologue.stream_id = key.stream_id
       /\ prologue.header.sequence = s

VARIABLES
  sequence,  \* each source's counter per stream, the next number it sends
  sent,      \* history: the next true index of each stream
  latest     \* history: the true index of the latest datagram a parser accepted

fvars == <<last_seen, result, sequence, sent, network, latest>>

Indices == 0..MaxIndex

\* A datagram in flight has the true index with it that the wire does not carry.
Message ==
  {m \in [to: Parsers, key: Keys, sequence: SequenceNumber, index: Indices,
          bytes: UNION {Wires(key, s) : key \in Keys, s \in SequenceNumber}] :
     m.bytes \in Wires(m.key, m.sequence)}

FInit ==
  /\ Init
  /\ sequence = [p \in Parsers |-> [key \in Keys |-> 0]]
  /\ sent = [p \in Parsers |-> [key \in Keys |-> 0]]
  /\ network = {}
  /\ latest = [p \in Parsers |-> NothingSeen]

Send(p, key) ==
  /\ sent[p][key] <= MaxIndex
  /\ \E d \in Wires(key, sequence[p][key]) :
       Transmit([to |-> p, key |-> key, sequence |-> sequence[p][key],
                 index |-> sent[p][key], bytes |-> d])
  /\ sequence' = [sequence EXCEPT ![p][key] = NextSequence(@)]
  /\ sent' = [sent EXCEPT ![p][key] = @ + 1]
  /\ UNCHANGED <<last_seen, result, latest>>

\* The first index from n on that a counter of zero can stand for.
NextTurn(n) == Modulus * ((n + (Modulus - 1)) \div Modulus)

(* A source that is run again counts from zero: to whoever compares        *)
(* numbers it skips the rest of the turn.                                  *)
Restart(p) ==
  /\ \A key \in Keys : NextTurn(sent[p][key]) <= MaxIndex + 1
  /\ sequence' = [sequence EXCEPT ![p] = [key \in Keys |-> 0]]
  /\ sent' = [sent EXCEPT ![p] = [key \in Keys |-> NextTurn(@[key])]]
  /\ UNCHANGED <<last_seen, result, network, latest>>

\* The datagram stays in flight: delivering it again is a duplicate.
Deliver(m) ==
  /\ ParseOk(m.to, m.bytes)
  /\ latest' = [latest EXCEPT ![m.to] =
       [k \in DOMAIN @ \cup {m.key} |-> IF k = m.key THEN m.index ELSE @[k]]]
  /\ UNCHANGED <<sequence, sent, network>>

Lose(m) ==
  /\ Drop(m)
  /\ UNCHANGED <<last_seen, result, sequence, sent, latest>>

DeliverForeign(p, d) ==
  /\ ParseErr(p, d)
  /\ UNCHANGED <<sequence, sent, network, latest>>

Reset(p) ==
  /\ ResetSequences(p)
  /\ latest' = [latest EXCEPT ![p] = NothingSeen]
  /\ UNCHANGED <<sequence, sent, network>>

FNext ==
  \/ \E p \in Parsers, key \in Keys : Send(p, key)
  \/ \E m \in network : Deliver(m) \/ Lose(m)
  \/ \E p \in Parsers, d \in Datagrams : DeliverForeign(p, d)
  \/ \E p \in Parsers : Reset(p) \/ Restart(p)

FSpec == FInit /\ [][FNext]_fvars

-----------------------------------------------------------------------------

\* Every value sources, network and parsers can hold (udp_sender.rs next_sequence).
FTypeOK ==
  /\ TypeOK
  /\ sequence \in [Parsers -> [Keys -> SequenceNumber]]
  /\ sent \in [Parsers -> [Keys -> 0..(MaxIndex + 1)]]
  /\ network \subseteq Message
  /\ DOMAIN latest = Parsers
  /\ \A p \in Parsers :
       DOMAIN latest[p] \subseteq Keys /\ latest[p] \in [DOMAIN latest[p] -> Indices]

(* A counter, a datagram in flight and a tracker all hold true indices     *)
(* modulo the counter's size, and a tracker those of exactly the streams   *)
(* its parser has accepted: the link between four bits and true order      *)
(* (sequence.rs 51-65, udp_sender.rs next_sequence).                       *)
NumbersAreIndicesModulo ==
  /\ \A p \in Parsers, key \in Keys : sequence[p][key] = sent[p][key] % Modulus
  /\ \A m \in network : m.sequence = m.index % Modulus
  /\ \A p \in Parsers :
       /\ DOMAIN last_seen[p] = DOMAIN latest[p]
       /\ \A key \in DOMAIN latest[p] : last_seen[p][key] = latest[p][key] % Modulus

VerdictOf(r) ==
  IF r.error = Ok THEN r.sequence_status ELSE [status |-> "None"]

Order == INSTANCE TrueOrder WITH
  Receivers <- Parsers,
  verdict   <- [p \in Parsers |-> VerdictOf(result[p])]

(* Loss, repetition, reordering, foreign datagrams and resets included,    *)
(* what the parsers report is what TrueOrder promises: the truth about the *)
(* two latest datagrams of a stream when they are within a window.         *)
ImplementsTrueOrder == Order!TSpec
=============================================================================

--------------------------- MODULE PacketStream ----------------------------
(***************************************************************************)
(* PacketStreamParser (packet_stream.rs): each parser owns parse options   *)
(* and a sequence tracker, takes one datagram payload at a time, parses it *)
(* exactly and, only when that succeeds, lets the tracker observe it.      *)
(***************************************************************************)
EXTENDS PacketParser, SequenceTracker

CONSTANTS
  Parsers,     \* the parsers a program has created
  OptionsOf,   \* the options each was created with
  Datagrams    \* the payloads that may arrive

ASSUME OptionsOfAssumption == OptionsOf \in [Parsers -> ParseOptions]
ASSUME DatagramsAssumption == \A d \in Datagrams : d.words \in Seq(Word) /\ d.extra \in 0..3

VARIABLES
  last_seen,  \* each parser's tracker
  result      \* what the last call of each parser returned

vars == <<last_seen, result>>

NoResult == [error |-> "NotCalled"]

Init ==
  /\ last_seen = [p \in Parsers |-> NothingSeen]
  /\ result = [p \in Parsers |-> NoResult]

-----------------------------------------------------------------------------
(* parse_datagram: `?` returns before the tracker is reached.              *)

\* Mutant: one tracker serves every parser.
ParseOkShared(p, d) ==
  LET parsed   == ParsePacketExact(d, OptionsOf[p])
      prologue == parsed.packet.prologue
      key      == SequenceKeyOf(prologue)
      sequence == prologue.header.sequence
  IN /\ parsed.error = Ok
     /\ last_seen' = [q \in Parsers |-> Observe(last_seen[q], key, sequence)]
     /\ result' = [result EXCEPT ![p] =
          [error           |-> Ok,
           packet          |-> parsed.packet,
           sequence_status |-> ObservedStatus(last_seen[p], key, sequence)]]

ParseOk(p, d) ==
  LET parsed   == ParsePacketExact(d, OptionsOf[p])
      prologue == parsed.packet.prologue
      key      == SequenceKeyOf(prologue)
      sequence == prologue.header.sequence
  IN /\ parsed.error = Ok
     /\ last_seen' = [last_seen EXCEPT ![p] = Observe(@, key, sequence)]
     /\ result' = [result EXCEPT ![p] =
          [error           |-> Ok,
           packet          |-> parsed.packet,
           sequence_status |-> ObservedStatus(last_seen[p], key, sequence)]]

ParseErr(p, d) ==
  LET error == ParsePacketExact(d, OptionsOf[p]).error
  IN /\ error # Ok
     /\ result' = [result EXCEPT ![p] = [error |-> error]]
     /\ UNCHANGED last_seen

ParseDatagram(p, d) == ParseOk(p, d) \/ ParseErr(p, d)

ResetSequences(p) ==
  /\ last_seen' = [last_seen EXCEPT ![p] = NothingSeen]
  /\ result' = [result EXCEPT ![p] = NoResult]

Next ==
  \E p \in Parsers :
    \/ \E d \in Datagrams : ParseDatagram(p, d)
    \/ ResetSequences(p)

Spec == Init /\ [][Next]_vars

-----------------------------------------------------------------------------

SequenceKey == [packet_type: PacketType, packet_class: PacketClassCode, stream_id: Word]

\* A tracker holds numbers below Modulus for the keys it has observed.
Tracker(t) == /\ DOMAIN t \subseteq SequenceKey
              /\ t \in [DOMAIN t -> SequenceNumber]

\* Every value the parsers can hold (packet_stream.rs 8-21, sequence.rs 5-23).
TypeOK ==
  /\ DOMAIN last_seen = Parsers /\ \A p \in Parsers : Tracker(last_seen[p])
  /\ DOMAIN result = Parsers
  /\ \A p \in Parsers :
       result[p].error = Ok => result[p].sequence_status \in SequenceStatus
=============================================================================

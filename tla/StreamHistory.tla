--------------------------- MODULE StreamHistory ---------------------------
(***************************************************************************)
(* PacketStream with the history a user has in mind: the stream key and    *)
(* number of every datagram a parser has accepted since it was last reset. *)
(* What the tracker holds and what a call returns is stated against it.    *)
(***************************************************************************)
EXTENDS PacketStream, Sequences

CONSTANT MaxLog   \* bound: accepted datagrams each parser sees between two resets

ASSUME MaxLogAssumption == MaxLog \in [Parsers -> Nat]

VARIABLE log

hvars == <<last_seen, result, log>>

HInit == Init /\ log = [p \in Parsers |-> <<>>]

\* The stream a user takes a packet to belong to (README.md, Datagram Streams).
StreamOf(prologue) ==
  [packet_type  |-> prologue.header.packet_type,
   packet_class |-> prologue.class_id.packet_class,
   stream_id    |-> prologue.stream_id]

EntryOf(packet) ==
  [key |-> StreamOf(packet.prologue), sequence |-> packet.prologue.header.sequence]

HParseOk(p, d) ==
  /\ Len(log[p]) < MaxLog[p]
  /\ ParseOk(p, d)
  /\ log' = [log EXCEPT ![p] = Append(@, EntryOf(ParsePacketExact(d, OptionsOf[p]).packet))]

HParseErr(p, d) == ParseErr(p, d) /\ UNCHANGED log

HReset(p) == ResetSequences(p) /\ log' = [log EXCEPT ![p] = <<>>]

HNext ==
  \E p \in Parsers :
    \/ \E d \in Datagrams : HParseOk(p, d) \/ HParseErr(p, d)
    \/ HReset(p)

HSpec == HInit /\ [][HNext]_hvars

-----------------------------------------------------------------------------

\* Whether entry i is the last of its key in a log.
IsLatest(l, i) == \A j \in 1..Len(l) : l[j].key = l[i].key => j <= i

\* Whether a tracker holds the latest number of every key in a log, and nothing else.
Summarises(t, l) ==
  /\ DOMAIN t = {l[i].key : i \in 1..Len(l)}
  /\ \A i \in 1..Len(l) : IsLatest(l, i) => t[l[i].key] = l[i].sequence % Modulus

(* The tracker is exactly what the accepted datagrams make it: a key is    *)
(* known iff a datagram with it was accepted since the last reset, and its *)
(* number is that of the latest one.  A datagram the parser rejected, of   *)
(* whatever kind, left no trace (packet_stream.rs 56-62, sequence.rs 55).  *)
LastSeenIsLatest == \A p \in Parsers : Summarises(last_seen[p], log[p])

\* What two numbers of a stream, one after the other, deserve to be called.
Judgement(previous, actual) ==
  IF actual = previous
  THEN Duplicate
  ELSE IF actual = (previous + 1) % Modulus
       THEN InOrder
       ELSE Gap((previous + 1) % Modulus, actual)

\* Whether a status is what the last entry of a log deserves after those before it.
Deserved(status, l) ==
  LET n       == Len(l)
      earlier == {i \in 1..(n - 1) : l[i].key = l[n].key}
  IN /\ n > 0
     /\ earlier = {} => status = First
     /\ \A i \in earlier :
          (\A j \in earlier : j <= i)
            => status = Judgement(l[i].sequence % Modulus, l[n].sequence % Modulus)

(* The status returned is the one the two latest datagrams of that key     *)
(* deserve, however many of other streams, classes and packet types, and   *)
(* however many rejected ones, came between them (sequence.rs 44-77).      *)
StatusComparesNeighbours ==
  \A p \in Parsers : result[p].error = Ok => Deserved(result[p].sequence_status, log[p])

Entry == [key: SequenceKey, sequence: 0..15]

\* Well-formed logs.
LogOK == log \in [Parsers -> Seq(Entry)]
=============================================================================

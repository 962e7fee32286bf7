------------------------------ MODULE UdpSender ------------------------------
(***************************************************************************)
(* examples/udp_sender.rs: a program that sends a ramp of IQ samples, one  *)
(* full datagram at a time, and a signal context first and then after      *)
(* every few data packets.  Both kinds of packet are written into the same *)
(* buffer, with the writer of the crate, and have counters of their own.   *)
(* Any `?` of the loop (the clock, a refused write, the socket) ends the   *)
(* program; it may then be run again.                                      *)
(***************************************************************************)
EXTENDS IqCodec, SequenceTracker

CONSTANTS
  Senders,             \* the processes that run the program
  UDP_DATAGRAM_WORDS,  \* 2250 in the code: 9000 bytes
  ContextInterval,     \* 5 in the code: data packets from one context to the next
  PacketCounts,        \* 2^64 in the code: what packet_count counts through
  Times                \* what the clock may show

\* The buffer has room for a context and is no larger than a packet can be.
ASSUME UdpSizeAssumption  == UDP_DATAGRAM_WORDS \in 27..MAX_PACKET_WORDS
ASSUME IntervalAssumption == ContextInterval \in Nat \ {0}
ASSUME CountsAssumption   == PacketCounts \in Nat \ {0}
ASSUME TimesAssumption    == Times \subseteq [integer: Word, fractional: Word \X Word]
\* The counters are masked with 0x0F: their numbers fit the four bits of a header.
ASSUME FourBitsAssumption == Modulus <= 16

VARIABLES
  pc,                \* what each sender does next: "Context", "Data" or "Stopped"
  data_sequence, context_sequence,
  packet_count,
  buffer,            \* what both kinds of packet are written into
  since_context      \* history: data packets sent since the last context, up to one too many

uvars == <<pc, data_sequence, context_sequence, packet_count, buffer, since_context>>

-----------------------------------------------------------------------------
(* The packets.                                                            *)

STREAM_ID            == <<\h0102, \h0304>>
SIGNAL_CONTEXT_WORDS == 27
Utc                  == 1
NO_PROLOGUE_WORDS    == UDP_DATAGRAM_WORDS   \* mutant: the prologue's share is forgotten
SAMPLES_PER_PACKET   == UDP_DATAGRAM_WORDS - PROLOGUE_WORDS

SignalDataSpec(sequence, now) ==
  [stream_id |-> STREAM_ID, information_class |-> BasicDataPlane,
   packet_class |-> StandardFlowSignalData, tsi |-> Utc, tsf |-> RealTimePicoseconds,
   sequence |-> sequence,
   integer_seconds_timestamp |-> now.integer, fractional_seconds_timestamp |-> now.fractional]

SamplesForPacket(count) ==
  LET Ramp(index) == ((((count + index) % PacketCounts) % 64) - 32) * 512
  IN [n \in 1..SAMPLES_PER_PACKET |-> [i |-> Ramp(n - 1), q |-> -Ramp(n - 1)]]

\* 20 and 40 MHz, 1.5 GHz and zero, shifted left by twenty.
SignalContextFields ==
  [cif0 |-> CIF_CONTEXT_CHANGED, context_changed |-> TRUE, reference_point |-> <<0, 0>>,
   bandwidth |-> <<<<0, \h1312>>, <<\hD000, 0>>>>,
   if_reference_frequency |-> <<<<0, 0>>, <<0, 0>>>>,
   rf_reference_frequency |-> <<<<5, \h9682>>, <<\hF000, 0>>>>,
   if_band_offset |-> <<<<0, 0>>, <<0, 0>>>>,
   scaling_level |-> 0, reference_level |-> 0, gain2 |-> 0, gain1 |-> 0,
   sample_rate |-> <<<<0, \h2625>>, <<\hA000, 0>>>>,
   timestamp_adjustment |-> <<<<0, 0>>, <<0, 0>>>>,
   timestamp_calibration_time |-> <<0, 0>>, state_and_event_indicators |-> <<0, 0>>,
   payload_format |->
     [raw_word0 |-> <<\hA000, 64 * 15 + 15>>, raw_word1 |-> <<0, 0>>,
      data_item_size_bits |-> 16, item_packing_field_size_bits |-> 16]]

SignalContextPacket(sequence, now) ==
  LET tsb == 1
  IN [variant  |-> "SignalContext",
      prologue |->
        [header |->
           [raw |-> HeaderWord(ContextWithStreamId, tsb, Utc, RealTimePicoseconds, sequence,
                               SIGNAL_CONTEXT_WORDS),
            packet_type |-> ContextWithStreamId, class_id_indicator |-> TRUE,
            type_specific_bits |-> tsb, tsm |-> Some(Coarse), tsi |-> Utc,
            tsf |-> RealTimePicoseconds, sequence |-> sequence,
            packet_size_words |-> SIGNAL_CONTEXT_WORDS],
         stream_id |-> STREAM_ID,
         class_id  |->
           [pad_bit_count |-> 0, oui |-> DIFI_CID, information_class |-> BasicDataPlane,
            packet_class |-> StandardFlowSignalContext],
         integer_seconds_timestamp    |-> now.integer,
         fractional_seconds_timestamp |-> now.fractional],
      body     |-> SignalContextFields]

\* Writing either kind into a sender's buffer, and the part of it that is sent.
DataWrite(s, now) ==
  WriteIqData(16, SignalDataSpec(data_sequence[s], now), SamplesForPacket(packet_count[s]),
              buffer[s])
\* Mutant: one counter serves both kinds.
ContextWriteDataCounter(s, now) ==
  WritePacket(SignalContextPacket(data_sequence[s], now), buffer[s], DefaultOptions)
ContextWrite(s, now) ==
  WritePacket(SignalContextPacket(context_sequence[s], now), buffer[s], DefaultOptions)

WholeBuffer(write) == write.out   \* mutant: &buffer instead of &buffer[..len]
Sent(write) == Slice(SubSeq(write.out.words, 1, write.written \div WORD_BYTES))

-----------------------------------------------------------------------------
(* The program.                                                            *)

BlankBuffer == Slice([i \in 1..UDP_DATAGRAM_WORDS |-> <<0, 0>>])

\* A run of it begins with zeroes, and a context before the loop.
Fresh(s) ==
  /\ pc' = [pc EXCEPT ![s] = "Context"]
  /\ data_sequence' = [data_sequence EXCEPT ![s] = 0]
  /\ context_sequence' = [context_sequence EXCEPT ![s] = 0]
  /\ packet_count' = [packet_count EXCEPT ![s] = 0]
  /\ buffer' = [buffer EXCEPT ![s] = BlankBuffer]
  /\ since_context' = [since_context EXCEPT ![s] = 0]

UInit ==
  /\ pc = [s \in Senders |-> "Context"]
  /\ data_sequence = [s \in Senders |-> 0]
  /\ context_sequence = [s \in Senders |-> 0]
  /\ packet_count = [s \in Senders |-> 0]
  /\ buffer = [s \in Senders |-> BlankBuffer]
  /\ since_context = [s \in Senders |-> 0]

\* Mutants: compares where it should take the remainder; forgets the loop.
ContextOnce(count)      == count = ContextInterval
ContextOnlyFirst(count) == FALSE
ContextDue(count)  == count % ContextInterval = 0

\* The turns of the loop, apart from what they write and send.
turn == <<pc, packet_count, since_context>>

ContextTurn(s) ==
  /\ pc[s] = "Context"
  /\ pc' = [pc EXCEPT ![s] = "Data"]
  /\ since_context' = [since_context EXCEPT ![s] = 0]
  /\ UNCHANGED packet_count

DataTurn(s) ==
  LET count == (packet_count[s] + 1) % PacketCounts
  IN /\ pc[s] = "Data"
     /\ pc' = [pc EXCEPT ![s] = IF ContextDue(count) THEN "Context" ELSE "Data"]
     /\ packet_count' = [packet_count EXCEPT ![s] = count]
     /\ since_context' = [since_context EXCEPT ![s] = IF @ > ContextInterval THEN @ ELSE @ + 1]

SendContext(s, now) ==
  /\ ContextTurn(s)
  /\ ContextWrite(s, now).error = Ok
  /\ buffer' = [buffer EXCEPT ![s] = ContextWrite(s, now).out]
  /\ context_sequence' = [context_sequence EXCEPT ![s] = NextSequence(@)]
  /\ UNCHANGED data_sequence

SendData(s, now) ==
  /\ DataTurn(s)
  /\ DataWrite(s, now).error = Ok
  /\ buffer' = [buffer EXCEPT ![s] = DataWrite(s, now).out]
  /\ data_sequence' = [data_sequence EXCEPT ![s] = NextSequence(@)]
  /\ UNCHANGED context_sequence

\* A `?` returns from main: a refused write, or a clock or socket that fails at any time.
StopSender(s) ==
  /\ pc[s] # "Stopped"
  /\ pc' = [pc EXCEPT ![s] = "Stopped"]
  /\ UNCHANGED <<data_sequence, context_sequence, packet_count, buffer, since_context>>

StartSender(s) == pc[s] = "Stopped" /\ Fresh(s)

-----------------------------------------------------------------------------

\* Every value a sender can hold (udp_sender.rs 49-52).
UdpSenderTypeOK ==
  /\ pc \in [Senders -> {"Context", "Data", "Stopped"}]
  /\ data_sequence \in [Senders -> SequenceNumber]
  /\ context_sequence \in [Senders -> SequenceNumber]
  /\ packet_count \in [Senders -> 0..(PacketCounts - 1)]
  /\ since_context \in [Senders -> 0..(ContextInterval + 1)]
  /\ \A s \in Senders :
       Len(buffer[s].words) = UDP_DATAGRAM_WORDS /\ buffer[s].extra = 0

(* The writer never refuses what the program builds, however long it runs: *)
(* the numbers it asks for stay within four bits, and a data packet always *)
(* fills the datagram, as the assertion says (udp_sender.rs 58-61, 116,    *)
(* 212-214).                                                               *)
SendersNeverRefused ==
  \A s \in Senders, now \in Times :
    /\ pc[s] = "Context" => ContextWrite(s, now).error = Ok
    /\ pc[s] = "Data" =>
         /\ DataWrite(s, now).error = Ok
         /\ DataWrite(s, now).written = WORD_BYTES * UDP_DATAGRAM_WORDS

(* No more data packets than the interval go by without a context, however *)
(* long a sender has run, where its counter wraps included: the counter is *)
(* not reset when a context is sent (udp_sender.rs 70-74).                 *)
ContextWithinInterval == \A s \in Senders : since_context[s] <= ContextInterval
=============================================================================

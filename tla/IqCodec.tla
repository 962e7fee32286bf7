------------------------------- MODULE IqCodec -------------------------------
(***************************************************************************)
(* The direct IQ helpers: write_iq_data_i8 and write_iq_data_i16           *)
(* (writer.rs) build a signal data packet from samples without a Packet,   *)
(* and the iterators of samples.rs decode a payload.  A sample is a pair   *)
(* of signed integers of 8 or 16 bits; on the wire it is two's complement, *)
(* big-endian.  An iterator is the sequence of the samples it yields.      *)
(***************************************************************************)
EXTENDS PacketWriter

SampleBits == {8, 16}
SampleBytes(bits) == bits \div 4

\* ComplexI8 and ComplexI16.
SampleValue(bits) ==
  LET range == -(2^(bits - 1))..(2^(bits - 1) - 1)
  IN [i: range, q: range]

TwosComplement(v, bits) == v % 2^bits
Signed(v, bits)         == IF v < 2^(bits - 1) THEN v ELSE v - 2^bits

-----------------------------------------------------------------------------
(* Encoding: the checks of signal_data_spec_words, then the stores.        *)

\* SignalDataWriteSpec: any value of its fields.
SpecValue ==
  [stream_id: Word, information_class: InformationClassCode, packet_class: PacketClassCode,
   tsi: Tsi, tsf: Tsf, sequence: 0..255, integer_seconds_timestamp: Word,
   fractional_seconds_timestamp: Word \X Word]

\* A spec cannot ask for padding.
SpecClassId(spec) ==
  [pad_bit_count |-> 0, oui |-> DIFI_CID,
   information_class |-> spec.information_class, packet_class |-> spec.packet_class]

SpecHeader(spec, words) ==
  [raw |-> HeaderWord(SignalDataWithStreamId, 0, spec.tsi, spec.tsf, spec.sequence, words),
   packet_type        |-> SignalDataWithStreamId,
   class_id_indicator |-> TRUE,
   type_specific_bits |-> 0,
   tsm                |-> None,
   tsi                |-> spec.tsi,
   tsf                |-> spec.tsf,
   sequence           |-> spec.sequence,
   packet_size_words  |-> words]

IqPacketWords(bits, samples) ==
  PROLOGUE_WORDS + (SampleBytes(bits) * Len(samples)) \div WORD_BYTES

IqError(bits, spec, samples) ==
  LET payload_bytes == SampleBytes(bits) * Len(samples)
      words         == IqPacketWords(bits, samples)
  IN Expect(bits = 8 => Len(samples) % 2 = 0, "OddComplexI8SampleCount")
       ?? Expect(payload_bytes % WORD_BYTES = 0, "PayloadLengthNotWordAligned")
       ?? Expect(spec.sequence <= 15, "FieldOutOfRange")
       ?? Expect(words <= MAX_PACKET_WORDS, "PacketTooLarge")
       ?? ValidatePrologue(DefaultOptions, SpecHeader(spec, words), SpecClassId(spec))
       ?? ValidateClassId(SpecClassId(spec))

\* Mutant: the bytes of a sample in the order they are shifted out.
PackedI8Swapped(s) == 256 * TwosComplement(s.q, 8) + TwosComplement(s.i, 8)
PackedI8(s)        == 256 * TwosComplement(s.i, 8) + TwosComplement(s.q, 8)

PayloadWords(bits, samples) ==
  IF bits = 8
  THEN [k \in 1..(Len(samples) \div 2) |->
          <<PackedI8(samples[2 * k - 1]), PackedI8(samples[2 * k])>>]
  ELSE [k \in 1..Len(samples) |->
          <<TwosComplement(samples[k].i, 16), TwosComplement(samples[k].q, 16)>>]

\* The packet a caller would build by hand instead of calling an IQ helper.
IqPacket(r) ==
  LET words == PayloadWords(r.bits, r.samples)
  IN [variant  |-> "SignalData",
      prologue |-> [header    |-> SpecHeader(r.spec, PROLOGUE_WORDS + Len(words)),
                    stream_id |-> r.spec.stream_id,
                    class_id  |-> SpecClassId(r.spec),
                    integer_seconds_timestamp    |-> r.spec.integer_seconds_timestamp,
                    fractional_seconds_timestamp |-> r.spec.fractional_seconds_timestamp],
      body     |-> [payload |-> Slice(words)]]

SpecPrologueStores(spec, words) ==
  LET class_words == ClassIdWords(SpecClassId(spec))
  IN <<StoreU32(0, SpecHeader(spec, words).raw),
       StoreU32(1, spec.stream_id),
       StoreU32(2, class_words[1]),
       StoreU32(3, class_words[2]),
       StoreU32(4, spec.integer_seconds_timestamp),
       Store(5, spec.fractional_seconds_timestamp)>>

WriteIqData(bits, spec, samples, out) ==
  LET words   == IqPacketWords(bits, samples)
      refused == IqError(bits, spec, samples)
                   ?? Expect(ByteLen(out) >= WORD_BYTES * words, "OutputTooSmall")
      stores  == SpecPrologueStores(spec, words) \o <<Store(7, PayloadWords(bits, samples))>>
      error   == refused ?? StoresError(stores, out.words)
  IN [error   |-> error,
      written |-> IF error = Ok THEN WORD_BYTES * words ELSE 0,
      out     |-> IF refused = Ok THEN [out EXCEPT !.words = Stored(stores, @)] ELSE out]

-----------------------------------------------------------------------------
(* Decoding: iq_i8_samples and iq_i16_samples, for payloads of whole words *)
(* as parsed packets have them.                                            *)

IqSamplesError(bits, payload) ==
  Expect(ByteLen(payload) % SampleBytes(bits) = 0, "MisalignedPayload")

IqSamples(bits, payload) ==
  LET SampleOf(i, q) == [i |-> Signed(i, bits), q |-> Signed(q, bits)]
      HalfWord(k)    == payload.words[(k + 1) \div 2][2 - (k % 2)]
  IN IF bits = 8
     THEN [k \in 1..(2 * Len(payload.words)) |-> SampleOf(HalfWord(k) \div 256, HalfWord(k) % 256)]
     ELSE [k \in 1..Len(payload.words) |-> SampleOf(payload.words[k][1], payload.words[k][2])]
=============================================================================

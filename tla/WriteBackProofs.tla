-------------------------- MODULE WriteBackProofs --------------------------
(***************************************************************************)
(* The writer against the parser, apart from who calls them, for every     *)
(* options, packet value and slice.                                        *)
(*                                                                         *)
(* What the parser accepts the writer writes back: its checks are let      *)
(* through by the writer's own copies of them, and the stores of the       *)
(* writer copy each word to where it was read.  What the writer accepts    *)
(* the parser reads back: of any packet value that passes prepare_packet   *)
(* there is a frame the parser accepts and decodes to that value, and so   *)
(* the first half says that it is what the writer stored.  The IQ helpers  *)
(* store what write_packet does.                                           *)
(***************************************************************************)
EXTENDS WriterProofs

\* A datagram the parser takes becomes a packet value the writer can be given.
LEMMA ParsedIsPacketValue ==
  ASSUME NEW d \in Bytes, NEW o, ParsePacketExact(d, o).error = Ok
  PROVE  ParsePacketExact(d, o).packet \in PacketValue
<1>1. IsSlice(d)
  BY DEF IsSlice, Bytes
<1>2. /\ ParsePacketExact(d, o).packet = PacketOf(FrameOf(d))
      /\ FramingError(d) = Ok /\ PacketError(o, FrameOf(d)) = Ok
  BY ExactReturnsTheFrame
<1>3. FrameOf(d) \in Seq(Word)
  BY <1>1, <1>2, FrameType
<1>4. Len(FrameOf(d)) >= 7
  <2> DEFINE size == PacketSizeWords(ReadU32(d.words, 0))
  <2>1. size \in PROLOGUE_WORDS..Len(d.words) /\ Len(FrameOf(d)) = size
    BY <1>1, <1>2, FrameFacts
  <2> HIDE DEF size
  <2>2. Len(d.words) \in Nat
    BY <1>1 DEF IsSlice
  <2> QED
    BY <2>1, <2>2 DEF PROLOGUE_WORDS
<1> QED
  BY <1>2, <1>3, <1>4, PacketOfType

-----------------------------------------------------------------------------
(* Writing back what was parsed.  First, what the parser let through.      *)

\* The words of a frame that parse_single_packet accepted.
Accepted(o, words) ==
  /\ words \in Seq(Word) /\ Len(words) >= 7
  /\ PacketSizeWords(ReadU32(words, 0)) = Len(words)
  /\ PacketError(o, words) = Ok

ParsedHeader(words)  == HeaderOf(ReadU32(words, 0))
ParsedClassId(words) == ClassIdOf(ReadU32(words, 2), ReadU32(words, 3))
ParsedVariant(words) == VariantOf(ParsedClassId(words).packet_class)

LEMMA AcceptedStages ==
  ASSUME NEW o, NEW words, Accepted(o, words)
  PROVE  /\ HeaderError(ReadU32(words, 0)) = Ok
         /\ ParsedHeader(words).class_id_indicator
         /\ ClassIdError(ReadU32(words, 2), ReadU32(words, 3)) = Ok
         /\ ValidatePrologue(o, ParsedHeader(words), ParsedClassId(words)) = Ok
         /\ BodyError(o, words, Len(words), ParsedClassId(words)) = Ok
<1>1. /\ HeaderError(ReadU32(words, 0)) = Ok
      /\ Expect(ParsedHeader(words).class_id_indicator, "MissingClassId") = Ok
      /\ ClassIdError(ReadU32(words, 2), ReadU32(words, 3)) = Ok
      /\ ValidatePrologue(o, ParsedHeader(words), ParsedClassId(words)) = Ok
      /\ BodyError(o, words, ParsedHeader(words).packet_size_words, ParsedClassId(words)) = Ok
  BY ThenOk DEF PacketError, Accepted, ParsedHeader, ParsedClassId
<1>2. ParsedHeader(words).packet_size_words = Len(words)
  BY DEF ParsedHeader, HeaderOf, Accepted
<1>3. ParsedHeader(words).class_id_indicator
  <2>1. ParsedHeader(words).class_id_indicator \in BOOLEAN
    BY DEF ParsedHeader, HeaderOf
  <2> QED
    BY <1>1, <2>1 DEF Expect, Ok
<1> QED
  BY <1>1, <1>2, <1>3

LEMMA PacketOfParts ==
  ASSUME NEW words
  PROVE  /\ PacketOf(words).variant = ParsedVariant(words)
         /\ PacketOf(words).body = BodyOf(ParsedVariant(words), words)
         /\ PacketOf(words).prologue = PrologueOf(words)
         /\ PacketOf(words).prologue.header = ParsedHeader(words)
         /\ PacketOf(words).prologue.class_id = ParsedClassId(words)
BY DEF PacketOf, PrologueOf, ParsedVariant, ParsedHeader, ParsedClassId

\* The type of a packet goes with its class, and its bits with both.
LEMMA TypeGoesWithVariant ==
  ASSUME NEW o, NEW header, NEW class_id,
         header.type_specific_bits \in 0..7,
         ValidatePrologue(o, header, class_id) = Ok
  PROVE  LET type    == header.packet_type
             tsb     == header.type_specific_bits
             variant == VariantOf(class_id.packet_class)
         IN \/ type = SignalDataWithStreamId /\ variant = "SignalData" /\ tsb = 0
            \/ /\ type \in {ContextWithStreamId, VersionWithStreamId} /\ tsb \in {0, 1}
               /\ variant \in {"SignalContext", "VersionContext"}
            \/ type = CommandWithStreamId /\ variant = "TimingFlowControl" /\ tsb = 0
            \/ /\ type = ExtensionCommandWithStreamId /\ tsb = 0
               /\ variant \in {"SinkCapabilitiesQuery", "StatusReport"}
            \/ /\ type = ExtensionCommandWithStreamId /\ tsb = 4
               /\ variant = "SinkCapabilitiesResponse"
<1> DEFINE type    == header.packet_type
           class   == class_id.packet_class
           tsb     == header.type_specific_bits
           variant == VariantOf(class)
<1>1. /\ ValidatePacketTypeClass(o, type, class) = Ok
      /\ ValidateHeaderBits(header, class) = Ok
  BY ThenOk DEF ValidatePrologue
<1>2. PacketTypeClass(o, type, class)
  <2>1. PacketTypeClass(o, type, class) \in BOOLEAN
    BY DEF PacketTypeClass
  <2> QED
    BY <1>1, <2>1 DEF ValidatePacketTypeClass, Expect, Ok
<1> USE DEF SignalDataWithStreamId, ContextWithStreamId, VersionWithStreamId,
       CommandWithStreamId, ExtensionCommandWithStreamId, StandardFlowSignalData,
       StandardFlowSignalContext, SampleCountSignalData, SampleCountSignalContext,
       VersionFlowSignalContext, SampleCountTimingFlowControl, RealTimeTimingFlowControl,
       SinkCapabilitiesQuery, SinkCapabilitiesResponse, StatusReport
<1>3. \/ type = 1 /\ class \in {0, 2}
      \/ type \in {4, 5} /\ class \in {1, 3, 4}
      \/ type = 6 /\ class \in {5, 6}
      \/ type = 7 /\ class \in {7, 8, 9}
  BY <1>2 DEF PacketTypeClass
<1> DEFINE reserved == Expect(tsb \div 2 = 0, "ReservedBitsNonZero")
           bits == CASE type \in {SignalDataWithStreamId, CommandWithStreamId} ->
                          ExpectBits(0, tsb)
                     [] type \in {ContextWithStreamId, VersionWithStreamId} -> reserved
                     [] type = ExtensionCommandWithStreamId ->
                          CASE class = SinkCapabilitiesResponse -> ExpectBits(4, tsb)
                            [] class \in {SinkCapabilitiesQuery, StatusReport} ->
                                 ExpectBits(0, tsb)
                            [] OTHER -> Ok
<1>4. bits = Ok
  <2> DEFINE indicator == Expect(header.class_id_indicator, "MissingClassId")
             verdict   == ValidateHeaderBits(header, class)
  <2>1. verdict = (indicator ?? bits) /\ verdict = Ok
    BY <1>1 DEF ValidateHeaderBits
  <2> HIDE DEF bits, indicator, verdict
  <2> QED
    BY <2>1 DEF ??, Ok
<1> HIDE DEF reserved
<1>5. CASE type = 1 /\ class \in {0, 2}
  <2>1. ExpectBits(0, tsb) = Ok /\ variant = "SignalData"
    BY <1>4, <1>5 DEF VariantOf
  <2> QED
    BY <1>5, <2>1 DEF ExpectBits, Expect, Ok
<1>6. CASE type \in {4, 5} /\ class \in {1, 3, 4}
  <2>1. reserved = Ok
    BY <1>4, <1>6
  <2>2. variant \in {"SignalContext", "VersionContext"}
    BY <1>6 DEF VariantOf
  <2>3. tsb \div 2 = 0
    BY <2>1 DEF Expect, Ok, reserved
  <2>4. tsb \in {0, 1}
    BY <2>3
  <2> QED
    BY <1>6, <2>2, <2>4
<1>7. CASE type = 6 /\ class \in {5, 6}
  <2>1. ExpectBits(0, tsb) = Ok /\ variant = "TimingFlowControl"
    BY <1>4, <1>7 DEF VariantOf
  <2> QED
    BY <1>7, <2>1 DEF ExpectBits, Expect, Ok
<1>8. CASE type = 7 /\ class \in {7, 9}
  <2>1. ExpectBits(0, tsb) = Ok /\ variant \in {"SinkCapabilitiesQuery", "StatusReport"}
    BY <1>4, <1>8 DEF VariantOf
  <2> QED
    BY <1>8, <2>1 DEF ExpectBits, Expect, Ok
<1>9. CASE type = 7 /\ class = 8
  <2>1. ExpectBits(4, tsb) = Ok /\ variant = "SinkCapabilitiesResponse"
    BY <1>4, <1>9 DEF VariantOf
  <2> QED
    BY <1>9, <2>1 DEF ExpectBits, Expect, Ok
<1> QED
  BY <1>3, <1>5, <1>6, <1>7, <1>8, <1>9

\* Packing the fields of a header word yields the word.
LEMMA HeaderWordIsPacked ==
  ASSUME NEW w \in Word, (w[1] \div 2048) % 2 = 1
  PROVE  HeaderWord(w[1] \div 4096, (w[1] \div 256) % 8, (w[1] \div 64) % 4, (w[1] \div 16) % 4,
                    w[1] % 16, w[2]) = w
<1>1. w = <<w[1], w[2]>> /\ w[1] \in Nat
  <2>1. w = <<w[1], w[2]>> /\ w[1] \in Half
    BY DEF Word
  <2> QED
    BY <2>1, HalfOf
<1> DEFINE n == w[1]
           a == n \div 16
           b == n \div 64
           c == n \div 256
           d == n \div 2048
           e == n \div 4096
<1>2. n \in Nat
  BY <1>1
<1> HIDE DEF n
<1>3. n = 16 * a + (n % 16)
  BY <1>2
<1>4. a = 4 * b + (a % 4)
  BY <1>2
<1>5. b = 4 * c + (b % 4)
  BY <1>2
<1>6. c = 8 * d + (c % 8)
  BY <1>2
<1>7. d = 2 * e + (d % 2)
  BY <1>2
<1>8. d % 2 = 1
  BY DEF n
<1>9. /\ a \in Int /\ b \in Int /\ c \in Int /\ d \in Int /\ e \in Int
      /\ n % 16 \in Int /\ a % 4 \in Int /\ b % 4 \in Int /\ c % 8 \in Int
  BY <1>2
<1> DEFINE n0 == n % 16
           a0 == a % 4
           b0 == b % 4
           c0 == c % 8
           d0 == d % 2
<1>10. /\ n = 16 * a + n0 /\ a = 4 * b + a0 /\ b = 4 * c + b0 /\ c = 8 * d + c0
       /\ d = 2 * e + d0 /\ d0 = 1
  BY <1>3, <1>4, <1>5, <1>6, <1>7, <1>8
<1>11. a0 \in Int /\ b0 \in Int /\ c0 \in Int /\ n0 \in Int
  BY <1>9
<1> HIDE DEF a, b, c, d, e, n0, a0, b0, c0, d0
<1>12. 4096 * e + 2048 + 256 * c0 + 64 * b0 + 16 * a0 + n0 = n
  BY <1>2, <1>9, <1>10, <1>11
<1> QED
  BY <1>1, <1>12 DEF HeaderWord, n, a, b, c, d, e, n0, a0, b0, c0

\* The five bodies with fixed words: what the parser's checks let through the writer's do.
LEMMA SignalDataWritesBack ==
  ASSUME NEW o, NEW words, NEW class_id, DataError(o, words, class_id) = Ok
  PROVE  SignalDataWriteError(o, SignalDataBody(words), class_id) = Ok
<1>1. SignalDataBody(words).payload.words = SubSeq(words, PROLOGUE_WORDS + 1, Len(words))
  BY DEF SignalDataBody, Slice
<1> QED
  BY <1>1 DEF SignalDataWriteError, DataError, WrittenDataPadding

\* The format word packs the item size twice.
LEMMA PayloadFormatWritesBack ==
  ASSUME NEW w0 \in Word, NEW w1, PayloadFormatError(w0, w1) = Ok
  PROVE  PayloadFormatWriteError(PayloadFormatOf(w0, w1)) = Ok
<1> DEFINE f == PayloadFormatOf(w0, w1)
           x == w0[2]
           m == x % 64
<1>1. /\ w0[1] = 40960 /\ x \div 4096 = 0 /\ w1 = <<0, 0>> /\ m = (x \div 64) % 64
      /\ m + 1 \in 4..16
  BY DEF PayloadFormatError, Expect, Ok
<1>2. w0 = <<w0[1], x>> /\ x \in Nat
  <2>1. w0 = <<w0[1], w0[2]>> /\ w0[2] \in Half
    BY DEF Word
  <2> QED
    BY <2>1, HalfOf
<1>3. /\ f.raw_word0 = w0 /\ f.raw_word1 = w1 /\ f.data_item_size_bits = m + 1
      /\ f.item_packing_field_size_bits = ((x \div 64) % 64) + 1
  BY DEF PayloadFormatOf
<1> HIDE DEF f, x
<1>4. x = 64 * m + m
  <2>1. x = 64 * (x \div 64) + (x % 64) /\ (x \div 64) % 64 = x \div 64
    BY <1>1, <1>2
  <2> QED
    BY <1>1, <1>2, <2>1
<1>5. m \in Nat /\ (m + 1) - 1 = m
  BY <1>2
<1> HIDE DEF m
<1>6. f.data_item_size_bits - 1 = m /\ f.raw_word0 = <<40960, 64 * m + m>>
  BY <1>1, <1>2, <1>3, <1>4, <1>5
<1>7. f.item_packing_field_size_bits = f.data_item_size_bits
  BY <1>1, <1>3
<1> DEFINE minus_one == f.data_item_size_bits - 1
           range     == Expect(f.data_item_size_bits \in 4..16, "FieldOutOfRange")
           match     == Expect(/\ f.item_packing_field_size_bits = f.data_item_size_bits
                               /\ f.raw_word0 = <<40960, 64 * minus_one + minus_one>>
                               /\ f.raw_word1 = <<0, 0>>,
                               "FieldMismatch")
<1>8. range = Ok /\ match = Ok
  BY <1>1, <1>3, <1>6, <1>7 DEF Expect
<1>9. PayloadFormatWriteError(f) = (range ?? match)
  BY DEF PayloadFormatWriteError
<1> HIDE DEF range, match
<1>10. PayloadFormatWriteError(f) = Ok
  BY <1>8, <1>9 DEF ??
<1> QED
  BY <1>10 DEF f

LEMMA SignalContextWritesBack ==
  ASSUME NEW words \in Seq(Word), NEW size, NEW class_id,
         SignalContextError(words, size, class_id) = Ok
  PROVE  SignalContextWriteError(SignalContextBody(words), class_id, size) = Ok
<1> DEFINE b       == SignalContextBody(words)
           changed == ReadU32(words, 7) = CIF_CONTEXT_CHANGED
           w0      == ReadU32(words, 25)
           w1      == ReadU32(words, 26)
<1>1. /\ ExpectPacketSize("SignalContext", size) = Ok
      /\ ExpectNoPadding(class_id) = Ok
      /\ ExpectSignalContextCif0(ReadU32(words, 7)) = Ok
      /\ IntegerHz(ReadU64(words, 9)) = Ok
      /\ IntegerHz(ReadU64(words, 19)) = Ok
      /\ IntegerHz(ReadU64(words, 11)) = Ok
      /\ IntegerHz(ReadU64(words, 13)) = Ok
      /\ IntegerHz(ReadU64(words, 15)) = Ok
      /\ PayloadFormatError(w0, w1) = Ok
  BY ThenOk DEF SignalContextError
<1>2. changed \in BOOLEAN
  OBVIOUS
<1>3. changed <=> ReadU32(words, 7) = CIF_CONTEXT_CHANGED
  OBVIOUS
<1>4. /\ b.cif0 = ReadU32(words, 7) /\ b.context_changed = changed
      /\ b.bandwidth = ReadU64(words, 9) /\ b.if_reference_frequency = ReadU64(words, 11)
      /\ b.rf_reference_frequency = ReadU64(words, 13) /\ b.if_band_offset = ReadU64(words, 15)
      /\ b.sample_rate = ReadU64(words, 19) /\ b.payload_format = PayloadFormatOf(w0, w1)
  BY DEF SignalContextBody
<1> HIDE DEF b, changed
<1>5. PayloadFormatWriteError(b.payload_format) = Ok
  BY <1>1, <1>4, ReadU32Type, PayloadFormatWritesBack
<1>6. Expect(b.context_changed <=> b.cif0 = CIF_CONTEXT_CHANGED, "FieldMismatch") = Ok
  BY <1>2, <1>3, <1>4 DEF Expect
<1>7. /\ ExpectSignalContextCif0(b.cif0) = Ok /\ IntegerHz(b.bandwidth) = Ok
      /\ IntegerHz(b.if_reference_frequency) = Ok /\ IntegerHz(b.rf_reference_frequency) = Ok
      /\ IntegerHz(b.if_band_offset) = Ok /\ IntegerHz(b.sample_rate) = Ok
  BY <1>1, <1>4
<1>8. SignalContextWriteError(b, class_id, size) = Ok
  BY <1>1, <1>5, <1>6, <1>7, ThenOk DEF SignalContextWriteError
<1> QED
  BY <1>8 DEF b

LEMMA VersionContextWritesBack ==
  ASSUME NEW words \in Seq(Word), NEW size, NEW class_id,
         VersionContextError(words, size, class_id) = Ok
  PROVE  /\ VersionContextWriteError(VersionContextBody(words), class_id, size) = Ok
         /\ VersionContextBody(words).device_type = 0
         /\ ReadU32(words, 10)[2] % 64 = 0
<1> DEFINE b       == VersionContextBody(words)
           changed == ReadU32(words, 7) = CIF_VERSION_CHANGED
           hi      == ReadU32(words, 10)[1]
           lo      == ReadU32(words, 10)[2]
<1>1. /\ ExpectPacketSize("VersionContext", size) = Ok
      /\ ExpectNoPadding(class_id) = Ok
      /\ ExpectVersionContextCif0(ReadU32(words, 7)) = Ok
      /\ ExpectFixed("version_context_cif1", ReadU32(words, 8)) = Ok
      /\ ExpectFixed("vita49_spec_version", ReadU32(words, 9)) = Ok
      /\ Expect((lo \div 64) % 16 = 0, "InvalidFieldValue") = Ok
      /\ Expect(lo % 64 = Version1, "InvalidFieldValue") = Ok
  BY ThenOk DEF VersionContextError
<1>2. (lo \div 64) % 16 = 0 /\ lo % 64 = 0
  BY <1>1 DEF Expect, Ok, Version1
<1>3. changed \in BOOLEAN /\ (changed <=> ReadU32(words, 7) = CIF_VERSION_CHANGED)
  OBVIOUS
<1>4. /\ b.cif0 = ReadU32(words, 7) /\ b.context_changed = changed
      /\ b.cif1 = ReadU32(words, 8) /\ b.vita49_spec_version = ReadU32(words, 9)
      /\ b.year = hi \div 512 /\ b.day = hi % 512 /\ b.revision = lo \div 1024
      /\ b.device_type = (lo \div 64) % 16 /\ b.icd_version = Version1
  BY DEF VersionContextBody
<1>5. hi \in Nat /\ hi <= 65535 /\ lo \in Nat /\ lo <= 65535
  BY ReadTypes, HalfOf
<1> HIDE DEF b, changed, hi, lo
<1>6. b.year <= 127 /\ b.day <= 511 /\ b.revision <= 63
  <2>1. hi \div 512 <= 127 /\ hi % 512 <= 511 /\ lo \div 1024 <= 63
    BY <1>5
  <2> QED
    BY <1>4, <2>1
<1>7. b.device_type = 0 /\ b.icd_version = Version1
  BY <1>2, <1>4
<1>8. /\ Expect(b.context_changed <=> b.cif0 = CIF_VERSION_CHANGED, "FieldMismatch") = Ok
      /\ Expect(b.year <= 127 /\ b.day <= 511 /\ b.revision <= 63, "FieldOutOfRange") = Ok
      /\ Expect(b.device_type = 0 /\ b.icd_version = Version1, "FieldMismatch") = Ok
  <2>1. Expect(b.context_changed <=> b.cif0 = CIF_VERSION_CHANGED, "FieldMismatch") = Ok
    BY <1>3, <1>4 DEF Expect
  <2>2. Expect(b.year <= 127 /\ b.day <= 511 /\ b.revision <= 63, "FieldOutOfRange") = Ok
    BY <1>6 DEF Expect
  <2>3. Expect(b.device_type = 0 /\ b.icd_version = Version1, "FieldMismatch") = Ok
    BY <1>7 DEF Expect
  <2> QED
    BY <2>1, <2>2, <2>3
<1>9. /\ ExpectVersionContextCif0(b.cif0) = Ok
      /\ ExpectFixed("version_context_cif1", b.cif1) = Ok
      /\ ExpectFixed("vita49_spec_version", b.vita49_spec_version) = Ok
  BY <1>1, <1>4
<1>10. VersionContextWriteError(b, class_id, size) = Ok
  BY <1>1, <1>8, <1>9, ThenOk DEF VersionContextWriteError
<1> QED
  BY <1>2, <1>7, <1>10 DEF b, lo

\* The status word is its level and its four flags.
LEMMA BufferStatusWritesBack ==
  ASSUME NEW w \in Word, w[1] = 0
  PROVE  BufferStatusWriteError(BufferStatusOf(w)) = Ok
<1> DEFINE s  == BufferStatusOf(w)
           n  == w[2]
           f3 == (n \div 8) % 2 = 1
           f2 == (n \div 4) % 2 = 1
           f1 == (n \div 2) % 2 = 1
           f0 == n % 2 = 1
           Bit(flag, weight) == IF flag THEN weight ELSE 0
<1>1. w = <<0, n>> /\ n \in Nat /\ n <= 65535
  <2>1. w = <<w[1], w[2]>> /\ w[2] \in Half
    BY DEF Word
  <2> QED
    BY <2>1, HalfOf
<1>2. /\ f3 \in BOOLEAN /\ f2 \in BOOLEAN /\ f1 \in BOOLEAN /\ f0 \in BOOLEAN
  OBVIOUS
<1>3. s = [raw |-> w, buffer_level |-> n \div 16, overflow |-> f3, nearly_full |-> f2,
           nearly_empty |-> f1, underflow |-> f0]
  BY DEF BufferStatusOf
<1> HIDE DEF n
<1>4. n = 16 * (n \div 16) + Bit(f3, 8) + Bit(f2, 4) + Bit(f1, 2) + Bit(f0, 1)
  <2>1. n = 2 * (n \div 2) + (n % 2) /\ (n % 2 = 0 \/ n % 2 = 1)
    BY <1>1
  <2>2. /\ n \div 2 = 2 * (n \div 4) + ((n \div 2) % 2)
        /\ (n \div 2) % 2 = 0 \/ (n \div 2) % 2 = 1
    BY <1>1
  <2>3. /\ n \div 4 = 2 * (n \div 8) + ((n \div 4) % 2)
        /\ (n \div 4) % 2 = 0 \/ (n \div 4) % 2 = 1
    BY <1>1
  <2>4. /\ n \div 8 = 2 * (n \div 16) + ((n \div 8) % 2)
        /\ (n \div 8) % 2 = 0 \/ (n \div 8) % 2 = 1
    BY <1>1
  <2>5. n \div 16 \in Int /\ n \div 8 \in Int /\ n \div 4 \in Int /\ n \div 2 \in Int
    BY <1>1
  <2>6. n = 16 * (n \div 16) + 8 * ((n \div 8) % 2) + 4 * ((n \div 4) % 2)
              + 2 * ((n \div 2) % 2) + (n % 2)
    BY <1>1, <2>1, <2>2, <2>3, <2>4, <2>5
  <2>7. /\ Bit(f3, 8) = 8 * ((n \div 8) % 2) /\ Bit(f2, 4) = 4 * ((n \div 4) % 2)
        /\ Bit(f1, 2) = 2 * ((n \div 2) % 2) /\ Bit(f0, 1) = n % 2
    BY <2>1, <2>2, <2>3, <2>4
  <2> QED
    BY <2>6, <2>7
<1>5. n \div 16 \in Nat /\ n \div 16 <= 4095
  BY <1>1
<1> DEFINE flags == Bit(s.overflow, 8) + Bit(s.nearly_full, 4) + Bit(s.nearly_empty, 2)
                      + Bit(s.underflow, 1)
<1> HIDE DEF s, f3, f2, f1, f0
<1>6. /\ s.raw = w /\ s.buffer_level = n \div 16 /\ s.overflow = f3 /\ s.nearly_full = f2
      /\ s.nearly_empty = f1 /\ s.underflow = f0
  BY <1>3
<1>7. n = 16 * s.buffer_level + flags
  <2>1. /\ Bit(f3, 8) \in Int /\ Bit(f2, 4) \in Int /\ Bit(f1, 2) \in Int /\ Bit(f0, 1) \in Int
    OBVIOUS
  <2>2. /\ Bit(s.overflow, 8) = Bit(f3, 8) /\ Bit(s.nearly_full, 4) = Bit(f2, 4)
        /\ Bit(s.nearly_empty, 2) = Bit(f1, 2) /\ Bit(s.underflow, 1) = Bit(f0, 1)
    BY <1>6
  <2> HIDE DEF Bit
  <2> QED
    BY <1>4, <1>5, <1>6, <2>1, <2>2
<1> DEFINE range == Expect(s.buffer_level <= 4095, "FieldOutOfRange")
           match == Expect(s.raw = <<0, 16 * s.buffer_level + flags>>, "FieldMismatch")
<1>8. BufferStatusWriteError(s) = (range ?? match)
  BY DEF BufferStatusWriteError
<1> HIDE DEF flags
<1>9. range = Ok /\ match = Ok
  BY <1>1, <1>5, <1>6, <1>7 DEF Expect
<1> HIDE DEF range, match
<1>10. BufferStatusWriteError(s) = Ok
  BY <1>8, <1>9 DEF ??
<1> QED
  BY <1>10 DEF s

LEMMA TimingFlowControlWritesBack ==
  ASSUME NEW words \in Seq(Word), NEW size, NEW class_id,
         TimingFlowControlError(words, size, class_id) = Ok
  PROVE  TimingFlowControlWriteError(TimingFlowControlBody(words), class_id, size) = Ok
<1> DEFINE b == TimingFlowControlBody(words)
           w == ReadU32(words, 20)
<1>1. /\ ExpectPacketSize("TimingFlowControl", size) = Ok
      /\ ExpectNoPadding(class_id) = Ok
      /\ ExpectFixed("timing_flow_control_cam", ReadU32(words, 7)) = Ok
      /\ ExpectFixed("timing_flow_control_cif0", ReadU32(words, 11)) = Ok
      /\ ExpectFixed("timing_flow_control_cif1", ReadU32(words, 12)) = Ok
      /\ IntegerHz(ReadU64(words, 14)) = Ok
      /\ Expect(w[1] = 0, "ReservedBitsNonZero") = Ok
  BY ThenOk DEF TimingFlowControlError
<1>2. w[1] = 0
  BY <1>1 DEF Expect, Ok
<1>3. /\ b.common = Common(words) /\ b.cif0 = ReadU32(words, 11) /\ b.cif1 = ReadU32(words, 12)
      /\ b.sample_rate = ReadU64(words, 14) /\ b.buffer_status = BufferStatusOf(w)
  BY DEF TimingFlowControlBody
<1>4. Common(words).cam = ReadU32(words, 7)
  BY DEF Common
<1>5. BufferStatusWriteError(BufferStatusOf(w)) = Ok
  BY <1>2, ReadU32Type, BufferStatusWritesBack
<1> HIDE DEF b
<1>6. /\ ExpectFixed("timing_flow_control_cam", b.common.cam) = Ok
      /\ ExpectFixed("timing_flow_control_cif0", b.cif0) = Ok
      /\ ExpectFixed("timing_flow_control_cif1", b.cif1) = Ok
      /\ IntegerHz(b.sample_rate) = Ok /\ BufferStatusWriteError(b.buffer_status) = Ok
  BY <1>1, <1>3, <1>4, <1>5
<1>7. TimingFlowControlWriteError(b, class_id, size) = Ok
  BY <1>1, <1>6, ThenOk DEF TimingFlowControlWriteError
<1> QED
  BY <1>7 DEF b

\* An optional field is there when the parser's condition for it holds.
LEMMA WhenMeans ==
  ASSUME NEW x
  PROVE  /\ Present(When(TRUE, x)) /\ When(TRUE, x)[1] = x /\ When(TRUE, x) = <<x>>
         /\ ~Present(When(FALSE, x))
BY DEF When, Present, Some, None

LEMMA SinkCapabilitiesQueryWritesBack ==
  ASSUME NEW words, NEW size, NEW class_id,
         SinkCapabilitiesQueryError(words, size, class_id) = Ok
  PROVE  SinkCapabilitiesQueryWriteError(SinkCapabilitiesQueryBody(words), class_id, size) = Ok
<1> DEFINE b == SinkCapabilitiesQueryBody(words)
<1>1. CapabilityCommonError(words, class_id, "sink_capabilities_query_cam") = Ok
  BY ThenOk DEF SinkCapabilitiesQueryError
<1>2. /\ ExpectNoPadding(class_id) = Ok
      /\ ExpectFixed("sink_capabilities_query_cam", ReadU32(words, 7)) = Ok
  BY <1>1, ThenOk DEF CapabilityCommonError
<1>3. b.common.cam = ReadU32(words, 7) /\ b.cif0 = ReadU32(words, 11)
  BY DEF SinkCapabilitiesQueryBody, Common
<1>4. CASE IsShort(words)
  <2>1. /\ ExpectPacketSize("SinkCapabilitiesQueryShort", size) = Ok
        /\ ExpectFixed("sink_capabilities_short_query_cif0", ReadU32(words, 11)) = Ok
    BY <1>4, ThenOk DEF SinkCapabilitiesQueryError
  <2>2. /\ b.form = "Short" /\ b.cif1 = When(FALSE, ReadU32(words, 12))
        /\ b.sink_time_calibration_integer = When(TRUE, ReadU32(words, 12))
        /\ b.sink_time_calibration_fractional = When(TRUE, ReadU64(words, 13))
    BY <1>4 DEF SinkCapabilitiesQueryBody
  <2> HIDE DEF b
  <2>3. /\ ~Present(b.cif1) /\ Present(b.sink_time_calibration_integer)
        /\ Present(b.sink_time_calibration_fractional)
    BY <2>2, WhenMeans
  <2>4. Forbidden(<<b.cif1>>) = Ok
    BY <2>3 DEF Forbidden, Expect
  <2>5. QueryShortFields(b) = Ok
    BY <2>3 DEF QueryShortFields, Required, Expect
  <2>6. ExpectFixed("sink_capabilities_query_cam", b.common.cam) = Ok
    BY <1>2, <1>3
  <2>7. ExpectFixed("sink_capabilities_short_query_cif0", b.cif0) = Ok
    BY <1>3, <2>1
  <2>8. b.form # "Long"
    BY <2>2
  <2>9. SinkCapabilitiesQueryWriteError(b, class_id, size) = Ok
    BY <1>2, <2>1, <2>4, <2>5, <2>6, <2>7, <2>8, ThenOk DEF SinkCapabilitiesQueryWriteError
  <2> QED
    BY <2>9 DEF b
<1>5. CASE ~IsShort(words)
  <2>1. /\ ExpectPacketSize("SinkCapabilitiesQueryLong", size) = Ok
        /\ ExpectFixed("sink_capabilities_long_query_cif0", ReadU32(words, 11)) = Ok
        /\ ExpectFixed("sink_capabilities_long_query_cif1", ReadU32(words, 12)) = Ok
    BY <1>5, ThenOk DEF SinkCapabilitiesQueryError
  <2>2. /\ b.form = "Long" /\ b.cif1 = Some(ReadU32(words, 12))
        /\ b.sink_time_calibration_integer = None
        /\ b.sink_time_calibration_fractional = None
    BY <1>5 DEF SinkCapabilitiesQueryBody, When
  <2> HIDE DEF b
  <2>3. /\ Present(b.cif1) /\ b.cif1[1] = ReadU32(words, 12)
        /\ ~Present(b.sink_time_calibration_integer)
        /\ ~Present(b.sink_time_calibration_fractional)
    BY <2>2 DEF Present, Some, None
  <2>4. Required(<<b.cif1>>) = Ok
    BY <2>3 DEF Required, Expect
  <2>5. Forbidden(<<b.sink_time_calibration_integer, b.sink_time_calibration_fractional>>) = Ok
    BY <2>3 DEF Forbidden, Expect
  <2>6. ExpectFixed("sink_capabilities_query_cam", b.common.cam) = Ok
    BY <1>2, <1>3
  <2>7. /\ ExpectFixed("sink_capabilities_long_query_cif0", b.cif0) = Ok
        /\ ExpectFixed("sink_capabilities_long_query_cif1", b.cif1[1]) = Ok
    BY <1>3, <2>1, <2>3
  <2> DEFINE long == ExpectPacketSize("SinkCapabilitiesQueryLong", size)
                       ?? ExpectFixed("sink_capabilities_long_query_cif0", b.cif0)
                       ?? Required(<<b.cif1>>)
                       ?? ExpectFixed("sink_capabilities_long_query_cif1", b.cif1[1])
                       ?? Forbidden(<<b.sink_time_calibration_integer,
                               b.sink_time_calibration_fractional>>)
  <2>8. long = Ok
    BY <2>1, <2>4, <2>5, <2>7, ThenOk
  <2> HIDE DEF long
  <2>9. SinkCapabilitiesQueryWriteError(b, class_id, size)
          = (ExpectNoPadding(class_id)
               ?? ExpectFixed("sink_capabilities_query_cam", b.common.cam)
               ?? long)
    BY <2>2 DEF SinkCapabilitiesQueryWriteError, long
  <2>10. SinkCapabilitiesQueryWriteError(b, class_id, size) = Ok
    BY <1>2, <2>6, <2>8, <2>9, ThenOk
  <2> QED
    BY <2>10 DEF b
<1> QED
  BY <1>4, <1>5

LEMMA SinkCapabilitiesResponseWritesBack ==
  ASSUME NEW words, NEW size, NEW class_id,
         SinkCapabilitiesResponseError(words, size, class_id) = Ok
  PROVE  SinkCapabilitiesResponseWriteError(SinkCapabilitiesResponseBody(words), class_id, size)
           = Ok
<1> DEFINE b == SinkCapabilitiesResponseBody(words)
<1>1. CapabilityCommonError(words, class_id, "sink_capabilities_response_cam") = Ok
  BY ThenOk DEF SinkCapabilitiesResponseError
<1>2. /\ ExpectNoPadding(class_id) = Ok
      /\ ExpectFixed("sink_capabilities_response_cam", ReadU32(words, 7)) = Ok
  BY <1>1, ThenOk DEF CapabilityCommonError
<1>3. b.common.cam = ReadU32(words, 7) /\ b.cif0 = ReadU32(words, 11)
  BY DEF SinkCapabilitiesResponseBody, Common
<1>4. CASE IsShort(words)
  <2>1. /\ ExpectPacketSize("SinkCapabilitiesResponseShort", size) = Ok
        /\ ExpectFixed("sink_capabilities_short_response_cif0", ReadU32(words, 11)) = Ok
    BY <1>4, ThenOk DEF SinkCapabilitiesResponseError
  <2>2. /\ b.form = "Short" /\ b.cif1 = When(FALSE, ReadU32(words, 12))
        /\ b.control_packet_integer_timestamp = When(TRUE, ReadU32(words, 12))
        /\ b.control_packet_fractional_timestamp = When(TRUE, ReadU64(words, 13))
        /\ b.sink_reception_integer_timestamp = When(TRUE, ReadU32(words, 15))
        /\ b.sink_reception_fractional_timestamp = When(TRUE, ReadU64(words, 16))
        /\ b.capability_table = Slice(<<>>)
    BY <1>4 DEF SinkCapabilitiesResponseBody
  <2> HIDE DEF b
  <2>3. /\ ~Present(b.cif1) /\ Present(b.control_packet_integer_timestamp)
        /\ Present(b.control_packet_fractional_timestamp)
        /\ Present(b.sink_reception_integer_timestamp)
        /\ Present(b.sink_reception_fractional_timestamp)
    BY <2>2, WhenMeans
  <2>4. Forbidden(<<b.cif1>>) = Ok
    BY <2>3 DEF Forbidden, Expect
  <2>5. Required(ResponseTimestamps(b)) = Ok
    BY <2>3 DEF ResponseTimestamps, Required, Expect
  <2>6. ExpectFixed("sink_capabilities_response_cam", b.common.cam) = Ok
    BY <1>2, <1>3
  <2>7. ExpectFixed("sink_capabilities_short_response_cif0", b.cif0) = Ok
    BY <1>3, <2>1
  <2>8. b.form # "Long"
    BY <2>2
  <2>9. Expect(ByteLen(b.capability_table) = 0, "UnexpectedField") = Ok
    BY <2>2 DEF ByteLen, Slice, WORD_BYTES, Expect
  <2>10. SinkCapabilitiesResponseWriteError(b, class_id, size) = Ok
    BY <1>2, <2>1, <2>4, <2>5, <2>6, <2>7, <2>8, <2>9, ThenOk
    DEF SinkCapabilitiesResponseWriteError
  <2> QED
    BY <2>10 DEF b
<1>5. CASE ~IsShort(words)
  <2>1. /\ Expect(size > 13, "InvalidPacketSize") = Ok
        /\ ExpectFixed("sink_capabilities_long_response_cif0", ReadU32(words, 11)) = Ok
        /\ ExpectFixed("sink_capabilities_long_response_cif1", ReadU32(words, 12)) = Ok
    BY <1>5, ThenOk DEF SinkCapabilitiesResponseError
  <2>2. /\ b.form = "Long" /\ b.cif1 = Some(ReadU32(words, 12))
        /\ b.control_packet_integer_timestamp = None
        /\ b.control_packet_fractional_timestamp = None
        /\ b.sink_reception_integer_timestamp = None
        /\ b.sink_reception_fractional_timestamp = None
    BY <1>5 DEF SinkCapabilitiesResponseBody, When
  <2> HIDE DEF b
  <2>3. /\ Present(b.cif1) /\ b.cif1[1] = ReadU32(words, 12)
        /\ ~Present(b.control_packet_integer_timestamp)
        /\ ~Present(b.control_packet_fractional_timestamp)
        /\ ~Present(b.sink_reception_integer_timestamp)
        /\ ~Present(b.sink_reception_fractional_timestamp)
    BY <2>2 DEF Present, Some, None
  <2>4. Required(<<b.cif1>>) = Ok
    BY <2>3 DEF Required, Expect
  <2>5. Forbidden(ResponseTimestamps(b)) = Ok
    BY <2>3 DEF ResponseTimestamps, Forbidden, Expect
  <2>6. ExpectFixed("sink_capabilities_response_cam", b.common.cam) = Ok
    BY <1>2, <1>3
  <2>7. /\ ExpectFixed("sink_capabilities_long_response_cif0", b.cif0) = Ok
        /\ ExpectFixed("sink_capabilities_long_response_cif1", b.cif1[1]) = Ok
    BY <1>3, <2>1, <2>3
  <2> DEFINE long == Expect(size > 13, "InvalidPacketSize")
                       ?? ExpectFixed("sink_capabilities_long_response_cif0", b.cif0)
                       ?? Required(<<b.cif1>>)
                       ?? ExpectFixed("sink_capabilities_long_response_cif1", b.cif1[1])
                       ?? Forbidden(ResponseTimestamps(b))
  <2>8. long = Ok
    BY <2>1, <2>4, <2>5, <2>7, ThenOk
  <2> HIDE DEF long
  <2>9. SinkCapabilitiesResponseWriteError(b, class_id, size)
          = (ExpectNoPadding(class_id)
               ?? ExpectFixed("sink_capabilities_response_cam", b.common.cam)
               ?? long)
    BY <2>2 DEF SinkCapabilitiesResponseWriteError, long
  <2>10. SinkCapabilitiesResponseWriteError(b, class_id, size) = Ok
    BY <1>2, <2>6, <2>8, <2>9, ThenOk
  <2> QED
    BY <2>10 DEF b
<1> QED
  BY <1>4, <1>5

\* The size of a status report says which of the limits it holds.
LEMMA StatusReportFields ==
  ASSUME NEW words, PacketSizeWords(ReadU32(words, 0)) \in {15, 17, 21}
  PROVE  LET size == PacketSizeWords(ReadU32(words, 0))
             b    == StatusReportBody(words)
         IN /\ StatusShape(b) \in StatusShapes /\ StatusReportWords(b) = size
            /\ Present(b.reference_level_limit) <=> size >= 17
            /\ Present(b.sample_rate_limit) <=> size = 21
            /\ Present(b.bandwidth_limit) <=> size = 21
            /\ size >= 17 => b.reference_level_limit[1] = <<ReadU32(words, 15), ReadU32(words, 16)>>
            /\ size = 21 => /\ b.sample_rate_limit[1] = ReadU64(words, 17)
                            /\ b.bandwidth_limit[1] = ReadU64(words, 19)
<1> DEFINE size == PacketSizeWords(ReadU32(words, 0))
           b    == StatusReportBody(words)
           p    == Present(b.reference_level_limit)
           q    == Present(b.sample_rate_limit)
           r    == Present(b.bandwidth_limit)
<1>1. /\ b.reference_level_limit = When(size >= 17, <<ReadU32(words, 15), ReadU32(words, 16)>>)
      /\ b.sample_rate_limit = When(size = 21, ReadU64(words, 17))
      /\ b.bandwidth_limit = When(size = 21, ReadU64(words, 19))
  BY DEF StatusReportBody
<1> HIDE DEF b, size
<1>2. /\ p <=> size >= 17
      /\ q <=> size = 21
      /\ r <=> size = 21
      /\ size >= 17 => b.reference_level_limit[1] = <<ReadU32(words, 15), ReadU32(words, 16)>>
      /\ size = 21 => /\ b.sample_rate_limit[1] = ReadU64(words, 17)
                      /\ b.bandwidth_limit[1] = ReadU64(words, 19)
  BY <1>1 DEF When, Present, Some, None
<1>3. size \in {15, 17, 21}
  BY DEF size
<1>4. StatusReportWords(b) = size
  BY <1>2, <1>3 DEF StatusReportWords
<1>5. p \in BOOLEAN /\ q \in BOOLEAN /\ r \in BOOLEAN
  BY DEF Present
<1>6. StatusShape(b) = <<p, q, r>>
  BY DEF StatusShape
<1>7. StatusShape(b) \in StatusShapes
  <2>1. CASE size = 15
    <3>1. p = FALSE /\ q = FALSE /\ r = FALSE
      BY <1>2, <2>1
    <3> QED
      BY <1>6, <3>1 DEF StatusShapes
  <2>2. CASE size = 17
    <3>1. p = TRUE /\ q = FALSE /\ r = FALSE
      BY <1>2, <1>5, <2>2
    <3> QED
      BY <1>6, <3>1 DEF StatusShapes
  <2>3. CASE size = 21
    <3>1. p = TRUE /\ q = TRUE /\ r = TRUE
      BY <1>2, <1>5, <2>3
    <3> QED
      BY <1>6, <3>1 DEF StatusShapes
  <2> QED
    BY <1>3, <2>1, <2>2, <2>3
<1> QED
  BY <1>2, <1>4, <1>7 DEF b, size

LEMMA StatusReportWritesBack ==
  ASSUME NEW words, NEW class_id,
         StatusReportError(words, PacketSizeWords(ReadU32(words, 0)), class_id) = Ok
  PROVE  LET size == PacketSizeWords(ReadU32(words, 0))
         IN /\ size \in {15, 17, 21}
            /\ StatusReportWriteError(StatusReportBody(words), class_id, size) = Ok
<1> DEFINE b    == StatusReportBody(words)
           size == PacketSizeWords(ReadU32(words, 0))
           Limit(option) == IF Present(option) THEN IntegerHz(option[1]) ELSE Ok
           long == IF size = 21
                   THEN Needs(words, 20) ?? IntegerHz(ReadU64(words, 17))
                          ?? IntegerHz(ReadU64(words, 19))
                   ELSE Ok
<1>1. /\ ValidateStatusReportSize(size) = Ok
      /\ ExpectNoPadding(class_id) = Ok
      /\ ExpectFixed("status_report_cam", ReadU32(words, 7)) = Ok
      /\ ExpectFixed("status_report_cif0", ReadU32(words, 11)) = Ok
      /\ ExpectFixed("status_report_cif1", ReadU32(words, 12)) = Ok
      /\ Expect(StatusFlags(words) = ExpectedStatusFlags(size), "InvalidFieldValue") = Ok
      /\ long = Ok
  <2> HIDE DEF long
  <2>1. StatusReportError(words, size, class_id)
          = (ValidateStatusReportSize(size)
               ?? ExpectNoPadding(class_id)
               ?? Needs(words, 14)
               ?? ExpectFixed("status_report_cam", ReadU32(words, 7))
               ?? ExpectFixed("status_report_cif0", ReadU32(words, 11))
               ?? ExpectFixed("status_report_cif1", ReadU32(words, 12))
               ?? Expect(size \in {15, 17, 21}, Panic)
               ?? Expect(StatusFlags(words) = ExpectedStatusFlags(size), "InvalidFieldValue")
               ?? (IF size >= 17 THEN Needs(words, 16) ELSE Ok)
               ?? long)
    BY DEF StatusReportError, long
  <2> QED
    BY <2>1, ThenOk
<1>2. size \in {15, 17, 21} /\ StatusFlags(words) = ExpectedStatusFlags(size)
  BY <1>1 DEF ValidateStatusReportSize, STATUS_REPORT_SIZES, Expect, Ok
<1>3. size = 21 => IntegerHz(ReadU64(words, 17)) = Ok /\ IntegerHz(ReadU64(words, 19)) = Ok
  BY <1>1, ThenOk
<1>4. /\ b.common.cam = ReadU32(words, 7) /\ b.cif0 = ReadU32(words, 11)
      /\ b.cif1 = ReadU32(words, 12) /\ b.sink_errors_warnings = ReadU32(words, 14)
  BY DEF StatusReportBody, Common
<1>5. /\ StatusReportWords(b) = size
      /\ Present(b.sample_rate_limit) <=> size = 21
      /\ Present(b.bandwidth_limit) <=> size = 21
      /\ size = 21 => /\ b.sample_rate_limit[1] = ReadU64(words, 17)
                      /\ b.bandwidth_limit[1] = ReadU64(words, 19)
  BY <1>2, StatusReportFields
<1> HIDE DEF b, size, long
<1>6. Limit(b.sample_rate_limit) = Ok /\ Limit(b.bandwidth_limit) = Ok
  BY <1>3, <1>5
<1>7. Expect(QuantitativeFlags(b.sink_errors_warnings)
               = ExpectedQuantitativeFlags(StatusReportWords(b)), "FieldMismatch") = Ok
  <2>1. QuantitativeFlags(b.sink_errors_warnings) = StatusFlags(words)
    BY <1>4 DEF QuantitativeFlags, StatusFlags
  <2>2. ExpectedQuantitativeFlags(size) = ExpectedStatusFlags(size)
    BY <1>2 DEF ExpectedQuantitativeFlags, ExpectedStatusFlags
  <2> QED
    BY <1>2, <1>5, <2>1, <2>2 DEF Expect
<1>8. /\ ExpectFixed("status_report_cam", b.common.cam) = Ok
      /\ ExpectFixed("status_report_cif0", b.cif0) = Ok
      /\ ExpectFixed("status_report_cif1", b.cif1) = Ok
  BY <1>1, <1>4
<1>9. StatusReportWriteError(b, class_id, size) = Ok
  <2>1. StatusReportWriteError(b, class_id, size)
          = (ExpectNoPadding(class_id)
               ?? ValidateStatusReportSize(size)
               ?? ExpectFixed("status_report_cam", b.common.cam)
               ?? ExpectFixed("status_report_cif0", b.cif0)
               ?? ExpectFixed("status_report_cif1", b.cif1)
               ?? Expect(QuantitativeFlags(b.sink_errors_warnings)
                           = ExpectedQuantitativeFlags(StatusReportWords(b)), "FieldMismatch")
               ?? Limit(b.sample_rate_limit)
               ?? Limit(b.bandwidth_limit))
    BY DEF StatusReportWriteError
  <2> HIDE DEF Limit
  <2> QED
    BY <1>1, <1>6, <1>7, <1>8, <2>1, ThenOk
<1> QED
  BY <1>2, <1>9 DEF b, size

\* The length the writer plans for a packet is the one it was parsed from.
LEMMA PlanPasses ==
  ASSUME NEW p,
         p.variant = "SignalData" => p.body.payload.extra = 0,
         p.variant = "SinkCapabilitiesResponse" /\ p.body.form = "Long" =>
           p.body.capability_table.extra = 0,
         p.variant = "StatusReport" => StatusShape(p.body) \in StatusShapes,
         PlannedWords(p) <= MAX_PACKET_WORDS
  PROVE  PlannedWordsError(p) = Ok
<1>1. /\ Expect(p.variant = "SignalData" => p.body.payload.extra = 0,
                "PayloadLengthNotWordAligned") = Ok
      /\ Expect(p.variant = "SinkCapabilitiesResponse" /\ p.body.form = "Long" =>
                  p.body.capability_table.extra = 0,
                "CapabilityTableLengthNotWordAligned") = Ok
      /\ Expect(p.variant = "StatusReport" => StatusShape(p.body) \in StatusShapes,
                "MissingField") = Ok
      /\ Expect(PlannedWords(p) <= MAX_PACKET_WORDS, "PacketTooLarge") = Ok
  BY DEF Expect
<1> QED
  BY <1>1, ThenOk DEF PlannedWordsError

\* The part of a frame from word m on.
LEMMA RestOfFrame ==
  ASSUME NEW words \in Seq(Word), NEW m \in 1..Len(words) + 1
  PROVE  /\ Slice(SubSeq(words, m, Len(words))).extra = 0
         /\ Slice(SubSeq(words, m, Len(words))).words = SubSeq(words, m, Len(words))
         /\ SubSeq(words, m, Len(words)) \in Seq(Word)
         /\ m + Len(SubSeq(words, m, Len(words))) = Len(words) + 1
         /\ \A i \in 1..Len(SubSeq(words, m, Len(words))) :
              SubSeq(words, m, Len(words))[i] = words[m - 1 + i]
<1>1. Len(SubSeq(words, m, Len(words))) = Len(words) - m + 1
  OBVIOUS
<1>2. \A i \in 1..(Len(words) - m + 1) : SubSeq(words, m, Len(words))[i] = words[m - 1 + i]
  OBVIOUS
<1>3. SubSeq(words, m, Len(words)) \in Seq(Word)
  OBVIOUS
<1> QED
  BY <1>1, <1>2, <1>3 DEF Slice

LEMMA AcceptedQuery ==
  ASSUME NEW words, NEW size, NEW class_id,
         SinkCapabilitiesQueryError(words, size, class_id) = Ok
  PROVE  size = IF SinkCapabilitiesQueryBody(words).form = "Long" THEN 13 ELSE 15
<1>1. SinkCapabilitiesQueryBody(words).form = IF IsShort(words) THEN "Short" ELSE "Long"
  BY DEF SinkCapabilitiesQueryBody
<1>2. CASE IsShort(words)
  <2>1. ExpectPacketSize("SinkCapabilitiesQueryShort", size) = Ok
    BY <1>2, ThenOk DEF SinkCapabilitiesQueryError
  <2> QED
    BY <1>1, <1>2, <2>1 DEF ExpectPacketSize, LayoutWords, Expect, Ok
<1>3. CASE ~IsShort(words)
  <2>1. ExpectPacketSize("SinkCapabilitiesQueryLong", size) = Ok
    BY <1>3, ThenOk DEF SinkCapabilitiesQueryError
  <2> QED
    BY <1>1, <1>3, <2>1 DEF ExpectPacketSize, LayoutWords, Expect, Ok
<1> QED
  BY <1>2, <1>3

LEMMA AcceptedResponse ==
  ASSUME NEW words, NEW size, NEW class_id,
         SinkCapabilitiesResponseError(words, size, class_id) = Ok
  PROVE  LET b == SinkCapabilitiesResponseBody(words)
         IN IF b.form = "Long"
            THEN size > 13 /\ b.capability_table = Slice(SubSeq(words, 14, Len(words)))
            ELSE size = 18
<1>1. /\ SinkCapabilitiesResponseBody(words).form = IF IsShort(words) THEN "Short" ELSE "Long"
      /\ SinkCapabilitiesResponseBody(words).capability_table
           = Slice(IF IsShort(words) THEN <<>> ELSE SubSeq(words, 14, Len(words)))
  BY DEF SinkCapabilitiesResponseBody
<1>2. CASE IsShort(words)
  <2>1. ExpectPacketSize("SinkCapabilitiesResponseShort", size) = Ok
    BY <1>2, ThenOk DEF SinkCapabilitiesResponseError
  <2> QED
    BY <1>1, <1>2, <2>1 DEF ExpectPacketSize, LayoutWords, Expect, Ok
<1>3. CASE ~IsShort(words)
  <2>1. Expect(size > 13, "InvalidPacketSize") = Ok
    BY <1>3, ThenOk DEF SinkCapabilitiesResponseError
  <2>2. size > 13
    BY <2>1 DEF Expect, Ok
  <2> QED
    BY <1>1, <1>3, <2>2
<1> QED
  BY <1>2, <1>3

LEMMA AcceptedPlan ==
  ASSUME NEW o, NEW words, Accepted(o, words)
  PROVE  /\ PlannedWordsError(PacketOf(words)) = Ok
         /\ PlannedWords(PacketOf(words)) = Len(words)
         /\ BodyWriteError(o, PacketOf(words)) = Ok
<1> DEFINE p == PacketOf(words)
           n == Len(words)
           c == ParsedClassId(words)
           v == ParsedVariant(words)
<1>1. /\ BodyError(o, words, n, c) = Ok
      /\ words \in Seq(Word) /\ n \in Nat /\ n >= 7 /\ n <= 65535
      /\ PacketSizeWords(ReadU32(words, 0)) = n
  <2>1. PacketSizeWords(ReadU32(words, 0)) \in Half
    BY ReadTypes DEF Accepted, PacketSizeWords
  <2> QED
    BY <2>1, HalfOf, AcceptedStages DEF Accepted
<1>2. /\ p.variant = v /\ p.body = BodyOf(v, words) /\ p.prologue.class_id = c
      /\ p.prologue.header.packet_size_words = n
  <2>1. ParsedHeader(words).packet_size_words = n
    BY <1>1 DEF ParsedHeader, HeaderOf
  <2> HIDE DEF c, v, n
  <2>2. p.prologue.header.packet_size_words = n
    BY <2>1, PacketOfParts
  <2> QED
    BY <2>2, PacketOfParts DEF c, v
<1>3. v = VariantOf(c.packet_class)
  BY DEF ParsedVariant
<1> HIDE DEF p, n, c, v
<1>4. PlannedWords(p) = CountedWords(p)
  BY DEF PlannedWords
<1>5. CASE v = "SignalData"
  <2>1. DataError(o, words, c) = Ok /\ p.body = SignalDataBody(words)
    BY <1>1, <1>2, <1>3, <1>5 DEF BodyError, BodyOf
  <2>2. p.body.payload = Slice(SubSeq(words, 8, n))
    BY <2>1 DEF SignalDataBody, PROLOGUE_WORDS, n
  <2>3. p.body.payload.extra = 0 /\ 7 + Len(p.body.payload.words) = n
    <3>1. 8 \in 1..n + 1
      BY <1>1
    <3>2. /\ Slice(SubSeq(words, 8, n)).extra = 0
          /\ Slice(SubSeq(words, 8, n)).words = SubSeq(words, 8, n)
          /\ 8 + Len(SubSeq(words, 8, n)) = n + 1
      BY <1>1, <3>1, RestOfFrame DEF n
    <3>3. Len(SubSeq(words, 8, n)) \in Nat
      BY <1>1, <3>1, RestOfFrame DEF n
    <3> QED
      BY <1>1, <2>2, <3>2, <3>3
  <2>4. CountedWords(p) = n
    BY <1>2, <1>5, <2>3 DEF CountedWords, PROLOGUE_WORDS
  <2>5. BodyWriteError(o, p) = SignalDataWriteError(o, p.body, c)
    BY <1>2, <1>5 DEF BodyWriteError
  <2> QED
    BY <1>1, <1>2, <1>4, <1>5, <2>1, <2>3, <2>4, <2>5, PlanPasses, SignalDataWritesBack
    DEF MAX_PACKET_WORDS, p, n
<1>6. CASE v = "SignalContext"
  <2>1. SignalContextError(words, n, c) = Ok /\ p.body = SignalContextBody(words)
    BY <1>1, <1>2, <1>3, <1>6 DEF BodyError, BodyOf
  <2>2. n = 27
    <3>1. ExpectPacketSize("SignalContext", n) = Ok
      BY <2>1, ThenOk DEF SignalContextError
    <3> QED
      BY <3>1 DEF ExpectPacketSize, LayoutWords, Expect, Ok
  <2>3. CountedWords(p) = n
    BY <1>2, <1>6, <2>2 DEF CountedWords
  <2>4. BodyWriteError(o, p) = SignalContextWriteError(p.body, c, n)
    BY <1>2, <1>6 DEF BodyWriteError
  <2> QED
    BY <1>1, <1>2, <1>4, <1>6, <2>1, <2>3, <2>4, PlanPasses, SignalContextWritesBack
    DEF MAX_PACKET_WORDS, p, n
<1>7. CASE v = "VersionContext"
  <2>1. VersionContextError(words, n, c) = Ok /\ p.body = VersionContextBody(words)
    BY <1>1, <1>2, <1>3, <1>7 DEF BodyError, BodyOf
  <2>2. n = 11
    <3>1. ExpectPacketSize("VersionContext", n) = Ok
      BY <2>1, ThenOk DEF VersionContextError
    <3> QED
      BY <3>1 DEF ExpectPacketSize, LayoutWords, Expect, Ok
  <2>3. CountedWords(p) = n
    BY <1>2, <1>7, <2>2 DEF CountedWords
  <2>4. BodyWriteError(o, p) = VersionContextWriteError(p.body, c, n)
    BY <1>2, <1>7 DEF BodyWriteError
  <2> QED
    BY <1>1, <1>2, <1>4, <1>7, <2>1, <2>3, <2>4, PlanPasses, VersionContextWritesBack
    DEF MAX_PACKET_WORDS, p, n
<1>8. CASE v = "TimingFlowControl"
  <2>1. TimingFlowControlError(words, n, c) = Ok /\ p.body = TimingFlowControlBody(words)
    BY <1>1, <1>2, <1>3, <1>8 DEF BodyError, BodyOf
  <2>2. n = 21
    <3>1. ExpectPacketSize("TimingFlowControl", n) = Ok
      BY <2>1, ThenOk DEF TimingFlowControlError
    <3> QED
      BY <3>1 DEF ExpectPacketSize, LayoutWords, Expect, Ok
  <2>3. CountedWords(p) = n
    BY <1>2, <1>8, <2>2 DEF CountedWords
  <2>4. BodyWriteError(o, p) = TimingFlowControlWriteError(p.body, c, n)
    BY <1>2, <1>8 DEF BodyWriteError
  <2> QED
    BY <1>1, <1>2, <1>4, <1>8, <2>1, <2>3, <2>4, PlanPasses, TimingFlowControlWritesBack
    DEF MAX_PACKET_WORDS, p, n
<1>9. CASE v = "SinkCapabilitiesQuery"
  <2>1. SinkCapabilitiesQueryError(words, n, c) = Ok /\ p.body = SinkCapabilitiesQueryBody(words)
    BY <1>1, <1>2, <1>3, <1>9 DEF BodyError, BodyOf
  <2>2. n = IF p.body.form = "Long" THEN 13 ELSE 15
    BY <2>1, AcceptedQuery
  <2>3. CountedWords(p) = n
    BY <1>2, <1>9, <2>2 DEF CountedWords
  <2>4. BodyWriteError(o, p) = SinkCapabilitiesQueryWriteError(p.body, c, n)
    BY <1>2, <1>9 DEF BodyWriteError
  <2> QED
    BY <1>1, <1>2, <1>4, <1>9, <2>1, <2>3, <2>4, PlanPasses, SinkCapabilitiesQueryWritesBack
    DEF MAX_PACKET_WORDS, p, n
<1>10. CASE v = "SinkCapabilitiesResponse"
  <2>1. /\ SinkCapabilitiesResponseError(words, n, c) = Ok
        /\ p.body = SinkCapabilitiesResponseBody(words)
    BY <1>1, <1>2, <1>3, <1>10 DEF BodyError, BodyOf
  <2>2. IF p.body.form = "Long"
        THEN n > 13 /\ p.body.capability_table = Slice(SubSeq(words, 14, n))
        ELSE n = 18
    BY <2>1, AcceptedResponse DEF n
  <2>3. p.body.form = "Long" =>
          /\ p.body.capability_table.extra = 0
          /\ 13 + Len(p.body.capability_table.words) = n
    <3> SUFFICES ASSUME n > 13
                 PROVE  /\ Slice(SubSeq(words, 14, n)).extra = 0
                        /\ 13 + Len(Slice(SubSeq(words, 14, n)).words) = n
      BY <2>2
    <3>1. words \in Seq(Word) /\ 14 \in 1..n + 1
      BY <1>1
    <3> DEFINE rest == SubSeq(words, 14, Len(words))
    <3>2. 14 \in 1..Len(words) + 1
      BY <3>1 DEF n
    <3>3. Slice(rest).extra = 0 /\ Slice(rest).words = rest /\ rest \in Seq(Word)
      BY <3>1, <3>2, RestOfFrame
    <3>4. 14 + Len(rest) = Len(words) + 1
      BY <3>1, <3>2, RestOfFrame
    <3>5. rest = SubSeq(words, 14, n) /\ 14 + Len(rest) = n + 1
      BY <3>4 DEF n
    <3> HIDE DEF rest
    <3>6. Len(rest) \in Nat
      BY <3>3
    <3>7. 13 + Len(rest) = n
      BY <1>1, <3>5, <3>6
    <3> QED
      BY <3>3, <3>5, <3>7
  <2>4. CountedWords(p) = n
    BY <1>2, <1>10, <2>2, <2>3 DEF CountedWords
  <2>5. BodyWriteError(o, p) = SinkCapabilitiesResponseWriteError(p.body, c, n)
    BY <1>2, <1>10 DEF BodyWriteError
  <2> QED
    BY <1>1, <1>2, <1>4, <1>10, <2>1, <2>3, <2>4, <2>5, PlanPasses,
       SinkCapabilitiesResponseWritesBack
    DEF MAX_PACKET_WORDS, p, n
<1>11. CASE v = "StatusReport"
  <2>1. StatusReportError(words, n, c) = Ok /\ p.body = StatusReportBody(words)
    BY <1>1, <1>2, <1>3, <1>11 DEF BodyError, BodyOf
  <2>2. n \in {15, 17, 21} /\ StatusReportWriteError(p.body, c, n) = Ok
    BY <1>1, <2>1, StatusReportWritesBack
  <2>3. StatusShape(p.body) \in StatusShapes /\ StatusReportWords(p.body) = n
    BY <1>1, <2>1, <2>2, StatusReportFields
  <2>4. CountedWords(p) = n
    BY <1>2, <1>11, <2>3 DEF CountedWords
  <2>5. BodyWriteError(o, p) = StatusReportWriteError(p.body, c, n)
    BY <1>2, <1>11 DEF BodyWriteError
  <2> QED
    BY <1>1, <1>2, <1>4, <1>11, <2>2, <2>3, <2>4, <2>5, PlanPasses DEF MAX_PACKET_WORDS, p, n
<1>12. v \in {"SignalData", "SignalContext", "VersionContext", "TimingFlowControl",
              "SinkCapabilitiesQuery", "SinkCapabilitiesResponse", "StatusReport"}
  <2>1. p \in PacketValue
    BY <1>1, PacketOfType DEF Accepted, n, p
  <2> QED
    BY <1>2, <2>1, PacketParts
<1> QED
  BY <1>5, <1>6, <1>7, <1>8, <1>9, <1>10, <1>11, <1>12

\* The header planned for a parsed packet is the one it had.
LEMMA PlannedIsParsed ==
  ASSUME NEW o, NEW words, Accepted(o, words)
  PROVE  /\ PlannedHeader(PacketOf(words)) = ParsedHeader(words)
         /\ HasTsm(PacketOf(words)) => Present(ParsedHeader(words).tsm)
<1> DEFINE p   == PacketOf(words)
           h   == ParsedHeader(words)
           w   == ReadU32(words, 0)
           tsb == CanonicalTypeSpecificBits(p)
<1>1. /\ w \in Word /\ h.class_id_indicator
      /\ ValidatePrologue(o, h, ParsedClassId(words)) = Ok
  BY ReadTypes, AcceptedStages DEF Accepted
<1>2. /\ h.raw = w /\ h.packet_type = w[1] \div 4096
      /\ h.class_id_indicator = ((w[1] \div 2048) % 2 = 1)
      /\ h.type_specific_bits = (w[1] \div 256) % 8
      /\ h.tsm = TsmOf(h.packet_type, h.type_specific_bits)
      /\ h.tsi = (w[1] \div 64) % 4 /\ h.tsf = (w[1] \div 16) % 4
      /\ h.sequence = w[1] % 16 /\ h.packet_size_words = w[2]
  BY DEF ParsedHeader, HeaderOf, PacketSizeWords
<1>3. h = [raw |-> h.raw, packet_type |-> h.packet_type,
           class_id_indicator |-> h.class_id_indicator,
           type_specific_bits |-> h.type_specific_bits, tsm |-> h.tsm, tsi |-> h.tsi,
           tsf |-> h.tsf, sequence |-> h.sequence, packet_size_words |-> h.packet_size_words]
  BY DEF ParsedHeader, HeaderOf
<1>4. /\ p.prologue.header = h /\ p.variant = VariantOf(ParsedClassId(words).packet_class)
      /\ PlannedWords(p) = w[2]
  BY PacketOfParts, AcceptedPlan DEF ParsedVariant, Accepted, PacketSizeWords
<1> HIDE DEF p, h, w
<1>5. h.type_specific_bits \in 0..7
  <2>1. w[1] \in Nat
    BY <1>1, WordHalves
  <2>2. (w[1] \div 256) % 8 \in 0..7
    BY <2>1
  <2> QED
    BY <1>2, <2>2
<1>6. /\ tsb = h.type_specific_bits
      /\ HasTsm(p) => Present(h.tsm)
  <2> DEFINE type == h.packet_type
             bits == h.type_specific_bits
  <2>1. \/ type = 1 /\ p.variant = "SignalData" /\ bits = 0
        \/ type \in {4, 5} /\ bits \in {0, 1} /\ p.variant \in {"SignalContext", "VersionContext"}
        \/ type = 6 /\ p.variant = "TimingFlowControl" /\ bits = 0
        \/ type = 7 /\ bits = 0 /\ p.variant \in {"SinkCapabilitiesQuery", "StatusReport"}
        \/ type = 7 /\ bits = 4 /\ p.variant = "SinkCapabilitiesResponse"
    <3> HIDE DEF type, bits
    <3> QED
      BY <1>1, <1>4, <1>5, TypeGoesWithVariant
      DEF type, bits, SignalDataWithStreamId, ContextWithStreamId, VersionWithStreamId,
          CommandWithStreamId, ExtensionCommandWithStreamId
  <2>2. CASE HasTsm(p)
    <3>1. type \in {4, 5} /\ bits \in {0, 1}
      BY <2>1, <2>2 DEF HasTsm
    <3>2. h.tsm = Some(IF bits % 2 = 1 THEN 1 ELSE 0)
      BY <1>2, <3>1 DEF TsmOf, ContextWithStreamId, VersionWithStreamId, Coarse, Fine
    <3>3. tsb = IF h.tsm = Some(1) THEN 1 ELSE 0
      <4>1. tsb = IF p.prologue.header.tsm = Some(Coarse) THEN 1 ELSE 0
        BY <2>2 DEF CanonicalTypeSpecificBits, HasTsm, Some, Coarse
      <4> HIDE DEF tsb
      <4> QED
        BY <1>4, <4>1 DEF Coarse
    <3> HIDE DEF tsb, bits
    <3>4. CASE bits = 0
      <4>1. h.tsm = <<0>>
        BY <3>2, <3>4 DEF Some
      <4>2. <<0>> # <<1>> /\ <<0>> # <<>>
        OBVIOUS
      <4> QED
        BY <3>3, <3>4, <4>1, <4>2 DEF Some, Present, None, bits
    <3>5. CASE bits = 1
      <4>1. h.tsm = <<1>>
        BY <3>2, <3>5 DEF Some
      <4>2. <<1>> # <<>>
        OBVIOUS
      <4> QED
        BY <3>3, <3>5, <4>1, <4>2 DEF Some, Present, None, bits
    <3> QED
      BY <3>1, <3>4, <3>5 DEF tsb
  <2>3. CASE ~HasTsm(p)
    <3>1. bits = IF p.variant = "SinkCapabilitiesResponse" THEN 4 ELSE 0
      BY <2>1, <2>3 DEF HasTsm
    <3>2. tsb = IF p.variant = "SinkCapabilitiesResponse" THEN 4 ELSE 0
      BY <2>3 DEF CanonicalTypeSpecificBits
    <3> QED
      BY <2>3, <3>1, <3>2
  <2> QED
    BY <2>2, <2>3
<1> HIDE DEF tsb
<1>7. PlannedHeader(p)
        = [raw |-> HeaderWord(h.packet_type, tsb, h.tsi, h.tsf, h.sequence, w[2]),
           packet_type |-> h.packet_type, class_id_indicator |-> TRUE,
           type_specific_bits |-> tsb, tsm |-> TsmOf(h.packet_type, tsb), tsi |-> h.tsi,
           tsf |-> h.tsf, sequence |-> h.sequence, packet_size_words |-> w[2]]
  BY <1>4 DEF PlannedHeader, tsb
<1>8. HeaderWord(h.packet_type, h.type_specific_bits, h.tsi, h.tsf, h.sequence, w[2]) = w
  <2>1. (w[1] \div 2048) % 2 = 1
    <3> DEFINE set == (w[1] \div 2048) % 2 = 1
    <3>1. h.class_id_indicator = set /\ set \in BOOLEAN
      BY DEF h, w, ParsedHeader, HeaderOf
    <3> HIDE DEF set
    <3>2. set
      BY <1>1, <3>1
    <3> QED
      BY <3>2 DEF set
  <2>2. HeaderWord(w[1] \div 4096, (w[1] \div 256) % 8, (w[1] \div 64) % 4, (w[1] \div 16) % 4,
                   w[1] % 16, w[2]) = w
    BY <1>1, <2>1, HeaderWordIsPacked
  <2> QED
    BY <1>2, <2>2
<1>9. h.class_id_indicator = TRUE
  <2>1. h.class_id_indicator \in BOOLEAN
    BY <1>2
  <2> QED
    BY <1>1, <2>1
<1>10. PlannedHeader(p) = h
  BY <1>2, <1>3, <1>6, <1>7, <1>8, <1>9
<1> QED
  BY <1>6, <1>10 DEF p, h

\* What the parser accepted passes all of prepare_packet.
LEMMA AcceptedPrepares ==
  ASSUME NEW o, NEW words, Accepted(o, words)
  PROVE  PrepareError(o, PacketOf(words)) = Ok
<1> DEFINE p == PacketOf(words)
           h == ParsedHeader(words)
           c == ParsedClassId(words)
<1>1. /\ PlannedWordsError(p) = Ok /\ BodyWriteError(o, p) = Ok
      /\ PlannedHeader(p) = h
      /\ HasTsm(p) => Present(h.tsm)
      /\ p.prologue.header = h /\ p.prologue.class_id = c
      /\ ValidatePrologue(o, h, c) = Ok
      /\ ClassIdError(ReadU32(words, 2), ReadU32(words, 3)) = Ok
  BY AcceptedPlan, PlannedIsParsed, PacketOfParts, AcceptedStages
<1>2. h.sequence <= 15
  <2>1. ReadU32(words, 0)[1] \in Nat
    BY ReadU32Type, WordHalves DEF Accepted
  <2>2. ReadU32(words, 0)[1] % 16 <= 15
    BY <2>1
  <2> QED
    BY <2>2 DEF ParsedHeader, HeaderOf
<1>3. [h EXCEPT !.raw = h.raw] = h
  BY DEF ParsedHeader, HeaderOf
<1>4. ValidateClassId(c) = Ok
  <2>1. c.pad_bit_count \in 0..MaxPadBits
    BY PadBitCount DEF Accepted, ParsedClassId
  <2>2. c.oui = DIFI_CID
    <3>1. Expect(<<ReadU32(words, 2)[1] % 256, ReadU32(words, 2)[2]>> = DIFI_CID, "InvalidOui") = Ok
      BY <1>1, ThenOk DEF ClassIdError
    <3> QED
      BY <3>1 DEF ParsedClassId, ClassIdOf, Expect, Ok
  <2>3. /\ Expect(c.pad_bit_count <= MaxPadBits, "FieldOutOfRange") = Ok
        /\ Expect(c.oui = DIFI_CID, "FieldMismatch") = Ok
    <3>1. c.pad_bit_count <= MaxPadBits
      BY <2>1 DEF MaxPadBits
    <3> QED
      BY <2>2, <3>1 DEF Expect
  <2> QED
    BY <2>3, ThenOk DEF ValidateClassId
<1> HIDE DEF p, h, c
<1> DEFINE header  == p.prologue.header
           planned == PlannedHeader(p)
           range   == header.sequence <= 15
           agree   == [header EXCEPT !.raw = planned.raw] = planned
           raw     == header.raw = planned.raw
           mode    == HasTsm(p) => Present(header.tsm)
<1>5. range /\ agree /\ raw /\ mode
  BY <1>1, <1>2, <1>3
<1>6. PrologueWriteError(o, p) = Ok /\ Expect(mode, "MissingField") = Ok
  <2>1. PrologueWriteError(o, p)
          = (Expect(range, "FieldOutOfRange") ?? Expect(agree, "FieldMismatch")
               ?? ValidateClassId(p.prologue.class_id) ?? Expect(raw, "FieldMismatch")
               ?? ValidatePrologue(o, planned, p.prologue.class_id))
    BY DEF PrologueWriteError
  <2> HIDE DEF range, agree, raw, mode, planned
  <2>2. /\ Expect(range, "FieldOutOfRange") = Ok /\ Expect(agree, "FieldMismatch") = Ok
        /\ Expect(raw, "FieldMismatch") = Ok /\ Expect(mode, "MissingField") = Ok
    BY <1>5 DEF Expect
  <2>3. ValidatePrologue(o, planned, p.prologue.class_id) = Ok
    BY <1>1 DEF planned
  <2> QED
    BY <1>1, <1>4, <2>1, <2>2, <2>3, ThenOk
<1>7. PrepareError(o, p) = Ok
  <2>1. PrepareError(o, p)
          = (PlannedWordsError(p) ?? Expect(mode, "MissingField")
               ?? PrologueWriteError(o, p) ?? BodyWriteError(o, p))
    BY DEF PrepareError
  <2> HIDE DEF mode
  <2> QED
    BY <1>1, <1>6, <2>1, ThenOk
<1> QED
  BY <1>7 DEF p

\* A store of words where the parser read them, and stores that make words from..to again.
CopyStore(words) ==
  {s \in GoodStore(Len(words)) :
     \A k \in 1..Len(s.words[1]) : s.words[1][k] = words[s.at + k]}

Rebuilds(stores, words, from, to) ==
  /\ stores \in Seq(CopyStore(words))
  /\ \A j \in from..to : \E i \in DOMAIN stores : Covers(stores[i], j)

LEMMA CopyOf ==
  ASSUME NEW words \in Seq(Word), NEW at \in Nat, NEW part \in Seq(Word),
         at + Len(part) <= Len(words),
         \A k \in 1..Len(part) : part[k] = words[at + k]
  PROVE  /\ Store(at, part) \in CopyStore(words)
         /\ \A j \in Int : Covers(Store(at, part), j) <=> j \in (at + 1)..(at + Len(part))
<1> DEFINE s == Store(at, part)
<1>1. s \in GoodStore(Len(words))
  BY StoreIsGood
<1>2. s.at = at /\ s.words[1] = part
  BY DEF Store, Some
<1> HIDE DEF s
<1>3. s \in CopyStore(words)
  BY <1>1, <1>2 DEF CopyStore
<1>4. EndOf(s) = at + Len(part)
  BY <1>2 DEF EndOf
<1>5. \A j \in Int : Covers(s, j) <=> j \in (at + 1)..(at + Len(part))
  BY <1>2, <1>4 DEF Covers
<1> QED
  BY <1>3, <1>5 DEF s

LEMMA CopyOfWord ==
  ASSUME NEW words \in Seq(Word), NEW at \in Nat, at + 1 <= Len(words)
  PROVE  /\ StoreU32(at, ReadU32(words, at)) \in CopyStore(words)
         /\ Covers(StoreU32(at, ReadU32(words, at)), at + 1)
<1> DEFINE part == <<ReadU32(words, at)>>
<1>1. ReadU32(words, at) = words[at + 1] /\ ReadU32(words, at) \in Word
  BY ReadU32Type DEF ReadU32, HasWord
<1>2. part \in Seq(Word) /\ Len(part) = 1 /\ part[1] = words[at + 1]
  BY <1>1
<1>3. StoreU32(at, ReadU32(words, at)) = Store(at, part)
  BY DEF StoreU32
<1> HIDE DEF part
<1>4. \A k \in 1..Len(part) : part[k] = words[at + k]
  BY <1>2
<1>5. at + Len(part) <= Len(words) /\ at + 1 \in (at + 1)..(at + Len(part)) /\ at + 1 \in Int
  BY <1>2
<1> QED
  BY <1>2, <1>3, <1>4, <1>5, CopyOf

LEMMA CopyOfPair ==
  ASSUME NEW words \in Seq(Word), NEW at \in Nat, at + 2 <= Len(words)
  PROVE  /\ Store(at, ReadU64(words, at)) \in CopyStore(words)
         /\ Covers(Store(at, ReadU64(words, at)), at + 1)
         /\ Covers(Store(at, ReadU64(words, at)), at + 2)
<1> DEFINE part == ReadU64(words, at)
<1>1. /\ ReadU32(words, at) = words[at + 1] /\ ReadU32(words, at) \in Word
      /\ ReadU32(words, at + 1) = words[at + 2] /\ ReadU32(words, at + 1) \in Word
  BY ReadU32Type DEF ReadU32, HasWord
<1>2. part = <<words[at + 1], words[at + 2]>>
  BY <1>1 DEF ReadU64
<1> HIDE DEF part
<1>3. part \in Seq(Word) /\ Len(part) = 2 /\ part[1] = words[at + 1] /\ part[2] = words[at + 2]
  BY <1>1, <1>2
<1>4. \A k \in 1..Len(part) : part[k] = words[at + k]
  <2>1. \A k \in 1..2 : k = 1 \/ k = 2
    OBVIOUS
  <2> QED
    BY <1>3, <2>1
<1>5. /\ at + Len(part) <= Len(words)
      /\ at + 1 \in (at + 1)..(at + Len(part)) /\ at + 1 \in Int
      /\ at + 2 \in (at + 1)..(at + Len(part)) /\ at + 2 \in Int
  BY <1>3
<1> QED
  BY <1>3, <1>4, <1>5, CopyOf DEF part

LEMMA CopyOfRest ==
  ASSUME NEW words \in Seq(Word), NEW at \in Nat, NEW m, m = at + 1, at <= Len(words)
  PROVE  /\ Store(at, SubSeq(words, m, Len(words))) \in CopyStore(words)
         /\ \A j \in m..Len(words) : Covers(Store(at, SubSeq(words, m, Len(words))), j)
<1> DEFINE part == SubSeq(words, m, Len(words))
           n    == Len(words)
<1>1. n \in Nat /\ m \in 1..n + 1
  OBVIOUS
<1>2. /\ part \in Seq(Word) /\ m + Len(part) = n + 1
      /\ \A i \in 1..Len(part) : part[i] = words[m - 1 + i]
  BY <1>1, RestOfFrame
<1> HIDE DEF part
<1>3. \A i \in 1..Len(part) : part[i] = words[at + i]
  BY <1>2
<1>4. Len(part) \in Nat /\ at + Len(part) = n
  BY <1>1, <1>2
<1>5. at + Len(part) <= Len(words)
  BY <1>1, <1>4
<1>6. /\ Store(at, part) \in CopyStore(words)
      /\ \A j \in Int : Covers(Store(at, part), j) <=> j \in (at + 1)..(at + Len(part))
  BY <1>2, <1>3, <1>5, CopyOf
<1>7. \A j \in m..n : j \in Int /\ j \in (at + 1)..(at + Len(part))
  BY <1>1, <1>4
<1> QED
  BY <1>6, <1>7 DEF part

LEMMA RebuildsInTurn ==
  ASSUME NEW words, NEW s, NEW t, NEW a \in Int, NEW b \in Int, NEW c \in Int,
         NEW d, d = b + 1, Rebuilds(s, words, a, b), Rebuilds(t, words, d, c)
  PROVE  Rebuilds(s \o t, words, a, c)
<1> DEFINE S == CopyStore(words)
<1>1. s \in Seq(S) /\ t \in Seq(S)
  BY DEF Rebuilds
<1>2. /\ \A j \in a..b : \E i \in DOMAIN s : Covers(s[i], j)
      /\ \A j \in (b + 1)..c : \E i \in DOMAIN t : Covers(t[i], j)
  BY DEF Rebuilds
<1> HIDE DEF S
<1>3. s \o t \in Seq(S)
  BY <1>1
<1>4. /\ \A i \in DOMAIN s : i \in DOMAIN (s \o t) /\ (s \o t)[i] = s[i]
      /\ \A i \in DOMAIN t : Len(s) + i \in DOMAIN (s \o t) /\ (s \o t)[Len(s) + i] = t[i]
  BY <1>1
<1>5. ASSUME NEW j \in a..c
      PROVE  \E i \in DOMAIN (s \o t) : Covers((s \o t)[i], j)
  <2>1. CASE j <= b
    <3>1. PICK i \in DOMAIN s : Covers(s[i], j)
      BY <1>2, <2>1
    <3> QED
      BY <1>4, <3>1
  <2>2. CASE j > b
    <3>1. j \in (b + 1)..c
      BY <2>2
    <3>2. PICK i \in DOMAIN t : Covers(t[i], j)
      BY <1>2, <3>1
    <3>3. Len(s) + i \in DOMAIN (s \o t) /\ Covers((s \o t)[Len(s) + i], j)
      BY <1>4, <3>2
    <3> QED
      BY <3>3
  <2> QED
    BY <2>1, <2>2
<1> QED
  BY <1>3, <1>5 DEF Rebuilds, S

\* A word is its two halves.
LEMMA WordOfHalves ==
  ASSUME NEW w \in Word
  PROVE  <<w[1], w[2]>> = w
BY DEF Word

LEMMA ClassWordsArePacked ==
  ASSUME NEW words \in Seq(Word), ClassIdError(ReadU32(words, 2), ReadU32(words, 3)) = Ok
  PROVE  ClassIdWords(ParsedClassId(words)) = <<ReadU32(words, 2), ReadU32(words, 3)>>
<1> DEFINE w0 == ReadU32(words, 2)
           w1 == ReadU32(words, 3)
           c  == ParsedClassId(words)
           n  == w0[1]
           q  == n \div 256
<1>1. n \in Nat /\ w0 = <<n, w0[2]>> /\ w1 = <<w1[1], w1[2]>>
  <2>1. w0 \in Word /\ w1 \in Word
    BY ReadU32Type
  <2> QED
    BY <2>1, WordHalves, WordOfHalves
<1>2. q % 8 = 0
  <2>1. Expect((w0[1] \div 256) % 8 = 0, "ReservedBitsNonZero") = Ok
    BY ThenOk DEF ClassIdError
  <2> QED
    BY <2>1 DEF Expect, Ok
<1>3. /\ c.pad_bit_count = n \div 2048 /\ c.oui = <<n % 256, w0[2]>>
      /\ c.information_class = w1[1] /\ c.packet_class = w1[2]
  BY DEF ParsedClassId, ClassIdOf
<1> HIDE DEF w0, w1, c, n
<1>4. 2048 * (n \div 2048) + (n % 256) = n
  <2>1. n = 256 * q + (n % 256) /\ q \in Nat /\ n % 256 \in Nat
    BY <1>1, SMTT(20)
  <2>2. q = 8 * (n \div 2048) + (q % 8)
    BY <1>1, SMTT(20)
  <2>3. n \div 2048 \in Nat
    BY <1>1
  <2> QED
    BY <1>1, <1>2, <2>1, <2>2, <2>3, SMTT(20)
<1>5. ClassIdWords(c) = <<<<2048 * (n \div 2048) + (n % 256), w0[2]>>, <<w1[1], w1[2]>>>>
  <2>1. c.oui[1] = n % 256 /\ c.oui[2] = w0[2]
    BY <1>3
  <2> QED
    BY <1>3, <2>1 DEF ClassIdWords
<1> QED
  BY <1>1, <1>4, <1>5 DEF w0, w1, c, n

LEMMA PrologueRebuilds ==
  ASSUME NEW o, NEW words, Accepted(o, words)
  PROVE  Rebuilds(PrologueStores(PacketOf(words)), words, 1, 7)
<1> DEFINE p  == PacketOf(words)
           S  == CopyStore(words)
           s0 == StoreU32(0, ReadU32(words, 0))
           s1 == StoreU32(1, ReadU32(words, 1))
           s2 == StoreU32(2, ReadU32(words, 2))
           s3 == StoreU32(3, ReadU32(words, 3))
           s4 == StoreU32(4, ReadU32(words, 4))
           s5 == Store(5, ReadU64(words, 5))
           t  == <<s0, s1, s2, s3, s4, s5>>
<1>1. words \in Seq(Word) /\ Len(words) >= 7
  BY DEF Accepted
<1>2. PrologueStores(p) = t
  <2>1. PlannedHeader(p).raw = ReadU32(words, 0)
    BY PlannedIsParsed DEF ParsedHeader, HeaderOf
  <2>2. ClassIdWords(p.prologue.class_id) = <<ReadU32(words, 2), ReadU32(words, 3)>>
    BY <1>1, AcceptedStages, PacketOfParts, ClassWordsArePacked
  <2>3. /\ p.prologue.stream_id = ReadU32(words, 1)
        /\ p.prologue.integer_seconds_timestamp = ReadU32(words, 4)
        /\ p.prologue.fractional_seconds_timestamp = ReadU64(words, 5)
    <3> HIDE DEF p
    <3>1. p.prologue = PrologueOf(words)
      BY PacketOfParts DEF p
    <3> QED
      BY <3>1 DEF PrologueOf
  <2> HIDE DEF p
  <2> QED
    BY <2>1, <2>2, <2>3 DEF PrologueStores
<1>3. 0 + 1 <= Len(words) /\ 1 + 1 <= Len(words) /\ 2 + 1 <= Len(words) /\ 3 + 1 <= Len(words)
      /\ 4 + 1 <= Len(words) /\ 5 + 2 <= Len(words)
  BY <1>1
<1>4. /\ s0 \in S /\ Covers(s0, 0 + 1) /\ s1 \in S /\ Covers(s1, 1 + 1)
      /\ s2 \in S /\ Covers(s2, 2 + 1) /\ s3 \in S /\ Covers(s3, 3 + 1)
      /\ s4 \in S /\ Covers(s4, 4 + 1)
  BY <1>1, <1>3, CopyOfWord
<1>5. s5 \in S /\ Covers(s5, 5 + 1) /\ Covers(s5, 5 + 2)
  BY <1>1, <1>3, CopyOfPair
<1> HIDE DEF S, s0, s1, s2, s3, s4, s5
<1>6. t \in Seq(S)
  BY <1>4, <1>5
<1>7. ASSUME NEW j \in 1..7
      PROVE  \E i \in DOMAIN t : Covers(t[i], j)
  <2>1. DOMAIN t = 1..6
    OBVIOUS
  <2>2. /\ t[1] = s0 /\ t[2] = s1 /\ t[3] = s2 /\ t[4] = s3 /\ t[5] = s4 /\ t[6] = s5
    OBVIOUS
  <2> HIDE DEF t
  <2>3. \E i \in 1..6 : Covers(t[i], j)
    BY <1>4, <1>5, <2>2
  <2> QED
    BY <2>1, <2>3
<1>8. Rebuilds(t, words, 1, 7)
  BY <1>6, <1>7 DEF Rebuilds, S
<1> QED
  BY <1>2, <1>8 DEF p

LEMMA WordRebuilds ==
  ASSUME NEW words \in Seq(Word), NEW at \in Nat, NEW m, m = at + 1, m <= Len(words)
  PROVE  Rebuilds(<<StoreU32(at, ReadU32(words, at))>>, words, m, m)
<1> DEFINE s == StoreU32(at, ReadU32(words, at))
           S == CopyStore(words)
<1>1. s \in S /\ Covers(s, m)
  BY CopyOfWord
<1> HIDE DEF s, S
<1>2. <<s>> \in Seq(S) /\ 1 \in DOMAIN <<s>> /\ <<s>>[1] = s
  BY <1>1
<1>3. \A j \in m..m : j = m
  OBVIOUS
<1> HIDE DEF s
<1>4. Rebuilds(<<s>>, words, m, m)
  BY <1>1, <1>2, <1>3 DEF Rebuilds, S
<1> QED
  BY <1>4 DEF s

LEMMA PairRebuilds ==
  ASSUME NEW words \in Seq(Word), NEW at \in Nat, NEW m, m = at + 1, NEW k, k = at + 2,
         k <= Len(words)
  PROVE  Rebuilds(<<Store(at, ReadU64(words, at))>>, words, m, k)
<1> DEFINE s == Store(at, ReadU64(words, at))
           S == CopyStore(words)
<1>1. s \in S /\ Covers(s, m) /\ Covers(s, k)
  BY CopyOfPair
<1> HIDE DEF s, S
<1>2. <<s>> \in Seq(S) /\ 1 \in DOMAIN <<s>> /\ <<s>>[1] = s
  BY <1>1
<1>3. \A j \in m..k : j = m \/ j = k
  OBVIOUS
<1>4. Rebuilds(<<s>>, words, m, k)
  BY <1>1, <1>2, <1>3 DEF Rebuilds, S
<1> QED
  BY <1>4 DEF s

LEMMA RestRebuilds ==
  ASSUME NEW words \in Seq(Word), NEW at \in Nat, NEW m, m = at + 1, at <= Len(words)
  PROVE  Rebuilds(<<Store(at, SubSeq(words, m, Len(words)))>>, words, m, Len(words))
<1> DEFINE s == Store(at, SubSeq(words, m, Len(words)))
           S == CopyStore(words)
<1>1. s \in S /\ \A j \in m..Len(words) : Covers(s, j)
  BY CopyOfRest
<1> HIDE DEF s, S
<1>2. <<s>> \in Seq(S) /\ 1 \in DOMAIN <<s>> /\ <<s>>[1] = s
  BY <1>1
<1>3. Rebuilds(<<s>>, words, m, Len(words))
  BY <1>1, <1>2 DEF Rebuilds, S
<1> QED
  BY <1>3 DEF s

LEMMA NothingRebuilds ==
  ASSUME NEW words, NEW b \in Int, NEW d, d = b + 1
  PROVE  Rebuilds(<<>>, words, d, b)
<1>1. <<>> \in Seq(CopyStore(words)) /\ d..b = {}
  OBVIOUS
<1> QED
  BY <1>1 DEF Rebuilds

LEMMA CommonRebuilds ==
  ASSUME NEW words \in Seq(Word), Len(words) >= 11
  PROVE  Rebuilds(CommonStores(Common(words)), words, 8, 11)
<1> DEFINE S  == CopyStore(words)
           s1 == StoreU32(7, ReadU32(words, 7))
           s2 == StoreU32(8, ReadU32(words, 8))
           s3 == StoreU32(9, ReadU32(words, 9))
           s4 == StoreU32(10, ReadU32(words, 10))
           t  == <<s1, s2, s3, s4>>
<1>1. CommonStores(Common(words)) = t
  BY DEF CommonStores, Common
<1>2. 7 + 1 <= Len(words) /\ 8 + 1 <= Len(words) /\ 9 + 1 <= Len(words) /\ 10 + 1 <= Len(words)
  OBVIOUS
<1>3. /\ s1 \in S /\ Covers(s1, 7 + 1) /\ s2 \in S /\ Covers(s2, 8 + 1)
      /\ s3 \in S /\ Covers(s3, 9 + 1) /\ s4 \in S /\ Covers(s4, 10 + 1)
  BY <1>2, CopyOfWord
<1> HIDE DEF S, s1, s2, s3, s4
<1>4. t \in Seq(S)
  BY <1>3
<1>5. ASSUME NEW j \in 8..11
      PROVE  \E i \in DOMAIN t : Covers(t[i], j)
  <2>1. DOMAIN t = 1..4
    OBVIOUS
  <2>2. t[1] = s1 /\ t[2] = s2 /\ t[3] = s3 /\ t[4] = s4
    OBVIOUS
  <2> HIDE DEF t
  <2>3. \E i \in 1..4 : Covers(t[i], j)
    BY <1>3, <2>2
  <2> QED
    BY <2>1, <2>3
<1>6. Rebuilds(t, words, 8, 11)
  BY <1>4, <1>5 DEF Rebuilds, S
<1> QED
  BY <1>1, <1>6

LEMMA SignalContextRebuilds ==
  ASSUME NEW words \in Seq(Word), Len(words) = 27
  PROVE  Rebuilds(SignalContextStores(SignalContextBody(words)), words, 8, 27)
<1> DEFINE b   == SignalContextBody(words)
           S   == CopyStore(words)
           s1  == StoreU32(7, ReadU32(words, 7))
           s2  == StoreU32(8, ReadU32(words, 8))
           s3  == Store(9, ReadU64(words, 9))
           s4  == Store(11, ReadU64(words, 11))
           s5  == Store(13, ReadU64(words, 13))
           s6  == Store(15, ReadU64(words, 15))
           s7  == StoreU32(17, ReadU32(words, 17))
           s8  == StoreU32(18, ReadU32(words, 18))
           s9  == Store(19, ReadU64(words, 19))
           s10 == Store(21, ReadU64(words, 21))
           s11 == StoreU32(23, ReadU32(words, 23))
           s12 == StoreU32(24, ReadU32(words, 24))
           s13 == StoreU32(25, ReadU32(words, 25))
           s14 == StoreU32(26, ReadU32(words, 26))
           t   == <<s1, s2, s3, s4, s5, s6, s7, s8, s9, s10, s11, s12, s13, s14>>
<1>1. SignalContextStores(b) = t
  <2>1. /\ b.cif0 = ReadU32(words, 7) /\ b.reference_point = ReadU32(words, 8)
        /\ b.bandwidth = ReadU64(words, 9) /\ b.if_reference_frequency = ReadU64(words, 11)
        /\ b.rf_reference_frequency = ReadU64(words, 13) /\ b.if_band_offset = ReadU64(words, 15)
        /\ b.sample_rate = ReadU64(words, 19) /\ b.timestamp_adjustment = ReadU64(words, 21)
        /\ b.timestamp_calibration_time = ReadU32(words, 23)
        /\ b.state_and_event_indicators = ReadU32(words, 24)
        /\ b.payload_format = PayloadFormatOf(ReadU32(words, 25), ReadU32(words, 26))
        /\ b.scaling_level = ReadU32(words, 17)[1] /\ b.reference_level = ReadU32(words, 17)[2]
        /\ b.gain2 = ReadU32(words, 18)[1] /\ b.gain1 = ReadU32(words, 18)[2]
    BY DEF SignalContextBody
  <2>2. /\ b.payload_format.raw_word0 = ReadU32(words, 25)
        /\ b.payload_format.raw_word1 = ReadU32(words, 26)
    BY <2>1 DEF PayloadFormatOf
  <2> HIDE DEF b
  <2>3. <<b.scaling_level, b.reference_level>> = ReadU32(words, 17)
    BY <2>1, ReadU32Type, WordOfHalves
  <2>4. <<b.gain2, b.gain1>> = ReadU32(words, 18)
    BY <2>1, ReadU32Type, WordOfHalves
  <2> QED
    BY <2>1, <2>2, <2>3, <2>4 DEF SignalContextStores
<1>2. /\ 7 + 1 <= Len(words) /\ 8 + 1 <= Len(words) /\ 17 + 1 <= Len(words)
      /\ 18 + 1 <= Len(words) /\ 23 + 1 <= Len(words) /\ 24 + 1 <= Len(words)
      /\ 25 + 1 <= Len(words) /\ 26 + 1 <= Len(words)
  OBVIOUS
<1>3. /\ 9 + 2 <= Len(words) /\ 11 + 2 <= Len(words) /\ 13 + 2 <= Len(words)
      /\ 15 + 2 <= Len(words) /\ 19 + 2 <= Len(words) /\ 21 + 2 <= Len(words)
  OBVIOUS
<1>4. /\ s1 \in S /\ Covers(s1, 7 + 1) /\ s2 \in S /\ Covers(s2, 8 + 1)
      /\ s7 \in S /\ Covers(s7, 17 + 1) /\ s8 \in S /\ Covers(s8, 18 + 1)
      /\ s11 \in S /\ Covers(s11, 23 + 1) /\ s12 \in S /\ Covers(s12, 24 + 1)
      /\ s13 \in S /\ Covers(s13, 25 + 1) /\ s14 \in S /\ Covers(s14, 26 + 1)
  <2>1. /\ s1 \in S /\ Covers(s1, 7 + 1) /\ s2 \in S /\ Covers(s2, 8 + 1)
        /\ s7 \in S /\ Covers(s7, 17 + 1) /\ s8 \in S /\ Covers(s8, 18 + 1)
    BY <1>2, CopyOfWord, ZenonT(40)
  <2>2. /\ s11 \in S /\ Covers(s11, 23 + 1) /\ s12 \in S /\ Covers(s12, 24 + 1)
        /\ s13 \in S /\ Covers(s13, 25 + 1) /\ s14 \in S /\ Covers(s14, 26 + 1)
    BY <1>2, CopyOfWord, ZenonT(40)
  <2> HIDE DEF S, s1, s2, s7, s8, s11, s12, s13, s14
  <2> QED
    BY <2>1, <2>2
<1>5. /\ s3 \in S /\ Covers(s3, 9 + 1) /\ Covers(s3, 9 + 2)
      /\ s4 \in S /\ Covers(s4, 11 + 1) /\ Covers(s4, 11 + 2)
      /\ s5 \in S /\ Covers(s5, 13 + 1) /\ Covers(s5, 13 + 2)
      /\ s6 \in S /\ Covers(s6, 15 + 1) /\ Covers(s6, 15 + 2)
      /\ s9 \in S /\ Covers(s9, 19 + 1) /\ Covers(s9, 19 + 2)
      /\ s10 \in S /\ Covers(s10, 21 + 1) /\ Covers(s10, 21 + 2)
  <2>1. /\ s3 \in S /\ Covers(s3, 9 + 1) /\ Covers(s3, 9 + 2)
        /\ s4 \in S /\ Covers(s4, 11 + 1) /\ Covers(s4, 11 + 2)
        /\ s5 \in S /\ Covers(s5, 13 + 1) /\ Covers(s5, 13 + 2)
    BY <1>3, CopyOfPair, ZenonT(40)
  <2>2. /\ s6 \in S /\ Covers(s6, 15 + 1) /\ Covers(s6, 15 + 2)
        /\ s9 \in S /\ Covers(s9, 19 + 1) /\ Covers(s9, 19 + 2)
        /\ s10 \in S /\ Covers(s10, 21 + 1) /\ Covers(s10, 21 + 2)
    BY <1>3, CopyOfPair, ZenonT(40)
  <2> HIDE DEF S, s3, s4, s5, s6, s9, s10
  <2> QED
    BY <2>1, <2>2
<1> HIDE DEF b, S, s1, s2, s3, s4, s5, s6, s7, s8, s9, s10, s11, s12, s13, s14
<1>6. t \in Seq(S)
  BY <1>4, <1>5
<1>7. ASSUME NEW j \in 8..27
      PROVE  \E i \in DOMAIN t : Covers(t[i], j)
  <2>1. DOMAIN t = 1..14
    OBVIOUS
  <2>2. /\ t[1] = s1 /\ t[2] = s2 /\ t[3] = s3 /\ t[4] = s4 /\ t[5] = s5 /\ t[6] = s6
        /\ t[7] = s7 /\ t[8] = s8 /\ t[9] = s9 /\ t[10] = s10 /\ t[11] = s11 /\ t[12] = s12
        /\ t[13] = s13 /\ t[14] = s14
    OBVIOUS
  <2> HIDE DEF t
  <2>3. CASE j <= 17
    <3>1. /\ Covers(t[1], 8) /\ Covers(t[2], 9) /\ Covers(t[3], 10) /\ Covers(t[3], 11)
          /\ Covers(t[4], 12) /\ Covers(t[4], 13) /\ Covers(t[5], 14) /\ Covers(t[5], 15)
          /\ Covers(t[6], 16) /\ Covers(t[6], 17)
      BY <1>4, <1>5, <2>2
    <3>2. j \in {8, 9, 10, 11, 12, 13, 14, 15, 16, 17}
      BY <2>3
    <3>3. \E i \in 1..14 : Covers(t[i], j)
      BY <3>1, <3>2
    <3> QED
      BY <2>1, <3>3
  <2>4. CASE j > 17
    <3>1. /\ Covers(t[7], 18) /\ Covers(t[8], 19) /\ Covers(t[9], 20) /\ Covers(t[9], 21)
          /\ Covers(t[10], 22) /\ Covers(t[10], 23) /\ Covers(t[11], 24) /\ Covers(t[12], 25)
          /\ Covers(t[13], 26) /\ Covers(t[14], 27)
      BY <1>4, <1>5, <2>2
    <3>2. j \in {18, 19, 20, 21, 22, 23, 24, 25, 26, 27}
      BY <2>4
    <3>3. \E i \in 1..14 : Covers(t[i], j)
      BY <3>1, <3>2, SMTT(20)
    <3> QED
      BY <2>1, <3>3
  <2> QED
    BY <2>3, <2>4
<1>8. Rebuilds(t, words, 8, 27)
  BY <1>6, <1>7 DEF Rebuilds, S
<1> QED
  BY <1>1, <1>8 DEF b

LEMMA VersionContextRebuilds ==
  ASSUME NEW words \in Seq(Word), Len(words) = 11,
         VersionContextBody(words).device_type = 0, ReadU32(words, 10)[2] % 64 = 0
  PROVE  Rebuilds(VersionContextStores(VersionContextBody(words)), words, 8, 11)
<1> DEFINE b  == VersionContextBody(words)
           S  == CopyStore(words)
           hi == ReadU32(words, 10)[1]
           lo == ReadU32(words, 10)[2]
           a  == lo \div 64
           s1 == StoreU32(7, ReadU32(words, 7))
           s2 == StoreU32(8, ReadU32(words, 8))
           s3 == StoreU32(9, ReadU32(words, 9))
           s4 == StoreU32(10, ReadU32(words, 10))
           t  == <<s1, s2, s3, s4>>
<1>1. VersionContextStores(b) = t
  <2>1. /\ b.cif0 = ReadU32(words, 7) /\ b.cif1 = ReadU32(words, 8)
        /\ b.vita49_spec_version = ReadU32(words, 9)
        /\ b.year = hi \div 512 /\ b.day = hi % 512 /\ b.revision = lo \div 1024
        /\ b.device_type = a % 16 /\ b.icd_version = 0
    BY DEF VersionContextBody, Version1
  <2>2. hi \in Nat /\ lo \in Nat /\ ReadU32(words, 10) = <<hi, lo>>
    <3>1. ReadU32(words, 10) \in Word
      BY ReadU32Type
    <3> QED
      BY <3>1, WordHalves, WordOfHalves
  <2>3. a % 16 = 0 /\ lo % 64 = 0 /\ b.device_type = 0
    BY <2>1
  <2> HIDE DEF b, hi, lo
  <2>4. 512 * (hi \div 512) + (hi % 512) = hi
    BY <2>2
  <2>5. lo = 64 * a + (lo % 64) /\ a \in Int /\ lo \div 1024 \in Int
    BY <2>2
  <2>6. a = 16 * (lo \div 1024) + (a % 16)
    BY <2>2
  <2> HIDE DEF a
  <2>7. 1024 * (lo \div 1024) + 64 * 0 + 0 = lo
    BY <2>2, <2>3, <2>5, <2>6
  <2>8. <<512 * b.year + b.day, 1024 * b.revision + 64 * b.device_type + b.icd_version>>
          = ReadU32(words, 10)
    BY <2>1, <2>2, <2>3, <2>4, <2>7, SMTT(20)
  <2> QED
    BY <2>1, <2>8 DEF VersionContextStores
<1>2. 7 + 1 <= Len(words) /\ 8 + 1 <= Len(words) /\ 9 + 1 <= Len(words) /\ 10 + 1 <= Len(words)
  OBVIOUS
<1>3. /\ s1 \in S /\ Covers(s1, 7 + 1) /\ s2 \in S /\ Covers(s2, 8 + 1)
      /\ s3 \in S /\ Covers(s3, 9 + 1) /\ s4 \in S /\ Covers(s4, 10 + 1)
  BY <1>2, CopyOfWord
<1> HIDE DEF b, S, s1, s2, s3, s4
<1>4. t \in Seq(S)
  BY <1>3
<1>5. ASSUME NEW j \in 8..11
      PROVE  \E i \in DOMAIN t : Covers(t[i], j)
  <2>1. DOMAIN t = 1..4
    OBVIOUS
  <2>2. t[1] = s1 /\ t[2] = s2 /\ t[3] = s3 /\ t[4] = s4
    OBVIOUS
  <2> HIDE DEF t
  <2>3. \E i \in 1..4 : Covers(t[i], j)
    BY <1>3, <2>2
  <2> QED
    BY <2>1, <2>3
<1>6. Rebuilds(t, words, 8, 11)
  BY <1>4, <1>5 DEF Rebuilds, S
<1> QED
  BY <1>1, <1>6 DEF b

LEMMA TimingFlowControlRebuilds ==
  ASSUME NEW words \in Seq(Word), Len(words) = 21
  PROVE  Rebuilds(TimingFlowControlStores(TimingFlowControlBody(words)), words, 8, 21)
<1> DEFINE b  == TimingFlowControlBody(words)
           S  == CopyStore(words)
           s1 == StoreU32(11, ReadU32(words, 11))
           s2 == StoreU32(12, ReadU32(words, 12))
           s3 == StoreU32(13, ReadU32(words, 13))
           s4 == Store(14, ReadU64(words, 14))
           s5 == Store(16, ReadU64(words, 16))
           s6 == Store(18, ReadU64(words, 18))
           s7 == StoreU32(20, ReadU32(words, 20))
           t  == <<s1, s2, s3, s4, s5, s6, s7>>
<1>1. TimingFlowControlStores(b) = CommonStores(Common(words)) \o t
  <2>1. /\ b.common = Common(words) /\ b.cif0 = ReadU32(words, 11) /\ b.cif1 = ReadU32(words, 12)
        /\ b.reference_point = ReadU32(words, 13) /\ b.sample_rate = ReadU64(words, 14)
        /\ b.timestamp_adjustment = ReadU64(words, 16) /\ b.buffer_size_bytes = ReadU64(words, 18)
        /\ b.buffer_status = BufferStatusOf(ReadU32(words, 20))
    BY DEF TimingFlowControlBody
  <2>2. b.buffer_status.raw = ReadU32(words, 20)
    BY <2>1 DEF BufferStatusOf
  <2> HIDE DEF b
  <2> QED
    BY <2>1, <2>2 DEF TimingFlowControlStores
<1>2. /\ 11 + 1 <= Len(words) /\ 12 + 1 <= Len(words) /\ 13 + 1 <= Len(words)
      /\ 20 + 1 <= Len(words) /\ 14 + 2 <= Len(words) /\ 16 + 2 <= Len(words)
      /\ 18 + 2 <= Len(words)
  OBVIOUS
<1>3. /\ s1 \in S /\ Covers(s1, 11 + 1) /\ s2 \in S /\ Covers(s2, 12 + 1)
      /\ s3 \in S /\ Covers(s3, 13 + 1) /\ s7 \in S /\ Covers(s7, 20 + 1)
  BY <1>2, CopyOfWord
<1>4. /\ s4 \in S /\ Covers(s4, 14 + 1) /\ Covers(s4, 14 + 2)
      /\ s5 \in S /\ Covers(s5, 16 + 1) /\ Covers(s5, 16 + 2)
      /\ s6 \in S /\ Covers(s6, 18 + 1) /\ Covers(s6, 18 + 2)
  BY <1>2, CopyOfPair
<1> HIDE DEF b, S, s1, s2, s3, s4, s5, s6, s7
<1>5. t \in Seq(S)
  BY <1>3, <1>4
<1>6. ASSUME NEW j \in 12..21
      PROVE  \E i \in DOMAIN t : Covers(t[i], j)
  <2>1. DOMAIN t = 1..7
    OBVIOUS
  <2>2. /\ t[1] = s1 /\ t[2] = s2 /\ t[3] = s3 /\ t[4] = s4 /\ t[5] = s5 /\ t[6] = s6
        /\ t[7] = s7
    OBVIOUS
  <2> HIDE DEF t
  <2>3. /\ Covers(t[1], 12) /\ Covers(t[2], 13) /\ Covers(t[3], 14) /\ Covers(t[4], 15)
        /\ Covers(t[4], 16) /\ Covers(t[5], 17) /\ Covers(t[5], 18) /\ Covers(t[6], 19)
        /\ Covers(t[6], 20) /\ Covers(t[7], 21)
    BY <1>3, <1>4, <2>2
  <2>4. j \in {12, 13, 14, 15, 16, 17, 18, 19, 20, 21}
    OBVIOUS
  <2>5. \E i \in 1..7 : Covers(t[i], j)
    BY <2>3, <2>4
  <2> QED
    BY <2>1, <2>5
<1>7. Rebuilds(t, words, 12, 21)
  BY <1>5, <1>6 DEF Rebuilds, S
<1> HIDE DEF t
<1>8. Rebuilds(CommonStores(Common(words)), words, 8, 11)
  <2>1. Len(words) >= 11
    OBVIOUS
  <2> QED
    BY <2>1, CommonRebuilds
<1>9. Rebuilds(CommonStores(Common(words)) \o t, words, 8, 21)
  <2>1. 12 = 11 + 1
    OBVIOUS
  <2> QED
    BY <1>7, <1>8, <2>1, RebuildsInTurn
<1> QED
  BY <1>1, <1>9 DEF b

LEMMA OptionalStores ==
  /\ \A at, x : StoreOptU32(at, Some(x)) = StoreU32(at, x)
  /\ \A at, x : StoreOptU64(at, Some(x)) = Store(at, x)
  /\ \A at, x : OptionalStore(at, Some(x)) = <<Store(at, x)>>
  /\ \A at : OptionalStore(at, None) = <<>>
<1>1. ASSUME NEW x
      PROVE  Present(Some(x)) /\ Some(x)[1] = x
  BY DEF Present, Some, None
<1>2. ASSUME NEW at, NEW x
      PROVE  StoreOptU32(at, Some(x)) = StoreU32(at, x)
  BY <1>1 DEF StoreOptU32, StoreU32, Store, Some
<1>3. ASSUME NEW at, NEW x
      PROVE  StoreOptU64(at, Some(x)) = Store(at, x)
  BY DEF StoreOptU64, Store
<1>4. ASSUME NEW at, NEW x
      PROVE  OptionalStore(at, Some(x)) = <<Store(at, x)>>
  BY <1>1 DEF OptionalStore
<1>5. ASSUME NEW at
      PROVE  OptionalStore(at, None) = <<>>
  BY DEF OptionalStore, Present
<1> QED
  BY <1>2, <1>3, <1>4, <1>5

\* The words every command packet starts with, and the CIF0 behind them.
LEMMA CommandRebuilds ==
  ASSUME NEW words \in Seq(Word), Len(words) >= 12
  PROVE  Rebuilds(CommonStores(Common(words)) \o <<StoreU32(11, ReadU32(words, 11))>>, words, 8, 12)
<1> DEFINE t == <<StoreU32(11, ReadU32(words, 11))>>
<1>1. 12 = 11 + 1 /\ 12 <= Len(words) /\ Len(words) >= 11
  OBVIOUS
<1>2. Rebuilds(CommonStores(Common(words)), words, 8, 11)
  BY <1>1, CommonRebuilds
<1>3. Rebuilds(t, words, 12, 12)
  BY <1>1, WordRebuilds
<1> HIDE DEF t
<1>4. Rebuilds(CommonStores(Common(words)) \o t, words, 8, 12)
  BY <1>1, <1>2, <1>3, RebuildsInTurn
<1> QED
  BY <1>4 DEF t

\* A word and the two behind it.
LEMMA TimeRebuilds ==
  ASSUME NEW words \in Seq(Word), NEW at \in Nat, NEW k, k = at + 1, NEW m, m = at + 1,
         NEW l, l = at + 3, l <= Len(words)
  PROVE  Rebuilds(<<StoreU32(at, ReadU32(words, at)), Store(k, ReadU64(words, k))>>, words, m, l)
<1> DEFINE s1 == StoreU32(at, ReadU32(words, at))
           s2 == Store(k, ReadU64(words, k))
           S  == CopyStore(words)
           t  == <<s1, s2>>
<1>1. k \in Nat /\ at + 1 <= Len(words) /\ k + 2 <= Len(words)
  OBVIOUS
<1>2. s1 \in S /\ Covers(s1, at + 1) /\ s2 \in S /\ Covers(s2, k + 1) /\ Covers(s2, k + 2)
  BY <1>1, CopyOfWord, CopyOfPair
<1> HIDE DEF S, s1, s2
<1>3. t \in Seq(S) /\ DOMAIN t = 1..2 /\ t[1] = s1 /\ t[2] = s2
  BY <1>2
<1> HIDE DEF t
<1>4. ASSUME NEW j \in m..l
      PROVE  \E i \in DOMAIN t : Covers(t[i], j)
  <2>1. j = at + 1 \/ j = k + 1 \/ j = k + 2
    OBVIOUS
  <2>2. 1 \in DOMAIN t /\ 2 \in DOMAIN t
    BY <1>3
  <2> QED
    BY <1>2, <1>3, <2>1, <2>2
<1>5. Rebuilds(t, words, m, l)
  BY <1>3, <1>4 DEF Rebuilds, S
<1> QED
  BY <1>5 DEF t, s1, s2

LEMMA SinkCapabilitiesQueryRebuilds ==
  ASSUME NEW words \in Seq(Word), NEW class_id,
         SinkCapabilitiesQueryError(words, Len(words), class_id) = Ok
  PROVE  Rebuilds(SinkCapabilitiesQueryStores(SinkCapabilitiesQueryBody(words)), words, 8,
                  Len(words))
<1> DEFINE b       == SinkCapabilitiesQueryBody(words)
           n       == Len(words)
           command == CommonStores(Common(words)) \o <<StoreU32(11, ReadU32(words, 11))>>
           long    == <<StoreU32(12, ReadU32(words, 12))>>
           short   == <<StoreU32(12, ReadU32(words, 12)), Store(13, ReadU64(words, 13))>>
<1>1. n = IF b.form = "Long" THEN 13 ELSE 15
  BY AcceptedQuery
<1>2. b.common = Common(words) /\ b.cif0 = ReadU32(words, 11)
  BY DEF SinkCapabilitiesQueryBody
<1>3. IF b.form = "Long"
      THEN b.cif1 = Some(ReadU32(words, 12))
      ELSE /\ b.sink_time_calibration_integer = Some(ReadU32(words, 12))
           /\ b.sink_time_calibration_fractional = Some(ReadU64(words, 13))
  BY DEF SinkCapabilitiesQueryBody, When
<1> HIDE DEF b
<1>4. SinkCapabilitiesQueryStores(b) = command \o IF b.form = "Long" THEN long ELSE short
  BY <1>2, <1>3, OptionalStores DEF SinkCapabilitiesQueryStores
<1>5. Rebuilds(command, words, 8, 12)
  <2>1. Len(words) >= 12
    BY <1>1
  <2> QED
    BY <2>1, CommandRebuilds
<1>6. CASE b.form = "Long"
  <2>1. 13 = 12 + 1 /\ n = 13 /\ 13 <= Len(words)
    BY <1>1, <1>6
  <2>2. Rebuilds(long, words, 13, 13)
    BY <2>1, WordRebuilds
  <2>3. SinkCapabilitiesQueryStores(b) = command \o long
    BY <1>4, <1>6
  <2> HIDE DEF command, long
  <2>4. Rebuilds(command \o long, words, 8, 13)
    BY <1>5, <2>1, <2>2, RebuildsInTurn
  <2> QED
    BY <2>1, <2>3, <2>4 DEF b
<1>7. CASE b.form # "Long"
  <2>1. 13 = 12 + 1 /\ 15 = 12 + 3 /\ n = 15 /\ 15 <= Len(words)
    BY <1>1, <1>7
  <2>2. Rebuilds(short, words, 13, 15)
    BY <2>1, TimeRebuilds
  <2>3. SinkCapabilitiesQueryStores(b) = command \o short
    BY <1>4, <1>7
  <2> HIDE DEF command, short
  <2>4. Rebuilds(command \o short, words, 8, 15)
    BY <1>5, <2>1, <2>2, RebuildsInTurn
  <2> QED
    BY <2>1, <2>3, <2>4 DEF b
<1> QED
  BY <1>6, <1>7

LEMMA SinkCapabilitiesResponseRebuilds ==
  ASSUME NEW words \in Seq(Word), NEW class_id,
         SinkCapabilitiesResponseError(words, Len(words), class_id) = Ok
  PROVE  Rebuilds(SinkCapabilitiesResponseStores(SinkCapabilitiesResponseBody(words)), words, 8,
                  Len(words))
<1> DEFINE b       == SinkCapabilitiesResponseBody(words)
           n       == Len(words)
           command == CommonStores(Common(words)) \o <<StoreU32(11, ReadU32(words, 11))>>
           cif1    == <<StoreU32(12, ReadU32(words, 12))>>
           table   == <<Store(13, SubSeq(words, 14, n))>>
           control == <<StoreU32(12, ReadU32(words, 12)), Store(13, ReadU64(words, 13))>>
           sink    == <<StoreU32(15, ReadU32(words, 15)), Store(16, ReadU64(words, 16))>>
<1>1. /\ b.form = "Long" => n > 13 /\ b.capability_table = Slice(SubSeq(words, 14, n))
      /\ b.form # "Long" => n = 18
      /\ n \in Nat
  <2>1. IF b.form = "Long"
        THEN n > 13 /\ b.capability_table = Slice(SubSeq(words, 14, n))
        ELSE n = 18
    BY AcceptedResponse
  <2>2. n \in Nat
    OBVIOUS
  <2> HIDE DEF b, n
  <2> QED
    BY <2>1, <2>2
<1>2. b.common = Common(words) /\ b.cif0 = ReadU32(words, 11)
  BY DEF SinkCapabilitiesResponseBody
<1>3. IF b.form = "Long"
      THEN b.cif1 = Some(ReadU32(words, 12))
      ELSE /\ b.control_packet_integer_timestamp = Some(ReadU32(words, 12))
           /\ b.control_packet_fractional_timestamp = Some(ReadU64(words, 13))
           /\ b.sink_reception_integer_timestamp = Some(ReadU32(words, 15))
           /\ b.sink_reception_fractional_timestamp = Some(ReadU64(words, 16))
  BY DEF SinkCapabilitiesResponseBody, When
<1> HIDE DEF b
<1>4. Rebuilds(command, words, 8, 12)
  <2>1. CASE b.form = "Long"
    <3>1. n > 13 /\ n \in Nat
      BY <1>1, <2>1
    <3>2. Len(words) >= 12
      BY <3>1
    <3> QED
      BY <3>2, CommandRebuilds
  <2>2. CASE b.form # "Long"
    <3>1. n = 18
      BY <1>1, <2>2
    <3>2. Len(words) >= 12
      BY <3>1
    <3> QED
      BY <3>2, CommandRebuilds
  <2> QED
    BY <2>1, <2>2
<1>5. CASE b.form = "Long"
  <2>1. 13 = 12 + 1 /\ 14 = 13 + 1 /\ n > 13 /\ b.capability_table.words = SubSeq(words, 14, n)
    BY <1>1, <1>5 DEF Slice
  <2>2. Rebuilds(cif1, words, 13, 13) /\ Rebuilds(table, words, 14, n)
    <3>1. 13 <= n
      BY <1>1, <2>1
    <3>2. Rebuilds(cif1, words, 13, 13)
      BY <2>1, <3>1, WordRebuilds
    <3>3. Rebuilds(table, words, 14, n)
      BY <2>1, <3>1, RestRebuilds
    <3> QED
      BY <3>2, <3>3
  <2>3. SinkCapabilitiesResponseStores(b) = command \o (cif1 \o table)
    <3>1. StoreOptU32(12, b.cif1) = StoreU32(12, ReadU32(words, 12))
      BY <1>3, <1>5, OptionalStores
    <3>2. <<StoreOptU32(12, b.cif1), Store(13, b.capability_table.words)>> = cif1 \o table
      BY <2>1, <3>1
    <3> HIDE DEF cif1, table
    <3> QED
      BY <1>2, <1>5, <3>2 DEF SinkCapabilitiesResponseStores
  <2> HIDE DEF command, cif1, table
  <2>4. Rebuilds(cif1 \o table, words, 13, n)
    BY <1>1, <2>1, <2>2, RebuildsInTurn
  <2>5. Rebuilds(command \o (cif1 \o table), words, 8, n)
    BY <1>1, <1>4, <2>1, <2>4, RebuildsInTurn
  <2> QED
    BY <2>3, <2>5 DEF b
<1>6. CASE b.form # "Long"
  <2>1. /\ 13 = 12 + 1 /\ 15 = 12 + 3 /\ 16 = 15 + 1 /\ 18 = 15 + 3 /\ n = 18
        /\ 15 <= n /\ 18 <= n
    <3>1. n = 18
      BY <1>1, <1>6
    <3> QED
      BY <3>1
  <2>2. Rebuilds(control, words, 13, 15)
    BY <2>1, TimeRebuilds
  <2>3. Rebuilds(sink, words, 16, 18)
    BY <2>1, TimeRebuilds
  <2>4. SinkCapabilitiesResponseStores(b) = command \o (control \o sink)
    <3>1. /\ StoreOptU32(12, b.control_packet_integer_timestamp) = StoreU32(12, ReadU32(words, 12))
          /\ StoreOptU64(13, b.control_packet_fractional_timestamp) = Store(13, ReadU64(words, 13))
          /\ StoreOptU32(15, b.sink_reception_integer_timestamp) = StoreU32(15, ReadU32(words, 15))
          /\ StoreOptU64(16, b.sink_reception_fractional_timestamp) = Store(16, ReadU64(words, 16))
      BY <1>3, <1>6, OptionalStores
    <3>2. <<StoreOptU32(12, b.control_packet_integer_timestamp),
            StoreOptU64(13, b.control_packet_fractional_timestamp),
            StoreOptU32(15, b.sink_reception_integer_timestamp),
            StoreOptU64(16, b.sink_reception_fractional_timestamp)>> = control \o sink
      BY <3>1
    <3> HIDE DEF control, sink
    <3> QED
      BY <1>2, <1>6, <3>2 DEF SinkCapabilitiesResponseStores
  <2> HIDE DEF command, control, sink
  <2>5. Rebuilds(control \o sink, words, 13, 18)
    BY <2>1, <2>2, <2>3, RebuildsInTurn
  <2>6. Rebuilds(command \o (control \o sink), words, 8, 18)
    BY <1>4, <2>1, <2>5, RebuildsInTurn
  <2> QED
    BY <2>1, <2>4, <2>6 DEF b
<1> QED
  BY <1>5, <1>6

\* The fixed words of a status report behind the common ones.
LEMMA ReportWordsRebuild ==
  ASSUME NEW words \in Seq(Word), Len(words) >= 15
  PROVE  Rebuilds(<<StoreU32(11, ReadU32(words, 11)), StoreU32(12, ReadU32(words, 12)),
                    StoreU32(13, ReadU32(words, 13)), StoreU32(14, ReadU32(words, 14))>>,
                  words, 12, 15)
<1> DEFINE S  == CopyStore(words)
           s1 == StoreU32(11, ReadU32(words, 11))
           s2 == StoreU32(12, ReadU32(words, 12))
           s3 == StoreU32(13, ReadU32(words, 13))
           s4 == StoreU32(14, ReadU32(words, 14))
           t  == <<s1, s2, s3, s4>>
<1>1. /\ 11 + 1 <= Len(words) /\ 12 + 1 <= Len(words) /\ 13 + 1 <= Len(words)
      /\ 14 + 1 <= Len(words)
  OBVIOUS
<1>2. /\ s1 \in S /\ Covers(s1, 11 + 1) /\ s2 \in S /\ Covers(s2, 12 + 1)
      /\ s3 \in S /\ Covers(s3, 13 + 1) /\ s4 \in S /\ Covers(s4, 14 + 1)
  BY <1>1, CopyOfWord
<1> HIDE DEF S, s1, s2, s3, s4
<1>3. t \in Seq(S) /\ DOMAIN t = 1..4 /\ t[1] = s1 /\ t[2] = s2 /\ t[3] = s3 /\ t[4] = s4
  BY <1>2
<1> HIDE DEF t
<1>4. ASSUME NEW j \in 12..15
      PROVE  \E i \in DOMAIN t : Covers(t[i], j)
  <2>1. \E i \in 1..4 : Covers(t[i], j)
    BY <1>2, <1>3
  <2> QED
    BY <1>3, <2>1
<1>5. Rebuilds(t, words, 12, 15)
  BY <1>3, <1>4 DEF Rebuilds, S
<1> QED
  BY <1>5 DEF t, s1, s2, s3, s4

LEMMA StatusReportRebuilds ==
  ASSUME NEW words \in Seq(Word), Len(words) \in {15, 17, 21},
         Len(words) = PacketSizeWords(ReadU32(words, 0))
  PROVE  Rebuilds(StatusReportStores(StatusReportBody(words)), words, 8, Len(words))
<1> DEFINE b      == StatusReportBody(words)
           n      == Len(words)
           common == CommonStores(Common(words))
           four   == <<StoreU32(11, ReadU32(words, 11)), StoreU32(12, ReadU32(words, 12)),
                       StoreU32(13, ReadU32(words, 13)), StoreU32(14, ReadU32(words, 14))>>
           level  == <<Store(15, ReadU64(words, 15))>>
           rate   == <<Store(17, ReadU64(words, 17))>>
           width  == <<Store(19, ReadU64(words, 19))>>
           report == common \o four
<1>1. /\ b.common = Common(words)
      /\ b.cif0 = ReadU32(words, 11) /\ b.cif1 = ReadU32(words, 12)
      /\ b.packet_errors = ReadU32(words, 13) /\ b.sink_errors_warnings = ReadU32(words, 14)
  BY DEF StatusReportBody
<1>2. /\ b.reference_level_limit = IF n >= 17 THEN Some(ReadU64(words, 15)) ELSE None
      /\ b.sample_rate_limit = IF n = 21 THEN Some(ReadU64(words, 17)) ELSE None
      /\ b.bandwidth_limit = IF n = 21 THEN Some(ReadU64(words, 19)) ELSE None
  BY DEF StatusReportBody, When, ReadU64
<1> HIDE DEF b
<1>3. StatusReportStores(b)
        = report \o OptionalStore(15, b.reference_level_limit)
                 \o OptionalStore(17, b.sample_rate_limit)
                 \o OptionalStore(19, b.bandwidth_limit)
  BY <1>1 DEF StatusReportStores
<1>4. n \in {15, 17, 21} /\ n >= 15 /\ 12 = 11 + 1 /\ n >= 11
  OBVIOUS
<1>5. Rebuilds(report, words, 8, 15)
  <2>1. Rebuilds(common, words, 8, 11) /\ Rebuilds(four, words, 12, 15)
    BY <1>4, CommonRebuilds, ReportWordsRebuild
  <2> HIDE DEF common, four
  <2> QED
    BY <1>4, <2>1, RebuildsInTurn
<1>6. report \in Seq(CopyStore(words))
  BY <1>5 DEF Rebuilds
<1> HIDE DEF report
<1>7. report \o <<>> = report
  BY <1>6
<1>8. CASE n = 15
  <2>1. StatusReportStores(b) = report
    <3>1. /\ OptionalStore(15, b.reference_level_limit) = <<>>
          /\ OptionalStore(17, b.sample_rate_limit) = <<>>
          /\ OptionalStore(19, b.bandwidth_limit) = <<>>
      <4> HIDE DEF n
      <4>1. ~(n >= 17) /\ n # 21
        BY <1>8
      <4> QED
        BY <1>2, <4>1, OptionalStores
    <3> QED
      BY <1>3, <1>7, <3>1
  <2> QED
    BY <1>5, <1>8, <2>1 DEF b
<1>9. CASE n >= 17
  <2>1. 16 = 15 + 1 /\ 17 = 15 + 2 /\ 17 <= n
    BY <1>9
  <2>2. OptionalStore(15, b.reference_level_limit) = level
    BY <1>2, <1>9, OptionalStores
  <2>3. Rebuilds(level, words, 16, 17)
    BY <2>1, PairRebuilds
  <2> HIDE DEF level
  <2>4. Rebuilds(report \o level, words, 8, 17)
    BY <1>5, <2>1, <2>3, RebuildsInTurn
  <2>5. (report \o level) \in Seq(CopyStore(words))
    BY <2>4 DEF Rebuilds
  <2>6. (report \o level) \o <<>> = report \o level
    BY <2>5
  <2>7. CASE n = 17
    <3>1. /\ OptionalStore(17, b.sample_rate_limit) = <<>>
          /\ OptionalStore(19, b.bandwidth_limit) = <<>>
      <4> HIDE DEF n
      <4>1. n # 21
        BY <2>7
      <4> QED
        BY <1>2, <4>1, OptionalStores
    <3>2. StatusReportStores(b) = report \o level
      BY <1>3, <2>2, <2>6, <3>1
    <3> QED
      BY <2>4, <2>7, <3>2 DEF b
  <2>8. CASE n = 21
    <3>1. /\ 18 = 17 + 1 /\ 19 = 17 + 2 /\ 19 <= n /\ 20 = 19 + 1 /\ 21 = 19 + 2 /\ 21 <= n
      <4> HIDE DEF n
      <4> QED
        BY <2>8
    <3>2. /\ OptionalStore(17, b.sample_rate_limit) = rate
          /\ OptionalStore(19, b.bandwidth_limit) = width
      BY <1>2, <2>8, OptionalStores
    <3>3. Rebuilds(rate, words, 18, 19)
      BY <3>1, PairRebuilds
    <3>4. Rebuilds(width, words, 20, 21)
      BY <3>1, PairRebuilds
    <3> HIDE DEF rate, width
    <3>5. Rebuilds((report \o level) \o rate, words, 8, 19)
      BY <2>4, <3>1, <3>3, RebuildsInTurn
    <3>6. Rebuilds(((report \o level) \o rate) \o width, words, 8, 21)
      BY <3>1, <3>4, <3>5, RebuildsInTurn
    <3>7. StatusReportStores(b) = ((report \o level) \o rate) \o width
      BY <1>3, <2>2, <3>2
    <3> QED
      BY <2>8, <3>6, <3>7 DEF b
  <2> QED
    BY <1>4, <1>9, <2>7, <2>8
<1> QED
  BY <1>4, <1>8, <1>9

\* Every body writer stores the words its parser read, where it read them.
LEMMA BodyRebuilds ==
  ASSUME NEW o, NEW words, Accepted(o, words)
  PROVE  Rebuilds(BodyStores(PacketOf(words)), words, 8, Len(words))
<1> DEFINE p    == PacketOf(words)
           n    == Len(words)
           c    == ParsedClassId(words)
           v    == ParsedVariant(words)
           body == BodyOf(v, words)
<1>1. /\ BodyError(o, words, n, c) = Ok
      /\ words \in Seq(Word) /\ n \in Nat /\ n >= 7
      /\ n = PacketSizeWords(ReadU32(words, 0))
  BY AcceptedStages DEF Accepted
<1>2. p.variant = v /\ p.body = body
  BY PacketOfParts
<1>3. v = VariantOf(c.packet_class)
  BY DEF ParsedVariant
<1>4. v \in {"SignalData", "SignalContext", "VersionContext", "TimingFlowControl",
             "SinkCapabilitiesQuery", "SinkCapabilitiesResponse", "StatusReport"}
  <2>1. p \in PacketValue
    BY <1>1, PacketOfType DEF Accepted
  <2> HIDE DEF p, v, body
  <2> QED
    BY <1>2, <2>1, PacketParts
<1> HIDE DEF p, n, c, v
<1>5. CASE v = "SignalData"
  <2>1. 8 = 7 + 1 /\ 7 <= n
    BY <1>1
  <2>2. body.payload.words = SubSeq(words, 8, n)
    BY <1>5 DEF BodyOf, SignalDataBody, PROLOGUE_WORDS, Slice, n
  <2>3. BodyStores(p) = <<Store(7, SubSeq(words, 8, n))>>
    BY <1>2, <1>5, <2>2 DEF BodyStores
  <2> QED
    BY <1>1, <2>1, <2>3, RestRebuilds DEF n, p
<1>6. CASE v = "SignalContext"
  <2>1. SignalContextError(words, n, c) = Ok /\ body = SignalContextBody(words)
    BY <1>1, <1>2, <1>3, <1>6 DEF BodyError, BodyOf
  <2>2. n = 27
    <3>1. ExpectPacketSize("SignalContext", n) = Ok
      BY <2>1, ThenOk DEF SignalContextError
    <3> QED
      BY <3>1 DEF ExpectPacketSize, LayoutWords, Expect, Ok
  <2>3. BodyStores(p) = SignalContextStores(body)
    BY <1>2, <1>6 DEF BodyStores
  <2> QED
    BY <1>1, <2>1, <2>2, <2>3, SignalContextRebuilds DEF n, p
<1>7. CASE v = "VersionContext"
  <2>1. VersionContextError(words, n, c) = Ok /\ body = VersionContextBody(words)
    BY <1>1, <1>2, <1>3, <1>7 DEF BodyError, BodyOf
  <2>2. n = 11
    <3>1. ExpectPacketSize("VersionContext", n) = Ok
      BY <2>1, ThenOk DEF VersionContextError
    <3> QED
      BY <3>1 DEF ExpectPacketSize, LayoutWords, Expect, Ok
  <2>3. BodyStores(p) = VersionContextStores(body)
    BY <1>2, <1>7 DEF BodyStores
  <2>4. VersionContextBody(words).device_type = 0 /\ ReadU32(words, 10)[2] % 64 = 0
    BY <1>1, <2>1, VersionContextWritesBack
  <2> QED
    BY <1>1, <2>1, <2>2, <2>3, <2>4, VersionContextRebuilds DEF n, p
<1>8. CASE v = "TimingFlowControl"
  <2>1. TimingFlowControlError(words, n, c) = Ok /\ body = TimingFlowControlBody(words)
    BY <1>1, <1>2, <1>3, <1>8 DEF BodyError, BodyOf
  <2>2. n = 21
    <3>1. ExpectPacketSize("TimingFlowControl", n) = Ok
      BY <2>1, ThenOk DEF TimingFlowControlError
    <3> QED
      BY <3>1 DEF ExpectPacketSize, LayoutWords, Expect, Ok
  <2>3. BodyStores(p) = TimingFlowControlStores(body)
    BY <1>2, <1>8 DEF BodyStores
  <2> QED
    BY <1>1, <2>1, <2>2, <2>3, TimingFlowControlRebuilds DEF n, p
<1>9. CASE v = "SinkCapabilitiesQuery"
  <2>1. /\ SinkCapabilitiesQueryError(words, n, c) = Ok
        /\ body = SinkCapabilitiesQueryBody(words)
    BY <1>1, <1>2, <1>3, <1>9 DEF BodyError, BodyOf
  <2>2. BodyStores(p) = SinkCapabilitiesQueryStores(body)
    BY <1>2, <1>9 DEF BodyStores
  <2> QED
    BY <1>1, <2>1, <2>2, SinkCapabilitiesQueryRebuilds DEF n, p
<1>10. CASE v = "SinkCapabilitiesResponse"
  <2>1. /\ SinkCapabilitiesResponseError(words, n, c) = Ok
        /\ body = SinkCapabilitiesResponseBody(words)
    BY <1>1, <1>2, <1>3, <1>10 DEF BodyError, BodyOf
  <2>2. BodyStores(p) = SinkCapabilitiesResponseStores(body)
    BY <1>2, <1>10 DEF BodyStores
  <2> QED
    BY <1>1, <2>1, <2>2, SinkCapabilitiesResponseRebuilds DEF n, p
<1>11. CASE v = "StatusReport"
  <2>1. StatusReportError(words, n, c) = Ok /\ body = StatusReportBody(words)
    BY <1>1, <1>2, <1>3, <1>11 DEF BodyError, BodyOf
  <2>2. n \in {15, 17, 21}
    BY <1>1, <2>1, StatusReportWritesBack
  <2>3. BodyStores(p) = StatusReportStores(body)
    BY <1>2, <1>11 DEF BodyStores
  <2> QED
    BY <1>1, <2>1, <2>2, <2>3, StatusReportRebuilds DEF n, p
<1> QED
  BY <1>4, <1>5, <1>6, <1>7, <1>8, <1>9, <1>10, <1>11

\* Stores that make a frame again make it whatever the slice held.
LEMMA RebuiltSlice ==
  ASSUME NEW words \in Seq(Word), NEW old \in Seq(Word), NEW stores,
         Rebuilds(stores, words, 1, Len(words)), Len(words) <= Len(old)
  PROVE  /\ StoresError(stores, old) = Ok
         /\ SubSeq(Stored(stores, old), 1, Len(words)) = words
<1> DEFINE n   == Len(words)
           new == Stored(stores, old)
<1>1. /\ stores \in Seq(CopyStore(words)) /\ n \in Nat
      /\ \A j \in 1..n : \E i \in DOMAIN stores : Covers(stores[i], j)
  BY DEF Rebuilds
<1>2. stores \in Seq(GoodStore(n))
  <2>1. CopyStore(words) \subseteq GoodStore(n)
    BY DEF CopyStore
  <2> QED
    BY <1>1, <2>1
<1>3. /\ StoresError(stores, old) = Ok
      /\ new \in Seq(Word) /\ Len(new) = Len(old)
      /\ \A j \in 1..Len(old) :
           \/ \A i \in DOMAIN stores : ~Covers(stores[i], j)
           \/ \E i \in DOMAIN stores :
                Covers(stores[i], j) /\ new[j] = stores[i].words[1][j - stores[i].at]
  BY <1>1, <1>2, AllStored
<1> HIDE DEF new
<1>4. ASSUME NEW j \in 1..n
      PROVE  new[j] = words[j]
  <2>1. j \in 1..Len(old)
    OBVIOUS
  <2>2. PICK i \in DOMAIN stores :
               Covers(stores[i], j) /\ new[j] = stores[i].words[1][j - stores[i].at]
    BY <1>1, <1>3, <2>1
  <2>3. stores[i] \in CopyStore(words)
    BY <1>1
  <2> DEFINE s == stores[i]
  <2>4. /\ s \in GoodStore(n)
        /\ \A k \in 1..Len(s.words[1]) : s.words[1][k] = words[s.at + k]
    BY <2>3 DEF CopyStore
  <2>5. s.at \in Nat /\ Len(s.words[1]) \in Nat
    <3>1. s.at \in Nat /\ s.words \in Seq(Seq(Word)) /\ Len(s.words) = 1
      BY <2>4 DEF GoodStore
    <3> QED
      BY <3>1
  <2>6. j \in (s.at + 1)..(s.at + Len(s.words[1]))
    BY <2>2 DEF Covers, EndOf
  <2> HIDE DEF s
  <2>7. j - s.at \in 1..Len(s.words[1]) /\ s.at + (j - s.at) = j
    BY <2>5, <2>6
  <2> QED
    BY <2>2, <2>4, <2>7 DEF s
<1>5. SubSeq(new, 1, n) = words
  <2>1. SubSeq(new, 1, n) = [j \in 1..n |-> new[j]]
    BY <1>1, <1>3
  <2>2. words = [j \in 1..n |-> words[j]]
    OBVIOUS
  <2> QED
    BY <1>4, <2>1, <2>2
<1> QED
  BY <1>3, <1>5 DEF new

\* What write_packet makes of a packet that was parsed under the same options.
LEMMA AcceptedWritesBack ==
  ASSUME NEW o, NEW words, Accepted(o, words), NEW slice \in Bytes
  PROVE  LET result == WritePacket(PacketOf(words), slice, o)
         IN IF ByteLen(slice) >= 4 * Len(words)
            THEN /\ result.error = Ok /\ result.written = 4 * Len(words)
                 /\ SubSeq(result.out.words, 1, Len(words)) = words
            ELSE result.error = "OutputTooSmall" /\ result.out = slice
<1> DEFINE p      == PacketOf(words)
           n      == Len(words)
           stores == PrologueStores(p) \o BodyStores(p)
           room   == ByteLen(slice) >= 4 * n
           result == WritePacket(p, slice, o)
<1>1. words \in Seq(Word) /\ n \in Nat /\ n >= 7
  BY DEF Accepted
<1>2. slice.words \in Seq(Word) /\ Len(slice.words) \in Nat /\ slice.extra \in 0..3
  BY DEF Bytes
<1>3. PrepareError(o, p) = Ok /\ EncodedLen(p) = 4 * n
  BY AcceptedPrepares, AcceptedPlan DEF EncodedLen, WORD_BYTES
<1>4. Rebuilds(stores, words, 1, n)
  <2>1. Rebuilds(PrologueStores(p), words, 1, 7) /\ Rebuilds(BodyStores(p), words, 8, n)
    BY PrologueRebuilds, BodyRebuilds
  <2> HIDE DEF p, n
  <2> QED
    BY <1>1, <2>1, RebuildsInTurn
<1>5. room => n <= Len(slice.words)
  BY <1>1, <1>2 DEF ByteLen, WORD_BYTES
<1>6. CapacityError(p, slice) = IF room THEN Ok ELSE "OutputTooSmall"
  BY <1>3 DEF CapacityError, Expect
<1> HIDE DEF p, stores
<1>7. CASE room
  <2>1. StoresError(stores, slice.words) = Ok /\ SubSeq(Stored(stores, slice.words), 1, n) = words
    BY <1>1, <1>2, <1>4, <1>5, <1>7, RebuiltSlice
  <2>2. PrepareError(o, p) ?? CapacityError(p, slice) = Ok
    BY <1>3, <1>6, <1>7 DEF ??
  <2>3. (PrepareError(o, p) ?? CapacityError(p, slice)) ?? StoresError(stores, slice.words) = Ok
    BY <2>1, <2>2 DEF ??
  <2>4. /\ result.error = Ok /\ result.written = 4 * n
        /\ result.out = [slice EXCEPT !.words = Stored(stores, slice.words)]
    BY <1>3, <2>2, <2>3 DEF WritePacket, stores
  <2>5. result.out.words = Stored(stores, slice.words)
    BY <2>4 DEF Bytes
  <2> QED
    BY <1>7, <2>1, <2>4, <2>5 DEF p
<1>8. CASE ~room
  <2>1. PrepareError(o, p) ?? CapacityError(p, slice) = "OutputTooSmall"
    BY <1>3, <1>6, <1>8 DEF ??
  <2>2. result.error = "OutputTooSmall" /\ result.out = slice
    BY <2>1 DEF WritePacket, ??, Ok
  <2> QED
    BY <1>8, <2>2 DEF p
<1> QED
  BY <1>7, <1>8

\* The exact parser takes a datagram whole: its frame is all the words it has.
LEMMA ExactTakesAll ==
  ASSUME NEW d \in Bytes, NEW o, ParsePacketExact(d, o).error = Ok
  PROVE  /\ Accepted(o, d.words) /\ d.extra = 0
         /\ ParsePacketExact(d, o).packet = PacketOf(d.words)
<1> DEFINE size == PacketSizeWords(ReadU32(d.words, 0))
           rest == RemainderOf(d)
<1>1. IsSlice(d) /\ d.words \in Seq(Word) /\ Len(d.words) \in Nat
  BY DEF IsSlice, Bytes
<1>2. /\ ParsePacketExact(d, o).packet = PacketOf(FrameOf(d))
      /\ FramingError(d) = Ok /\ PacketError(o, FrameOf(d)) = Ok
  BY ExactReturnsTheFrame
<1>3. ByteLen(rest) = 0
  <2>1. ParsePacketPrefix(d, o).error = Ok
    BY DEF ParsePacketExact
  <2>2. ParsePacketPrefix(d, o).remainder = rest
    BY <2>1, ThenOk DEF ParsePacketPrefix
  <2> QED
    BY <2>1, <2>2 DEF ParsePacketExact, Ok
<1>4. Len(rest.words) = Len(d.words) - size /\ IsSlice(rest) /\ rest.extra = d.extra
  BY <1>1, <1>2, RemainderFacts DEF RemainderOf
<1>5. /\ size \in PROLOGUE_WORDS..Len(d.words)
      /\ ReadU32(FrameOf(d), 0) = ReadU32(d.words, 0)
  <2>1. 0 \in 0..(PROLOGUE_WORDS - 1)
    BY DEF PROLOGUE_WORDS
  <2> QED
    BY <1>1, <1>2, <2>1, FrameFacts
<1> HIDE DEF size
<1>6. Len(rest.words) = 0 /\ rest.extra = 0
  <2>1. Len(rest.words) \in Nat /\ rest.extra \in 0..3
    BY <1>4 DEF IsSlice
  <2> QED
    BY <1>3, <2>1 DEF ByteLen, WORD_BYTES
<1>7. size = Len(d.words) /\ size >= 7
  BY <1>1, <1>4, <1>5, <1>6 DEF PROLOGUE_WORDS
<1>8. FrameOf(d) = d.words
  BY <1>1, <1>7 DEF FrameOf, size
<1> QED
  BY <1>1, <1>2, <1>4, <1>6, <1>7, <1>8 DEF Accepted, size

-----------------------------------------------------------------------------
(* The IQ helpers against write_packet.                                    *)

\* Stores made a second time change nothing: which word gets which value
\* depends on the words there are, never on what they hold.
LEMMA StoredAgain ==
  ASSUME NEW n \in Nat, NEW stores \in Seq(GoodStore(n)), NEW words \in Seq(Word),
         n <= Len(words)
  PROVE  Stored(stores, Stored(stores, words)) = Stored(stores, words)
<1> DEFINE after     == Stored(stores, words)
           At(D, j)  == {i \in D : Covers(stores[i], j)}
           Top(D, j) == stores[CHOOSE i \in At(D, j) : \A k \in At(D, j) : k <= i]
           Made(D, w) == [j \in 1..Len(w) |->
                            IF At(D, j) = {} THEN w[j]
                            ELSE Top(D, j).words[1][j - Top(D, j).at]]
           done      == Done(stores, words)
<1>1. after \in Seq(Word) /\ Len(after) = Len(words)
  BY AllStored
<1>2. \A w : Stored(stores, w) = Made(Done(stores, w), w)
  BY Zenon DEF Stored
<1>3. after = Made(done, words)
  BY <1>2
<1> HIDE DEF after, At, Top
<1>4. \A w : Len(w) = Len(words) => Done(stores, w) = done
  BY DEF Done, Stopped, Fits
<1>5. Stored(stores, after) = Made(done, after)
  <2> HIDE DEF Made, done
  <2> QED
    BY <1>1, <1>2, <1>4
<1> HIDE DEF done
<1>6. \A j \in 1..Len(words) :
        after[j] = IF At(done, j) = {} THEN words[j]
                   ELSE Top(done, j).words[1][j - Top(done, j).at]
  BY <1>3
<1>7. \A j \in 1..Len(words) :
        (IF At(done, j) = {} THEN after[j]
         ELSE Top(done, j).words[1][j - Top(done, j).at]) = after[j]
  BY <1>6
<1>8. Made(done, after) = [j \in 1..Len(words) |-> after[j]]
  BY <1>1, <1>7
<1>9. after = [j \in 1..Len(words) |-> after[j]]
  BY <1>1
<1> QED
  BY <1>5, <1>8, <1>9 DEF after

\* What write_packet plans for the packet built by hand is what the helper plans.
LEMMA IqPlan ==
  ASSUME NEW r, r.bits \in SampleBits, r.spec \in SpecValue,
         r.samples \in Seq(SampleValue(r.bits)), r.bits = 8 => Len(r.samples) % 2 = 0
  PROVE  LET p == IqPacket(r)
             n == IqPacketWords(r.bits, r.samples)
         IN /\ PlannedWords(p) = n
            /\ p.prologue.header = SpecHeader(r.spec, n) /\ PlannedHeader(p) = SpecHeader(r.spec, n)
            /\ PlannedWordsError(p) = Expect(n <= MAX_PACKET_WORDS, "PacketTooLarge")
            /\ BodyWriteError(DefaultOptions, p) = Ok /\ ~HasTsm(p)
            /\ p.prologue.class_id = SpecClassId(r.spec)
            /\ PrologueStores(p) \o BodyStores(p)
                 = SpecPrologueStores(r.spec, n) \o <<Store(7, PayloadWords(r.bits, r.samples))>>
<1> DEFINE words == PayloadWords(r.bits, r.samples)
           n     == IqPacketWords(r.bits, r.samples)
           p     == IqPacket(r)
           h     == SpecHeader(r.spec, n)
           c     == SpecClassId(r.spec)
<1>1. words \in Seq(Word) /\ 7 + Len(words) = n
  BY PayloadWordsType
<1>2. Slice(words).words = words /\ Slice(words).extra = 0
  BY DEF Slice
<1> HIDE DEF words, n
<1>3. /\ p.variant = "SignalData" /\ p.body.payload = Slice(words)
      /\ p.prologue.header = h /\ p.prologue.class_id = c
      /\ p.prologue.stream_id = r.spec.stream_id
      /\ p.prologue.integer_seconds_timestamp = r.spec.integer_seconds_timestamp
      /\ p.prologue.fractional_seconds_timestamp = r.spec.fractional_seconds_timestamp
  BY <1>1 DEF IqPacket, words, PROLOGUE_WORDS
<1>4. /\ h.packet_type = SignalDataWithStreamId /\ h.class_id_indicator = TRUE
      /\ h.type_specific_bits = 0 /\ h.tsm = None /\ h.tsi = r.spec.tsi /\ h.tsf = r.spec.tsf
      /\ h.sequence = r.spec.sequence /\ h.packet_size_words = n
      /\ h.raw = HeaderWord(SignalDataWithStreamId, 0, r.spec.tsi, r.spec.tsf, r.spec.sequence, n)
  BY DEF SpecHeader
<1> HIDE DEF p
<1>5. PlannedWords(p) = n
  BY <1>1, <1>2, <1>3 DEF PlannedWords, CountedWords, PROLOGUE_WORDS
<1>6. ~HasTsm(p) /\ CanonicalTypeSpecificBits(p) = 0
  BY <1>3 DEF HasTsm, CanonicalTypeSpecificBits
<1>7. PlannedHeader(p) = h
  <2>1. TsmOf(SignalDataWithStreamId, 0) = None
    BY DEF TsmOf, SignalDataWithStreamId, ContextWithStreamId, VersionWithStreamId
  <2> HIDE DEF h
  <2>2. PlannedHeader(p)
          = [raw |-> HeaderWord(SignalDataWithStreamId, 0, r.spec.tsi, r.spec.tsf,
                                r.spec.sequence, n),
             packet_type |-> SignalDataWithStreamId, class_id_indicator |-> TRUE,
             type_specific_bits |-> 0, tsm |-> None, tsi |-> r.spec.tsi, tsf |-> r.spec.tsf,
             sequence |-> r.spec.sequence, packet_size_words |-> n]
    BY <1>3, <1>4, <1>5, <1>6, <2>1 DEF PlannedHeader
  <2> QED
    BY <2>2 DEF SpecHeader, h
<1>8. PlannedWordsError(p) = Expect(n <= MAX_PACKET_WORDS, "PacketTooLarge")
  <2>1. /\ p.variant = "SignalData" => p.body.payload.extra = 0
        /\ ~(p.variant = "SinkCapabilitiesResponse" /\ p.body.form = "Long")
        /\ p.variant # "StatusReport"
    BY <1>2, <1>3
  <2> QED
    BY <1>5, <2>1 DEF PlannedWordsError, Expect, ??
<1>9. BodyWriteError(DefaultOptions, p) = Ok
  <2>1. c.pad_bit_count = 0
    BY DEF SpecClassId
  <2>2. SignalDataWriteError(DefaultOptions, p.body, c) = Ok
    BY <2>1 DEF SignalDataWriteError, WrittenDataPadding, ValidateDataPadding, Expect, ??
  <2> QED
    BY <1>3, <2>2 DEF BodyWriteError
<1>10. BodyStores(p) = <<Store(7, words)>>
  BY <1>2, <1>3 DEF BodyStores
<1>11. PrologueStores(p) = SpecPrologueStores(r.spec, n)
  <2> HIDE DEF h, c
  <2> QED
    BY <1>3, <1>7 DEF PrologueStores, SpecPrologueStores, h, c
<1> QED
  BY <1>3, <1>5, <1>6, <1>7, <1>8, <1>9, <1>10, <1>11 DEF words, n, p

\* The checks of the helper and of write_packet: the same three, of which the
\* first two come in another order.
LEMMA IqErrors ==
  ASSUME NEW r, r.bits \in SampleBits, r.spec \in SpecValue,
         r.samples \in Seq(SampleValue(r.bits)), r.bits = 8 => Len(r.samples) % 2 = 0
  PROVE  LET n       == IqPacketWords(r.bits, r.samples)
             profile == ValidatePrologue(DefaultOptions, SpecHeader(r.spec, n), SpecClassId(r.spec))
             fits    == n <= MAX_PACKET_WORDS
             counts  == r.spec.sequence <= 15
         IN /\ PrepareError(DefaultOptions, IqPacket(r))
                 = IF ~fits THEN "PacketTooLarge" ELSE IF ~counts THEN "FieldOutOfRange" ELSE profile
            /\ IqError(r.bits, r.spec, r.samples)
                 = IF ~counts THEN "FieldOutOfRange" ELSE IF ~fits THEN "PacketTooLarge" ELSE profile
<1> DEFINE n       == IqPacketWords(r.bits, r.samples)
           p       == IqPacket(r)
           h       == SpecHeader(r.spec, n)
           c       == SpecClassId(r.spec)
           profile == ValidatePrologue(DefaultOptions, h, c)
           fits    == n <= MAX_PACKET_WORDS
           counts  == r.spec.sequence <= 15
           range   == Expect(counts, "FieldOutOfRange")
           large   == Expect(fits, "PacketTooLarge")
<1>1. /\ p.prologue.header = h /\ PlannedHeader(p) = h /\ p.prologue.class_id = c
      /\ PlannedWordsError(p) = large
      /\ BodyWriteError(DefaultOptions, p) = Ok /\ ~HasTsm(p)
  BY IqPlan
<1>2. ValidateClassId(c) = Ok
  BY SpecClassIdType
<1>3. (SampleBytes(r.bits) * Len(r.samples)) % WORD_BYTES = 0
  <2>1. Len(r.samples) \in Nat
    OBVIOUS
  <2> QED
    BY <2>1, WholeWordsOfSamples DEF WORD_BYTES
<1>5. /\ range = IF counts THEN Ok ELSE "FieldOutOfRange"
      /\ large = IF fits THEN Ok ELSE "PacketTooLarge"
  BY DEF Expect
<1>6. h.sequence = r.spec.sequence /\ [h EXCEPT !.raw = h.raw] = h
  BY DEF SpecHeader
<1>7. PrologueWriteError(DefaultOptions, p) = (range ?? profile)
  <2> DEFINE agree == Expect([p.prologue.header EXCEPT !.raw = PlannedHeader(p).raw] = PlannedHeader(p),
                             "FieldMismatch")
             raw   == Expect(p.prologue.header.raw = PlannedHeader(p).raw, "FieldMismatch")
  <2>1. PrologueWriteError(DefaultOptions, p)
          = (Expect(p.prologue.header.sequence <= 15, "FieldOutOfRange") ?? agree
               ?? ValidateClassId(p.prologue.class_id) ?? raw
               ?? ValidatePrologue(DefaultOptions, PlannedHeader(p), p.prologue.class_id))
    BY DEF PrologueWriteError
  <2>2. agree = Ok /\ raw = Ok
    <3> HIDE DEF h
    <3> QED
      BY <1>1, <1>6 DEF Expect
  <2>3. Expect(p.prologue.header.sequence <= 15, "FieldOutOfRange") = range
    BY <1>1, <1>6
  <2>4. ValidatePrologue(DefaultOptions, PlannedHeader(p), p.prologue.class_id) = profile
    BY <1>1
  <2> HIDE DEF agree, raw, range, profile, p, h, c
  <2> QED
    BY <1>1, <1>2, <2>1, <2>2, <2>3, <2>4 DEF ??
<1>8. PrepareError(DefaultOptions, p) = (large ?? (range ?? profile))
  <2> DEFINE mode == Expect(HasTsm(p) => Present(p.prologue.header.tsm), "MissingField")
  <2>1. PrepareError(DefaultOptions, p)
          = (PlannedWordsError(p) ?? mode ?? PrologueWriteError(DefaultOptions, p)
               ?? BodyWriteError(DefaultOptions, p))
    BY DEF PrepareError
  <2>2. mode = Ok
    BY <1>1 DEF Expect
  <2> HIDE DEF mode, range, profile, p, large
  <2> QED
    BY <1>1, <1>7, <2>1, <2>2 DEF ??
<1>9. IqError(r.bits, r.spec, r.samples) = (range ?? (large ?? profile))
  <2> DEFINE odd     == Expect(r.bits = 8 => Len(r.samples) % 2 = 0, "OddComplexI8SampleCount")
             aligned == Expect((SampleBytes(r.bits) * Len(r.samples)) % WORD_BYTES = 0,
                               "PayloadLengthNotWordAligned")
  <2>1. IqError(r.bits, r.spec, r.samples)
          = (odd ?? aligned ?? range ?? large ?? profile ?? ValidateClassId(c))
    BY DEF IqError
  <2>2. odd = Ok /\ aligned = Ok
    BY <1>3 DEF Expect
  <2> HIDE DEF odd, aligned, range, large, profile, c
  <2> QED
    BY <1>2, <2>1, <2>2 DEF ??
<1> HIDE DEF range, large, profile, fits, counts, p
<1>10. "FieldOutOfRange" # Ok /\ "PacketTooLarge" # Ok
  BY DEF Ok
<1>11. /\ PrepareError(DefaultOptions, p)
            = IF ~fits THEN "PacketTooLarge" ELSE IF ~counts THEN "FieldOutOfRange" ELSE profile
       /\ IqError(r.bits, r.spec, r.samples)
            = IF ~counts THEN "FieldOutOfRange" ELSE IF ~fits THEN "PacketTooLarge" ELSE profile
  BY <1>5, <1>8, <1>9, <1>10 DEF ??
<1> QED
  BY <1>11 DEF profile, fits, counts, p

\* The sequence number of a request is a byte, counted like any integer.
LEMMA SequenceIsInt ==
  ASSUME NEW spec \in SpecValue
  PROVE  spec.sequence \in Int
<1>1. spec.sequence \in Byte
  BY DEF SpecValue, Byte
<1>2. spec.sequence \in Nat
  BY <1>1, HalfOf
<1> QED
  BY <1>2

\* What an IQ helper left, and what write_packet makes of it.
LEMMA HelperAndPacketWriter ==
  ASSUME NEW r, r.bits \in SampleBits, r.spec \in SpecValue,
         r.samples \in Seq(SampleValue(r.bits)), NEW slice \in Bytes,
         WriteIqData(r.bits, r.spec, r.samples, slice).error # "OddComplexI8SampleCount"
  PROVE  LET result  == WriteIqData(r.bits, r.spec, r.samples, slice)
             by_hand == WritePacket(IqPacket(r), result.out, DefaultOptions)
             both    == /\ r.spec.sequence > 15
                        /\ IqPacketWords(r.bits, r.samples) > MAX_PACKET_WORDS
         IN /\ IF both
               THEN result.error = "FieldOutOfRange" /\ by_hand.error = "PacketTooLarge"
               ELSE by_hand.error = result.error
            /\ by_hand.written = result.written
            /\ by_hand.out = result.out
<1> DEFINE n       == IqPacketWords(r.bits, r.samples)
           p       == IqPacket(r)
           stores  == SpecPrologueStores(r.spec, n) \o <<Store(7, PayloadWords(r.bits, r.samples))>>
           profile == ValidatePrologue(DefaultOptions, SpecHeader(r.spec, n), SpecClassId(r.spec))
           fits    == n <= MAX_PACKET_WORDS
           counts  == r.spec.sequence <= 15
           iq      == IqError(r.bits, r.spec, r.samples)
           hand    == PrepareError(DefaultOptions, p)
           full    == Expect(ByteLen(slice) >= WORD_BYTES * n, "OutputTooSmall")
           result  == WriteIqData(r.bits, r.spec, r.samples, slice)
           by_hand == WritePacket(p, result.out, DefaultOptions)
           both    == r.spec.sequence > 15 /\ n > MAX_PACKET_WORDS
<1>1. /\ result.error = ((iq ?? full) ?? StoresError(stores, slice.words))
      /\ result.written = IF result.error = Ok THEN WORD_BYTES * n ELSE 0
      /\ result.out = IF iq ?? full = Ok
                      THEN [slice EXCEPT !.words = Stored(stores, slice.words)] ELSE slice
  BY DEF WriteIqData
<1>2. r.bits = 8 => Len(r.samples) % 2 = 0
  <2> SUFFICES ASSUME ~(r.bits = 8 => Len(r.samples) % 2 = 0)
               PROVE  FALSE
    OBVIOUS
  <2> DEFINE odd     == Expect(r.bits = 8 => Len(r.samples) % 2 = 0, "OddComplexI8SampleCount")
             aligned == Expect((SampleBytes(r.bits) * Len(r.samples)) % WORD_BYTES = 0,
                               "PayloadLengthNotWordAligned")
             range   == Expect(counts, "FieldOutOfRange")
             large   == Expect(fits, "PacketTooLarge")
             c       == SpecClassId(r.spec)
  <2>1. odd = "OddComplexI8SampleCount" /\ odd # Ok
    BY DEF Expect, Ok
  <2>2. iq = (odd ?? aligned ?? range ?? large ?? profile ?? ValidateClassId(c))
    BY DEF IqError
  <2> HIDE DEF odd, aligned, range, large, profile, c, iq, full, result, stores
  <2>3. iq = odd
    BY <2>1, <2>2 DEF ??
  <2>4. result.error = odd
    BY <1>1, <2>1, <2>3 DEF ??
  <2> QED
    BY <2>1, <2>4 DEF result
<1>3. /\ hand = IF ~fits THEN "PacketTooLarge" ELSE IF ~counts THEN "FieldOutOfRange" ELSE profile
      /\ iq = IF ~counts THEN "FieldOutOfRange" ELSE IF ~fits THEN "PacketTooLarge" ELSE profile
  BY <1>2, IqErrors
<1>4. /\ PlannedWords(p) = n /\ PrologueStores(p) \o BodyStores(p) = stores
  BY <1>2, IqPlan
<1>5. r.spec.sequence \in Int /\ n \in Int
  <2>1. r.spec.sequence \in Int
    BY SequenceIsInt
  <2>2. n \in Nat
    BY <1>2, PayloadWordsType
  <2> HIDE DEF n
  <2>3. n \in Int
    BY <2>2
  <2> QED
    BY <2>1, <2>3
<1>6. both <=> ~counts /\ ~fits
  <2> HIDE DEF n
  <2> QED
    BY <1>5 DEF MAX_PACKET_WORDS
<1>7. Len(result.out.words) = Len(slice.words) /\ result.out.extra = slice.extra
  BY WriteIqDataKeepsTheRest DEF KeepsTheRest
<1>8. CapacityError(p, result.out) = full
  BY <1>4, <1>7 DEF CapacityError, EncodedLen, ByteLen
<1>9. /\ by_hand.error = ((hand ?? full) ?? StoresError(stores, result.out.words))
      /\ by_hand.written = IF by_hand.error = Ok THEN WORD_BYTES * n ELSE 0
      /\ by_hand.out = IF hand ?? full = Ok
                       THEN [result.out EXCEPT !.words = Stored(stores, result.out.words)]
                       ELSE result.out
  <2> DEFINE after   == result.out
             planned == PrologueStores(p) \o BodyStores(p)
             refused == hand ?? CapacityError(p, after)
  <2> HIDE DEF p, result
  <2>1. /\ by_hand.error = (refused ?? StoresError(planned, after.words))
        /\ by_hand.written = IF by_hand.error = Ok THEN EncodedLen(p) ELSE 0
        /\ by_hand.out = IF refused = Ok
                         THEN [after EXCEPT !.words = Stored(planned, after.words)] ELSE after
    BY DEF WritePacket
  <2>2. refused = (hand ?? full) /\ planned = stores /\ EncodedLen(p) = WORD_BYTES * n
    <3> HIDE DEF n, stores, full, hand
    <3> QED
      BY <1>4, <1>8 DEF EncodedLen
  <2> HIDE DEF n, stores, full, hand, refused, planned, by_hand
  <2> QED
    BY <2>1, <2>2
<1> HIDE DEF p, result, full, hand, iq, stores, by_hand, fits, counts, profile, both, n
<1>10. "FieldOutOfRange" # Ok /\ "PacketTooLarge" # Ok
  BY DEF Ok
<1>11. CASE ~(counts /\ fits /\ profile = Ok)
  <2>1. hand # Ok /\ iq # Ok
    BY <1>3, <1>10, <1>11
  <2>2. result.error = iq /\ by_hand.error = hand /\ by_hand.out = result.out
    BY <1>1, <1>9, <2>1 DEF ??
  <2>3. result.written = 0 /\ by_hand.written = 0
    BY <1>1, <1>9, <2>1, <2>2
  <2>4. IF both THEN iq = "FieldOutOfRange" /\ hand = "PacketTooLarge" ELSE hand = iq
    BY <1>3, <1>6
  <2> QED
    BY <2>2, <2>3, <2>4 DEF p, result, by_hand, both, n
<1>12. CASE counts /\ fits /\ profile = Ok
  <2>1. hand = Ok /\ iq = Ok /\ ~both
    BY <1>3, <1>6, <1>12
  <2>2. hand ?? full = full /\ iq ?? full = full
    BY <2>1 DEF ??
  <2>3. CASE full = Ok
    <3>1. n \in Nat /\ stores \in Seq(GoodStore(n))
      BY <2>1, IqStoresAreGood DEF iq, stores, n
    <3>2. n <= Len(slice.words) /\ slice.words \in Seq(Word)
      <4>1. ByteLen(slice) >= WORD_BYTES * n
        BY <2>3 DEF full, Expect, Ok
      <4> QED
        BY <3>1, <4>1, RoomInWords DEF Bytes
    <3>3. /\ StoresError(stores, slice.words) = Ok
          /\ Stored(stores, slice.words) \in Seq(Word)
          /\ Len(Stored(stores, slice.words)) = Len(slice.words)
      BY <3>1, <3>2, AllStored
    <3>4. StoresError(stores, Stored(stores, slice.words)) = Ok
      BY <3>1, <3>2, <3>3, AllStored
    <3>5. Stored(stores, Stored(stores, slice.words)) = Stored(stores, slice.words)
      BY <3>1, <3>2, StoredAgain
    <3>6. result.out = [slice EXCEPT !.words = Stored(stores, slice.words)]
      BY <1>1, <2>2, <2>3
    <3>7. /\ result.out.words = Stored(stores, slice.words)
          /\ [result.out EXCEPT !.words = Stored(stores, slice.words)] = result.out
      BY <3>6 DEF Bytes
    <3>8. result.error = Ok /\ by_hand.error = Ok
      BY <1>1, <1>9, <2>2, <2>3, <3>3, <3>4, <3>7 DEF ??
    <3>9. by_hand.out = result.out
      BY <1>9, <2>2, <2>3, <3>5, <3>7
    <3>10. by_hand.written = result.written
      BY <1>1, <1>9, <3>8
    <3> QED
      BY <2>1, <3>8, <3>9, <3>10 DEF p, result, by_hand, both, n
  <2>4. CASE full # Ok
    <3>1. result.error = full /\ by_hand.error = full /\ by_hand.out = result.out
      BY <1>1, <1>9, <2>2, <2>4 DEF ??
    <3>2. result.written = 0 /\ by_hand.written = 0
      BY <1>1, <1>9, <2>4, <3>1
    <3> QED
      BY <2>1, <3>1, <3>2 DEF p, result, by_hand, both, n
  <2> QED
    BY <2>3, <2>4
<1> QED
  BY <1>11, <1>12

-----------------------------------------------------------------------------
(* Reading back what was written.  First, the frame of a packet value: the *)
(* words of its prologue, and then those of its body.                      *)

HeadOf(p) ==
  LET pr          == p.prologue
      class_words == ClassIdWords(pr.class_id)
  IN <<PlannedHeader(p).raw, pr.stream_id, class_words[1], class_words[2],
       pr.integer_seconds_timestamp,
       pr.fractional_seconds_timestamp[1], pr.fractional_seconds_timestamp[2]>>

CommonTail(c) == <<c.cam, c.message_id, c.controllee_id, c.controller_id>>

SignalContextTail(b) ==
  <<b.cif0, b.reference_point, b.bandwidth[1], b.bandwidth[2],
    b.if_reference_frequency[1], b.if_reference_frequency[2],
    b.rf_reference_frequency[1], b.rf_reference_frequency[2],
    b.if_band_offset[1], b.if_band_offset[2],
    <<b.scaling_level, b.reference_level>>, <<b.gain2, b.gain1>>,
    b.sample_rate[1], b.sample_rate[2], b.timestamp_adjustment[1], b.timestamp_adjustment[2],
    b.timestamp_calibration_time, b.state_and_event_indicators,
    b.payload_format.raw_word0, b.payload_format.raw_word1>>

\* The words of a frame, each where it was put.
LEMMA FrameReads ==
  ASSUME NEW head \in Seq(Word), Len(head) = 7, NEW tail \in Seq(Word)
  PROVE  /\ head \o tail \in Seq(Word)
         /\ Len(head \o tail) = 7 + Len(tail)
         /\ \A i \in 1..7 : ReadU32(head \o tail, i - 1) = head[i]
         /\ \A k \in 1..Len(tail) : ReadU32(head \o tail, 6 + k) = tail[k]
         /\ SubSeq(head \o tail, 8, Len(head \o tail)) = tail
<1> DEFINE v == head \o tail
<1>1. /\ v \in Seq(Word) /\ Len(v) = 7 + Len(tail) /\ Len(tail) \in Nat
      /\ \A i \in 1..7 : v[i] = head[i]
      /\ \A k \in 1..Len(tail) : v[7 + k] = tail[k]
  <2>1. Len(tail) \in Nat
    OBVIOUS
  <2>2. /\ v \in Seq(Word) /\ Len(v) = 7 + Len(tail)
        /\ \A i \in 1..(7 + Len(tail)) : v[i] = IF i <= 7 THEN head[i] ELSE tail[i - 7]
    <3>1. /\ v \in Seq(Word) /\ Len(v) = Len(head) + Len(tail)
          /\ \A i \in 1..(Len(head) + Len(tail)) :
               v[i] = IF i <= Len(head) THEN head[i] ELSE tail[i - Len(head)]
      BY ConcatProperties
    <3> HIDE DEF v
    <3> QED
      BY <3>1
  <2> HIDE DEF v
  <2>3. \A i \in 1..7 : v[i] = head[i]
    BY <2>1, <2>2
  <2>4. \A k \in 1..Len(tail) : v[7 + k] = tail[k]
    <3>1. ASSUME NEW k \in 1..Len(tail) PROVE v[7 + k] = tail[k]
      <4>1. 7 + k \in 1..(7 + Len(tail)) /\ ~(7 + k <= 7) /\ (7 + k) - 7 = k
        BY <2>1
      <4> QED
        BY <2>2, <4>1
    <3> QED
      BY <3>1
  <2> QED
    BY <2>1, <2>2, <2>3, <2>4
<1> HIDE DEF v
<1>2. \A i \in 1..7 : ReadU32(v, i - 1) = head[i]
  BY <1>1 DEF ReadU32, HasWord
<1>3. \A k \in 1..Len(tail) : ReadU32(v, 6 + k) = tail[k]
  BY <1>1 DEF ReadU32, HasWord
<1>4. SubSeq(v, 8, Len(v)) = tail
  <2>1. SubSeq(v, 8, Len(v)) = [i \in 1..Len(tail) |-> v[7 + i]]
    BY <1>1
  <2>2. tail = [i \in 1..Len(tail) |-> tail[i]]
    OBVIOUS
  <2> QED
    BY <1>1, <2>1, <2>2
<1> QED
  BY <1>1, <1>2, <1>3, <1>4 DEF v

LEMMA SignalContextTailWords ==
  ASSUME NEW b \in SignalContextValue
  PROVE  LET t == SignalContextTail(b)
         IN /\ t \in Seq(Word) /\ Len(t) = 20
            /\ t[1] = b.cif0 /\ t[2] = b.reference_point
            /\ <<t[3], t[4]>> = b.bandwidth
            /\ <<t[5], t[6]>> = b.if_reference_frequency
            /\ <<t[7], t[8]>> = b.rf_reference_frequency
            /\ <<t[9], t[10]>> = b.if_band_offset
            /\ t[11] = <<b.scaling_level, b.reference_level>> /\ t[12] = <<b.gain2, b.gain1>>
            /\ <<t[13], t[14]>> = b.sample_rate
            /\ <<t[15], t[16]>> = b.timestamp_adjustment
            /\ t[17] = b.timestamp_calibration_time /\ t[18] = b.state_and_event_indicators
            /\ t[19] = b.payload_format.raw_word0 /\ t[20] = b.payload_format.raw_word1
<1>1. \A v \in Word64 : v[1] \in Word /\ v[2] \in Word /\ <<v[1], v[2]>> = v
  BY DEF Word64
<1>2. <<b.scaling_level, b.reference_level>> \in Word /\ <<b.gain2, b.gain1>> \in Word
  BY HalfOf DEF SignalContextValue
<1>3. /\ b.cif0 \in Word /\ b.reference_point \in Word /\ b.bandwidth \in Word64
      /\ b.if_reference_frequency \in Word64 /\ b.rf_reference_frequency \in Word64
      /\ b.if_band_offset \in Word64 /\ b.sample_rate \in Word64
      /\ b.timestamp_adjustment \in Word64 /\ b.timestamp_calibration_time \in Word
      /\ b.state_and_event_indicators \in Word
      /\ b.payload_format.raw_word0 \in Word /\ b.payload_format.raw_word1 \in Word
  BY DEF SignalContextValue, PayloadFormatValue
<1> QED
  BY <1>1, <1>2, <1>3 DEF SignalContextTail

-----------------------------------------------------------------------------
(* The prologue.                                                           *)

\* The fields packed in a header word come out of it again.
LEMMA HeaderUnpacks ==
  ASSUME NEW type \in PacketType, NEW tsb \in {0, 1, 4}, NEW tsi \in Tsi, NEW tsf \in Tsf,
         NEW sequence \in Nat, sequence <= 15, NEW size
  PROVE  LET w == HeaderWord(type, tsb, tsi, tsf, sequence, size)
         IN /\ w[1] \div 4096 = type /\ (w[1] \div 2048) % 2 = 1 /\ (w[1] \div 256) % 8 = tsb
            /\ (w[1] \div 64) % 4 = tsi /\ (w[1] \div 16) % 4 = tsf /\ w[1] % 16 = sequence
            /\ w[2] = size
<1> DEFINE n == 4096 * type + 2048 + 256 * tsb + 64 * tsi + 16 * tsf + sequence
<1>1. /\ type \in Nat /\ type <= 7 /\ tsb \in Nat /\ tsb <= 4
      /\ tsi \in Nat /\ tsi <= 3 /\ tsf \in Nat /\ tsf <= 2
  BY DEF PacketType, SignalDataWithStreamId, ContextWithStreamId, VersionWithStreamId,
     CommandWithStreamId, ExtensionCommandWithStreamId, Tsi, Tsf, SampleCount,
     RealTimePicoseconds
<1>2. n \div 4096 = type
  BY <1>1
<1>3. (n \div 2048) % 2 = 1
  <2>1. n \div 2048 = 2 * type + 1
    BY <1>1
  <2> HIDE DEF n
  <2> QED
    BY <1>1, <2>1
<1>4. (n \div 256) % 8 = tsb
  <2>1. n \div 256 = 8 * (2 * type + 1) + tsb
    BY <1>1
  <2> HIDE DEF n
  <2> QED
    BY <1>1, <2>1
<1>5. (n \div 64) % 4 = tsi
  <2>1. n \div 64 = 4 * (16 * type + 8 + tsb) + tsi
    BY <1>1
  <2> HIDE DEF n
  <2> QED
    BY <1>1, <2>1
<1>6. (n \div 16) % 4 = tsf
  <2>1. n \div 16 = 4 * (64 * type + 32 + 4 * tsb + tsi) + tsf
    BY <1>1
  <2> HIDE DEF n
  <2> QED
    BY <1>1, <2>1
<1>7. n % 16 = sequence
  <2>1. n = 16 * (256 * type + 128 + 16 * tsb + 4 * tsi + tsf) + sequence
    BY <1>1
  <2> HIDE DEF n
  <2> QED
    BY <1>1, <2>1
<1> HIDE DEF n
<1>8. HeaderWord(type, tsb, tsi, tsf, sequence, size) = <<n, size>>
  BY DEF HeaderWord, n
<1> QED
  BY <1>2, <1>3, <1>4, <1>5, <1>6, <1>7, <1>8

\* And so do those of the class identifier words.
LEMMA ClassIdUnpacks ==
  ASSUME NEW c \in ClassIdValue, ValidateClassId(c) = Ok
  PROVE  LET w0 == ClassIdWords(c)[1]
             w1 == ClassIdWords(c)[2]
         IN ClassIdError(w0, w1) = Ok /\ ClassIdOf(w0, w1) = c
<1> DEFINE w0 == ClassIdWords(c)[1]
           w1 == ClassIdWords(c)[2]
           n  == 2048 * c.pad_bit_count + 106
<1>1. /\ c.pad_bit_count \in Nat /\ c.pad_bit_count <= 31
      /\ c.information_class \in InformationClassCode /\ c.packet_class \in PacketClassCode
      /\ c.oui = <<106, 25118>>
  <2>1. /\ Expect(c.pad_bit_count <= MaxPadBits, "FieldOutOfRange") = Ok
        /\ Expect(c.oui = DIFI_CID, "FieldMismatch") = Ok
    BY ThenOk DEF ValidateClassId
  <2>2. c.pad_bit_count <= 31 /\ c.oui = <<106, 25118>>
    BY <2>1 DEF Expect, Ok, MaxPadBits, DIFI_CID
  <2> QED
    BY <2>2, HalfOf DEF ClassIdValue
<1>2. c = [pad_bit_count |-> c.pad_bit_count, oui |-> c.oui,
           information_class |-> c.information_class, packet_class |-> c.packet_class]
  BY DEF ClassIdValue
<1>3. w0 = <<n, 25118>> /\ w1 = <<c.information_class, c.packet_class>>
  BY <1>1 DEF ClassIdWords
<1>4. n \div 2048 = c.pad_bit_count /\ n % 256 = 106 /\ (n \div 256) % 8 = 0
  <2>1. \A pad \in Nat : pad <= 31 =>
          /\ (2048 * pad + 106) \div 2048 = pad
          /\ (2048 * pad + 106) % 256 = 106
          /\ (2048 * pad + 106) \div 256 = 8 * pad
    <3> SUFFICES ASSUME NEW pad \in Nat, pad <= 31
                 PROVE  /\ (2048 * pad + 106) \div 2048 = pad
                        /\ (2048 * pad + 106) % 256 = 106
                        /\ (2048 * pad + 106) \div 256 = 8 * pad
      OBVIOUS
    <3>1. (2048 * pad + 106) \div 2048 = pad
      OBVIOUS
    <3>2. (2048 * pad + 106) % 256 = 106
      OBVIOUS
    <3>3. (2048 * pad + 106) \div 256 = 8 * pad
      OBVIOUS
    <3> QED
      BY <3>1, <3>2, <3>3
  <2>2. (8 * c.pad_bit_count) % 8 = 0
    BY <1>1
  <2> QED
    BY <1>1, <2>1, <2>2
<1> HIDE DEF w0, w1, n
<1>5. ClassIdOf(w0, w1) = c
  BY <1>1, <1>2, <1>3, <1>4 DEF ClassIdOf
<1>6. /\ Expect((w0[1] \div 256) % 8 = 0, "ReservedBitsNonZero") = Ok
      /\ Expect(<<w0[1] % 256, w0[2]>> = DIFI_CID, "InvalidOui") = Ok
      /\ Expect(w1[1] \in InformationClassCode, "UnknownInformationClass") = Ok
      /\ Expect(w1[2] \in PacketClassCode, "UnknownPacketClass") = Ok
  BY <1>1, <1>3, <1>4 DEF Expect, DIFI_CID
<1>7. ClassIdError(w0, w1) = Ok
  BY <1>6, ThenOk DEF ClassIdError
<1> QED
  BY <1>5, <1>7 DEF w0, w1

\* The prologue of a packet value that prepare_packet let through.
LEMMA PrologueReadsBack ==
  ASSUME NEW o, NEW p \in PacketValue, PlannedWordsError(p) = Ok, PrologueWriteError(o, p) = Ok,
         NEW words,
         \A i \in 1..7 : ReadU32(words, i - 1) = HeadOf(p)[i],
         PlannedWords(p) = Len(words)
  PROVE  /\ HeaderError(ReadU32(words, 0)) = Ok
         /\ ClassIdError(ReadU32(words, 2), ReadU32(words, 3)) = Ok
         /\ ParsedHeader(words).class_id_indicator = TRUE
         /\ ValidatePrologue(o, ParsedHeader(words), ParsedClassId(words)) = Ok
         /\ ParsedClassId(words) = p.prologue.class_id
         /\ PrologueOf(words) = p.prologue
         /\ PacketSizeWords(ReadU32(words, 0)) = Len(words)
<1> DEFINE pr   == p.prologue
           h    == pr.header
           c    == pr.class_id
           plan == PlannedHeader(p)
           tsb  == CanonicalTypeSpecificBits(p)
           size == PlannedWords(p)
           w    == HeaderWord(h.packet_type, tsb, h.tsi, h.tsf, h.sequence, size)
<1>1. /\ pr \in PrologueValue /\ h \in PacketHeaderValue /\ c \in ClassIdValue
      /\ pr.fractional_seconds_timestamp \in Word64
  BY PacketParts DEF PrologueValue
<1>2. /\ h.sequence <= 15 /\ [h EXCEPT !.raw = plan.raw] = plan /\ ValidateClassId(c) = Ok
      /\ h.raw = plan.raw /\ ValidatePrologue(o, plan, c) = Ok
  BY PrologueWriteOk
<1>3. /\ h.packet_type \in PacketType /\ h.tsi \in Tsi /\ h.tsf \in Tsf
      /\ h.sequence \in Nat /\ tsb \in {0, 1, 4}
  <2>1. /\ h.packet_type \in PacketType /\ h.tsi \in Tsi /\ h.tsf \in Tsf
        /\ h.sequence \in Byte
    BY <1>1 DEF PacketHeaderValue
  <2>2. tsb \in {0, 1, 4}
    BY TypeSpecificBitsType
  <2> QED
    BY <2>1, <2>2, HalfOf
<1>4. h = plan
  BY <1>1, <1>2 DEF PacketHeaderValue
<1>5. plan = [raw |-> w, packet_type |-> h.packet_type, class_id_indicator |-> TRUE,
              type_specific_bits |-> tsb, tsm |-> TsmOf(h.packet_type, tsb), tsi |-> h.tsi,
              tsf |-> h.tsf, sequence |-> h.sequence, packet_size_words |-> size]
  BY DEF PlannedHeader
<1>6. /\ w[1] \div 4096 = h.packet_type /\ (w[1] \div 2048) % 2 = 1 /\ (w[1] \div 256) % 8 = tsb
      /\ (w[1] \div 64) % 4 = h.tsi /\ (w[1] \div 16) % 4 = h.tsf /\ w[1] % 16 = h.sequence
      /\ w[2] = size
  <2>1. h.sequence <= 15
    BY <1>2
  <2> HIDE DEF tsb, size, plan, c, h, pr
  <2> QED
    BY <1>3, <2>1, HeaderUnpacks
<1>7. /\ ReadU32(words, 0) = w /\ ReadU32(words, 1) = pr.stream_id
      /\ ReadU32(words, 2) = ClassIdWords(c)[1] /\ ReadU32(words, 3) = ClassIdWords(c)[2]
      /\ ReadU32(words, 4) = pr.integer_seconds_timestamp
      /\ ReadU32(words, 5) = pr.fractional_seconds_timestamp[1]
      /\ ReadU32(words, 6) = pr.fractional_seconds_timestamp[2]
  BY <1>5 DEF HeadOf
<1> HIDE DEF w, tsb, size, plan
<1>8. HeaderOf(w) = plan
  <2> DEFINE type  == w[1] \div 4096
             set   == (w[1] \div 2048) % 2 = 1
             bits  == (w[1] \div 256) % 8
             tsi   == (w[1] \div 64) % 4
             tsf   == (w[1] \div 16) % 4
             count == w[1] % 16
  <2>1. /\ type = h.packet_type /\ bits = tsb /\ tsi = h.tsi /\ tsf = h.tsf
        /\ count = h.sequence /\ w[2] = size
    BY <1>6
  <2>2. set = TRUE
    BY <1>6
  <2>3. HeaderOf(w)
          = [raw |-> w, packet_type |-> type, class_id_indicator |-> set,
             type_specific_bits |-> bits, tsm |-> TsmOf(type, bits), tsi |-> tsi,
             tsf |-> tsf, sequence |-> count, packet_size_words |-> w[2]]
    BY DEF HeaderOf, PacketSizeWords
  <2> HIDE DEF type, set, bits, tsi, tsf, count
  <2> QED
    BY <1>5, <2>1, <2>2, <2>3
<1>9. HeaderError(w) = Ok
  <2>1. /\ Expect(w[1] \div 4096 \in PacketType, "UnsupportedPacketType") = Ok
        /\ Expect((w[1] \div 64) % 4 \in Tsi, "InvalidTsi") = Ok
        /\ Expect((w[1] \div 16) % 4 \in Tsf, "InvalidTsf") = Ok
    BY <1>3, <1>6 DEF Expect
  <2> QED
    BY <2>1, ThenOk DEF HeaderError
<1>10. ClassIdError(ReadU32(words, 2), ReadU32(words, 3)) = Ok /\ ParsedClassId(words) = c
  BY <1>1, <1>2, <1>7, ClassIdUnpacks DEF ParsedClassId
<1>11. ParsedHeader(words) = plan
  BY <1>7, <1>8 DEF ParsedHeader
<1>12. PrologueOf(words) = pr
  <2>1. ReadU64(words, 5) = pr.fractional_seconds_timestamp
    <3>1. ReadU64(words, 5) = <<ReadU32(words, 5), ReadU32(words, 6)>>
      BY DEF ReadU64
    <3>2. \A v \in Word64 : <<v[1], v[2]>> = v
      BY DEF Word64
    <3> QED
      BY <1>1, <1>7, <3>1, <3>2
  <2>2. PrologueOf(words)
          = [header |-> h, stream_id |-> pr.stream_id, class_id |-> c,
             integer_seconds_timestamp |-> pr.integer_seconds_timestamp,
             fractional_seconds_timestamp |-> pr.fractional_seconds_timestamp]
    BY <1>4, <1>7, <1>10, <1>11, <2>1 DEF PrologueOf, ParsedHeader, ParsedClassId
  <2> QED
    BY <1>1, <2>2 DEF PrologueValue
<1>13. PacketSizeWords(ReadU32(words, 0)) = Len(words)
  BY <1>6, <1>7 DEF PacketSizeWords, size
<1>14. ParsedHeader(words).class_id_indicator = TRUE
  BY <1>5, <1>11
<1> QED
  BY <1>2, <1>7, <1>9, <1>10, <1>11, <1>12, <1>13, <1>14

-----------------------------------------------------------------------------
(* The bodies: what the checks of the writer let through those of the      *)
(* parser do, and it decodes to the fields the words were made of.         *)

\* The words of a body, where the parser reads them.
TailAt(words, tail) ==
  /\ Len(words) = 7 + Len(tail)
  /\ \A k \in 1..Len(tail) : ReadU32(words, 6 + k) = tail[k]

LEMMA SignalDataReadsBack ==
  ASSUME NEW o, NEW b \in SignalDataValue, NEW class_id, NEW words,
         SignalDataWriteError(o, b, class_id) = Ok, b.payload.extra = 0,
         SubSeq(words, 8, Len(words)) = b.payload.words
  PROVE  DataError(o, words, class_id) = Ok /\ SignalDataBody(words) = b
<1>1. SubSeq(words, PROLOGUE_WORDS + 1, Len(words)) = b.payload.words
  BY DEF PROLOGUE_WORDS
<1>2. b = [payload |-> [words |-> b.payload.words, extra |-> 0]]
  BY DEF SignalDataValue, Bytes
<1> QED
  BY <1>1, <1>2 DEF SignalDataWriteError, WrittenDataPadding, DataError, SignalDataBody, Slice

LEMMA PayloadFormatReadsBack ==
  ASSUME NEW f \in PayloadFormatValue, PayloadFormatWriteError(f) = Ok
  PROVE  /\ PayloadFormatError(f.raw_word0, f.raw_word1) = Ok
         /\ PayloadFormatOf(f.raw_word0, f.raw_word1) = f
<1> DEFINE m     == f.data_item_size_bits - 1
           range == f.data_item_size_bits \in 4..16
           match == /\ f.item_packing_field_size_bits = f.data_item_size_bits
                    /\ f.raw_word0 = <<\hA000, 64 * m + m>>
                    /\ f.raw_word1 = <<0, 0>>
           x     == 64 * m + m
<1>1. range /\ match
  <2>1. PayloadFormatWriteError(f)
          = (Expect(range, "FieldOutOfRange") ?? Expect(match, "FieldMismatch"))
    BY DEF PayloadFormatWriteError
  <2> HIDE DEF range, match
  <2>2. Expect(range, "FieldOutOfRange") = Ok /\ Expect(match, "FieldMismatch") = Ok
    BY <2>1, ThenOk
  <2> QED
    BY <2>2 DEF Expect, Ok
<1>2. m \in 3..15 /\ m + 1 = f.data_item_size_bits
  BY <1>1
<1> HIDE DEF m
<1>3. x \div 4096 = 0 /\ x % 64 = m /\ (x \div 64) % 64 = m
  <2>1. x \div 64 = m
    BY <1>2
  <2>2. x % 64 = m /\ x \div 4096 = 0
    BY <1>2
  <2> HIDE DEF x
  <2> QED
    BY <1>2, <2>1, <2>2
<1>4. f.raw_word0 = <<40960, x>> /\ f.raw_word1 = <<0, 0>>
  BY <1>1 DEF m
<1> HIDE DEF x
<1>5. PayloadFormatError(f.raw_word0, f.raw_word1) = Ok
  BY <1>2, <1>3, <1>4 DEF PayloadFormatError, Expect
<1>6. f = [raw_word0 |-> f.raw_word0, raw_word1 |-> f.raw_word1,
           data_item_size_bits |-> m + 1, item_packing_field_size_bits |-> m + 1]
  BY <1>1, <1>2 DEF PayloadFormatValue
<1>7. PayloadFormatOf(f.raw_word0, f.raw_word1) = f
  BY <1>3, <1>4, <1>6 DEF PayloadFormatOf
<1> QED
  BY <1>5, <1>7

LEMMA SignalContextReadsBack ==
  ASSUME NEW b \in SignalContextValue, NEW class_id, NEW size, NEW words,
         SignalContextWriteError(b, class_id, size) = Ok, TailAt(words, SignalContextTail(b))
  PROVE  SignalContextError(words, size, class_id) = Ok /\ SignalContextBody(words) = b
<1> DEFINE t       == SignalContextTail(b)
           f       == b.payload_format
           changed == b.cif0 = CIF_CONTEXT_CHANGED
<1>1. /\ ExpectNoPadding(class_id) = Ok
      /\ ExpectPacketSize("SignalContext", size) = Ok
      /\ ExpectSignalContextCif0(b.cif0) = Ok
      /\ Expect(b.context_changed <=> b.cif0 = CIF_CONTEXT_CHANGED, "FieldMismatch") = Ok
      /\ IntegerHz(b.bandwidth) = Ok /\ IntegerHz(b.if_reference_frequency) = Ok
      /\ IntegerHz(b.rf_reference_frequency) = Ok /\ IntegerHz(b.if_band_offset) = Ok
      /\ IntegerHz(b.sample_rate) = Ok
      /\ PayloadFormatWriteError(f) = Ok
  BY ThenOk DEF SignalContextWriteError
<1>2. b.context_changed = changed
  <2>1. b.context_changed \in BOOLEAN
    BY DEF SignalContextValue
  <2>2. b.context_changed <=> changed
    BY <1>1 DEF Expect, Ok
  <2> QED
    BY <2>1, <2>2
<1>3. f \in PayloadFormatValue
  BY DEF SignalContextValue
<1>4. /\ PayloadFormatError(f.raw_word0, f.raw_word1) = Ok
      /\ PayloadFormatOf(f.raw_word0, f.raw_word1) = f
  BY <1>1, <1>3, PayloadFormatReadsBack
<1>5. /\ Len(words) = 27
      /\ ReadU32(words, 7) = b.cif0 /\ ReadU32(words, 8) = b.reference_point
      /\ ReadU64(words, 9) = b.bandwidth /\ ReadU64(words, 11) = b.if_reference_frequency
      /\ ReadU64(words, 13) = b.rf_reference_frequency /\ ReadU64(words, 15) = b.if_band_offset
      /\ ReadU32(words, 17) = <<b.scaling_level, b.reference_level>>
      /\ ReadU32(words, 18) = <<b.gain2, b.gain1>>
      /\ ReadU64(words, 19) = b.sample_rate /\ ReadU64(words, 21) = b.timestamp_adjustment
      /\ ReadU32(words, 23) = b.timestamp_calibration_time
      /\ ReadU32(words, 24) = b.state_and_event_indicators
      /\ ReadU32(words, 25) = f.raw_word0 /\ ReadU32(words, 26) = f.raw_word1
  <2>1. /\ Len(t) = 20
        /\ t[1] = b.cif0 /\ t[2] = b.reference_point
        /\ <<t[3], t[4]>> = b.bandwidth
        /\ <<t[5], t[6]>> = b.if_reference_frequency
        /\ <<t[7], t[8]>> = b.rf_reference_frequency
        /\ <<t[9], t[10]>> = b.if_band_offset
        /\ t[11] = <<b.scaling_level, b.reference_level>> /\ t[12] = <<b.gain2, b.gain1>>
        /\ <<t[13], t[14]>> = b.sample_rate
        /\ <<t[15], t[16]>> = b.timestamp_adjustment
        /\ t[17] = b.timestamp_calibration_time /\ t[18] = b.state_and_event_indicators
        /\ t[19] = f.raw_word0 /\ t[20] = f.raw_word1
    BY SignalContextTailWords
  <2> HIDE DEF t
  <2>2. Len(words) = 27 /\ \A k \in 1..20 : ReadU32(words, 6 + k) = t[k]
    BY <2>1 DEF TailAt, t
  <2> QED
    BY <2>1, <2>2 DEF ReadU64
<1> HIDE DEF t, changed, f
<1>6. SignalContextBody(words) = b
  <2>1. SignalContextBody(words)
          = [cif0 |-> b.cif0, context_changed |-> b.context_changed,
             reference_point |-> b.reference_point, bandwidth |-> b.bandwidth,
             if_reference_frequency |-> b.if_reference_frequency,
             rf_reference_frequency |-> b.rf_reference_frequency,
             if_band_offset |-> b.if_band_offset, scaling_level |-> b.scaling_level,
             reference_level |-> b.reference_level, gain2 |-> b.gain2, gain1 |-> b.gain1,
             sample_rate |-> b.sample_rate, timestamp_adjustment |-> b.timestamp_adjustment,
             timestamp_calibration_time |-> b.timestamp_calibration_time,
             state_and_event_indicators |-> b.state_and_event_indicators,
             payload_format |-> f]
    BY <1>2, <1>4, <1>5 DEF SignalContextBody, changed
  <2> QED
    BY <2>1 DEF SignalContextValue, f
<1>7. SignalContextError(words, size, class_id) = Ok
  <2>1. Needs(words, 26) = Ok
    BY <1>5 DEF Needs, HasWord, Expect
  <2> QED
    BY <1>1, <1>4, <1>5, <2>1, ThenOk DEF SignalContextError
<1> QED
  BY <1>6, <1>7

VersionContextTail(b) ==
  <<b.cif0, b.cif1, b.vita49_spec_version,
    <<512 * b.year + b.day, 1024 * b.revision + 64 * b.device_type + b.icd_version>>>>

LEMMA VersionContextReadsBack ==
  ASSUME NEW b \in VersionContextValue, NEW class_id, NEW size, NEW words,
         VersionContextWriteError(b, class_id, size) = Ok, TailAt(words, VersionContextTail(b))
  PROVE  VersionContextError(words, size, class_id) = Ok /\ VersionContextBody(words) = b
<1> DEFINE t       == VersionContextTail(b)
           changed == b.cif0 = CIF_VERSION_CHANGED
           hi      == 512 * b.year + b.day
           lo      == 1024 * b.revision + 64 * b.device_type + b.icd_version
<1>1. /\ ExpectNoPadding(class_id) = Ok
      /\ ExpectPacketSize("VersionContext", size) = Ok
      /\ ExpectVersionContextCif0(b.cif0) = Ok
      /\ Expect(b.context_changed <=> b.cif0 = CIF_VERSION_CHANGED, "FieldMismatch") = Ok
      /\ ExpectFixed("version_context_cif1", b.cif1) = Ok
      /\ ExpectFixed("vita49_spec_version", b.vita49_spec_version) = Ok
  BY ThenOk DEF VersionContextWriteError
<1>2. b.context_changed = changed
  <2>1. b.context_changed \in BOOLEAN
    BY DEF VersionContextValue
  <2>2. b.context_changed <=> changed
    BY <1>1 DEF Expect, Ok
  <2> QED
    BY <2>1, <2>2
<1>3. /\ b.year \in Nat /\ b.day \in Nat /\ b.day <= 511 /\ b.revision \in Nat
      /\ b.device_type = 0 /\ b.icd_version = 0
  <2>1. b.day <= 511 /\ b.device_type = 0
    BY VersionContextWriteOk
  <2>2. b.year \in Byte /\ b.day \in Half /\ b.revision \in Byte /\ b.icd_version = 0
    BY DEF VersionContextValue, Version1
  <2> QED
    BY <2>1, <2>2, HalfOf
<1>4. /\ hi \div 512 = b.year /\ hi % 512 = b.day
      /\ lo \div 1024 = b.revision /\ (lo \div 64) % 16 = 0 /\ lo % 64 = 0
  <2>1. \A y \in Nat, d \in Nat : d <= 511 =>
          (512 * y + d) \div 512 = y /\ (512 * y + d) % 512 = d
    OBVIOUS
  <2>2. \A r \in Nat : (1024 * r) \div 1024 = r /\ (1024 * r) \div 64 = 16 * r
                       /\ (1024 * r) % 64 = 0
    OBVIOUS
  <2>3. \A r \in Nat : (16 * r) % 16 = 0
    OBVIOUS
  <2>4. lo = 1024 * b.revision /\ hi = 512 * b.year + b.day
    BY <1>3
  <2> DEFINE y == b.year
             d == b.day
  <2>5. y \in Nat /\ d \in Nat /\ d <= 511 /\ hi = 512 * y + d
    BY <1>3, <2>4
  <2> HIDE DEF hi, lo, y, d
  <2>6. hi \div 512 = y /\ hi % 512 = d
    BY <2>1, <2>5
  <2>7. hi \div 512 = b.year /\ hi % 512 = b.day
    BY <2>6 DEF y, d
  <2> QED
    BY <1>3, <2>2, <2>3, <2>4, <2>7
<1>5. /\ Len(words) = 11
      /\ ReadU32(words, 7) = b.cif0 /\ ReadU32(words, 8) = b.cif1
      /\ ReadU32(words, 9) = b.vita49_spec_version /\ ReadU32(words, 10) = <<hi, lo>>
  <2>1. /\ Len(t) = 4 /\ t[1] = b.cif0 /\ t[2] = b.cif1 /\ t[3] = b.vita49_spec_version
        /\ t[4] = <<hi, lo>>
    BY DEF VersionContextTail
  <2> HIDE DEF t, hi, lo
  <2>2. Len(words) = 11 /\ \A k \in 1..4 : ReadU32(words, 6 + k) = t[k]
    BY <2>1 DEF TailAt, t
  <2> QED
    BY <2>1, <2>2
<1> HIDE DEF t, changed, hi, lo
<1>6. VersionContextBody(words) = b
  <2>1. VersionContextBody(words)
          = [cif0 |-> b.cif0, context_changed |-> changed, cif1 |-> b.cif1,
             vita49_spec_version |-> b.vita49_spec_version, year |-> hi \div 512,
             day |-> hi % 512, revision |-> lo \div 1024,
             device_type |-> (lo \div 64) % 16, icd_version |-> Version1]
    BY <1>5 DEF VersionContextBody, changed
  <2>2. VersionContextBody(words)
          = [cif0 |-> b.cif0, context_changed |-> b.context_changed, cif1 |-> b.cif1,
             vita49_spec_version |-> b.vita49_spec_version, year |-> b.year, day |-> b.day,
             revision |-> b.revision, device_type |-> b.device_type,
             icd_version |-> b.icd_version]
    BY <1>2, <1>3, <1>4, <2>1 DEF Version1
  <2> QED
    BY <2>2 DEF VersionContextValue
<1>7. VersionContextError(words, size, class_id) = Ok
  <2>1. Needs(words, 10) = Ok
    BY <1>5 DEF Needs, HasWord, Expect
  <2>2. /\ Expect((ReadU32(words, 10)[2] \div 64) % 16 = 0, "InvalidFieldValue") = Ok
        /\ Expect(ReadU32(words, 10)[2] % 64 = Version1, "InvalidFieldValue") = Ok
    BY <1>4, <1>5 DEF Expect, Version1
  <2> QED
    BY <1>1, <1>5, <2>1, <2>2, ThenOk DEF VersionContextError
<1> QED
  BY <1>6, <1>7

LEMMA BufferStatusReadsBack ==
  ASSUME NEW s \in BufferStatusValue, BufferStatusWriteError(s) = Ok
  PROVE  s.raw[1] = 0 /\ BufferStatusOf(s.raw) = s
<1> DEFINE Bit(flag, weight) == IF flag THEN weight ELSE 0
           flags == Bit(s.overflow, 8) + Bit(s.nearly_full, 4) + Bit(s.nearly_empty, 2)
                      + Bit(s.underflow, 1)
           n     == 16 * s.buffer_level + flags
           range == Expect(s.buffer_level <= 4095, "FieldOutOfRange")
           match == Expect(s.raw = <<0, n>>, "FieldMismatch")
<1>1. s.raw = <<0, n>>
  <2>1. BufferStatusWriteError(s) = (range ?? match)
    BY DEF BufferStatusWriteError
  <2> HIDE DEF n, range
  <2>2. match = Ok
    <3> HIDE DEF match
    <3> QED
      BY <2>1, ThenOk
  <2> QED
    BY <2>2 DEF Expect, Ok
<1> DEFINE a0 == Bit(s.overflow, 1)
           b0 == Bit(s.nearly_full, 1)
           c0 == Bit(s.nearly_empty, 1)
           d0 == Bit(s.underflow, 1)
           m  == s.buffer_level
<1>2. /\ s.overflow \in BOOLEAN /\ s.nearly_full \in BOOLEAN /\ s.nearly_empty \in BOOLEAN
      /\ s.underflow \in BOOLEAN /\ m \in Nat
  BY HalfOf DEF BufferStatusValue
<1>3. /\ a0 \in {0, 1} /\ b0 \in {0, 1} /\ c0 \in {0, 1} /\ d0 \in {0, 1}
      /\ Bit(s.overflow, 8) = 8 * a0 /\ Bit(s.nearly_full, 4) = 4 * b0
      /\ Bit(s.nearly_empty, 2) = 2 * c0 /\ Bit(s.underflow, 1) = d0
      /\ (a0 = 1) = s.overflow /\ (b0 = 1) = s.nearly_full
      /\ (c0 = 1) = s.nearly_empty /\ (d0 = 1) = s.underflow
  BY <1>2
<1>4. n = 16 * m + 8 * a0 + 4 * b0 + 2 * c0 + d0
  <2>1. n = 16 * m + (Bit(s.overflow, 8) + Bit(s.nearly_full, 4) + Bit(s.nearly_empty, 2)
                        + Bit(s.underflow, 1))
    OBVIOUS
  <2> HIDE DEF n, a0, b0, c0, d0, m, Bit
  <2> QED
    BY <1>2, <1>3, <2>1
<1> HIDE DEF flags, n, a0, b0, c0, d0, m, Bit
<1>5. /\ n \div 16 = m /\ (n \div 8) % 2 = a0 /\ (n \div 4) % 2 = b0 /\ (n \div 2) % 2 = c0
      /\ n % 2 = d0
  <2>1. n \div 16 = m
    BY <1>2, <1>3, <1>4
  <2>2. n \div 8 = 2 * m + a0
    BY <1>2, <1>3, <1>4
  <2>3. n \div 4 = 2 * (2 * m + a0) + b0
    BY <1>2, <1>3, <1>4
  <2>4. n \div 2 = 2 * (4 * m + 2 * a0 + b0) + c0
    BY <1>2, <1>3, <1>4
  <2>5. n = 2 * (8 * m + 4 * a0 + 2 * b0 + c0) + d0
    BY <1>2, <1>3, <1>4
  <2>6. \A x \in Nat, y \in {0, 1} : (2 * x + y) % 2 = y
    OBVIOUS
  <2>7. /\ 2 * m + a0 \in Nat /\ 4 * m + 2 * a0 + b0 \in Nat
        /\ 8 * m + 4 * a0 + 2 * b0 + c0 \in Nat
    BY <1>2, <1>3
  <2> QED
    BY <1>2, <1>3, <2>1, <2>2, <2>3, <2>4, <2>5, <2>6, <2>7
<1> DEFINE f3 == (n \div 8) % 2 = 1
           f2 == (n \div 4) % 2 = 1
           f1 == (n \div 2) % 2 = 1
           f0 == n % 2 = 1
<1>6. /\ f3 = s.overflow /\ f2 = s.nearly_full /\ f1 = s.nearly_empty /\ f0 = s.underflow
      /\ n \div 16 = s.buffer_level
  BY <1>3, <1>5 DEF m
<1>7. BufferStatusOf(s.raw)
        = [raw |-> s.raw, buffer_level |-> n \div 16, overflow |-> f3, nearly_full |-> f2,
           nearly_empty |-> f1, underflow |-> f0]
  BY <1>1 DEF BufferStatusOf
<1> HIDE DEF f3, f2, f1, f0
<1>8. BufferStatusOf(s.raw)
        = [raw |-> s.raw, buffer_level |-> s.buffer_level, overflow |-> s.overflow,
           nearly_full |-> s.nearly_full, nearly_empty |-> s.nearly_empty,
           underflow |-> s.underflow]
  BY <1>6, <1>7
<1> QED
  BY <1>1, <1>8 DEF BufferStatusValue

LEMMA CommonReadsBack ==
  ASSUME NEW c \in CommonValue, NEW words,
         ReadU32(words, 7) = c.cam, ReadU32(words, 8) = c.message_id,
         ReadU32(words, 9) = c.controllee_id, ReadU32(words, 10) = c.controller_id
  PROVE  Common(words) = c
BY DEF Common, CommonValue

\* A pair of words is read as the value it is.
LEMMA PairReadsBack ==
  ASSUME NEW v \in Word64, NEW words, NEW i \in Nat,
         ReadU32(words, i) = v[1], ReadU32(words, i + 1) = v[2]
  PROVE  ReadU64(words, i) = v
<1>1. v = <<v[1], v[2]>>
  BY DEF Word64
<1> QED
  BY <1>1 DEF ReadU64

TimingFlowControlTail(b) ==
  <<b.common.cam, b.common.message_id, b.common.controllee_id, b.common.controller_id,
    b.cif0, b.cif1, b.reference_point, b.sample_rate[1], b.sample_rate[2],
    b.timestamp_adjustment[1], b.timestamp_adjustment[2],
    b.buffer_size_bytes[1], b.buffer_size_bytes[2], b.buffer_status.raw>>

LEMMA TimingFlowControlReadsBack ==
  ASSUME NEW b \in TimingFlowControlValue, NEW class_id, NEW size, NEW words,
         TimingFlowControlWriteError(b, class_id, size) = Ok,
         TailAt(words, TimingFlowControlTail(b))
  PROVE  TimingFlowControlError(words, size, class_id) = Ok /\ TimingFlowControlBody(words) = b
<1> DEFINE t == TimingFlowControlTail(b)
           c == b.common
           s == b.buffer_status
<1>1. /\ ExpectNoPadding(class_id) = Ok
      /\ ExpectPacketSize("TimingFlowControl", size) = Ok
      /\ ExpectFixed("timing_flow_control_cam", c.cam) = Ok
      /\ ExpectFixed("timing_flow_control_cif0", b.cif0) = Ok
      /\ ExpectFixed("timing_flow_control_cif1", b.cif1) = Ok
      /\ IntegerHz(b.sample_rate) = Ok
      /\ BufferStatusWriteError(s) = Ok
  BY ThenOk DEF TimingFlowControlWriteError
<1>2. /\ c \in CommonValue /\ s \in BufferStatusValue /\ b.sample_rate \in Word64
      /\ b.timestamp_adjustment \in Word64 /\ b.buffer_size_bytes \in Word64
  BY DEF TimingFlowControlValue
<1>3. s.raw[1] = 0 /\ BufferStatusOf(s.raw) = s
  BY <1>1, <1>2, BufferStatusReadsBack
<1>4. /\ Len(words) = 21
      /\ ReadU32(words, 7) = c.cam /\ ReadU32(words, 8) = c.message_id
      /\ ReadU32(words, 9) = c.controllee_id /\ ReadU32(words, 10) = c.controller_id
      /\ ReadU32(words, 11) = b.cif0 /\ ReadU32(words, 12) = b.cif1
      /\ ReadU32(words, 13) = b.reference_point /\ ReadU32(words, 20) = s.raw
      /\ ReadU32(words, 14) = b.sample_rate[1] /\ ReadU32(words, 15) = b.sample_rate[2]
      /\ ReadU32(words, 16) = b.timestamp_adjustment[1]
      /\ ReadU32(words, 17) = b.timestamp_adjustment[2]
      /\ ReadU32(words, 18) = b.buffer_size_bytes[1]
      /\ ReadU32(words, 19) = b.buffer_size_bytes[2]
  <2>1. /\ Len(t) = 14
        /\ t[1] = c.cam /\ t[2] = c.message_id /\ t[3] = c.controllee_id
        /\ t[4] = c.controller_id /\ t[5] = b.cif0 /\ t[6] = b.cif1 /\ t[7] = b.reference_point
        /\ t[8] = b.sample_rate[1] /\ t[9] = b.sample_rate[2]
        /\ t[10] = b.timestamp_adjustment[1] /\ t[11] = b.timestamp_adjustment[2]
        /\ t[12] = b.buffer_size_bytes[1] /\ t[13] = b.buffer_size_bytes[2] /\ t[14] = s.raw
    BY DEF TimingFlowControlTail
  <2> HIDE DEF t
  <2>2. Len(words) = 21 /\ \A k \in 1..14 : ReadU32(words, 6 + k) = t[k]
    BY <2>1 DEF TailAt, t
  <2> QED
    BY <2>1, <2>2
<1>5. /\ ReadU64(words, 14) = b.sample_rate /\ ReadU64(words, 16) = b.timestamp_adjustment
      /\ ReadU64(words, 18) = b.buffer_size_bytes
  BY <1>2, <1>4, PairReadsBack
<1> HIDE DEF t, c, s
<1>6. TimingFlowControlBody(words) = b
  <2>1. Common(words) = c
    BY <1>2, <1>4, CommonReadsBack
  <2>2. TimingFlowControlBody(words)
          = [common |-> c, cif0 |-> b.cif0, cif1 |-> b.cif1,
             reference_point |-> b.reference_point, sample_rate |-> b.sample_rate,
             timestamp_adjustment |-> b.timestamp_adjustment,
             buffer_size_bytes |-> b.buffer_size_bytes, buffer_status |-> s]
    BY <1>3, <1>4, <1>5, <2>1 DEF TimingFlowControlBody
  <2> QED
    BY <2>2 DEF TimingFlowControlValue, c, s
<1>7. TimingFlowControlError(words, size, class_id) = Ok
  <2>1. Needs(words, 20) = Ok
    BY <1>4 DEF Needs, HasWord, Expect
  <2>2. Expect(ReadU32(words, 20)[1] = 0, "ReservedBitsNonZero") = Ok
    BY <1>3, <1>4 DEF Expect
  <2> QED
    BY <1>1, <1>4, <1>5, <2>1, <2>2, ThenOk DEF TimingFlowControlError
<1> QED
  BY <1>6, <1>7

-----------------------------------------------------------------------------
(* The forms with optional fields: what is demanded is written, and what   *)
(* is forbidden is not read.                                               *)

LEMMA OptionReadsBack ==
  ASSUME NEW S, NEW option \in Option(S)
  PROVE  /\ Present(option) => option[1] \in S /\ Some(option[1]) = option
         /\ ~Present(option) => option = None
BY OptionOf DEF Some, None

QueryRest(b) ==
  IF b.form = "Long"
  THEN <<b.cif0, b.cif1[1]>>
  ELSE <<b.cif0, b.sink_time_calibration_integer[1], b.sink_time_calibration_fractional[1][1],
         b.sink_time_calibration_fractional[1][2]>>

ResponseRest(b) ==
  IF b.form = "Long"
  THEN <<b.cif0, b.cif1[1]>> \o b.capability_table.words
  ELSE <<b.cif0, b.control_packet_integer_timestamp[1],
         b.control_packet_fractional_timestamp[1][1], b.control_packet_fractional_timestamp[1][2],
         b.sink_reception_integer_timestamp[1],
         b.sink_reception_fractional_timestamp[1][1], b.sink_reception_fractional_timestamp[1][2]>>

\* The words of a command packet: the four all have, and then those of its form.
LEMMA CommandTailReads ==
  ASSUME NEW c \in CommonValue, NEW rest \in Seq(Word), NEW words
  PROVE  /\ CommonTail(c) \o rest \in Seq(Word) /\ Len(CommonTail(c) \o rest) = 4 + Len(rest)
         /\ TailAt(words, CommonTail(c) \o rest) =>
              /\ Len(words) = 11 + Len(rest)
              /\ Common(words) = c /\ ReadU32(words, 7) = c.cam
              /\ \A k \in 1..Len(rest) : ReadU32(words, 10 + k) = rest[k]
<1> DEFINE head == CommonTail(c)
           t    == head \o rest
<1>1. /\ head \in Seq(Word) /\ Len(head) = 4
      /\ head[1] = c.cam /\ head[2] = c.message_id /\ head[3] = c.controllee_id
      /\ head[4] = c.controller_id
  BY DEF CommonTail, CommonValue
<1> HIDE DEF head
<1>2. Len(rest) \in Nat
  OBVIOUS
<1>3. /\ t \in Seq(Word) /\ Len(t) = 4 + Len(rest)
      /\ \A i \in 1..(4 + Len(rest)) : t[i] = IF i <= 4 THEN head[i] ELSE rest[i - 4]
  <2>1. /\ t \in Seq(Word) /\ Len(t) = Len(head) + Len(rest)
        /\ \A i \in 1..(Len(head) + Len(rest)) :
             t[i] = IF i <= Len(head) THEN head[i] ELSE rest[i - Len(head)]
    BY <1>1, ConcatProperties
  <2> HIDE DEF t
  <2> QED
    BY <1>1, <2>1
<1> SUFFICES ASSUME TailAt(words, t)
             PROVE  /\ Len(words) = 11 + Len(rest)
                    /\ Common(words) = c /\ ReadU32(words, 7) = c.cam
                    /\ \A k \in 1..Len(rest) : ReadU32(words, 10 + k) = rest[k]
  BY <1>3 DEF head
<1>4. Len(words) = 7 + Len(t) /\ \A k \in 1..Len(t) : ReadU32(words, 6 + k) = t[k]
  BY DEF TailAt
<1> HIDE DEF t
<1>5. Len(words) = 11 + Len(rest)
  BY <1>2, <1>3, <1>4
<1>6. /\ ReadU32(words, 7) = c.cam /\ ReadU32(words, 8) = c.message_id
      /\ ReadU32(words, 9) = c.controllee_id /\ ReadU32(words, 10) = c.controller_id
  <2>1. \A k \in 1..4 : ReadU32(words, 6 + k) = head[k]
    <3>1. ASSUME NEW k \in 1..4 PROVE ReadU32(words, 6 + k) = head[k]
      <4>1. k \in 1..(4 + Len(rest)) /\ k <= 4
        BY <1>2
      <4> QED
        BY <1>3, <1>4, <4>1
    <3> QED
      BY <3>1
  <2> QED
    BY <1>1, <2>1
<1>7. \A k \in 1..Len(rest) : ReadU32(words, 10 + k) = rest[k]
  <2>1. ASSUME NEW k \in 1..Len(rest) PROVE ReadU32(words, 10 + k) = rest[k]
    <3>1. /\ 4 + k \in 1..(4 + Len(rest)) /\ ~(4 + k <= 4) /\ (4 + k) - 4 = k
          /\ 6 + (4 + k) = 10 + k
      BY <1>2
    <3>2. t[4 + k] = rest[k]
      BY <1>3, <3>1
    <3>3. ReadU32(words, 6 + (4 + k)) = t[4 + k]
      BY <1>3, <1>4, <3>1
    <3> QED
      BY <3>1, <3>2, <3>3
  <2> QED
    BY <2>1
<1>8. Common(words) = c
  BY <1>6, CommonReadsBack
<1> QED
  BY <1>5, <1>6, <1>7, <1>8

\* The fixed words of the two forms differ in the bit that tells them apart.
LEMMA FormOfWord ==
  ASSUME NEW words
  PROVE  /\ \A field \in {"sink_capabilities_short_query_cif0",
                          "sink_capabilities_short_response_cif0"} :
              ExpectFixed(field, ReadU32(words, 11)) = Ok => IsShort(words)
         /\ \A field \in {"sink_capabilities_long_query_cif0",
                          "sink_capabilities_long_response_cif0"} :
              ExpectFixed(field, ReadU32(words, 11)) = Ok => ~IsShort(words)
<1> DEFINE w == ReadU32(words, 11)
<1>1. \A word : ExpectWord(word, w) = Ok => w = word
  BY DEF ExpectWord, Expect, Ok
<1>2. /\ FixedWord["sink_capabilities_short_query_cif0"] = CIF_COMMAND_SHORT
      /\ FixedWord["sink_capabilities_short_response_cif0"] = CIF_COMMAND_SHORT
      /\ FixedWord["sink_capabilities_long_query_cif0"] = CIF_COMMAND_LONG
      /\ FixedWord["sink_capabilities_long_response_cif0"] = CIF_COMMAND_LONG
  BY DEF FixedWord
<1>3. CIF_COMMAND_SHORT[1] >= 32768 /\ ~(CIF_COMMAND_LONG[1] >= 32768)
  BY DEF CIF_COMMAND_SHORT, CIF_COMMAND_LONG
<1> HIDE DEF w
<1>4. /\ \A field \in {"sink_capabilities_short_query_cif0",
                       "sink_capabilities_short_response_cif0"} :
           ExpectFixed(field, w) = Ok => w = CIF_COMMAND_SHORT
      /\ \A field \in {"sink_capabilities_long_query_cif0",
                       "sink_capabilities_long_response_cif0"} :
           ExpectFixed(field, w) = Ok => w = CIF_COMMAND_LONG
  BY <1>1, <1>2 DEF ExpectFixed
<1>5. IsShort(words) <=> w[1] >= 32768
  BY DEF IsShort, w
<1> QED
  BY <1>3, <1>4, <1>5 DEF w

LEMMA SinkCapabilitiesQueryReadsBack ==
  ASSUME NEW b \in SinkCapabilitiesQueryValue, NEW class_id, NEW size, NEW words,
         SinkCapabilitiesQueryWriteError(b, class_id, size) = Ok
  PROVE  LET t == CommonTail(b.common) \o QueryRest(b)
         IN /\ t \in Seq(Word) /\ Len(t) = IF b.form = "Long" THEN 6 ELSE 8
            /\ TailAt(words, t) => /\ SinkCapabilitiesQueryError(words, size, class_id) = Ok
                                   /\ SinkCapabilitiesQueryBody(words) = b
<1> DEFINE c     == b.common
           rest  == QueryRest(b)
           whole == b.sink_time_calibration_integer
           fract == b.sink_time_calibration_fractional
<1>1. /\ c \in CommonValue /\ b.cif0 \in Word /\ b.cif1 \in Option(Word)
      /\ whole \in Option(Word) /\ fract \in Option(Word64) /\ b.form \in {"Long", "Short"}
  BY DEF SinkCapabilitiesQueryValue, CapabilityForm
<1>2. /\ ExpectNoPadding(class_id) = Ok
      /\ ExpectFixed("sink_capabilities_query_cam", c.cam) = Ok
  BY ThenOk DEF SinkCapabilitiesQueryWriteError
<1>3. b = [common |-> c, form |-> b.form, cif0 |-> b.cif0, cif1 |-> b.cif1,
           sink_time_calibration_integer |-> whole, sink_time_calibration_fractional |-> fract]
  BY DEF SinkCapabilitiesQueryValue
<1>4. rest \in Seq(Word) =>
        /\ CommonTail(c) \o rest \in Seq(Word)
        /\ Len(CommonTail(c) \o rest) = 4 + Len(rest)
        /\ TailAt(words, CommonTail(c) \o rest) =>
             /\ Len(words) = 11 + Len(rest)
             /\ Common(words) = c /\ ReadU32(words, 7) = c.cam
             /\ \A k \in 1..Len(rest) : ReadU32(words, 10 + k) = rest[k]
  BY <1>1, CommandTailReads
<1>5. CASE b.form = "Long"
  <2> DEFINE long == ExpectPacketSize("SinkCapabilitiesQueryLong", size)
                       ?? ExpectFixed("sink_capabilities_long_query_cif0", b.cif0)
                       ?? Required(<<b.cif1>>)
                       ?? ExpectFixed("sink_capabilities_long_query_cif1", b.cif1[1])
                       ?? Forbidden(<<whole, fract>>)
  <2>1. long = Ok
    <3>1. SinkCapabilitiesQueryWriteError(b, class_id, size)
            = (ExpectNoPadding(class_id)
                 ?? ExpectFixed("sink_capabilities_query_cam", b.common.cam)
                 ?? long)
      BY <1>5 DEF SinkCapabilitiesQueryWriteError
    <3> HIDE DEF long
    <3> QED
      BY <3>1, ThenOk
  <2>2. /\ ExpectPacketSize("SinkCapabilitiesQueryLong", size) = Ok
        /\ ExpectFixed("sink_capabilities_long_query_cif0", b.cif0) = Ok
        /\ Required(<<b.cif1>>) = Ok
        /\ ExpectFixed("sink_capabilities_long_query_cif1", b.cif1[1]) = Ok
        /\ Forbidden(<<whole, fract>>) = Ok
    BY <2>1, ThenOk
  <2>3. Present(b.cif1) /\ ~Present(whole) /\ ~Present(fract)
    <3>1. /\ \A i \in DOMAIN <<b.cif1>> : Present(<<b.cif1>>[i])
          /\ \A i \in DOMAIN <<whole, fract>> : ~Present(<<whole, fract>>[i])
      BY <2>2 DEF Required, Forbidden, Expect, Ok
    <3>2. /\ 1 \in DOMAIN <<b.cif1>> /\ <<b.cif1>>[1] = b.cif1
          /\ 1 \in DOMAIN <<whole, fract>> /\ <<whole, fract>>[1] = whole
          /\ 2 \in DOMAIN <<whole, fract>> /\ <<whole, fract>>[2] = fract
      OBVIOUS
    <3> HIDE DEF whole, fract
    <3> QED
      BY <3>1, <3>2
  <2>4. /\ b.cif1[1] \in Word /\ Some(b.cif1[1]) = b.cif1
        /\ whole = None /\ fract = None
    BY <1>1, <2>3, OptionReadsBack
  <2>5. /\ rest \in Seq(Word) /\ Len(rest) = 2 /\ rest[1] = b.cif0 /\ rest[2] = b.cif1[1]
    BY <1>1, <1>5, <2>4 DEF QueryRest
  <2> HIDE DEF rest, whole, fract, c, long
  <2>10. CommonTail(c) \o rest \in Seq(Word) /\ Len(CommonTail(c) \o rest) = 4 + Len(rest)
    BY <1>4, <2>5
  <2> SUFFICES ASSUME TailAt(words, CommonTail(c) \o rest)
               PROVE  SinkCapabilitiesQueryError(words, size, class_id) = Ok /\ SinkCapabilitiesQueryBody(words) = b
    BY <1>5, <2>5, <2>10 DEF rest, c
  <2>6. /\ Len(words) = 13 /\ Common(words) = c /\ ReadU32(words, 7) = c.cam
        /\ ReadU32(words, 11) = b.cif0 /\ ReadU32(words, 12) = b.cif1[1]
    BY <1>4, <2>5
  <2>7. ~IsShort(words)
    BY <2>2, <2>6, FormOfWord
  <2>8. SinkCapabilitiesQueryBody(words) = b
    <3>1. SinkCapabilitiesQueryBody(words)
            = [common |-> c, form |-> "Long", cif0 |-> b.cif0,
               cif1 |-> Some(ReadU32(words, 12)),
               sink_time_calibration_integer    |-> None,
               sink_time_calibration_fractional |-> None]
      BY <2>6, <2>7 DEF SinkCapabilitiesQueryBody, When
    <3> QED
      BY <1>3, <1>5, <2>4, <2>6, <3>1
  <2>9. SinkCapabilitiesQueryError(words, size, class_id) = Ok
    <3>1. Needs(words, 10) = Ok /\ Needs(words, 11) = Ok /\ Needs(words, 12) = Ok
      BY <2>6 DEF Needs, HasWord, Expect
    <3>2. CapabilityCommonError(words, class_id, "sink_capabilities_query_cam") = Ok
      BY <1>2, <2>6, <3>1, ThenOk DEF CapabilityCommonError, c
    <3> QED
      BY <2>2, <2>6, <2>7, <3>1, <3>2, ThenOk DEF SinkCapabilitiesQueryError
  <2> QED
    BY <2>8, <2>9
<1>6. CASE b.form # "Long"
  <2> DEFINE short == ExpectPacketSize("SinkCapabilitiesQueryShort", size)
                        ?? ExpectFixed("sink_capabilities_short_query_cif0", b.cif0)
                        ?? Forbidden(<<b.cif1>>)
                        ?? QueryShortFields(b)
  <2>1. short = Ok
    <3>1. SinkCapabilitiesQueryWriteError(b, class_id, size)
            = (ExpectNoPadding(class_id)
                 ?? ExpectFixed("sink_capabilities_query_cam", b.common.cam)
                 ?? short)
      BY <1>6 DEF SinkCapabilitiesQueryWriteError
    <3> HIDE DEF short
    <3> QED
      BY <3>1, ThenOk
  <2>2. /\ ExpectPacketSize("SinkCapabilitiesQueryShort", size) = Ok
        /\ ExpectFixed("sink_capabilities_short_query_cif0", b.cif0) = Ok
        /\ Forbidden(<<b.cif1>>) = Ok
        /\ QueryShortFields(b) = Ok
    BY <2>1, ThenOk
  <2>3. ~Present(b.cif1) /\ Present(whole) /\ Present(fract)
    <3>1. /\ \A i \in DOMAIN <<b.cif1>> : ~Present(<<b.cif1>>[i])
          /\ \A i \in DOMAIN <<whole, fract>> : Present(<<whole, fract>>[i])
      BY <2>2 DEF QueryShortFields, Required, Forbidden, Expect, Ok
    <3>2. /\ 1 \in DOMAIN <<b.cif1>> /\ <<b.cif1>>[1] = b.cif1
          /\ 1 \in DOMAIN <<whole, fract>> /\ <<whole, fract>>[1] = whole
          /\ 2 \in DOMAIN <<whole, fract>> /\ <<whole, fract>>[2] = fract
      OBVIOUS
    <3> HIDE DEF whole, fract
    <3> QED
      BY <3>1, <3>2
  <2>4. /\ whole[1] \in Word /\ Some(whole[1]) = whole
        /\ fract[1] \in Word64 /\ Some(fract[1]) = fract
        /\ b.cif1 = None
    BY <1>1, <2>3, OptionReadsBack
  <2>5. /\ rest \in Seq(Word) /\ Len(rest) = 4 /\ rest[1] = b.cif0 /\ rest[2] = whole[1]
        /\ rest[3] = fract[1][1] /\ rest[4] = fract[1][2]
    <3>1. fract[1][1] \in Word /\ fract[1][2] \in Word
      BY <2>4 DEF Word64
    <3> QED
      BY <1>1, <1>6, <2>4, <3>1 DEF QueryRest
  <2> HIDE DEF rest, whole, fract, c, short
  <2>10. CommonTail(c) \o rest \in Seq(Word) /\ Len(CommonTail(c) \o rest) = 4 + Len(rest)
    BY <1>4, <2>5
  <2> SUFFICES ASSUME TailAt(words, CommonTail(c) \o rest)
               PROVE  SinkCapabilitiesQueryError(words, size, class_id) = Ok /\ SinkCapabilitiesQueryBody(words) = b
    BY <1>6, <2>5, <2>10 DEF rest, c
  <2>6. /\ Len(words) = 15 /\ Common(words) = c /\ ReadU32(words, 7) = c.cam
        /\ ReadU32(words, 11) = b.cif0 /\ ReadU32(words, 12) = whole[1]
        /\ ReadU32(words, 13) = fract[1][1] /\ ReadU32(words, 14) = fract[1][2]
    BY <1>4, <2>5
  <2>7. IsShort(words)
    BY <2>2, <2>6, FormOfWord
  <2>8. SinkCapabilitiesQueryBody(words) = b
    <3>1. SinkCapabilitiesQueryBody(words)
            = [common |-> c, form |-> "Short", cif0 |-> b.cif0,
               cif1 |-> None,
               sink_time_calibration_integer    |-> Some(ReadU32(words, 12)),
               sink_time_calibration_fractional |-> Some(ReadU64(words, 13))]
      BY <2>6, <2>7 DEF SinkCapabilitiesQueryBody, When
    <3>2. ReadU64(words, 13) = fract[1]
      BY <2>4, <2>6, PairReadsBack
    <3>3. b.form = "Short"
      BY <1>1, <1>6
    <3> QED
      BY <1>3, <2>4, <2>6, <3>1, <3>2, <3>3
  <2>9. SinkCapabilitiesQueryError(words, size, class_id) = Ok
    <3>1. Needs(words, 10) = Ok /\ Needs(words, 11) = Ok /\ Needs(words, 14) = Ok
      BY <2>6 DEF Needs, HasWord, Expect
    <3>2. CapabilityCommonError(words, class_id, "sink_capabilities_query_cam") = Ok
      BY <1>2, <2>6, <3>1, ThenOk DEF CapabilityCommonError, c
    <3> QED
      BY <2>2, <2>6, <2>7, <3>1, <3>2, ThenOk DEF SinkCapabilitiesQueryError
  <2> QED
    BY <2>8, <2>9
<1> QED
  BY <1>5, <1>6

LEMMA FrontAndRest ==
  ASSUME NEW front \in Seq(Word), Len(front) = 2, NEW rest \in Seq(Word)
  PROVE  /\ front \o rest \in Seq(Word) /\ Len(front \o rest) = 2 + Len(rest)
         /\ \A i \in 1..(2 + Len(rest)) :
              (front \o rest)[i] = IF i <= 2 THEN front[i] ELSE rest[i - 2]
<1> DEFINE t == front \o rest
<1>1. /\ t \in Seq(Word) /\ Len(t) = Len(front) + Len(rest)
      /\ \A i \in 1..(Len(front) + Len(rest)) :
           t[i] = IF i <= Len(front) THEN front[i] ELSE rest[i - Len(front)]
  BY ConcatProperties
<1> HIDE DEF t
<1> QED
  BY <1>1 DEF t

\* The words from the 14th on are the ones that were put there.
RestAt(words, t) ==
  Len(words) = 11 + Len(t) /\ \A k \in 1..Len(t) : ReadU32(words, 10 + k) = t[k]

LEMMA RestReadsBack ==
  ASSUME NEW words \in Seq(Word), NEW front \in Seq(Word), Len(front) = 2,
         NEW rest \in Seq(Word), RestAt(words, front \o rest)
  PROVE  /\ Len(words) = 13 + Len(rest)
         /\ ReadU32(words, 11) = front[1] /\ ReadU32(words, 12) = front[2]
         /\ SubSeq(words, 14, Len(words)) = rest
<1> DEFINE t == front \o rest
<1>1. Len(rest) \in Nat
  OBVIOUS
<1>2. /\ Len(t) = 2 + Len(rest)
      /\ \A i \in 1..(2 + Len(rest)) : t[i] = IF i <= 2 THEN front[i] ELSE rest[i - 2]
  BY FrontAndRest
<1>3. Len(words) = 11 + Len(t) /\ \A k \in 1..Len(t) : ReadU32(words, 10 + k) = t[k]
  BY DEF RestAt
<1> HIDE DEF t
<1>4. Len(words) = 13 + Len(rest)
  BY <1>1, <1>2, <1>3
<1>5. ReadU32(words, 11) = front[1] /\ ReadU32(words, 12) = front[2]
  <2>1. \A k \in 1..2 : k \in 1..Len(t) /\ t[k] = front[k]
    BY <1>1, <1>2
  <2>2. \A k \in 1..2 : ReadU32(words, 10 + k) = front[k]
    BY <1>3, <2>1
  <2> QED
    BY <2>2
<1>6. \A k \in 1..Len(rest) : words[13 + k] = rest[k]
  <2>1. ASSUME NEW k \in 1..Len(rest) PROVE words[13 + k] = rest[k]
    <3>1. /\ 2 + k \in 1..(2 + Len(rest)) /\ ~(2 + k <= 2) /\ (2 + k) - 2 = k
          /\ 10 + (2 + k) = 12 + k /\ 12 + k < Len(words) /\ (12 + k) + 1 = 13 + k
      BY <1>1, <1>4
    <3>2. t[2 + k] = rest[k] /\ ReadU32(words, 12 + k) = t[2 + k]
      BY <1>2, <1>3, <3>1
    <3>3. ReadU32(words, 12 + k) = words[13 + k]
      BY <3>1 DEF ReadU32, HasWord
    <3> QED
      BY <3>2, <3>3
  <2> QED
    BY <2>1
<1>7. SubSeq(words, 14, Len(words)) = rest
  <2>1. SubSeq(words, 14, Len(words)) = [i \in 1..Len(rest) |-> words[13 + i]]
    BY <1>1, <1>4
  <2>2. rest = [i \in 1..Len(rest) |-> rest[i]]
    OBVIOUS
  <2> QED
    BY <1>6, <2>1, <2>2
<1> QED
  BY <1>2, <1>4, <1>5, <1>7

LEMMA SinkCapabilitiesResponseReadsBack ==
  ASSUME NEW b \in SinkCapabilitiesResponseValue, NEW class_id, NEW size,
         NEW words \in Seq(Word),
         SinkCapabilitiesResponseWriteError(b, class_id, size) = Ok,
         b.form = "Long" => b.capability_table.extra = 0
  PROVE  LET t == CommonTail(b.common) \o ResponseRest(b)
         IN /\ t \in Seq(Word)
            /\ Len(t) = IF b.form = "Long" THEN 6 + Len(b.capability_table.words) ELSE 11
            /\ TailAt(words, t) => /\ SinkCapabilitiesResponseError(words, size, class_id) = Ok
                                   /\ SinkCapabilitiesResponseBody(words) = b
<1> DEFINE c     == b.common
           rest  == ResponseRest(b)
           t1    == b.control_packet_integer_timestamp
           t2    == b.control_packet_fractional_timestamp
           t3    == b.sink_reception_integer_timestamp
           t4    == b.sink_reception_fractional_timestamp
           table == b.capability_table
           times == <<t1, t2, t3, t4>>
<1>1. /\ c \in CommonValue /\ b.cif0 \in Word /\ b.cif1 \in Option(Word)
      /\ t1 \in Option(Word) /\ t2 \in Option(Word64) /\ t3 \in Option(Word)
      /\ t4 \in Option(Word64) /\ b.form \in {"Long", "Short"}
      /\ table \in Bytes
  BY DEF SinkCapabilitiesResponseValue, CapabilityForm
<1>2. /\ ExpectNoPadding(class_id) = Ok
      /\ ExpectFixed("sink_capabilities_response_cam", c.cam) = Ok
  BY ThenOk DEF SinkCapabilitiesResponseWriteError
<1>3. b = [common |-> c, form |-> b.form, cif0 |-> b.cif0, cif1 |-> b.cif1,
           control_packet_integer_timestamp |-> t1, control_packet_fractional_timestamp |-> t2,
           sink_reception_integer_timestamp |-> t3, sink_reception_fractional_timestamp |-> t4,
           capability_table |-> table]
  BY DEF SinkCapabilitiesResponseValue
<1>4. rest \in Seq(Word) =>
        /\ CommonTail(c) \o rest \in Seq(Word)
        /\ Len(CommonTail(c) \o rest) = 4 + Len(rest)
        /\ TailAt(words, CommonTail(c) \o rest) =>
             /\ Len(words) = 11 + Len(rest)
             /\ Common(words) = c /\ ReadU32(words, 7) = c.cam
             /\ \A k \in 1..Len(rest) : ReadU32(words, 10 + k) = rest[k]
  BY <1>1, CommandTailReads
<1>5. /\ 1 \in DOMAIN <<b.cif1>> /\ <<b.cif1>>[1] = b.cif1
      /\ DOMAIN times = 1..4
      /\ times[1] = t1 /\ times[2] = t2 /\ times[3] = t3 /\ times[4] = t4
  <2> HIDE DEF t1, t2, t3, t4
  <2> QED
    OBVIOUS
<1>6. table = [words |-> table.words, extra |-> table.extra] /\ table.words \in Seq(Word)
      /\ table.extra \in {0, 1, 2, 3}
  BY <1>1 DEF Bytes
<1>7. CASE b.form = "Long"
  <2> DEFINE long == Expect(size > 13, "InvalidPacketSize")
                       ?? ExpectFixed("sink_capabilities_long_response_cif0", b.cif0)
                       ?? Required(<<b.cif1>>)
                       ?? ExpectFixed("sink_capabilities_long_response_cif1", b.cif1[1])
                       ?? Forbidden(times)
  <2>1. long = Ok
    <3>1. SinkCapabilitiesResponseWriteError(b, class_id, size)
            = (ExpectNoPadding(class_id)
                 ?? ExpectFixed("sink_capabilities_response_cam", b.common.cam)
                 ?? long)
      BY <1>7 DEF SinkCapabilitiesResponseWriteError, ResponseTimestamps
    <3> HIDE DEF long
    <3> QED
      BY <3>1, ThenOk
  <2>2. /\ Expect(size > 13, "InvalidPacketSize") = Ok
        /\ ExpectFixed("sink_capabilities_long_response_cif0", b.cif0) = Ok
        /\ Required(<<b.cif1>>) = Ok
        /\ ExpectFixed("sink_capabilities_long_response_cif1", b.cif1[1]) = Ok
        /\ Forbidden(times) = Ok
    <3> HIDE DEF times
    <3> QED
      BY <2>1, ThenOk
  <2>3. Present(b.cif1) /\ ~Present(t1) /\ ~Present(t2) /\ ~Present(t3) /\ ~Present(t4)
    <3> HIDE DEF times
    <3>1. /\ \A i \in DOMAIN <<b.cif1>> : Present(<<b.cif1>>[i])
          /\ \A i \in DOMAIN times : ~Present(times[i])
      BY <2>2 DEF Required, Forbidden, Expect, Ok
    <3> HIDE DEF t1, t2, t3, t4
    <3> QED
      BY <1>5, <3>1
  <2>4. /\ b.cif1[1] \in Word /\ Some(b.cif1[1]) = b.cif1
        /\ t1 = None /\ t2 = None /\ t3 = None /\ t4 = None
    BY <1>1, <2>3, OptionReadsBack
  <2> DEFINE front == <<b.cif0, b.cif1[1]>>
  <2>5. /\ front \in Seq(Word) /\ Len(front) = 2 /\ front[1] = b.cif0 /\ front[2] = b.cif1[1]
        /\ rest = front \o table.words /\ table.words \in Seq(Word)
        /\ table = Slice(table.words)
    <3>1. /\ front \in Seq(Word) /\ Len(front) = 2 /\ front[1] = b.cif0 /\ front[2] = b.cif1[1]
      BY <1>1, <2>4
    <3>2. rest = front \o table.words
      BY <1>7 DEF ResponseRest
    <3>3. table = Slice(table.words)
      BY <1>6, <1>7 DEF Slice
    <3> QED
      BY <1>6, <3>1, <3>2, <3>3
  <2> HIDE DEF t1, t2, t3, t4, times, long, front, table
  <2>6. rest \in Seq(Word) /\ Len(rest) = 2 + Len(table.words)
    <3> HIDE DEF rest
    <3> QED
      BY <2>5, FrontAndRest
  <2> HIDE DEF rest, c
  <2>13. /\ CommonTail(c) \o rest \in Seq(Word)
         /\ Len(CommonTail(c) \o rest) = 6 + Len(table.words)
    <3>1. Len(table.words) \in Nat
      BY <2>5
    <3> QED
      BY <1>4, <2>6, <3>1
  <2> SUFFICES ASSUME TailAt(words, CommonTail(c) \o rest)
               PROVE  /\ SinkCapabilitiesResponseError(words, size, class_id) = Ok
                      /\ SinkCapabilitiesResponseBody(words) = b
    BY <1>7, <2>13 DEF rest, c, table
  <2>7. /\ Len(words) = 11 + Len(rest) /\ Common(words) = c /\ ReadU32(words, 7) = c.cam
        /\ \A k \in 1..Len(rest) : ReadU32(words, 10 + k) = rest[k]
    BY <1>4, <2>6
  <2>8. /\ Len(words) = 13 + Len(table.words)
        /\ ReadU32(words, 11) = b.cif0 /\ ReadU32(words, 12) = b.cif1[1]
        /\ SubSeq(words, 14, Len(words)) = table.words
    <3> DEFINE ws == table.words
    <3>1. front \in Seq(Word) /\ Len(front) = 2 /\ ws \in Seq(Word)
      BY <2>5
    <3>2. RestAt(words, front \o ws)
      BY <2>5, <2>7 DEF RestAt
    <3> HIDE DEF ws
    <3>3. /\ Len(words) = 13 + Len(ws)
          /\ ReadU32(words, 11) = front[1] /\ ReadU32(words, 12) = front[2]
          /\ SubSeq(words, 14, Len(words)) = ws
      BY <3>1, <3>2, RestReadsBack
    <3> QED
      BY <2>5, <3>3 DEF ws
  <2>9. ~IsShort(words)
    BY <2>2, <2>8, FormOfWord
  <2>10. SinkCapabilitiesResponseBody(words) = b
    <3>1. SinkCapabilitiesResponseBody(words)
            = [common |-> c, form |-> "Long", cif0 |-> b.cif0, cif1 |-> Some(b.cif1[1]),
               control_packet_integer_timestamp    |-> None,
               control_packet_fractional_timestamp |-> None,
               sink_reception_integer_timestamp    |-> None,
               sink_reception_fractional_timestamp |-> None,
               capability_table |-> Slice(table.words)]
      BY <2>7, <2>8, <2>9 DEF SinkCapabilitiesResponseBody, When
    <3> QED
      BY <1>3, <1>7, <2>4, <2>5, <3>1
  <2>11. SinkCapabilitiesResponseError(words, size, class_id) = Ok
    <3>1. /\ Needs(words, 10) = Ok /\ Needs(words, 11) = Ok /\ Needs(words, 12) = Ok
          /\ Expect(Len(words) >= 13, Panic) = Ok
      <4>1. Len(table.words) \in Nat
        BY <2>5
      <4> QED
        BY <2>8, <4>1 DEF Needs, HasWord, Expect
    <3>2. CapabilityCommonError(words, class_id, "sink_capabilities_response_cam") = Ok
      BY <1>2, <2>7, <3>1, ThenOk DEF CapabilityCommonError, c
    <3>3. SinkCapabilitiesResponseError(words, size, class_id)
            = (CapabilityCommonError(words, class_id, "sink_capabilities_response_cam")
                 ?? (Expect(size > 13, "InvalidPacketSize")
                       ?? ExpectFixed("sink_capabilities_long_response_cif0", ReadU32(words, 11))
                       ?? Needs(words, 12)
                       ?? ExpectFixed("sink_capabilities_long_response_cif1", ReadU32(words, 12))
                       ?? Expect(Len(words) >= 13, Panic)))
      BY <2>9 DEF SinkCapabilitiesResponseError
    <3> QED
      BY <2>2, <2>8, <3>1, <3>2, <3>3, ThenOk
  <2> QED
    BY <2>10, <2>11
<1>8. CASE b.form # "Long"
  <2> DEFINE short == ExpectPacketSize("SinkCapabilitiesResponseShort", size)
                        ?? ExpectFixed("sink_capabilities_short_response_cif0", b.cif0)
                        ?? Forbidden(<<b.cif1>>)
                        ?? Expect(ByteLen(table) = 0, "UnexpectedField")
                        ?? Required(times)
  <2>1. short = Ok
    <3>1. SinkCapabilitiesResponseWriteError(b, class_id, size)
            = (ExpectNoPadding(class_id)
                 ?? ExpectFixed("sink_capabilities_response_cam", b.common.cam)
                 ?? short)
      BY <1>8 DEF SinkCapabilitiesResponseWriteError, ResponseTimestamps
    <3> HIDE DEF short
    <3> QED
      BY <3>1, ThenOk
  <2>2. /\ ExpectPacketSize("SinkCapabilitiesResponseShort", size) = Ok
        /\ ExpectFixed("sink_capabilities_short_response_cif0", b.cif0) = Ok
        /\ Forbidden(<<b.cif1>>) = Ok
        /\ Expect(ByteLen(table) = 0, "UnexpectedField") = Ok
        /\ Required(times) = Ok
    <3> HIDE DEF times, table
    <3> QED
      BY <2>1, ThenOk
  <2>3. ~Present(b.cif1) /\ Present(t1) /\ Present(t2) /\ Present(t3) /\ Present(t4)
    <3> HIDE DEF times
    <3>1. /\ \A i \in DOMAIN <<b.cif1>> : ~Present(<<b.cif1>>[i])
          /\ \A i \in DOMAIN times : Present(times[i])
      BY <2>2 DEF Required, Forbidden, Expect, Ok
    <3> HIDE DEF t1, t2, t3, t4
    <3> QED
      BY <1>5, <3>1
  <2>4. /\ b.cif1 = None
        /\ t1[1] \in Word /\ Some(t1[1]) = t1 /\ t2[1] \in Word64 /\ Some(t2[1]) = t2
        /\ t3[1] \in Word /\ Some(t3[1]) = t3 /\ t4[1] \in Word64 /\ Some(t4[1]) = t4
    BY <1>1, <2>3, OptionReadsBack
  <2>5. table = Slice(<<>>)
    <3>1. ByteLen(table) = 0
      BY <2>2 DEF Expect, Ok
    <3> DEFINE ws == table.words
               x  == table.extra
    <3>2. WORD_BYTES * Len(ws) + x = 0
      BY <3>1 DEF ByteLen
    <3>3. Len(ws) \in Nat /\ ws \in Seq(Word) /\ x \in {0, 1, 2, 3}
      BY <1>6
    <3> HIDE DEF ws, x
    <3>4. Len(ws) = 0 /\ x = 0
      BY <3>2, <3>3 DEF WORD_BYTES
    <3>5. ws = <<>>
      BY <3>3, <3>4, EmptySeq
    <3> QED
      BY <1>6, <3>4, <3>5 DEF Slice, ws, x
  <2>6. /\ rest \in Seq(Word) /\ Len(rest) = 7 /\ rest[1] = b.cif0 /\ rest[2] = t1[1]
        /\ rest[3] = t2[1][1] /\ rest[4] = t2[1][2] /\ rest[5] = t3[1]
        /\ rest[6] = t4[1][1] /\ rest[7] = t4[1][2]
    <3>1. t2[1][1] \in Word /\ t2[1][2] \in Word /\ t4[1][1] \in Word /\ t4[1][2] \in Word
      BY <2>4 DEF Word64
    <3>2. rest = <<b.cif0, t1[1], t2[1][1], t2[1][2], t3[1], t4[1][1], t4[1][2]>>
      BY <1>8 DEF ResponseRest
    <3> HIDE DEF t1, t2, t3, t4, rest
    <3> QED
      BY <1>1, <2>4, <3>1, <3>2
  <2> HIDE DEF rest, t1, t2, t3, t4, times, c, short, table
  <2>11. CommonTail(c) \o rest \in Seq(Word) /\ Len(CommonTail(c) \o rest) = 11
    BY <1>4, <2>6
  <2> SUFFICES ASSUME TailAt(words, CommonTail(c) \o rest)
               PROVE  /\ SinkCapabilitiesResponseError(words, size, class_id) = Ok
                      /\ SinkCapabilitiesResponseBody(words) = b
    BY <1>8, <2>11 DEF rest, c
  <2>7. /\ Len(words) = 18 /\ Common(words) = c /\ ReadU32(words, 7) = c.cam
        /\ ReadU32(words, 11) = b.cif0 /\ ReadU32(words, 12) = t1[1]
        /\ ReadU32(words, 13) = t2[1][1] /\ ReadU32(words, 14) = t2[1][2]
        /\ ReadU32(words, 15) = t3[1]
        /\ ReadU32(words, 16) = t4[1][1] /\ ReadU32(words, 17) = t4[1][2]
    BY <1>4, <2>6
  <2>8. IsShort(words)
    BY <2>2, <2>7, FormOfWord
  <2>9. SinkCapabilitiesResponseBody(words) = b
    <3>1. ReadU64(words, 13) = t2[1] /\ ReadU64(words, 16) = t4[1]
      BY <2>4, <2>7, PairReadsBack
    <3>2. SinkCapabilitiesResponseBody(words)
            = [common |-> c, form |-> "Short", cif0 |-> b.cif0, cif1 |-> None,
               control_packet_integer_timestamp    |-> Some(t1[1]),
               control_packet_fractional_timestamp |-> Some(t2[1]),
               sink_reception_integer_timestamp    |-> Some(t3[1]),
               sink_reception_fractional_timestamp |-> Some(t4[1]),
               capability_table |-> Slice(<<>>)]
      BY <2>7, <2>8, <3>1 DEF SinkCapabilitiesResponseBody, When
    <3>3. b.form = "Short"
      BY <1>1, <1>8
    <3> QED
      BY <1>3, <2>4, <2>5, <3>2, <3>3
  <2>10. SinkCapabilitiesResponseError(words, size, class_id) = Ok
    <3>1. Needs(words, 10) = Ok /\ Needs(words, 11) = Ok /\ Needs(words, 17) = Ok
      BY <2>7 DEF Needs, HasWord, Expect
    <3>2. CapabilityCommonError(words, class_id, "sink_capabilities_response_cam") = Ok
      BY <1>2, <2>7, <3>1, ThenOk DEF CapabilityCommonError, c
    <3> QED
      BY <2>2, <2>7, <2>8, <3>1, <3>2, ThenOk DEF SinkCapabilitiesResponseError
  <2> QED
    BY <2>9, <2>10
<1> QED
  BY <1>7, <1>8

ReportRest(b) ==
  LET level == b.reference_level_limit[1]
      rate  == b.sample_rate_limit[1]
      width == b.bandwidth_limit[1]
  IN IF Present(b.bandwidth_limit)
     THEN <<b.cif0, b.cif1, b.packet_errors, b.sink_errors_warnings,
            level[1], level[2], rate[1], rate[2], width[1], width[2]>>
     ELSE IF Present(b.reference_level_limit)
          THEN <<b.cif0, b.cif1, b.packet_errors, b.sink_errors_warnings, level[1], level[2]>>
          ELSE <<b.cif0, b.cif1, b.packet_errors, b.sink_errors_warnings>>

LEMMA ReportTailWords ==
  ASSUME NEW b \in StatusReportValue, StatusShape(b) \in StatusShapes
  PROVE  /\ CommonTail(b.common) \o ReportRest(b) \in Seq(Word)
         /\ Len(CommonTail(b.common) \o ReportRest(b)) = StatusReportWords(b) - 7
<1> DEFINE rest  == ReportRest(b)
           level == b.reference_level_limit
           rate  == b.sample_rate_limit
           width == b.bandwidth_limit
<1>1. /\ b.common \in CommonValue /\ b.cif0 \in Word /\ b.cif1 \in Word /\ b.packet_errors \in Word
      /\ b.sink_errors_warnings \in Word /\ level \in Option(Word64) /\ rate \in Option(Word64)
      /\ width \in Option(Word64)
  BY DEF StatusReportValue
<1>2. \A option \in Option(Word64) : Present(option) =>
        option[1][1] \in Word /\ option[1][2] \in Word
  BY OptionReadsBack DEF Word64
<1>3. Present(width) => Present(rate) /\ Present(level)
  BY ShapesOfLimits
<1>4. rest \in Seq(Word) /\ Len(rest) = StatusReportWords(b) - 11
  <2>1. CASE Present(width)
    <3>1. /\ level[1][1] \in Word /\ level[1][2] \in Word /\ rate[1][1] \in Word
          /\ rate[1][2] \in Word /\ width[1][1] \in Word /\ width[1][2] \in Word
      BY <1>1, <1>2, <1>3, <2>1
    <3>2. rest = <<b.cif0, b.cif1, b.packet_errors, b.sink_errors_warnings, level[1][1],
                   level[1][2], rate[1][1], rate[1][2], width[1][1], width[1][2]>>
      BY <2>1 DEF ReportRest
    <3>3. StatusReportWords(b) = 21
      BY <2>1 DEF StatusReportWords
    <3> HIDE DEF level, rate, width, rest
    <3> QED
      BY <1>1, <3>1, <3>2, <3>3
  <2>2. CASE ~Present(width) /\ Present(level)
    <3>1. level[1][1] \in Word /\ level[1][2] \in Word
      BY <1>1, <1>2, <2>2
    <3>2. rest = <<b.cif0, b.cif1, b.packet_errors, b.sink_errors_warnings, level[1][1],
                   level[1][2]>>
      BY <2>2 DEF ReportRest
    <3>3. StatusReportWords(b) = 17
      BY <2>2 DEF StatusReportWords
    <3> HIDE DEF level, rest
    <3> QED
      BY <1>1, <3>1, <3>2, <3>3
  <2>3. CASE ~Present(width) /\ ~Present(level)
    <3>1. StatusReportWords(b) = 15
      BY <2>3 DEF StatusReportWords
    <3> QED
      BY <1>1, <2>3, <3>1 DEF ReportRest
  <2> QED
    BY <2>1, <2>2, <2>3
<1>5. StatusReportWords(b) \in {15, 17, 21}
  BY DEF StatusReportWords
<1> HIDE DEF rest
<1>6. CommonTail(b.common) \o rest \in Seq(Word) /\ Len(CommonTail(b.common) \o rest) = 4 + Len(rest)
  BY <1>1, <1>4, CommandTailReads
<1> QED
  BY <1>4, <1>5, <1>6 DEF rest

LEMMA StatusReportReadsBack ==
  ASSUME NEW b \in StatusReportValue, NEW class_id, NEW words,
         StatusShape(b) \in StatusShapes,
         StatusReportWriteError(b, class_id, StatusReportWords(b)) = Ok,
         PacketSizeWords(ReadU32(words, 0)) = Len(words),
         TailAt(words, CommonTail(b.common) \o ReportRest(b))
  PROVE  /\ StatusReportError(words, StatusReportWords(b), class_id) = Ok
         /\ StatusReportBody(words) = b
<1> DEFINE c     == b.common
           rest  == ReportRest(b)
           level == b.reference_level_limit
           rate  == b.sample_rate_limit
           width == b.bandwidth_limit
           size  == StatusReportWords(b)
           Limit(option) == IF Present(option) THEN IntegerHz(option[1]) ELSE Ok
           limits == IF size = 21
                     THEN IntegerHz(ReadU64(words, 17)) ?? IntegerHz(ReadU64(words, 19))
                     ELSE Ok
           parsed == PacketSizeWords(ReadU32(words, 0))
<1>1. /\ c \in CommonValue /\ b.cif0 \in Word /\ b.cif1 \in Word /\ b.packet_errors \in Word
      /\ b.sink_errors_warnings \in Word /\ level \in Option(Word64) /\ rate \in Option(Word64)
      /\ width \in Option(Word64)
  BY DEF StatusReportValue
<1>2. /\ ExpectNoPadding(class_id) = Ok
      /\ ValidateStatusReportSize(size) = Ok
      /\ ExpectFixed("status_report_cam", c.cam) = Ok
      /\ ExpectFixed("status_report_cif0", b.cif0) = Ok
      /\ ExpectFixed("status_report_cif1", b.cif1) = Ok
      /\ Expect(QuantitativeFlags(b.sink_errors_warnings) = ExpectedQuantitativeFlags(size),
                "FieldMismatch") = Ok
      /\ Limit(rate) = Ok /\ Limit(width) = Ok
  <2>1. StatusReportWriteError(b, class_id, size)
          = (ExpectNoPadding(class_id)
               ?? ValidateStatusReportSize(size)
               ?? ExpectFixed("status_report_cam", b.common.cam)
               ?? ExpectFixed("status_report_cif0", b.cif0)
               ?? ExpectFixed("status_report_cif1", b.cif1)
               ?? Expect(QuantitativeFlags(b.sink_errors_warnings)
                           = ExpectedQuantitativeFlags(size), "FieldMismatch")
               ?? Limit(rate)
               ?? Limit(width))
    BY DEF StatusReportWriteError
  <2> HIDE DEF Limit, size
  <2> QED
    BY <2>1, ThenOk DEF size
<1>3. b = [common |-> c, cif0 |-> b.cif0, cif1 |-> b.cif1, packet_errors |-> b.packet_errors,
           sink_errors_warnings |-> b.sink_errors_warnings, reference_level_limit |-> level,
           sample_rate_limit |-> rate, bandwidth_limit |-> width]
  BY DEF StatusReportValue
<1>4. /\ Present(rate) <=> Present(width)
      /\ Present(rate) => Present(level)
  BY ShapesOfLimits
<1>5. rest \in Seq(Word) =>
        /\ CommonTail(c) \o rest \in Seq(Word) /\ Len(words) = 11 + Len(rest)
        /\ Common(words) = c /\ ReadU32(words, 7) = c.cam
        /\ \A k \in 1..Len(rest) : ReadU32(words, 10 + k) = rest[k]
  BY <1>1, CommandTailReads
<1>6. /\ Present(level) => level[1] \in Word64 /\ Some(level[1]) = level
      /\ ~Present(level) => level = None
      /\ Present(rate) => rate[1] \in Word64 /\ Some(rate[1]) = rate
      /\ ~Present(rate) => rate = None
      /\ Present(width) => width[1] \in Word64 /\ Some(width[1]) = width
      /\ ~Present(width) => width = None
  BY <1>1, OptionReadsBack
<1>7. QuantitativeFlags(b.sink_errors_warnings) = ExpectedQuantitativeFlags(size)
  BY <1>2 DEF Expect, Ok
<1>8. StatusReportBody(words)
         = [common |-> Common(words), cif0 |-> ReadU32(words, 11), cif1 |-> ReadU32(words, 12),
            packet_errors |-> ReadU32(words, 13), sink_errors_warnings |-> ReadU32(words, 14),
            reference_level_limit |->
              When(parsed >= 17, <<ReadU32(words, 15), ReadU32(words, 16)>>),
            sample_rate_limit |-> When(parsed = 21, ReadU64(words, 17)),
            bandwidth_limit   |-> When(parsed = 21, ReadU64(words, 19))]
  BY DEF StatusReportBody
\* What the three sizes share.
<1>9. ASSUME size \in {15, 17, 21}, rest \in Seq(Word), Len(rest) = size - 11,
             rest[1] = b.cif0, rest[2] = b.cif1, rest[3] = b.packet_errors,
             rest[4] = b.sink_errors_warnings
      PROVE  /\ CommonTail(c) \o rest \in Seq(Word) /\ Len(words) = size
             /\ parsed = size
             /\ Common(words) = c
             /\ ReadU32(words, 11) = b.cif0 /\ ReadU32(words, 12) = b.cif1
             /\ ReadU32(words, 13) = b.packet_errors
             /\ ReadU32(words, 14) = b.sink_errors_warnings
             /\ \A k \in 1..Len(rest) : ReadU32(words, 10 + k) = rest[k]
             /\ limits = Ok => StatusReportError(words, size, class_id) = Ok
  <2> HIDE DEF rest, c, size, Limit, level, rate, width
  <2>1. /\ CommonTail(c) \o rest \in Seq(Word) /\ Len(words) = 11 + Len(rest)
        /\ Common(words) = c /\ ReadU32(words, 7) = c.cam
        /\ \A k \in 1..Len(rest) : ReadU32(words, 10 + k) = rest[k]
    BY <1>5, <1>9
  <2>2. Len(words) = size /\ parsed = size
    BY <1>9, <2>1
  <2>3. /\ ReadU32(words, 11) = rest[1] /\ ReadU32(words, 12) = rest[2]
        /\ ReadU32(words, 13) = rest[3] /\ ReadU32(words, 14) = rest[4]
    BY <1>9, <2>1
  <2> DEFINE long == IF size = 21
                     THEN Needs(words, 20) ?? IntegerHz(ReadU64(words, 17))
                            ?? IntegerHz(ReadU64(words, 19))
                     ELSE Ok
             mid  == IF size >= 17 THEN Needs(words, 16) ELSE Ok
  <2>4. limits = Ok => StatusReportError(words, size, class_id) = Ok
    <3> SUFFICES ASSUME limits = Ok PROVE StatusReportError(words, size, class_id) = Ok
      OBVIOUS
    <3>1. /\ Needs(words, 14) = Ok
          /\ size >= 17 => Needs(words, 16) = Ok
          /\ size = 21 => Needs(words, 20) = Ok
      BY <1>9, <2>2 DEF Needs, HasWord, Expect
    <3>2. mid = Ok
      BY <3>1
    <3>3. long = Ok
      BY <3>1, ThenOk
    <3>4. /\ Expect(size \in {15, 17, 21}, Panic) = Ok
          /\ Expect(StatusFlags(words) = ExpectedStatusFlags(size), "InvalidFieldValue") = Ok
      <4>1. StatusFlags(words) = QuantitativeFlags(b.sink_errors_warnings)
        BY <1>9, <2>3 DEF StatusFlags, QuantitativeFlags
      <4>2. ExpectedQuantitativeFlags(size) = ExpectedStatusFlags(size)
        BY <1>9 DEF ExpectedQuantitativeFlags, ExpectedStatusFlags
      <4>3. StatusFlags(words) = ExpectedStatusFlags(size)
        BY <1>7, <4>1, <4>2
      <4> QED
        BY <1>9, <4>3 DEF Expect
    <3>5. StatusReportError(words, size, class_id)
            = (ValidateStatusReportSize(size)
                 ?? ExpectNoPadding(class_id)
                 ?? Needs(words, 14)
                 ?? ExpectFixed("status_report_cam", ReadU32(words, 7))
                 ?? ExpectFixed("status_report_cif0", ReadU32(words, 11))
                 ?? ExpectFixed("status_report_cif1", ReadU32(words, 12))
                 ?? Expect(size \in {15, 17, 21}, Panic)
                 ?? Expect(StatusFlags(words) = ExpectedStatusFlags(size), "InvalidFieldValue")
                 ?? mid
                 ?? long)
      BY DEF StatusReportError
    <3> HIDE DEF limits, long, mid
    <3>6. /\ ExpectFixed("status_report_cam", ReadU32(words, 7)) = Ok
          /\ ExpectFixed("status_report_cif0", ReadU32(words, 11)) = Ok
          /\ ExpectFixed("status_report_cif1", ReadU32(words, 12)) = Ok
      BY <1>2, <1>9, <2>1, <2>3
    <3> QED
      BY <1>2, <3>1, <3>2, <3>3, <3>4, <3>5, <3>6, ThenOk
  <2> QED
    BY <1>9, <2>1, <2>2, <2>3, <2>4
<1>10. CASE Present(width)
  <2>1. Present(level) /\ Present(rate) /\ size = 21
    BY <1>4, <1>10 DEF StatusReportWords
  <2>2. /\ level[1] \in Word64 /\ Some(level[1]) = level /\ level[1] = <<level[1][1], level[1][2]>>
        /\ rate[1] \in Word64 /\ Some(rate[1]) = rate
        /\ width[1] \in Word64 /\ Some(width[1]) = width
    BY <1>6, <1>10, <2>1 DEF Word64
  <2>3. /\ rest \in Seq(Word) /\ Len(rest) = 10
        /\ rest[1] = b.cif0 /\ rest[2] = b.cif1 /\ rest[3] = b.packet_errors
        /\ rest[4] = b.sink_errors_warnings
        /\ rest[5] = level[1][1] /\ rest[6] = level[1][2]
        /\ rest[7] = rate[1][1] /\ rest[8] = rate[1][2]
        /\ rest[9] = width[1][1] /\ rest[10] = width[1][2]
    <3>1. /\ level[1][1] \in Word /\ level[1][2] \in Word /\ rate[1][1] \in Word
          /\ rate[1][2] \in Word /\ width[1][1] \in Word /\ width[1][2] \in Word
      BY <2>2 DEF Word64
    <3>2. rest = <<b.cif0, b.cif1, b.packet_errors, b.sink_errors_warnings, level[1][1],
                   level[1][2], rate[1][1], rate[1][2], width[1][1], width[1][2]>>
      BY <1>10 DEF ReportRest
    <3> HIDE DEF level, rate, width, rest
    <3> QED
      BY <1>1, <3>1, <3>2
  <2>4. /\ CommonTail(c) \o rest \in Seq(Word) /\ Len(words) = size
        /\ parsed = 21 /\ Common(words) = c
        /\ ReadU32(words, 11) = b.cif0 /\ ReadU32(words, 12) = b.cif1
        /\ ReadU32(words, 13) = b.packet_errors
        /\ ReadU32(words, 14) = b.sink_errors_warnings
        /\ \A k \in 1..10 : ReadU32(words, 10 + k) = rest[k]
        /\ limits = Ok => StatusReportError(words, size, class_id) = Ok
    <3> HIDE DEF level, rate, width, rest, c, size, limits, parsed
    <3>1. size \in {15, 17, 21} /\ Len(rest) = size - 11
      BY <2>1, <2>3
    <3>2. /\ rest \in Seq(Word) /\ rest[1] = b.cif0 /\ rest[2] = b.cif1
          /\ rest[3] = b.packet_errors /\ rest[4] = b.sink_errors_warnings
      BY <2>3
    <3>3. /\ CommonTail(c) \o rest \in Seq(Word) /\ Len(words) = size
          /\ parsed = size /\ Common(words) = c
          /\ ReadU32(words, 11) = b.cif0 /\ ReadU32(words, 12) = b.cif1
          /\ ReadU32(words, 13) = b.packet_errors
          /\ ReadU32(words, 14) = b.sink_errors_warnings
          /\ \A k \in 1..Len(rest) : ReadU32(words, 10 + k) = rest[k]
          /\ limits = Ok => StatusReportError(words, size, class_id) = Ok
      BY <1>9, <3>1, <3>2
    <3>4. Len(rest) = 10 /\ size = 21
      BY <2>1, <2>3
    <3> QED
      BY <3>3, <3>4
  <2>5. /\ ReadU32(words, 15) = level[1][1] /\ ReadU32(words, 16) = level[1][2]
        /\ ReadU32(words, 17) = rate[1][1] /\ ReadU32(words, 18) = rate[1][2]
        /\ ReadU32(words, 19) = width[1][1] /\ ReadU32(words, 20) = width[1][2]
    <3> HIDE DEF level, rate, width, rest, c, size, limits, parsed
    <3>1. \A k \in 1..10 : ReadU32(words, 10 + k) = rest[k]
      BY <2>4
    <3>2. /\ ReadU32(words, 10 + 5) = rest[5] /\ ReadU32(words, 10 + 6) = rest[6]
          /\ ReadU32(words, 10 + 7) = rest[7] /\ ReadU32(words, 10 + 8) = rest[8]
          /\ ReadU32(words, 10 + 9) = rest[9] /\ ReadU32(words, 10 + 10) = rest[10]
      BY <3>1
    <3>3. /\ rest[5] = level[1][1] /\ rest[6] = level[1][2]
          /\ rest[7] = rate[1][1] /\ rest[8] = rate[1][2]
          /\ rest[9] = width[1][1] /\ rest[10] = width[1][2]
      BY <2>3
    <3> QED
      BY <3>2, <3>3
  <2>6. ReadU64(words, 17) = rate[1] /\ ReadU64(words, 19) = width[1]
    BY <2>2, <2>5, PairReadsBack
  <2>7. StatusReportError(words, size, class_id) = Ok
    <3>1. IntegerHz(ReadU64(words, 17)) = Ok /\ IntegerHz(ReadU64(words, 19)) = Ok
      BY <1>2, <1>10, <2>1, <2>6
    <3>2. limits = Ok
      BY <3>1, ThenOk
    <3> QED
      BY <2>4, <3>2
  <2>8. StatusReportBody(words) = b
    <3>0. /\ \A x : When(parsed >= 17, x) = Some(x)
          /\ \A x : When(parsed = 21, x) = Some(x)
      BY <2>4 DEF When
    <3> HIDE DEF level, rate, width, rest, c, size, parsed
    <3>1. StatusReportBody(words)
            = [common |-> c, cif0 |-> b.cif0, cif1 |-> b.cif1, packet_errors |-> b.packet_errors,
               sink_errors_warnings  |-> b.sink_errors_warnings,
               reference_level_limit |-> Some(<<level[1][1], level[1][2]>>),
               sample_rate_limit |-> Some(rate[1]), bandwidth_limit |-> Some(width[1])]
      BY <1>8, <2>4, <2>5, <2>6, <3>0
    <3> QED
      BY <1>3, <2>2, <3>1
  <2> QED
    BY <2>4, <2>7, <2>8
<1>11. CASE ~Present(width) /\ Present(level)
  <2>1. ~Present(rate) /\ size = 17
    BY <1>4, <1>11 DEF StatusReportWords
  <2>2. /\ level[1] \in Word64 /\ Some(level[1]) = level /\ level[1] = <<level[1][1], level[1][2]>>
        /\ rate = None /\ width = None
    BY <1>6, <1>11, <2>1 DEF Word64
  <2>3. /\ rest \in Seq(Word) /\ Len(rest) = 6
        /\ rest[1] = b.cif0 /\ rest[2] = b.cif1 /\ rest[3] = b.packet_errors
        /\ rest[4] = b.sink_errors_warnings
        /\ rest[5] = level[1][1] /\ rest[6] = level[1][2]
    <3>1. level[1][1] \in Word /\ level[1][2] \in Word
      BY <2>2 DEF Word64
    <3>2. rest = <<b.cif0, b.cif1, b.packet_errors, b.sink_errors_warnings, level[1][1],
                   level[1][2]>>
      BY <1>11 DEF ReportRest
    <3> HIDE DEF level, rate, width, rest
    <3> QED
      BY <1>1, <3>1, <3>2
  <2>4. /\ CommonTail(c) \o rest \in Seq(Word) /\ Len(words) = size
        /\ parsed = 17 /\ Common(words) = c
        /\ ReadU32(words, 11) = b.cif0 /\ ReadU32(words, 12) = b.cif1
        /\ ReadU32(words, 13) = b.packet_errors
        /\ ReadU32(words, 14) = b.sink_errors_warnings
        /\ \A k \in 1..6 : ReadU32(words, 10 + k) = rest[k]
        /\ StatusReportError(words, size, class_id) = Ok
    <3>0. limits = Ok
      BY <2>1
    <3> HIDE DEF level, rate, width, rest, c, size, limits, parsed
    <3>1. size \in {15, 17, 21} /\ Len(rest) = size - 11
      BY <2>1, <2>3
    <3> QED
      BY <1>9, <2>1, <2>3, <3>0, <3>1
  <2>5. ReadU32(words, 15) = level[1][1] /\ ReadU32(words, 16) = level[1][2]
    <3> HIDE DEF level, rate, width, rest
    <3> QED
      BY <2>3, <2>4
  <2>6. StatusReportBody(words) = b
    <3>0. /\ \A x : When(parsed >= 17, x) = Some(x)
          /\ \A x : When(parsed = 21, x) = None
      BY <2>4 DEF When
    <3> HIDE DEF level, rate, width, rest, c, size, parsed
    <3>1. StatusReportBody(words)
            = [common |-> c, cif0 |-> b.cif0, cif1 |-> b.cif1, packet_errors |-> b.packet_errors,
               sink_errors_warnings  |-> b.sink_errors_warnings,
               reference_level_limit |-> Some(<<level[1][1], level[1][2]>>),
               sample_rate_limit |-> None, bandwidth_limit |-> None]
      BY <1>8, <2>4, <2>5, <3>0
    <3> QED
      BY <1>3, <2>2, <3>1
  <2> QED
    BY <2>4, <2>6
<1>12. CASE ~Present(width) /\ ~Present(level)
  <2>1. ~Present(rate) /\ size = 15
    BY <1>4, <1>12 DEF StatusReportWords
  <2>2. level = None /\ rate = None /\ width = None
    BY <1>6, <1>12, <2>1
  <2>3. /\ rest \in Seq(Word) /\ Len(rest) = 4
        /\ rest[1] = b.cif0 /\ rest[2] = b.cif1 /\ rest[3] = b.packet_errors
        /\ rest[4] = b.sink_errors_warnings
    BY <1>1, <1>12 DEF ReportRest
  <2>4. /\ CommonTail(c) \o rest \in Seq(Word) /\ Len(words) = size
        /\ parsed = 15 /\ Common(words) = c
        /\ ReadU32(words, 11) = b.cif0 /\ ReadU32(words, 12) = b.cif1
        /\ ReadU32(words, 13) = b.packet_errors
        /\ ReadU32(words, 14) = b.sink_errors_warnings
        /\ StatusReportError(words, size, class_id) = Ok
    <3>0. limits = Ok
      BY <2>1
    <3> HIDE DEF level, rate, width, rest, c, size, limits, parsed
    <3>1. size \in {15, 17, 21} /\ Len(rest) = size - 11
      BY <2>1, <2>3
    <3> QED
      BY <1>9, <2>1, <2>3, <3>0, <3>1
  <2>5. StatusReportBody(words) = b
    <3>0. /\ \A x : When(parsed >= 17, x) = None
          /\ \A x : When(parsed = 21, x) = None
      BY <2>4 DEF When
    <3> HIDE DEF level, rate, width, rest, c, size, parsed
    <3>1. StatusReportBody(words)
            = [common |-> c, cif0 |-> b.cif0, cif1 |-> b.cif1, packet_errors |-> b.packet_errors,
               sink_errors_warnings  |-> b.sink_errors_warnings,
               reference_level_limit |-> None, sample_rate_limit |-> None,
               bandwidth_limit |-> None]
      BY <1>8, <2>4, <3>0
    <3> QED
      BY <1>3, <2>2, <3>1
  <2> QED
    BY <2>4, <2>5
<1> QED
  BY <1>10, <1>11, <1>12

-----------------------------------------------------------------------------
(* Whatever prepare_packet lets through is the reading of some frame.      *)

LEMMA PacketIsItsParts ==
  ASSUME NEW p \in PacketValue
  PROVE  p = [variant |-> p.variant, prologue |-> p.prologue, body |-> p.body]
<1>1. \A variant, bodies : p \in PacketOfVariant(variant, bodies) =>
        p = [variant |-> p.variant, prologue |-> p.prologue, body |-> p.body]
  BY DEF PacketOfVariant
<1> QED
  BY <1>1 DEF PacketValue

\* The size the header holds is the planned one, and the words of the prologue are words.
LEMMA HeadWords ==
  ASSUME NEW o, NEW p \in PacketValue, PrepareError(o, p) = Ok
  PROVE  /\ HeadOf(p) \in Seq(Word) /\ Len(HeadOf(p)) = 7
         /\ p.prologue.header.packet_size_words = PlannedWords(p)
<1> DEFINE pr   == p.prologue
           h    == pr.header
           c    == pr.class_id
           plan == PlannedHeader(p)
           tsb  == CanonicalTypeSpecificBits(p)
           size == PlannedWords(p)
<1>1. /\ pr \in PrologueValue /\ h \in PacketHeaderValue /\ c \in ClassIdValue
      /\ pr.fractional_seconds_timestamp \in Word64 /\ pr.stream_id \in Word
      /\ pr.integer_seconds_timestamp \in Word
  BY PacketParts DEF PrologueValue
<1>2. PlannedWordsError(p) = Ok /\ PrologueWriteError(o, p) = Ok
  BY PrepareOk
<1>3. /\ h.sequence <= 15 /\ [h EXCEPT !.raw = plan.raw] = plan /\ ValidateClassId(c) = Ok
  BY <1>2, PrologueWriteOk
<1>4. /\ h.packet_type \in PacketType /\ h.tsi \in Tsi /\ h.tsf \in Tsf
      /\ h.sequence \in Nat /\ tsb \in {0, 1, 4} /\ size \in Half
  BY <1>1, <1>2, HalfOf, TypeSpecificBitsType, PlannedWordsRange DEF PacketHeaderValue
<1>5. plan.raw = HeaderWord(h.packet_type, tsb, h.tsi, h.tsf, h.sequence, size)
      /\ plan.packet_size_words = size
  BY DEF PlannedHeader
<1>6. h.packet_size_words = size
  BY <1>1, <1>3, <1>5 DEF PacketHeaderValue
<1>7. plan.raw \in Word
  BY <1>3, <1>4, <1>5, HeaderWordType
<1>8. ClassIdWords(c)[1] \in Word /\ ClassIdWords(c)[2] \in Word
  BY <1>1, <1>3, ClassIdWordsType
<1>9. pr.fractional_seconds_timestamp[1] \in Word /\ pr.fractional_seconds_timestamp[2] \in Word
  BY <1>1 DEF Word64
<1>10. HeadOf(p) = <<plan.raw, pr.stream_id, ClassIdWords(c)[1], ClassIdWords(c)[2],
                     pr.integer_seconds_timestamp, pr.fractional_seconds_timestamp[1],
                     pr.fractional_seconds_timestamp[2]>>
  BY DEF HeadOf
<1> HIDE DEF plan, pr, h, c
<1>11. HeadOf(p) \in Seq(Word) /\ Len(HeadOf(p)) = 7
  BY <1>1, <1>7, <1>8, <1>9, <1>10
<1> QED
  BY <1>6, <1>11 DEF h, pr, size

\* A frame put together from a packet, when its body reads back, is accepted as that packet.
LEMMA Assembled ==
  ASSUME NEW o, NEW p \in PacketValue, PrepareError(o, p) = Ok,
         p.variant = VariantOf(p.prologue.class_id.packet_class),
         NEW tail \in Seq(Word), PlannedWords(p) = 7 + Len(tail),
         LET words == HeadOf(p) \o tail
         IN /\ TailAt(words, tail) /\ words \in Seq(Word)
            /\ SubSeq(words, 8, Len(words)) = tail
            /\ PacketSizeWords(ReadU32(words, 0)) = Len(words)
            => /\ BodyError(o, words, Len(words), p.prologue.class_id) = Ok
               /\ BodyOf(p.variant, words) = p.body
  PROVE  LET words == HeadOf(p) \o tail
         IN Accepted(o, words) /\ PacketOf(words) = p
<1> DEFINE words == HeadOf(p) \o tail
           c     == p.prologue.class_id
<1>1. HeadOf(p) \in Seq(Word) /\ Len(HeadOf(p)) = 7
  BY HeadWords
<1>2. /\ words \in Seq(Word)
      /\ Len(words) = 7 + Len(tail)
      /\ \A i \in 1..7 : ReadU32(words, i - 1) = HeadOf(p)[i]
      /\ \A k \in 1..Len(tail) : ReadU32(words, 6 + k) = tail[k]
      /\ SubSeq(words, 8, Len(words)) = tail
  BY <1>1, FrameReads
<1>3. TailAt(words, tail)
  BY <1>2 DEF TailAt
<1>4. PlannedWordsError(p) = Ok /\ PrologueWriteError(o, p) = Ok
  BY PrepareOk
<1> HIDE DEF words
<1>5. /\ HeaderError(ReadU32(words, 0)) = Ok
      /\ ClassIdError(ReadU32(words, 2), ReadU32(words, 3)) = Ok
      /\ ParsedHeader(words).class_id_indicator = TRUE
      /\ ValidatePrologue(o, ParsedHeader(words), ParsedClassId(words)) = Ok
      /\ ParsedClassId(words) = c
      /\ PrologueOf(words) = p.prologue
      /\ PacketSizeWords(ReadU32(words, 0)) = Len(words)
  BY <1>2, <1>4, PrologueReadsBack
<1>6. BodyError(o, words, Len(words), c) = Ok /\ BodyOf(p.variant, words) = p.body
  BY <1>2, <1>3, <1>5 DEF words
<1>7. PacketError(o, words) = Ok
  <2> DEFINE header == ParsedHeader(words)
  <2>1. header.packet_size_words = Len(words)
    BY <1>5 DEF ParsedHeader, HeaderOf
  <2>2. PacketError(o, words)
          = (HeaderError(ReadU32(words, 0))
               ?? Expect(header.class_id_indicator, "MissingClassId")
               ?? ClassIdError(ReadU32(words, 2), ReadU32(words, 3))
               ?? ValidatePrologue(o, header, ParsedClassId(words))
               ?? BodyError(o, words, header.packet_size_words, ParsedClassId(words)))
    BY DEF PacketError, ParsedHeader, ParsedClassId
  <2>3. Expect(header.class_id_indicator, "MissingClassId") = Ok
    BY <1>5 DEF Expect
  <2> HIDE DEF header
  <2> QED
    BY <1>5, <1>6, <2>1, <2>2, <2>3, ThenOk DEF header
<1>8. PacketOf(words) = p
  <2>1. p.prologue.class_id = c
    OBVIOUS
  <2>2. PacketOf(words) = [variant |-> p.variant, prologue |-> p.prologue, body |-> p.body]
    BY <1>5, <1>6, <2>1 DEF PacketOf
  <2> QED
    BY <2>2, PacketIsItsParts
<1>9. Len(words) >= 7
  <2>1. Len(tail) \in Nat
    OBVIOUS
  <2> QED
    BY <1>2, <2>1
<1> QED
  BY <1>2, <1>5, <1>7, <1>8, <1>9 DEF Accepted, words

\* How each variant is planned, checked and read.
LEMMA OneVariant ==
  ASSUME NEW o, NEW p, NEW words,
         p.variant = VariantOf(p.prologue.class_id.packet_class),
         p.prologue.header.packet_size_words = PlannedWords(p)
  PROVE  LET c == p.prologue.class_id
             b == p.body
             n == PlannedWords(p)
             Written == BodyWriteError(o, p)
             Read    == BodyError(o, words, Len(words), c)
             Body    == BodyOf(p.variant, words)
             size    == Len(words)
         IN /\ p.variant = "SignalData" =>
                 /\ n = 7 + Len(b.payload.words) /\ Written = SignalDataWriteError(o, b, c)
                 /\ Read = DataError(o, words, c) /\ Body = SignalDataBody(words)
            /\ p.variant = "SignalContext" =>
                 /\ n = 27 /\ Written = SignalContextWriteError(b, c, n)
                 /\ Read = SignalContextError(words, size, c) /\ Body = SignalContextBody(words)
            /\ p.variant = "VersionContext" =>
                 /\ n = 11 /\ Written = VersionContextWriteError(b, c, n)
                 /\ Read = VersionContextError(words, size, c) /\ Body = VersionContextBody(words)
            /\ p.variant = "TimingFlowControl" =>
                 /\ n = 21 /\ Written = TimingFlowControlWriteError(b, c, n)
                 /\ Read = TimingFlowControlError(words, size, c)
                 /\ Body = TimingFlowControlBody(words)
            /\ p.variant = "SinkCapabilitiesQuery" =>
                 /\ n = IF b.form = "Long" THEN 13 ELSE 15
                 /\ Written = SinkCapabilitiesQueryWriteError(b, c, n)
                 /\ Read = SinkCapabilitiesQueryError(words, size, c)
                 /\ Body = SinkCapabilitiesQueryBody(words)
            /\ p.variant = "SinkCapabilitiesResponse" =>
                 /\ n = IF b.form = "Long" THEN 13 + Len(b.capability_table.words) ELSE 18
                 /\ Written = SinkCapabilitiesResponseWriteError(b, c, n)
                 /\ Read = SinkCapabilitiesResponseError(words, size, c)
                 /\ Body = SinkCapabilitiesResponseBody(words)
            /\ p.variant = "StatusReport" =>
                 /\ n = StatusReportWords(b) /\ Written = StatusReportWriteError(b, c, n)
                 /\ Read = StatusReportError(words, size, c) /\ Body = StatusReportBody(words)
<1> DEFINE v == VariantOf(p.prologue.class_id.packet_class)
<1>1. p.variant = v
  OBVIOUS
<1> HIDE DEF v
<1>2. CASE v = "SignalData"
  BY <1>1, <1>2 DEF v, PlannedWords, CountedWords, PROLOGUE_WORDS, BodyWriteError, BodyError, BodyOf
<1>3. CASE v = "SignalContext"
  BY <1>1, <1>3 DEF v, PlannedWords, CountedWords, BodyWriteError, BodyError, BodyOf
<1>4. CASE v = "VersionContext"
  BY <1>1, <1>4 DEF v, PlannedWords, CountedWords, BodyWriteError, BodyError, BodyOf
<1>5. CASE v = "TimingFlowControl"
  BY <1>1, <1>5 DEF v, PlannedWords, CountedWords, BodyWriteError, BodyError, BodyOf
<1>6. CASE v = "SinkCapabilitiesQuery"
  BY <1>1, <1>6 DEF v, PlannedWords, CountedWords, BodyWriteError, BodyError, BodyOf
<1>7. CASE v = "SinkCapabilitiesResponse"
  BY <1>1, <1>7 DEF v, PlannedWords, CountedWords, BodyWriteError, BodyError, BodyOf
<1>8. CASE v = "StatusReport"
  BY <1>1, <1>8 DEF v, PlannedWords, CountedWords, BodyWriteError, BodyError, BodyOf
<1> QED
  BY <1>1, <1>2, <1>3, <1>4, <1>5, <1>6, <1>7, <1>8

\* The bodies of one length are words, as many as the packet takes after its prologue.
LEMMA VersionTailWords ==
  ASSUME NEW b \in VersionContextValue, NEW class_id, NEW size,
         VersionContextWriteError(b, class_id, size) = Ok
  PROVE  VersionContextTail(b) \in Seq(Word) /\ Len(VersionContextTail(b)) = 4
<1> DEFINE hi == 512 * b.year + b.day
           lo == 1024 * b.revision + 64 * b.device_type + b.icd_version
<1>1. b.year <= 127 /\ b.day <= 511 /\ b.revision <= 63 /\ b.device_type = 0
  BY VersionContextWriteOk
<1>2. /\ b.cif0 \in Word /\ b.cif1 \in Word /\ b.vita49_spec_version \in Word
      /\ b.year \in Byte /\ b.day \in Half /\ b.revision \in Byte /\ b.icd_version = 0
  BY DEF VersionContextValue, Version1
<1>3. b.year \in Nat /\ b.day \in Nat /\ b.revision \in Nat
  BY <1>2, HalfOf
<1>4. hi \in Nat /\ hi <= 65535 /\ lo \in Nat /\ lo <= 65535
  BY <1>1, <1>2, <1>3
<1>5. VersionContextTail(b) = <<b.cif0, b.cif1, b.vita49_spec_version, <<hi, lo>>>>
  BY DEF VersionContextTail
<1> HIDE DEF hi, lo
<1>6. <<hi, lo>> \in Word
  BY <1>4, HalfOf
<1> QED
  BY <1>2, <1>5, <1>6

LEMMA TimingTailWords ==
  ASSUME NEW b \in TimingFlowControlValue
  PROVE  TimingFlowControlTail(b) \in Seq(Word) /\ Len(TimingFlowControlTail(b)) = 14
<1>1. \A v \in Word64 : v[1] \in Word /\ v[2] \in Word
  BY DEF Word64
<1>2. /\ b.common \in CommonValue /\ b.cif0 \in Word /\ b.cif1 \in Word
      /\ b.reference_point \in Word /\ b.sample_rate \in Word64
      /\ b.timestamp_adjustment \in Word64 /\ b.buffer_size_bytes \in Word64
      /\ b.buffer_status.raw \in Word
  BY DEF TimingFlowControlValue, BufferStatusValue
<1>3. /\ b.common.cam \in Word /\ b.common.message_id \in Word
      /\ b.common.controllee_id \in Word /\ b.common.controller_id \in Word
  BY <1>2 DEF CommonValue
<1> QED
  BY <1>1, <1>2, <1>3 DEF TimingFlowControlTail

LEMMA ResponseTailWords ==
  ASSUME NEW b \in SinkCapabilitiesResponseValue, NEW class_id, NEW size,
         SinkCapabilitiesResponseWriteError(b, class_id, size) = Ok,
         b.form = "Long" => b.capability_table.extra = 0
  PROVE  /\ CommonTail(b.common) \o ResponseRest(b) \in Seq(Word)
         /\ Len(CommonTail(b.common) \o ResponseRest(b))
              = IF b.form = "Long" THEN 6 + Len(b.capability_table.words) ELSE 11
<1> DEFINE t == CommonTail(b.common) \o ResponseRest(b)
           R(words) == TailAt(words, t) =>
                         /\ SinkCapabilitiesResponseError(words, size, class_id) = Ok
                         /\ SinkCapabilitiesResponseBody(words) = b
<1>1. PICK words \in Seq(Word) : words = <<>>
  <2>1. <<>> \in Seq(Word)
    OBVIOUS
  <2> QED
    BY <2>1
<1>2. /\ t \in Seq(Word)
      /\ Len(t) = IF b.form = "Long" THEN 6 + Len(b.capability_table.words) ELSE 11
      /\ R(words)
  BY SinkCapabilitiesResponseReadsBack
<1> HIDE DEF R
<1> QED
  BY <1>2

\* What the plan demands of the two variants that carry bytes, and of a status report.
LEMMA PlanDemands ==
  ASSUME NEW p, PlannedWordsError(p) = Ok
  PROVE  /\ p.variant = "SignalData" => p.body.payload.extra = 0
         /\ p.variant = "SinkCapabilitiesResponse" /\ p.body.form = "Long" =>
              p.body.capability_table.extra = 0
         /\ p.variant = "StatusReport" => StatusShape(p.body) \in StatusShapes
<1> DEFINE data   == p.variant = "SignalData" => p.body.payload.extra = 0
           table  == p.variant = "SinkCapabilitiesResponse" /\ p.body.form = "Long" =>
                       p.body.capability_table.extra = 0
           report == p.variant = "StatusReport" => StatusShape(p.body) \in StatusShapes
<1>1. /\ Expect(data, "PayloadLengthNotWordAligned") = Ok
      /\ Expect(table, "CapabilityTableLengthNotWordAligned") = Ok
      /\ Expect(report, "MissingField") = Ok
  BY ThenOk DEF PlannedWordsError
<1> HIDE DEF data, table, report
<1>2. data /\ table /\ report
  BY <1>1 DEF Expect, Ok
<1> QED
  BY <1>2 DEF data, table, report

\* What prepare_packet lets through is the reading of the frame it plans.
LEMMA Encodable ==
  ASSUME NEW o, NEW p \in PacketValue, PrepareError(o, p) = Ok,
         p.variant = VariantOf(p.prologue.class_id.packet_class)
  PROVE  \E words : Accepted(o, words) /\ PacketOf(words) = p
<1> DEFINE c == p.prologue.class_id
           b == p.body
           n == PlannedWords(p)
<1>1. p.prologue.header.packet_size_words = n
  BY HeadWords
<1>2. PlannedWordsError(p) = Ok /\ BodyWriteError(o, p) = Ok
  BY PrepareOk
<1>3. /\ p.variant = "SignalData" => b.payload.extra = 0
      /\ p.variant = "SinkCapabilitiesResponse" /\ b.form = "Long" => b.capability_table.extra = 0
      /\ p.variant = "StatusReport" => StatusShape(b) \in StatusShapes
  BY <1>2, PlanDemands
<1>4. CASE p.variant = "SignalData" /\ b \in SignalDataValue
  <2> DEFINE tail == b.payload.words
  <2>1. SignalDataWriteError(o, b, c) = Ok
    BY <1>1, <1>2, <1>4, OneVariant
  <2>2. tail \in Seq(Word) /\ n = 7 + Len(tail)
    <3>1. n = 7 + Len(tail)
      BY <1>1, <1>4, OneVariant
    <3> QED
      BY <1>4, <3>1 DEF SignalDataValue, Bytes
  <2> DEFINE words == HeadOf(p) \o tail
  <2> HIDE DEF tail
  <2>3. ASSUME TailAt(words, tail), words \in Seq(Word), SubSeq(words, 8, Len(words)) = tail,
               PacketSizeWords(ReadU32(words, 0)) = Len(words)
        PROVE  BodyError(o, words, Len(words), c) = Ok /\ BodyOf(p.variant, words) = b
    <3> HIDE DEF words
    <3>1. Len(words) = n
      BY <2>2, <2>3 DEF TailAt
    <3>2. DataError(o, words, c) = Ok /\ SignalDataBody(words) = b
      <4>1. b.payload.extra = 0 /\ SubSeq(words, 8, Len(words)) = b.payload.words
        BY <1>3, <1>4, <2>3 DEF tail
      <4>2. b \in SignalDataValue
        BY <1>4
      <4> HIDE DEF b, c
      <4> QED
        BY <2>1, <4>1, <4>2, SignalDataReadsBack
    <3> QED
      BY <1>1, <1>4, <3>1, <3>2, OneVariant, ZenonT(60)
  <2> QED
    BY <2>2, <2>3, Assembled
<1>5. CASE p.variant = "SignalContext" /\ b \in SignalContextValue
  <2> DEFINE tail == SignalContextTail(b)
  <2>1. SignalContextWriteError(b, c, n) = Ok
    BY <1>1, <1>2, <1>5, OneVariant
  <2>2. tail \in Seq(Word) /\ n = 7 + Len(tail)
    <3>1. n = 27
      BY <1>1, <1>5, OneVariant
    <3>2. tail \in Seq(Word) /\ Len(tail) = 20
      BY <1>5, SignalContextTailWords
    <3> HIDE DEF tail, n
    <3> QED
      BY <3>1, <3>2
  <2> DEFINE words == HeadOf(p) \o tail
  <2> HIDE DEF tail
  <2>3. ASSUME TailAt(words, tail), words \in Seq(Word), SubSeq(words, 8, Len(words)) = tail,
               PacketSizeWords(ReadU32(words, 0)) = Len(words)
        PROVE  BodyError(o, words, Len(words), c) = Ok /\ BodyOf(p.variant, words) = b
    <3> HIDE DEF words
    <3>1. Len(words) = n
      BY <2>2, <2>3 DEF TailAt
    <3>2. SignalContextError(words, n, c) = Ok /\ SignalContextBody(words) = b
      BY <1>5, <2>1, <2>3, SignalContextReadsBack DEF tail
    <3> QED
      BY <1>1, <1>5, <3>1, <3>2, OneVariant, ZenonT(60)
  <2> QED
    BY <2>2, <2>3, Assembled
<1>6. CASE p.variant = "VersionContext" /\ b \in VersionContextValue
  <2> DEFINE tail == VersionContextTail(b)
  <2>1. VersionContextWriteError(b, c, n) = Ok
    BY <1>1, <1>2, <1>6, OneVariant
  <2>2. tail \in Seq(Word) /\ n = 7 + Len(tail)
    <3>1. n = 11
      BY <1>1, <1>6, OneVariant
    <3>2. tail \in Seq(Word) /\ Len(tail) = 4
      BY <1>6, <2>1, VersionTailWords
    <3> HIDE DEF tail, n
    <3> QED
      BY <3>1, <3>2
  <2> DEFINE words == HeadOf(p) \o tail
  <2> HIDE DEF tail
  <2>3. ASSUME TailAt(words, tail), words \in Seq(Word), SubSeq(words, 8, Len(words)) = tail,
               PacketSizeWords(ReadU32(words, 0)) = Len(words)
        PROVE  BodyError(o, words, Len(words), c) = Ok /\ BodyOf(p.variant, words) = b
    <3> HIDE DEF words
    <3>1. Len(words) = n
      BY <2>2, <2>3 DEF TailAt
    <3>2. VersionContextError(words, n, c) = Ok /\ VersionContextBody(words) = b
      BY <1>6, <2>1, <2>3, VersionContextReadsBack DEF tail
    <3> QED
      BY <1>1, <1>6, <3>1, <3>2, OneVariant, ZenonT(60)
  <2> QED
    BY <2>2, <2>3, Assembled
<1>7. CASE p.variant = "TimingFlowControl" /\ b \in TimingFlowControlValue
  <2> DEFINE tail == TimingFlowControlTail(b)
  <2>1. TimingFlowControlWriteError(b, c, n) = Ok
    BY <1>1, <1>2, <1>7, OneVariant
  <2>2. tail \in Seq(Word) /\ n = 7 + Len(tail)
    <3>1. n = 21
      BY <1>1, <1>7, OneVariant
    <3>2. tail \in Seq(Word) /\ Len(tail) = 14
      BY <1>7, TimingTailWords
    <3> HIDE DEF tail, n
    <3> QED
      BY <3>1, <3>2
  <2> DEFINE words == HeadOf(p) \o tail
  <2> HIDE DEF tail
  <2>3. ASSUME TailAt(words, tail), words \in Seq(Word), SubSeq(words, 8, Len(words)) = tail,
               PacketSizeWords(ReadU32(words, 0)) = Len(words)
        PROVE  BodyError(o, words, Len(words), c) = Ok /\ BodyOf(p.variant, words) = b
    <3> HIDE DEF words
    <3>1. Len(words) = n
      BY <2>2, <2>3 DEF TailAt
    <3>2. TimingFlowControlError(words, n, c) = Ok /\ TimingFlowControlBody(words) = b
      BY <1>7, <2>1, <2>3, TimingFlowControlReadsBack DEF tail
    <3> QED
      BY <1>1, <1>7, <3>1, <3>2, OneVariant, ZenonT(60)
  <2> QED
    BY <2>2, <2>3, Assembled
<1>8. CASE p.variant = "SinkCapabilitiesQuery" /\ b \in SinkCapabilitiesQueryValue
  <2> DEFINE tail == CommonTail(b.common) \o QueryRest(b)
  <2>1. SinkCapabilitiesQueryWriteError(b, c, n) = Ok
    BY <1>1, <1>2, <1>8, OneVariant
  <2>2. tail \in Seq(Word) /\ n = 7 + Len(tail)
    <3>1. n = IF b.form = "Long" THEN 13 ELSE 15
      BY <1>1, <1>8, OneVariant
    <3>2. tail \in Seq(Word) /\ Len(tail) = IF b.form = "Long" THEN 6 ELSE 8
      BY <1>8, <2>1, SinkCapabilitiesQueryReadsBack
    <3> HIDE DEF tail, n
    <3> QED
      BY <3>1, <3>2
  <2> DEFINE words == HeadOf(p) \o tail
  <2> HIDE DEF tail
  <2>3. ASSUME TailAt(words, tail), words \in Seq(Word), SubSeq(words, 8, Len(words)) = tail,
               PacketSizeWords(ReadU32(words, 0)) = Len(words)
        PROVE  BodyError(o, words, Len(words), c) = Ok /\ BodyOf(p.variant, words) = b
    <3> HIDE DEF words
    <3>1. Len(words) = n
      BY <2>2, <2>3 DEF TailAt
    <3>2. SinkCapabilitiesQueryError(words, n, c) = Ok /\ SinkCapabilitiesQueryBody(words) = b
      BY <1>8, <2>1, <2>3, SinkCapabilitiesQueryReadsBack DEF tail
    <3> QED
      BY <1>1, <1>8, <3>1, <3>2, OneVariant, ZenonT(60)
  <2> QED
    BY <2>2, <2>3, Assembled
<1>9. CASE p.variant = "SinkCapabilitiesResponse" /\ b \in SinkCapabilitiesResponseValue
  <2> DEFINE tail == CommonTail(b.common) \o ResponseRest(b)
  <2>1. SinkCapabilitiesResponseWriteError(b, c, n) = Ok
    BY <1>1, <1>2, <1>9, OneVariant
  <2>2. tail \in Seq(Word) /\ n = 7 + Len(tail)
    <3>1. n = IF b.form = "Long" THEN 13 + Len(b.capability_table.words) ELSE 18
      BY <1>1, <1>9, OneVariant
    <3>2. b.form = "Long" => b.capability_table.extra = 0
      BY <1>3, <1>9
    <3>3. /\ tail \in Seq(Word)
          /\ Len(tail) = IF b.form = "Long" THEN 6 + Len(b.capability_table.words) ELSE 11
      BY <1>9, <2>1, <3>2, ResponseTailWords
    <3>4. Len(b.capability_table.words) \in Nat
      BY <1>9 DEF SinkCapabilitiesResponseValue, Bytes
    <3> HIDE DEF tail, n
    <3> QED
      BY <3>1, <3>3, <3>4
  <2> DEFINE words == HeadOf(p) \o tail
  <2> HIDE DEF tail
  <2>3. ASSUME TailAt(words, tail), words \in Seq(Word), SubSeq(words, 8, Len(words)) = tail,
               PacketSizeWords(ReadU32(words, 0)) = Len(words)
        PROVE  BodyError(o, words, Len(words), c) = Ok /\ BodyOf(p.variant, words) = b
    <3> HIDE DEF words
    <3>1. Len(words) = n
      BY <2>2, <2>3 DEF TailAt
    <3>2. SinkCapabilitiesResponseError(words, n, c) = Ok /\ SinkCapabilitiesResponseBody(words) = b
      BY <1>3, <1>9, <2>1, <2>3, SinkCapabilitiesResponseReadsBack DEF tail
    <3> QED
      BY <1>1, <1>9, <3>1, <3>2, OneVariant, ZenonT(60)
  <2> QED
    BY <2>2, <2>3, Assembled
<1>10. CASE p.variant = "StatusReport" /\ b \in StatusReportValue
  <2> DEFINE tail == CommonTail(b.common) \o ReportRest(b)
  <2>1. StatusReportWriteError(b, c, n) = Ok
    BY <1>1, <1>2, <1>10, OneVariant
  <2>4. n = StatusReportWords(b)
    BY <1>1, <1>10, OneVariant
  <2>2. tail \in Seq(Word) /\ n = 7 + Len(tail)
    <3>1. StatusShape(b) \in StatusShapes
      BY <1>3, <1>10
    <3>2. tail \in Seq(Word) /\ Len(tail) = StatusReportWords(b) - 7
      BY <1>10, <3>1, ReportTailWords
    <3>3. StatusReportWords(b) \in {15, 17, 21}
      BY DEF StatusReportWords
    <3> HIDE DEF tail, n
    <3> QED
      BY <2>4, <3>2, <3>3
  <2> DEFINE words == HeadOf(p) \o tail
  <2> HIDE DEF tail
  <2>3. ASSUME TailAt(words, tail), words \in Seq(Word), SubSeq(words, 8, Len(words)) = tail,
               PacketSizeWords(ReadU32(words, 0)) = Len(words)
        PROVE  BodyError(o, words, Len(words), c) = Ok /\ BodyOf(p.variant, words) = b
    <3> HIDE DEF words
    <3>1. Len(words) = n
      BY <2>2, <2>3 DEF TailAt
    <3>2. StatusReportError(words, n, c) = Ok /\ StatusReportBody(words) = b
      BY <1>3, <1>10, <2>1, <2>3, <2>4, StatusReportReadsBack DEF tail
    <3> QED
      BY <1>1, <1>10, <3>1, <3>2, OneVariant, ZenonT(60)
  <2> QED
    BY <2>2, <2>3, Assembled
<1> QED
  BY PacketParts, <1>4, <1>5, <1>6, <1>7, <1>8, <1>9, <1>10

-----------------------------------------------------------------------------
(* A packet that was written reads back as itself.                         *)

\* An accepted frame is parsed whole.
LEMMA AcceptedIsExact ==
  ASSUME NEW o, NEW words, Accepted(o, words)
  PROVE  ParsePacketExact(Slice(words), o) = [error |-> Ok, packet |-> PacketOf(words)]
<1>1. /\ words \in Seq(Word) /\ Len(words) \in Nat /\ Len(words) >= 7
      /\ PacketSizeWords(ReadU32(words, 0)) = Len(words)
      /\ PacketError(o, words) = Ok
  BY DEF Accepted
<1>2. Slice(words).words = words /\ Slice(words).extra = 0
  BY DEF Slice
<1>3. IsSlice(Slice(words)) /\ ByteLen(Slice(words)) = 4 * Len(words)
  BY <1>1, <1>2 DEF IsSlice, ByteLen, WORD_BYTES
<1>4. FramingError(Slice(words)) = Ok
  <2>1. /\ ByteLen(Slice(words)) >= PROLOGUE_BYTES
        /\ Len(words) >= PROLOGUE_WORDS
        /\ ByteLen(Slice(words)) >= WORD_BYTES * Len(words)
    BY <1>1, <1>3 DEF PROLOGUE_BYTES, PROLOGUE_WORDS, WORD_BYTES
  <2> QED
    BY <1>1, <1>2, <2>1 DEF FramingError, Expect, ??
<1>5. FrameOf(Slice(words)) = words
  BY <1>1, <1>2 DEF FrameOf
<1>6. ParsePacketPrefix(Slice(words), o).error = Ok
  BY <1>1, <1>4, <1>5, ThenOk, PrefixReturns
<1>7. ParsePacketPrefix(Slice(words), o).packet = PacketOf(words)
  BY <1>5, <1>6, PrefixReturns
<1> QED
  BY <1>3, <1>5, <1>6, <1>7, ExactOfFrame

\* The words a write leaves at the start of the slice.
FrameWritten(result) == SubSeq(result.out.words, 1, result.written \div 4)

\* A packet that passes prepare_packet is written as one frame, whatever the slice held.
LEMMA WrittenIsFrame ==
  ASSUME NEW o, NEW p \in PacketValue, PrepareError(o, p) = Ok,
         p.variant = VariantOf(p.prologue.class_id.packet_class)
  PROVE  \E words : /\ Accepted(o, words) /\ PacketOf(words) = p
                    /\ \A slice \in Bytes : WritePacket(p, slice, o).error = Ok =>
                         FrameWritten(WritePacket(p, slice, o)) = words
<1>1. PICK words : Accepted(o, words) /\ PacketOf(words) = p
  BY Encodable
<1>2. ASSUME NEW slice \in Bytes, WritePacket(p, slice, o).error = Ok
      PROVE  FrameWritten(WritePacket(p, slice, o)) = words
  <2> DEFINE result == WritePacket(p, slice, o)
  <2>1. IF ByteLen(slice) >= 4 * Len(words)
        THEN /\ result.error = Ok /\ result.written = 4 * Len(words)
             /\ SubSeq(result.out.words, 1, Len(words)) = words
        ELSE result.error = "OutputTooSmall" /\ result.out = slice
    BY <1>1, AcceptedWritesBack
  <2>2. result.error = Ok
    BY <1>2
  <2>3. Len(words) \in Nat
    BY <1>1 DEF Accepted
  <2>4. \A k \in Nat : (4 * k) \div 4 = k
    OBVIOUS
  <2> HIDE DEF result
  <2>5. result.written = 4 * Len(words) /\ SubSeq(result.out.words, 1, Len(words)) = words
    BY <2>1, <2>2 DEF Ok
  <2>6. result.written \div 4 = Len(words)
    BY <2>3, <2>4, <2>5
  <2> QED
    BY <2>5, <2>6 DEF FrameWritten, result
<1> QED
  BY <1>1, <1>2

LEMMA WrittenReadsBack ==
  ASSUME NEW o, NEW p \in PacketValue, NEW slice \in Bytes,
         p.variant = VariantOf(p.prologue.class_id.packet_class),
         WritePacket(p, slice, o).error = Ok
  PROVE  ParsePacketExact(Slice(FrameWritten(WritePacket(p, slice, o))), o)
           = [error |-> Ok, packet |-> p]
<1>1. PrepareError(o, p) = Ok
  BY ThenOk DEF WritePacket
<1>2. PICK words : /\ Accepted(o, words) /\ PacketOf(words) = p
                   /\ \A s \in Bytes : WritePacket(p, s, o).error = Ok =>
                        FrameWritten(WritePacket(p, s, o)) = words
  BY <1>1, WrittenIsFrame
<1> QED
  BY <1>2, AcceptedIsExact

-----------------------------------------------------------------------------
(* What the IQ helpers write reads back as the samples they were given.    *)

\* The packet of a request that passes the checks is a value a packet can be.
LEMMA IqPacketType ==
  ASSUME NEW r, r.bits \in SampleBits, r.spec \in SpecValue,
         r.samples \in Seq(SampleValue(r.bits)), IqError(r.bits, r.spec, r.samples) = Ok
  PROVE  IqPacket(r) \in PacketValue
<1> DEFINE bits    == r.bits
           samples == r.samples
           spec    == r.spec
           n       == IqPacketWords(bits, samples)
           words   == PayloadWords(bits, samples)
           h       == SpecHeader(spec, n)
           c       == SpecClassId(spec)
<1>1. /\ bits \in SampleBits /\ spec \in SpecValue /\ samples \in Seq(SampleValue(bits))
      /\ IqError(bits, spec, samples) = Ok
  OBVIOUS
<1> HIDE DEF bits, samples, spec
<1>2. /\ bits = 8 => Len(samples) % 2 = 0
      /\ spec.sequence <= 15 /\ n <= 65535
  BY <1>1, IqOk
<1>3. n \in Nat /\ 7 + Len(words) = n /\ words \in Seq(Word)
  BY <1>1, <1>2, PayloadWordsType
<1>4. /\ spec.stream_id \in Word /\ spec.tsi \in Tsi /\ spec.tsf \in Tsf
      /\ spec.integer_seconds_timestamp \in Word
      /\ spec.fractional_seconds_timestamp \in Word64 /\ spec.sequence \in Byte
  BY <1>1 DEF SpecValue, Word64, Byte
<1>5. n \in Half /\ spec.sequence \in Nat
  BY <1>3, <1>4, <1>2, HalfOf
<1>6. h \in PacketHeaderValue
  <2>1. SignalDataWithStreamId \in PacketType /\ 0 \in {0, 1, 4} /\ 0 \in Byte
    BY DEF PacketType, Byte
  <2>2. HeaderWord(SignalDataWithStreamId, 0, spec.tsi, spec.tsf, spec.sequence, n) \in Word
    BY <1>4, <1>5, <1>2, <2>1, HeaderWordType
  <2>3. None \in Option({Fine, Coarse})
    BY OptionType
  <2> HIDE DEF n
  <2> QED
    BY <1>4, <1>5, <2>1, <2>2, <2>3 DEF SpecHeader, PacketHeaderValue
<1>7. c \in ClassIdValue
  BY <1>1, SpecClassIdType
<1> DEFINE prologue == [header    |-> h,
                        stream_id |-> spec.stream_id,
                        class_id  |-> c,
                        integer_seconds_timestamp    |-> spec.integer_seconds_timestamp,
                        fractional_seconds_timestamp |-> spec.fractional_seconds_timestamp]
           body     == [payload |-> Slice(words)]
<1>8. prologue \in PrologueValue
  <2> HIDE DEF h, c
  <2> QED
    BY <1>4, <1>6, <1>7 DEF PrologueValue
<1>9. body \in SignalDataValue
  <2> HIDE DEF words
  <2>1. Slice(words) \in Bytes
    BY <1>3, SliceType
  <2> QED
    BY <2>1 DEF SignalDataValue
<1>10. IqPacket(r) = [variant |-> "SignalData", prologue |-> prologue, body |-> body]
  <2> HIDE DEF n
  <2>1. PROLOGUE_WORDS + Len(words) = n
    BY <1>3 DEF PROLOGUE_WORDS
  <2> HIDE DEF words
  <2> QED
    BY <2>1 DEF IqPacket, words, bits, samples, spec
<1> HIDE DEF prologue, body
<1> QED
  BY <1>8, <1>9, <1>10 DEF PacketValue, PacketOfVariant

\* What an IQ helper wrote is what write_packet writes of the packet built by hand.
LEMMA IqIsByHand ==
  ASSUME NEW r, r.bits \in SampleBits, r.spec \in SpecValue,
         r.samples \in Seq(SampleValue(r.bits)), NEW slice \in Bytes,
         WriteIqData(r.bits, r.spec, r.samples, slice).error = Ok
  PROVE  LET result == WriteIqData(r.bits, r.spec, r.samples, slice)
         IN /\ IqPacket(r) \in PacketValue /\ result.out \in Bytes
            /\ IqPacket(r).variant = VariantOf(IqPacket(r).prologue.class_id.packet_class)
            /\ WritePacket(IqPacket(r), result.out, DefaultOptions).error = Ok
            /\ FrameWritten(WritePacket(IqPacket(r), result.out, DefaultOptions)) = FrameWritten(result)
<1> DEFINE bits    == r.bits
           samples == r.samples
           spec    == r.spec
           result  == WriteIqData(bits, spec, samples, slice)
           p       == IqPacket(r)
           by_hand == WritePacket(p, result.out, DefaultOptions)
           n       == IqPacketWords(bits, samples)
<1>1. bits \in SampleBits /\ spec \in SpecValue /\ samples \in Seq(SampleValue(bits))
  OBVIOUS
<1> HIDE DEF bits, samples, spec
<1>2. IqError(bits, spec, samples) = Ok
  BY ThenOk DEF WriteIqData, bits, samples, spec
<1>3. p \in PacketValue
  BY <1>1, <1>2, IqPacketType DEF bits, samples, spec
<1>4. /\ by_hand.error = Ok /\ by_hand.written = result.written /\ by_hand.out = result.out
  <2>1. result.error # "OddComplexI8SampleCount" /\ result.error # "FieldOutOfRange"
    BY DEF Ok, bits, samples, spec
  <2> DEFINE both == spec.sequence > 15 /\ n > MAX_PACKET_WORDS
  <2>2. /\ IF both
           THEN result.error = "FieldOutOfRange" /\ by_hand.error = "PacketTooLarge"
           ELSE by_hand.error = result.error
        /\ by_hand.written = result.written
        /\ by_hand.out = result.out
    BY <2>1, HelperAndPacketWriter DEF bits, samples, spec
  <2>3. result.error = Ok
    BY DEF bits, samples, spec
  <2> HIDE DEF result, by_hand, both
  <2> QED
    BY <2>1, <2>2, <2>3
<1>5. result.out \in Bytes
  BY <1>1, WriteIqDataKeepsTheRest DEF KeepsTheRest
<1>6. p.variant = VariantOf(p.prologue.class_id.packet_class)
  <2> DEFINE h == SpecHeader(spec, n)
             c == SpecClassId(spec)
  <2>1. ValidatePrologue(DefaultOptions, h, c) = Ok
    <3>1. \A x, y : x ?? ValidatePrologue(DefaultOptions, h, c) ?? y = Ok =>
            ValidatePrologue(DefaultOptions, h, c) = Ok
      BY ThenOk
    <3> QED
      BY <1>2, <3>1 DEF IqError
  <2>2. h.packet_type = SignalDataWithStreamId /\ h.type_specific_bits = 0
    BY DEF SpecHeader
  <2>3. VariantOf(c.packet_class) = "SignalData"
    <3> HIDE DEF h, c
    <3>1. h.type_specific_bits \in 0..7
      BY <2>2
    <3> QED
      BY <2>1, <2>2, <3>1, TypeGoesWithVariant DEF SignalDataWithStreamId, ContextWithStreamId,
         VersionWithStreamId, CommandWithStreamId, ExtensionCommandWithStreamId
  <2>4. p.variant = "SignalData" /\ p.prologue.class_id = c
    BY DEF IqPacket, spec
  <2> HIDE DEF p, c
  <2> QED
    BY <2>3, <2>4
<1> HIDE DEF p, result, by_hand
<1>7. FrameWritten(by_hand) = FrameWritten(result)
  BY <1>4 DEF FrameWritten
<1> QED
  BY <1>3, <1>4, <1>5, <1>6, <1>7 DEF p, result, by_hand, bits, samples, spec

\* It is one frame too, whatever the slice held.
LEMMA IqIsFrame ==
  ASSUME NEW r, r.bits \in SampleBits, r.spec \in SpecValue,
         r.samples \in Seq(SampleValue(r.bits)), NEW blank \in Bytes,
         WriteIqData(r.bits, r.spec, r.samples, blank).error = Ok
  PROVE  \E words : /\ Accepted(DefaultOptions, words) /\ PacketOf(words) = IqPacket(r)
                    /\ \A slice \in Bytes :
                         WriteIqData(r.bits, r.spec, r.samples, slice).error = Ok =>
                           FrameWritten(WriteIqData(r.bits, r.spec, r.samples, slice)) = words
<1> DEFINE p         == IqPacket(r)
           Of(slice) == WriteIqData(r.bits, r.spec, r.samples, slice)
<1>1. /\ p \in PacketValue /\ p.variant = VariantOf(p.prologue.class_id.packet_class)
      /\ WritePacket(p, Of(blank).out, DefaultOptions).error = Ok
  BY IqIsByHand
<1>2. \A slice \in Bytes : Of(slice).error = Ok =>
        /\ Of(slice).out \in Bytes
        /\ WritePacket(p, Of(slice).out, DefaultOptions).error = Ok
        /\ FrameWritten(WritePacket(p, Of(slice).out, DefaultOptions)) = FrameWritten(Of(slice))
  BY IqIsByHand
<1> HIDE DEF p, Of
<1>3. PrepareError(DefaultOptions, p) = Ok
  BY <1>1, ThenOk DEF WritePacket
<1>4. PICK words : /\ Accepted(DefaultOptions, words) /\ PacketOf(words) = p
                   /\ \A s \in Bytes : WritePacket(p, s, DefaultOptions).error = Ok =>
                        FrameWritten(WritePacket(p, s, DefaultOptions)) = words
  BY <1>1, <1>3, WrittenIsFrame
<1>5. \A slice \in Bytes : Of(slice).error = Ok => FrameWritten(Of(slice)) = words
  BY <1>2, <1>4
<1> QED
  BY <1>4, <1>5 DEF p, Of

\* What an IQ helper wrote reads back as the packet built by hand.
LEMMA IqReadsBack ==
  ASSUME NEW r, r.bits \in SampleBits, r.spec \in SpecValue,
         r.samples \in Seq(SampleValue(r.bits)), NEW slice \in Bytes,
         WriteIqData(r.bits, r.spec, r.samples, slice).error = Ok
  PROVE  /\ IqPacket(r) \in PacketValue
         /\ ParsePacketExact(Slice(FrameWritten(WriteIqData(r.bits, r.spec, r.samples, slice))),
                             DefaultOptions)
              = [error |-> Ok, packet |-> IqPacket(r)]
BY IqIsByHand, WrittenReadsBack

\* Two's complement, there and back: an integer of so many bits keeps its sign.
LEMMA SignKept ==
  /\ \A v \in Int : -128 <= v /\ v <= 127 => Signed(TwosComplement(v, 8), 8) = v
  /\ \A v \in Int : -32768 <= v /\ v <= 32767 => Signed(TwosComplement(v, 16), 16) = v
<1>1. 2^8 = 256 /\ 2^(8 - 1) = 128
  OBVIOUS
<1>2. 2^16 = 65536 /\ 2^(16 - 1) = 32768
  OBVIOUS
<1>3. \A v \in Int : TwosComplement(v, 8) = v % 256 /\ TwosComplement(v, 16) = v % 65536
  BY <1>1, <1>2 DEF TwosComplement
<1>4. \A v : /\ Signed(v, 8) = IF v < 128 THEN v ELSE v - 256
             /\ Signed(v, 16) = IF v < 32768 THEN v ELSE v - 65536
  BY <1>1, <1>2 DEF Signed
<1>5. \A v \in Int : -128 <= v /\ v <= 127 => v % 256 = IF v < 0 THEN v + 256 ELSE v
  OBVIOUS
<1>6. \A v \in Int : -32768 <= v /\ v <= 32767 => v % 65536 = IF v < 0 THEN v + 65536 ELSE v
  OBVIOUS
<1>7. ASSUME NEW v \in Int, -128 <= v, v <= 127
      PROVE  Signed(TwosComplement(v, 8), 8) = v
  BY <1>3, <1>4, <1>5, <1>7
<1>8. ASSUME NEW v \in Int, -32768 <= v, v <= 32767
      PROVE  Signed(TwosComplement(v, 16), 16) = v
  BY <1>3, <1>4, <1>6, <1>8
<1> QED
  BY <1>7, <1>8

\* A sample is two integers of its width.
LEMMA SampleBounds ==
  ASSUME NEW bits \in SampleBits, NEW s \in SampleValue(bits), NEW max \in Nat, max = 2^(bits - 1)
  PROVE  /\ s = [i |-> s.i, q |-> s.q] /\ s.i \in Int /\ s.q \in Int
         /\ -max <= s.i /\ s.i <= max - 1 /\ -max <= s.q /\ s.q <= max - 1
<1> DEFINE range == -max..(max - 1)
<1>1. s \in [i: range, q: range]
  BY DEF SampleValue
<1>2. \A v \in range : v \in Int /\ -max <= v /\ v <= max - 1
  OBVIOUS
<1> HIDE DEF range
<1>3. s = [i |-> s.i, q |-> s.q] /\ s.i \in range /\ s.q \in range
  BY <1>1
<1> QED
  BY <1>2, <1>3

\* A sample of 8 bits in its half word, one of 16 bits in its word.
LEMMA SampleKept ==
  /\ \A s \in SampleValue(8) :
       [i |-> Signed(PackedI8(s) \div 256, 8), q |-> Signed(PackedI8(s) % 256, 8)] = s
  /\ \A s \in SampleValue(16) :
       [i |-> Signed(TwosComplement(s.i, 16), 16), q |-> Signed(TwosComplement(s.q, 16), 16)] = s
<1>1. ASSUME NEW s \in SampleValue(8)
      PROVE  [i |-> Signed(PackedI8(s) \div 256, 8), q |-> Signed(PackedI8(s) % 256, 8)] = s
  <2>1. 128 = 2^(8 - 1) /\ 128 \in Nat /\ 8 \in SampleBits
    BY DEF SampleBits
  <2>2. /\ s = [i |-> s.i, q |-> s.q] /\ s.i \in Int /\ s.q \in Int
        /\ -128 <= s.i /\ s.i <= 128 - 1 /\ -128 <= s.q /\ s.q <= 128 - 1
    BY <2>1, SampleBounds
  <2> DEFINE i == TwosComplement(s.i, 8)
             q == TwosComplement(s.q, 8)
  <2>3. i \in Nat /\ i <= 255 /\ q \in Nat /\ q <= 255
    BY <2>2, ComponentType
  <2>4. Signed(i, 8) = s.i /\ Signed(q, 8) = s.q
    <3>1. \A v \in Int : v <= 128 - 1 => v <= 127
      OBVIOUS
    <3> QED
      BY <2>2, <3>1, SignKept
  <2>5. PackedI8(s) = 256 * i + q
    BY DEF PackedI8
  <2> HIDE DEF i, q
  <2>6. (256 * i + q) \div 256 = i /\ (256 * i + q) % 256 = q
    BY <2>3
  <2> QED
    BY <2>2, <2>4, <2>5, <2>6
<1>2. ASSUME NEW s \in SampleValue(16)
      PROVE  [i |-> Signed(TwosComplement(s.i, 16), 16),
              q |-> Signed(TwosComplement(s.q, 16), 16)] = s
  <2> DEFINE max == 32768
  <2>1. max = 2^(16 - 1) /\ max \in Nat /\ 16 \in SampleBits
    BY DEF SampleBits
  <2>2. \A v \in Int : -max <= v /\ v <= max - 1 => -32768 <= v /\ v <= 32767
    OBVIOUS
  <2> HIDE DEF max
  <2>3. /\ s = [i |-> s.i, q |-> s.q] /\ s.i \in Int /\ s.q \in Int
        /\ -max <= s.i /\ s.i <= max - 1 /\ -max <= s.q /\ s.q <= max - 1
    BY <2>1, SampleBounds
  <2>4. Signed(TwosComplement(s.i, 16), 16) = s.i /\ Signed(TwosComplement(s.q, 16), 16) = s.q
    BY <2>2, <2>3, SignKept
  <2> QED
    BY <2>3, <2>4
<1> QED
  BY <1>1, <1>2

\* The iterators undo the packing: as many samples, in the same order.
LEMMA SamplesReadBack ==
  ASSUME NEW bits \in SampleBits, NEW samples \in Seq(SampleValue(bits)),
         bits = 8 => Len(samples) % 2 = 0
  PROVE  LET payload == Slice(PayloadWords(bits, samples))
         IN IqSamplesError(bits, payload) = Ok /\ IqSamples(bits, payload) = samples
<1> DEFINE words   == PayloadWords(bits, samples)
           payload == Slice(words)
           n       == Len(samples)
<1>1. n \in Nat /\ samples = [k \in 1..n |-> samples[k]]
  OBVIOUS
<1>2. payload.words = words /\ payload.extra = 0
  BY DEF Slice
<1>3. CASE bits = 8
  <2>1. n % 2 = 0
    BY <1>3
  <2>2. words = [k \in 1..(n \div 2) |-> <<PackedI8(samples[2 * k - 1]), PackedI8(samples[2 * k])>>]
    BY <1>3 DEF PayloadWords
  <2>3. samples \in Seq(SampleValue(8))
    BY <1>3
  <2> HIDE DEF n, words, payload
  <2>4. n \div 2 \in Nat /\ 2 * (n \div 2) = n
    BY <1>1, <2>1
  <2>5. Len(words) = n \div 2
    BY <2>2, <2>4
  <2>6. ASSUME NEW k \in 1..n
        PROVE  words[(k + 1) \div 2][2 - (k % 2)] = PackedI8(samples[k])
    <3> DEFINE j == (k + 1) \div 2
    <3>1. j \in 1..(n \div 2) /\ IF k % 2 = 0 THEN 2 * j = k ELSE k % 2 = 1 /\ 2 * j - 1 = k
      <4> DEFINE m == n \div 2
      <4>1. m \in Nat /\ 2 * m = n /\ k \in Nat /\ 1 <= k /\ k <= n
        BY <1>1, <2>4
      <4> HIDE DEF m
      <4>2. CASE k % 2 = 0
        <5>1. j = k \div 2 /\ 2 * j = k
          BY <4>1, <4>2
        <5> HIDE DEF j
        <5> QED
          BY <4>1, <4>2, <5>1 DEF m
      <4>3. CASE k % 2 = 1
        <5>1. j \in Nat /\ 2 * j = k + 1
          BY <4>1, <4>3
        <5> HIDE DEF j
        <5> QED
          BY <4>1, <4>3, <5>1 DEF m
      <4> QED
        BY <4>1, <4>2, <4>3
    <3> HIDE DEF j
    <3>2. words[j] = <<PackedI8(samples[2 * j - 1]), PackedI8(samples[2 * j])>>
      BY <2>2, <3>1
    <3> QED
      BY <3>1, <3>2 DEF j
  <2> DEFINE Half8(k) == words[(k + 1) \div 2][2 - (k % 2)]
  <2>7. IqSamples(bits, payload)
          = [k \in 1..(2 * Len(words)) |->
               [i |-> Signed(Half8(k) \div 256, 8), q |-> Signed(Half8(k) % 256, 8)]]
    BY <1>2, <1>3 DEF IqSamples
  <2> HIDE DEF Half8
  <2>8. ASSUME NEW k \in 1..n
        PROVE  [i |-> Signed(Half8(k) \div 256, 8), q |-> Signed(Half8(k) % 256, 8)] = samples[k]
    <3>1. samples[k] \in SampleValue(8)
      BY <2>3 DEF n
    <3>2. Half8(k) = PackedI8(samples[k])
      BY <2>6 DEF Half8
    <3> QED
      BY <3>1, <3>2, SampleKept
  <2>9. IqSamples(bits, payload) = samples
    BY <1>1, <2>4, <2>5, <2>7, <2>8
  <2>10. IqSamplesError(bits, payload) = Ok
    <3>1. ByteLen(payload) = 4 * (n \div 2) /\ SampleBytes(bits) = 2
      <4>1. 8 \div 4 = 2
        OBVIOUS
      <4> QED
        BY <1>2, <1>3, <2>4, <2>5, <4>1 DEF ByteLen, WORD_BYTES, SampleBytes
    <3>2. \A m \in Nat : (4 * m) % 2 = 0
      OBVIOUS
    <3> QED
      BY <2>4, <3>1, <3>2 DEF IqSamplesError, Expect
  <2> QED
    BY <2>9, <2>10 DEF payload, words
<1>4. CASE bits = 16
  <2>1. words = [k \in 1..n |-> <<TwosComplement(samples[k].i, 16), TwosComplement(samples[k].q, 16)>>]
    BY <1>4 DEF PayloadWords
  <2>2. samples \in Seq(SampleValue(16))
    BY <1>4
  <2> HIDE DEF n, words, payload
  <2>3. Len(words) = n
    BY <1>1, <2>1
  <2>4. IqSamples(bits, payload)
          = [k \in 1..Len(words) |-> [i |-> Signed(words[k][1], 16), q |-> Signed(words[k][2], 16)]]
    BY <1>2, <1>4 DEF IqSamples
  <2>5. ASSUME NEW k \in 1..n
        PROVE  [i |-> Signed(words[k][1], 16), q |-> Signed(words[k][2], 16)] = samples[k]
    <3>1. samples[k] \in SampleValue(16)
      BY <2>2 DEF n
    <3>2. /\ words[k][1] = TwosComplement(samples[k].i, 16)
          /\ words[k][2] = TwosComplement(samples[k].q, 16)
      BY <2>1
    <3> QED
      BY <3>1, <3>2, SampleKept
  <2>6. IqSamples(bits, payload) = samples
    BY <1>1, <2>3, <2>4, <2>5
  <2>7. IqSamplesError(bits, payload) = Ok
    <3>1. ByteLen(payload) = 4 * n /\ SampleBytes(bits) = 4
      <4>1. 16 \div 4 = 4
        OBVIOUS
      <4> QED
        BY <1>1, <1>2, <1>4, <2>3, <4>1 DEF ByteLen, WORD_BYTES, SampleBytes
    <3>2. \A m \in Nat : (4 * m) % 4 = 0
      OBVIOUS
    <3> QED
      BY <1>1, <3>1, <3>2 DEF IqSamplesError, Expect
  <2> QED
    BY <2>6, <2>7 DEF payload, words
<1> QED
  BY <1>3, <1>4 DEF SampleBits

\* The same of a request that an IQ helper wrote.
LEMMA SamplesOfHelper ==
  ASSUME NEW r, r.bits \in SampleBits, r.samples \in Seq(SampleValue(r.bits)), NEW slice,
         WriteIqData(r.bits, r.spec, r.samples, slice).error = Ok
  PROVE  LET payload == Slice(PayloadWords(r.bits, r.samples))
         IN /\ IqSamplesError(r.bits, payload) = Ok
            /\ IqSamples(r.bits, payload) = r.samples
<1> DEFINE bits    == r.bits
           samples == r.samples
           spec    == r.spec
<1>1. bits \in SampleBits /\ samples \in Seq(SampleValue(bits))
  OBVIOUS
<1>2. IqError(bits, spec, samples) = Ok
  BY ThenOk DEF WriteIqData
<1> HIDE DEF bits, samples, spec
<1>3. bits = 8 => Len(samples) % 2 = 0
  BY <1>2, IqOk
<1> QED
  BY <1>1, <1>3, SamplesReadBack DEF bits, samples
=============================================================================

--------------------------- MODULE PacketParser ----------------------------
(***************************************************************************)
(* parse_packet_prefix and parse_packet_exact (parser.rs): framing, the    *)
(* prologue, then the body its packet class demands.  A result is either   *)
(* [error |-> Ok, packet |-> ..., remainder |-> ...] or [error |-> name].  *)
(*                                                                         *)
(* Every error a body can raise stands in the order of the code, reads     *)
(* outside the slice included (Needs).  Fixed-point and signed fields keep *)
(* their bit pattern, and an error keeps its name without its details.     *)
(***************************************************************************)
EXTENDS StandardProfile, DataPadding

\* read_u32_be of word i, when words 0 to i are needed.
Needs(words, i) == Expect(HasWord(words, i), "InputTooShort")

\* validate_fixed_integer_hz: no fraction in the low 20 bits of a 64-bit value.
IntegerHz(v) == Expect(v[2][2] = 0 /\ v[2][1] % 16 = 0, "FractionalHzNotAllowed")

ExpectNoPadding(class_id) == Expect(class_id.pad_bit_count = 0, "PadBitsNotAllowed")

-----------------------------------------------------------------------------
(* Payload format: word 0 holds the fixed bits, packing size and item size *)
(* minus one; word 1 is reserved.                                          *)

PayloadFormatError(w0, w1) ==
  Expect(/\ w0[1] = \hA000
         /\ w0[2] \div 4096 = 0
         /\ w1 = <<0, 0>>
         /\ w0[2] % 64 = (w0[2] \div 64) % 64
         /\ (w0[2] % 64) + 1 \in 4..16,
         "InvalidPayloadFormat")

PayloadFormatOf(w0, w1) ==
  [raw_word0                    |-> w0,
   raw_word1                    |-> w1,
   data_item_size_bits          |-> (w0[2] % 64) + 1,
   item_packing_field_size_bits |-> ((w0[2] \div 64) % 64) + 1]

-----------------------------------------------------------------------------
(* What each body rejects, first error first.                              *)

DataError(o, words, class_id) ==
  Expect(\/ class_id.pad_bit_count = 0
         \/ PermitsDataPadding(o, class_id.information_class, class_id.packet_class),
         "PadBitsNotAllowed")
    ?? ValidateDataPadding(SubSeq(words, PROLOGUE_WORDS + 1, Len(words)), class_id.pad_bit_count)

SignalContextError(words, size, class_id) ==
  ExpectPacketSize("SignalContext", size)
    ?? ExpectNoPadding(class_id)
    ?? Needs(words, 26)
    ?? ExpectSignalContextCif0(ReadU32(words, 7))
    ?? IntegerHz(ReadU64(words, 9))
    ?? IntegerHz(ReadU64(words, 19))
    ?? IntegerHz(ReadU64(words, 11))
    ?? IntegerHz(ReadU64(words, 13))
    ?? IntegerHz(ReadU64(words, 15))
    ?? PayloadFormatError(ReadU32(words, 25), ReadU32(words, 26))

\* DifiVersionCode::Version1.
Version1 == 0

VersionContextError(words, size, class_id) ==
  ExpectPacketSize("VersionContext", size)
    ?? ExpectNoPadding(class_id)
    ?? Needs(words, 10)
    ?? ExpectVersionContextCif0(ReadU32(words, 7))
    ?? ExpectFixed("version_context_cif1", ReadU32(words, 8))
    ?? ExpectFixed("vita49_spec_version", ReadU32(words, 9))
    ?? Expect((ReadU32(words, 10)[2] \div 64) % 16 = 0, "InvalidFieldValue")
    ?? Expect(ReadU32(words, 10)[2] % 64 = Version1, "InvalidFieldValue")

TimingFlowControlError(words, size, class_id) ==
  ExpectPacketSize("TimingFlowControl", size)
    ?? ExpectNoPadding(class_id)
    ?? Needs(words, 20)
    ?? ExpectFixed("timing_flow_control_cam", ReadU32(words, 7))
    ?? ExpectFixed("timing_flow_control_cif0", ReadU32(words, 11))
    ?? ExpectFixed("timing_flow_control_cif1", ReadU32(words, 12))
    ?? IntegerHz(ReadU64(words, 14))
    ?? Expect(ReadU32(words, 20)[1] = 0, "ReservedBitsNonZero")

\* The most significant bit of CIF0 tells the short forms from the long ones.
IsShort(words) == ReadU32(words, 11)[1] >= \h8000

\* Command words first: the size is checked only once the form is known.
CapabilityCommonError(words, class_id, cam) ==
  ExpectNoPadding(class_id)
    ?? Needs(words, 10)
    ?? ExpectFixed(cam, ReadU32(words, 7))
    ?? Needs(words, 11)

SinkCapabilitiesQueryError(words, size, class_id) ==
  CapabilityCommonError(words, class_id, "sink_capabilities_query_cam")
    ?? IF IsShort(words)
       THEN ExpectPacketSize("SinkCapabilitiesQueryShort", size)
              ?? ExpectFixed("sink_capabilities_short_query_cif0", ReadU32(words, 11))
              ?? Needs(words, 14)
       ELSE ExpectPacketSize("SinkCapabilitiesQueryLong", size)
              ?? ExpectFixed("sink_capabilities_long_query_cif0", ReadU32(words, 11))
              ?? Needs(words, 12)
              ?? ExpectFixed("sink_capabilities_long_query_cif1", ReadU32(words, 12))

SinkCapabilitiesResponseError(words, size, class_id) ==
  CapabilityCommonError(words, class_id, "sink_capabilities_response_cam")
    ?? IF IsShort(words)
       THEN ExpectPacketSize("SinkCapabilitiesResponseShort", size)
              ?? ExpectFixed("sink_capabilities_short_response_cif0", ReadU32(words, 11))
              ?? Needs(words, 17)
       ELSE Expect(size > 13, "InvalidPacketSize")
              ?? ExpectFixed("sink_capabilities_long_response_cif0", ReadU32(words, 11))
              ?? Needs(words, 12)
              ?? ExpectFixed("sink_capabilities_long_response_cif1", ReadU32(words, 12))
              ?? Expect(Len(words) >= 13, Panic)

\* Bits 4 and 3 of word 14 announce the two optional parts.
StatusFlags(words) == (ReadU32(words, 14)[2] \div 8) % 4
ExpectedStatusFlags(size) == CASE size = 15 -> 0 [] size = 17 -> 2 [] size = 21 -> 3

StatusReportError(words, size, class_id) ==
  ValidateStatusReportSize(size)
    ?? ExpectNoPadding(class_id)
    ?? Needs(words, 14)
    ?? ExpectFixed("status_report_cam", ReadU32(words, 7))
    ?? ExpectFixed("status_report_cif0", ReadU32(words, 11))
    ?? ExpectFixed("status_report_cif1", ReadU32(words, 12))
    ?? Expect(size \in {15, 17, 21}, Panic)
    ?? Expect(StatusFlags(words) = ExpectedStatusFlags(size), "InvalidFieldValue")
    ?? (IF size >= 17 THEN Needs(words, 16) ELSE Ok)
    ?? (IF size = 21
        THEN Needs(words, 20) ?? IntegerHz(ReadU64(words, 17)) ?? IntegerHz(ReadU64(words, 19))
        ELSE Ok)

-----------------------------------------------------------------------------
(* What an accepted packet decodes to.                                     *)

PrologueOf(words) ==
  [header                       |-> HeaderOf(ReadU32(words, 0)),
   stream_id                    |-> ReadU32(words, 1),
   class_id                     |-> ClassIdOf(ReadU32(words, 2), ReadU32(words, 3)),
   integer_seconds_timestamp    |-> ReadU32(words, 4),
   fractional_seconds_timestamp |-> ReadU64(words, 5)]

Common(words) ==
  [cam           |-> ReadU32(words, 7),
   message_id    |-> ReadU32(words, 8),
   controllee_id |-> ReadU32(words, 9),
   controller_id |-> ReadU32(words, 10)]

\* A slice of whole words.
Slice(words) == [words |-> words, extra |-> 0]

SignalDataBody(words) == [payload |-> Slice(SubSeq(words, PROLOGUE_WORDS + 1, Len(words)))]

SignalContextBody(words) ==
  [cif0                       |-> ReadU32(words, 7),
   context_changed            |-> ReadU32(words, 7) = CIF_CONTEXT_CHANGED,
   reference_point            |-> ReadU32(words, 8),
   bandwidth                  |-> ReadU64(words, 9),
   if_reference_frequency     |-> ReadU64(words, 11),
   rf_reference_frequency     |-> ReadU64(words, 13),
   if_band_offset             |-> ReadU64(words, 15),
   scaling_level              |-> ReadU32(words, 17)[1],
   reference_level            |-> ReadU32(words, 17)[2],
   gain2                      |-> ReadU32(words, 18)[1],
   gain1                      |-> ReadU32(words, 18)[2],
   sample_rate                |-> ReadU64(words, 19),
   timestamp_adjustment       |-> ReadU64(words, 21),
   timestamp_calibration_time |-> ReadU32(words, 23),
   state_and_event_indicators |-> ReadU32(words, 24),
   payload_format             |-> PayloadFormatOf(ReadU32(words, 25), ReadU32(words, 26))]

VersionContextBody(words) ==
  LET version == ReadU32(words, 10)
  IN [cif0                |-> ReadU32(words, 7),
      context_changed     |-> ReadU32(words, 7) = CIF_VERSION_CHANGED,
      cif1                |-> ReadU32(words, 8),
      vita49_spec_version |-> ReadU32(words, 9),
      year                |-> version[1] \div 512,
      day                 |-> version[1] % 512,
      revision            |-> version[2] \div 1024,
      device_type         |-> (version[2] \div 64) % 16,
      icd_version         |-> Version1]

BufferStatusOf(w) ==
  [raw          |-> w,
   buffer_level |-> w[2] \div 16,
   overflow     |-> (w[2] \div 8) % 2 = 1,
   nearly_full  |-> (w[2] \div 4) % 2 = 1,
   nearly_empty |-> (w[2] \div 2) % 2 = 1,
   underflow    |-> w[2] % 2 = 1]

TimingFlowControlBody(words) ==
  [common               |-> Common(words),
   cif0                 |-> ReadU32(words, 11),
   cif1                 |-> ReadU32(words, 12),
   reference_point      |-> ReadU32(words, 13),
   sample_rate          |-> ReadU64(words, 14),
   timestamp_adjustment |-> ReadU64(words, 16),
   buffer_size_bytes    |-> ReadU64(words, 18),
   buffer_status        |-> BufferStatusOf(ReadU32(words, 20))]

When(present, value) == IF present THEN Some(value) ELSE None

SinkCapabilitiesQueryBody(words) ==
  [common |-> Common(words),
   form   |-> IF IsShort(words) THEN "Short" ELSE "Long",
   cif0   |-> ReadU32(words, 11),
   cif1   |-> When(~IsShort(words), ReadU32(words, 12)),
   sink_time_calibration_integer    |-> When(IsShort(words), ReadU32(words, 12)),
   sink_time_calibration_fractional |-> When(IsShort(words), ReadU64(words, 13))]

SinkCapabilitiesResponseBody(words) ==
  [common |-> Common(words),
   form   |-> IF IsShort(words) THEN "Short" ELSE "Long",
   cif0   |-> ReadU32(words, 11),
   cif1   |-> When(~IsShort(words), ReadU32(words, 12)),
   control_packet_integer_timestamp    |-> When(IsShort(words), ReadU32(words, 12)),
   control_packet_fractional_timestamp |-> When(IsShort(words), ReadU64(words, 13)),
   sink_reception_integer_timestamp    |-> When(IsShort(words), ReadU32(words, 15)),
   sink_reception_fractional_timestamp |-> When(IsShort(words), ReadU64(words, 16)),
   capability_table |-> Slice(IF IsShort(words) THEN <<>> ELSE SubSeq(words, 14, Len(words)))]

StatusReportBody(words) ==
  LET size == PacketSizeWords(ReadU32(words, 0))
  IN [common                |-> Common(words),
      cif0                  |-> ReadU32(words, 11),
      cif1                  |-> ReadU32(words, 12),
      packet_errors         |-> ReadU32(words, 13),
      sink_errors_warnings  |-> ReadU32(words, 14),
      reference_level_limit |-> When(size >= 17, <<ReadU32(words, 15), ReadU32(words, 16)>>),
      sample_rate_limit     |-> When(size = 21, ReadU64(words, 17)),
      bandwidth_limit       |-> When(size = 21, ReadU64(words, 19))]

-----------------------------------------------------------------------------
(* parse_single_packet: the packet class selects the variant.              *)

VariantOf(packet_class) ==
  CASE packet_class \in {StandardFlowSignalData, SampleCountSignalData} -> "SignalData"
    [] packet_class \in {StandardFlowSignalContext, SampleCountSignalContext} -> "SignalContext"
    [] packet_class = VersionFlowSignalContext -> "VersionContext"
    [] packet_class \in {SampleCountTimingFlowControl, RealTimeTimingFlowControl} ->
         "TimingFlowControl"
    [] packet_class = SinkCapabilitiesQuery -> "SinkCapabilitiesQuery"
    [] packet_class = SinkCapabilitiesResponse -> "SinkCapabilitiesResponse"
    [] packet_class = StatusReport -> "StatusReport"

BodyError(o, words, size, class_id) ==
  LET variant == VariantOf(class_id.packet_class)
  IN CASE variant = "SignalData"        -> DataError(o, words, class_id)
       [] variant = "SignalContext"     -> SignalContextError(words, size, class_id)
       [] variant = "VersionContext"    -> VersionContextError(words, size, class_id)
       [] variant = "TimingFlowControl" -> TimingFlowControlError(words, size, class_id)
       [] variant = "SinkCapabilitiesQuery" ->
            SinkCapabilitiesQueryError(words, size, class_id)
       [] variant = "SinkCapabilitiesResponse" ->
            SinkCapabilitiesResponseError(words, size, class_id)
       [] variant = "StatusReport" -> StatusReportError(words, size, class_id)

BodyOf(variant, words) ==
  CASE variant = "SignalData"               -> SignalDataBody(words)
    [] variant = "SignalContext"            -> SignalContextBody(words)
    [] variant = "VersionContext"           -> VersionContextBody(words)
    [] variant = "TimingFlowControl"        -> TimingFlowControlBody(words)
    [] variant = "SinkCapabilitiesQuery"    -> SinkCapabilitiesQueryBody(words)
    [] variant = "SinkCapabilitiesResponse" -> SinkCapabilitiesResponseBody(words)
    [] variant = "StatusReport"             -> StatusReportBody(words)

PacketError(o, words) ==
  LET header   == HeaderOf(ReadU32(words, 0))
      class_id == ClassIdOf(ReadU32(words, 2), ReadU32(words, 3))
  IN HeaderError(ReadU32(words, 0))
       ?? Expect(header.class_id_indicator, "MissingClassId")
       ?? ClassIdError(ReadU32(words, 2), ReadU32(words, 3))
       ?? ValidatePrologue(o, header, class_id)
       ?? BodyError(o, words, header.packet_size_words, class_id)

PacketOf(words) ==
  LET prologue == PrologueOf(words)
      variant  == VariantOf(prologue.class_id.packet_class)
  IN [variant |-> variant, prologue |-> prologue, body |-> BodyOf(variant, words)]

-----------------------------------------------------------------------------
(* The two entry points.                                                   *)

(***************************************************************************)
(* ParseError (error.rs), less TrailingBytes, which only the exact parser  *)
(* raises, and InvalidTsiForPacketClass, which nothing raises.             *)
(***************************************************************************)
ParseErrors ==
  {"InputTooShort", "PacketSizeTooSmall", "PacketTruncated", "UnsupportedPacketType",
   "MissingClassId", "ReservedBitsNonZero", "InvalidOui", "InvalidTsi", "InvalidTsf",
   "UnknownInformationClass", "UnknownPacketClass", "PacketTypeNotAvailableInStandard",
   "PacketClassNotAvailableInStandard", "PacketClassNotInInformationClass",
   "PacketTypeClassMismatch", "InvalidTsfForPacketClass", "InvalidHeaderBits",
   "InvalidPacketSize", "InvalidPacketSizeSet", "PadBitsNotAllowed", "InvalidPadding",
   "NonZeroPaddingBits", "InvalidFieldValue", "InvalidFieldValueSet",
   "InvalidPayloadFormat", "FractionalHzNotAllowed"}

FramingError(d) ==
  LET size == PacketSizeWords(ReadU32(d.words, 0))
  IN Expect(ByteLen(d) >= PROLOGUE_BYTES, "InputTooShort")
       ?? Expect(size >= PROLOGUE_WORDS, "PacketSizeTooSmall")
       ?? Expect(ByteLen(d) >= WORD_BYTES * size, "PacketTruncated")

\* packet_bytes: the words the header's size claims; remainder: all that follows.
WholeInput(d) == d.words   \* mutant: the packet slice is never cut out
FrameOf(d) == SubSeq(d.words, 1, PacketSizeWords(ReadU32(d.words, 0)))
SameInput(d) == d   \* mutant: the remainder starts where the input does
RemainderOf(d) ==
  [words |-> SubSeq(d.words, PacketSizeWords(ReadU32(d.words, 0)) + 1, Len(d.words)),
   extra |-> d.extra]

\* Mutant: the prefix parser refuses a remainder as the exact one does.
PrefixRefusesTail(d, o) ==
  LET error == FramingError(d) ?? PacketError(o, FrameOf(d))
                 ?? Expect(ByteLen(RemainderOf(d)) = 0, "TrailingBytes")
  IN IF error = Ok
     THEN [error |-> Ok, packet |-> PacketOf(FrameOf(d)), remainder |-> RemainderOf(d)]
     ELSE [error |-> error]

ParsePacketPrefix(d, o) ==
  LET error == FramingError(d) ?? PacketError(o, FrameOf(d))
  IN IF error = Ok
     THEN [error |-> Ok, packet |-> PacketOf(FrameOf(d)), remainder |-> RemainderOf(d)]
     ELSE [error |-> error]

ParsePacketExact(d, o) ==
  LET result == ParsePacketPrefix(d, o)
  IN IF result.error # Ok
     THEN [error |-> result.error]
     ELSE IF ByteLen(result.remainder) = 0
          THEN [error |-> Ok, packet |-> result.packet]
          ELSE [error |-> "TrailingBytes"]
=============================================================================

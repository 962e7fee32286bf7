---------------------------- MODULE PacketWriter ----------------------------
(***************************************************************************)
(* write_packet and encoded_len (writer.rs): everything is checked first   *)
(* (prepare_packet), then the prologue and the body are stored word by     *)
(* word in the caller's slice.  A packet is what PacketOf of PacketParser  *)
(* yields, or a value the caller built with any contents its fields can    *)
(* hold.  A ParseError a check raises keeps its name here without the      *)
(* WriteError::Profile around it.                                          *)
(***************************************************************************)
EXTENDS PacketParser

Present(option) == option # None

\* WriteOptions has the fields of ParseOptions, and the same default.
WriteOptions == ParseOptions

\* WriteError, with the ParseErrors that WriteError::Profile carries.
WriteErrors ==
  {"OutputTooSmall", "PacketTooLarge", "PayloadLengthNotWordAligned",
   "CapabilityTableLengthNotWordAligned", "OddComplexI8SampleCount", "FieldOutOfRange",
   "MissingField", "UnexpectedField", "FieldMismatch", "PacketTypeNotAvailableInStandard",
   "PacketClassNotAvailableInStandard", "PacketTypeClassMismatch", "InvalidHeaderBits",
   "ReservedBitsNonZero", "PacketClassNotInInformationClass", "InvalidTsfForPacketClass",
   "InvalidPacketSize", "InvalidPacketSizeSet", "PadBitsNotAllowed", "InvalidPadding",
   "NonZeroPaddingBits", "InvalidFieldValue", "InvalidFieldValueSet", "FractionalHzNotAllowed"}

-----------------------------------------------------------------------------
(* packet_size_words and canonical_type_specific_bits: the plan.           *)

MAX_PACKET_WORDS == 65535

\* The optional limits of a status report come in three combinations.
StatusShape(b) ==
  <<Present(b.reference_level_limit), Present(b.sample_rate_limit), Present(b.bandwidth_limit)>>
StatusShapes == {<<FALSE, FALSE, FALSE>>, <<TRUE, FALSE, FALSE>>, <<TRUE, TRUE, TRUE>>}
StatusReportWords(b) ==
  IF Present(b.bandwidth_limit) THEN 21 ELSE IF Present(b.reference_level_limit) THEN 17 ELSE 15

\* The words a packet takes, which are a usize until they are known to fit in a u16.
CountedWords(p) ==
  CASE p.variant = "SignalData"               -> PROLOGUE_WORDS + Len(p.body.payload.words)
    [] p.variant = "SignalContext"            -> 27
    [] p.variant = "VersionContext"           -> 11
    [] p.variant = "TimingFlowControl"        -> 21
    [] p.variant = "SinkCapabilitiesQuery"    -> IF p.body.form = "Long" THEN 13 ELSE 15
    [] p.variant = "SinkCapabilitiesResponse" ->
         IF p.body.form = "Long" THEN 13 + Len(p.body.capability_table.words) ELSE 18
    [] p.variant = "StatusReport"             -> StatusReportWords(p.body)

PlannedWordsCast(p) == CountedWords(p) % (MAX_PACKET_WORDS + 1)   \* mutant: `as u16`
PlannedWords(p)     == CountedWords(p)

PlannedWordsError(p) ==
  Expect(p.variant = "SignalData" => p.body.payload.extra = 0, "PayloadLengthNotWordAligned")
    ?? Expect(p.variant = "SinkCapabilitiesResponse" /\ p.body.form = "Long" =>
                p.body.capability_table.extra = 0,
              "CapabilityTableLengthNotWordAligned")
    ?? Expect(p.variant = "StatusReport" => StatusShape(p.body) \in StatusShapes, "MissingField")
    ?? Expect(PlannedWords(p) <= MAX_PACKET_WORDS, "PacketTooLarge")

HasTsm(p) == p.variant \in {"SignalContext", "VersionContext"}

CanonicalTypeSpecificBits(p) ==
  CASE HasTsm(p) -> IF p.prologue.header.tsm = Some(Coarse) THEN 1 ELSE 0
    [] p.variant = "SinkCapabilitiesResponse" -> 4
    [] OTHER -> 0

\* The header every field of which is derived from the packet.
PlannedHeader(p) ==
  LET h   == p.prologue.header
      tsb == CanonicalTypeSpecificBits(p)
  IN [raw |-> HeaderWord(h.packet_type, tsb, h.tsi, h.tsf, h.sequence, PlannedWords(p)),
      packet_type        |-> h.packet_type,
      class_id_indicator |-> TRUE,
      type_specific_bits |-> tsb,
      tsm                |-> TsmOf(h.packet_type, tsb),
      tsi                |-> h.tsi,
      tsf                |-> h.tsf,
      sequence           |-> h.sequence,
      packet_size_words  |-> PlannedWords(p)]

-----------------------------------------------------------------------------
(* validate_prologue: raw and decoded fields agree, then the profile.      *)

ValidateClassId(class_id) ==
  Expect(class_id.pad_bit_count <= MaxPadBits, "FieldOutOfRange")
    ?? Expect(class_id.oui = DIFI_CID, "FieldMismatch")

PrologueWriteError(o, p) ==
  LET header   == p.prologue.header
      class_id == p.prologue.class_id
      planned  == PlannedHeader(p)
  IN Expect(header.sequence <= 15, "FieldOutOfRange")
       ?? Expect([header EXCEPT !.raw = planned.raw] = planned, "FieldMismatch")
       ?? ValidateClassId(class_id)
       ?? Expect(header.raw = planned.raw, "FieldMismatch")
       ?? ValidatePrologue(o, planned, class_id)

-----------------------------------------------------------------------------
(* The checks of each variant.                                             *)

\* Mutant: the copy counts the byte that is partly padding as padding.
PaddingRoundedUp(payload, pad_bit_count) ==
  ValidateDataPadding(payload, 8 * ((pad_bit_count + 7) \div 8))

\* The writer's own copy of the arithmetic of the parser.
WrittenDataPadding(payload, pad_bit_count) == ValidateDataPadding(payload, pad_bit_count)

SignalDataWriteError(o, b, class_id) ==
  Expect(\/ class_id.pad_bit_count = 0
         \/ PermitsDataPadding(o, class_id.information_class, class_id.packet_class),
         "PadBitsNotAllowed")
    ?? WrittenDataPadding(b.payload.words, class_id.pad_bit_count)

PayloadFormatWriteError(f) ==
  LET minus_one == f.data_item_size_bits - 1
  IN Expect(f.data_item_size_bits \in 4..16, "FieldOutOfRange")
       ?? Expect(/\ f.item_packing_field_size_bits = f.data_item_size_bits
                 /\ f.raw_word0 = <<\hA000, 64 * minus_one + minus_one>>
                 /\ f.raw_word1 = <<0, 0>>,
                 "FieldMismatch")

SignalContextWriteError(b, class_id, size) ==
  ExpectNoPadding(class_id)
    ?? ExpectPacketSize("SignalContext", size)
    ?? ExpectSignalContextCif0(b.cif0)
    ?? Expect(b.context_changed <=> b.cif0 = CIF_CONTEXT_CHANGED, "FieldMismatch")
    ?? IntegerHz(b.bandwidth)
    ?? IntegerHz(b.if_reference_frequency)
    ?? IntegerHz(b.rf_reference_frequency)
    ?? IntegerHz(b.if_band_offset)
    ?? IntegerHz(b.sample_rate)
    ?? PayloadFormatWriteError(b.payload_format)

VersionContextWriteError(b, class_id, size) ==
  ExpectNoPadding(class_id)
    ?? ExpectPacketSize("VersionContext", size)
    ?? ExpectVersionContextCif0(b.cif0)
    ?? Expect(b.context_changed <=> b.cif0 = CIF_VERSION_CHANGED, "FieldMismatch")
    ?? ExpectFixed("version_context_cif1", b.cif1)
    ?? ExpectFixed("vita49_spec_version", b.vita49_spec_version)
    ?? Expect(b.year <= 127 /\ b.day <= 511 /\ b.revision <= 63, "FieldOutOfRange")
    ?? Expect(b.device_type = 0 /\ b.icd_version = Version1, "FieldMismatch")

BufferStatusUnchecked(s) == Ok   \* mutant: raw and decoded status are not compared
BufferStatusWriteError(s) ==
  LET Bit(flag, weight) == IF flag THEN weight ELSE 0
      flags == Bit(s.overflow, 8) + Bit(s.nearly_full, 4) + Bit(s.nearly_empty, 2)
                 + Bit(s.underflow, 1)
  IN Expect(s.buffer_level <= 4095, "FieldOutOfRange")
       ?? Expect(s.raw = <<0, 16 * s.buffer_level + flags>>, "FieldMismatch")

TimingFlowControlWriteError(b, class_id, size) ==
  ExpectNoPadding(class_id)
    ?? ExpectPacketSize("TimingFlowControl", size)
    ?? ExpectFixed("timing_flow_control_cam", b.common.cam)
    ?? ExpectFixed("timing_flow_control_cif0", b.cif0)
    ?? ExpectFixed("timing_flow_control_cif1", b.cif1)
    ?? IntegerHz(b.sample_rate)
    ?? BufferStatusWriteError(b.buffer_status)

\* The optional fields a form demands, and those it forbids.
Required(options)  == Expect(\A i \in DOMAIN options : Present(options[i]), "MissingField")
Forbidden(options) == Expect(\A i \in DOMAIN options : ~Present(options[i]), "UnexpectedField")

\* Mutant: the second of the two times is left to the body writer.
QueryShortFirstField(b) == Required(<<b.sink_time_calibration_integer>>)
QueryShortFields(b) ==
  Required(<<b.sink_time_calibration_integer, b.sink_time_calibration_fractional>>)

SinkCapabilitiesQueryWriteError(b, class_id, size) ==
  ExpectNoPadding(class_id)
    ?? ExpectFixed("sink_capabilities_query_cam", b.common.cam)
    ?? IF b.form = "Long"
       THEN ExpectPacketSize("SinkCapabilitiesQueryLong", size)
              ?? ExpectFixed("sink_capabilities_long_query_cif0", b.cif0)
              ?? Required(<<b.cif1>>)
              ?? ExpectFixed("sink_capabilities_long_query_cif1", b.cif1[1])
              ?? Forbidden(<<b.sink_time_calibration_integer,
                             b.sink_time_calibration_fractional>>)
       ELSE ExpectPacketSize("SinkCapabilitiesQueryShort", size)
              ?? ExpectFixed("sink_capabilities_short_query_cif0", b.cif0)
              ?? Forbidden(<<b.cif1>>)
              ?? QueryShortFields(b)

ResponseTimestamps(b) ==
  <<b.control_packet_integer_timestamp, b.control_packet_fractional_timestamp,
    b.sink_reception_integer_timestamp, b.sink_reception_fractional_timestamp>>

SinkCapabilitiesResponseWriteError(b, class_id, size) ==
  ExpectNoPadding(class_id)
    ?? ExpectFixed("sink_capabilities_response_cam", b.common.cam)
    ?? IF b.form = "Long"
       THEN Expect(size > 13, "InvalidPacketSize")
              ?? ExpectFixed("sink_capabilities_long_response_cif0", b.cif0)
              ?? Required(<<b.cif1>>)
              ?? ExpectFixed("sink_capabilities_long_response_cif1", b.cif1[1])
              ?? Forbidden(ResponseTimestamps(b))
       ELSE ExpectPacketSize("SinkCapabilitiesResponseShort", size)
              ?? ExpectFixed("sink_capabilities_short_response_cif0", b.cif0)
              ?? Forbidden(<<b.cif1>>)
              ?? Expect(ByteLen(b.capability_table) = 0, "UnexpectedField")
              ?? Required(ResponseTimestamps(b))

QuantitativeFlags(w)             == (w[2] \div 8) % 4
ExpectedQuantitativeFlags(words) == CASE words = 15 -> 0 [] words = 17 -> 2 [] words = 21 -> 3

StatusReportWriteError(b, class_id, size) ==
  LET Limit(option) == IF Present(option) THEN IntegerHz(option[1]) ELSE Ok
  IN ExpectNoPadding(class_id)
       ?? ValidateStatusReportSize(size)
       ?? ExpectFixed("status_report_cam", b.common.cam)
       ?? ExpectFixed("status_report_cif0", b.cif0)
       ?? ExpectFixed("status_report_cif1", b.cif1)
       ?? Expect(QuantitativeFlags(b.sink_errors_warnings)
                   = ExpectedQuantitativeFlags(StatusReportWords(b)), "FieldMismatch")
       ?? Limit(b.sample_rate_limit)
       ?? Limit(b.bandwidth_limit)

\* The checks are chosen by the variant of the value, not by its packet class.
BodyWriteError(o, p) ==
  LET b        == p.body
      class_id == p.prologue.class_id
      size     == p.prologue.header.packet_size_words
  IN CASE p.variant = "SignalData"        -> SignalDataWriteError(o, b, class_id)
       [] p.variant = "SignalContext"     -> SignalContextWriteError(b, class_id, size)
       [] p.variant = "VersionContext"    -> VersionContextWriteError(b, class_id, size)
       [] p.variant = "TimingFlowControl" -> TimingFlowControlWriteError(b, class_id, size)
       [] p.variant = "SinkCapabilitiesQuery" ->
            SinkCapabilitiesQueryWriteError(b, class_id, size)
       [] p.variant = "SinkCapabilitiesResponse" ->
            SinkCapabilitiesResponseWriteError(b, class_id, size)
       [] p.variant = "StatusReport"      -> StatusReportWriteError(b, class_id, size)

PrepareError(o, p) ==
  PlannedWordsError(p)
    ?? Expect(HasTsm(p) => Present(p.prologue.header.tsm), "MissingField")
    ?? PrologueWriteError(o, p)
    ?? BodyWriteError(o, p)

-----------------------------------------------------------------------------
(* What is stored, in order: a word index and the words from there on, or  *)
(* None where the body writer takes an optional field that is not there.   *)

Store(at, words)      == [at |-> at, words |-> Some(words)]
StoreU32(at, w)       == Store(at, <<w>>)
StoreOptU32(at, w)    == [at |-> at, words |-> IF Present(w) THEN Some(w) ELSE None]
StoreOptU64(at, pair) == [at |-> at, words |-> pair]
OptionalStore(at, pair) == IF Present(pair) THEN <<Store(at, pair[1])>> ELSE <<>>

PrologueStores(p) ==
  LET class_words == ClassIdWords(p.prologue.class_id)
  IN <<StoreU32(0, PlannedHeader(p).raw),
       StoreU32(1, p.prologue.stream_id),
       StoreU32(2, class_words[1]),
       StoreU32(3, class_words[2]),
       StoreU32(4, p.prologue.integer_seconds_timestamp),
       Store(5, p.prologue.fractional_seconds_timestamp)>>

CommonStores(c) ==
  <<StoreU32(7, c.cam), StoreU32(8, c.message_id), StoreU32(9, c.controllee_id),
    StoreU32(10, c.controller_id)>>

SignalContextStores(b) ==
  <<StoreU32(7, b.cif0), StoreU32(8, b.reference_point), Store(9, b.bandwidth),
    Store(11, b.if_reference_frequency), Store(13, b.rf_reference_frequency),
    Store(15, b.if_band_offset), StoreU32(17, <<b.scaling_level, b.reference_level>>),
    StoreU32(18, <<b.gain2, b.gain1>>), Store(19, b.sample_rate),
    Store(21, b.timestamp_adjustment), StoreU32(23, b.timestamp_calibration_time),
    StoreU32(24, b.state_and_event_indicators), StoreU32(25, b.payload_format.raw_word0),
    StoreU32(26, b.payload_format.raw_word1)>>

VersionContextStores(b) ==
  <<StoreU32(7, b.cif0), StoreU32(8, b.cif1), StoreU32(9, b.vita49_spec_version),
    StoreU32(10, <<512 * b.year + b.day,
                   1024 * b.revision + 64 * b.device_type + b.icd_version>>)>>

TimingFlowControlStores(b) ==
  CommonStores(b.common)
    \o <<StoreU32(11, b.cif0), StoreU32(12, b.cif1), StoreU32(13, b.reference_point),
         Store(14, b.sample_rate), Store(16, b.timestamp_adjustment),
         Store(18, b.buffer_size_bytes), StoreU32(20, b.buffer_status.raw)>>

SinkCapabilitiesQueryStores(b) ==
  CommonStores(b.common) \o <<StoreU32(11, b.cif0)>>
    \o IF b.form = "Long"
       THEN <<StoreOptU32(12, b.cif1)>>
       ELSE <<StoreOptU32(12, b.sink_time_calibration_integer),
              StoreOptU64(13, b.sink_time_calibration_fractional)>>

SinkCapabilitiesResponseStores(b) ==
  CommonStores(b.common) \o <<StoreU32(11, b.cif0)>>
    \o IF b.form = "Long"
       THEN <<StoreOptU32(12, b.cif1), Store(13, b.capability_table.words)>>
       ELSE <<StoreOptU32(12, b.control_packet_integer_timestamp),
              StoreOptU64(13, b.control_packet_fractional_timestamp),
              StoreOptU32(15, b.sink_reception_integer_timestamp),
              StoreOptU64(16, b.sink_reception_fractional_timestamp)>>

StatusReportStores(b) ==
  CommonStores(b.common)
    \o <<StoreU32(11, b.cif0), StoreU32(12, b.cif1), StoreU32(13, b.packet_errors),
         StoreU32(14, b.sink_errors_warnings)>>
    \o OptionalStore(15, b.reference_level_limit)
    \o OptionalStore(17, b.sample_rate_limit)
    \o OptionalStore(19, b.bandwidth_limit)

BodyStores(p) ==
  LET b == p.body
  IN CASE p.variant = "SignalData"               -> <<Store(7, b.payload.words)>>
       [] p.variant = "SignalContext"            -> SignalContextStores(b)
       [] p.variant = "VersionContext"           -> VersionContextStores(b)
       [] p.variant = "TimingFlowControl"        -> TimingFlowControlStores(b)
       [] p.variant = "SinkCapabilitiesQuery"    -> SinkCapabilitiesQueryStores(b)
       [] p.variant = "SinkCapabilitiesResponse" -> SinkCapabilitiesResponseStores(b)
       [] p.variant = "StatusReport"             -> StatusReportStores(b)

-----------------------------------------------------------------------------
(* write_packet_with_options.                                              *)

EndOf(store)        == store.at + Len(store.words[1])
IsMissing(store)    == store.words = None
Covers(store, j)    == j \in (store.at + 1)..EndOf(store)
Fits(store, words)  == EndOf(store) <= Len(words)

\* The first store that cannot be made ends the call; the ones before it stay.
Stopped(stores, words) == {i \in DOMAIN stores : IsMissing(stores[i]) \/ ~Fits(stores[i], words)}
Done(stores, words) ==
  {i \in DOMAIN stores : \A k \in Stopped(stores, words) : i < k}
StoresError(stores, words) ==
  LET stopped == Stopped(stores, words)
      first   == CHOOSE i \in stopped : \A k \in stopped : i <= k
  IN IF stopped = {} THEN Ok ELSE IF IsMissing(stores[first]) THEN "MissingField" ELSE Panic

\* The words after the stores that were made, a later one on top of an earlier one.
Stored(stores, words) ==
  LET done   == Done(stores, words)
      At(j)  == {i \in done : Covers(stores[i], j)}
      Top(j) == stores[CHOOSE i \in At(j) : \A k \in At(j) : k <= i]
  IN [j \in 1..Len(words) |->
        IF At(j) = {} THEN words[j] ELSE Top(j).words[1][j - Top(j).at]]

EncodedLen(p) == WORD_BYTES * PlannedWords(p)

\* Mutant: a slice one word short will do.
CapacityOneWordShort(p, out) ==
  Expect(ByteLen(out) + WORD_BYTES >= EncodedLen(p), "OutputTooSmall")
CapacityError(p, out) == Expect(ByteLen(out) >= EncodedLen(p), "OutputTooSmall")

\* What a call returns and what it leaves in the slice it was given.
WritePacket(p, out, o) ==
  LET refused == PrepareError(o, p) ?? CapacityError(p, out)
      stores  == PrologueStores(p) \o BodyStores(p)
      error   == refused ?? StoresError(stores, out.words)
  IN [error   |-> error,
      written |-> IF error = Ok THEN EncodedLen(p) ELSE 0,
      out     |-> IF refused = Ok THEN [out EXCEPT !.words = Stored(stores, @)] ELSE out]
=============================================================================

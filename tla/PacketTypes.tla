---------------------------- MODULE PacketTypes -----------------------------
(***************************************************************************)
(* The values a Packet can hold, whoever made it: the structs of packet.rs *)
(* and of the modules it takes its variants from.  All of their fields are *)
(* public, so that a caller of the writer can build any of these values.   *)
(* Fixed-point and signed fields are bit patterns, as in PacketParser.     *)
(***************************************************************************)
EXTENDS PacketParser

Byte      == 0..255
Word64    == Word \X Word
Option(S) == {option \in Seq(S) : Len(option) <= 1}
Bytes     == [words: Seq(Word), extra: 0..3]

PacketHeaderValue ==
  [raw: Word, packet_type: PacketType, class_id_indicator: BOOLEAN, type_specific_bits: Byte,
   tsm: Option({Fine, Coarse}), tsi: Tsi, tsf: Tsf, sequence: Byte, packet_size_words: Half]

ClassIdValue ==
  [pad_bit_count: Byte, oui: Word, information_class: InformationClassCode,
   packet_class: PacketClassCode]

PrologueValue ==
  [header: PacketHeaderValue, stream_id: Word, class_id: ClassIdValue,
   integer_seconds_timestamp: Word, fractional_seconds_timestamp: Word64]

-----------------------------------------------------------------------------
(* The fields of each variant, the prologue aside.                         *)

SignalDataValue == [payload: Bytes]

PayloadFormatValue ==
  [raw_word0: Word, raw_word1: Word, data_item_size_bits: Byte,
   item_packing_field_size_bits: Byte]

SignalContextValue ==
  [cif0: Word, context_changed: BOOLEAN, reference_point: Word, bandwidth: Word64,
   if_reference_frequency: Word64, rf_reference_frequency: Word64, if_band_offset: Word64,
   scaling_level: Half, reference_level: Half, gain2: Half, gain1: Half, sample_rate: Word64,
   timestamp_adjustment: Word64, timestamp_calibration_time: Word,
   state_and_event_indicators: Word, payload_format: PayloadFormatValue]

VersionContextValue ==
  [cif0: Word, context_changed: BOOLEAN, cif1: Word, vita49_spec_version: Word, year: Byte,
   day: Half, revision: Byte, device_type: Byte, icd_version: {Version1}]

CommonValue == [cam: Word, message_id: Word, controllee_id: Word, controller_id: Word]

BufferStatusValue ==
  [raw: Word, buffer_level: Half, overflow: BOOLEAN, nearly_full: BOOLEAN,
   nearly_empty: BOOLEAN, underflow: BOOLEAN]

TimingFlowControlValue ==
  [common: CommonValue, cif0: Word, cif1: Word, reference_point: Word, sample_rate: Word64,
   timestamp_adjustment: Word64, buffer_size_bytes: Word64, buffer_status: BufferStatusValue]

CapabilityForm == {"Long", "Short"}

SinkCapabilitiesQueryValue ==
  [common: CommonValue, form: CapabilityForm, cif0: Word, cif1: Option(Word),
   sink_time_calibration_integer: Option(Word), sink_time_calibration_fractional: Option(Word64)]

SinkCapabilitiesResponseValue ==
  [common: CommonValue, form: CapabilityForm, cif0: Word, cif1: Option(Word),
   control_packet_integer_timestamp: Option(Word),
   control_packet_fractional_timestamp: Option(Word64),
   sink_reception_integer_timestamp: Option(Word),
   sink_reception_fractional_timestamp: Option(Word64), capability_table: Bytes]

StatusReportValue ==
  [common: CommonValue, cif0: Word, cif1: Word, packet_errors: Word, sink_errors_warnings: Word,
   reference_level_limit: Option(Word64), sample_rate_limit: Option(Word64),
   bandwidth_limit: Option(Word64)]

PacketOfVariant(variant, bodies) ==
  [variant: {variant}, prologue: PrologueValue, body: bodies]

PacketValue ==
       PacketOfVariant("SignalData", SignalDataValue)
  \cup PacketOfVariant("SignalContext", SignalContextValue)
  \cup PacketOfVariant("VersionContext", VersionContextValue)
  \cup PacketOfVariant("TimingFlowControl", TimingFlowControlValue)
  \cup PacketOfVariant("SinkCapabilitiesQuery", SinkCapabilitiesQueryValue)
  \cup PacketOfVariant("SinkCapabilitiesResponse", SinkCapabilitiesResponseValue)
  \cup PacketOfVariant("StatusReport", StatusReportValue)
=============================================================================

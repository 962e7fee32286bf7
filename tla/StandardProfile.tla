-------------------------- MODULE StandardProfile --------------------------
(***************************************************************************)
(* What each DIFI standard version accepts (standard.rs): the packet types *)
(* and classes it knows, which pairs of them go together, the header bits, *)
(* timestamp fields, sizes and fixed words every packet class demands.     *)
(*                                                                         *)
(* The three tables of allows_packet_class are kept apart, as the code has *)
(* them, so that one of them drifting from the others would be seen.       *)
(***************************************************************************)
EXTENDS DifiWire

DifiStandardVersion == {"V1_1", "V1_2_1", "V1_3_0"}
CompatibilityMode   == {"Strict", "LegacyVersionPacketType"}
ParseOptions        == [standard: DifiStandardVersion, compatibility: CompatibilityMode]
DefaultOptions      == [standard |-> "V1_3_0", compatibility |-> "Strict"]

-----------------------------------------------------------------------------
(* Fixed words.                                                            *)

CIF_CONTEXT_CHANGED            == <<\hFBB9, \h8000>>
CIF_CONTEXT_UNCHANGED          == <<\h7BB9, \h8000>>
CIF_VERSION_CHANGED            == <<\h8000, 2>>
CIF_VERSION_UNCHANGED          == <<0, 2>>
CIF_VERSION_1                  == <<0, \hC>>
VITA49_SPEC_VERSION            == <<0, 4>>
CAM_CONTROL_EXECUTE            == <<\hA100, 0>>
CAM_EXTENSION_CONTROL_VALIDATE == <<\hA110, 0>>
CAM_EXTENSION_ACK_VALIDATE     == <<\hA110, \h0400>>
CAM_STATUS_REPORT_EXECUTE      == <<\hA108, 0>>
CIF_COMMAND_LONG               == <<\h7BB9, \h8002>>
CIF_COMMAND_SHORT              == <<\h8000, 0>>
CIF_CONTROL_FLOW_0             == <<\h4030, 2>>
CIF_CONTROL_FLOW_1             == <<0, 2>>

ExpectWord(expected, actual)     == Expect(actual = expected, "InvalidFieldValue")
ExpectWordOneOf(actual, allowed) == Expect(actual \in allowed, "InvalidFieldValueSet")
ExpectBits(expected, actual)     == Expect(actual = expected, "InvalidHeaderBits")

ExpectSignalContextCif0(actual) ==
  ExpectWordOneOf(actual, {CIF_CONTEXT_CHANGED, CIF_CONTEXT_UNCHANGED})
ExpectVersionContextCif0(actual) ==
  ExpectWordOneOf(actual, {CIF_VERSION_CHANGED, CIF_VERSION_UNCHANGED})

\* The one word that each expect_ method demands, of the parser and of the writer.
FixedWord ==
  [version_context_cif1                  |-> CIF_VERSION_1,
   vita49_spec_version                   |-> VITA49_SPEC_VERSION,
   timing_flow_control_cam               |-> CAM_CONTROL_EXECUTE,
   timing_flow_control_cif0              |-> CIF_CONTROL_FLOW_0,
   timing_flow_control_cif1              |-> CIF_CONTROL_FLOW_1,
   sink_capabilities_query_cam           |-> CAM_EXTENSION_CONTROL_VALIDATE,
   sink_capabilities_short_query_cif0    |-> CIF_COMMAND_SHORT,
   sink_capabilities_long_query_cif0     |-> CIF_COMMAND_LONG,
   sink_capabilities_long_query_cif1     |-> CIF_CONTROL_FLOW_1,
   sink_capabilities_response_cam        |-> CAM_EXTENSION_ACK_VALIDATE,
   sink_capabilities_short_response_cif0 |-> CIF_COMMAND_SHORT,
   sink_capabilities_long_response_cif0  |-> CIF_COMMAND_LONG,
   sink_capabilities_long_response_cif1  |-> CIF_CONTROL_FLOW_1,
   status_report_cam                     |-> CAM_STATUS_REPORT_EXECUTE,
   status_report_cif0                    |-> <<0, 0>>,
   status_report_cif1                    |-> <<0, 0>>]

ExpectFixed(field, actual) == ExpectWord(FixedWord[field], actual)

-----------------------------------------------------------------------------
(* Packet types and packet classes a standard knows.                       *)

LegacyVersionType(o) ==
  o.standard = "V1_2_1" /\ o.compatibility = "LegacyVersionPacketType"

PacketTypeAvailable(o, packet_type) ==
  CASE o.standard = "V1_1" ->
         packet_type \in {SignalDataWithStreamId, ContextWithStreamId, VersionWithStreamId}
    [] o.standard = "V1_2_1" ->
         \/ packet_type \in {SignalDataWithStreamId, ContextWithStreamId, CommandWithStreamId}
         \/ packet_type = VersionWithStreamId /\ LegacyVersionType(o)
    [] o.standard = "V1_3_0" ->
         packet_type \in {SignalDataWithStreamId, ContextWithStreamId, CommandWithStreamId,
                          ExtensionCommandWithStreamId}

PacketClassAvailable(o, packet_class) ==
  CASE o.standard = "V1_1" ->
         packet_class \in {StandardFlowSignalData, StandardFlowSignalContext,
                           VersionFlowSignalContext}
    [] o.standard = "V1_2_1" ->
         packet_class \in {StandardFlowSignalData, StandardFlowSignalContext,
                           SampleCountSignalData, SampleCountSignalContext,
                           VersionFlowSignalContext, SampleCountTimingFlowControl,
                           RealTimeTimingFlowControl}
    [] o.standard = "V1_3_0" -> TRUE

PacketTypeClass(o, packet_type, packet_class) ==
  \/ /\ packet_type = SignalDataWithStreamId
     /\ packet_class \in {StandardFlowSignalData, SampleCountSignalData}
  \/ /\ packet_type = ContextWithStreamId
     /\ \/ packet_class \in {StandardFlowSignalContext, SampleCountSignalContext}
        \/ packet_class = VersionFlowSignalContext /\ o.standard # "V1_1"
  \/ /\ packet_type = VersionWithStreamId
     /\ packet_class = VersionFlowSignalContext
     /\ o.standard = "V1_1" \/ LegacyVersionType(o)
  \/ /\ packet_type = CommandWithStreamId
     /\ packet_class \in {SampleCountTimingFlowControl, RealTimeTimingFlowControl}
  \/ /\ packet_type = ExtensionCommandWithStreamId
     /\ packet_class \in {SinkCapabilitiesQuery, SinkCapabilitiesResponse, StatusReport}

\* Mutant: the legacy packet type is let through before the standard is asked.
LegacyBeforeStandard(o, packet_type) ==
  Expect(\/ PacketTypeAvailable(o, packet_type)
         \/ packet_type = VersionWithStreamId /\ o.compatibility = "LegacyVersionPacketType",
         "PacketTypeNotAvailableInStandard")

ValidatePacketTypeAvailable(o, packet_type) ==
  Expect(PacketTypeAvailable(o, packet_type), "PacketTypeNotAvailableInStandard")
ValidatePacketClassAvailable(o, packet_class) ==
  Expect(PacketClassAvailable(o, packet_class), "PacketClassNotAvailableInStandard")
ValidatePacketTypeClass(o, packet_type, packet_class) ==
  Expect(PacketTypeClass(o, packet_type, packet_class), "PacketTypeClassMismatch")

-----------------------------------------------------------------------------
(* Header bits and timestamp fields.                                       *)

ValidateHeaderBits(header, packet_class) ==
  Expect(header.class_id_indicator, "MissingClassId")
    ?? CASE header.packet_type \in {SignalDataWithStreamId, CommandWithStreamId} ->
              ExpectBits(0, header.type_specific_bits)
         [] header.packet_type \in {ContextWithStreamId, VersionWithStreamId} ->
              Expect(header.type_specific_bits \div 2 = 0, "ReservedBitsNonZero")
         [] header.packet_type = ExtensionCommandWithStreamId ->
              CASE packet_class = SinkCapabilitiesResponse ->
                     ExpectBits(4, header.type_specific_bits)
                [] packet_class \in {SinkCapabilitiesQuery, StatusReport} ->
                     ExpectBits(0, header.type_specific_bits)
                [] OTHER -> Ok

RealTimeClasses ==
  {StandardFlowSignalData, StandardFlowSignalContext, VersionFlowSignalContext,
   RealTimeTimingFlowControl}
SampleCountClasses ==
  {SampleCountSignalData, SampleCountSignalContext, SampleCountTimingFlowControl}

\* The link establishment classes accept either fractional timestamp.
ValidateTsf(header, packet_class) ==
  Expect(/\ packet_class \in RealTimeClasses => header.tsf = RealTimePicoseconds
         /\ packet_class \in SampleCountClasses => header.tsf = SampleCount,
         "InvalidTsfForPacketClass")

BasicFlows == {BasicDataPlane, BasicDataPlaneWithLinkEstablishment}

ExpectedTsm(information_class, packet_class) ==
  IF \/ packet_class = VersionFlowSignalContext
     \/ packet_class = StandardFlowSignalContext /\ information_class \in BasicFlows
  THEN Coarse
  ELSE Fine

ValidateTsm(header, information_class, packet_class) ==
  IF \/ header.tsm = None
     \/ packet_class \notin {StandardFlowSignalContext, SampleCountSignalContext,
                             VersionFlowSignalContext}
  THEN Ok
  ELSE ExpectBits(ExpectedTsm(information_class, packet_class), header.tsm[1])

-----------------------------------------------------------------------------
(* Which packet classes an information class carries.                      *)

StandardFlow == {StandardFlowSignalData, StandardFlowSignalContext}
SampleFlow   == {SampleCountSignalData, SampleCountSignalContext}

\* Mutants: a class pasted from another flow, and an arm left out.
AllowedV1_1Pasted ==
  ({BasicDataPlane} \X (StandardFlow \cup {SampleCountSignalContext}))
    \cup {<<VersionFlow, VersionFlowSignalContext>>}
AllowedV1_1NoVersion == {BasicDataPlane} \X StandardFlow

AllowedV1_1 ==
       ({BasicDataPlane} \X StandardFlow)
  \cup {<<VersionFlow, VersionFlowSignalContext>>}

AllowedV1_2_1 ==
       ({BasicDataPlane} \X StandardFlow)
  \cup {<<VersionFlow, VersionFlowSignalContext>>}
  \cup ({DataPlaneUpstreamFlowControlSampleCount, DataPlaneDownstreamFlowControlSampleCount}
         \X (SampleFlow \cup {SampleCountTimingFlowControl}))
  \cup ({DataPlaneUpstreamFlowControlRealTime, DataPlaneDownstreamFlowControlRealTime}
         \X (StandardFlow \cup {RealTimeTimingFlowControl}))
  \cup ({BasicDataPlaneSampleCount} \X SampleFlow)

SinkCapabilities == {SinkCapabilitiesQuery, SinkCapabilitiesResponse}

AllowedV1_3_0 ==
       ({BasicDataPlane} \X StandardFlow)
  \cup {<<VersionFlow, VersionFlowSignalContext>>}
  \cup ({DataPlaneUpstreamFlowControlSampleCount, DataPlaneDownstreamFlowControlSampleCount}
         \X (SampleFlow \cup {SampleCountTimingFlowControl}))
  \cup ({DataPlaneUpstreamFlowControlRealTime, DataPlaneDownstreamFlowControlRealTime}
         \X (StandardFlow \cup {RealTimeTimingFlowControl}))
  \cup ({BasicDataPlaneSampleCount} \X SampleFlow)
  \cup ({BasicDataPlaneWithLinkEstablishment}
         \X (StandardFlow \cup SinkCapabilities \cup {StatusReport}))
  \cup ({StandaloneLinkEstablishment} \X SinkCapabilities)
  \cup ({DataPlaneUpstreamFlowControlSampleCountWithLinkEstablishment,
         DataPlaneDownstreamFlowControlSampleCountWithLinkEstablishment}
         \X (SampleFlow \cup SinkCapabilities \cup {SampleCountTimingFlowControl, StatusReport}))
  \cup ({DataPlaneUpstreamFlowControlRealTimeWithLinkEstablishment,
         DataPlaneDownstreamFlowControlRealTimeWithLinkEstablishment}
         \X (StandardFlow \cup SinkCapabilities \cup {RealTimeTimingFlowControl, StatusReport}))
  \cup ({BasicDataPlaneSampleCountWithLinkEstablishment}
         \X (SampleFlow \cup SinkCapabilities \cup {StatusReport}))

AllowsPacketClass(o, information_class, packet_class) ==
  <<information_class, packet_class>> \in
    CASE o.standard = "V1_1"   -> AllowedV1_1
      [] o.standard = "V1_2_1" -> AllowedV1_2_1
      [] o.standard = "V1_3_0" -> AllowedV1_3_0

ValidateClassMembership(o, information_class, packet_class) ==
  Expect(AllowsPacketClass(o, information_class, packet_class),
         "PacketClassNotInInformationClass")

\* Mutant: a version added later falls into the arm that forbids padding.
PaddingOnlyIn1_2_1(o, information_class, packet_class) ==
  /\ o.standard = "V1_2_1"
  /\ packet_class \in {StandardFlowSignalData, SampleCountSignalData}
  /\ ~(information_class \in BasicFlows /\ packet_class = StandardFlowSignalData)

PermitsDataPadding(o, information_class, packet_class) ==
  /\ o.standard # "V1_1"
  /\ packet_class \in {StandardFlowSignalData, SampleCountSignalData}
  /\ ~(information_class \in BasicFlows /\ packet_class = StandardFlowSignalData)

-----------------------------------------------------------------------------
(* Sizes in words: the fixed layouts, and the three of a status report.    *)

\* Mutant: the last word of the context layout is forgotten.
LayoutWordsOneShort ==
  [SignalContext                 |-> 26,
   VersionContext                |-> 11,
   TimingFlowControl             |-> 21,
   SinkCapabilitiesQueryLong     |-> 13,
   SinkCapabilitiesQueryShort    |-> 15,
   SinkCapabilitiesResponseShort |-> 18]

LayoutWords ==
  [SignalContext                 |-> 27,
   VersionContext                |-> 11,
   TimingFlowControl             |-> 21,
   SinkCapabilitiesQueryLong     |-> 13,
   SinkCapabilitiesQueryShort    |-> 15,
   SinkCapabilitiesResponseShort |-> 18]

ExpectPacketSize(layout, actual) == Expect(actual = LayoutWords[layout], "InvalidPacketSize")

STATUS_REPORT_SIZES_TOO_MANY == {15, 17, 19, 21}   \* mutant: one list changed, not the other
STATUS_REPORT_SIZES == {15, 17, 21}
ValidateStatusReportSize(actual) ==
  Expect(actual \in STATUS_REPORT_SIZES, "InvalidPacketSizeSet")

-----------------------------------------------------------------------------
(* Every prologue check of a profile, in the order both parse_single_packet *)
(* and prepare_packet make them.                                           *)

ValidatePrologue(o, header, class_id) ==
  ValidatePacketTypeAvailable(o, header.packet_type)
    ?? ValidatePacketClassAvailable(o, class_id.packet_class)
    ?? ValidatePacketTypeClass(o, header.packet_type, class_id.packet_class)
    ?? ValidateHeaderBits(header, class_id.packet_class)
    ?? ValidateClassMembership(o, class_id.information_class, class_id.packet_class)
    ?? ValidateTsf(header, class_id.packet_class)
    ?? ValidateTsm(header, class_id.information_class, class_id.packet_class)
=============================================================================

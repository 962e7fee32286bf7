----------------------------- MODULE MCCorpus ------------------------------
(***************************************************************************)
(* Packets for the model checker: the fixtures of tests/ in the notation   *)
(* of DifiWire, one per variant and form, and the ways to disturb them.    *)
(***************************************************************************)
EXTENDS StandardProfile, SequencesExt, FiniteSetsExt

\* tests/common/mod.rs header, class_id, fixed_hz.
FixtureHeader(packet_type, tsb, tsf, sequence, size) ==
  <<4096 * packet_type + 2048 + 256 * tsb + 64 + 16 * tsf + sequence, size>>
Cid(pad) == <<2048 * pad + \h6A, \h621E>>
Hz(mega) == <<<<0, mega>>, <<\h1000, 0>>>>

Prologue(packet_type, tsb, tsf, info, class, pad, size) ==
  <<FixtureHeader(packet_type, tsb, tsf, 3, size), <<\h0102, \h0304>>, Cid(pad), <<info, class>>,
    <<0, 123>>, <<0, 0>>, <<0, 456>>>>

-----------------------------------------------------------------------------
(* Bodies, words 7 onwards.                                                *)

ContextBody ==
  <<CIF_CONTEXT_CHANGED, <<0, 100>>>> \o Hz(19) \o Hz(0) \o Hz(2000) \o Hz(65535)
    \o <<<<\hFFF4, 5>>, <<0, 7>>>> \o Hz(38) \o <<<<\hFFFF, \hFFFF>>, <<\hFFFF, \hFB2E>>>>
    \o <<<<0, 99>>, <<\h000A, 0>>, <<\hA000, 15 * 64 + 15>>, <<0, 0>>>>
VersionBody ==
  <<CIF_VERSION_CHANGED, CIF_VERSION_1, VITA49_SPEC_VERSION, <<24 * 512 + 120, 3 * 1024>>>>
Commands(cam) == <<cam, <<0, 10>>, <<0, 11>>, <<0, 12>>>>
FlowBody ==
  Commands(CAM_CONTROL_EXECUTE) \o <<CIF_CONTROL_FLOW_0, CIF_CONTROL_FLOW_1, <<0, 100>>>>
    \o Hz(1) \o <<<<0, 0>>, <<0, 5>>, <<0, 0>>, <<0, 4096>>, <<0, 16 * 2048 + 5>>>>
QueryLongBody ==
  Commands(CAM_EXTENSION_CONTROL_VALIDATE) \o <<CIF_COMMAND_LONG, CIF_CONTROL_FLOW_1>>
QueryShortBody ==
  Commands(CAM_EXTENSION_CONTROL_VALIDATE)
    \o <<CIF_COMMAND_SHORT, <<0, 99>>, <<0, 0>>, <<0, 123>>>>
ResponseShortBody ==
  Commands(CAM_EXTENSION_ACK_VALIDATE)
    \o <<CIF_COMMAND_SHORT, <<0, 30>>, <<0, 0>>, <<0, 31>>, <<0, 40>>, <<0, 0>>, <<0, 41>>>>
ResponseLongBody ==
  Commands(CAM_EXTENSION_ACK_VALIDATE)
    \o <<CIF_COMMAND_LONG, CIF_CONTROL_FLOW_1, <<\hDEAD, \hBEEF>>>>
StatusBody(flags) ==
  Commands(CAM_STATUS_REPORT_EXECUTE) \o <<<<0, 0>>, <<0, 0>>, <<0, 1>>, <<\h8000, 8 * flags>>>>
Status15Body == StatusBody(0)
Status17Body == StatusBody(2) \o <<<<\hF000, \h1000>>, <<1, 0>>>>
Status21Body == StatusBody(3) \o <<<<\hF000, \h1000>>, <<1, 0>>>> \o Hz(40) \o Hz(36)

-----------------------------------------------------------------------------
(* Whole packets.                                                          *)

Packet(packet_type, tsb, tsf, info, class, pad, body) ==
  Prologue(packet_type, tsb, tsf, info, class, pad, 7 + Len(body)) \o body

DataPacket ==
  Packet(1, 0, RealTimePicoseconds, BasicDataPlane, StandardFlowSignalData, 0,
         <<<<\h0102, \h0304>>>>)
PaddedPacket(pad, payload) ==
  Packet(1, 0, SampleCount, BasicDataPlaneSampleCount, SampleCountSignalData, pad, payload)
ContextPacket ==
  Packet(4, 1, RealTimePicoseconds, BasicDataPlane, StandardFlowSignalContext, 0, ContextBody)
FineContextPacket ==
  Packet(4, 0, SampleCount, DataPlaneUpstreamFlowControlSampleCount, SampleCountSignalContext, 0,
         ContextBody)
VersionPacket(packet_type) ==
  Packet(packet_type, 1, RealTimePicoseconds, VersionFlow, VersionFlowSignalContext, 0,
         VersionBody)
FlowPacket ==
  Packet(6, 0, SampleCount, DataPlaneUpstreamFlowControlSampleCount,
         SampleCountTimingFlowControl, 0, FlowBody)
QueryLongPacket ==
  Packet(7, 0, SampleCount, StandaloneLinkEstablishment, SinkCapabilitiesQuery, 0, QueryLongBody)
QueryShortPacket ==
  Packet(7, 0, RealTimePicoseconds, StandaloneLinkEstablishment, SinkCapabilitiesQuery, 0,
         QueryShortBody)
ResponseShortPacket ==
  Packet(7, 4, RealTimePicoseconds, StandaloneLinkEstablishment, SinkCapabilitiesResponse, 0,
         ResponseShortBody)
ResponseLongPacket ==
  Packet(7, 4, SampleCount, BasicDataPlaneWithLinkEstablishment, SinkCapabilitiesResponse, 0,
         ResponseLongBody)
StatusPacket(body) ==
  Packet(7, 0, RealTimePicoseconds, BasicDataPlaneWithLinkEstablishment, StatusReport, 0, body)

Packets ==
  {DataPacket, PaddedPacket(17, <<<<\h0102, 0>>>>), ContextPacket, FineContextPacket,
   VersionPacket(4), VersionPacket(5), FlowPacket, QueryLongPacket, QueryShortPacket,
   ResponseShortPacket, ResponseLongPacket, StatusPacket(Status15Body),
   StatusPacket(Status17Body), StatusPacket(Status21Body)}

-----------------------------------------------------------------------------
(* Disturbances.                                                           *)

FlipHalf(h, b) == IF (h \div 2^b) % 2 = 1 THEN h - 2^b ELSE h + 2^b
FlipBit(words, i, b) ==
  [words EXCEPT ![i] = IF b < 16 THEN <<@[1], FlipHalf(@[2], b)>>
                                 ELSE <<FlipHalf(@[1], b - 16), @[2]>>]
Flips(words) == {FlipBit(words, i, b) : i \in 1..Len(words), b \in 0..31}
Cuts(words)  == {SubSeq(words, 1, n) : n \in 0..Len(words)}

\* A packet whose header claims each size there is, followed by stray words.
Resized(words) ==
  {[words EXCEPT ![1][2] = size] \o <<<<0, 0>>, <<0, 0>>>> : size \in 0..(Len(words) + 3)}
=============================================================================

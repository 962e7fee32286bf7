------------------------------ MODULE DifiWire ------------------------------
(***************************************************************************)
(* The wire syntax every part of the crate shares: 32-bit big-endian words *)
(* (raw.rs), the enumerations of the prologue (header.rs, information.rs), *)
(* the packet header word and the class identifier words (header.rs,       *)
(* class_id.rs) and the first-error-wins discipline of Rust's `?`.         *)
(*                                                                         *)
(* A word is a pair <<hi, lo>> of 16-bit halves, because TLC's integers    *)
(* are 32-bit signed.  A shift is a division and a mask a remainder.       *)
(***************************************************************************)
EXTENDS Integers, Sequences

Half == 0..65535
Word == Half \X Half

WORD_BYTES     == 4
PROLOGUE_WORDS == 7
PROLOGUE_BYTES == PROLOGUE_WORDS * WORD_BYTES

(***************************************************************************)
(* A byte slice as the parser sees it: whole words, then 0 to 3 bytes that *)
(* do not fill a word.  No parser reads those last bytes.                  *)
(***************************************************************************)
ByteLen(d) == WORD_BYTES * Len(d.words) + d.extra

\* Whether read_u32_be(input, i) stays inside the slice, and the word it returns.
HasWord(words, i) == i < Len(words)
ReadU32(words, i) == IF HasWord(words, i) THEN words[i + 1] ELSE <<0, 0>>
ReadU64(words, i) == <<ReadU32(words, i), ReadU32(words, i + 1)>>

\* Option<T>, as a sequence of at most one element.
None    == <<>>
Some(x) == <<x>>

(***************************************************************************)
(* Result<(), E>: "Ok" or the name of an error.  e ?? f is the `?` of the  *)
(* code: the first error wins.  Panic stands for every way the code can    *)
(* abort: an index or slice out of range, unreachable!(), expect().        *)
(***************************************************************************)
Ok     == "Ok"
Panic  == "Panic"
e ?? f == IF e = Ok THEN f ELSE e

Expect(holds, error) == IF holds THEN Ok ELSE error

-----------------------------------------------------------------------------
(* Enumerations: the discriminants are the codes on the wire.              *)

SignalDataWithStreamId       == 1
ContextWithStreamId          == 4
VersionWithStreamId          == 5
CommandWithStreamId          == 6
ExtensionCommandWithStreamId == 7
PacketType == {SignalDataWithStreamId, ContextWithStreamId, VersionWithStreamId,
               CommandWithStreamId, ExtensionCommandWithStreamId}

Tsi == {1, 2, 3}                                       \* Utc, Gps, Posix
SampleCount         == 1
RealTimePicoseconds == 2
Tsf == {SampleCount, RealTimePicoseconds}
Fine   == 0
Coarse == 1

BasicDataPlane                                                 == 0
VersionFlow                                                    == 1
DataPlaneUpstreamFlowControlSampleCount                        == 2
DataPlaneUpstreamFlowControlRealTime                           == 3
BasicDataPlaneSampleCount                                      == 4
DataPlaneDownstreamFlowControlSampleCount                      == 5
DataPlaneDownstreamFlowControlRealTime                         == 6
BasicDataPlaneWithLinkEstablishment                            == \h0100
StandaloneLinkEstablishment                                    == \h0101
DataPlaneUpstreamFlowControlSampleCountWithLinkEstablishment   == \h0102
DataPlaneUpstreamFlowControlRealTimeWithLinkEstablishment      == \h0103
BasicDataPlaneSampleCountWithLinkEstablishment                 == \h0104
DataPlaneDownstreamFlowControlSampleCountWithLinkEstablishment == \h0105
DataPlaneDownstreamFlowControlRealTimeWithLinkEstablishment    == \h0106
InformationClassCode == (0..6) \cup (\h0100..\h0106)

StandardFlowSignalData       == 0
StandardFlowSignalContext    == 1
SampleCountSignalData        == 2
SampleCountSignalContext     == 3
VersionFlowSignalContext     == 4
SampleCountTimingFlowControl == 5
RealTimeTimingFlowControl    == 6
SinkCapabilitiesQuery        == 7
SinkCapabilitiesResponse     == 8
StatusReport                 == 9
PacketClassCode == 0..9

DIFI_CID == <<\h6A, \h621E>>

-----------------------------------------------------------------------------
(* Word 0, from the most significant bit: type 4, class id indicator 1,    *)
(* type-specific 3, TSI 2, TSF 2, sequence 4, packet size in words 16.     *)

PacketSizeWords(w) == w[2]

\* PacketHeader::parse, its rejections in the order of the code.
HeaderError(w) ==
  Expect(w[1] \div 4096 \in PacketType, "UnsupportedPacketType")
    ?? Expect((w[1] \div 64) % 4 \in Tsi, "InvalidTsi")
    ?? Expect((w[1] \div 16) % 4 \in Tsf, "InvalidTsf")

\* The timestamp mode bit exists only in context and version packets.
TsmOf(packet_type, type_specific_bits) ==
  IF packet_type \in {ContextWithStreamId, VersionWithStreamId}
  THEN Some(IF type_specific_bits % 2 = 1 THEN Coarse ELSE Fine)
  ELSE None

HeaderOf(w) ==
  LET packet_type        == w[1] \div 4096
      type_specific_bits == (w[1] \div 256) % 8
  IN [raw                |-> w,
      packet_type        |-> packet_type,
      class_id_indicator |-> (w[1] \div 2048) % 2 = 1,
      type_specific_bits |-> type_specific_bits,
      tsm                |-> TsmOf(packet_type, type_specific_bits),
      tsi                |-> (w[1] \div 64) % 4,
      tsf                |-> (w[1] \div 16) % 4,
      sequence           |-> w[1] % 16,
      packet_size_words  |-> PacketSizeWords(w)]

\* writer.rs header_word: the same word packed from decoded fields.
HeaderWord(packet_type, type_specific_bits, tsi, tsf, sequence, size) ==
  <<4096 * packet_type + 2048 + 256 * type_specific_bits + 64 * tsi + 16 * tsf + sequence,
    size>>

-----------------------------------------------------------------------------
(* Words 2 and 3: pad bit count 5, reserved 3, OUI 24; information class   *)
(* 16, packet class 16.                                                    *)

ClassIdError(w0, w1) ==
  Expect((w0[1] \div 256) % 8 = 0, "ReservedBitsNonZero")
    ?? Expect(<<w0[1] % 256, w0[2]>> = DIFI_CID, "InvalidOui")
    ?? Expect(w1[1] \in InformationClassCode, "UnknownInformationClass")
    ?? Expect(w1[2] \in PacketClassCode, "UnknownPacketClass")

ClassIdOf(w0, w1) ==
  [pad_bit_count     |-> w0[1] \div 2048,
   oui               |-> <<w0[1] % 256, w0[2]>>,
   information_class |-> w1[1],
   packet_class      |-> w1[2]]

\* The two class identifier words write_prologue emits.
ClassIdWords(c) ==
  <<<<2048 * c.pad_bit_count + c.oui[1], c.oui[2]>>, <<c.information_class, c.packet_class>>>>
=============================================================================

------------------------------ MODULE MCWriter ------------------------------
(***************************************************************************)
(* The slices, datagrams and hand-built packets the writer is checked on.  *)
(***************************************************************************)
EXTENDS WriterCalls, MCCorpus

StrictAndLegacy ==
  {[standard |-> "V1_1", compatibility |-> "Strict"],
   [standard |-> "V1_2_1", compatibility |-> "Strict"],
   [standard |-> "V1_2_1", compatibility |-> "LegacyVersionPacketType"],
   DefaultOptions}
DefaultAndLegacy ==
  {[standard |-> "V1_2_1", compatibility |-> "LegacyVersionPacketType"], DefaultOptions}
OnlyDefault == {DefaultOptions}

\* Slices full of what an earlier use left in them.
StaleSlice(n, e) == [words |-> [i \in 1..n |-> <<\hFFFF, \hFFF0 + (i % 16)>>], extra |-> e]
OneBuffer     == {StaleSlice(28, 3)}
EveryLength   == {StaleSlice(n, e) : n \in 0..28, e \in {0, 3}}

Fixtures          == {PacketOf(w) : w \in Packets}
FixtureDatagrams  == {Slice(w) : w \in Packets}
FlippedDatagrams  == {Slice(w) : w \in UNION {Flips(p) : p \in Packets}}
NoPackets         == {}
NoDatagrams       == {}

-----------------------------------------------------------------------------
(* Hand-built packets: a fixture with other values in one or two fields.   *)

Resealed(p) == [p EXCEPT !.prologue.header = PlannedHeader(p)]

FixedHz    == {Hz(1), <<<<0, 0>>, <<0, 1>>>>, <<<<0, 0>>, <<8, 0>>>>}
OptionU32  == {None, Some(<<0, 2>>), Some(<<0, 7>>)}
OptionU64  == {None, Some(Hz(9)), Some(<<<<0, 7>>, <<0, 8>>>>)}
Cif0Values ==
  {CIF_CONTEXT_CHANGED, CIF_CONTEXT_UNCHANGED, CIF_VERSION_CHANGED, CIF_VERSION_UNCHANGED,
   CIF_COMMAND_LONG, CIF_COMMAND_SHORT, CIF_CONTROL_FLOW_0, <<0, 0>>}
CamValues  ==
  {CAM_CONTROL_EXECUTE, CAM_EXTENSION_CONTROL_VALIDATE, CAM_EXTENSION_ACK_VALIDATE,
   CAM_STATUS_REPORT_EXECUTE}
Slices     == {Slice(<<>>), Slice(<<<<0, 0>>>>), Slice(<<<<1, 1>>, <<0, \h8000>>>>),
               [words |-> <<<<1, 1>>>>, extra |-> 1]}
Formats    ==
  {[raw_word0 |-> <<\hA000, raw>>, raw_word1 |-> <<0, r>>,
    data_item_size_bits |-> d, item_packing_field_size_bits |-> k] :
     raw \in {195, 975}, r \in {0, 1}, d \in {3, 4, 16, 17}, k \in {4, 16}}
Statuses   ==
  {[raw |-> <<0, raw>>, buffer_level |-> level, overflow |-> o, nearly_full |-> FALSE,
    nearly_empty |-> n, underflow |-> TRUE] :
     raw \in {5, 11, 13, 65525}, level \in {0, 4095, 4096}, o \in BOOLEAN, n \in BOOLEAN}

Alternatives(p, f) ==
  LET optional == p.variant \in {"SinkCapabilitiesQuery", "SinkCapabilitiesResponse"}
  IN CASE f = "cif0"                     -> Cif0Values
       [] f = "cif1" /\ optional         -> OptionU32
       [] f = "cif1" /\ ~optional        -> {CIF_VERSION_1, CIF_CONTROL_FLOW_1, <<0, 0>>}
       [] f = "common"                   -> {[p.body.common EXCEPT !.cam = c] : c \in CamValues}
       [] f = "form"                     -> {"Long", "Short"}
       [] f = "context_changed"          -> BOOLEAN
       [] f = "vita49_spec_version"      -> {<<0, 4>>, <<0, 5>>}
       [] f = "year"                     -> {0, 127, 128}
       [] f = "day"                      -> {0, 511, 512}
       [] f = "revision"                 -> {0, 63, 64}
       [] f = "device_type"              -> {0, 1}
       [] f = "payload_format"           -> Formats
       [] f = "buffer_status"            -> Statuses
       [] f \in {"payload", "capability_table"} -> Slices
       [] f = "sink_errors_warnings"     -> {<<0, 8 * flags>> : flags \in 0..3}
       [] f \in {"sink_time_calibration_integer", "control_packet_integer_timestamp",
                 "sink_reception_integer_timestamp"} -> OptionU32
       [] f \in {"sink_time_calibration_fractional", "control_packet_fractional_timestamp",
                 "sink_reception_fractional_timestamp", "reference_level_limit",
                 "sample_rate_limit", "bandwidth_limit"} -> OptionU64
       [] f \in {"bandwidth", "sample_rate", "if_reference_frequency",
                 "rf_reference_frequency", "if_band_offset"} -> FixedHz
       [] OTHER                          -> {p.body[f]}

OtherBody(p) ==
  UNION {{[p EXCEPT !.body[f] = v] : v \in Alternatives(p, f)} : f \in DOMAIN p.body}
\* Forms and optional fields depend on each other: two of them at a time.
OtherBodies(p) ==
  IF p.variant \in {"SinkCapabilitiesQuery", "SinkCapabilitiesResponse", "StatusReport"}
  THEN UNION {OtherBody(q) : q \in OtherBody(p)}
  ELSE OtherBody(p)

OtherHeader(p) ==
  LET With(h) == [p EXCEPT !.prologue.header = h]
      header  == p.prologue.header
  IN {With([header EXCEPT !.sequence = s]) : s \in {15, 16, 255}}
       \cup {With([header EXCEPT !.packet_type = t]) : t \in PacketType}
       \cup {With([header EXCEPT !.type_specific_bits = b]) : b \in {0, 1, 2, 4, 8}}
       \cup {With([header EXCEPT !.class_id_indicator = b]) : b \in BOOLEAN}
       \cup {With([header EXCEPT !.packet_size_words = n]) : n \in {0, 11, 13, 15, 18}}
       \cup {With([header EXCEPT !.tsm = m]) : m \in {None, Some(Fine), Some(Coarse)}}
       \cup {With([header EXCEPT !.tsf = t]) : t \in Tsf}
       \cup {With([header EXCEPT !.raw = FlipBit(<<@>>, 1, b)[1]]) : b \in 0..31}

OtherClassId(p) ==
  LET With(c)  == [p EXCEPT !.prologue.class_id = c]
      class_id == p.prologue.class_id
  IN {With([class_id EXCEPT !.pad_bit_count = n]) : n \in {0, 1, 8, 15, 16, 31, 32, 255}}
       \cup {With([class_id EXCEPT !.oui = <<\h006A, \h621F>>])}
       \cup {With([class_id EXCEPT !.information_class = i, !.packet_class = c]) :
               i \in InformationClassCode, c \in PacketClassCode}

\* The variant and body of one fixture under the prologue of another.
Graft(p, q) ==
  Resealed([variant |-> p.variant, prologue |-> q.prologue, body |-> p.body])
Grafts == {Graft(p, q) : p \in Fixtures, q \in Fixtures}

ChangedPackets ==
  UNION {OtherBodies(p) \cup OtherClassId(p) \cup OtherHeader(p) : p \in Fixtures}
\* A payload that is all padding, and payloads at the limit of the size field.
AllPadding   == PacketOf(PaddedPacket(0, <<<<0, 0>>>>))
Limits ==
  {[AllPadding EXCEPT !.body.payload = Slice([i \in 1..n |-> <<0, 0>>])] : n \in {65528, 65529}}
\* The size its header can hold, as a caller that does not look computes it.
SixteenBits(p) ==
  LET words == CountedWords(p) % (MAX_PACKET_WORDS + 1)
      h     == p.prologue.header
  IN [p EXCEPT !.prologue.header.packet_size_words = words,
               !.prologue.header.raw =
                 HeaderWord(h.packet_type, 0, h.tsi, h.tsf, h.sequence, words)]

BuiltPackets ==
  {SixteenBits(p) : p \in Limits} \cup OtherClassId(AllPadding) \cup ChangedPackets
    \cup {Resealed(p) : p \in ChangedPackets} \cup Grafts

\* What a caller may get wrong between two good packets.
BrokenPackets ==
  {Resealed(q) : q \in
     UNION {OtherBody(p) : p \in {f \in Fixtures : f.variant = "SinkCapabilitiesQuery"}}}

-----------------------------------------------------------------------------
(* Samples: the ends of their range, and every spec with a few of them.    *)

Edge(bits) == {-(2^(bits - 1)), -1, 0, 1, 2^(bits - 1) - 1}
Sample(bits) == [i: Edge(bits), q: Edge(bits)]
SampleSequences(bits) ==
  {<<>>} \cup {<<s>> : s \in Sample(bits)} \cup {<<s, t>> : s \in Sample(bits), t \in Sample(bits)}
FewSequences(bits) ==
  {<<>>, <<[i |-> -1, q |-> 2]>>, <<[i |-> -1, q |-> 2], [i |-> 3, q |-> -4]>>,
   <<[i |-> 5, q |-> 6], [i |-> -1, q |-> 2], [i |-> 3, q |-> -4]>>}

IqSpec(info, class, tsf, sequence) ==
  [stream_id |-> <<\h0102, \h0304>>, information_class |-> info, packet_class |-> class,
   tsi |-> 1, tsf |-> tsf, sequence |-> sequence, integer_seconds_timestamp |-> <<0, 7>>,
   fractional_seconds_timestamp |-> <<<<0, 0>>, <<0, 42>>>>]
Specs ==
  {IqSpec(info, class, tsf, sequence) :
     info \in InformationClassCode, tsf \in Tsf, sequence \in {0, 15, 16},
     class \in {StandardFlowSignalData, SampleCountSignalData, StandardFlowSignalContext}}

Requests ==
  UNION {
    {[bits |-> bits, samples |-> samples,
      spec |-> IqSpec(BasicDataPlane, StandardFlowSignalData, RealTimePicoseconds, 9)] :
       samples \in SampleSequences(bits)}
    \cup {[bits |-> bits, samples |-> samples, spec |-> spec] :
             samples \in FewSequences(bits), spec \in Specs} : bits \in SampleBits}
  \cup {[bits |-> 16, samples |-> [i \in 1..n |-> [i |-> 0, q |-> 0]],
         spec |-> IqSpec(BasicDataPlane, StandardFlowSignalData, RealTimePicoseconds, sequence)] :
           n \in {65528, 65529}, sequence \in {15, 16}}
NoRequests == {}

SmallSlices == {StaleSlice(n, e) : n \in {6, 7, 8, 9, 12}, e \in {0, 3}}
=============================================================================

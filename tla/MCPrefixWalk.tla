--------------------------- MODULE MCPrefixWalk ----------------------------
(***************************************************************************)
(* The buffers a walk is checked on: single bits flipped, sizes rewritten, *)
(* packets cut short and packets in a row.                                 *)
(***************************************************************************)
EXTENDS PrefixWalk, MCCorpus

StrictAndLegacy ==
  {[standard |-> "V1_1", compatibility |-> "Strict"],
   [standard |-> "V1_2_1", compatibility |-> "Strict"],
   [standard |-> "V1_2_1", compatibility |-> "LegacyVersionPacketType"],
   DefaultOptions}

\* Every single-bit error of every fixture.
FlippedBuffers == {Slice(w) : w \in UNION {Flips(p) : p \in Packets}}

\* Two packets in a row, the second cut anywhere, then 0 to 3 stray bytes.
PairBuffers ==
  {[words |-> p \o c, extra |-> e] :
     p \in Packets, c \in UNION {Cuts(q) : q \in Packets}, e \in {0, 3}}

ResizedBuffers == {Slice(w) : w \in UNION {Resized(p) : p \in Packets}}

\* Every pad bit count over payloads of 0, 1 and 2 words with one bit set.
OneBit(b) == FlipBit(<<<<0, 0>>>>, 1, b)
PaddedBuffers ==
  {Slice(PaddedPacket(pad, payload)) :
     pad \in 0..MaxPadBits,
     payload \in {<<>>, <<<<0, 0>>>>, <<<<1, 1>>, <<0, 0>>>>}
                   \cup {OneBit(b) : b \in 0..31} \cup {<<<<1, 1>>>> \o OneBit(b) : b \in 0..31}}

\* Every prologue the enumerations can form, each with the body its class demands.
BodyFor(class) ==
  CASE class \in {StandardFlowSignalData, SampleCountSignalData}         -> <<<<1, 2>>>>
    [] class \in {StandardFlowSignalContext, SampleCountSignalContext}   -> ContextBody
    [] class = VersionFlowSignalContext                                  -> VersionBody
    [] class \in {SampleCountTimingFlowControl, RealTimeTimingFlowControl} -> FlowBody
    [] class = SinkCapabilitiesQuery                                     -> QueryLongBody
    [] class = SinkCapabilitiesResponse                                  -> ResponseLongBody
    [] class = StatusReport                                              -> Status15Body

PrologueBuffers ==
  {Slice(Packet(type, tsb, tsf, info, class, pad, BodyFor(class))) :
     type \in PacketType, tsb \in {0, 1, 4}, tsf \in Tsf, info \in InformationClassCode,
     class \in PacketClassCode, pad \in {0, 1}}

\* A few buffers of three packets, for the walk to end on.
ShortWalks ==
  {[words |-> p \o q \o p, extra |-> e] : p \in Packets, q \in {DataPacket, FlowPacket}, e \in {0, 2}}

WalkBuffers ==
  FlippedBuffers \cup PairBuffers \cup ResizedBuffers \cup PaddedBuffers \cup ShortWalks
=============================================================================

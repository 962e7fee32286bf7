---------------------------- MODULE WriterCalls -----------------------------
(***************************************************************************)
(* A caller of the writer (README.md, Writing): it owns one output slice   *)
(* and reuses it call after call, for packets it parsed from a datagram,   *)
(* for packets it built by hand and for IQ samples.                        *)
(***************************************************************************)
EXTENDS IqCodec, PacketTypes

CONSTANTS
  Buffers,    \* the slices a caller may own, with what they hold at first
  Datagrams,  \* the datagrams whose packets it writes back
  Built,      \* the packets it builds itself
  IqRequests, \* the samples it sends: [bits, spec, samples]
  Options,    \* the options of a call
  MaxCalls    \* bound: calls on one slice

ASSUME BuffersAssumption == Buffers \subseteq Bytes
ASSUME WriterDatagramsAssumption == Datagrams \subseteq Bytes
ASSUME BuiltAssumption == Built \subseteq PacketValue
ASSUME IqRequestsAssumption ==
  \A r \in IqRequests :
    /\ r.bits \in SampleBits /\ r.spec \in SpecValue
    /\ r.samples \in Seq(SampleValue(r.bits))
ASSUME WriterOptionsAssumption == Options \subseteq WriteOptions
ASSUME MaxCallsAssumption == MaxCalls \in Nat

VARIABLES
  out,      \* the caller's slice
  request,  \* what the last call asked for, its options included
  returned, \* what it returned
  calls     \* how many calls there were

wvars == <<out, request, returned, calls>>

WInit ==
  /\ out \in Buffers
  /\ request = [kind |-> "None"]
  /\ returned = [error |-> "NotCalled", written |-> 0]
  /\ calls = 0

\* One call of write_packet_with_options or of an IQ helper.
Call(result) ==
  /\ calls' = calls + 1
  /\ out' = result.out
  /\ returned' = [error |-> result.error, written |-> result.written]

WriteBuilt(p, o) ==
  /\ Call(WritePacket(p, out, o))
  /\ request' = [kind |-> "Built", packet |-> p, options |-> o]

\* parse_packet_exact, then write_packet with the same options.
WriteParsed(d, o) ==
  LET parsed == ParsePacketExact(d, o)
  IN /\ parsed.error = Ok
     /\ Call(WritePacket(parsed.packet, out, o))
     /\ request' = [kind |-> "Parsed", packet |-> parsed.packet, options |-> o, source |-> d]

WriteIq(r) ==
  /\ Call(WriteIqData(r.bits, r.spec, r.samples, out))
  /\ request' = [kind |-> "Iq", bits |-> r.bits, spec |-> r.spec, samples |-> r.samples,
                 options |-> DefaultOptions]

WNext ==
  /\ calls < MaxCalls
  /\ \/ \E p \in Built, o \in Options : WriteBuilt(p, o)
     \/ \E d \in Datagrams, o \in Options : WriteParsed(d, o)
     \/ \E r \in IqRequests : WriteIq(r)

WSpec == WInit /\ [][WNext]_wvars

-----------------------------------------------------------------------------

(* Every value a call can leave or return.  It returns an error of the     *)
(* enumeration (writer.rs 53-100) and never aborts, whatever the lengths   *)
(* of the slice and of the packet: the stores index without a check.       *)
WTypeOK ==
  /\ out \in Bytes
  /\ returned.error \in WriteErrors \cup {Ok, "NotCalled"}
  /\ returned.written \in 0..ByteLen(out)

\* The words of the slice that the last call says it wrote, and those after them.
WrittenWords == returned.written \div WORD_BYTES
Encoded(slice, n) == SubSeq(slice.words, 1, n)
Beyond(slice, n)  == SubSeq(slice.words, n + 1, Len(slice.words))

\* What the parser makes of the packet the last call wrote.
ReadBack == ParsePacketExact(Slice(Encoded(out, WrittenWords)), request.options)

(* A call changes nothing of the slice but the packet it reports: an error *)
(* leaves all of it alone, although three of the body writers run after    *)
(* the prologue is stored and can still fail (writer.rs 131-154, 917-1034, *)
(* README.md Writing), and success leaves what follows the packet alone.   *)
OnlyThePacketIsWritten ==
  [][/\ Len(out'.words) = Len(out.words) /\ out'.extra = out.extra
     /\ Beyond(out', WrittenWords') = Beyond(out, WrittenWords')]_wvars

\* Whether the variant of a packet is the one its packet class stands for.
VariantAgrees(p) == p.variant = VariantOf(p.prologue.class_id.packet_class)

(* A written packet reads back as the value that was written, field by     *)
(* field and whatever the slice held before, so no word of it is stale     *)
(* (writer.rs 126-154 against parser.rs, docs/adr/0001).  A value whose    *)
(* variant disagrees with its packet class is left to OutputIsParseable.   *)
ReadsBack ==
  (/\ request.kind \in {"Built", "Parsed"}
   /\ returned.error = Ok
   /\ VariantAgrees(request.packet))
  => ReadBack = [error |-> Ok, packet |-> request.packet]

(* Parsing and writing back is the identity: whatever the parser accepts   *)
(* under some options the writer accepts under the same ones, and it       *)
(* stores the bytes it came from (writer.rs 218-244, the copies of the     *)
(* parser's checks, against parser.rs and payload_format.rs).              *)
RewriteIsIdentity ==
  request.kind = "Parsed" =>
    \/ returned.error = Ok /\ Encoded(out, WrittenWords) = request.source.words
    \/ returned.error = "OutputTooSmall" /\ ByteLen(out) < ByteLen(request.source)

(* "produces packets that the parser can read back" (docs/adr/0001),       *)
(* "Output is canonical and parseable" (README.md): whatever the value was *)
(* that the writer accepted.                                               *)
OutputIsParseable == returned.error = Ok => ReadBack.error = Ok

(* Samples survive the trip: what an IQ helper writes parses under the     *)
(* default options, and the iterators yield every sample, sign and order   *)
(* included, and no other (writer.rs 156-216, samples.rs 22-82).           *)
SamplesSurvive ==
  request.kind = "Iq" /\ returned.error = Ok =>
    /\ ReadBack.error = Ok
    /\ ReadBack.packet.variant = "SignalData"
    /\ IqSamplesError(request.bits, ReadBack.packet.body.payload) = Ok
    /\ IqSamples(request.bits, ReadBack.packet.body.payload) = request.samples

(* The two ways of writing a signal data packet agree: an IQ helper fails  *)
(* as write_packet fails on the packet built by hand, with an odd number   *)
(* of 8-bit samples aside, and stores the same bytes (writer.rs 1043-1139  *)
(* repeats 218-427 and 846-871).  Only where both the number and the size  *)
(* are out of range do they report different errors, each the one it       *)
(* checks first (writer.rs 1074-1084 against 218-222).                     *)
HelperAgreesWithPacketWriter ==
  request.kind = "Iq" /\ returned.error # "OddComplexI8SampleCount" =>
    LET by_hand == WritePacket(IqPacket(request), out, DefaultOptions)
        both    == /\ request.spec.sequence > 15
                   /\ IqPacketWords(request.bits, request.samples) > MAX_PACKET_WORDS
    IN /\ IF both
          THEN returned.error = "FieldOutOfRange" /\ by_hand.error = "PacketTooLarge"
          ELSE by_hand.error = returned.error
       /\ by_hand.written = returned.written
       /\ by_hand.out = out
=============================================================================

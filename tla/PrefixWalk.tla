---------------------------- MODULE PrefixWalk -----------------------------
(***************************************************************************)
(* A caller that holds a buffer of concatenated packets and consumes it    *)
(* the way README.md describes: parse_packet_prefix on what is left, keep  *)
(* the packet, go on with the remainder it returned, stop at the first     *)
(* error.  The parser is PacketParser; the loop is the caller's.           *)
(***************************************************************************)
EXTENDS PacketParser

CONSTANTS
  Inputs,   \* the buffers a walk may start from: [words, extra]
  Options   \* the parse options a walk may use

ASSUME InputsAssumption  == \A d \in Inputs : d.words \in Seq(Word) /\ d.extra \in 0..3
ASSUME OptionsAssumption == Options \subseteq ParseOptions

VARIABLES
  input,      \* the whole buffer
  options,    \* the options of every call
  remaining,  \* the remainder of the last call
  packets,    \* the packets parsed so far
  cuts,       \* history: how many words of it each remainder left behind, 0 at first
  outcome     \* "Running", "Done", or the error that ended the walk

vars == <<input, options, remaining, packets, cuts, outcome>>

Init ==
  /\ input \in Inputs
  /\ options \in Options
  /\ remaining = input
  /\ packets = <<>>
  /\ cuts = <<0>>
  /\ outcome = "Running"

Running == outcome = "Running" /\ ByteLen(remaining) > 0

\* Bound: every packet takes a prologue at least.  No walk reaches it (Terminates).
MaxPackets == Len(input.words) \div PROLOGUE_WORDS

ParseNext ==
  /\ Running
  /\ Len(packets) < MaxPackets
  /\ LET result == ParsePacketPrefix(remaining, options)
     IN /\ result.error = Ok
        /\ packets' = Append(packets, result.packet)
        /\ cuts' = Append(cuts, Len(input.words) - Len(result.remainder.words))
        /\ remaining' = result.remainder
  /\ UNCHANGED <<input, options, outcome>>

Reject ==
  /\ Running
  /\ LET error == ParsePacketPrefix(remaining, options).error
     IN error # Ok /\ outcome' = error
  /\ UNCHANGED <<input, options, remaining, packets, cuts>>

Finish ==
  /\ outcome = "Running" /\ ByteLen(remaining) = 0
  /\ outcome' = "Done"
  /\ UNCHANGED <<input, options, remaining, packets, cuts>>

Next == ParseNext \/ Reject \/ Finish

Spec == Init /\ [][Next]_vars /\ WF_vars(Next)

-----------------------------------------------------------------------------
(* What a walk can hold, and what is asked of it.                          *)

\* Every value the walk can hold (parser.rs 32-64, error.rs).
TypeOK ==
  /\ options \in Options
  /\ remaining.words \in Seq(Word) /\ remaining.extra \in 0..3
  /\ Len(cuts) = Len(packets) + 1
  /\ \A i \in 1..Len(packets) : packets[i].prologue.header.packet_size_words \in Half
  /\ outcome \in {"Running", "Done", Panic} \cup ParseErrors

(* The packets of a walk tile the buffer: what they claim and what remains *)
(* is the input, and each was parsed from its own words alone, as the      *)
(* exact parser would have.  Guards parse_packet_prefix slicing            *)
(* packet_bytes before it parses (parser.rs 59-62), the capability table   *)
(* and payload slices included.                                            *)
FramesTile ==
  /\ remaining.words = SubSeq(input.words, cuts[Len(cuts)] + 1, Len(input.words))
  /\ remaining.extra = input.extra
  /\ \A i \in 1..Len(packets) :
       /\ cuts[i + 1] = cuts[i] + packets[i].prologue.header.packet_size_words
       /\ cuts[i + 1] <= Len(input.words)
       /\ ParsePacketExact(Slice(SubSeq(input.words, cuts[i] + 1, cuts[i + 1])), options)
            = [error |-> Ok, packet |-> packets[i]]

(* No call aborts: no slice leaves the buffer and the unreachable!() of    *)
(* parse_status_report (parser.rs 426) is unreachable, whatever the bytes. *)
NoPanic == outcome # Panic

(* A read that runs out of words after the framing was accepted happens    *)
(* only where the code reads command words before it checks the size: the  *)
(* two sink capabilities packets, shorter than 12 words (parser.rs         *)
(* 302-306, 350-354).  Everywhere else the declared size is checked        *)
(* against the layout first.                                               *)
ShortReadsAreCommandWords ==
  outcome = "InputTooShort" /\ FramingError(remaining) = Ok =>
    LET class_id == ClassIdOf(ReadU32(remaining.words, 2), ReadU32(remaining.words, 3))
    IN /\ class_id.packet_class \in SinkCapabilities
       /\ PacketSizeWords(ReadU32(remaining.words, 0)) < 12

(* A newer standard reads what an older one read, as the same packet:      *)
(* 1.1 inside 1.2.1 with the legacy version packet type, 1.2.1 strict      *)
(* inside 1.3.0.  Guards the three separate tables of standard.rs          *)
(* (449-609) against drift.                                                *)
NewerStandards(o) ==
  CASE o.standard = "V1_1" ->
         {[standard |-> "V1_2_1", compatibility |-> "LegacyVersionPacketType"]}
    [] o.standard = "V1_2_1" /\ o.compatibility = "Strict" ->
         {[standard |-> "V1_2_1", compatibility |-> "LegacyVersionPacketType"], DefaultOptions}
    [] OTHER -> {}

StandardsNest ==
  outcome = "Running" =>
    LET result == ParsePacketPrefix(remaining, options)
    IN result.error = Ok =>
         \A newer \in NewerStandards(options) : ParsePacketPrefix(remaining, newer) = result

(* The compatibility mode changes the verdict on one kind of packet only:  *)
(* a version context of packet type 5 under 1.2.1 (standard.rs 121-127,    *)
(* 463-464), and then from a rejection to an acceptance or a later error.  *)
CompatibilityIsNarrow ==
  outcome = "Running" =>
    LET In(mode) == ParsePacketPrefix(remaining, [options EXCEPT !.compatibility = mode])
    IN In("Strict") # In("LegacyVersionPacketType") =>
         /\ options.standard = "V1_2_1"
         /\ HeaderOf(ReadU32(remaining.words, 0)).packet_type = VersionWithStreamId
         /\ In("Strict").error = "PacketTypeNotAvailableInStandard"

(* The pad bits the byte arithmetic of validate_data_padding accepts are   *)
(* exactly the zero ones, and a packet other than signal data has none     *)
(* (parser.rs 131-138, 478-527).                                           *)
PadBitsAreZero ==
  \A i \in 1..Len(packets) :
    LET p == packets[i]  pad == p.prologue.class_id.pad_bit_count
    IN IF p.variant = "SignalData" THEN PaddingIsZero(p.body.payload.words, pad) ELSE pad = 0

ZeroPadBitsAccepted ==
  outcome = "NonZeroPaddingBits" =>
    ~PaddingIsZero(SubSeq(FrameOf(remaining), PROLOGUE_WORDS + 1, Len(FrameOf(remaining))),
                   ClassIdOf(ReadU32(remaining.words, 2), ReadU32(remaining.words, 3)).pad_bit_count)

(* One clock per information class: the fractional timestamp of a signal   *)
(* or flow control packet the profile accepts is the one it demands of     *)
(* every other packet class of that information class (standard.rs         *)
(* 205-234 against 498-609).                                               *)
OneClockPerInformationClass ==
  \A i \in 1..Len(packets) :
    LET prologue == packets[i].prologue
        info     == prologue.class_id.information_class
    IN prologue.class_id.packet_class \in RealTimeClasses \cup SampleCountClasses =>
         \A c \in PacketClassCode :
           AllowsPacketClass(options, info, c) => ValidateTsf(prologue.header, c) = Ok

(* The tables of a standard agree: a packet class is available iff some    *)
(* information class carries it, and a packet type is available iff some   *)
(* available class goes with it, so no entry is dead and none is refused   *)
(* by one table and offered by another (standard.rs 103-149, 449-609).     *)
ProfileTablesAgree ==
  /\ \A c \in PacketClassCode :
       PacketClassAvailable(options, c)
         <=> \E info \in InformationClassCode : AllowsPacketClass(options, info, c)
  /\ \A type \in PacketType :
       PacketTypeAvailable(options, type)
         <=> \E c \in PacketClassCode :
               PacketClassAvailable(options, c) /\ PacketTypeClass(options, type, c)

(* A walk ends: every accepted packet consumes at least a prologue         *)
(* (parser.rs 45-49, 60).                                                  *)
Terminates == <>(outcome # "Running")
=============================================================================

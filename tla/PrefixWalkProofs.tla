-------------------------- MODULE PrefixWalkProofs --------------------------
(***************************************************************************)
(* What a walk over concatenated packets promises, for every set of        *)
(* buffers of words and every set of options.  One inductive invariant     *)
(* carries all of it: the packets tile the buffer, and a walk that ended   *)
(* with an error ended with the one the parser returns on what remains.    *)
(***************************************************************************)
EXTENDS PrefixWalk, ParserProofs, SequenceTheorems

\* A slice of a tail of a sequence is a slice of the sequence.
LEMMA SubSeqOfTail ==
  ASSUME NEW S, NEW s \in Seq(S), NEW c \in 0..Len(s),
         NEW a \in Nat, a >= 1, NEW b \in 0..(Len(s) - c), a <= b + 1
  PROVE  SubSeq(SubSeq(s, c + 1, Len(s)), a, b) = SubSeq(s, c + a, c + b)
<1> DEFINE t == SubSeq(s, c + 1, Len(s))
           u == SubSeq(t, a, b)
           v == SubSeq(s, c + a, c + b)
<1>1. /\ t \in Seq(S) /\ Len(t) = Len(s) - c
      /\ \A i \in 1..(Len(s) - c) : t[i] = s[c + i]
  OBVIOUS
<1>2. /\ v \in Seq(S) /\ Len(v) = b - a + 1
      /\ \A i \in 1..(b - a + 1) : v[i] = s[c + a + i - 1]
  OBVIOUS
<1> HIDE DEF t
<1>3. /\ u \in Seq(S) /\ Len(u) = b - a + 1
      /\ \A i \in 1..(b - a + 1) : u[i] = t[a + i - 1]
  BY <1>1
<1> HIDE DEF u, v
<1>4. \A i \in 1..(b - a + 1) : u[i] = v[i]
  <2> TAKE i \in 1..(b - a + 1)
  <2>1. a + i - 1 \in 1..(Len(s) - c) /\ c + (a + i - 1) = c + a + i - 1
    OBVIOUS
  <2> QED
    BY <1>1, <1>2, <1>3, <2>1
<1>5. u = v
  BY <1>2, <1>3, <1>4, SeqEqual
<1> QED
  BY <1>5 DEF t, u, v

\* One call on a tail of the buffer: which words it takes, and which it leaves.
LEMMA PrefixOfTail ==
  ASSUME NEW whole \in Seq(Word), NEW cut \in 0..Len(whole), NEW o,
         NEW d, IsSlice(d), d.words = SubSeq(whole, cut + 1, Len(whole)),
         ParsePacketPrefix(d, o).error = Ok
  PROVE  LET result == ParsePacketPrefix(d, o)
             size   == result.packet.prologue.header.packet_size_words
         IN /\ size \in PROLOGUE_WORDS..(Len(whole) - cut)
            /\ IsSlice(result.remainder) /\ result.remainder.extra = d.extra
            /\ result.remainder.words = SubSeq(whole, cut + size + 1, Len(whole))
            /\ Len(result.remainder.words) = Len(whole) - cut - size
            /\ \E words \in Seq(Word) : result.packet = PacketOf(words)
            /\ ParsePacketExact(Slice(SubSeq(whole, cut + 1, cut + size)), o)
                 = [error |-> Ok, packet |-> result.packet]
<1> DEFINE result == ParsePacketPrefix(d, o)
           frame  == FrameOf(d)
           size   == PacketSizeWords(ReadU32(d.words, 0))
<1>1. /\ FramingError(d) = Ok
      /\ result.packet = PacketOf(frame) /\ result.remainder = RemainderOf(d)
  BY PrefixReturns, ThenOk
<1>2. Len(d.words) = Len(whole) - cut
  OBVIOUS
<1>3. /\ size \in PROLOGUE_WORDS..Len(d.words) /\ frame \in Seq(Word)
      /\ \A i \in 0..(PROLOGUE_WORDS - 1) : ReadU32(frame, i) = ReadU32(d.words, i)
  BY <1>1, FrameFacts
<1>4. result.packet.prologue.header.packet_size_words = size
  <2>1. ReadU32(frame, 0) = ReadU32(d.words, 0)
    BY <1>3 DEF PROLOGUE_WORDS
  <2>2. result.packet.prologue.header.packet_size_words = PacketSizeWords(ReadU32(frame, 0))
    BY <1>1 DEF PacketOf, PrologueOf, HeaderOf
  <2> QED
    BY <2>1, <2>2
<1>5. /\ IsSlice(result.remainder) /\ result.remainder.extra = d.extra
      /\ result.remainder.words = SubSeq(d.words, size + 1, Len(d.words))
      /\ Len(result.remainder.words) = Len(d.words) - size
  <2>1. /\ RemainderOf(d).words = SubSeq(d.words, size + 1, Len(d.words))
        /\ RemainderOf(d).extra = d.extra
    BY DEF RemainderOf
  <2>2. IsSlice(RemainderOf(d)) /\ Len(RemainderOf(d).words) = Len(d.words) - size
    BY <1>1, RemainderFacts
  <2> HIDE DEF size
  <2> QED
    BY <1>1, <2>1, <2>2
<1>6. frame = SubSeq(d.words, 1, size)
  BY DEF FrameOf
<1>7. ParsePacketExact(Slice(frame), o) = [error |-> Ok, packet |-> result.packet]
  BY ExactOfFrame
<1> HIDE DEF result, frame, size
<1>8. size \in Nat /\ size >= 7 /\ size <= Len(whole) - cut
  BY <1>2, <1>3 DEF PROLOGUE_WORDS
<1>9. frame = SubSeq(whole, cut + 1, cut + size)
  BY <1>6, <1>8, SubSeqOfTail
<1>10. result.remainder.words = SubSeq(whole, cut + size + 1, Len(whole))
  <2>1. SubSeq(SubSeq(whole, cut + 1, Len(whole)), size + 1, Len(whole) - cut)
          = SubSeq(whole, cut + (size + 1), cut + (Len(whole) - cut))
    BY <1>8, SubSeqOfTail
  <2>2. cut + (size + 1) = cut + size + 1 /\ cut + (Len(whole) - cut) = Len(whole)
    BY <1>8
  <2> QED
    BY <1>2, <1>5, <2>1, <2>2
<1>11. size \in PROLOGUE_WORDS..(Len(whole) - cut)
  BY <1>8 DEF PROLOGUE_WORDS
<1> QED
  BY <1>1, <1>2, <1>3, <1>4, <1>5, <1>7, <1>9, <1>10, <1>11 DEF result, frame

-----------------------------------------------------------------------------

\* An ended walk ended with Done, or with what the parser says of the remainder.
OutcomeIsTheVerdict ==
  \/ outcome \in {"Running", "Done"}
  \/ /\ outcome = ParsePacketPrefix(remaining, options).error
     /\ outcome # Ok

\* The invariant all of this module's theorems follow from.
WalkInv ==
  /\ input \in Inputs /\ options \in Options
  /\ IsSlice(remaining)
  /\ packets \in Seq({PacketOf(words) : words \in Seq(Word)})
  /\ cuts \in Seq(0..Len(input.words)) /\ Len(cuts) = Len(packets) + 1
  /\ FramesTile
  /\ OutcomeIsTheVerdict

LEMMA WalkInit == Init => WalkInv
<1> SUFFICES ASSUME Init
             PROVE  WalkInv
  OBVIOUS
<1>1. IsSlice(input) /\ IsSlice(remaining)
  BY InputsAssumption DEF Init, IsSlice
<1>2. Len(input.words) \in Nat
  BY <1>1 DEF IsSlice
<1>3. cuts \in Seq(0..Len(input.words)) /\ Len(cuts) = 1 /\ cuts[1] = 0
  BY <1>2 DEF Init
<1>4. packets \in Seq({PacketOf(words) : words \in Seq(Word)}) /\ Len(packets) = 0
  BY DEF Init
<1>5. SubSeq(input.words, 1, Len(input.words)) = input.words
  BY <1>1 DEF IsSlice
<1>6. FramesTile
  BY <1>3, <1>4, <1>5 DEF FramesTile, Init
<1> QED
  BY <1>1, <1>3, <1>4, <1>6 DEF WalkInv, OutcomeIsTheVerdict, Init

LEMMA ParseNextKeepsWalkInv ==
  ASSUME WalkInv, ParseNext
  PROVE  WalkInv'
<1> DEFINE result == ParsePacketPrefix(remaining, options)
           size   == result.packet.prologue.header.packet_size_words
           total  == Len(input.words)
           n      == Len(packets)
           cut    == cuts[n + 1]
<1>1. /\ result.error = Ok
      /\ packets' = Append(packets, result.packet)
      /\ cuts' = Append(cuts, total - Len(result.remainder.words))
      /\ remaining' = result.remainder
      /\ input' = input /\ options' = options /\ outcome' = outcome /\ outcome = "Running"
  BY DEF ParseNext, Running
<1>2. /\ IsSlice(remaining) /\ input.words \in Seq(Word) /\ total \in Nat /\ n \in Nat
      /\ cut \in 0..total /\ remaining.words = SubSeq(input.words, cut + 1, total)
      /\ remaining.extra = input.extra
  BY InputsAssumption DEF WalkInv, FramesTile
<1>3. /\ size \in PROLOGUE_WORDS..(total - cut)
      /\ IsSlice(result.remainder) /\ result.remainder.extra = remaining.extra
      /\ result.remainder.words = SubSeq(input.words, cut + size + 1, total)
      /\ Len(result.remainder.words) = total - cut - size
      /\ \E words \in Seq(Word) : result.packet = PacketOf(words)
      /\ ParsePacketExact(Slice(SubSeq(input.words, cut + 1, cut + size)), options)
           = [error |-> Ok, packet |-> result.packet]
  <2> HIDE DEF total, cut, n
  <2>1. total = Len(input.words)
    BY DEF total
  <2>2. result.error = Ok
    BY <1>1
  <2> QED
    BY <1>2, <2>1, <2>2, PrefixOfTail
<1> HIDE DEF result, size, cut
<1>4. cut + size \in 0..total /\ total - Len(result.remainder.words) = cut + size
  <2>1. total \in Int /\ cut \in Int /\ 0 <= cut /\ cut <= total
    BY <1>2
  <2> HIDE DEF total
  <2>2. size \in Int /\ 0 <= size /\ size <= total - cut
    BY <1>3, <2>1 DEF PROLOGUE_WORDS
  <2>3. total - (total - cut - size) = cut + size /\ cut + size \in 0..total
    BY <2>1, <2>2
  <2> QED
    BY <1>3, <2>3
<1>5. /\ packets' \in Seq({PacketOf(words) : words \in Seq(Word)})
      /\ Len(packets') = n + 1 /\ packets'[n + 1] = result.packet
      /\ \A i \in 1..n : packets'[i] = packets[i]
  BY <1>1, <1>3 DEF WalkInv
<1>6. /\ cuts' \in Seq(0..total) /\ Len(cuts') = n + 2
      /\ cuts'[n + 2] = cut + size /\ cuts'[n + 1] = cut
      /\ \A i \in 1..(n + 1) : cuts'[i] = cuts[i]
  <2>1. cuts \in Seq(0..total) /\ Len(cuts) = n + 1
    BY DEF WalkInv
  <2>2. cuts' = Append(cuts, cut + size)
    BY <1>1, <1>4
  <2> QED
    BY <1>2, <1>4, <2>1, <2>2 DEF cut
<1>7. FramesTile'
  <2>1. ASSUME NEW i \in 1..Len(packets')
        PROVE  /\ cuts'[i + 1] = cuts'[i] + packets'[i].prologue.header.packet_size_words
               /\ cuts'[i + 1] <= Len(input'.words)
               /\ ParsePacketExact(Slice(SubSeq(input'.words, cuts'[i] + 1, cuts'[i + 1])),
                                   options')
                    = [error |-> Ok, packet |-> packets'[i]]
    <3>1. CASE i = n + 1
      <4>1. i + 1 = n + 2
        BY <1>2, <3>1
      <4>2. cut + size <= total /\ packets'[i].prologue.header.packet_size_words = size
        BY <1>4, <1>5, <3>1 DEF size
      <4> QED
        BY <1>1, <1>3, <1>5, <1>6, <3>1, <4>1, <4>2
    <3>2. CASE i # n + 1
      <4>1. i \in 1..n /\ i \in 1..(n + 1) /\ i + 1 \in 1..(n + 1)
        BY <1>2, <1>5, <3>2
      <4>2. /\ cuts'[i] = cuts[i] /\ cuts'[i + 1] = cuts[i + 1] /\ packets'[i] = packets[i]
            /\ input' = input /\ options' = options
        BY <1>1, <1>5, <1>6, <4>1
      <4> QED
        BY <4>1, <4>2 DEF WalkInv, FramesTile
    <3> QED
      BY <3>1, <3>2
  <2>2. /\ remaining'.words = SubSeq(input'.words, cuts'[Len(cuts')] + 1, Len(input'.words))
        /\ remaining'.extra = input'.extra
    BY <1>1, <1>2, <1>3, <1>6
  <2> QED
    BY <2>1, <2>2 DEF FramesTile
<1>8. OutcomeIsTheVerdict'
  BY <1>1 DEF OutcomeIsTheVerdict
<1>9. Len(cuts') = Len(packets') + 1
  BY <1>2, <1>5, <1>6
<1> QED
  BY <1>1, <1>3, <1>5, <1>6, <1>7, <1>8, <1>9 DEF WalkInv

\* The two other steps end a walk and change nothing else.
LEMMA EndKeepsWalkInv ==
  ASSUME WalkInv, Reject \/ Finish
  PROVE  WalkInv'
<1>1. /\ input' = input /\ options' = options /\ remaining' = remaining
      /\ packets' = packets /\ cuts' = cuts
  BY DEF Reject, Finish
<1>2. OutcomeIsTheVerdict'
  BY <1>1 DEF Reject, Finish, OutcomeIsTheVerdict
<1> QED
  BY <1>1, <1>2 DEF WalkInv, FramesTile

LEMMA WalkInvariant == Spec => []WalkInv
<1>1. WalkInv /\ [Next]_vars => WalkInv'
  <2> SUFFICES ASSUME WalkInv, [Next]_vars
               PROVE  WalkInv'
    OBVIOUS
  <2>1. CASE UNCHANGED vars
    BY <2>1 DEF vars, WalkInv, FramesTile, OutcomeIsTheVerdict
  <2> QED
    BY <2>1, ParseNextKeepsWalkInv, EndKeepsWalkInv DEF Next
<1> QED
  BY WalkInit, <1>1, PTL DEF Spec

(* The packets of a walk tile the buffer, each as the exact parser would   *)
(* have parsed it from its own words, whatever bytes the buffer holds      *)
(* (parser.rs 32-64).                                                      *)
THEOREM WalkFramesTile == Spec => []FramesTile
<1>1. WalkInv => FramesTile
  BY DEF WalkInv
<1> QED
  BY WalkInvariant, <1>1, PTL

-----------------------------------------------------------------------------
(* What the verdicts of the parser mean for the walk.                      *)

\* A slice cut out by the framing is as long as its own header says.
LEMMA FrameIsWhole ==
  ASSUME NEW d, IsSlice(d), FramingError(d) = Ok
  PROVE  LET frame == FrameOf(d)
         IN /\ frame \in Seq(Word) /\ Len(frame) >= PROLOGUE_WORDS
            /\ PacketSizeWords(ReadU32(frame, 0)) = Len(frame) /\ Len(frame) \in Half
            /\ ReadU32(frame, 0) = ReadU32(d.words, 0)
            /\ ReadU32(frame, 2) = ReadU32(d.words, 2)
            /\ ReadU32(frame, 3) = ReadU32(d.words, 3)
<1> DEFINE size == PacketSizeWords(ReadU32(d.words, 0))
<1>1. /\ size \in PROLOGUE_WORDS..Len(d.words) /\ size \in Half
      /\ FrameOf(d) \in Seq(Word) /\ Len(FrameOf(d)) = size
      /\ \A i \in 0..(PROLOGUE_WORDS - 1) : ReadU32(FrameOf(d), i) = ReadU32(d.words, i)
  BY FrameFacts
<1>2. /\ ReadU32(FrameOf(d), 0) = ReadU32(d.words, 0)
      /\ ReadU32(FrameOf(d), 2) = ReadU32(d.words, 2)
      /\ ReadU32(FrameOf(d), 3) = ReadU32(d.words, 3)
  BY <1>1 DEF PROLOGUE_WORDS
<1>3. size >= PROLOGUE_WORDS
  <2>1. size \in PROLOGUE_WORDS..Len(d.words) /\ size \in Nat /\ Len(d.words) \in Nat
    BY <1>1, HalfIsNat DEF IsSlice
  <2> HIDE DEF size
  <2> QED
    BY <2>1 DEF PROLOGUE_WORDS
<1> QED
  BY <1>1, <1>2, <1>3

\* What the error of a call says of the words it was made on.
LEMMA RejectionMeans ==
  ASSUME NEW d, IsSlice(d), NEW o
  PROVE  LET error    == ParsePacketPrefix(d, o).error
             class_id == ClassIdOf(ReadU32(d.words, 2), ReadU32(d.words, 3))
         IN /\ error \in {Ok} \cup ParseErrors
            /\ error = "InputTooShort" /\ FramingError(d) = Ok =>
                 /\ class_id.packet_class \in SinkCapabilities
                 /\ PacketSizeWords(ReadU32(d.words, 0)) < 12
            /\ error = "NonZeroPaddingBits" =>
                 ~PaddingIsZero(SubSeq(FrameOf(d), PROLOGUE_WORDS + 1, Len(FrameOf(d))),
                                class_id.pad_bit_count)
<1> DEFINE error    == ParsePacketPrefix(d, o).error
           class_id == ClassIdOf(ReadU32(d.words, 2), ReadU32(d.words, 3))
           frame    == FrameOf(d)
<1>1. error = (FramingError(d) ?? PacketError(o, frame))
  BY PrefixReturns
<1>2. CASE FramingError(d) = Ok
  <2>1. error = PacketError(o, frame)
    BY <1>1, <1>2 DEF ??
  <2>2. /\ frame \in Seq(Word) /\ Len(frame) >= PROLOGUE_WORDS
        /\ PacketSizeWords(ReadU32(frame, 0)) = Len(frame)
        /\ ReadU32(frame, 0) = ReadU32(d.words, 0)
        /\ class_id = ClassIdOf(ReadU32(frame, 2), ReadU32(frame, 3))
    BY <1>2, FrameIsWhole
  <2> HIDE DEF error, class_id, frame
  <2>3. BodyMeans(error, frame, class_id)
    BY <2>1, <2>2, PacketVerdict
  <2> QED
    BY <2>2, <2>3 DEF BodyMeans, PayloadOf, error, class_id, frame
<1>3. CASE FramingError(d) # Ok
  <2>1. error \in {"InputTooShort", "PacketSizeTooSmall", "PacketTruncated"}
    BY <1>1, <1>3, FramingVerdict DEF ??
  <2> HIDE DEF error
  <2>2. error \in {Ok} \cup ParseErrors /\ error # "NonZeroPaddingBits"
    BY <2>1 DEF ParseErrors
  <2> QED
    BY <1>3, <2>2 DEF error
<1> QED
  BY <1>2, <1>3

\* What a packet the exact parser accepted is, and what it passed.
LEMMA AcceptanceMeans ==
  ASSUME NEW d, IsSlice(d), NEW o, NEW p,
         ParsePacketExact(d, o) = [error |-> Ok, packet |-> p]
  PROVE  /\ p.prologue.header.packet_size_words \in Half
         /\ IF p.variant = "SignalData"
            THEN PaddingIsZero(p.body.payload.words, p.prologue.class_id.pad_bit_count)
            ELSE p.prologue.class_id.pad_bit_count = 0
         /\ ValidatePrologue(o, p.prologue.header, p.prologue.class_id) = Ok
<1> DEFINE frame    == FrameOf(d)
           header   == HeaderOf(ReadU32(frame, 0))
           class_id == ClassIdOf(ReadU32(frame, 2), ReadU32(frame, 3))
<1>1. p = PacketOf(frame) /\ FramingError(d) = Ok /\ PacketError(o, frame) = Ok
  BY ExactReturnsTheFrame
<1>2. /\ frame \in Seq(Word) /\ Len(frame) >= PROLOGUE_WORDS
      /\ PacketSizeWords(ReadU32(frame, 0)) = Len(frame) /\ Len(frame) \in Half
  BY <1>1, FrameIsWhole
<1>3. /\ p.prologue.header = header /\ p.prologue.class_id = class_id
      /\ p.variant = VariantOf(class_id.packet_class)
      /\ p.body = BodyOf(p.variant, frame)
  BY <1>1 DEF PacketOf, PrologueOf
<1> HIDE DEF frame
<1>4. p.prologue.header.packet_size_words \in Half
  BY <1>2, <1>3 DEF HeaderOf
<1>5. ValidatePrologue(o, header, class_id) = Ok
  BY <1>1, ThenOk DEF PacketError
<1>6. BodyMeans(Ok, frame, class_id)
  BY <1>1, <1>2, PacketVerdict
<1>7. p.variant = "SignalData" => p.body.payload.words = PayloadOf(frame)
  <2>1. BodyOf("SignalData", frame) = SignalDataBody(frame)
    BY DEF BodyOf
  <2>2. SignalDataBody(frame).payload.words = PayloadOf(frame)
    BY DEF SignalDataBody, Slice, PayloadOf
  <2> QED
    BY <1>3, <2>1, <2>2
<1> HIDE DEF header, class_id
<1> QED
  BY <1>3, <1>4, <1>5, <1>6, <1>7 DEF BodyMeans

\* The packets of a walk are what the exact parser accepts, one by one.
LEMMA PacketsWereAccepted ==
  ASSUME WalkInv, NEW i \in 1..Len(packets)
  PROVE  \E d : /\ IsSlice(d)
                /\ ParsePacketExact(d, options) = [error |-> Ok, packet |-> packets[i]]
<1> DEFINE words == SubSeq(input.words, cuts[i] + 1, cuts[i + 1])
<1>1. input.words \in Seq(Word) /\ Len(input.words) \in Nat
  BY InputsAssumption DEF WalkInv
<1>2. /\ cuts[i] \in 0..Len(input.words) /\ cuts[i + 1] \in 0..Len(input.words)
  <2>1. i \in 1..Len(cuts) /\ i + 1 \in 1..Len(cuts)
    BY DEF WalkInv
  <2> QED
    BY <2>1, SMTT(20) DEF WalkInv
<1>3. words \in Seq(Word)
  BY <1>1, <1>2
<1>4. IsSlice(Slice(words))
  BY <1>3 DEF IsSlice, Slice
<1>5. ParsePacketExact(Slice(words), options) = [error |-> Ok, packet |-> packets[i]]
  BY DEF WalkInv, FramesTile
<1> QED
  BY <1>4, <1>5

LEMMA WalkVerdicts ==
  WalkInv => /\ TypeOK /\ NoPanic /\ ShortReadsAreCommandWords
             /\ PadBitsAreZero /\ ZeroPadBitsAccepted
<1> SUFFICES ASSUME WalkInv
             PROVE  /\ TypeOK /\ NoPanic /\ ShortReadsAreCommandWords
                    /\ PadBitsAreZero /\ ZeroPadBitsAccepted
  OBVIOUS
<1>1. IsSlice(remaining) /\ OutcomeIsTheVerdict
  BY DEF WalkInv
<1>2. Panic \notin ParseErrors
  BY DEF ParseErrors, Panic
<1>3. outcome \in {"Running", "Done"} \cup ParseErrors
  <2>1. ParsePacketPrefix(remaining, options).error \in {Ok} \cup ParseErrors
    BY <1>1, RejectionMeans
  <2> QED
    BY <1>1, <2>1 DEF OutcomeIsTheVerdict
<1>4. NoPanic
  BY <1>2, <1>3 DEF NoPanic, Panic
<1>5. ASSUME outcome \notin {"Running", "Done"}
      PROVE  outcome = ParsePacketPrefix(remaining, options).error
  BY <1>1, <1>5 DEF OutcomeIsTheVerdict
<1>6. ShortReadsAreCommandWords
  BY <1>1, <1>5, RejectionMeans DEF ShortReadsAreCommandWords
<1>7. ZeroPadBitsAccepted
  BY <1>1, <1>5, RejectionMeans DEF ZeroPadBitsAccepted
<1>8. PadBitsAreZero
  BY PacketsWereAccepted, AcceptanceMeans DEF PadBitsAreZero
<1>9. \A i \in 1..Len(packets) : packets[i].prologue.header.packet_size_words \in Half
  BY PacketsWereAccepted, AcceptanceMeans
<1>10. TypeOK
  BY <1>1, <1>3, <1>9 DEF TypeOK, WalkInv, IsSlice
<1> QED
  BY <1>4, <1>6, <1>7, <1>8, <1>10

(* Every value of a walk is one a buffer, a packet or an error of the      *)
(* parser has (parser.rs 32-64).                                           *)
THEOREM WalkTypeCorrect == Spec => []TypeOK
<1>1. WalkInv => TypeOK
  BY WalkVerdicts
<1> QED
  BY WalkInvariant, <1>1, PTL

(* No bytes whatever make a call abort: every slice the parser takes stays *)
(* inside its packet and no unreachable!() is reached (parser.rs 298-433,  *)
(* 478-527).                                                               *)
THEOREM WalkNeverPanics == Spec => []NoPanic
<1>1. WalkInv => NoPanic
  BY WalkVerdicts
<1> QED
  BY WalkInvariant, <1>1, PTL

(* A read that runs out of words inside an accepted frame is one of the    *)
(* command words of a sink capabilities packet (parser.rs 302-306,         *)
(* 350-354).                                                               *)
THEOREM OnlyCommandWordsRunShort == Spec => []ShortReadsAreCommandWords
<1>1. WalkInv => ShortReadsAreCommandWords
  BY WalkVerdicts
<1> QED
  BY WalkInvariant, <1>1, PTL

(* The pad bits of an accepted packet are zero, whatever its payload and   *)
(* its count (parser.rs 131-138, 478-527).                                 *)
THEOREM AcceptedPadBitsAreZero == Spec => []PadBitsAreZero
<1>1. WalkInv => PadBitsAreZero
  BY WalkVerdicts
<1> QED
  BY WalkInvariant, <1>1, PTL

(* The byte masks of validate_data_padding reject nothing but pad bits     *)
(* that are set (parser.rs 478-527).                                       *)
THEOREM OnlySetPadBitsAreRejected == Spec => []ZeroPadBitsAccepted
<1>1. WalkInv => ZeroPadBitsAccepted
  BY WalkVerdicts
<1> QED
  BY WalkInvariant, <1>1, PTL

-----------------------------------------------------------------------------
(* The tables of the profile: facts about finitely many codes, and what    *)
(* they make of a packet.                                                  *)

\* An information class the tables offer carries classes the standard knows.
LEMMA CarriedIsAvailable ==
  ASSUME NEW o \in ParseOptions, NEW info, NEW c \in PacketClassCode,
         AllowsPacketClass(o, info, c)
  PROVE  PacketClassAvailable(o, c)
<1> USE DEF AllowsPacketClass, PacketClassAvailable, StandardFlow, SampleFlow,
       StandardFlowSignalData, StandardFlowSignalContext, SampleCountSignalData,
       SampleCountSignalContext, VersionFlowSignalContext, SampleCountTimingFlowControl,
       RealTimeTimingFlowControl
<1>1. CASE o.standard = "V1_1"
  BY <1>1 DEF AllowedV1_1
<1>2. CASE o.standard = "V1_2_1"
  BY <1>2 DEF AllowedV1_2_1
<1>3. CASE o.standard = "V1_3_0"
  BY <1>3
<1> QED
  BY <1>1, <1>2, <1>3 DEF ParseOptions, DifiStandardVersion

\* An information class every standard that knows the class offers it in.
HomeOf(c) ==
  CASE c \in {StandardFlowSignalData, StandardFlowSignalContext} -> BasicDataPlane
    [] c = VersionFlowSignalContext -> VersionFlow
    [] c = RealTimeTimingFlowControl -> DataPlaneUpstreamFlowControlRealTime
    [] c \in {SampleCountSignalData, SampleCountSignalContext, SampleCountTimingFlowControl} ->
         DataPlaneUpstreamFlowControlSampleCount
    [] c \in {SinkCapabilitiesQuery, SinkCapabilitiesResponse, StatusReport} ->
         BasicDataPlaneWithLinkEstablishment

LEMMA AvailableIsCarried ==
  ASSUME NEW o \in ParseOptions, NEW c \in PacketClassCode, PacketClassAvailable(o, c)
  PROVE  HomeOf(c) \in InformationClassCode /\ AllowsPacketClass(o, HomeOf(c), c)
<1> USE DEF AllowsPacketClass, PacketClassAvailable, StandardFlow, SampleFlow, HomeOf,
       StandardFlowSignalData, StandardFlowSignalContext, SampleCountSignalData,
       SampleCountSignalContext, VersionFlowSignalContext, SampleCountTimingFlowControl,
       RealTimeTimingFlowControl, SinkCapabilitiesQuery, SinkCapabilitiesResponse, StatusReport,
       BasicDataPlane, VersionFlow, DataPlaneUpstreamFlowControlRealTime,
       DataPlaneUpstreamFlowControlSampleCount, BasicDataPlaneWithLinkEstablishment
<1>1. CASE o.standard = "V1_1"
  BY <1>1 DEF AllowedV1_1, InformationClassCode
<1>2. CASE o.standard = "V1_2_1"
  BY <1>2 DEF AllowedV1_2_1, InformationClassCode
<1>3. CASE o.standard = "V1_3_0"
  BY <1>3 DEF AllowedV1_3_0, InformationClassCode, SinkCapabilities, PacketClassCode
<1> QED
  BY <1>1, <1>2, <1>3 DEF ParseOptions, DifiStandardVersion

\* A packet class every standard that knows the packet type pairs it with.
ClassFor(type) ==
  CASE type = SignalDataWithStreamId       -> StandardFlowSignalData
    [] type = ContextWithStreamId          -> StandardFlowSignalContext
    [] type = VersionWithStreamId          -> VersionFlowSignalContext
    [] type = CommandWithStreamId          -> SampleCountTimingFlowControl
    [] type = ExtensionCommandWithStreamId -> StatusReport

LEMMA TypesHaveClasses ==
  ASSUME NEW o \in ParseOptions, NEW type \in PacketType
  PROVE  PacketTypeAvailable(o, type)
           <=> \E c \in PacketClassCode :
                 PacketClassAvailable(o, c) /\ PacketTypeClass(o, type, c)
<1> USE DEF PacketTypeAvailable, PacketClassAvailable, PacketTypeClass, LegacyVersionType,
       StandardFlowSignalData, StandardFlowSignalContext, SampleCountSignalData,
       SampleCountSignalContext, VersionFlowSignalContext, SampleCountTimingFlowControl,
       RealTimeTimingFlowControl, SinkCapabilitiesQuery, SinkCapabilitiesResponse, StatusReport,
       SignalDataWithStreamId, ContextWithStreamId, VersionWithStreamId, CommandWithStreamId,
       ExtensionCommandWithStreamId, PacketType
<1>1. o.standard \in {"V1_1", "V1_2_1", "V1_3_0"}
  BY DEF ParseOptions, DifiStandardVersion
<1>2. ASSUME PacketTypeAvailable(o, type)
      PROVE  /\ ClassFor(type) \in PacketClassCode
             /\ PacketClassAvailable(o, ClassFor(type)) /\ PacketTypeClass(o, type, ClassFor(type))
  <2> USE DEF ClassFor, PacketClassCode
  <2>1. CASE o.standard = "V1_1"
    BY <1>2, <2>1
  <2>2. CASE o.standard = "V1_2_1"
    BY <1>2, <2>2
  <2>3. CASE o.standard = "V1_3_0"
    BY <1>2, <2>3
  <2> QED
    BY <1>1, <2>1, <2>2, <2>3
<1>3. ASSUME NEW c \in PacketClassCode, PacketClassAvailable(o, c), PacketTypeClass(o, type, c)
      PROVE  PacketTypeAvailable(o, type)
  <2>1. CASE o.standard = "V1_1"
    BY <1>3, <2>1
  <2>2. CASE o.standard = "V1_2_1"
    BY <1>3, <2>2
  <2>3. CASE o.standard = "V1_3_0"
    BY <1>3, <2>3
  <2> QED
    BY <1>1, <2>1, <2>2, <2>3
<1> QED
  BY <1>2, <1>3

(* The tables of every standard agree with each other (standard.rs         *)
(* 103-149, 449-609).                                                      *)
THEOREM TablesAgree == Spec => []ProfileTablesAgree
<1>1. WalkInv => ProfileTablesAgree
  <2> SUFFICES ASSUME WalkInv
               PROVE  ProfileTablesAgree
    OBVIOUS
  <2>1. options \in ParseOptions
    BY OptionsAssumption DEF WalkInv
  <2> QED
    BY <2>1, CarriedIsAvailable, AvailableIsCarried, TypesHaveClasses DEF ProfileTablesAgree
<1> QED
  BY WalkInvariant, <1>1, PTL

\* No information class carries classes of both clocks.
LEMMA OneClock ==
  ASSUME NEW o \in ParseOptions, NEW info, NEW a \in RealTimeClasses, NEW b \in SampleCountClasses,
         AllowsPacketClass(o, info, a)
  PROVE  ~AllowsPacketClass(o, info, b)
<1> USE DEF AllowsPacketClass, RealTimeClasses, SampleCountClasses, StandardFlow, SampleFlow,
       SinkCapabilities,
       StandardFlowSignalData, StandardFlowSignalContext, SampleCountSignalData,
       SampleCountSignalContext, VersionFlowSignalContext, SampleCountTimingFlowControl,
       RealTimeTimingFlowControl, SinkCapabilitiesQuery, SinkCapabilitiesResponse, StatusReport,
       BasicDataPlane, VersionFlow, DataPlaneUpstreamFlowControlSampleCount,
       DataPlaneUpstreamFlowControlRealTime, BasicDataPlaneSampleCount,
       DataPlaneDownstreamFlowControlSampleCount, DataPlaneDownstreamFlowControlRealTime,
       BasicDataPlaneWithLinkEstablishment, StandaloneLinkEstablishment,
       DataPlaneUpstreamFlowControlSampleCountWithLinkEstablishment,
       DataPlaneUpstreamFlowControlRealTimeWithLinkEstablishment,
       BasicDataPlaneSampleCountWithLinkEstablishment,
       DataPlaneDownstreamFlowControlSampleCountWithLinkEstablishment,
       DataPlaneDownstreamFlowControlRealTimeWithLinkEstablishment
<1>1. CASE o.standard = "V1_1"
  BY <1>1 DEF AllowedV1_1
<1>2. CASE o.standard = "V1_2_1"
  BY <1>2 DEF AllowedV1_2_1
<1>3. CASE o.standard = "V1_3_0"
  BY <1>3 DEF AllowedV1_3_0
<1> QED
  BY <1>1, <1>2, <1>3 DEF ParseOptions, DifiStandardVersion

\* The clock the profile holds a packet to is the one of its information class.
LEMMA ClockOfTheClass ==
  ASSUME NEW o \in ParseOptions, NEW header, NEW class_id,
         ValidatePrologue(o, header, class_id) = Ok,
         class_id.packet_class \in RealTimeClasses \cup SampleCountClasses,
         NEW c, AllowsPacketClass(o, class_id.information_class, c)
  PROVE  ValidateTsf(header, c) = Ok
<1> DEFINE info  == class_id.information_class
           class == class_id.packet_class
<1>1. ValidateClassMembership(o, info, class) = Ok /\ ValidateTsf(header, class) = Ok
  BY ThenOk DEF ValidatePrologue
<1>2. AllowsPacketClass(o, info, class)
  BY <1>1 DEF ValidateClassMembership, Expect, Ok
<1>3. /\ class \in RealTimeClasses => header.tsf = RealTimePicoseconds
      /\ class \in SampleCountClasses => header.tsf = SampleCount
  BY <1>1 DEF ValidateTsf, Expect, Ok
<1>4. /\ class \in RealTimeClasses => c \notin SampleCountClasses
      /\ class \in SampleCountClasses => c \notin RealTimeClasses
  BY <1>2, OneClock
<1> QED
  BY <1>3, <1>4 DEF ValidateTsf, Expect

(* The fractional timestamp of an accepted packet suits every class of its *)
(* information class (standard.rs 205-234, 498-609).                       *)
THEOREM OneClockEach == Spec => []OneClockPerInformationClass
<1>1. WalkInv => OneClockPerInformationClass
  <2> SUFFICES ASSUME WalkInv, NEW i \in 1..Len(packets),
                      packets[i].prologue.class_id.packet_class
                        \in RealTimeClasses \cup SampleCountClasses,
                      NEW c \in PacketClassCode,
                      AllowsPacketClass(options, packets[i].prologue.class_id.information_class, c)
               PROVE  ValidateTsf(packets[i].prologue.header, c) = Ok
    BY DEF OneClockPerInformationClass
  <2>1. options \in ParseOptions
    BY OptionsAssumption DEF WalkInv
  <2>2. ValidatePrologue(options, packets[i].prologue.header, packets[i].prologue.class_id) = Ok
    BY PacketsWereAccepted, AcceptanceMeans
  <2> QED
    BY <2>1, <2>2, ClockOfTheClass
<1> QED
  BY WalkInvariant, <1>1, PTL

-----------------------------------------------------------------------------
(* Two options, one packet.                                                *)

\* Whether n accepts whatever o accepts: a fact about the tables.
Includes(n, o) ==
  /\ \A type \in PacketType : PacketTypeAvailable(o, type) => PacketTypeAvailable(n, type)
  /\ \A c \in PacketClassCode : PacketClassAvailable(o, c) => PacketClassAvailable(n, c)
  /\ \A type \in PacketType, c \in PacketClassCode :
       PacketTypeAvailable(o, type) /\ PacketTypeClass(o, type, c) => PacketTypeClass(n, type, c)
  /\ \A info, c : AllowsPacketClass(o, info, c) => AllowsPacketClass(n, info, c)
  /\ \A info, c : PermitsDataPadding(o, info, c) => PermitsDataPadding(n, info, c)

LEMMA NewerIncludes ==
  ASSUME NEW o \in ParseOptions, NEW n \in NewerStandards(o)
  PROVE  n \in ParseOptions /\ Includes(n, o)
<1> USE DEF PacketTypeAvailable, PacketClassAvailable, PacketTypeClass, LegacyVersionType,
       PermitsDataPadding, AllowsPacketClass, DefaultOptions
<1> USE DEF StandardFlowSignalData, StandardFlowSignalContext, SampleCountSignalData,
       SampleCountSignalContext, VersionFlowSignalContext, SampleCountTimingFlowControl,
       RealTimeTimingFlowControl, SinkCapabilitiesQuery, SinkCapabilitiesResponse, StatusReport,
       SignalDataWithStreamId, ContextWithStreamId, VersionWithStreamId, CommandWithStreamId,
       ExtensionCommandWithStreamId, PacketType, PacketClassCode
<1>1. CASE o.standard = "V1_1"
  <2>1. n.standard = "V1_2_1" /\ n.compatibility = "LegacyVersionPacketType" /\ n \in ParseOptions
    BY <1>1 DEF NewerStandards, ParseOptions, DifiStandardVersion, CompatibilityMode
  <2>2. \A info, c : AllowsPacketClass(o, info, c) => AllowsPacketClass(n, info, c)
    BY <1>1, <2>1 DEF AllowedV1_1, AllowedV1_2_1
  <2> QED
    BY <1>1, <2>1, <2>2 DEF Includes
<1>2. CASE o.standard = "V1_2_1" /\ o.compatibility = "Strict"
  <2>1. CASE n.standard = "V1_2_1"
    <3>1. n \in ParseOptions
      BY <1>2 DEF NewerStandards, ParseOptions, DifiStandardVersion, CompatibilityMode
    <3> QED
      BY <1>2, <2>1, <3>1 DEF Includes
  <2>2. CASE n = DefaultOptions
    <3>1. n.standard = "V1_3_0" /\ n \in ParseOptions
      BY <2>2 DEF ParseOptions, DifiStandardVersion, CompatibilityMode
    <3>2. \A info, c : AllowsPacketClass(o, info, c) => AllowsPacketClass(n, info, c)
      BY <1>2, <3>1 DEF AllowedV1_2_1, AllowedV1_3_0
    <3> QED
      BY <1>2, <3>1, <3>2 DEF Includes
  <2> QED
    BY <1>2, <2>1, <2>2 DEF NewerStandards
<1> QED
  BY <1>1, <1>2 DEF NewerStandards

\* Past the prologue an option decides on data padding only.
LEMMA BodyCarriesOver ==
  ASSUME NEW o, NEW n, Includes(n, o), NEW words, NEW size, NEW class_id,
         class_id.packet_class \in PacketClassCode,
         BodyError(o, words, size, class_id) = Ok
  PROVE  BodyError(n, words, size, class_id) = Ok
<1> DEFINE variant == VariantOf(class_id.packet_class)
           Allowed(x) == Expect(\/ class_id.pad_bit_count = 0
                                \/ PermitsDataPadding(x, class_id.information_class,
                                                      class_id.packet_class),
                                "PadBitsNotAllowed")
           padding == ValidateDataPadding(SubSeq(words, PROLOGUE_WORDS + 1, Len(words)),
                                          class_id.pad_bit_count)
<1>1. CASE variant = "SignalData"
  <2>1. \A x : BodyError(x, words, size, class_id) = DataError(x, words, class_id)
    BY <1>1 DEF BodyError
  <2>2. \A x : DataError(x, words, class_id) = (Allowed(x) ?? padding)
    BY DEF DataError
  <2>3. Allowed(o) = Ok => Allowed(n) = Ok
    BY DEF Expect, Ok, Includes
  <2> HIDE DEF Allowed, padding
  <2> QED
    BY <2>1, <2>2, <2>3, ThenOk
<1>2. CASE variant # "SignalData"
  <2>1. variant \in {"SignalContext", "VersionContext", "TimingFlowControl",
                     "SinkCapabilitiesQuery", "SinkCapabilitiesResponse", "StatusReport"}
    BY <1>2 DEF VariantOf, PacketClassCode, StandardFlowSignalData, StandardFlowSignalContext,
       SampleCountSignalData, SampleCountSignalContext, VersionFlowSignalContext,
       SampleCountTimingFlowControl, RealTimeTimingFlowControl, SinkCapabilitiesQuery,
       SinkCapabilitiesResponse, StatusReport
  <2> HIDE DEF variant
  <2>2. BodyError(n, words, size, class_id) = BodyError(o, words, size, class_id)
    BY <2>1 DEF BodyError, variant
  <2> QED
    BY <2>2
<1> QED
  BY <1>1, <1>2

LEMMA PrologueCarriesOver ==
  ASSUME NEW o, NEW n, Includes(n, o), NEW header, NEW class_id,
         header.packet_type \in PacketType, class_id.packet_class \in PacketClassCode,
         ValidatePrologue(o, header, class_id) = Ok
  PROVE  ValidatePrologue(n, header, class_id) = Ok
<1> DEFINE type  == header.packet_type
           info  == class_id.information_class
           class == class_id.packet_class
<1>1. /\ ValidatePacketTypeAvailable(o, type) = Ok
      /\ ValidatePacketClassAvailable(o, class) = Ok
      /\ ValidatePacketTypeClass(o, type, class) = Ok
      /\ ValidateHeaderBits(header, class) = Ok
      /\ ValidateClassMembership(o, info, class) = Ok
      /\ ValidateTsf(header, class) = Ok
      /\ ValidateTsm(header, info, class) = Ok
  BY ThenOk DEF ValidatePrologue
<1>2. /\ PacketTypeAvailable(o, type) /\ PacketClassAvailable(o, class)
      /\ PacketTypeClass(o, type, class) /\ AllowsPacketClass(o, info, class)
  BY <1>1 DEF ValidatePacketTypeAvailable, ValidatePacketClassAvailable,
     ValidatePacketTypeClass, ValidateClassMembership, Expect, Ok
<1>3. /\ PacketTypeAvailable(n, type) /\ PacketClassAvailable(n, class)
      /\ PacketTypeClass(n, type, class) /\ AllowsPacketClass(n, info, class)
  BY <1>2 DEF Includes
<1>4. /\ ValidatePacketTypeAvailable(n, type) = Ok
      /\ ValidatePacketClassAvailable(n, class) = Ok
      /\ ValidatePacketTypeClass(n, type, class) = Ok
      /\ ValidateClassMembership(n, info, class) = Ok
  BY <1>3 DEF ValidatePacketTypeAvailable, ValidatePacketClassAvailable,
     ValidatePacketTypeClass, ValidateClassMembership, Expect
<1> QED
  BY <1>1, <1>4, ThenOk DEF ValidatePrologue

\* What one standard accepts, a standard that includes it accepts as the same packet.
LEMMA PacketCarriesOver ==
  ASSUME NEW o, NEW n, Includes(n, o), NEW d, ParsePacketPrefix(d, o).error = Ok
  PROVE  ParsePacketPrefix(d, n) = ParsePacketPrefix(d, o)
<1> DEFINE words    == FrameOf(d)
           header   == HeaderOf(ReadU32(words, 0))
           class_id == ClassIdOf(ReadU32(words, 2), ReadU32(words, 3))
<1>1. FramingError(d) = Ok /\ PacketError(o, words) = Ok
  BY PrefixReturns, ThenOk
<1> HIDE DEF words
<1>2. /\ HeaderError(ReadU32(words, 0)) = Ok
      /\ Expect(header.class_id_indicator, "MissingClassId") = Ok
      /\ ClassIdError(ReadU32(words, 2), ReadU32(words, 3)) = Ok
      /\ ValidatePrologue(o, header, class_id) = Ok
      /\ BodyError(o, words, header.packet_size_words, class_id) = Ok
  BY <1>1, ThenOk DEF PacketError
<1>3. header.packet_type \in PacketType /\ class_id.packet_class \in PacketClassCode
  BY <1>1, PacketErrorOk
<1>4. /\ ValidatePrologue(n, header, class_id) = Ok
      /\ BodyError(n, words, header.packet_size_words, class_id) = Ok
  BY <1>2, <1>3, PrologueCarriesOver, BodyCarriesOver
<1>5. PacketError(n, words) = Ok
  BY <1>2, <1>4, ThenOk DEF PacketError
<1>6. /\ (FramingError(d) ?? PacketError(n, words)) = Ok
      /\ (FramingError(d) ?? PacketError(o, words)) = Ok
  BY <1>1, <1>5, ThenOk
<1> QED
  BY <1>6 DEF ParsePacketPrefix, words

(* A newer standard reads what an older one read, as the same packet       *)
(* (standard.rs 449-609).                                                  *)
THEOREM NewerReadsOlder == Spec => []StandardsNest
<1>1. WalkInv => StandardsNest
  <2> SUFFICES ASSUME WalkInv, ParsePacketPrefix(remaining, options).error = Ok,
                      NEW newer \in NewerStandards(options)
               PROVE  ParsePacketPrefix(remaining, newer) = ParsePacketPrefix(remaining, options)
    BY DEF StandardsNest
  <2>1. options \in ParseOptions
    BY OptionsAssumption DEF WalkInv
  <2> QED
    BY <2>1, NewerIncludes, PacketCarriesOver
<1> QED
  BY WalkInvariant, <1>1, PTL

\* Options that agree on the tables for a packet agree on the packet.
Agree(s, l, type, class) ==
  /\ PacketTypeAvailable(s, type) <=> PacketTypeAvailable(l, type)
  /\ PacketClassAvailable(s, class) <=> PacketClassAvailable(l, class)
  /\ PacketTypeClass(s, type, class) <=> PacketTypeClass(l, type, class)

\* The tables of two modes of one standard differ on one packet type of 1.2.1.
LEMMA ModesAgree ==
  ASSUME NEW s, NEW l, s.standard = l.standard, NEW type, NEW class,
         s.standard # "V1_2_1" \/ type # VersionWithStreamId
  PROVE  Agree(s, l, type, class)
<1>1. CASE s.standard # "V1_2_1"
  BY <1>1 DEF Agree, PacketTypeAvailable, PacketClassAvailable, PacketTypeClass,
     LegacyVersionType
<1>2. CASE type # VersionWithStreamId
  BY <1>2 DEF Agree, PacketTypeAvailable, PacketClassAvailable, PacketTypeClass,
     LegacyVersionType
<1> QED
  BY <1>1, <1>2

LEMMA SameVerdict ==
  ASSUME NEW s, NEW l, s.standard = l.standard, NEW words,
         Agree(s, l, HeaderOf(ReadU32(words, 0)).packet_type,
               ClassIdOf(ReadU32(words, 2), ReadU32(words, 3)).packet_class)
  PROVE  PacketError(s, words) = PacketError(l, words)
<1> DEFINE header   == HeaderOf(ReadU32(words, 0))
           class_id == ClassIdOf(ReadU32(words, 2), ReadU32(words, 3))
           type     == header.packet_type
           info     == class_id.information_class
           class    == class_id.packet_class
<1>1. /\ ValidatePacketTypeAvailable(s, type) = ValidatePacketTypeAvailable(l, type)
      /\ ValidatePacketClassAvailable(s, class) = ValidatePacketClassAvailable(l, class)
      /\ ValidatePacketTypeClass(s, type, class) = ValidatePacketTypeClass(l, type, class)
  BY DEF Agree, ValidatePacketTypeAvailable, ValidatePacketClassAvailable,
     ValidatePacketTypeClass, Expect
<1>2. ValidateClassMembership(s, info, class) = ValidateClassMembership(l, info, class)
  BY DEF ValidateClassMembership, AllowsPacketClass
<1>3. ValidatePrologue(s, header, class_id) = ValidatePrologue(l, header, class_id)
  BY <1>1, <1>2 DEF ValidatePrologue
<1>4. DataError(s, words, class_id) = DataError(l, words, class_id)
  BY DEF DataError, PermitsDataPadding
<1>5. BodyError(s, words, header.packet_size_words, class_id)
        = BodyError(l, words, header.packet_size_words, class_id)
  BY <1>4 DEF BodyError
<1> QED
  BY <1>3, <1>5 DEF PacketError

\* Under the strict mode of 1.2.1 a packet of type 5 stops at its type, if it gets there.
LEMMA StrictStopsAtType ==
  ASSUME NEW s, NEW l, s.standard = "V1_2_1", s.compatibility = "Strict", NEW words,
         HeaderOf(ReadU32(words, 0)).packet_type = VersionWithStreamId,
         PacketError(s, words) # PacketError(l, words)
  PROVE  PacketError(s, words) = "PacketTypeNotAvailableInStandard"
<1> DEFINE header   == HeaderOf(ReadU32(words, 0))
           class_id == ClassIdOf(ReadU32(words, 2), ReadU32(words, 3))
           e1 == HeaderError(ReadU32(words, 0))
           e2 == Expect(header.class_id_indicator, "MissingClassId")
           e3 == ClassIdError(ReadU32(words, 2), ReadU32(words, 3))
           Profile(o) == ValidatePrologue(o, header, class_id)
           Body(o) == BodyError(o, words, header.packet_size_words, class_id)
<1>1. \A o : PacketError(o, words) = (e1 ?? e2 ?? e3 ?? Profile(o) ?? Body(o))
  BY DEF PacketError
<1>2. ValidatePacketTypeAvailable(s, header.packet_type) = "PacketTypeNotAvailableInStandard"
  BY DEF ValidatePacketTypeAvailable, PacketTypeAvailable, LegacyVersionType, Expect,
     SignalDataWithStreamId, ContextWithStreamId, VersionWithStreamId, CommandWithStreamId
<1>3. Profile(s) = "PacketTypeNotAvailableInStandard"
  BY <1>2 DEF ValidatePrologue, ??, Ok
<1> HIDE DEF e1, e2, e3, Profile, Body
<1>4. e1 = Ok /\ e2 = Ok /\ e3 = Ok
  BY <1>1 DEF ??
<1> QED
  BY <1>1, <1>3, <1>4 DEF ??, Ok

(* The compatibility mode decides on nothing but the version context       *)
(* packets of 1.2.1 that have their own packet type (standard.rs 121-127,  *)
(* 463-464).                                                               *)
THEOREM ModeIsNarrow == Spec => []CompatibilityIsNarrow
<1>1. WalkInv => CompatibilityIsNarrow
  <2> DEFINE s == [options EXCEPT !.compatibility = "Strict"]
             l == [options EXCEPT !.compatibility = "LegacyVersionPacketType"]
             frame == FrameOf(remaining)
  <2> SUFFICES ASSUME WalkInv, ParsePacketPrefix(remaining, s) # ParsePacketPrefix(remaining, l)
               PROVE  /\ options.standard = "V1_2_1"
                      /\ HeaderOf(ReadU32(remaining.words, 0)).packet_type = VersionWithStreamId
                      /\ ParsePacketPrefix(remaining, s).error
                           = "PacketTypeNotAvailableInStandard"
    BY DEF CompatibilityIsNarrow
  <2>1. /\ s.standard = options.standard /\ l.standard = options.standard
        /\ s.compatibility = "Strict"
    BY OptionsAssumption DEF WalkInv, ParseOptions
  <2> HIDE DEF s, l, frame
  <2>2. FramingError(remaining) = Ok /\ PacketError(s, frame) # PacketError(l, frame)
    BY DEF ParsePacketPrefix, frame, ??
  <2>3. ReadU32(frame, 0) = ReadU32(remaining.words, 0)
    BY <2>2, FrameIsWhole DEF WalkInv, frame
  <2>4. /\ options.standard = "V1_2_1"
        /\ HeaderOf(ReadU32(frame, 0)).packet_type = VersionWithStreamId
    BY <2>1, <2>2, ModesAgree, SameVerdict
  <2>5. PacketError(s, frame) = "PacketTypeNotAvailableInStandard"
    BY <2>1, <2>2, <2>4, StrictStopsAtType
  <2>6. ParsePacketPrefix(remaining, s).error = PacketError(s, frame)
    BY <2>2, PrefixReturns DEF ??, frame
  <2> QED
    BY <2>3, <2>4, <2>5, <2>6
<1> QED
  BY WalkInvariant, <1>1, PTL
=============================================================================

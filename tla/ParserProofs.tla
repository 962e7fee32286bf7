---------------------------- MODULE ParserProofs ----------------------------
(***************************************************************************)
(* What parse_packet_prefix and parse_packet_exact return, for every slice *)
(* and every option: no run of TLC and no induction, only the definitions. *)
(* The modules that prove invariants of the parser's callers stand on it.  *)
(***************************************************************************)
EXTENDS PacketParser, TLAPS

\* The `?` operator: a chain of checks passes iff each of them passes.
LEMMA ThenOk ==
  ASSUME NEW e, NEW f
  PROVE  (e ?? f) = Ok <=> e = Ok /\ f = Ok
BY DEF ??

\* A check that is not satisfied returns its error.
LEMMA ExpectOk ==
  ASSUME NEW holds \in BOOLEAN, NEW error, error # Ok
  PROVE  Expect(holds, error) = Ok <=> holds
BY DEF Expect

\* read_u32_be returns a word whatever the index.
LEMMA ReadU32Type ==
  ASSUME NEW words \in Seq(Word), NEW i \in Nat
  PROVE  ReadU32(words, i) \in Word
<1>1. CASE HasWord(words, i)
  <2>1. i + 1 \in 1..Len(words)
    BY <1>1 DEF HasWord
  <2>2. words[i + 1] \in Word
    BY <2>1
  <2> QED
    BY <1>1, <2>2 DEF ReadU32
<1>2. CASE ~HasWord(words, i)
  <2>1. 0 \in Half
    BY DEF Half
  <2>2. <<0, 0>> \in Word
    BY <2>1 DEF Word
  <2> QED
    BY <1>2, <2>2 DEF ReadU32
<1> QED
  BY <1>1, <1>2

\* A slice of words and at most three bytes that do not fill a word.
IsSlice(d) == d.words \in Seq(Word) /\ d.extra \in 0..3

\* A half word counts something.
LEMMA HalfIsNat ==
  ASSUME NEW n \in Half
  PROVE  n \in Nat
<1> QED
  BY SMTT(20) DEF Half

\* The size a header claims is a half word.
LEMMA SizeType ==
  ASSUME NEW words \in Seq(Word)
  PROVE  PacketSizeWords(ReadU32(words, 0)) \in Half
BY ReadU32Type DEF PacketSizeWords, Word

\* The frame of a datagram is a sequence of words.
LEMMA FrameType ==
  ASSUME NEW d, IsSlice(d), FramingError(d) = Ok
  PROVE  FrameOf(d) \in Seq(Word)
<1> DEFINE size == PacketSizeWords(ReadU32(d.words, 0))
<1>1. size \in Half
  BY SizeType DEF IsSlice
<1>2. ByteLen(d) >= WORD_BYTES * size
  <2>1. Expect(ByteLen(d) >= WORD_BYTES * size, "PacketTruncated") = Ok
    BY ThenOk DEF FramingError
  <2> QED
    BY <2>1 DEF Expect, Ok
<1>3. size \in 0..Len(d.words)
  <2>1. Len(d.words) \in Nat /\ d.extra \in 0..3
    BY DEF IsSlice
  <2>2. size \in Nat
    BY <1>1, HalfIsNat
  <2>3. 4 * Len(d.words) + d.extra >= 4 * size
    BY <1>2 DEF ByteLen, WORD_BYTES
  <2> HIDE DEF size
  <2> QED
    BY <2>1, <2>2, <2>3
<1>4. SubSeq(d.words, 1, size) \in Seq(Word)
  BY <1>3 DEF IsSlice
<1> QED
  BY <1>4 DEF FrameOf

\* What parse_packet_exact returns is the frame, decoded, and both stages passed.
LEMMA ExactReturnsTheFrame ==
  ASSUME NEW d, NEW o, ParsePacketExact(d, o).error = Ok
  PROVE  /\ ParsePacketExact(d, o).packet = PacketOf(FrameOf(d))
         /\ FramingError(d) = Ok
         /\ PacketError(o, FrameOf(d)) = Ok
<1>1. ParsePacketPrefix(d, o).error = Ok
  BY DEF ParsePacketExact
<1>2. FramingError(d) ?? PacketError(o, FrameOf(d)) = Ok
  BY <1>1 DEF ParsePacketPrefix
<1>3. FramingError(d) = Ok /\ PacketError(o, FrameOf(d)) = Ok
  BY <1>2, ThenOk
<1>4. ParsePacketPrefix(d, o).packet = PacketOf(FrameOf(d))
  BY <1>2 DEF ParsePacketPrefix
<1>5. ParsePacketExact(d, o).packet = ParsePacketPrefix(d, o).packet
  BY DEF ParsePacketExact, Ok
<1> QED
  BY <1>3, <1>4, <1>5

\* A packet that passes has the type and class of some enumerator.
LEMMA PacketErrorOk ==
  ASSUME NEW words, NEW o, PacketError(o, words) = Ok
  PROVE  /\ HeaderOf(ReadU32(words, 0)).packet_type \in PacketType
         /\ ClassIdOf(ReadU32(words, 2), ReadU32(words, 3)).packet_class \in PacketClassCode
<1>1. /\ HeaderError(ReadU32(words, 0)) = Ok
      /\ ClassIdError(ReadU32(words, 2), ReadU32(words, 3)) = Ok
  BY ThenOk DEF PacketError
<1>2. Expect(ReadU32(words, 0)[1] \div 4096 \in PacketType, "UnsupportedPacketType") = Ok
  BY <1>1, ThenOk DEF HeaderError
<1>3. Expect(ReadU32(words, 3)[2] \in PacketClassCode, "UnknownPacketClass") = Ok
  BY <1>1, ThenOk DEF ClassIdError
<1>4. ReadU32(words, 0)[1] \div 4096 \in PacketType
  BY <1>2 DEF Expect, Ok
<1>5. ReadU32(words, 3)[2] \in PacketClassCode
  BY <1>3 DEF Expect, Ok
<1> QED
  BY <1>4, <1>5 DEF HeaderOf, ClassIdOf

-----------------------------------------------------------------------------
(* Which errors each body can raise.  A body is parsed from as many words  *)
(* as its header claims (Len(words) = size), so that every read after the  *)
(* size was checked finds its word.                                        *)

\* What every body can return, reads outside it and pad bits left aside.
FieldVerdict ==
  {Ok, "InvalidPacketSize", "InvalidPacketSizeSet", "PadBitsNotAllowed", "InvalidFieldValue",
   "InvalidFieldValueSet", "InvalidPayloadFormat", "ReservedBitsNonZero",
   "FractionalHzNotAllowed"}

\* The first error of two stages is an error of one of them.
LEMMA ThenVerdict ==
  ASSUME NEW S, NEW e \in S, NEW f, e = Ok => f \in S
  PROVE  (e ?? f) \in S
BY DEF ??

\* The checks of a field, whatever the field and whatever is in it.
LEMMA FieldVerdicts ==
  /\ \A layout, size : ExpectPacketSize(layout, size) \in FieldVerdict
  /\ \A size : ValidateStatusReportSize(size) \in FieldVerdict
  /\ \A class_id : ExpectNoPadding(class_id) \in FieldVerdict
  /\ \A field, word : ExpectFixed(field, word) \in FieldVerdict
  /\ \A word : ExpectSignalContextCif0(word) \in FieldVerdict
  /\ \A word : ExpectVersionContextCif0(word) \in FieldVerdict
  /\ \A pair : IntegerHz(pair) \in FieldVerdict
  /\ \A w0, w1 : PayloadFormatError(w0, w1) \in FieldVerdict
<1> USE DEF Expect, FieldVerdict, Ok
<1>1. \A layout, size : ExpectPacketSize(layout, size) \in FieldVerdict
  BY DEF ExpectPacketSize
<1>2. \A size : ValidateStatusReportSize(size) \in FieldVerdict
  BY DEF ValidateStatusReportSize
<1>3. \A class_id : ExpectNoPadding(class_id) \in FieldVerdict
  BY DEF ExpectNoPadding
<1>4. \A field, word : ExpectFixed(field, word) \in FieldVerdict
  BY DEF ExpectFixed, ExpectWord
<1>5. \A word : /\ ExpectSignalContextCif0(word) \in FieldVerdict
                /\ ExpectVersionContextCif0(word) \in FieldVerdict
  BY DEF ExpectSignalContextCif0, ExpectVersionContextCif0, ExpectWordOneOf
<1>6. \A pair : IntegerHz(pair) \in FieldVerdict
  BY DEF IntegerHz
<1>7. \A w0, w1 : PayloadFormatError(w0, w1) \in FieldVerdict
  BY DEF PayloadFormatError
<1> QED
  BY <1>1, <1>2, <1>3, <1>4, <1>5, <1>6, <1>7

\* Words 0 to i can be read of n words when i < n.
LEMMA NeedsVerdict ==
  ASSUME NEW words \in Seq(Word), NEW i \in Nat, i < Len(words)
  PROVE  Needs(words, i) = Ok
BY DEF Needs, HasWord, Expect

\* A size that passes is the one of the layout.
LEMMA SizeOk ==
  ASSUME NEW layout, NEW size, ExpectPacketSize(layout, size) = Ok
  PROVE  size = LayoutWords[layout]
BY DEF ExpectPacketSize, Expect, Ok

LEMMA SignalContextVerdict ==
  ASSUME NEW words \in Seq(Word), NEW class_id
  PROVE  SignalContextError(words, Len(words), class_id) \in FieldVerdict
<1>1. ExpectPacketSize("SignalContext", Len(words)) = Ok => Needs(words, 26) = Ok
  BY SizeOk, NeedsVerdict DEF LayoutWords
<1>2. Ok \in FieldVerdict
  BY DEF FieldVerdict
<1> QED
  BY <1>1, <1>2, FieldVerdicts, ThenVerdict, ThenOk DEF SignalContextError

LEMMA VersionContextVerdict ==
  ASSUME NEW words \in Seq(Word), NEW class_id
  PROVE  VersionContextError(words, Len(words), class_id) \in FieldVerdict
<1>1. ExpectPacketSize("VersionContext", Len(words)) = Ok => Needs(words, 10) = Ok
  BY SizeOk, NeedsVerdict DEF LayoutWords
<1>2. /\ Expect((ReadU32(words, 10)[2] \div 64) % 16 = 0, "InvalidFieldValue") \in FieldVerdict
      /\ Expect(ReadU32(words, 10)[2] % 64 = Version1, "InvalidFieldValue") \in FieldVerdict
  BY DEF Expect, FieldVerdict
<1>3. Ok \in FieldVerdict
  BY DEF FieldVerdict
<1> QED
  BY <1>1, <1>2, <1>3, FieldVerdicts, ThenVerdict, ThenOk DEF VersionContextError

LEMMA TimingFlowControlVerdict ==
  ASSUME NEW words \in Seq(Word), NEW class_id
  PROVE  TimingFlowControlError(words, Len(words), class_id) \in FieldVerdict
<1>1. ExpectPacketSize("TimingFlowControl", Len(words)) = Ok => Needs(words, 20) = Ok
  BY SizeOk, NeedsVerdict DEF LayoutWords
<1>2. Expect(ReadU32(words, 20)[1] = 0, "ReservedBitsNonZero") \in FieldVerdict
  BY DEF Expect, FieldVerdict
<1>3. Ok \in FieldVerdict
  BY DEF FieldVerdict
<1> QED
  BY <1>1, <1>2, <1>3, FieldVerdicts, ThenVerdict, ThenOk DEF TimingFlowControlError

\* The unreachable!() of parse_status_report is unreachable: the size was checked.
LEMMA StatusReportVerdict ==
  ASSUME NEW words \in Seq(Word), NEW class_id
  PROVE  StatusReportError(words, Len(words), class_id) \in FieldVerdict
<1> DEFINE size == Len(words)
<1>1. ASSUME ValidateStatusReportSize(size) = Ok
      PROVE  /\ size \in {15, 17, 21}
             /\ Needs(words, 14) = Ok
             /\ size >= 17 => Needs(words, 16) = Ok
             /\ size = 21 => Needs(words, 20) = Ok
  <2>1. size \in {15, 17, 21}
    BY <1>1 DEF ValidateStatusReportSize, STATUS_REPORT_SIZES, Expect, Ok
  <2>2. \A n \in {15, 17, 21} : n > 14 /\ (n >= 17 => n > 16) /\ (n = 21 => n > 20)
    OBVIOUS
  <2> QED
    BY <2>1, <2>2, NeedsVerdict
<1>2. size \in {15, 17, 21} => Expect(size \in {15, 17, 21}, Panic) = Ok
  BY DEF Expect
<1>3. Expect(StatusFlags(words) = ExpectedStatusFlags(size), "InvalidFieldValue") \in FieldVerdict
  BY DEF Expect, FieldVerdict
<1>4. Ok \in FieldVerdict
  BY DEF FieldVerdict
<1> HIDE DEF size
<1> QED
  BY <1>1, <1>2, <1>3, <1>4, FieldVerdicts, ThenVerdict, ThenOk DEF StatusReportError, size

\* The two sink capabilities packets read command words before they check the size.
LEMMA CapabilityCommonVerdict ==
  ASSUME NEW words \in Seq(Word), NEW class_id, NEW cam
  PROVE  LET error == CapabilityCommonError(words, class_id, cam)
         IN /\ error \in FieldVerdict \/ (error = "InputTooShort" /\ Len(words) < 12)
            /\ error = Ok => Len(words) >= 12
<1> DEFINE S == FieldVerdict \cup (IF Len(words) < 12 THEN {"InputTooShort"} ELSE {})
<1>1. \A i \in 0..11 : Needs(words, i) \in S
  BY DEF Needs, HasWord, Expect, FieldVerdict
<1>2. Needs(words, 11) = Ok => Len(words) >= 12
  BY DEF Needs, HasWord, Expect, Ok
<1>3. CapabilityCommonError(words, class_id, cam) \in S
  <2>1. FieldVerdict \subseteq S
    OBVIOUS
  <2> HIDE DEF S
  <2> QED
    BY <1>1, <2>1, FieldVerdicts, ThenVerdict DEF CapabilityCommonError
<1>4. CapabilityCommonError(words, class_id, cam) = Ok => Needs(words, 11) = Ok
  BY ThenOk DEF CapabilityCommonError
<1> QED
  BY <1>2, <1>3, <1>4

LEMMA SinkCapabilitiesQueryVerdict ==
  ASSUME NEW words \in Seq(Word), NEW class_id
  PROVE  LET error == SinkCapabilitiesQueryError(words, Len(words), class_id)
         IN error \in FieldVerdict \/ (error = "InputTooShort" /\ Len(words) < 12)
<1> DEFINE common == CapabilityCommonError(words, class_id, "sink_capabilities_query_cam")
           short  == ExpectPacketSize("SinkCapabilitiesQueryShort", Len(words))
                       ?? ExpectFixed("sink_capabilities_short_query_cif0", ReadU32(words, 11))
                       ?? Needs(words, 14)
           long   == ExpectPacketSize("SinkCapabilitiesQueryLong", Len(words))
                       ?? ExpectFixed("sink_capabilities_long_query_cif0", ReadU32(words, 11))
                       ?? Needs(words, 12)
                       ?? ExpectFixed("sink_capabilities_long_query_cif1", ReadU32(words, 12))
<1>1. Ok \in FieldVerdict
  BY DEF FieldVerdict
<1>2. short \in FieldVerdict
  <2>1. ExpectPacketSize("SinkCapabilitiesQueryShort", Len(words)) = Ok => Needs(words, 14) = Ok
    BY SizeOk, NeedsVerdict DEF LayoutWords
  <2> QED
    BY <1>1, <2>1, FieldVerdicts, ThenVerdict, ThenOk
<1>3. long \in FieldVerdict
  <2>1. ExpectPacketSize("SinkCapabilitiesQueryLong", Len(words)) = Ok => Needs(words, 12) = Ok
    BY SizeOk, NeedsVerdict DEF LayoutWords
  <2> QED
    BY <1>1, <2>1, FieldVerdicts, ThenVerdict, ThenOk
<1>4. SinkCapabilitiesQueryError(words, Len(words), class_id)
        = (common ?? IF IsShort(words) THEN short ELSE long)
  BY DEF SinkCapabilitiesQueryError
<1> HIDE DEF short, long
<1> QED
  BY <1>2, <1>3, <1>4, CapabilityCommonVerdict DEF ??

\* Nor does the slice of the capability table leave the packet.
LEMMA SinkCapabilitiesResponseVerdict ==
  ASSUME NEW words \in Seq(Word), NEW class_id
  PROVE  LET error == SinkCapabilitiesResponseError(words, Len(words), class_id)
         IN error \in FieldVerdict \/ (error = "InputTooShort" /\ Len(words) < 12)
<1> DEFINE common == CapabilityCommonError(words, class_id, "sink_capabilities_response_cam")
           short  == ExpectPacketSize("SinkCapabilitiesResponseShort", Len(words))
                       ?? ExpectFixed("sink_capabilities_short_response_cif0", ReadU32(words, 11))
                       ?? Needs(words, 17)
           long   == Expect(Len(words) > 13, "InvalidPacketSize")
                       ?? ExpectFixed("sink_capabilities_long_response_cif0", ReadU32(words, 11))
                       ?? Needs(words, 12)
                       ?? ExpectFixed("sink_capabilities_long_response_cif1", ReadU32(words, 12))
                       ?? Expect(Len(words) >= 13, Panic)
<1>1. Ok \in FieldVerdict
  BY DEF FieldVerdict
<1>2. short \in FieldVerdict
  <2>1. ExpectPacketSize("SinkCapabilitiesResponseShort", Len(words)) = Ok
          => Needs(words, 17) = Ok
    BY SizeOk, NeedsVerdict DEF LayoutWords
  <2> QED
    BY <1>1, <2>1, FieldVerdicts, ThenVerdict, ThenOk
<1>3. long \in FieldVerdict
  <2>1. Expect(Len(words) > 13, "InvalidPacketSize") = Ok
          => Needs(words, 12) = Ok /\ Expect(Len(words) >= 13, Panic) = Ok
    BY NeedsVerdict DEF Expect, Ok
  <2>2. Expect(Len(words) > 13, "InvalidPacketSize") \in FieldVerdict
    BY DEF Expect, FieldVerdict
  <2> QED
    BY <1>1, <2>1, <2>2, FieldVerdicts, ThenVerdict, ThenOk
<1>4. SinkCapabilitiesResponseError(words, Len(words), class_id)
        = (common ?? IF IsShort(words) THEN short ELSE long)
  BY DEF SinkCapabilitiesResponseError
<1> HIDE DEF short, long
<1> QED
  BY <1>2, <1>3, <1>4, CapabilityCommonVerdict DEF ??

-----------------------------------------------------------------------------
(* The byte and mask arithmetic of validate_data_padding computes what it  *)
(* is meant to: that the last pad_bit_count bits of the payload are zero.  *)

\* A number is divisible by a power of two as its two low bytes are.
LEMMA LowBytes ==
  ASSUME NEW x \in Nat, NEW r \in 0..7
  PROVE  /\ (x % 256) % 2^r = 0 <=> x % 2^r = 0
         /\ x % 256 = 0 /\ (x \div 256) % 2^r = 0 <=> x % 2^(8 + r) = 0
<1>0. CASE r = 0
  <2>1. 2^r = 1 /\ 2^(8 + r) = 256
    BY <1>0
  <2> QED
    BY <2>1
<1>1. CASE r = 1
  <2>1. 2^r = 2 /\ 2^(8 + r) = 512
    BY <1>1
  <2> QED
    BY <2>1
<1>2. CASE r = 2
  <2>1. 2^r = 4 /\ 2^(8 + r) = 1024
    BY <1>2
  <2> QED
    BY <2>1
<1>3. CASE r = 3
  <2>1. 2^r = 8 /\ 2^(8 + r) = 2048
    BY <1>3
  <2> QED
    BY <2>1
<1>4. CASE r = 4
  <2>1. 2^r = 16 /\ 2^(8 + r) = 4096
    BY <1>4
  <2> QED
    BY <2>1
<1>5. CASE r = 5
  <2>1. 2^r = 32 /\ 2^(8 + r) = 8192
    BY <1>5
  <2> QED
    BY <2>1
<1>6. CASE r = 6
  <2>1. 2^r = 64 /\ 2^(8 + r) = 16384
    BY <1>6
  <2> QED
    BY <2>1
<1>7. CASE r = 7
  <2>1. 2^r = 128 /\ 2^(8 + r) = 32768
    BY <1>7
  <2> QED
    BY <2>1
<1> QED
  BY <1>0, <1>1, <1>2, <1>3, <1>4, <1>5, <1>6, <1>7

\* The last four bytes of a payload are those of its last word.
LEMMA LastBytes ==
  ASSUME NEW payload \in Seq(Word), payload # <<>>
  PROVE  LET n == Len(payload)
             w == payload[n]
         IN /\ PayloadByte(payload, 4 * n - 1) = w[2] % 256
            /\ PayloadByte(payload, 4 * n - 2) = w[2] \div 256
            /\ PayloadByte(payload, 4 * n - 3) = w[1] % 256
            /\ PayloadByte(payload, 4 * n - 4) = w[1] \div 256
<1> DEFINE n == Len(payload)
<1>1. n \in Nat /\ n >= 1
  OBVIOUS
<1> HIDE DEF n
<1>2. /\ (4 * n - 1) \div 4 + 1 = n /\ (((4 * n - 1) \div 2) % 2) + 1 = 2 /\ (4 * n - 1) % 2 = 1
      /\ (4 * n - 2) \div 4 + 1 = n /\ (((4 * n - 2) \div 2) % 2) + 1 = 2 /\ (4 * n - 2) % 2 = 0
      /\ (4 * n - 3) \div 4 + 1 = n /\ (((4 * n - 3) \div 2) % 2) + 1 = 1 /\ (4 * n - 3) % 2 = 1
      /\ (4 * n - 4) \div 4 + 1 = n /\ (((4 * n - 4) \div 2) % 2) + 1 = 1 /\ (4 * n - 4) % 2 = 0
  BY <1>1
<1> QED
  BY <1>2 DEF PayloadByte, n

\* The halves of a word.
LEMMA WordHalves ==
  ASSUME NEW w \in Word
  PROVE  /\ w[1] \in Nat /\ w[1] <= 65535
         /\ w[2] \in Nat /\ w[2] <= 65535
<1>1. w[1] \in Half /\ w[2] \in Half
  BY DEF Word
<1>2. \A n \in Half : n \in Nat /\ n <= 65535
  BY SMTT(20) DEF Half
<1> QED
  BY <1>1, <1>2

\* What is left of validate_data_padding once the trivial cases are gone.
LEMMA PaddingStages ==
  ASSUME NEW payload \in Seq(Word), payload # <<>>, NEW pad \in 1..MaxPadBits
  PROVE  LET len  == 4 * Len(payload)
             k    == pad \div 8
             r    == pad % 8
             full == \A i \in (len - k)..(len - 1) : PayloadByte(payload, i) = 0
             part == PayloadByte(payload, len - k - 1) % 2^r = 0
         IN ValidateDataPadding(payload, pad) =
              IF (k # 0 => full) /\ (r # 0 => part) THEN Ok ELSE "NonZeroPaddingBits"
<1> DEFINE len  == 4 * Len(payload)
           k    == pad \div 8
           r    == pad % 8
           full == \A i \in (len - k)..(len - 1) : PayloadByte(payload, i) = 0
           part == PayloadByte(payload, len - k - 1) % 2^r = 0
<1>1. /\ len \in Nat /\ len >= 4 /\ pad <= 8 * len
      /\ k \in 0..3 /\ len - k \in 0..len /\ len - k - 1 \in 0..(len - 1)
  BY DEF MaxPadBits
<1>2. InSlice(len - k, len, Expect(full, "NonZeroPaddingBits"))
        = Expect(full, "NonZeroPaddingBits")
  BY <1>1 DEF InSlice, Expect, ??
<1>3. InBytes(len - k - 1, len, Expect(part, "NonZeroPaddingBits"))
        = Expect(part, "NonZeroPaddingBits")
  BY <1>1 DEF InBytes, Expect, ??
<1>4. /\ Expect(pad <= 8 * len, "InvalidPadding") = Ok
      /\ Expect(payload # <<>>, "InvalidPadding") = Ok
  BY <1>1 DEF Expect
<1>5. pad # 0
  OBVIOUS
<1>6. ValidateDataPadding(payload, pad) =
        (Expect(pad <= 8 * len, "InvalidPadding")
           ?? Expect(payload # <<>>, "InvalidPadding")
           ?? (IF k # 0 THEN InSlice(len - k, len, Expect(full, "NonZeroPaddingBits")) ELSE Ok)
           ?? (IF r # 0 THEN InBytes(len - k - 1, len, Expect(part, "NonZeroPaddingBits"))
                        ELSE Ok))
  BY <1>5 DEF ValidateDataPadding, FullPadBytes, WORD_BYTES
<1> HIDE DEF len, k, r, full, part
<1>7. ValidateDataPadding(payload, pad) =
        ((IF k # 0 THEN Expect(full, "NonZeroPaddingBits") ELSE Ok)
           ?? (IF r # 0 THEN Expect(part, "NonZeroPaddingBits") ELSE Ok))
  BY <1>2, <1>3, <1>4, <1>6 DEF ??
<1> QED
  BY <1>7 DEF Expect, ??, Ok, len, k, r, full, part

\* The pad bits the parser accepts are the zero ones, and no others.
LEMMA PaddingVerdict ==
  ASSUME NEW payload \in Seq(Word), NEW pad \in 0..MaxPadBits
  PROVE  LET error == ValidateDataPadding(payload, pad)
         IN /\ error \in {Ok, "InvalidPadding", "NonZeroPaddingBits"}
            /\ error = Ok => PaddingIsZero(payload, pad)
            /\ error = "NonZeroPaddingBits" => ~PaddingIsZero(payload, pad)
<1>1. CASE pad = 0
  BY <1>1 DEF ValidateDataPadding, PaddingIsZero, Ok
<1>2. CASE pad # 0 /\ payload = <<>>
  <2>1. ~(pad <= 8 * (WORD_BYTES * Len(payload)))
    BY <1>2 DEF WORD_BYTES, MaxPadBits
  <2>2. ValidateDataPadding(payload, pad) = "InvalidPadding"
    BY <1>2, <2>1 DEF ValidateDataPadding, Expect, ??, Ok
  <2> QED
    BY <2>2 DEF Ok
<1>3. CASE pad # 0 /\ payload # <<>>
  <2> DEFINE n    == Len(payload)
             w    == payload[n]
             len  == 4 * n
             k    == pad \div 8
             r    == pad % 8
             full == \A i \in (len - k)..(len - 1) : PayloadByte(payload, i) = 0
             part == PayloadByte(payload, len - k - 1) % 2^r = 0
  <2>1. /\ n \in Nat /\ n >= 1
        /\ w[1] \in Nat /\ w[1] <= 65535 /\ w[2] \in Nat /\ w[2] <= 65535
    <3>1. n \in Nat /\ n >= 1 /\ n \in 1..Len(payload)
      BY <1>3
    <3>2. w \in Word
      BY <3>1
    <3> HIDE DEF n, w
    <3> QED
      BY <3>1, <3>2, WordHalves
  <2>2. /\ k \in 0..3 /\ r \in 0..7 /\ pad = 8 * k + r
    BY DEF MaxPadBits
  <2>3. ValidateDataPadding(payload, pad) =
          IF (k # 0 => full) /\ (r # 0 => part) THEN Ok ELSE "NonZeroPaddingBits"
    <3>1. pad \in 1..MaxPadBits
      BY <1>3 DEF MaxPadBits
    <3> QED
      BY <1>3, <3>1, PaddingStages
  <2>4. /\ PayloadByte(payload, len - 1) = w[2] % 256
        /\ PayloadByte(payload, len - 2) = w[2] \div 256
        /\ PayloadByte(payload, len - 3) = w[1] % 256
        /\ PayloadByte(payload, len - 4) = w[1] \div 256
    BY <1>3, LastBytes
  <2>5. PaddingIsZero(payload, pad) <=> LowBitsZero(w, pad)
    BY <1>3 DEF PaddingIsZero
  <2>6. (k # 0 => full) /\ (r # 0 => part) <=> LowBitsZero(w, pad)
    <3> HIDE DEF w, k, r, n
    <3>0. /\ (w[2] % 256) % 2^r = 0 <=> w[2] % 2^r = 0
          /\ w[2] % 256 = 0 /\ (w[2] \div 256) % 2^r = 0 <=> w[2] % 2^(8 + r) = 0
          /\ (w[1] % 256) % 2^r = 0 <=> w[1] % 2^r = 0
          /\ w[1] % 256 = 0 /\ (w[1] \div 256) % 2^r = 0 <=> w[1] % 2^(8 + r) = 0
      <4>1. w[1] \in Nat /\ w[2] \in Nat /\ r \in 0..7
        BY <2>1, <2>2
      <4> QED
        BY <4>1, LowBytes, ZenonT(40)
    <3>1. 2^0 = 1 /\ 2^8 = 256 /\ 2^16 = 65536
      OBVIOUS
    <3>2. CASE k = 0
      <4>1. part <=> (w[2] % 256) % 2^r = 0
        <5>1. len - k - 1 = len - 1
          BY <2>1, <3>2
        <5> QED
          BY <2>4, <5>1
      <4>2. r # 0 /\ pad = r /\ pad <= 16
        BY <1>3, <2>2, <3>2
      <4> QED
        BY <3>0, <3>2, <4>1, <4>2 DEF LowBitsZero
    <3>3. CASE k = 1
      <4>1. full <=> w[2] % 256 = 0
        <5>1. \A i \in (len - k)..(len - 1) : i = len - 1
          BY <2>1, <3>3
        <5>2. len - 1 \in (len - k)..(len - 1)
          BY <2>1, <3>3
        <5> QED
          BY <2>4, <5>1, <5>2
      <4>2. part <=> (w[2] \div 256) % 2^r = 0
        <5>1. len - k - 1 = len - 2
          BY <2>1, <3>3
        <5> QED
          BY <2>4, <5>1
      <4>3. pad = 8 + r /\ pad <= 16
        BY <2>2, <3>3
      <4>4. r = 0 => 2^(8 + r) = 256
        BY <3>1
      <4> QED
        BY <3>0, <3>3, <4>1, <4>2, <4>3, <4>4 DEF LowBitsZero
    <3>4. CASE k = 2
      <4>1. full <=> w[2] = 0
        <5>1. \A i \in (len - k)..(len - 1) : i = len - 1 \/ i = len - 2
          BY <2>1, <3>4
        <5>2. len - 1 \in (len - k)..(len - 1) /\ len - 2 \in (len - k)..(len - 1)
          BY <2>1, <3>4
        <5>3. w[2] = 0 <=> w[2] % 256 = 0 /\ w[2] \div 256 = 0
          BY <2>1
        <5> QED
          BY <2>4, <5>1, <5>2, <5>3
      <4>2. part <=> (w[1] % 256) % 2^r = 0
        <5>1. len - k - 1 = len - 3
          BY <2>1, <3>4
        <5> QED
          BY <2>4, <5>1
      <4>3. pad = 16 + r
        BY <2>2, <3>4
      <4>4. CASE r = 0
        <5>1. LowBitsZero(w, pad) <=> w[2] % 2^16 = 0
          BY <4>3, <4>4 DEF LowBitsZero
        <5>2. w[2] % 65536 = 0 <=> w[2] = 0
          BY <2>1
        <5> QED
          BY <3>1, <3>4, <4>1, <4>4, <5>1, <5>2
      <4>5. CASE r # 0
        <5>1. ~(pad <= 16) /\ pad - 16 = r
          BY <2>2, <4>3, <4>5
        <5>2. LowBitsZero(w, pad) <=> w[2] = 0 /\ w[1] % 2^r = 0
          BY <5>1 DEF LowBitsZero
        <5> QED
          BY <3>0, <3>4, <4>1, <4>2, <4>5, <5>2
      <4> QED
        BY <4>4, <4>5
    <3>5. CASE k = 3
      <4>1. full <=> w[2] = 0 /\ w[1] % 256 = 0
        <5>1. \A i \in (len - k)..(len - 1) : i = len - 1 \/ i = len - 2 \/ i = len - 3
          BY <2>1, <3>5
        <5>2. /\ len - 1 \in (len - k)..(len - 1) /\ len - 2 \in (len - k)..(len - 1)
              /\ len - 3 \in (len - k)..(len - 1)
          BY <2>1, <3>5
        <5>3. w[2] = 0 <=> w[2] % 256 = 0 /\ w[2] \div 256 = 0
          BY <2>1
        <5> QED
          BY <2>4, <5>1, <5>2, <5>3
      <4>2. part <=> (w[1] \div 256) % 2^r = 0
        <5>1. len - k - 1 = len - 4
          BY <2>1, <3>5
        <5> QED
          BY <2>4, <5>1
      <4>3. ~(pad <= 16) /\ pad - 16 = 8 + r
        BY <2>2, <3>5
      <4>4. LowBitsZero(w, pad) <=> w[2] = 0 /\ w[1] % 2^(8 + r) = 0
        BY <4>3 DEF LowBitsZero
      <4>5. r = 0 => 2^(8 + r) = 256
        BY <3>1
      <4> QED
        BY <3>0, <3>5, <4>1, <4>2, <4>4, <4>5
    <3> QED
      BY <2>2, <3>2, <3>3, <3>4, <3>5
  <2> HIDE DEF n, w, len, k, r, full, part
  <2> QED
    BY <2>3, <2>5, <2>6 DEF Ok
<1> QED
  BY <1>1, <1>2, <1>3

-----------------------------------------------------------------------------
(* The whole packet: prologue, then body.                                  *)

\* What the checks of the prologue can return.
PrologueVerdict ==
  {Ok, "UnsupportedPacketType", "InvalidTsi", "InvalidTsf", "MissingClassId",
   "ReservedBitsNonZero", "InvalidOui", "UnknownInformationClass", "UnknownPacketClass",
   "PacketTypeNotAvailableInStandard", "PacketClassNotAvailableInStandard",
   "PacketTypeClassMismatch", "InvalidHeaderBits", "PacketClassNotInInformationClass",
   "InvalidTsfForPacketClass"}

LEMMA HeaderVerdict ==
  ASSUME NEW w
  PROVE  HeaderError(w) \in PrologueVerdict
<1>1. /\ Expect(w[1] \div 4096 \in PacketType, "UnsupportedPacketType") \in PrologueVerdict
      /\ Expect((w[1] \div 64) % 4 \in Tsi, "InvalidTsi") \in PrologueVerdict
      /\ Expect((w[1] \div 16) % 4 \in Tsf, "InvalidTsf") \in PrologueVerdict
  BY DEF Expect, PrologueVerdict
<1> QED
  BY <1>1, ThenVerdict DEF HeaderError

LEMMA ClassIdVerdict ==
  ASSUME NEW w0, NEW w1
  PROVE  ClassIdError(w0, w1) \in PrologueVerdict
<1>1. /\ Expect((w0[1] \div 256) % 8 = 0, "ReservedBitsNonZero") \in PrologueVerdict
      /\ Expect(<<w0[1] % 256, w0[2]>> = DIFI_CID, "InvalidOui") \in PrologueVerdict
      /\ Expect(w1[1] \in InformationClassCode, "UnknownInformationClass") \in PrologueVerdict
      /\ Expect(w1[2] \in PacketClassCode, "UnknownPacketClass") \in PrologueVerdict
  BY DEF Expect, PrologueVerdict
<1> QED
  BY <1>1, ThenVerdict DEF ClassIdError

\* The profile knows every packet type, so its match has an arm for each.
LEMMA HeaderBitsVerdict ==
  ASSUME NEW header, header.packet_type \in PacketType, NEW class
  PROVE  ValidateHeaderBits(header, class) \in PrologueVerdict
<1> DEFINE type == header.packet_type
           bits == CASE type \in {SignalDataWithStreamId, CommandWithStreamId} ->
                          ExpectBits(0, header.type_specific_bits)
                     [] type \in {ContextWithStreamId, VersionWithStreamId} ->
                          Expect(header.type_specific_bits \div 2 = 0, "ReservedBitsNonZero")
                     [] type = ExtensionCommandWithStreamId ->
                          CASE class = SinkCapabilitiesResponse ->
                                 ExpectBits(4, header.type_specific_bits)
                            [] class \in {SinkCapabilitiesQuery, StatusReport} ->
                                 ExpectBits(0, header.type_specific_bits)
                            [] OTHER -> Ok
<1>1. /\ ExpectBits(0, header.type_specific_bits) \in PrologueVerdict
      /\ ExpectBits(4, header.type_specific_bits) \in PrologueVerdict
      /\ Expect(header.type_specific_bits \div 2 = 0, "ReservedBitsNonZero") \in PrologueVerdict
      /\ Expect(header.class_id_indicator, "MissingClassId") \in PrologueVerdict
      /\ Ok \in PrologueVerdict
  BY DEF ExpectBits, Expect, PrologueVerdict
<1>2. bits \in PrologueVerdict
  BY <1>1 DEF PacketType, SignalDataWithStreamId, ContextWithStreamId, VersionWithStreamId,
     CommandWithStreamId, ExtensionCommandWithStreamId, SinkCapabilitiesResponse,
     SinkCapabilitiesQuery, StatusReport
<1>3. ValidateHeaderBits(header, class)
        = (Expect(header.class_id_indicator, "MissingClassId") ?? bits)
  BY DEF ValidateHeaderBits
<1> HIDE DEF bits
<1> QED
  BY <1>1, <1>2, <1>3, ThenVerdict

LEMMA ProfileVerdict ==
  ASSUME NEW o, NEW header, header.packet_type \in PacketType, NEW class_id
  PROVE  ValidatePrologue(o, header, class_id) \in PrologueVerdict
<1> DEFINE info  == class_id.information_class
           class == class_id.packet_class
<1>1. /\ ValidatePacketTypeAvailable(o, header.packet_type) \in PrologueVerdict
      /\ ValidatePacketClassAvailable(o, class) \in PrologueVerdict
      /\ ValidatePacketTypeClass(o, header.packet_type, class) \in PrologueVerdict
      /\ ValidateClassMembership(o, info, class) \in PrologueVerdict
      /\ ValidateTsf(header, class) \in PrologueVerdict
      /\ ValidateTsm(header, info, class) \in PrologueVerdict
  BY DEF ValidatePacketTypeAvailable, ValidatePacketClassAvailable, ValidatePacketTypeClass,
     ValidateClassMembership, ValidateTsf, ValidateTsm, ExpectBits, Expect, PrologueVerdict
<1>2. ValidateHeaderBits(header, class) \in PrologueVerdict
  BY HeaderBitsVerdict
<1> QED
  BY <1>1, <1>2, ThenVerdict DEF ValidatePrologue

\* A check of the prologue that passed leaves enumerators behind.
LEMMA PrologueOk ==
  ASSUME NEW words, NEW o,
         HeaderError(ReadU32(words, 0)) = Ok, ClassIdError(ReadU32(words, 2), ReadU32(words, 3)) = Ok
  PROVE  LET header   == HeaderOf(ReadU32(words, 0))
             class_id == ClassIdOf(ReadU32(words, 2), ReadU32(words, 3))
         IN /\ header.packet_type \in PacketType /\ header.tsf \in Tsf
            /\ class_id.information_class \in InformationClassCode
            /\ class_id.packet_class \in PacketClassCode
<1>1. /\ Expect(ReadU32(words, 0)[1] \div 4096 \in PacketType, "UnsupportedPacketType") = Ok
      /\ Expect((ReadU32(words, 0)[1] \div 16) % 4 \in Tsf, "InvalidTsf") = Ok
  BY ThenOk DEF HeaderError
<1>2. /\ Expect(ReadU32(words, 3)[1] \in InformationClassCode, "UnknownInformationClass") = Ok
      /\ Expect(ReadU32(words, 3)[2] \in PacketClassCode, "UnknownPacketClass") = Ok
  BY ThenOk DEF ClassIdError
<1>3. /\ ReadU32(words, 0)[1] \div 4096 \in PacketType
      /\ (ReadU32(words, 0)[1] \div 16) % 4 \in Tsf
      /\ ReadU32(words, 3)[1] \in InformationClassCode
      /\ ReadU32(words, 3)[2] \in PacketClassCode
  BY <1>1, <1>2 DEF Expect, Ok
<1> QED
  BY <1>3 DEF HeaderOf, ClassIdOf

\* The five bits of the pad bit count.
LEMMA PadBitCount ==
  ASSUME NEW words \in Seq(Word)
  PROVE  ClassIdOf(ReadU32(words, 2), ReadU32(words, 3)).pad_bit_count \in 0..MaxPadBits
<1> DEFINE n == ReadU32(words, 2)[1]
<1>1. n \in Nat /\ n <= 65535
  BY ReadU32Type, WordHalves
<1>2. ClassIdOf(ReadU32(words, 2), ReadU32(words, 3)).pad_bit_count = n \div 2048
  BY DEF ClassIdOf
<1> HIDE DEF n
<1>3. n \div 2048 \in Nat /\ n \div 2048 <= 31
  BY <1>1
<1>4. \A k \in Nat : k <= 31 => k \in 0..MaxPadBits
  BY DEF MaxPadBits
<1> QED
  BY <1>2, <1>3, <1>4

\* The words a signal data packet carries.
PayloadOf(words) == SubSeq(words, PROLOGUE_WORDS + 1, Len(words))

LEMMA PayloadType ==
  ASSUME NEW words \in Seq(Word), Len(words) >= PROLOGUE_WORDS
  PROVE  PayloadOf(words) \in Seq(Word)
BY DEF PayloadOf, PROLOGUE_WORDS

LEMMA DataVerdict ==
  ASSUME NEW o, NEW words \in Seq(Word), Len(words) >= PROLOGUE_WORDS,
         NEW class_id, class_id.pad_bit_count \in 0..MaxPadBits
  PROVE  LET error == DataError(o, words, class_id)
             zero  == PaddingIsZero(PayloadOf(words), class_id.pad_bit_count)
         IN /\ error \in {Ok, "PadBitsNotAllowed", "InvalidPadding", "NonZeroPaddingBits"}
            /\ error = Ok => zero
            /\ error = "NonZeroPaddingBits" => ~zero
<1> DEFINE allowed == Expect(\/ class_id.pad_bit_count = 0
                             \/ PermitsDataPadding(o, class_id.information_class,
                                                   class_id.packet_class),
                             "PadBitsNotAllowed")
           padding == ValidateDataPadding(PayloadOf(words), class_id.pad_bit_count)
<1>1. allowed = Ok \/ allowed = "PadBitsNotAllowed"
  BY DEF Expect
<1>2. DataError(o, words, class_id) = (allowed ?? padding)
  BY DEF DataError, PayloadOf
<1>3. /\ padding \in {Ok, "InvalidPadding", "NonZeroPaddingBits"}
      /\ padding = Ok => PaddingIsZero(PayloadOf(words), class_id.pad_bit_count)
      /\ padding = "NonZeroPaddingBits"
           => ~PaddingIsZero(PayloadOf(words), class_id.pad_bit_count)
  BY PayloadType, PaddingVerdict
<1> HIDE DEF allowed, padding
<1> QED
  BY <1>1, <1>2, <1>3 DEF ??, Ok

\* Every other body refuses pad bits.
LEMMA OthersHaveNoPadding ==
  ASSUME NEW words, NEW size, NEW class_id,
         \/ SignalContextError(words, size, class_id) = Ok
         \/ VersionContextError(words, size, class_id) = Ok
         \/ TimingFlowControlError(words, size, class_id) = Ok
         \/ SinkCapabilitiesQueryError(words, size, class_id) = Ok
         \/ SinkCapabilitiesResponseError(words, size, class_id) = Ok
         \/ StatusReportError(words, size, class_id) = Ok
  PROVE  class_id.pad_bit_count = 0
<1>1. ExpectNoPadding(class_id) = Ok
  BY ThenOk DEF SignalContextError, VersionContextError, TimingFlowControlError,
     SinkCapabilitiesQueryError, SinkCapabilitiesResponseError, CapabilityCommonError,
     StatusReportError
<1> QED
  BY <1>1 DEF ExpectNoPadding, Expect, Ok

\* The error of a body says what is wrong with it.
BodyMeans(error, words, class_id) ==
  /\ error \in {Ok} \cup ParseErrors
  /\ error = "InputTooShort" =>
       class_id.packet_class \in SinkCapabilities /\ Len(words) < 12
  /\ error = "NonZeroPaddingBits" => ~PaddingIsZero(PayloadOf(words), class_id.pad_bit_count)
  /\ error = Ok =>
       IF VariantOf(class_id.packet_class) = "SignalData"
       THEN PaddingIsZero(PayloadOf(words), class_id.pad_bit_count)
       ELSE class_id.pad_bit_count = 0

LEMMA FieldVerdictMeans ==
  /\ FieldVerdict \subseteq {Ok} \cup ParseErrors
  /\ "InputTooShort" \notin FieldVerdict /\ "NonZeroPaddingBits" \notin FieldVerdict
  /\ "InputTooShort" \in ParseErrors
BY DEF FieldVerdict, ParseErrors, Ok

LEMMA BodyVerdict ==
  ASSUME NEW o, NEW words \in Seq(Word), Len(words) >= PROLOGUE_WORDS, NEW class_id,
         class_id.packet_class \in PacketClassCode, class_id.pad_bit_count \in 0..MaxPadBits
  PROVE  BodyMeans(BodyError(o, words, Len(words), class_id), words, class_id)
<1> DEFINE class   == class_id.packet_class
           variant == VariantOf(class)
           error   == BodyError(o, words, Len(words), class_id)
<1> USE DEF StandardFlowSignalData, StandardFlowSignalContext, SampleCountSignalData,
       SampleCountSignalContext, VersionFlowSignalContext, SampleCountTimingFlowControl,
       RealTimeTimingFlowControl, SinkCapabilitiesQuery, SinkCapabilitiesResponse, StatusReport
<1>1. CASE class \in {0, 2}
  <2>1. variant = "SignalData"
    BY <1>1 DEF VariantOf
  <2>2. error = DataError(o, words, class_id)
    BY <2>1 DEF BodyError
  <2>3. {Ok, "PadBitsNotAllowed", "InvalidPadding", "NonZeroPaddingBits"}
          \subseteq ({Ok} \cup ParseErrors) \ {"InputTooShort"}
    BY DEF ParseErrors, Ok
  <2> QED
    BY <2>1, <2>2, <2>3, DataVerdict DEF BodyMeans, Ok
<1>2. CASE class \in {1, 3}
  <2>1. variant = "SignalContext"
    BY <1>2 DEF VariantOf
  <2>2. error = SignalContextError(words, Len(words), class_id)
    BY <2>1 DEF BodyError
  <2> QED
    BY <2>1, <2>2, SignalContextVerdict, OthersHaveNoPadding, FieldVerdictMeans DEF BodyMeans
<1>3. CASE class = 4
  <2>1. variant = "VersionContext"
    BY <1>3 DEF VariantOf
  <2>2. error = VersionContextError(words, Len(words), class_id)
    BY <2>1 DEF BodyError
  <2> QED
    BY <2>1, <2>2, VersionContextVerdict, OthersHaveNoPadding, FieldVerdictMeans DEF BodyMeans
<1>4. CASE class \in {5, 6}
  <2>1. variant = "TimingFlowControl"
    BY <1>4 DEF VariantOf
  <2>2. error = TimingFlowControlError(words, Len(words), class_id)
    BY <2>1 DEF BodyError
  <2> QED
    BY <2>1, <2>2, TimingFlowControlVerdict, OthersHaveNoPadding, FieldVerdictMeans DEF BodyMeans
<1>5. CASE class = 7
  <2>1. variant = "SinkCapabilitiesQuery"
    BY <1>5 DEF VariantOf
  <2>2. error = SinkCapabilitiesQueryError(words, Len(words), class_id)
    BY <2>1 DEF BodyError
  <2>3. class \in SinkCapabilities
    BY <1>5 DEF SinkCapabilities
  <2> QED
    BY <2>1, <2>2, <2>3, SinkCapabilitiesQueryVerdict, OthersHaveNoPadding, FieldVerdictMeans
       DEF BodyMeans, Ok
<1>6. CASE class = 8
  <2>1. variant = "SinkCapabilitiesResponse"
    BY <1>6 DEF VariantOf
  <2>2. error = SinkCapabilitiesResponseError(words, Len(words), class_id)
    BY <2>1 DEF BodyError
  <2>3. class \in SinkCapabilities
    BY <1>6 DEF SinkCapabilities
  <2> QED
    BY <2>1, <2>2, <2>3, SinkCapabilitiesResponseVerdict, OthersHaveNoPadding, FieldVerdictMeans
       DEF BodyMeans, Ok
<1>7. CASE class = 9
  <2>1. variant = "StatusReport"
    BY <1>7 DEF VariantOf
  <2>2. error = StatusReportError(words, Len(words), class_id)
    BY <2>1 DEF BodyError
  <2> QED
    BY <2>1, <2>2, StatusReportVerdict, OthersHaveNoPadding, FieldVerdictMeans DEF BodyMeans
<1>8. class \in 0..9
  BY DEF PacketClassCode
<1> QED
  BY <1>1, <1>2, <1>3, <1>4, <1>5, <1>6, <1>7, <1>8

\* What parse_single_packet makes of a slice as long as its header claims.
LEMMA PacketVerdict ==
  ASSUME NEW o, NEW words \in Seq(Word), Len(words) >= PROLOGUE_WORDS,
         PacketSizeWords(ReadU32(words, 0)) = Len(words)
  PROVE  BodyMeans(PacketError(o, words), words, ClassIdOf(ReadU32(words, 2), ReadU32(words, 3)))
<1> DEFINE header   == HeaderOf(ReadU32(words, 0))
           class_id == ClassIdOf(ReadU32(words, 2), ReadU32(words, 3))
           head     == HeaderError(ReadU32(words, 0))
                         ?? Expect(header.class_id_indicator, "MissingClassId")
                         ?? ClassIdError(ReadU32(words, 2), ReadU32(words, 3))
           prologue == head ?? ValidatePrologue(o, header, class_id)
           body     == BodyError(o, words, Len(words), class_id)
<1>1. PacketError(o, words) = (prologue ?? body)
  BY DEF PacketError, HeaderOf
<1>2. head \in PrologueVerdict
  <2>1. Expect(header.class_id_indicator, "MissingClassId") \in PrologueVerdict
    BY DEF Expect, PrologueVerdict
  <2> QED
    BY <2>1, HeaderVerdict, ClassIdVerdict, ThenVerdict
<1>3. head = Ok => /\ header.packet_type \in PacketType
                   /\ class_id.packet_class \in PacketClassCode
  BY ThenOk, PrologueOk
<1>4. prologue \in PrologueVerdict
  <2>1. head = Ok => ValidatePrologue(o, header, class_id) \in PrologueVerdict
    BY <1>3, ProfileVerdict
  <2> HIDE DEF head
  <2> QED
    BY <1>2, <2>1, ThenVerdict
<1>5. ASSUME prologue = Ok
      PROVE  BodyMeans(body, words, class_id)
  <2>1. head = Ok
    BY <1>5, ThenOk
  <2> QED
    BY <1>3, <2>1, PadBitCount, BodyVerdict
<1>6. /\ PrologueVerdict \subseteq {Ok} \cup ParseErrors
      /\ "InputTooShort" \notin PrologueVerdict /\ "NonZeroPaddingBits" \notin PrologueVerdict
  BY DEF PrologueVerdict, ParseErrors, Ok
<1> HIDE DEF head, prologue, body, class_id
<1>7. CASE prologue = Ok
  BY <1>1, <1>5, <1>7 DEF ??, class_id
<1>8. CASE prologue # Ok
  BY <1>1, <1>4, <1>6, <1>8 DEF ??, BodyMeans, class_id
<1> QED
  BY <1>7, <1>8

-----------------------------------------------------------------------------
(* Framing: the slice that is parsed, and what is left.                    *)

LEMMA FramingVerdict ==
  ASSUME NEW d
  PROVE  FramingError(d) \in {Ok, "InputTooShort", "PacketSizeTooSmall", "PacketTruncated"}
<1> DEFINE S == {Ok, "InputTooShort", "PacketSizeTooSmall", "PacketTruncated"}
           size == PacketSizeWords(ReadU32(d.words, 0))
<1>1. /\ Expect(ByteLen(d) >= PROLOGUE_BYTES, "InputTooShort") \in S
      /\ Expect(size >= PROLOGUE_WORDS, "PacketSizeTooSmall") \in S
      /\ Expect(ByteLen(d) >= WORD_BYTES * size, "PacketTruncated") \in S
  BY DEF Expect
<1> HIDE DEF S, size
<1>2. FramingError(d) \in S
  BY <1>1, ThenVerdict DEF FramingError, size
<1> QED
  BY <1>2 DEF S

\* Framing that passes cuts out as many words as the header claims.
LEMMA FrameFacts ==
  ASSUME NEW d, IsSlice(d), FramingError(d) = Ok
  PROVE  LET size == PacketSizeWords(ReadU32(d.words, 0))
         IN /\ size \in PROLOGUE_WORDS..Len(d.words) /\ size \in Half
            /\ FrameOf(d) \in Seq(Word) /\ Len(FrameOf(d)) = size
            /\ \A i \in 0..(PROLOGUE_WORDS - 1) :
                 ReadU32(FrameOf(d), i) = ReadU32(d.words, i)
<1> DEFINE size == PacketSizeWords(ReadU32(d.words, 0))
<1>1. size \in Half
  BY SizeType DEF IsSlice
<1>2. size >= PROLOGUE_WORDS /\ ByteLen(d) >= WORD_BYTES * size
  <2>1. /\ Expect(size >= PROLOGUE_WORDS, "PacketSizeTooSmall") = Ok
        /\ Expect(ByteLen(d) >= WORD_BYTES * size, "PacketTruncated") = Ok
    BY ThenOk DEF FramingError
  <2> QED
    BY <2>1 DEF Expect, Ok
<1>3. Len(d.words) \in Nat /\ d.extra \in 0..3
  BY DEF IsSlice
<1> HIDE DEF size
<1>4. size \in PROLOGUE_WORDS..Len(d.words)
  <2>1. size \in Nat
    BY <1>1, HalfIsNat
  <2>2. 4 * Len(d.words) + d.extra >= 4 * size /\ size >= 7
    BY <1>2 DEF ByteLen, WORD_BYTES, PROLOGUE_WORDS
  <2> QED
    BY <1>3, <2>1, <2>2 DEF PROLOGUE_WORDS
<1>5. /\ FrameOf(d) \in Seq(Word) /\ Len(FrameOf(d)) = size
      /\ \A j \in 1..size : FrameOf(d)[j] = d.words[j]
  BY <1>3, <1>4 DEF FrameOf, size, IsSlice, PROLOGUE_WORDS
<1>6. ASSUME NEW i \in 0..(PROLOGUE_WORDS - 1)
      PROVE  ReadU32(FrameOf(d), i) = ReadU32(d.words, i)
  <2>1. i < size /\ i < Len(d.words) /\ i + 1 \in 1..size
    BY <1>3, <1>4 DEF PROLOGUE_WORDS
  <2> QED
    BY <1>5, <2>1 DEF ReadU32, HasWord
<1> QED
  BY <1>1, <1>4, <1>5, <1>6 DEF size

\* The remainder is a slice, shorter than what was parsed.
LEMMA RemainderFacts ==
  ASSUME NEW d, IsSlice(d), FramingError(d) = Ok
  PROVE  /\ IsSlice(RemainderOf(d))
         /\ Len(RemainderOf(d).words) = Len(d.words) - PacketSizeWords(ReadU32(d.words, 0))
<1> DEFINE size == PacketSizeWords(ReadU32(d.words, 0))
<1>1. size \in 7..Len(d.words)
  BY FrameFacts DEF PROLOGUE_WORDS
<1>2. RemainderOf(d) = [words |-> SubSeq(d.words, size + 1, Len(d.words)), extra |-> d.extra]
  BY DEF RemainderOf
<1> HIDE DEF size
<1>3. /\ SubSeq(d.words, size + 1, Len(d.words)) \in Seq(Word)
      /\ Len(SubSeq(d.words, size + 1, Len(d.words))) = Len(d.words) - size
  BY <1>1 DEF IsSlice
<1> QED
  BY <1>2, <1>3 DEF IsSlice, size

\* What parse_packet_prefix returns, stage by stage.
LEMMA PrefixReturns ==
  ASSUME NEW d, NEW o
  PROVE  LET result == ParsePacketPrefix(d, o)
         IN /\ result.error = (FramingError(d) ?? PacketError(o, FrameOf(d)))
            /\ result.error = Ok =>
                 result = [error |-> Ok, packet |-> PacketOf(FrameOf(d)),
                           remainder |-> RemainderOf(d)]
BY DEF ParsePacketPrefix

\* The framing is local: a packet parses from its own words as it did in its place.
LEMMA ExactOfFrame ==
  ASSUME NEW d, NEW o, IsSlice(d), ParsePacketPrefix(d, o).error = Ok
  PROVE  ParsePacketExact(Slice(FrameOf(d)), o)
           = [error |-> Ok, packet |-> ParsePacketPrefix(d, o).packet]
<1> DEFINE frame == FrameOf(d)
<1>1. FramingError(d) = Ok /\ PacketError(o, frame) = Ok
  BY PrefixReturns, ThenOk
<1>2. /\ frame \in Seq(Word) /\ Len(frame) \in Nat /\ Len(frame) >= PROLOGUE_WORDS
      /\ PacketSizeWords(ReadU32(frame, 0)) = Len(frame)
  BY <1>1, FrameFacts DEF PROLOGUE_WORDS
<1> HIDE DEF frame
<1>3. ByteLen(Slice(frame)) = 4 * Len(frame)
  BY <1>2 DEF ByteLen, Slice, WORD_BYTES
<1>4. Slice(frame).words = frame /\ Slice(frame).extra = 0
  BY DEF Slice
<1>5. FrameOf(Slice(frame)) = frame
  BY <1>2, <1>4 DEF FrameOf
<1>6. ByteLen(RemainderOf(Slice(frame))) = 0
  <2>1. Len(SubSeq(frame, Len(frame) + 1, Len(frame))) = 0
    BY <1>2
  <2>2. /\ RemainderOf(Slice(frame)).words = SubSeq(frame, Len(frame) + 1, Len(frame))
        /\ RemainderOf(Slice(frame)).extra = 0
    BY <1>2, <1>4 DEF RemainderOf
  <2> QED
    BY <2>1, <2>2 DEF ByteLen, WORD_BYTES
<1>7. FramingError(Slice(frame)) = Ok
  <2>1. /\ ByteLen(Slice(frame)) >= PROLOGUE_BYTES
        /\ Len(frame) >= PROLOGUE_WORDS
        /\ ByteLen(Slice(frame)) >= WORD_BYTES * Len(frame)
    BY <1>2, <1>3 DEF PROLOGUE_BYTES, PROLOGUE_WORDS, WORD_BYTES
  <2> QED
    BY <1>2, <1>4, <2>1 DEF FramingError, Expect, ??
<1>8. ParsePacketPrefix(Slice(frame), o)
        = [error |-> Ok, packet |-> PacketOf(frame), remainder |-> RemainderOf(Slice(frame))]
  BY <1>1, <1>5, <1>7, ThenOk DEF ParsePacketPrefix, frame
<1>9. ParsePacketPrefix(d, o).packet = PacketOf(frame)
  BY PrefixReturns DEF frame
<1> QED
  BY <1>6, <1>8, <1>9 DEF ParsePacketExact, Ok, frame

=============================================================================

---------------------------- MODULE WriterProofs ----------------------------
(***************************************************************************)
(* What write_packet_with_options leaves in a slice, for every packet, IQ  *)
(* request and slice: which words it stores, that all of them have room    *)
(* once the checks passed, and what it leaves alone.                       *)
(***************************************************************************)
EXTENDS IqCodec, PacketTypes, ParserProofs, SequenceTheorems, WellFoundedInduction

-----------------------------------------------------------------------------
(* Stores: all of them inside the first n words.                           *)

GoodStore(n) ==
  {s \in [at: Nat, words: Seq(Seq(Word))] : Len(s.words) = 1 /\ s.at + Len(s.words[1]) <= n}

\* A set of indices has a largest one.
LEMMA LargestIndex ==
  ASSUME NEW n \in Nat, NEW T, T \subseteq 1..n, T # {}
  PROVE  \E i \in T : \A k \in T : k <= i
<1> DEFINE Below == {n - i : i \in T}
<1>1. Below \subseteq Nat /\ Below # {}
  <2>1. \A i \in T : n - i \in Nat
    OBVIOUS
  <2>2. PICK i \in T : TRUE
    OBVIOUS
  <2>3. n - i \in Below
    BY <2>2
  <2> QED
    BY <2>1, <2>3
<1>2. \E x \in Below : \A y \in Below : ~(<<y, x>> \in OpToRel(<, Nat))
  BY <1>1, NatLessThanWellFounded, WFMin
<1>3. PICK x \in Below : \A y \in Below : ~(y < x)
  BY <1>1, <1>2 DEF OpToRel
<1>4. PICK i \in T : x = n - i
  OBVIOUS
<1>5. ASSUME NEW k \in T
      PROVE  k <= i
  <2>1. n - k \in Below /\ k \in Int /\ i \in Int
    OBVIOUS
  <2> QED
    BY <1>3, <1>4, <2>1
<1> QED
  BY <1>5

\* What the stores leave in a slice with room for all of them.
LEMMA AllStored ==
  ASSUME NEW n \in Nat, NEW stores \in Seq(GoodStore(n)), NEW words \in Seq(Word),
         n <= Len(words)
  PROVE  /\ StoresError(stores, words) = Ok
         /\ Stored(stores, words) \in Seq(Word)
         /\ Len(Stored(stores, words)) = Len(words)
         /\ \A j \in 1..Len(words) :
              \/ Stored(stores, words)[j] = words[j] /\ \A i \in DOMAIN stores : ~Covers(stores[i], j)
              \/ \E i \in DOMAIN stores :
                   /\ Covers(stores[i], j)
                   /\ Stored(stores, words)[j] = stores[i].words[1][j - stores[i].at]
<1> DEFINE done   == Done(stores, words)
           At(j)  == {i \in done : Covers(stores[i], j)}
           Top(j) == stores[CHOOSE i \in At(j) : \A k \in At(j) : k <= i]
           f(j)   == IF At(j) = {} THEN words[j] ELSE Top(j).words[1][j - Top(j).at]
<1>1. \A i \in DOMAIN stores :
        /\ stores[i].at \in Nat /\ Len(stores[i].words) = 1
        /\ stores[i].words[1] \in Seq(Word)
        /\ stores[i].at + Len(stores[i].words[1]) <= n
  <2> TAKE i \in DOMAIN stores
  <2>1. stores[i] \in GoodStore(n)
    OBVIOUS
  <2>2. /\ stores[i].at \in Nat /\ stores[i].words \in Seq(Seq(Word))
        /\ Len(stores[i].words) = 1 /\ stores[i].at + Len(stores[i].words[1]) <= n
    BY <2>1 DEF GoodStore
  <2> QED
    BY <2>2
<1>2. Stopped(stores, words) = {}
  <2> SUFFICES ASSUME NEW i \in DOMAIN stores
               PROVE  ~IsMissing(stores[i]) /\ Fits(stores[i], words)
    BY DEF Stopped
  <2>1. stores[i].words # <<>>
    BY <1>1
  <2>2. Fits(stores[i], words)
    BY <1>1 DEF Fits, EndOf
  <2> QED
    BY <2>1, <2>2 DEF IsMissing, None
<1>3. StoresError(stores, words) = Ok /\ done = DOMAIN stores
  BY <1>2 DEF StoresError, Done
<1>4. Stored(stores, words) = [j \in 1..Len(words) |-> f(j)]
  BY DEF Stored
<1>5. ASSUME NEW j \in 1..Len(words), At(j) # {}
      PROVE  \E i \in DOMAIN stores :
               /\ Covers(stores[i], j) /\ f(j) = stores[i].words[1][j - stores[i].at]
  <2>1. \E i \in At(j) : \A k \in At(j) : k <= i
    <3>1. At(j) \subseteq 1..Len(stores) /\ Len(stores) \in Nat
      BY <1>3
    <3> HIDE DEF At
    <3> QED
      BY <1>5, <3>1, LargestIndex
  <2> DEFINE i == CHOOSE i \in At(j) : \A k \in At(j) : k <= i
  <2>2. i \in At(j)
    BY <2>1
  <2> QED
    BY <1>3, <1>5, <2>2
<1>6. ASSUME NEW j \in 1..Len(words)
      PROVE  f(j) \in Word
  <2>1. CASE At(j) = {}
    BY <2>1
  <2>2. CASE At(j) # {}
    <3>1. PICK i \in DOMAIN stores :
            Covers(stores[i], j) /\ f(j) = stores[i].words[1][j - stores[i].at]
      BY <1>5, <2>2
    <3>2. j - stores[i].at \in 1..Len(stores[i].words[1])
      <4>1. stores[i].at \in Nat /\ Len(stores[i].words[1]) \in Nat
        BY <1>1
      <4>2. j \in (stores[i].at + 1)..(stores[i].at + Len(stores[i].words[1]))
        BY <3>1 DEF Covers, EndOf
      <4>3. \A at \in Nat, len \in Nat : j \in (at + 1)..(at + len) => j - at \in 1..len
        OBVIOUS
      <4> QED
        BY <4>1, <4>2, <4>3
    <3>3. stores[i].words[1] \in Seq(Word)
      BY <1>1
    <3>4. stores[i].words[1][j - stores[i].at] \in Word
      BY <3>2, <3>3
    <3> QED
      BY <3>1, <3>4
  <2> QED
    BY <2>1, <2>2
<1> HIDE DEF f
<1>7. /\ Stored(stores, words) \in Seq(Word)
      /\ Len(Stored(stores, words)) = Len(words)
  BY <1>4, <1>6
<1>8. ASSUME NEW j \in 1..Len(words)
      PROVE  \/ Stored(stores, words)[j] = words[j] /\ \A i \in DOMAIN stores : ~Covers(stores[i], j)
             \/ \E i \in DOMAIN stores :
                  /\ Covers(stores[i], j)
                  /\ Stored(stores, words)[j] = stores[i].words[1][j - stores[i].at]
  <2>1. Stored(stores, words)[j] = f(j)
    BY <1>4
  <2>2. CASE At(j) = {}
    BY <1>3, <2>1, <2>2 DEF f
  <2>3. CASE At(j) # {}
    BY <1>5, <2>1, <2>3
  <2> QED
    BY <2>2, <2>3
<1> QED
  BY <1>3, <1>7, <1>8

-----------------------------------------------------------------------------
(* The stores of a packet whose checks passed.                             *)

\* A u64 is two words, and None is no word at all.
LEMMA PairIsSeq ==
  ASSUME NEW v \in Word64
  PROVE  v \in Seq(Word) /\ Len(v) = 2
<1>1. v = <<v[1], v[2]>> /\ v[1] \in Word /\ v[2] \in Word
  BY DEF Word64
<1>2. \A a \in Word, c \in Word : <<a, c>> \in Seq(Word) /\ Len(<<a, c>>) = 2
  OBVIOUS
<1> QED
  BY <1>1, <1>2

LEMMA OptionOf ==
  ASSUME NEW S, NEW option \in Option(S)
  PROVE  /\ Present(option) => option[1] \in S /\ Len(option) = 1 /\ option = <<option[1]>>
         /\ ~Present(option) => option = <<>>
<1>1. option \in Seq(S) /\ Len(option) <= 1
  BY DEF Option
<1>2. CASE option # <<>>
  <2>1. Len(option) = 1
    <3>1. Len(option) \in Nat \ {0}
      BY <1>1, <1>2, EmptySeq
    <3>2. \A k \in Nat \ {0} : k <= 1 => k = 1
      OBVIOUS
    <3> QED
      BY <1>1, <3>1, <3>2
  <2>2. option[1] \in S
    BY <1>1, <2>1
  <2>3. option = <<option[1]>>
    BY <1>1, <2>1
  <2> QED
    BY <1>2, <2>1, <2>2, <2>3 DEF Present, None
<1>3. CASE option = <<>>
  BY <1>3 DEF Present, None
<1> QED
  BY <1>2, <1>3

LEMMA StoreIsGood ==
  ASSUME NEW n \in Nat, NEW at \in Nat, NEW words \in Seq(Word), at + Len(words) <= n
  PROVE  Store(at, words) \in GoodStore(n)
<1>1. <<words>> \in Seq(Seq(Word)) /\ Len(<<words>>) = 1 /\ <<words>>[1] = words
  OBVIOUS
<1>2. Store(at, words) = [at |-> at, words |-> <<words>>]
  BY DEF Store, Some
<1> QED
  BY <1>1, <1>2 DEF GoodStore

LEMMA StoreU32IsGood ==
  ASSUME NEW n \in Nat, NEW at \in Nat, NEW w \in Word, at + 1 <= n
  PROVE  StoreU32(at, w) \in GoodStore(n)
<1>1. <<w>> \in Seq(Word) /\ Len(<<w>>) = 1
  OBVIOUS
<1> QED
  BY <1>1, StoreIsGood DEF StoreU32

LEMMA StoreU64IsGood ==
  ASSUME NEW n \in Nat, NEW at \in Nat, NEW v \in Word64, at + 2 <= n
  PROVE  Store(at, v) \in GoodStore(n)
BY PairIsSeq, StoreIsGood

LEMMA StoreOptU32IsGood ==
  ASSUME NEW n \in Nat, NEW at \in Nat, NEW w \in Option(Word), Present(w), at + 1 <= n
  PROVE  StoreOptU32(at, w) \in GoodStore(n)
<1>1. w \in Seq(Word) /\ Len(w) = 1
  BY OptionOf DEF Option
<1>2. StoreOptU32(at, w) = Store(at, w)
  BY DEF StoreOptU32, Store
<1> QED
  BY <1>1, <1>2, StoreIsGood

LEMMA StoreOptU64IsGood ==
  ASSUME NEW n \in Nat, NEW at \in Nat, NEW pair \in Option(Word64), Present(pair), at + 2 <= n
  PROVE  StoreOptU64(at, pair) \in GoodStore(n)
<1>1. pair[1] \in Word64 /\ pair = <<pair[1]>>
  BY OptionOf
<1>2. StoreOptU64(at, pair) = Store(at, pair[1])
  BY <1>1 DEF StoreOptU64, Store, Some
<1> QED
  BY <1>1, <1>2, StoreU64IsGood

LEMMA OptionalStoreIsGood ==
  ASSUME NEW n \in Nat, NEW at \in Nat, NEW pair \in Option(Word64),
         Present(pair) => at + 2 <= n
  PROVE  OptionalStore(at, pair) \in Seq(GoodStore(n))
<1>1. CASE Present(pair)
  <2>1. Store(at, pair[1]) \in GoodStore(n)
    BY <1>1, OptionOf, StoreU64IsGood
  <2> QED
    BY <1>1, <2>1 DEF OptionalStore
<1>2. CASE ~Present(pair)
  BY <1>2 DEF OptionalStore
<1> QED
  BY <1>1, <1>2

LEMMA CommonStoresAreGood ==
  ASSUME NEW n \in Nat, n >= 11, NEW c \in CommonValue
  PROVE  CommonStores(c) \in Seq(GoodStore(n))
<1>1. /\ StoreU32(7, c.cam) \in GoodStore(n) /\ StoreU32(8, c.message_id) \in GoodStore(n)
      /\ StoreU32(9, c.controllee_id) \in GoodStore(n)
      /\ StoreU32(10, c.controller_id) \in GoodStore(n)
  BY StoreU32IsGood DEF CommonValue
<1> QED
  BY <1>1 DEF CommonStores

LEMMA SignalContextStoresAreGood ==
  ASSUME NEW n \in Nat, n >= 27, NEW b \in SignalContextValue
  PROVE  SignalContextStores(b) \in Seq(GoodStore(n))
<1>1. /\ b.cif0 \in Word /\ b.reference_point \in Word /\ b.timestamp_calibration_time \in Word
      /\ b.state_and_event_indicators \in Word /\ b.payload_format.raw_word0 \in Word
      /\ b.payload_format.raw_word1 \in Word
      /\ <<b.scaling_level, b.reference_level>> \in Word /\ <<b.gain2, b.gain1>> \in Word
  BY DEF SignalContextValue, PayloadFormatValue, Word
<1>2. /\ b.bandwidth \in Word64 /\ b.if_reference_frequency \in Word64
      /\ b.rf_reference_frequency \in Word64 /\ b.if_band_offset \in Word64
      /\ b.sample_rate \in Word64 /\ b.timestamp_adjustment \in Word64
  BY DEF SignalContextValue
<1>3. /\ StoreU32(7, b.cif0) \in GoodStore(n) /\ StoreU32(8, b.reference_point) \in GoodStore(n)
      /\ StoreU32(17, <<b.scaling_level, b.reference_level>>) \in GoodStore(n)
      /\ StoreU32(18, <<b.gain2, b.gain1>>) \in GoodStore(n)
      /\ StoreU32(23, b.timestamp_calibration_time) \in GoodStore(n)
      /\ StoreU32(24, b.state_and_event_indicators) \in GoodStore(n)
      /\ StoreU32(25, b.payload_format.raw_word0) \in GoodStore(n)
      /\ StoreU32(26, b.payload_format.raw_word1) \in GoodStore(n)
  BY <1>1, StoreU32IsGood
<1>4. /\ Store(9, b.bandwidth) \in GoodStore(n)
      /\ Store(11, b.if_reference_frequency) \in GoodStore(n)
      /\ Store(13, b.rf_reference_frequency) \in GoodStore(n)
      /\ Store(15, b.if_band_offset) \in GoodStore(n) /\ Store(19, b.sample_rate) \in GoodStore(n)
      /\ Store(21, b.timestamp_adjustment) \in GoodStore(n)
  BY <1>2, StoreU64IsGood
<1> QED
  BY <1>3, <1>4 DEF SignalContextStores

LEMMA TimingFlowControlStoresAreGood ==
  ASSUME NEW n \in Nat, n >= 21, NEW b \in TimingFlowControlValue
  PROVE  TimingFlowControlStores(b) \in Seq(GoodStore(n))
<1>1. /\ b.cif0 \in Word /\ b.cif1 \in Word /\ b.reference_point \in Word
      /\ b.sample_rate \in Word64 /\ b.timestamp_adjustment \in Word64
      /\ b.buffer_size_bytes \in Word64 /\ b.buffer_status.raw \in Word /\ b.common \in CommonValue
  BY DEF TimingFlowControlValue, BufferStatusValue
<1>2. /\ StoreU32(11, b.cif0) \in GoodStore(n) /\ StoreU32(12, b.cif1) \in GoodStore(n)
      /\ StoreU32(13, b.reference_point) \in GoodStore(n)
      /\ StoreU32(20, b.buffer_status.raw) \in GoodStore(n)
  BY <1>1, StoreU32IsGood
<1>3. /\ Store(14, b.sample_rate) \in GoodStore(n)
      /\ Store(16, b.timestamp_adjustment) \in GoodStore(n)
      /\ Store(18, b.buffer_size_bytes) \in GoodStore(n)
  BY <1>1, StoreU64IsGood
<1>4. CommonStores(b.common) \in Seq(GoodStore(n))
  BY <1>1, CommonStoresAreGood
<1> QED
  BY <1>2, <1>3, <1>4 DEF TimingFlowControlStores

\* The three shapes of the optional limits: both frequencies or none, and not alone.
LEMMA ShapesOfLimits ==
  ASSUME NEW b, StatusShape(b) \in StatusShapes
  PROVE  /\ Present(b.sample_rate_limit) <=> Present(b.bandwidth_limit)
         /\ Present(b.sample_rate_limit) => Present(b.reference_level_limit)
<1> DEFINE p == Present(b.reference_level_limit)
           q == Present(b.sample_rate_limit)
           r == Present(b.bandwidth_limit)
<1>1. p \in BOOLEAN /\ q \in BOOLEAN /\ r \in BOOLEAN
  BY DEF Present
<1>2. \/ <<p, q, r>> = <<FALSE, FALSE, FALSE>>
      \/ <<p, q, r>> = <<TRUE, FALSE, FALSE>>
      \/ <<p, q, r>> = <<TRUE, TRUE, TRUE>>
  BY DEF StatusShape, StatusShapes
<1> HIDE DEF p, q, r
<1>3. \/ p = FALSE /\ q = FALSE /\ r = FALSE
      \/ p = TRUE /\ q = FALSE /\ r = FALSE
      \/ p = TRUE /\ q = TRUE /\ r = TRUE
  BY <1>1, <1>2
<1> QED
  BY <1>1, <1>3 DEF p, q, r

\* The limits come in the combinations that fill the size they announce.
LEMMA StatusReportStoresAreGood ==
  ASSUME NEW b \in StatusReportValue, StatusShape(b) \in StatusShapes
  PROVE  StatusReportStores(b) \in Seq(GoodStore(StatusReportWords(b)))
<1> DEFINE n == StatusReportWords(b)
<1>1. /\ n \in {15, 17, 21}
      /\ Present(b.reference_level_limit) => n >= 17
      /\ Present(b.sample_rate_limit) => n >= 21
      /\ Present(b.bandwidth_limit) => n >= 21
  BY ShapesOfLimits DEF StatusReportWords
<1> HIDE DEF n
<1>2. n \in Nat /\ n >= 15
  BY <1>1
<1>3. /\ b.cif0 \in Word /\ b.cif1 \in Word /\ b.packet_errors \in Word
      /\ b.sink_errors_warnings \in Word /\ b.common \in CommonValue
      /\ b.reference_level_limit \in Option(Word64) /\ b.sample_rate_limit \in Option(Word64)
      /\ b.bandwidth_limit \in Option(Word64)
  BY DEF StatusReportValue
<1>4. /\ StoreU32(11, b.cif0) \in GoodStore(n) /\ StoreU32(12, b.cif1) \in GoodStore(n)
      /\ StoreU32(13, b.packet_errors) \in GoodStore(n)
      /\ StoreU32(14, b.sink_errors_warnings) \in GoodStore(n)
  <2>1. 11 + 1 <= n /\ 12 + 1 <= n /\ 13 + 1 <= n /\ 14 + 1 <= n
    BY <1>2
  <2>2. /\ b.cif0 \in Word /\ b.cif1 \in Word /\ b.packet_errors \in Word
        /\ b.sink_errors_warnings \in Word
    BY <1>3
  <2> QED
    BY <1>2, <2>1, <2>2, StoreU32IsGood
<1>5. /\ OptionalStore(15, b.reference_level_limit) \in Seq(GoodStore(n))
      /\ OptionalStore(17, b.sample_rate_limit) \in Seq(GoodStore(n))
      /\ OptionalStore(19, b.bandwidth_limit) \in Seq(GoodStore(n))
  <2>1. /\ Present(b.reference_level_limit) => 15 + 2 <= n
        /\ Present(b.sample_rate_limit) => 17 + 2 <= n
        /\ Present(b.bandwidth_limit) => 19 + 2 <= n
    BY <1>1
  <2> QED
    BY <1>2, <1>3, <2>1, OptionalStoreIsGood
<1>6. CommonStores(b.common) \in Seq(GoodStore(n))
  BY <1>2, <1>3, CommonStoresAreGood
<1> QED
  BY <1>4, <1>5, <1>6 DEF StatusReportStores, n

\* The halves of a word.
LEMMA HalfOf ==
  /\ \A k \in Nat : k <= 65535 => k \in Half
  /\ \A k \in Half : k \in Nat /\ k <= 65535
  /\ \A k \in Byte : k \in Nat /\ k <= 255
  /\ \A hi \in Half, lo \in Half : <<hi, lo>> \in Word
<1>0. \A k \in Nat : k <= 65535 => k \in Half
  <2> DEFINE max == 65535
  <2>1. max \in Nat
    OBVIOUS
  <2>2. Half = 0..max
    BY DEF Half
  <2> HIDE DEF max
  <2>3. \A k \in Nat : k <= max => k \in Half
    BY <2>1, <2>2
  <2> QED
    BY <2>3 DEF max
<1>1. Half \subseteq Nat
  <2> DEFINE max == 65535
  <2>1. Half = 0..max
    BY DEF Half
  <2> HIDE DEF max
  <2> QED
    BY <2>1
<1>2. \A k \in Nat : k > 65535 => k \notin Half
  <2> DEFINE max == 65535
  <2>1. max \in Nat
    OBVIOUS
  <2>2. Half = 0..max
    BY DEF Half
  <2> HIDE DEF max
  <2>3. \A k \in Nat : k > max => k \notin Half
    BY <2>1, <2>2
  <2> QED
    BY <2>3 DEF max
<1>3. \A k \in Byte : k \in Nat /\ k <= 255
  BY DEF Byte
<1>4. \A hi \in Half, lo \in Half : <<hi, lo>> \in Word
  BY DEF Word
<1> QED
  BY <1>0, <1>1, <1>2, <1>3, <1>4

LEMMA VersionContextStoresAreGood ==
  ASSUME NEW n \in Nat, n >= 11, NEW b \in VersionContextValue,
         b.year <= 127, b.day <= 511, b.revision <= 63, b.device_type = 0
  PROVE  VersionContextStores(b) \in Seq(GoodStore(n))
<1> DEFINE hi == 512 * b.year + b.day
           lo == 1024 * b.revision + 64 * b.device_type + b.icd_version
<1>1. /\ b.cif0 \in Word /\ b.cif1 \in Word /\ b.vita49_spec_version \in Word
      /\ b.year \in Byte /\ b.day \in Half /\ b.revision \in Byte /\ b.icd_version = Version1
  BY DEF VersionContextValue
<1>2. b.year \in Nat /\ b.day \in Nat /\ b.revision \in Nat /\ b.icd_version = 0
  BY <1>1, HalfOf DEF Version1
<1>3. <<hi, lo>> \in Word
  <2>1. hi \in Nat /\ hi <= 65535
    BY <1>2
  <2>2. lo \in Nat /\ lo <= 65535
    BY <1>2
  <2> HIDE DEF hi, lo
  <2> QED
    BY <2>1, <2>2, HalfOf
<1> HIDE DEF hi, lo
<1>4. /\ StoreU32(7, b.cif0) \in GoodStore(n) /\ StoreU32(8, b.cif1) \in GoodStore(n)
      /\ StoreU32(9, b.vita49_spec_version) \in GoodStore(n)
      /\ StoreU32(10, <<hi, lo>>) \in GoodStore(n)
  BY <1>1, <1>3, StoreU32IsGood
<1> QED
  BY <1>4 DEF VersionContextStores, hi, lo

\* A form has the optional fields its stores need, once the checks passed.
LEMMA QueryStoresAreGood ==
  ASSUME NEW b \in SinkCapabilitiesQueryValue, NEW class_id, NEW size,
         SinkCapabilitiesQueryWriteError(b, class_id, size) = Ok,
         NEW n \in Nat, n = IF b.form = "Long" THEN 13 ELSE 15
  PROVE  SinkCapabilitiesQueryStores(b) \in Seq(GoodStore(n))
<1>1. /\ b.common \in CommonValue /\ b.cif0 \in Word /\ b.cif1 \in Option(Word)
      /\ b.sink_time_calibration_integer \in Option(Word)
      /\ b.sink_time_calibration_fractional \in Option(Word64)
  BY DEF SinkCapabilitiesQueryValue
<1>2. CommonStores(b.common) \in Seq(GoodStore(n)) /\ StoreU32(11, b.cif0) \in GoodStore(n)
  <2>1. n >= 11 /\ 11 + 1 <= n
    OBVIOUS
  <2> QED
    BY <1>1, <2>1, CommonStoresAreGood, StoreU32IsGood
<1>3. CASE b.form = "Long"
  <2>1. Required(<<b.cif1>>) = Ok
    BY <1>3, ThenOk DEF SinkCapabilitiesQueryWriteError
  <2>2. Present(b.cif1)
    BY <2>1 DEF Required, Expect, Ok
  <2>3. StoreOptU32(12, b.cif1) \in GoodStore(n)
    BY <1>1, <1>3, <2>2, StoreOptU32IsGood
  <2> QED
    BY <1>2, <1>3, <2>3 DEF SinkCapabilitiesQueryStores
<1>4. CASE b.form # "Long"
  <2>1. QueryShortFields(b) = Ok
    BY <1>4, ThenOk DEF SinkCapabilitiesQueryWriteError
  <2>2. /\ Present(b.sink_time_calibration_integer)
        /\ Present(b.sink_time_calibration_fractional)
    BY <2>1 DEF QueryShortFields, Required, Expect, Ok
  <2>3. /\ StoreOptU32(12, b.sink_time_calibration_integer) \in GoodStore(n)
        /\ StoreOptU64(13, b.sink_time_calibration_fractional) \in GoodStore(n)
    <3>1. 12 + 1 <= n /\ 13 + 2 <= n
      BY <1>4
    <3> QED
      BY <1>1, <2>2, <3>1, StoreOptU32IsGood, StoreOptU64IsGood
  <2> QED
    BY <1>2, <1>4, <2>3 DEF SinkCapabilitiesQueryStores
<1> QED
  BY <1>3, <1>4

LEMMA ResponseStoresAreGood ==
  ASSUME NEW b \in SinkCapabilitiesResponseValue, NEW class_id, NEW size,
         SinkCapabilitiesResponseWriteError(b, class_id, size) = Ok,
         NEW n \in Nat,
         n = IF b.form = "Long" THEN 13 + Len(b.capability_table.words) ELSE 18
  PROVE  SinkCapabilitiesResponseStores(b) \in Seq(GoodStore(n))
<1>1. /\ b.common \in CommonValue /\ b.cif0 \in Word /\ b.cif1 \in Option(Word)
      /\ b.control_packet_integer_timestamp \in Option(Word)
      /\ b.control_packet_fractional_timestamp \in Option(Word64)
      /\ b.sink_reception_integer_timestamp \in Option(Word)
      /\ b.sink_reception_fractional_timestamp \in Option(Word64)
      /\ b.capability_table.words \in Seq(Word)
  BY DEF SinkCapabilitiesResponseValue, Bytes
<1>2. n >= 13
  <2>1. Len(b.capability_table.words) \in Nat
    BY <1>1
  <2> QED
    BY <2>1
<1>3. CommonStores(b.common) \in Seq(GoodStore(n)) /\ StoreU32(11, b.cif0) \in GoodStore(n)
  <2>1. n >= 11 /\ 11 + 1 <= n
    BY <1>2
  <2> QED
    BY <1>1, <2>1, CommonStoresAreGood, StoreU32IsGood
<1>4. CASE b.form = "Long"
  <2>1. Required(<<b.cif1>>) = Ok
    BY <1>4, ThenOk DEF SinkCapabilitiesResponseWriteError
  <2>2. Present(b.cif1)
    BY <2>1 DEF Required, Expect, Ok
  <2>3. StoreOptU32(12, b.cif1) \in GoodStore(n)
    <3>1. b.cif1 \in Option(Word) /\ 12 + 1 <= n
      BY <1>1, <1>2
    <3> QED
      BY <2>2, <3>1, StoreOptU32IsGood
  <2>4. Store(13, b.capability_table.words) \in GoodStore(n)
    BY <1>1, <1>4, StoreIsGood
  <2> QED
    BY <1>3, <1>4, <2>3, <2>4 DEF SinkCapabilitiesResponseStores
<1>5. CASE b.form # "Long"
  <2>1. Required(ResponseTimestamps(b)) = Ok
    BY <1>5, ThenOk DEF SinkCapabilitiesResponseWriteError
  <2>2. /\ Present(b.control_packet_integer_timestamp)
        /\ Present(b.control_packet_fractional_timestamp)
        /\ Present(b.sink_reception_integer_timestamp)
        /\ Present(b.sink_reception_fractional_timestamp)
    BY <2>1 DEF ResponseTimestamps, Required, Expect, Ok
  <2>3. /\ StoreOptU32(12, b.control_packet_integer_timestamp) \in GoodStore(n)
        /\ StoreOptU64(13, b.control_packet_fractional_timestamp) \in GoodStore(n)
        /\ StoreOptU32(15, b.sink_reception_integer_timestamp) \in GoodStore(n)
        /\ StoreOptU64(16, b.sink_reception_fractional_timestamp) \in GoodStore(n)
    BY <1>1, <1>5, <2>2, StoreOptU32IsGood, StoreOptU64IsGood
  <2> QED
    BY <1>3, <1>5, <2>3 DEF SinkCapabilitiesResponseStores
<1> QED
  BY <1>4, <1>5

\* The prologue: the header word, and the class identifier the checks let through.
LEMMA HeaderWordType ==
  ASSUME NEW type \in PacketType, NEW tsb \in {0, 1, 4}, NEW tsi \in Tsi, NEW tsf \in Tsf,
         NEW sequence \in Nat, sequence <= 15, NEW size \in Half
  PROVE  HeaderWord(type, tsb, tsi, tsf, sequence, size) \in Word
<1> DEFINE hi == 4096 * type + 2048 + 256 * tsb + 64 * tsi + 16 * tsf + sequence
<1>1. /\ type \in Nat /\ type <= 7 /\ tsb \in Nat /\ tsb <= 4
      /\ tsi \in Nat /\ tsi <= 3 /\ tsf \in Nat /\ tsf <= 2
  BY DEF PacketType, SignalDataWithStreamId, ContextWithStreamId, VersionWithStreamId,
     CommandWithStreamId, ExtensionCommandWithStreamId, Tsi, Tsf, SampleCount,
     RealTimePicoseconds
<1>2. hi \in Nat /\ hi <= 65535
  BY <1>1
<1> HIDE DEF hi
<1>3. hi \in Half
  BY <1>2, HalfOf
<1> QED
  BY <1>3, HalfOf DEF HeaderWord, hi

LEMMA ClassIdWordsType ==
  ASSUME NEW c \in ClassIdValue, ValidateClassId(c) = Ok
  PROVE  ClassIdWords(c)[1] \in Word /\ ClassIdWords(c)[2] \in Word
<1> DEFINE hi == 2048 * c.pad_bit_count + 106
<1>1. /\ Expect(c.pad_bit_count <= MaxPadBits, "FieldOutOfRange") = Ok
      /\ Expect(c.oui = DIFI_CID, "FieldMismatch") = Ok
  BY ThenOk DEF ValidateClassId
<1>2. c.pad_bit_count <= 31 /\ c.oui = DIFI_CID
  BY <1>1 DEF Expect, Ok, MaxPadBits
<1>3. /\ c.pad_bit_count \in Byte /\ c.information_class \in InformationClassCode
      /\ c.packet_class \in PacketClassCode
  BY DEF ClassIdValue
<1>4. hi \in Nat /\ hi <= 65535
  BY <1>2, <1>3 DEF Byte
<1>5. /\ c.information_class \in Nat /\ c.information_class <= 65535
      /\ c.packet_class \in Nat /\ c.packet_class <= 65535
  BY <1>3 DEF InformationClassCode, PacketClassCode
<1> HIDE DEF hi
<1>6. hi \in Half /\ 25118 \in Half /\ c.information_class \in Half /\ c.packet_class \in Half
  BY <1>4, <1>5, HalfOf
<1>7. <<hi, 25118>> \in Word /\ <<c.information_class, c.packet_class>> \in Word
  BY <1>6, HalfOf
<1>8. ClassIdWords(c) = <<<<hi, 25118>>, <<c.information_class, c.packet_class>>>>
  <2>1. c.oui[1] = 106 /\ c.oui[2] = 25118
    BY <1>2 DEF DIFI_CID
  <2> QED
    BY <2>1 DEF ClassIdWords, hi
<1> QED
  BY <1>7, <1>8

-----------------------------------------------------------------------------
(* What the checks can return.                                             *)

WriteVerdict == WriteErrors \cup {Ok}

LEMMA WriteFieldVerdicts ==
  /\ \A holds : \A error \in WriteErrors : Expect(holds, error) \in WriteVerdict
  /\ \A layout, size : ExpectPacketSize(layout, size) \in WriteVerdict
  /\ \A size : ValidateStatusReportSize(size) \in WriteVerdict
  /\ \A class_id : ExpectNoPadding(class_id) \in WriteVerdict
  /\ \A field, word : ExpectFixed(field, word) \in WriteVerdict
  /\ \A word : ExpectSignalContextCif0(word) \in WriteVerdict
  /\ \A word : ExpectVersionContextCif0(word) \in WriteVerdict
  /\ \A pair : IntegerHz(pair) \in WriteVerdict
  /\ \A options : Required(options) \in WriteVerdict /\ Forbidden(options) \in WriteVerdict
<1>1. \A holds : \A error \in WriteErrors : Expect(holds, error) \in WriteVerdict
  BY DEF Expect, WriteVerdict
<1>2. /\ "InvalidPacketSize" \in WriteErrors /\ "InvalidPacketSizeSet" \in WriteErrors
      /\ "PadBitsNotAllowed" \in WriteErrors /\ "InvalidFieldValue" \in WriteErrors
      /\ "InvalidFieldValueSet" \in WriteErrors /\ "FractionalHzNotAllowed" \in WriteErrors
      /\ "MissingField" \in WriteErrors /\ "UnexpectedField" \in WriteErrors
  BY DEF WriteErrors
<1>3. \A layout, size : ExpectPacketSize(layout, size) \in WriteVerdict
  BY <1>1, <1>2 DEF ExpectPacketSize
<1>4. \A size : ValidateStatusReportSize(size) \in WriteVerdict
  BY <1>1, <1>2 DEF ValidateStatusReportSize
<1>5. \A class_id : ExpectNoPadding(class_id) \in WriteVerdict
  BY <1>1, <1>2 DEF ExpectNoPadding
<1>6. \A field, word : ExpectFixed(field, word) \in WriteVerdict
  BY <1>1, <1>2 DEF ExpectFixed, ExpectWord
<1>7. \A word : /\ ExpectSignalContextCif0(word) \in WriteVerdict
                /\ ExpectVersionContextCif0(word) \in WriteVerdict
  BY <1>1, <1>2 DEF ExpectSignalContextCif0, ExpectVersionContextCif0, ExpectWordOneOf
<1>8. \A pair : IntegerHz(pair) \in WriteVerdict
  BY <1>1, <1>2 DEF IntegerHz
<1>9. \A options : Required(options) \in WriteVerdict /\ Forbidden(options) \in WriteVerdict
  BY <1>1, <1>2 DEF Required, Forbidden
<1> QED
  BY <1>1, <1>3, <1>4, <1>5, <1>6, <1>7, <1>8, <1>9

\* The profile's verdict on a header that has its class identifier.
LEMMA ProfileWriteVerdict ==
  ASSUME NEW o, NEW header, header.packet_type \in PacketType, header.class_id_indicator,
         NEW class_id
  PROVE  ValidatePrologue(o, header, class_id) \in WriteVerdict
<1> DEFINE info  == class_id.information_class
           class == class_id.packet_class
           type == header.packet_type
           bits == CASE type \in {SignalDataWithStreamId, CommandWithStreamId} ->
                          ExpectBits(0, header.type_specific_bits)
                     [] type \in {ContextWithStreamId, VersionWithStreamId} ->
                          Expect(header.type_specific_bits \div 2 = 0, "ReservedBitsNonZero")
                     [] type = ExtensionCommandWithStreamId ->
                          CASE class = SinkCapabilitiesResponse ->
                                 ExpectBits(4, header.type_specific_bits)
                            [] class \in {SinkCapabilitiesQuery, StatusReport} ->
                                 ExpectBits(0, header.type_specific_bits)
                            [] OTHER -> Ok
<1>1. /\ "PacketTypeNotAvailableInStandard" \in WriteErrors
      /\ "PacketClassNotAvailableInStandard" \in WriteErrors
      /\ "PacketTypeClassMismatch" \in WriteErrors /\ "InvalidHeaderBits" \in WriteErrors
      /\ "ReservedBitsNonZero" \in WriteErrors
      /\ "PacketClassNotInInformationClass" \in WriteErrors
      /\ "InvalidTsfForPacketClass" \in WriteErrors
  BY DEF WriteErrors
<1>2. /\ ValidatePacketTypeAvailable(o, header.packet_type) \in WriteVerdict
      /\ ValidatePacketClassAvailable(o, class) \in WriteVerdict
      /\ ValidatePacketTypeClass(o, header.packet_type, class) \in WriteVerdict
      /\ ValidateClassMembership(o, info, class) \in WriteVerdict
      /\ ValidateTsf(header, class) \in WriteVerdict
  BY <1>1, WriteFieldVerdicts DEF ValidatePacketTypeAvailable, ValidatePacketClassAvailable,
     ValidatePacketTypeClass, ValidateClassMembership, ValidateTsf
<1>3. \A expected, actual : ExpectBits(expected, actual) \in WriteVerdict
  BY <1>1, WriteFieldVerdicts DEF ExpectBits
<1>4. /\ ValidateTsm(header, info, class) \in WriteVerdict
      /\ Expect(header.type_specific_bits \div 2 = 0, "ReservedBitsNonZero") \in WriteVerdict
      /\ Ok \in WriteVerdict
  BY <1>1, <1>3, WriteFieldVerdicts DEF ValidateTsm, WriteVerdict
<1>5. bits \in WriteVerdict
  BY <1>3, <1>4 DEF PacketType, SignalDataWithStreamId, ContextWithStreamId,
     VersionWithStreamId, CommandWithStreamId, ExtensionCommandWithStreamId,
     SinkCapabilitiesResponse, SinkCapabilitiesQuery, StatusReport
<1>6. ValidateHeaderBits(header, class)
        = (Expect(header.class_id_indicator, "MissingClassId") ?? bits)
  BY DEF ValidateHeaderBits
<1> HIDE DEF bits
<1>7. ValidateHeaderBits(header, class) \in WriteVerdict
  BY <1>5, <1>6 DEF Expect, ??
<1> QED
  BY <1>2, <1>4, <1>7, ThenVerdict DEF ValidatePrologue

\* The parts of a packet: its fields have the types of its variant.
LEMMA PacketParts ==
  ASSUME NEW p \in PacketValue
  PROVE  /\ p.prologue \in PrologueValue
         /\ \/ p.variant = "SignalData" /\ p.body \in SignalDataValue
            \/ p.variant = "SignalContext" /\ p.body \in SignalContextValue
            \/ p.variant = "VersionContext" /\ p.body \in VersionContextValue
            \/ p.variant = "TimingFlowControl" /\ p.body \in TimingFlowControlValue
            \/ p.variant = "SinkCapabilitiesQuery" /\ p.body \in SinkCapabilitiesQueryValue
            \/ p.variant = "SinkCapabilitiesResponse" /\ p.body \in SinkCapabilitiesResponseValue
            \/ p.variant = "StatusReport" /\ p.body \in StatusReportValue
<1>1. \A variant, bodies : p \in PacketOfVariant(variant, bodies) =>
        p.variant = variant /\ p.prologue \in PrologueValue /\ p.body \in bodies
  BY DEF PacketOfVariant
<1> QED
  BY <1>1 DEF PacketValue

LEMMA SignalDataWriteVerdict ==
  ASSUME NEW o, NEW b, b.payload.words \in Seq(Word),
         NEW class_id, class_id.pad_bit_count \in 0..MaxPadBits
  PROVE  SignalDataWriteError(o, b, class_id) \in WriteVerdict
<1>1. "PadBitsNotAllowed" \in WriteErrors
  BY DEF WriteErrors
<1>2. \A holds : Expect(holds, "PadBitsNotAllowed") \in WriteVerdict
  BY <1>1, WriteFieldVerdicts
<1>3. WrittenDataPadding(b.payload.words, class_id.pad_bit_count) \in WriteVerdict
  <2>1. ValidateDataPadding(b.payload.words, class_id.pad_bit_count)
          \in {Ok, "InvalidPadding", "NonZeroPaddingBits"}
    BY PaddingVerdict
  <2> QED
    BY <2>1 DEF WrittenDataPadding, WriteVerdict, WriteErrors
<1> QED
  BY <1>2, <1>3, ThenVerdict DEF SignalDataWriteError

LEMMA BodyWriteVerdicts ==
  /\ \A b, class_id, size : SignalContextWriteError(b, class_id, size) \in WriteVerdict
  /\ \A b, class_id, size : VersionContextWriteError(b, class_id, size) \in WriteVerdict
  /\ \A b, class_id, size : TimingFlowControlWriteError(b, class_id, size) \in WriteVerdict
  /\ \A b, class_id, size : SinkCapabilitiesQueryWriteError(b, class_id, size) \in WriteVerdict
  /\ \A b, class_id, size : SinkCapabilitiesResponseWriteError(b, class_id, size) \in WriteVerdict
  /\ \A b, class_id, size : StatusReportWriteError(b, class_id, size) \in WriteVerdict
<1>1. /\ "FieldOutOfRange" \in WriteErrors /\ "FieldMismatch" \in WriteErrors
      /\ "InvalidPacketSize" \in WriteErrors /\ "UnexpectedField" \in WriteErrors
  BY DEF WriteErrors
<1>2. \A holds : /\ Expect(holds, "FieldOutOfRange") \in WriteVerdict
                 /\ Expect(holds, "FieldMismatch") \in WriteVerdict
                 /\ Expect(holds, "InvalidPacketSize") \in WriteVerdict
                 /\ Expect(holds, "UnexpectedField") \in WriteVerdict
  BY <1>1, WriteFieldVerdicts
<1>3. ASSUME NEW b, NEW class_id, NEW size
      PROVE  SignalContextWriteError(b, class_id, size) \in WriteVerdict
  <2>1. PayloadFormatWriteError(b.payload_format) \in WriteVerdict
    <3> DEFINE f         == b.payload_format
               minus_one == f.data_item_size_bits - 1
               range     == f.data_item_size_bits \in 4..16
               agree     == /\ f.item_packing_field_size_bits = f.data_item_size_bits
                            /\ f.raw_word0 = <<\hA000, 64 * minus_one + minus_one>>
                            /\ f.raw_word1 = <<0, 0>>
    <3>1. PayloadFormatWriteError(f)
            = (Expect(range, "FieldOutOfRange") ?? Expect(agree, "FieldMismatch"))
      BY DEF PayloadFormatWriteError
    <3> HIDE DEF range, agree
    <3> QED
      BY <1>2, <3>1, ThenVerdict
  <2> QED
    BY <1>2, <2>1, WriteFieldVerdicts, ThenVerdict DEF SignalContextWriteError
<1>4. ASSUME NEW b, NEW class_id, NEW size
      PROVE  VersionContextWriteError(b, class_id, size) \in WriteVerdict
  BY <1>2, WriteFieldVerdicts, ThenVerdict DEF VersionContextWriteError
<1>5. ASSUME NEW b, NEW class_id, NEW size
      PROVE  TimingFlowControlWriteError(b, class_id, size) \in WriteVerdict
  <2>1. BufferStatusWriteError(b.buffer_status) \in WriteVerdict
    BY <1>2, ThenVerdict DEF BufferStatusWriteError
  <2> QED
    BY <2>1, WriteFieldVerdicts, ThenVerdict DEF TimingFlowControlWriteError
<1>6. ASSUME NEW b, NEW class_id, NEW size
      PROVE  SinkCapabilitiesQueryWriteError(b, class_id, size) \in WriteVerdict
  <2>1. QueryShortFields(b) \in WriteVerdict
    BY WriteFieldVerdicts DEF QueryShortFields
  <2>2. CASE b.form = "Long"
    BY <2>2, WriteFieldVerdicts, ThenVerdict DEF SinkCapabilitiesQueryWriteError
  <2>3. CASE b.form # "Long"
    BY <2>1, <2>3, WriteFieldVerdicts, ThenVerdict DEF SinkCapabilitiesQueryWriteError
  <2> QED
    BY <2>2, <2>3
<1>7. ASSUME NEW b, NEW class_id, NEW size
      PROVE  SinkCapabilitiesResponseWriteError(b, class_id, size) \in WriteVerdict
  <2>1. CASE b.form = "Long"
    BY <1>2, <2>1, WriteFieldVerdicts, ThenVerdict DEF SinkCapabilitiesResponseWriteError
  <2>2. CASE b.form # "Long"
    BY <1>2, <2>2, WriteFieldVerdicts, ThenVerdict DEF SinkCapabilitiesResponseWriteError
  <2> QED
    BY <2>1, <2>2
<1>8. ASSUME NEW b, NEW class_id, NEW size
      PROVE  StatusReportWriteError(b, class_id, size) \in WriteVerdict
  <2> DEFINE Limit(option) == IF Present(option) THEN IntegerHz(option[1]) ELSE Ok
  <2>1. \A option : Limit(option) \in WriteVerdict
    BY WriteFieldVerdicts DEF WriteVerdict
  <2> QED
    BY <1>2, <2>1, WriteFieldVerdicts, ThenVerdict DEF StatusReportWriteError
<1> QED
  BY <1>3, <1>4, <1>5, <1>6, <1>7, <1>8

\* prepare_packet lets through what the plan, the prologue and the body let through.
LEMMA PrepareOk ==
  ASSUME NEW o, NEW p, PrepareError(o, p) = Ok
  PROVE  /\ PlannedWordsError(p) = Ok
         /\ PrologueWriteError(o, p) = Ok
         /\ BodyWriteError(o, p) = Ok
BY ThenOk DEF PrepareError

\* The planned size is at least the prologue and fits in the header's field.
LEMMA PlannedWordsRange ==
  ASSUME NEW p \in PacketValue, PlannedWordsError(p) = Ok
  PROVE  /\ PlannedWords(p) \in Nat /\ 7 <= PlannedWords(p) /\ PlannedWords(p) <= 65535
         /\ p.variant = "StatusReport" => StatusShape(p.body) \in StatusShapes
<1>1. /\ Expect(PlannedWords(p) <= MAX_PACKET_WORDS, "PacketTooLarge") = Ok
      /\ Expect(p.variant = "StatusReport" => StatusShape(p.body) \in StatusShapes,
                "MissingField") = Ok
  BY ThenOk DEF PlannedWordsError
<1>2. /\ PlannedWords(p) <= 65535
      /\ p.variant = "StatusReport" => StatusShape(p.body) \in StatusShapes
  BY <1>1 DEF Expect, Ok, MAX_PACKET_WORDS
<1>3. PlannedWords(p) \in Nat /\ 7 <= PlannedWords(p)
  <2>1. CASE p.variant = "SignalData" /\ p.body \in SignalDataValue
    <3>1. Len(p.body.payload.words) \in Nat
      BY <2>1 DEF SignalDataValue, Bytes
    <3>2. PlannedWords(p) = 7 + Len(p.body.payload.words)
      BY <2>1 DEF PlannedWords, CountedWords, PROLOGUE_WORDS
    <3> QED
      BY <3>1, <3>2
  <2>2. CASE p.variant = "SinkCapabilitiesResponse" /\ p.body \in SinkCapabilitiesResponseValue
    <3>1. Len(p.body.capability_table.words) \in Nat
      BY <2>2 DEF SinkCapabilitiesResponseValue, Bytes
    <3>2. PlannedWords(p)
            = IF p.body.form = "Long" THEN 13 + Len(p.body.capability_table.words) ELSE 18
      BY <2>2 DEF PlannedWords, CountedWords
    <3> QED
      BY <3>1, <3>2
  <2>3. CASE p.variant = "StatusReport"
    <3>1. PlannedWords(p) = StatusReportWords(p.body)
      BY <2>3 DEF PlannedWords, CountedWords
    <3>2. StatusReportWords(p.body) \in {15, 17, 21}
      BY DEF StatusReportWords
    <3> QED
      BY <3>1, <3>2
  <2>4. CASE p.variant \in {"SignalContext", "VersionContext", "TimingFlowControl",
                            "SinkCapabilitiesQuery"}
    <3>1. PlannedWords(p) \in {27, 11, 21, 13, 15}
      BY <2>4 DEF PlannedWords, CountedWords
    <3> QED
      BY <3>1
  <2> QED
    BY <2>1, <2>2, <2>3, <2>4, PacketParts
<1> QED
  BY <1>2, <1>3

LEMMA TypeSpecificBitsType ==
  ASSUME NEW p
  PROVE  CanonicalTypeSpecificBits(p) \in {0, 1, 4}
BY DEF CanonicalTypeSpecificBits

\* The prologue checks bound what the stores of the prologue pack.
LEMMA PrologueWriteOk ==
  ASSUME NEW o, NEW p, PrologueWriteError(o, p) = Ok
  PROVE  /\ p.prologue.header.sequence <= 15
         /\ [p.prologue.header EXCEPT !.raw = PlannedHeader(p).raw] = PlannedHeader(p)
         /\ ValidateClassId(p.prologue.class_id) = Ok
         /\ p.prologue.header.raw = PlannedHeader(p).raw
         /\ ValidatePrologue(o, PlannedHeader(p), p.prologue.class_id) = Ok
<1> DEFINE header  == p.prologue.header
           planned == PlannedHeader(p)
<1>1. /\ Expect(header.sequence <= 15, "FieldOutOfRange") = Ok
      /\ Expect([header EXCEPT !.raw = planned.raw] = planned, "FieldMismatch") = Ok
      /\ ValidateClassId(p.prologue.class_id) = Ok
      /\ Expect(header.raw = planned.raw, "FieldMismatch") = Ok
      /\ ValidatePrologue(o, planned, p.prologue.class_id) = Ok
  BY ThenOk DEF PrologueWriteError
<1> HIDE DEF planned
<1>2. \A holds \in BOOLEAN, error \in {"FieldOutOfRange", "FieldMismatch"} :
        Expect(holds, error) = Ok => holds
  BY DEF Expect, Ok
<1> QED
  BY <1>1, <1>2 DEF Expect, Ok, planned

LEMMA PadBitsOk ==
  ASSUME NEW c \in ClassIdValue, ValidateClassId(c) = Ok
  PROVE  c.pad_bit_count \in 0..MaxPadBits
<1>1. Expect(c.pad_bit_count <= MaxPadBits, "FieldOutOfRange") = Ok
  BY ThenOk DEF ValidateClassId
<1>2. c.pad_bit_count <= MaxPadBits /\ c.pad_bit_count \in Byte
  BY <1>1 DEF Expect, Ok, ClassIdValue
<1>3. c.pad_bit_count \in Nat
  BY <1>2, HalfOf
<1> QED
  BY <1>2, <1>3 DEF MaxPadBits

LEMMA PrologueStoresAreGood ==
  ASSUME NEW o, NEW p \in PacketValue, PlannedWordsError(p) = Ok, PrologueWriteError(o, p) = Ok,
         NEW n \in Nat, n >= 7
  PROVE  PrologueStores(p) \in Seq(GoodStore(n))
<1> DEFINE pr == p.prologue
           c  == pr.class_id
<1>1. /\ pr.header \in PacketHeaderValue /\ pr.stream_id \in Word /\ c \in ClassIdValue
      /\ pr.integer_seconds_timestamp \in Word /\ pr.fractional_seconds_timestamp \in Word64
  BY PacketParts DEF PrologueValue
<1>2. PlannedHeader(p).raw \in Word
  <2>1. pr.header.raw = PlannedHeader(p).raw
    BY PrologueWriteOk
  <2>2. pr.header.raw \in Word
    BY <1>1 DEF PacketHeaderValue
  <2> QED
    BY <2>1, <2>2
<1>3. ClassIdWords(c)[1] \in Word /\ ClassIdWords(c)[2] \in Word
  BY <1>1, PrologueWriteOk, ClassIdWordsType
<1>4. 0 + 1 <= n /\ 1 + 1 <= n /\ 2 + 1 <= n /\ 3 + 1 <= n /\ 4 + 1 <= n /\ 5 + 2 <= n
  OBVIOUS
<1>5. /\ StoreU32(0, PlannedHeader(p).raw) \in GoodStore(n)
      /\ StoreU32(1, pr.stream_id) \in GoodStore(n)
      /\ StoreU32(2, ClassIdWords(c)[1]) \in GoodStore(n)
      /\ StoreU32(3, ClassIdWords(c)[2]) \in GoodStore(n)
      /\ StoreU32(4, pr.integer_seconds_timestamp) \in GoodStore(n)
      /\ Store(5, pr.fractional_seconds_timestamp) \in GoodStore(n)
  BY <1>1, <1>2, <1>3, <1>4, StoreU32IsGood, StoreU64IsGood
<1> QED
  BY <1>5 DEF PrologueStores

\* The version numbers have room in their word, once the checks passed.
LEMMA VersionContextWriteOk ==
  ASSUME NEW b, NEW class_id, NEW size, VersionContextWriteError(b, class_id, size) = Ok
  PROVE  b.year <= 127 /\ b.day <= 511 /\ b.revision <= 63 /\ b.device_type = 0
<1>1. /\ Expect(b.year <= 127 /\ b.day <= 511 /\ b.revision <= 63, "FieldOutOfRange") = Ok
      /\ Expect(b.device_type = 0 /\ b.icd_version = Version1, "FieldMismatch") = Ok
  BY ThenOk DEF VersionContextWriteError
<1> QED
  BY <1>1 DEF Expect, Ok

LEMMA BodyStoresAreGood ==
  ASSUME NEW o, NEW p \in PacketValue, PlannedWordsError(p) = Ok, BodyWriteError(o, p) = Ok
  PROVE  BodyStores(p) \in Seq(GoodStore(PlannedWords(p)))
<1> DEFINE n == PlannedWords(p)
           c == p.prologue.class_id
           size == p.prologue.header.packet_size_words
<1>1. n \in Nat
  BY PlannedWordsRange
<1>2. CASE p.variant = "SignalData" /\ p.body \in SignalDataValue
  <2>1. p.body.payload.words \in Seq(Word)
    BY <1>2 DEF SignalDataValue, Bytes
  <2>2. n = 7 + Len(p.body.payload.words)
    BY <1>2 DEF PlannedWords, CountedWords, PROLOGUE_WORDS
  <2> HIDE DEF n
  <2>3. Store(7, p.body.payload.words) \in GoodStore(n)
    BY <1>1, <2>1, <2>2, StoreIsGood
  <2>4. BodyStores(p) = <<Store(7, p.body.payload.words)>>
    BY <1>2 DEF BodyStores
  <2> QED
    BY <2>3, <2>4 DEF n
<1>3. CASE p.variant = "SignalContext" /\ p.body \in SignalContextValue
  <2>1. n = 27 /\ BodyStores(p) = SignalContextStores(p.body)
    BY <1>3 DEF PlannedWords, CountedWords, BodyStores
  <2> QED
    BY <1>3, <2>1, SignalContextStoresAreGood
<1>4. CASE p.variant = "VersionContext" /\ p.body \in VersionContextValue
  <2>1. n = 11 /\ BodyStores(p) = VersionContextStores(p.body)
    BY <1>4 DEF PlannedWords, CountedWords, BodyStores
  <2>2. VersionContextWriteError(p.body, c, size) = Ok
    BY <1>4 DEF BodyWriteError
  <2> QED
    BY <1>4, <2>1, <2>2, VersionContextWriteOk, VersionContextStoresAreGood
<1>5. CASE p.variant = "TimingFlowControl" /\ p.body \in TimingFlowControlValue
  <2>1. n = 21 /\ BodyStores(p) = TimingFlowControlStores(p.body)
    BY <1>5 DEF PlannedWords, CountedWords, BodyStores
  <2> QED
    BY <1>5, <2>1, TimingFlowControlStoresAreGood
<1>6. CASE p.variant = "SinkCapabilitiesQuery" /\ p.body \in SinkCapabilitiesQueryValue
  <2>1. /\ n = IF p.body.form = "Long" THEN 13 ELSE 15
        /\ BodyStores(p) = SinkCapabilitiesQueryStores(p.body)
        /\ SinkCapabilitiesQueryWriteError(p.body, c, size) = Ok
    BY <1>6 DEF PlannedWords, CountedWords, BodyStores, BodyWriteError
  <2> HIDE DEF n
  <2> QED
    BY <1>1, <1>6, <2>1, QueryStoresAreGood DEF n
<1>7. CASE p.variant = "SinkCapabilitiesResponse" /\ p.body \in SinkCapabilitiesResponseValue
  <2>1. /\ n = IF p.body.form = "Long" THEN 13 + Len(p.body.capability_table.words) ELSE 18
        /\ BodyStores(p) = SinkCapabilitiesResponseStores(p.body)
        /\ SinkCapabilitiesResponseWriteError(p.body, c, size) = Ok
    BY <1>7 DEF PlannedWords, CountedWords, BodyStores, BodyWriteError
  <2> HIDE DEF n
  <2> QED
    BY <1>1, <1>7, <2>1, ResponseStoresAreGood DEF n
<1>8. CASE p.variant = "StatusReport" /\ p.body \in StatusReportValue
  <2>1. n = StatusReportWords(p.body) /\ BodyStores(p) = StatusReportStores(p.body)
    BY <1>8 DEF PlannedWords, CountedWords, BodyStores
  <2>2. StatusShape(p.body) \in StatusShapes
    BY <1>8, PlannedWordsRange
  <2> QED
    BY <1>8, <2>1, <2>2, StatusReportStoresAreGood
<1> QED
  BY <1>2, <1>3, <1>4, <1>5, <1>6, <1>7, <1>8, PacketParts

LEMMA PlannedWordsVerdict ==
  ASSUME NEW p
  PROVE  PlannedWordsError(p) \in WriteVerdict
<1>1. /\ "PayloadLengthNotWordAligned" \in WriteErrors
      /\ "CapabilityTableLengthNotWordAligned" \in WriteErrors
      /\ "MissingField" \in WriteErrors /\ "PacketTooLarge" \in WriteErrors
  BY DEF WriteErrors
<1> QED
  BY <1>1, WriteFieldVerdicts, ThenVerdict DEF PlannedWordsError

LEMMA PrologueWriteVerdict ==
  ASSUME NEW o, NEW p \in PacketValue
  PROVE  PrologueWriteError(o, p) \in WriteVerdict
<1> DEFINE header  == p.prologue.header
           c       == p.prologue.class_id
           planned == PlannedHeader(p)
           profile == ValidatePrologue(o, planned, c)
           range   == header.sequence <= 15
           agree   == [header EXCEPT !.raw = planned.raw] = planned
           raw     == header.raw = planned.raw
<1>1. "FieldOutOfRange" \in WriteErrors /\ "FieldMismatch" \in WriteErrors
  BY DEF WriteErrors
<1>2. profile \in WriteVerdict
  <2>1. planned.packet_type = header.packet_type /\ planned.class_id_indicator = TRUE
    BY DEF PlannedHeader
  <2>2. header.packet_type \in PacketType
    BY PacketParts DEF PrologueValue, PacketHeaderValue
  <2> HIDE DEF planned
  <2> QED
    BY <2>1, <2>2, ProfileWriteVerdict
<1>3. ValidateClassId(c) \in WriteVerdict
  BY <1>1, WriteFieldVerdicts, ThenVerdict DEF ValidateClassId
<1>4. PrologueWriteError(o, p)
        = (Expect(range, "FieldOutOfRange") ?? Expect(agree, "FieldMismatch")
             ?? ValidateClassId(c) ?? Expect(raw, "FieldMismatch") ?? profile)
  BY DEF PrologueWriteError
<1> HIDE DEF range, agree, raw, profile
<1> QED
  BY <1>1, <1>2, <1>3, <1>4, WriteFieldVerdicts, ThenVerdict

LEMMA PrepareVerdict ==
  ASSUME NEW o, NEW p \in PacketValue
  PROVE  PrepareError(o, p) \in WriteVerdict
<1>1. "MissingField" \in WriteErrors
  BY DEF WriteErrors
<1>2. ASSUME PrologueWriteError(o, p) = Ok
      PROVE  BodyWriteError(o, p) \in WriteVerdict
  <2> DEFINE c    == p.prologue.class_id
             size == p.prologue.header.packet_size_words
  <2>1. c.pad_bit_count \in 0..MaxPadBits
    <3>1. c \in ClassIdValue
      BY PacketParts DEF PrologueValue
    <3> QED
      BY <1>2, <3>1, PrologueWriteOk, PadBitsOk
  <2>2. CASE p.variant = "SignalData" /\ p.body \in SignalDataValue
    <3>1. p.body.payload.words \in Seq(Word)
      BY <2>2 DEF SignalDataValue, Bytes
    <3>2. BodyWriteError(o, p) = SignalDataWriteError(o, p.body, c)
      BY <2>2 DEF BodyWriteError
    <3> QED
      BY <2>1, <3>1, <3>2, SignalDataWriteVerdict
  <2>3. CASE p.variant \in {"SignalContext", "VersionContext", "TimingFlowControl",
                            "SinkCapabilitiesQuery", "SinkCapabilitiesResponse", "StatusReport"}
    BY <2>3, BodyWriteVerdicts DEF BodyWriteError
  <2> QED
    BY <2>2, <2>3, PacketParts
<1> DEFINE present == Expect(HasTsm(p) => Present(p.prologue.header.tsm), "MissingField")
<1>3. present \in WriteVerdict
  BY <1>1, WriteFieldVerdicts
<1>4. PrepareError(o, p) = (PlannedWordsError(p) ?? present ?? PrologueWriteError(o, p)
                              ?? BodyWriteError(o, p))
  BY DEF PrepareError
<1> HIDE DEF present
<1>5. (PlannedWordsError(p) ?? present ?? PrologueWriteError(o, p)) \in WriteVerdict
  BY <1>3, PlannedWordsVerdict, PrologueWriteVerdict, ThenVerdict
<1>6. (PlannedWordsError(p) ?? present ?? PrologueWriteError(o, p)) = Ok =>
        BodyWriteError(o, p) \in WriteVerdict
  BY <1>2, ThenOk
<1> QED
  BY <1>4, <1>5, <1>6, ThenVerdict

-----------------------------------------------------------------------------
(* What a call of the writer returns and leaves.                           *)

\* A verdict, and only the words of the packet it reports stored.
KeepsTheRest(result, out) ==
  LET n == result.written \div WORD_BYTES
  IN /\ result.error \in WriteVerdict
     /\ result.out \in Bytes
     /\ Len(result.out.words) = Len(out.words) /\ result.out.extra = out.extra
     /\ n \in 0..Len(out.words) /\ result.written = WORD_BYTES * n
     /\ \A j \in (n + 1)..Len(out.words) : result.out.words[j] = out.words[j]

\* Stores that all lie in the first n words leave the other words alone.
LEMMA StoresKeepTheRest ==
  ASSUME NEW out \in Bytes, NEW n \in Nat, NEW stores \in Seq(GoodStore(n)), n <= Len(out.words)
  PROVE  /\ StoresError(stores, out.words) = Ok
         /\ Stored(stores, out.words) \in Seq(Word)
         /\ Len(Stored(stores, out.words)) = Len(out.words)
         /\ \A j \in (n + 1)..Len(out.words) : Stored(stores, out.words)[j] = out.words[j]
<1>1. out.words \in Seq(Word)
  BY DEF Bytes
<1>2. ASSUME NEW j \in (n + 1)..Len(out.words), NEW i \in DOMAIN stores
      PROVE  ~Covers(stores[i], j)
  <2>1. stores[i] \in GoodStore(n)
    OBVIOUS
  <2>2. EndOf(stores[i]) \in Nat /\ EndOf(stores[i]) <= n /\ stores[i].at \in Nat
    BY <2>1, SMTT(20) DEF GoodStore, EndOf
  <2> QED
    BY <2>2 DEF Covers
<1>3. ASSUME NEW j \in (n + 1)..Len(out.words)
      PROVE  Stored(stores, out.words)[j] = out.words[j]
  <2>1. j \in 1..Len(out.words)
    BY <1>1
  <2> QED
    BY <1>1, <1>2, <2>1, AllStored
<1> QED
  BY <1>1, <1>3, AllStored

\* Room is counted in bytes, the stores in words.
LEMMA RoomInWords ==
  ASSUME NEW out \in Bytes, NEW n \in Nat, ByteLen(out) >= WORD_BYTES * n
  PROVE  n <= Len(out.words)
<1>1. Len(out.words) \in Nat /\ out.extra \in 0..3
  BY DEF Bytes
<1> QED
  BY <1>1 DEF ByteLen, WORD_BYTES

\* A call that checks everything first and then makes stores that have room.
LEMMA CheckedStores ==
  ASSUME NEW out \in Bytes, NEW refused \in WriteVerdict, NEW n, NEW stores,
         refused = Ok => n \in Nat /\ stores \in Seq(GoodStore(n)) /\ n <= Len(out.words)
  PROVE  LET error == refused ?? StoresError(stores, out.words)
         IN KeepsTheRest(
              [error   |-> error,
               written |-> IF error = Ok THEN WORD_BYTES * n ELSE 0,
               out     |-> IF refused = Ok THEN [out EXCEPT !.words = Stored(stores, @)] ELSE out],
              out)
<1> DEFINE error  == refused ?? StoresError(stores, out.words)
           after  == IF refused = Ok THEN [out EXCEPT !.words = Stored(stores, @)] ELSE out
           result == [error   |-> error,
                      written |-> IF error = Ok THEN WORD_BYTES * n ELSE 0,
                      out     |-> after]
<1>0. Len(out.words) \in Nat /\ Ok \in WriteVerdict
  BY DEF Bytes, WriteVerdict
<1>1. CASE refused = Ok
  <2>1. error = Ok /\ after = [out EXCEPT !.words = Stored(stores, out.words)]
    BY <1>1, StoresKeepTheRest DEF ??
  <2>2. after \in Bytes /\ after.words = Stored(stores, out.words) /\ after.extra = out.extra
    <3>1. Stored(stores, out.words) \in Seq(Word)
      BY <1>1, StoresKeepTheRest
    <3> QED
      BY <2>1, <3>1 DEF Bytes
  <2>3. result.error = Ok /\ result.written = 4 * n /\ result.out = after
    BY <2>1 DEF WORD_BYTES
  <2>4. (4 * n) \div 4 = n /\ n \in 0..Len(out.words)
    BY <1>0, <1>1
  <2> HIDE DEF result, after, error
  <2>5. KeepsTheRest(result, out)
    <3>1. /\ Len(Stored(stores, out.words)) = Len(out.words)
          /\ \A j \in (n + 1)..Len(out.words) : Stored(stores, out.words)[j] = out.words[j]
      BY <1>1, StoresKeepTheRest
    <3>2. result.written \div 4 = n
      BY <2>3, <2>4
    <3>3. /\ Len(result.out.words) = Len(out.words)
          /\ \A j \in (n + 1)..Len(out.words) : result.out.words[j] = out.words[j]
      BY <2>2, <2>3, <3>1
    <3> QED
      BY <1>0, <2>2, <2>3, <2>4, <3>2, <3>3 DEF KeepsTheRest, WORD_BYTES
  <2> QED
    BY <2>5 DEF result, after, error
<1>2. CASE refused # Ok
  <2>1. error = refused /\ after = out
    BY <1>2 DEF ??
  <2>2. result.error = refused /\ result.written = 0 /\ result.out = out
    BY <1>2, <2>1
  <2>3. 0 \div 4 = 0
    OBVIOUS
  <2> HIDE DEF result, after, error
  <2>4. KeepsTheRest(result, out)
    BY <1>0, <2>2, <2>3 DEF KeepsTheRest, WORD_BYTES
  <2> QED
    BY <2>4 DEF result, after, error
<1> QED
  BY <1>1, <1>2

\* write_packet_with_options, for every packet, slice and option.
LEMMA WritePacketKeepsTheRest ==
  ASSUME NEW o, NEW p \in PacketValue, NEW out \in Bytes
  PROVE  KeepsTheRest(WritePacket(p, out, o), out)
<1> DEFINE n        == PlannedWords(p)
           stores   == PrologueStores(p) \o BodyStores(p)
           capacity == CapacityError(p, out)
           refused  == PrepareError(o, p) ?? capacity
<1>1. refused \in WriteVerdict
  <2>1. capacity \in WriteVerdict
    <3>1. "OutputTooSmall" \in WriteErrors
      BY DEF WriteErrors
    <3> QED
      BY <3>1, WriteFieldVerdicts DEF CapacityError
  <2> HIDE DEF capacity
  <2> QED
    BY <2>1, PrepareVerdict, ThenVerdict
<1>2. ASSUME refused = Ok
      PROVE  n \in Nat /\ stores \in Seq(GoodStore(n)) /\ n <= Len(out.words)
  <2>1. PrepareError(o, p) = Ok /\ capacity = Ok
    <3> HIDE DEF capacity
    <3> QED
      BY <1>2, ThenOk
  <2>2. /\ PlannedWordsError(p) = Ok /\ PrologueWriteError(o, p) = Ok
        /\ BodyWriteError(o, p) = Ok
    BY <2>1, PrepareOk
  <2>3. n \in Nat /\ n >= 7
    BY <2>2, PlannedWordsRange
  <2>4. PrologueStores(p) \in Seq(GoodStore(n)) /\ BodyStores(p) \in Seq(GoodStore(n))
    BY <2>2, <2>3, PrologueStoresAreGood, BodyStoresAreGood
  <2>5. ByteLen(out) >= WORD_BYTES * n
    BY <2>1 DEF CapacityError, Expect, EncodedLen, Ok
  <2> HIDE DEF n
  <2> QED
    BY <2>3, <2>4, <2>5, RoomInWords
<1>3. WritePacket(p, out, o)
        = LET error == refused ?? StoresError(stores, out.words)
          IN [error   |-> error,
              written |-> IF error = Ok THEN WORD_BYTES * n ELSE 0,
              out     |-> IF refused = Ok THEN [out EXCEPT !.words = Stored(stores, @)] ELSE out]
  BY DEF WritePacket, EncodedLen
<1> HIDE DEF refused, n, stores
<1> QED
  BY <1>1, <1>2, <1>3, CheckedStores

-----------------------------------------------------------------------------
(* The IQ helpers.                                                         *)

\* A sample on the wire: bytes and halves of two's complement.
LEMMA ComponentType ==
  /\ \A v \in Int : TwosComplement(v, 8) \in Nat /\ TwosComplement(v, 8) <= 255
  /\ \A v \in Int : TwosComplement(v, 16) \in Half
<1>1. 2^8 = 256 /\ 2^16 = 65536
  OBVIOUS
<1>2. ASSUME NEW v \in Int
      PROVE  TwosComplement(v, 8) \in Nat /\ TwosComplement(v, 8) <= 255
  BY <1>1 DEF TwosComplement
<1>3. ASSUME NEW v \in Int
      PROVE  TwosComplement(v, 16) \in Half
  <2>1. v % 65536 \in Nat /\ v % 65536 <= 65535
    OBVIOUS
  <2>2. TwosComplement(v, 16) = v % 65536
    BY <1>1 DEF TwosComplement
  <2> QED
    BY <2>1, <2>2, HalfOf
<1> QED
  BY <1>2, <1>3

LEMMA SampleIsIntegers ==
  ASSUME NEW bits \in SampleBits, NEW s \in SampleValue(bits)
  PROVE  s.i \in Int /\ s.q \in Int
<1> DEFINE range == -(2^(bits - 1))..(2^(bits - 1) - 1)
<1>1. range \subseteq Int
  OBVIOUS
<1>2. s \in [i: range, q: range]
  BY DEF SampleValue
<1> HIDE DEF range
<1> QED
  BY <1>1, <1>2

LEMMA PackedI8Type ==
  ASSUME NEW s \in SampleValue(8)
  PROVE  PackedI8(s) \in Half
<1>1. s.i \in Int /\ s.q \in Int
  BY SampleIsIntegers DEF SampleBits
<1> DEFINE i == TwosComplement(s.i, 8)
           q == TwosComplement(s.q, 8)
<1>2. i \in Nat /\ i <= 255 /\ q \in Nat /\ q <= 255
  BY <1>1, ComponentType
<1>3. PackedI8(s) = 256 * i + q
  BY DEF PackedI8
<1> HIDE DEF i, q
<1>4. 256 * i + q \in Nat /\ 256 * i + q <= 65535
  BY <1>2
<1> QED
  BY <1>3, <1>4, HalfOf

\* The words the samples fill, as many as the plan counts.
LEMMA PayloadWordsType ==
  ASSUME NEW bits \in SampleBits, NEW samples \in Seq(SampleValue(bits)),
         bits = 8 => Len(samples) % 2 = 0
  PROVE  /\ PayloadWords(bits, samples) \in Seq(Word)
         /\ IqPacketWords(bits, samples) \in Nat
         /\ 7 + Len(PayloadWords(bits, samples)) = IqPacketWords(bits, samples)
<1> DEFINE n == Len(samples)
<1>0. n \in Nat
  OBVIOUS
<1>1. CASE bits = 8
  <2>1. n % 2 = 0
    BY <1>1
  <2> HIDE DEF n
  <2>2. n \div 2 \in Nat /\ 2 * (n \div 2) = n
    BY <1>0, <2>1
  <2>3. (2 * n) \div 4 = n \div 2
    BY <1>0, <2>1
  <2>4. PayloadWords(bits, samples)
          = [k \in 1..(n \div 2) |-> <<PackedI8(samples[2 * k - 1]), PackedI8(samples[2 * k])>>]
    BY <1>1 DEF PayloadWords, n
  <2>5. ASSUME NEW k \in 1..(n \div 2)
        PROVE  <<PackedI8(samples[2 * k - 1]), PackedI8(samples[2 * k])>> \in Word
    <3>1. 2 * k - 1 \in 1..n /\ 2 * k \in 1..n
      BY <1>0, <2>2
    <3>2. samples[2 * k - 1] \in SampleValue(8) /\ samples[2 * k] \in SampleValue(8)
      BY <1>1, <3>1 DEF n
    <3> QED
      BY <3>2, PackedI8Type, HalfOf
  <2>6. PayloadWords(bits, samples) \in Seq(Word) /\ Len(PayloadWords(bits, samples)) = n \div 2
    BY <2>2, <2>4, <2>5
  <2>7. IqPacketWords(bits, samples) = 7 + n \div 2
    <3>1. SampleBytes(bits) = 2
      BY <1>1 DEF SampleBytes
    <3> QED
      BY <2>3, <3>1 DEF IqPacketWords, PROLOGUE_WORDS, WORD_BYTES, n
  <2> QED
    BY <2>2, <2>6, <2>7
<1>2. CASE bits = 16
  <2> HIDE DEF n
  <2>1. (4 * n) \div 4 = n
    BY <1>0
  <2>2. PayloadWords(bits, samples)
          = [k \in 1..n |->
               <<TwosComplement(samples[k].i, 16), TwosComplement(samples[k].q, 16)>>]
    BY <1>2 DEF PayloadWords, n
  <2>3. ASSUME NEW k \in 1..n
        PROVE  <<TwosComplement(samples[k].i, 16), TwosComplement(samples[k].q, 16)>> \in Word
    <3>1. samples[k] \in SampleValue(bits)
      BY DEF n
    <3>2. samples[k].i \in Int /\ samples[k].q \in Int
      BY <3>1, SampleIsIntegers
    <3>3. /\ TwosComplement(samples[k].i, 16) \in Half
          /\ TwosComplement(samples[k].q, 16) \in Half
      BY <3>2, ComponentType
    <3> QED
      BY <3>3, HalfOf
  <2>4. PayloadWords(bits, samples) \in Seq(Word) /\ Len(PayloadWords(bits, samples)) = n
    BY <1>0, <2>2, <2>3
  <2>5. IqPacketWords(bits, samples) = 7 + n
    <3>1. SampleBytes(bits) = 4
      BY <1>2 DEF SampleBytes
    <3> QED
      BY <2>1, <3>1 DEF IqPacketWords, PROLOGUE_WORDS, WORD_BYTES, n
  <2> QED
    BY <1>0, <2>4, <2>5
<1> QED
  BY <1>1, <1>2 DEF SampleBits

\* A spec yields a class identifier and a header a packet could have.
LEMMA SpecClassIdType ==
  ASSUME NEW spec \in SpecValue
  PROVE  SpecClassId(spec) \in ClassIdValue /\ ValidateClassId(SpecClassId(spec)) = Ok
<1>1. spec.information_class \in InformationClassCode /\ spec.packet_class \in PacketClassCode
  BY DEF SpecValue
<1>2. 0 \in Byte /\ DIFI_CID \in Word
  <2>1. 0 \in Byte
    BY DEF Byte
  <2>2. 106 \in Half /\ 25118 \in Half
    BY HalfOf
  <2> QED
    BY <2>1, <2>2, HalfOf DEF DIFI_CID
<1>3. SpecClassId(spec) \in ClassIdValue
  BY <1>1, <1>2 DEF SpecClassId, ClassIdValue
<1>4. SpecClassId(spec).pad_bit_count = 0 /\ SpecClassId(spec).oui = DIFI_CID
  BY DEF SpecClassId
<1>5. ValidateClassId(SpecClassId(spec)) = Ok
  BY <1>4 DEF ValidateClassId, Expect, MaxPadBits, ??, Ok
<1> QED
  BY <1>3, <1>5

LEMMA SpecPrologueStoresAreGood ==
  ASSUME NEW spec \in SpecValue, spec.sequence <= 15, NEW words \in Nat, words <= 65535,
         NEW n \in Nat, n >= 7
  PROVE  SpecPrologueStores(spec, words) \in Seq(GoodStore(n))
<1> DEFINE c == SpecClassId(spec)
<1>1. /\ spec.stream_id \in Word /\ spec.tsi \in Tsi /\ spec.tsf \in Tsf
      /\ spec.integer_seconds_timestamp \in Word
      /\ spec.fractional_seconds_timestamp \in Word64 /\ spec.sequence \in Nat
  <2>1. /\ spec.stream_id \in Word /\ spec.tsi \in Tsi /\ spec.tsf \in Tsf
        /\ spec.integer_seconds_timestamp \in Word
        /\ spec.fractional_seconds_timestamp \in Word64 /\ spec.sequence \in Byte
    BY DEF SpecValue, Word64, Byte
  <2> QED
    BY <2>1, HalfOf
<1>2. SpecHeader(spec, words).raw \in Word
  <2>1. SignalDataWithStreamId \in PacketType /\ 0 \in {0, 1, 4} /\ words \in Half
    BY HalfOf DEF PacketType
  <2>2. HeaderWord(SignalDataWithStreamId, 0, spec.tsi, spec.tsf, spec.sequence, words) \in Word
    BY <1>1, <2>1, HeaderWordType
  <2> QED
    BY <2>2 DEF SpecHeader
<1>3. ClassIdWords(c)[1] \in Word /\ ClassIdWords(c)[2] \in Word
  BY SpecClassIdType, ClassIdWordsType
<1>4. 0 + 1 <= n /\ 1 + 1 <= n /\ 2 + 1 <= n /\ 3 + 1 <= n /\ 4 + 1 <= n /\ 5 + 2 <= n
  OBVIOUS
<1>5. /\ StoreU32(0, SpecHeader(spec, words).raw) \in GoodStore(n)
      /\ StoreU32(1, spec.stream_id) \in GoodStore(n)
      /\ StoreU32(2, ClassIdWords(c)[1]) \in GoodStore(n)
      /\ StoreU32(3, ClassIdWords(c)[2]) \in GoodStore(n)
      /\ StoreU32(4, spec.integer_seconds_timestamp) \in GoodStore(n)
      /\ Store(5, spec.fractional_seconds_timestamp) \in GoodStore(n)
  BY <1>1, <1>2, <1>3, <1>4, StoreU32IsGood, StoreU64IsGood
<1> QED
  BY <1>5 DEF SpecPrologueStores

\* What signal_data_spec_words lets through.
LEMMA IqOk ==
  ASSUME NEW bits, NEW spec, NEW samples, IqError(bits, spec, samples) = Ok
  PROVE  /\ bits = 8 => Len(samples) % 2 = 0
         /\ spec.sequence <= 15
         /\ IqPacketWords(bits, samples) <= 65535
<1>1. /\ Expect(bits = 8 => Len(samples) % 2 = 0, "OddComplexI8SampleCount") = Ok
      /\ Expect(spec.sequence <= 15, "FieldOutOfRange") = Ok
      /\ Expect(IqPacketWords(bits, samples) <= MAX_PACKET_WORDS, "PacketTooLarge") = Ok
  BY ThenOk DEF IqError
<1>2. bits = 8 => Len(samples) % 2 = 0
  BY <1>1 DEF Expect, Ok
<1>3. spec.sequence <= 15 /\ IqPacketWords(bits, samples) <= 65535
  BY <1>1 DEF Expect, Ok, MAX_PACKET_WORDS
<1> QED
  BY <1>2, <1>3

LEMMA IqVerdict ==
  ASSUME NEW bits, NEW spec, NEW samples
  PROVE  IqError(bits, spec, samples) \in WriteVerdict
<1> DEFINE words   == IqPacketWords(bits, samples)
           c       == SpecClassId(spec)
           odd     == Expect(bits = 8 => Len(samples) % 2 = 0, "OddComplexI8SampleCount")
           aligned == Expect((SampleBytes(bits) * Len(samples)) % WORD_BYTES = 0,
                             "PayloadLengthNotWordAligned")
           range   == Expect(spec.sequence <= 15, "FieldOutOfRange")
           large   == Expect(words <= MAX_PACKET_WORDS, "PacketTooLarge")
           profile == ValidatePrologue(DefaultOptions, SpecHeader(spec, words), c)
<1>1. /\ "OddComplexI8SampleCount" \in WriteErrors /\ "FieldOutOfRange" \in WriteErrors
      /\ "PayloadLengthNotWordAligned" \in WriteErrors /\ "PacketTooLarge" \in WriteErrors
      /\ "FieldMismatch" \in WriteErrors
  BY DEF WriteErrors
<1>2. /\ odd \in WriteVerdict /\ aligned \in WriteVerdict /\ range \in WriteVerdict
      /\ large \in WriteVerdict
  BY <1>1, WriteFieldVerdicts
<1>3. profile \in WriteVerdict
  <2> DEFINE header == SpecHeader(spec, words)
  <2>1. header.packet_type \in PacketType /\ header.class_id_indicator = TRUE
    BY DEF SpecHeader, PacketType
  <2> HIDE DEF header
  <2>2. ValidatePrologue(DefaultOptions, header, c) \in WriteVerdict
    BY <2>1, ProfileWriteVerdict
  <2> QED
    BY <2>2 DEF header
<1>4. ValidateClassId(c) \in WriteVerdict
  BY <1>1, WriteFieldVerdicts, ThenVerdict DEF ValidateClassId
<1>5. IqError(bits, spec, samples)
        = (odd ?? aligned ?? range ?? large ?? profile ?? ValidateClassId(c))
  BY DEF IqError
<1> HIDE DEF odd, aligned, range, large, profile
<1> QED
  BY <1>2, <1>3, <1>4, <1>5, ThenVerdict

\* The samples of a request fill whole words.
LEMMA WholeWordsOfSamples ==
  ASSUME NEW bits \in SampleBits, NEW m \in Nat, bits = 8 => m % 2 = 0
  PROVE  (SampleBytes(bits) * m) % 4 = 0
<1>1. CASE bits = 8
  <2>1. SampleBytes(bits) = 2
    <3>1. 8 \div 4 = 2
      OBVIOUS
    <3> QED
      BY <1>1, <3>1 DEF SampleBytes
  <2>2. (2 * m) % 4 = 0
    BY <1>1
  <2> QED
    BY <2>1, <2>2
<1>2. CASE bits = 16
  <2>1. SampleBytes(bits) = 4
    <3>1. 16 \div 4 = 4
      OBVIOUS
    <3> QED
      BY <1>2, <3>1 DEF SampleBytes
  <2>2. (4 * m) % 4 = 0
    OBVIOUS
  <2> QED
    BY <2>1, <2>2
<1> QED
  BY <1>1, <1>2 DEF SampleBits

\* The stores of a request that is let through have room in the packet it plans.
LEMMA IqStoresAreGood ==
  ASSUME NEW bits \in SampleBits, NEW spec \in SpecValue,
         NEW samples \in Seq(SampleValue(bits)), IqError(bits, spec, samples) = Ok
  PROVE  LET n == IqPacketWords(bits, samples)
         IN /\ n \in Nat
            /\ SpecPrologueStores(spec, n) \o <<Store(7, PayloadWords(bits, samples))>>
                 \in Seq(GoodStore(n))
<1> DEFINE n       == IqPacketWords(bits, samples)
           payload == Store(7, PayloadWords(bits, samples))
<1>1. /\ bits = 8 => Len(samples) % 2 = 0
      /\ spec.sequence <= 15 /\ n <= 65535
  BY IqOk
<1>2. /\ PayloadWords(bits, samples) \in Seq(Word) /\ n \in Nat
      /\ 7 + Len(PayloadWords(bits, samples)) = n
  BY <1>1, PayloadWordsType
<1> HIDE DEF n
<1>3. n >= 7
  BY <1>2
<1>4. SpecPrologueStores(spec, n) \in Seq(GoodStore(n))
  BY <1>1, <1>2, <1>3, SpecPrologueStoresAreGood
<1>5. payload \in GoodStore(n)
  BY <1>2, StoreIsGood
<1> HIDE DEF payload
<1>6. n \in Nat /\ SpecPrologueStores(spec, n) \o <<payload>> \in Seq(GoodStore(n))
  BY <1>2, <1>4, <1>5
<1> QED
  BY <1>6 DEF n, payload

\* write_iq_data_i8 and write_iq_data_i16, for every spec, samples and slice.
LEMMA WriteIqDataKeepsTheRest ==
  ASSUME NEW bits \in SampleBits, NEW spec \in SpecValue,
         NEW samples \in Seq(SampleValue(bits)), NEW out \in Bytes
  PROVE  KeepsTheRest(WriteIqData(bits, spec, samples, out), out)
<1> DEFINE n        == IqPacketWords(bits, samples)
           payload  == Store(7, PayloadWords(bits, samples))
           stores   == SpecPrologueStores(spec, n) \o <<payload>>
           capacity == Expect(ByteLen(out) >= WORD_BYTES * n, "OutputTooSmall")
           refused  == IqError(bits, spec, samples) ?? capacity
<1>1. refused \in WriteVerdict
  <2>1. capacity \in WriteVerdict
    <3>1. "OutputTooSmall" \in WriteErrors
      BY DEF WriteErrors
    <3> QED
      BY <3>1, WriteFieldVerdicts
  <2> HIDE DEF capacity
  <2> QED
    BY <2>1, IqVerdict, ThenVerdict
<1>2. ASSUME refused = Ok
      PROVE  n \in Nat /\ stores \in Seq(GoodStore(n)) /\ n <= Len(out.words)
  <2>1. IqError(bits, spec, samples) = Ok /\ capacity = Ok
    <3> HIDE DEF capacity
    <3> QED
      BY <1>2, ThenOk
  <2>2. ByteLen(out) >= WORD_BYTES * n
    BY <2>1 DEF Expect, Ok
  <2>3. n \in Nat /\ stores \in Seq(GoodStore(n))
    BY <2>1, IqStoresAreGood
  <2> HIDE DEF n, stores
  <2> QED
    BY <2>2, <2>3, RoomInWords
<1>3. WriteIqData(bits, spec, samples, out)
        = LET error == refused ?? StoresError(stores, out.words)
          IN [error   |-> error,
              written |-> IF error = Ok THEN WORD_BYTES * n ELSE 0,
              out     |-> IF refused = Ok THEN [out EXCEPT !.words = Stored(stores, @)] ELSE out]
  BY DEF WriteIqData
<1> HIDE DEF refused, n, stores
<1> QED
  BY <1>1, <1>2, <1>3, CheckedStores

\* A packet that is not refused is written, when the slice has room for it.
LEMMA PreparedIsWritten ==
  ASSUME NEW o, NEW p \in PacketValue, NEW out \in Bytes, PrepareError(o, p) = Ok,
         PlannedWords(p) <= Len(out.words)
  PROVE  /\ PrologueStores(p) \o BodyStores(p) \in Seq(GoodStore(PlannedWords(p)))
         /\ WritePacket(p, out, o).error = Ok
         /\ WritePacket(p, out, o).written = WORD_BYTES * PlannedWords(p)
         /\ WritePacket(p, out, o).out.words
              = Stored(PrologueStores(p) \o BodyStores(p), out.words)
<1> DEFINE n      == PlannedWords(p)
           stores == PrologueStores(p) \o BodyStores(p)
<1>1. /\ PlannedWordsError(p) = Ok /\ PrologueWriteError(o, p) = Ok
      /\ BodyWriteError(o, p) = Ok
  BY PrepareOk
<1>2. n \in Nat /\ n >= 7
  BY <1>1, PlannedWordsRange
<1>3. stores \in Seq(GoodStore(n))
  <2>1. PrologueStores(p) \in Seq(GoodStore(n)) /\ BodyStores(p) \in Seq(GoodStore(n))
    BY <1>1, <1>2, PrologueStoresAreGood, BodyStoresAreGood
  <2> HIDE DEF n
  <2> QED
    BY <2>1
<1> HIDE DEF n, stores
<1>4. StoresError(stores, out.words) = Ok
  BY <1>2, <1>3, StoresKeepTheRest DEF n
<1>5. CapacityError(p, out) = Ok
  <2>1. Len(out.words) \in Nat /\ out.extra \in 0..3
    BY DEF Bytes
  <2>2. ByteLen(out) >= 4 * n
    BY <1>2, <2>1 DEF ByteLen, WORD_BYTES, n
  <2> QED
    BY <2>2 DEF CapacityError, EncodedLen, WORD_BYTES, Expect, n
<1>6. WritePacket(p, out, o) = [error   |-> Ok,
                                written |-> WORD_BYTES * n,
                                out     |-> [out EXCEPT !.words = Stored(stores, out.words)]]
  BY <1>4, <1>5 DEF WritePacket, EncodedLen, ??, n, stores
<1> QED
  BY <1>3, <1>6 DEF n, stores, Bytes

\* So is an IQ request.
LEMMA RequestIsWritten ==
  ASSUME NEW bits \in SampleBits, NEW spec \in SpecValue,
         NEW samples \in Seq(SampleValue(bits)), NEW out \in Bytes,
         IqError(bits, spec, samples) = Ok, IqPacketWords(bits, samples) <= Len(out.words)
  PROVE  /\ WriteIqData(bits, spec, samples, out).error = Ok
         /\ WriteIqData(bits, spec, samples, out).written = WORD_BYTES * IqPacketWords(bits, samples)
         /\ WriteIqData(bits, spec, samples, out).out.words
              = Stored(SpecPrologueStores(spec, IqPacketWords(bits, samples))
                         \o <<Store(7, PayloadWords(bits, samples))>>,
                       out.words)
<1> DEFINE n      == IqPacketWords(bits, samples)
           stores == SpecPrologueStores(spec, n) \o <<Store(7, PayloadWords(bits, samples))>>
<1>1. n \in Nat /\ stores \in Seq(GoodStore(n))
  BY IqStoresAreGood
<1> HIDE DEF stores, n
<1>2. StoresError(stores, out.words) = Ok
  BY <1>1, StoresKeepTheRest DEF n
<1>3. Expect(ByteLen(out) >= WORD_BYTES * n, "OutputTooSmall") = Ok
  <2>1. Len(out.words) \in Nat /\ out.extra \in 0..3
    BY DEF Bytes
  <2>2. ByteLen(out) >= 4 * n
    BY <1>1, <2>1 DEF ByteLen, WORD_BYTES, n
  <2> QED
    BY <2>2 DEF WORD_BYTES, Expect
<1>4. WriteIqData(bits, spec, samples, out)
        = [error   |-> Ok,
           written |-> WORD_BYTES * n,
           out     |-> [out EXCEPT !.words = Stored(stores, out.words)]]
  BY <1>2, <1>3 DEF WriteIqData, ??, stores, n
<1> QED
  BY <1>4 DEF stores, n, Bytes

-----------------------------------------------------------------------------
(* What the parser returns is a packet value.                              *)

LEMMA OptionType ==
  ASSUME NEW S
  PROVE  /\ None \in Option(S)
         /\ \A x \in S : Some(x) \in Option(S)
         /\ \A present \in BOOLEAN, x \in S : When(present, x) \in Option(S)
<1>1. <<>> \in Seq(S) /\ Len(<<>>) <= 1
  OBVIOUS
<1>2. None \in Option(S)
  BY <1>1 DEF Option, None
<1>3. ASSUME NEW x \in S
      PROVE  Some(x) \in Option(S)
  <2>1. <<x>> \in Seq(S) /\ Len(<<x>>) <= 1
    OBVIOUS
  <2> QED
    BY <2>1 DEF Option, Some
<1>4. ASSUME NEW present \in BOOLEAN, NEW x \in S
      PROVE  When(present, x) \in Option(S)
  BY <1>2, <1>3 DEF When
<1> QED
  BY <1>2, <1>3, <1>4

LEMMA SmallFields ==
  ASSUME NEW n \in Half
  PROVE  /\ n \div 512 \in Byte /\ n \div 1024 \in Byte /\ (n \div 64) % 16 \in Byte
         /\ (n \div 256) % 8 \in Byte /\ n % 16 \in Byte
         /\ (n % 64) + 1 \in Byte /\ ((n \div 64) % 64) + 1 \in Byte
         /\ n % 512 \in Half /\ n \div 16 \in Half
<1>1. n \in Nat /\ n <= 65535
  BY HalfOf
<1>2. \A k \in Nat : k <= 255 => k \in Byte
  BY DEF Byte
<1>3. /\ n \div 512 \in Nat /\ n \div 512 <= 255 /\ n \div 1024 \in Nat /\ n \div 1024 <= 255
      /\ (n \div 64) % 16 \in Nat /\ (n \div 64) % 16 <= 255
      /\ (n \div 256) % 8 \in Nat /\ (n \div 256) % 8 <= 255
      /\ n % 16 \in Nat /\ n % 16 <= 255
  BY <1>1
<1>4. /\ (n % 64) + 1 \in Nat /\ (n % 64) + 1 <= 255
      /\ ((n \div 64) % 64) + 1 \in Nat /\ ((n \div 64) % 64) + 1 <= 255
      /\ n % 512 \in Nat /\ n % 512 <= 65535 /\ n \div 16 \in Nat /\ n \div 16 <= 65535
  BY <1>1
<1>5. /\ n \div 512 \in Byte /\ n \div 1024 \in Byte /\ (n \div 64) % 16 \in Byte
      /\ (n \div 256) % 8 \in Byte /\ n % 16 \in Byte
  BY <1>2, <1>3
<1>6. (n % 64) + 1 \in Byte /\ ((n \div 64) % 64) + 1 \in Byte
  BY <1>2, <1>4
<1>7. n % 512 \in Half /\ n \div 16 \in Half
  BY <1>4, HalfOf
<1> QED
  BY <1>5, <1>6, <1>7

LEMMA ReadTypes ==
  ASSUME NEW words \in Seq(Word)
  PROVE  /\ \A i \in Nat : /\ ReadU32(words, i) \in Word
                           /\ ReadU32(words, i)[1] \in Half /\ ReadU32(words, i)[2] \in Half
         /\ \A i \in Nat : ReadU64(words, i) \in Word64
<1>1. \A w \in Word : w[1] \in Half /\ w[2] \in Half
  BY DEF Word
<1>2. ASSUME NEW i \in Nat
      PROVE  ReadU64(words, i) \in Word64
  <2>1. ReadU32(words, i) \in Word /\ ReadU32(words, i + 1) \in Word
    BY ReadU32Type
  <2> QED
    BY <2>1 DEF ReadU64, Word64
<1> QED
  BY <1>1, <1>2, ReadU32Type

LEMMA HeaderType ==
  ASSUME NEW w \in Word, HeaderError(w) = Ok
  PROVE  HeaderOf(w) \in PacketHeaderValue
<1>1. w[1] \in Half /\ w[2] \in Half
  BY DEF Word
<1>2. /\ Expect(w[1] \div 4096 \in PacketType, "UnsupportedPacketType") = Ok
      /\ Expect((w[1] \div 64) % 4 \in Tsi, "InvalidTsi") = Ok
      /\ Expect((w[1] \div 16) % 4 \in Tsf, "InvalidTsf") = Ok
  BY ThenOk DEF HeaderError
<1>3. /\ w[1] \div 4096 \in PacketType /\ (w[1] \div 64) % 4 \in Tsi
      /\ (w[1] \div 16) % 4 \in Tsf
  BY <1>2 DEF Expect, Ok
<1>4. (w[1] \div 256) % 8 \in Byte /\ w[1] % 16 \in Byte
  BY <1>1, SmallFields
<1>5. \A type, tsb : TsmOf(type, tsb) \in Option({Fine, Coarse})
  <2>1. Fine \in {Fine, Coarse} /\ Coarse \in {Fine, Coarse}
    OBVIOUS
  <2> QED
    BY <2>1, OptionType DEF TsmOf
<1> DEFINE type      == w[1] \div 4096
           indicator == (w[1] \div 2048) % 2 = 1
           tsb       == (w[1] \div 256) % 8
           tsi       == (w[1] \div 64) % 4
           tsf       == (w[1] \div 16) % 4
           sequence  == w[1] % 16
<1>6. HeaderOf(w) = [raw |-> w, packet_type |-> type, class_id_indicator |-> indicator,
                     type_specific_bits |-> tsb, tsm |-> TsmOf(type, tsb), tsi |-> tsi,
                     tsf |-> tsf, sequence |-> sequence, packet_size_words |-> w[2]]
  BY DEF HeaderOf, PacketSizeWords
<1>7. indicator \in BOOLEAN
  OBVIOUS
<1> HIDE DEF type, indicator, tsb, tsi, tsf, sequence
<1>8. /\ type \in PacketType /\ tsi \in Tsi /\ tsf \in Tsf /\ tsb \in Byte
      /\ sequence \in Byte /\ TsmOf(type, tsb) \in Option({Fine, Coarse})
  BY <1>3, <1>4, <1>5 DEF type, tsb, tsi, tsf, sequence
<1> QED
  BY <1>1, <1>6, <1>7, <1>8 DEF PacketHeaderValue

LEMMA ClassIdType ==
  ASSUME NEW words \in Seq(Word), ClassIdError(ReadU32(words, 2), ReadU32(words, 3)) = Ok
  PROVE  ClassIdOf(ReadU32(words, 2), ReadU32(words, 3)) \in ClassIdValue
<1> DEFINE w0 == ReadU32(words, 2)
           w1 == ReadU32(words, 3)
<1>1. /\ Expect(<<w0[1] % 256, w0[2]>> = DIFI_CID, "InvalidOui") = Ok
      /\ Expect(w1[1] \in InformationClassCode, "UnknownInformationClass") = Ok
      /\ Expect(w1[2] \in PacketClassCode, "UnknownPacketClass") = Ok
  BY ThenOk DEF ClassIdError
<1>2. w1[1] \in InformationClassCode /\ w1[2] \in PacketClassCode
  BY <1>1 DEF Expect, Ok
<1>3. w0[1] \div 2048 \in Byte
  <2>1. w0[1] \in Nat /\ w0[1] <= 65535
    BY ReadTypes, HalfOf
  <2> HIDE DEF w0
  <2>2. w0[1] \div 2048 \in Nat /\ w0[1] \div 2048 <= 255
    BY <2>1
  <2>3. \A k \in Nat : k <= 255 => k \in Byte
    BY DEF Byte
  <2> QED
    BY <2>2, <2>3
<1>4. <<w0[1] % 256, w0[2]>> \in Word
  <2>1. <<w0[1] % 256, w0[2]>> = DIFI_CID
    BY <1>1 DEF Expect, Ok
  <2>2. 106 \in Half /\ 25118 \in Half
    BY HalfOf
  <2> QED
    BY <2>1, <2>2, HalfOf DEF DIFI_CID
<1> HIDE DEF w0, w1
<1>5. ClassIdOf(w0, w1) \in ClassIdValue
  BY <1>2, <1>3, <1>4 DEF ClassIdOf, ClassIdValue
<1> QED
  BY <1>5 DEF w0, w1

LEMMA CommonType ==
  ASSUME NEW words \in Seq(Word)
  PROVE  Common(words) \in CommonValue
BY ReadTypes DEF Common, CommonValue

LEMMA SliceType ==
  ASSUME NEW words \in Seq(Word)
  PROVE  Slice(words) \in Bytes
BY DEF Slice, Bytes

LEMMA SignalContextBodyType ==
  ASSUME NEW words \in Seq(Word)
  PROVE  SignalContextBody(words) \in SignalContextValue
<1> DEFINE f == PayloadFormatOf(ReadU32(words, 25), ReadU32(words, 26))
<1>1. f \in PayloadFormatValue
  <2>1. /\ (ReadU32(words, 25)[2] % 64) + 1 \in Byte
        /\ ((ReadU32(words, 25)[2] \div 64) % 64) + 1 \in Byte
    BY ReadTypes, SmallFields
  <2> QED
    BY <2>1, ReadTypes DEF PayloadFormatOf, PayloadFormatValue
<1> HIDE DEF f
<1> DEFINE changed == ReadU32(words, 7) = CIF_CONTEXT_CHANGED
<1>2. changed \in BOOLEAN
  OBVIOUS
<1>3. SignalContextBody(words)
        = [cif0                       |-> ReadU32(words, 7),
           context_changed            |-> changed,
           reference_point            |-> ReadU32(words, 8),
           bandwidth                  |-> ReadU64(words, 9),
           if_reference_frequency     |-> ReadU64(words, 11),
           rf_reference_frequency     |-> ReadU64(words, 13),
           if_band_offset             |-> ReadU64(words, 15),
           scaling_level              |-> ReadU32(words, 17)[1],
           reference_level            |-> ReadU32(words, 17)[2],
           gain2                      |-> ReadU32(words, 18)[1],
           gain1                      |-> ReadU32(words, 18)[2],
           sample_rate                |-> ReadU64(words, 19),
           timestamp_adjustment       |-> ReadU64(words, 21),
           timestamp_calibration_time |-> ReadU32(words, 23),
           state_and_event_indicators |-> ReadU32(words, 24),
           payload_format             |-> f]
  BY DEF SignalContextBody, f
<1> HIDE DEF changed
<1> QED
  BY <1>1, <1>2, <1>3, ReadTypes DEF SignalContextValue

LEMMA VersionContextBodyType ==
  ASSUME NEW words \in Seq(Word)
  PROVE  VersionContextBody(words) \in VersionContextValue
<1> DEFINE hi      == ReadU32(words, 10)[1]
           lo      == ReadU32(words, 10)[2]
           changed == ReadU32(words, 7) = CIF_VERSION_CHANGED
           year    == hi \div 512
           day     == hi % 512
           rev     == lo \div 1024
           device  == (lo \div 64) % 16
<1>1. year \in Byte /\ day \in Half /\ rev \in Byte /\ device \in Byte
  BY ReadTypes, SmallFields
<1>2. changed \in BOOLEAN
  OBVIOUS
<1>3. VersionContextBody(words)
        = [cif0 |-> ReadU32(words, 7), context_changed |-> changed, cif1 |-> ReadU32(words, 8),
           vita49_spec_version |-> ReadU32(words, 9), year |-> year, day |-> day,
           revision |-> rev, device_type |-> device, icd_version |-> Version1]
  BY DEF VersionContextBody
<1> HIDE DEF changed, year, day, rev, device
<1> QED
  BY <1>1, <1>2, <1>3, ReadTypes DEF VersionContextValue

LEMMA TimingFlowControlBodyType ==
  ASSUME NEW words \in Seq(Word)
  PROVE  TimingFlowControlBody(words) \in TimingFlowControlValue
<1> DEFINE w == ReadU32(words, 20)
<1>1. BufferStatusOf(w) \in BufferStatusValue
  <2> DEFINE level == w[2] \div 16
             over  == (w[2] \div 8) % 2 = 1
             full  == (w[2] \div 4) % 2 = 1
             empty == (w[2] \div 2) % 2 = 1
             under == w[2] % 2 = 1
  <2>1. level \in Half /\ w \in Word
    BY ReadTypes, SmallFields
  <2>2. over \in BOOLEAN /\ full \in BOOLEAN /\ empty \in BOOLEAN /\ under \in BOOLEAN
    OBVIOUS
  <2>3. BufferStatusOf(w) = [raw |-> w, buffer_level |-> level, overflow |-> over,
                             nearly_full |-> full, nearly_empty |-> empty, underflow |-> under]
    BY DEF BufferStatusOf
  <2> HIDE DEF w, level, over, full, empty, under
  <2> QED
    BY <2>1, <2>2, <2>3 DEF BufferStatusValue
<1>2. TimingFlowControlBody(words)
        = [common |-> Common(words), cif0 |-> ReadU32(words, 11), cif1 |-> ReadU32(words, 12),
           reference_point |-> ReadU32(words, 13), sample_rate |-> ReadU64(words, 14),
           timestamp_adjustment |-> ReadU64(words, 16), buffer_size_bytes |-> ReadU64(words, 18),
           buffer_status |-> BufferStatusOf(w)]
  BY DEF TimingFlowControlBody
<1> HIDE DEF w
<1> QED
  BY <1>1, <1>2, CommonType, ReadTypes DEF TimingFlowControlValue

LEMMA FormType ==
  ASSUME NEW words
  PROVE  /\ IsShort(words) \in BOOLEAN /\ (~IsShort(words)) \in BOOLEAN
         /\ (IF IsShort(words) THEN "Short" ELSE "Long") \in CapabilityForm
<1>1. IsShort(words) \in BOOLEAN
  BY DEF IsShort
<1>2. (~IsShort(words)) \in BOOLEAN
  BY DEF IsShort
<1>3. (IF IsShort(words) THEN "Short" ELSE "Long") \in CapabilityForm
  BY DEF CapabilityForm
<1> QED
  BY <1>1, <1>2, <1>3

LEMMA QueryBodyType ==
  ASSUME NEW words \in Seq(Word)
  PROVE  SinkCapabilitiesQueryBody(words) \in SinkCapabilitiesQueryValue
<1>1. /\ IsShort(words) \in BOOLEAN /\ (~IsShort(words)) \in BOOLEAN
      /\ (IF IsShort(words) THEN "Short" ELSE "Long") \in CapabilityForm
  BY FormType
<1>2. /\ When(~IsShort(words), ReadU32(words, 12)) \in Option(Word)
      /\ When(IsShort(words), ReadU32(words, 12)) \in Option(Word)
      /\ When(IsShort(words), ReadU64(words, 13)) \in Option(Word64)
  BY <1>1, ReadTypes, OptionType
<1> QED
  BY <1>1, <1>2, CommonType, ReadTypes
     DEF SinkCapabilitiesQueryBody, SinkCapabilitiesQueryValue

LEMMA ResponseBodyType ==
  ASSUME NEW words \in Seq(Word), Len(words) >= 7
  PROVE  SinkCapabilitiesResponseBody(words) \in SinkCapabilitiesResponseValue
<1> DEFINE table == IF IsShort(words) THEN <<>> ELSE SubSeq(words, 14, Len(words))
<1>1. /\ IsShort(words) \in BOOLEAN /\ (~IsShort(words)) \in BOOLEAN
      /\ (IF IsShort(words) THEN "Short" ELSE "Long") \in CapabilityForm
  BY FormType
<1>2. /\ When(~IsShort(words), ReadU32(words, 12)) \in Option(Word)
      /\ When(IsShort(words), ReadU32(words, 12)) \in Option(Word)
      /\ When(IsShort(words), ReadU32(words, 15)) \in Option(Word)
  BY <1>1, ReadTypes, OptionType
<1>3. /\ When(IsShort(words), ReadU64(words, 13)) \in Option(Word64)
      /\ When(IsShort(words), ReadU64(words, 16)) \in Option(Word64)
  BY <1>1, ReadTypes, OptionType
<1>4. Slice(table) \in Bytes
  <2>1. SubSeq(words, 14, Len(words)) \in Seq(Word) /\ <<>> \in Seq(Word)
    OBVIOUS
  <2>2. table \in Seq(Word)
    BY <2>1
  <2> QED
    BY <2>2, SliceType
<1>5. SinkCapabilitiesResponseBody(words).capability_table = Slice(table)
  BY DEF SinkCapabilitiesResponseBody
<1> HIDE DEF table
<1> QED
  BY <1>1, <1>2, <1>3, <1>4, <1>5, CommonType, ReadTypes
     DEF SinkCapabilitiesResponseBody, SinkCapabilitiesResponseValue

LEMMA StatusReportBodyType ==
  ASSUME NEW words \in Seq(Word)
  PROVE  StatusReportBody(words) \in StatusReportValue
<1> DEFINE size == PacketSizeWords(ReadU32(words, 0))
           long == size >= 17
           full == size = 21
<1>1. long \in BOOLEAN /\ full \in BOOLEAN
  OBVIOUS
<1>2. <<ReadU32(words, 15), ReadU32(words, 16)>> \in Word64
  BY ReadTypes DEF Word64
<1>3. StatusReportBody(words)
        = [common |-> Common(words), cif0 |-> ReadU32(words, 11), cif1 |-> ReadU32(words, 12),
           packet_errors |-> ReadU32(words, 13), sink_errors_warnings |-> ReadU32(words, 14),
           reference_level_limit |-> When(long, <<ReadU32(words, 15), ReadU32(words, 16)>>),
           sample_rate_limit |-> When(full, ReadU64(words, 17)),
           bandwidth_limit |-> When(full, ReadU64(words, 19))]
  BY DEF StatusReportBody
<1> HIDE DEF long, full
<1>4. /\ When(long, <<ReadU32(words, 15), ReadU32(words, 16)>>) \in Option(Word64)
      /\ When(full, ReadU64(words, 17)) \in Option(Word64)
      /\ When(full, ReadU64(words, 19)) \in Option(Word64)
  BY <1>1, <1>2, ReadTypes, OptionType
<1> QED
  BY <1>3, <1>4, CommonType, ReadTypes DEF StatusReportValue

\* Whatever the parser accepts is a packet value.
LEMMA PacketOfType ==
  ASSUME NEW o, NEW words \in Seq(Word), Len(words) >= 7, PacketError(o, words) = Ok
  PROVE  PacketOf(words) \in PacketValue
<1> DEFINE class == ClassIdOf(ReadU32(words, 2), ReadU32(words, 3)).packet_class
           v     == VariantOf(class)
<1>1. /\ HeaderError(ReadU32(words, 0)) = Ok
      /\ ClassIdError(ReadU32(words, 2), ReadU32(words, 3)) = Ok
  BY ThenOk DEF PacketError
<1>2. PrologueOf(words) \in PrologueValue
  <2>1. /\ HeaderOf(ReadU32(words, 0)) \in PacketHeaderValue
        /\ ClassIdOf(ReadU32(words, 2), ReadU32(words, 3)) \in ClassIdValue
    BY <1>1, ReadU32Type, HeaderType, ClassIdType
  <2> QED
    BY <2>1, ReadTypes DEF PrologueOf, PrologueValue
<1>3. PacketOf(words) = [variant |-> v, prologue |-> PrologueOf(words), body |-> BodyOf(v, words)]
  BY DEF PacketOf, PrologueOf
<1>4. v \in {"SignalData", "SignalContext", "VersionContext", "TimingFlowControl",
             "SinkCapabilitiesQuery", "SinkCapabilitiesResponse", "StatusReport"}
  <2>1. class \in 0..9
    BY PacketErrorOk DEF PacketClassCode
  <2> HIDE DEF class
  <2>2. class \in {0, 1, 2, 3, 4, 5, 6, 7, 8, 9}
    BY <2>1
  <2> QED
    BY <2>2 DEF VariantOf, StandardFlowSignalData, SampleCountSignalData,
       StandardFlowSignalContext, SampleCountSignalContext, VersionFlowSignalContext,
       SampleCountTimingFlowControl, RealTimeTimingFlowControl, SinkCapabilitiesQuery,
       SinkCapabilitiesResponse, StatusReport
<1> HIDE DEF v
<1>5. SignalDataBody(words) \in SignalDataValue
  <2>1. SubSeq(words, PROLOGUE_WORDS + 1, Len(words)) \in Seq(Word)
    BY DEF PROLOGUE_WORDS
  <2> QED
    BY <2>1, SliceType DEF SignalDataBody, SignalDataValue
<1>6. \A bodies : BodyOf(v, words) \in bodies => PacketOf(words) \in PacketOfVariant(v, bodies)
  BY <1>2, <1>3 DEF PacketOfVariant
<1>7. CASE v = "SignalData"
  BY <1>5, <1>6, <1>7 DEF BodyOf, PacketValue
<1>8. CASE v = "SignalContext"
  BY <1>6, <1>8, SignalContextBodyType DEF BodyOf, PacketValue
<1>9. CASE v = "VersionContext"
  BY <1>6, <1>9, VersionContextBodyType DEF BodyOf, PacketValue
<1>10. CASE v = "TimingFlowControl"
  BY <1>6, <1>10, TimingFlowControlBodyType DEF BodyOf, PacketValue
<1>11. CASE v = "SinkCapabilitiesQuery"
  BY <1>6, <1>11, QueryBodyType DEF BodyOf, PacketValue
<1>12. CASE v = "SinkCapabilitiesResponse"
  BY <1>6, <1>12, ResponseBodyType DEF BodyOf, PacketValue
<1>13. CASE v = "StatusReport"
  BY <1>6, <1>13, StatusReportBodyType DEF BodyOf, PacketValue
<1> QED
  BY <1>4, <1>7, <1>8, <1>9, <1>10, <1>11, <1>12, <1>13
=============================================================================

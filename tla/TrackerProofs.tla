--------------------------- MODULE TrackerProofs ---------------------------
(***************************************************************************)
(* What the sequence tracker tells its user, for every modulus and         *)
(* whatever arrives.                                                       *)
(*                                                                         *)
(* First, StreamHistory: the tracker summarises the accepted datagrams and *)
(* the statuses are the ones they deserve.  The inductive invariant is     *)
(* TypeOK, LogOK and LastSeenIsLatest; StatusComparesNeighbours follows    *)
(* from the step that computes the status out of a tracker that summarises *)
(* the log before it.                                                      *)
(*                                                                         *)
(* Then, DatagramFlow: the flow implements TrueOrder, for every number of  *)
(* sources and streams, index bound, network capacity and wire encoding.   *)
(* The inductive invariant says that every number in the system is a true  *)
(* index modulo the modulus; the refinement then rests on arithmetic: two  *)
(* indices less than a turn apart are equal iff their remainders are.      *)
(***************************************************************************)
EXTENDS StreamHistory, DatagramFlow, PacketStreamProofs

\* A log with one entry more.
LEMMA AppendEntry ==
  ASSUME NEW l \in Seq(Entry), NEW e \in Entry
  PROVE  /\ Append(l, e) \in Seq(Entry)
         /\ Len(Append(l, e)) = Len(l) + 1
         /\ Append(l, e)[Len(l) + 1] = e
         /\ \A i \in 1..Len(l) : Append(l, e)[i] = l[i]
OBVIOUS

\* Observing the entry that is appended keeps the tracker a summary of the log.
LEMMA ObserveSummarises ==
  ASSUME NEW l \in Seq(Entry), NEW e \in Entry, NEW t, Summarises(t, l)
  PROVE  Summarises(Observe(t, e.key, e.sequence), Append(l, e))
<1> DEFINE m == Append(l, e)
           n == Len(l) + 1
           u == Observe(t, e.key, e.sequence)
<1>1. /\ m \in Seq(Entry)
      /\ Len(m) = n
      /\ m[n] = e
      /\ \A i \in 1..Len(l) : m[i] = l[i]
  BY AppendEntry
<1>2. Len(l) \in Nat /\ 1..n = 1..Len(l) \cup {n} /\ n \notin 1..Len(l)
  OBVIOUS
<1>3. DOMAIN u = DOMAIN t \cup {e.key}
  BY DEF Observe
<1> HIDE DEF m, n, u
<1>4. DOMAIN u = {m[i].key : i \in 1..Len(m)}
  BY <1>1, <1>2, <1>3 DEF Summarises
<1>5. ASSUME NEW i \in 1..Len(m), IsLatest(m, i)
      PROVE  u[m[i].key] = m[i].sequence % Modulus
  <2>1. CASE m[i].key = e.key
    <3>1. i = n
      BY <1>1, <1>2, <1>5, <2>1 DEF IsLatest, n
    <3>2. e.key \in DOMAIN t \cup {e.key}
      OBVIOUS
    <3> QED
      BY <1>1, <3>1, <3>2 DEF u, Observe
  <2>2. CASE m[i].key # e.key
    <3>1. i \in 1..Len(l) /\ m[i] = l[i]
      BY <1>1, <1>2, <2>2
    <3>2. IsLatest(l, i)
      BY <1>1, <1>2, <1>5, <3>1 DEF IsLatest
    <3>3. t[l[i].key] = l[i].sequence % Modulus /\ l[i].key \in DOMAIN t
      BY <3>1, <3>2 DEF Summarises
    <3> QED
      BY <2>2, <3>1, <3>3 DEF u, Observe
  <2> QED
    BY <2>1, <2>2
<1>6. Summarises(u, m)
  BY <1>4, <1>5 DEF Summarises
<1> QED
  BY <1>6 DEF u, m

\* The status computed from a summary is the one the appended entry deserves.
LEMMA StatusDeserved ==
  ASSUME NEW l \in Seq(Entry), NEW e \in Entry, NEW t, Summarises(t, l)
  PROVE  Deserved(ObservedStatus(t, e.key, e.sequence), Append(l, e))
<1> DEFINE m       == Append(l, e)
           n       == Len(l) + 1
           status  == ObservedStatus(t, e.key, e.sequence)
           earlier == {i \in 1..(Len(m) - 1) : m[i].key = m[Len(m)].key}
<1>1. /\ Len(m) = n
      /\ m[n] = e
      /\ \A i \in 1..Len(l) : m[i] = l[i]
  BY AppendEntry
<1>2. Len(l) \in Nat /\ n - 1 = Len(l) /\ n > 0
  OBVIOUS
<1>3. earlier = {i \in 1..Len(l) : l[i].key = e.key}
  BY <1>1, <1>2
<1> HIDE DEF m, n, status, earlier
<1>4. ASSUME earlier = {} PROVE status = First
  <2>1. e.key \notin DOMAIN t
    BY <1>3, <1>4 DEF Summarises
  <2> QED
    BY <2>1 DEF status, ObservedStatus
<1>5. ASSUME NEW i \in earlier, \A j \in earlier : j <= i
      PROVE  status = Judgement(m[i].sequence % Modulus, m[Len(m)].sequence % Modulus)
  <2>1. i \in 1..Len(l) /\ l[i].key = e.key /\ m[i] = l[i]
    BY <1>1, <1>3
  <2>2. IsLatest(l, i)
    BY <1>3, <1>5, <2>1 DEF IsLatest
  <2>3. e.key \in DOMAIN t /\ t[e.key] = l[i].sequence % Modulus
    BY <2>1, <2>2 DEF Summarises
  <2> QED
    BY <1>1, <2>1, <2>3 DEF status, ObservedStatus, Judgement
<1>6. Deserved(status, m)
  BY <1>1, <1>2, <1>4, <1>5 DEF Deserved, earlier
<1> QED
  BY <1>6 DEF status, m

-----------------------------------------------------------------------------

\* The inductive invariant: well-formed trackers and logs, the one a summary of the other.
HInv == TypeOK /\ LogOK /\ LastSeenIsLatest

\* New parsers have seen nothing and returned nothing.
LEMMA HInitInv == HInit => HInv /\ StatusComparesNeighbours
<1> SUFFICES ASSUME HInit PROVE HInv /\ StatusComparesNeighbours
  OBVIOUS
<1>1. TypeOK
  BY InitType DEF HInit
<1>2. LogOK
  BY DEF HInit, LogOK
<1>3. LastSeenIsLatest
  BY DEF HInit, Init, LastSeenIsLatest, Summarises, NothingSeen
<1>4. StatusComparesNeighbours
  BY DEF HInit, Init, StatusComparesNeighbours, NoResult, Ok
<1> QED
  BY <1>1, <1>2, <1>3, <1>4 DEF HInv

\* An accepted datagram enters tracker and log alike, and its status is computed before.
LEMMA HParseOkInv ==
  ASSUME HInv, StatusComparesNeighbours,
         NEW p \in Parsers, NEW d \in Datagrams, HParseOk(p, d)
  PROVE  HInv' /\ StatusComparesNeighbours'
<1> DEFINE packet == ParsePacketExact(d, OptionsOf[p]).packet
           e      == EntryOf(packet)
<1>1. /\ ParsePacketExact(d, OptionsOf[p]).error = Ok
      /\ last_seen' = [last_seen EXCEPT ![p] = Observe(@, e.key, e.sequence)]
      /\ result' = [result EXCEPT ![p] =
           [error           |-> Ok,
            packet          |-> packet,
            sequence_status |-> ObservedStatus(last_seen[p], e.key, e.sequence)]]
      /\ log' = [log EXCEPT ![p] = Append(@, e)]
  BY DEF HParseOk, ParseOk, EntryOf, StreamOf, SequenceKeyOf
<1>2. IsSlice(d)
  BY DatagramsAssumption DEF IsSlice
<1>3. e \in Entry
  BY <1>1, <1>2, AcceptedKey DEF EntryOf, Entry, StreamOf, SequenceKeyOf
<1>4. TypeOK'
  BY <1>2, ParseOkType DEF HInv, HParseOk
<1> HIDE DEF packet, e
<1>5. log[p] \in Seq(Entry) /\ Summarises(last_seen[p], log[p])
  BY DEF HInv, LogOK, LastSeenIsLatest
<1>6. LogOK'
  BY <1>1, <1>3, <1>5, AppendEntry DEF HInv, LogOK
<1>7. ASSUME NEW q \in Parsers PROVE Summarises(last_seen'[q], log'[q])
  BY <1>1, <1>3, <1>5, ObserveSummarises DEF HInv, LogOK, LastSeenIsLatest, TypeOK
<1>8. ASSUME NEW q \in Parsers, result'[q].error = Ok
      PROVE  Deserved(result'[q].sequence_status, log'[q])
  BY <1>1, <1>3, <1>5, <1>8, StatusDeserved
     DEF HInv, LogOK, StatusComparesNeighbours, TypeOK
<1>9. LastSeenIsLatest' /\ StatusComparesNeighbours'
  BY <1>7, <1>8 DEF LastSeenIsLatest, StatusComparesNeighbours, Summarises, Deserved, IsLatest
<1> QED
  BY <1>4, <1>6, <1>9 DEF HInv

\* A refused datagram changes neither, and returns no status.
LEMMA HParseErrInv ==
  ASSUME HInv, StatusComparesNeighbours,
         NEW p \in Parsers, NEW d \in Datagrams, HParseErr(p, d)
  PROVE  HInv' /\ StatusComparesNeighbours'
<1>1. /\ ParsePacketExact(d, OptionsOf[p]).error # Ok
      /\ result' = [result EXCEPT ![p] = [error |-> ParsePacketExact(d, OptionsOf[p]).error]]
      /\ UNCHANGED <<last_seen, log>>
  BY DEF HParseErr, ParseErr
<1>2. TypeOK'
  BY ParseErrType DEF HInv, HParseErr
<1>3. LogOK' /\ LastSeenIsLatest'
  BY <1>1 DEF HInv, LogOK, LastSeenIsLatest, Summarises, IsLatest
<1>4. ASSUME NEW q \in Parsers, result'[q].error = Ok
      PROVE  result'[q] = result[q]
  BY <1>1, <1>4 DEF HInv, TypeOK
<1>5. StatusComparesNeighbours'
  BY <1>1, <1>4 DEF StatusComparesNeighbours, Deserved
<1> QED
  BY <1>2, <1>3, <1>5 DEF HInv

\* reset_sequences empties both.
LEMMA HResetInv ==
  ASSUME HInv, StatusComparesNeighbours, NEW p \in Parsers, HReset(p)
  PROVE  HInv' /\ StatusComparesNeighbours'
<1>1. /\ last_seen' = [last_seen EXCEPT ![p] = NothingSeen]
      /\ result' = [result EXCEPT ![p] = NoResult]
      /\ log' = [log EXCEPT ![p] = <<>>]
  BY DEF HReset, ResetSequences
<1>2. TypeOK'
  BY ResetType DEF HInv, HReset
<1>3. LogOK'
  BY <1>1 DEF HInv, LogOK
<1>4. Summarises(NothingSeen, <<>>)
  BY DEF Summarises, NothingSeen
<1>5. ASSUME NEW q \in Parsers PROVE Summarises(last_seen'[q], log'[q])
  BY <1>1, <1>4 DEF HInv, LogOK, LastSeenIsLatest, TypeOK
<1>6. ASSUME NEW q \in Parsers, result'[q].error = Ok
      PROVE  result'[q] = result[q] /\ log'[q] = log[q]
  BY <1>1, <1>6 DEF HInv, TypeOK, LogOK, NoResult, Ok
<1>7. ASSUME NEW q \in Parsers, result'[q].error = Ok
      PROVE  Deserved(result'[q].sequence_status, log'[q])
  BY <1>6, <1>7 DEF StatusComparesNeighbours
<1>8. LastSeenIsLatest'
  BY <1>5 DEF LastSeenIsLatest, Summarises, IsLatest
<1>9. StatusComparesNeighbours'
  BY <1>7 DEF StatusComparesNeighbours, Deserved
<1> QED
  BY <1>2, <1>3, <1>8, <1>9 DEF HInv

\* Every step keeps the invariant.
LEMMA HStepInv ==
  HInv /\ StatusComparesNeighbours /\ [HNext]_hvars => HInv' /\ StatusComparesNeighbours'
<1> SUFFICES ASSUME HInv, StatusComparesNeighbours, [HNext]_hvars
             PROVE  HInv' /\ StatusComparesNeighbours'
  OBVIOUS
<1>1. ASSUME NEW p \in Parsers, NEW d \in Datagrams, HParseOk(p, d)
      PROVE  HInv' /\ StatusComparesNeighbours'
  BY <1>1, HParseOkInv
<1>2. ASSUME NEW p \in Parsers, NEW d \in Datagrams, HParseErr(p, d)
      PROVE  HInv' /\ StatusComparesNeighbours'
  BY <1>2, HParseErrInv
<1>3. ASSUME NEW p \in Parsers, HReset(p)
      PROVE  HInv' /\ StatusComparesNeighbours'
  BY <1>3, HResetInv
<1>4. CASE UNCHANGED hvars
  BY <1>4 DEF hvars, HInv, TypeOK, Tracker, LogOK, LastSeenIsLatest, Summarises, IsLatest,
              StatusComparesNeighbours, Deserved
<1> QED
  BY <1>1, <1>2, <1>3, <1>4 DEF HNext

(* Refused datagrams leave no trace and accepted ones exactly their own:   *)
(* at every moment the tracker of a parser is the summary of the datagrams *)
(* it accepted since its last reset (packet_stream.rs 56-68).              *)
THEOREM TrackerSummarisesHistory == HSpec => []LastSeenIsLatest
<1>1. HInv => LastSeenIsLatest
  BY DEF HInv
<1> QED
  BY HInitInv, HStepInv, <1>1, PTL DEF HSpec

(* Every status a parser returns is the one the two latest datagrams of    *)
(* that stream deserve (sequence.rs 44-77).                                *)
THEOREM StatusesAreDeserved == HSpec => []StatusComparesNeighbours
BY HInitInv, HStepInv, PTL DEF HSpec

-----------------------------------------------------------------------------
(* Remainders.                                                             *)

\* What division means.
LEMMA Division ==
  ASSUME NEW a \in Int, NEW m \in Nat \ {0}
  PROVE  /\ a \div m \in Int
         /\ a % m \in 0..(m - 1)
         /\ a = m * (a \div m) + (a % m)
OBVIOUS

\* A non-zero multiple of m is at least m away from zero.
LEMMA MultipleIsFar ==
  ASSUME NEW k \in Int, NEW m \in Nat \ {0}, m * k \in (1 - m)..(m - 1)
  PROVE  k = 0
<1>1. CASE k >= 1
  <2>1. m * k >= m
    BY <1>1
  <2> QED
    BY <2>1
<1>2. CASE k <= -1
  <2>1. m * k <= -m
    BY <1>2
  <2> QED
    BY <2>1
<1> QED
  BY <1>1, <1>2

\* The remainder is the only number below m that leaves a multiple.
LEMMA RemainderUnique ==
  ASSUME NEW m \in Nat \ {0}, NEW a \in Int, NEW k \in Int, NEW r \in 0..(m - 1), a = m * k + r
  PROVE  a % m = r
<1>1. PICK q \in Int : a = m * q + (a % m)
  BY Division
<1>2. a % m \in 0..(m - 1) /\ a % m \in Int /\ r \in Int
  BY Division
<1>3. r - (a % m) = m * (q - k)
  BY <1>1, <1>2
<1>4. q - k = 0
  <2>1. r - (a % m) \in (1 - m)..(m - 1)
    BY <1>2
  <2> QED
    BY <1>3, <2>1, MultipleIsFar
<1>5. q = k
  BY <1>4
<1> QED
  BY <1>1, <1>2, <1>5

\* Less than a turn apart, equal remainders mean equal numbers.
LEMMA RemaindersTell ==
  ASSUME NEW a \in Int, NEW b \in Int, NEW m \in Nat \ {0},
         a - b \in (1 - m)..(m - 1), a % m = b % m
  PROVE  a = b
<1>1. PICK p \in Int, q \in Int : a = m * p + (a % m) /\ b = m * q + (b % m)
  BY Division
<1>2. a % m \in Int
  BY Division
<1>3. a - b = m * (p - q)
  BY <1>1, <1>2
<1>4. p - q = 0
  BY <1>3, MultipleIsFar
<1> QED
  BY <1>1, <1>4

\* A number below m is its own remainder.
LEMMA SmallRemainder ==
  ASSUME NEW m \in Nat \ {0}, NEW s \in 0..(m - 1)
  PROVE  s % m = s
OBVIOUS

\* A turn begins at a multiple of the modulus.
LEMMA TurnBegins ==
  ASSUME NEW n \in Nat
  PROVE  NextTurn(n) \in Nat /\ NextTurn(n) % Modulus = 0
<1> DEFINE a == n + (Modulus - 1)
           k == a \div Modulus
<1>1. Modulus \in Nat \ {0} /\ a \in Nat
  BY ModulusAssumption
<1>2. k \in Nat
  BY <1>1
<1> HIDE DEF a, k
<1>3. /\ Modulus * k \in Nat /\ Modulus * k \in Int /\ k \in Int
      /\ Modulus * k = Modulus * k + 0
      /\ 0 \in 0..(Modulus - 1)
  BY <1>1, <1>2
<1>4. (Modulus * k) % Modulus = 0
  BY <1>1, <1>2, <1>3, RemainderUnique, Zenon
<1> QED
  BY <1>3, <1>4 DEF NextTurn, a, k

\* Counting on from a remainder is counting on from the number.
LEMMA SuccessorOfRemainder ==
  ASSUME NEW n \in Int, NEW m \in Nat \ {0}
  PROVE  ((n % m) + 1) % m = (n + 1) % m
<1>1. PICK d \in Int, r \in 0..(m - 1) : n = m * d + r /\ r = n % m
  BY Division
<1>2. CASE r + 1 < m
  <2>1. n + 1 \in Int /\ n + 1 = m * d + (r + 1) /\ r + 1 \in 0..(m - 1)
    BY <1>1, <1>2
  <2>2. (n + 1) % m = r + 1
    BY <2>1, RemainderUnique, Zenon
  <2> QED
    BY <1>1, <2>1, <2>2, SmallRemainder
<1>3. CASE r + 1 = m
  <2>1. /\ n + 1 \in Int /\ d + 1 \in Int /\ 0 \in 0..(m - 1)
        /\ n + 1 = m * (d + 1) + 0
    <3>1. m * (d + 1) = m * d + m /\ m * d \in Int
      OBVIOUS
    <3>2. n = m * d + r /\ r \in Int
      BY <1>1
    <3>3. n + 1 = (m * d) + m
      BY <1>3, <3>1, <3>2
    <3> QED
      BY <3>1, <3>3
  <2>2. (n + 1) % m = 0
    BY <2>1, RemainderUnique, Zenon
  <2>3. (r + 1) % m = 0
    BY <1>3
  <2> QED
    BY <1>1, <2>2, <2>3
<1> QED
  BY <1>2, <1>3

-----------------------------------------------------------------------------
(* What the tracker reports, in terms of true indices.                     *)

\* Within a window the status computed from remainders is the truth.
LEMMA TruthWithinWindow ==
  ASSUME NEW seen, NEW t, NEW key \in DOMAIN seen, key \in DOMAIN t,
         NEW index \in Nat, NEW s \in SequenceNumber,
         seen[key] \in Nat, t[key] = seen[key] % Modulus, s = index % Modulus,
         index - seen[key] \in Order!Window
  PROVE  ObservedStatus(t, key, s) = Order!Truth(seen[key], index)
<1> DEFINE i == seen[key]
<1>1. s % Modulus = s
  BY SmallRemainder, ModulusAssumption DEF SequenceNumber
<1>2. i \in Int /\ index \in Int /\ i + 1 \in Int
  OBVIOUS
<1>3. (t[key] + 1) % Modulus = (i + 1) % Modulus
  BY <1>2, SuccessorOfRemainder, ModulusAssumption
<1>4. t[key] = s <=> index = i
  <2>1. index - i \in (1 - Modulus)..(Modulus - 1)
    BY <1>2, ModulusAssumption DEF Order!Window
  <2> QED
    BY <1>2, <2>1, RemaindersTell, ModulusAssumption
<1>5. (i + 1) % Modulus = s <=> index = i + 1
  <2>1. index - (i + 1) \in (1 - Modulus)..(Modulus - 1)
    BY <1>2, ModulusAssumption DEF Order!Window
  <2> QED
    BY <1>2, <2>1, RemaindersTell, ModulusAssumption
<1> HIDE DEF i
<1>6. ObservedStatus(t, key, s)
        = IF t[key] = s
          THEN Duplicate
          ELSE IF (i + 1) % Modulus = s THEN InOrder ELSE Gap((i + 1) % Modulus, s)
  BY <1>1, <1>3 DEF ObservedStatus
<1>7. Order!Truth(i, index)
        = IF index = i
          THEN Duplicate
          ELSE IF index = i + 1 THEN InOrder ELSE Gap((i + 1) % Modulus, s)
  BY DEF Order!Truth, Order!Duplicate, Order!InOrder, Order!Gap, Duplicate, InOrder, Gap
<1> QED
  BY <1>4, <1>5, <1>6, <1>7 DEF i

-----------------------------------------------------------------------------
(* The inductive invariant.                                                *)

FInv == FTypeOK /\ NumbersAreIndicesModulo

\* Counting starts at zero everywhere.
LEMMA FInitInv == FInit => FInv
<1> SUFFICES ASSUME FInit PROVE FInv
  OBVIOUS
<1>1. 0 \in SequenceNumber /\ 0 % Modulus = 0
  BY SmallRemainder, ModulusAssumption DEF SequenceNumber
<1>2. TypeOK
  BY InitType DEF FInit
<1>3. FTypeOK
  BY <1>1, <1>2, BoundsAssumption DEF FInit, FTypeOK, NothingSeen
<1>4. NumbersAreIndicesModulo
  BY <1>1 DEF FInit, Init, NumbersAreIndicesModulo, NothingSeen
<1> QED
  BY <1>3, <1>4 DEF FInv

\* A message that is sent joins some of those in flight.
LEMMA TransmitKeeps ==
  ASSUME NEW m \in Message, m.sequence = m.index % Modulus, FInv, Transmit(m)
  PROVE  /\ network' \subseteq Message
         /\ \A n \in network' : n.sequence = n.index % Modulus
<1>1. PICK kept \in SUBSET network : network' = kept \cup {m}
  BY DEF Transmit
<1>2. kept \subseteq Message /\ \A n \in kept : n.sequence = n.index % Modulus
  BY DEF FInv, FTypeOK, NumbersAreIndicesModulo
<1> QED
  BY <1>1, <1>2

\* A source counts on modulo the size of its counter.
LEMMA SendInv ==
  ASSUME FInv, NEW p \in Parsers, NEW key \in Keys, Send(p, key)
  PROVE  FInv'
<1>1. /\ sent[p][key] \in 0..MaxIndex
      /\ sequence[p][key] \in SequenceNumber
      /\ sequence[p][key] = sent[p][key] % Modulus
  BY BoundsAssumption DEF FInv, FTypeOK, NumbersAreIndicesModulo, Send
<1>2. PICK d \in Wires(key, sequence[p][key]) :
        Transmit([to |-> p, key |-> key, sequence |-> sequence[p][key],
                  index |-> sent[p][key], bytes |-> d])
  BY DEF Send
<1> DEFINE m == [to |-> p, key |-> key, sequence |-> sequence[p][key],
                 index |-> sent[p][key], bytes |-> d]
<1>3. m \in Message /\ m.sequence = m.index % Modulus
  BY <1>1 DEF Message, Indices
<1>4. NextSequence(sequence[p][key]) \in SequenceNumber
  BY <1>1, ModulusAssumption DEF NextSequence, SequenceNumber
<1>5. NextSequence(sequence[p][key]) = (sent[p][key] + 1) % Modulus
  BY <1>1, SuccessorOfRemainder, ModulusAssumption DEF NextSequence
<1>6. /\ sequence' = [sequence EXCEPT ![p][key] = NextSequence(@)]
      /\ sent' = [sent EXCEPT ![p][key] = @ + 1]
      /\ UNCHANGED <<last_seen, result, latest>>
  BY DEF Send
<1>7. network' \subseteq Message /\ \A n \in network' : n.sequence = n.index % Modulus
  BY <1>2, <1>3, TransmitKeeps
<1> HIDE DEF m
<1>8. TypeOK'
  BY <1>6 DEF FInv, FTypeOK, TypeOK, Tracker
<1>9. sequence' \in [Parsers -> [Keys -> SequenceNumber]]
  BY <1>4, <1>6 DEF FInv, FTypeOK
<1>10. sent' \in [Parsers -> [Keys -> 0..(MaxIndex + 1)]]
  BY <1>1, <1>6, BoundsAssumption DEF FInv, FTypeOK
<1>11. FTypeOK'
  BY <1>6, <1>7, <1>8, <1>9, <1>10 DEF FInv, FTypeOK
<1>12. \A q \in Parsers, k \in Keys : sequence'[q][k] = sent'[q][k] % Modulus
  BY <1>5, <1>6 DEF FInv, FTypeOK, NumbersAreIndicesModulo
<1>13. NumbersAreIndicesModulo'
  BY <1>6, <1>7, <1>12 DEF FInv, NumbersAreIndicesModulo
<1> QED
  BY <1>11, <1>13 DEF FInv

\* Counting from zero is counting on from the start of a turn.
LEMMA RestartInv ==
  ASSUME FInv, NEW p \in Parsers, Restart(p)
  PROVE  FInv'
<1>1. /\ \A key \in Keys : NextTurn(sent[p][key]) <= MaxIndex + 1
      /\ sequence' = [sequence EXCEPT ![p] = [key \in Keys |-> 0]]
      /\ sent' = [sent EXCEPT ![p] = [key \in Keys |-> NextTurn(@[key])]]
      /\ UNCHANGED <<last_seen, result, network, latest>>
  BY DEF Restart
<1>2. ASSUME NEW key \in Keys
      PROVE  NextTurn(sent[p][key]) \in 0..(MaxIndex + 1) /\ NextTurn(sent[p][key]) % Modulus = 0
  <2>1. sent[p][key] \in Nat
    BY BoundsAssumption DEF FInv, FTypeOK
  <2> QED
    BY <1>1, <2>1, TurnBegins, BoundsAssumption
<1>3. 0 \in SequenceNumber
  BY ModulusAssumption DEF SequenceNumber
<1>4. TypeOK'
  BY <1>1 DEF FInv, FTypeOK, TypeOK, Tracker
<1>5. sequence' \in [Parsers -> [Keys -> SequenceNumber]]
  BY <1>1, <1>3 DEF FInv, FTypeOK
<1>6. sent' \in [Parsers -> [Keys -> 0..(MaxIndex + 1)]]
  BY <1>1, <1>2 DEF FInv, FTypeOK
<1>7. FTypeOK'
  BY <1>1, <1>4, <1>5, <1>6 DEF FInv, FTypeOK
<1>8. \A q \in Parsers, k \in Keys : sequence'[q][k] = sent'[q][k] % Modulus
  BY <1>1, <1>2 DEF FInv, FTypeOK, NumbersAreIndicesModulo
<1>9. NumbersAreIndicesModulo'
  BY <1>1, <1>8 DEF FInv, NumbersAreIndicesModulo
<1> QED
  BY <1>7, <1>9 DEF FInv

\* What a delivery does to the parser it reaches: the wire is what the source sent.
LEMMA DeliverParses ==
  ASSUME FInv, NEW m \in network, Deliver(m)
  PROVE  /\ m \in Message /\ m.sequence = m.index % Modulus
         /\ last_seen' = [last_seen EXCEPT ![m.to] = Observe(@, m.key, m.sequence)]
         /\ DOMAIN result = Parsers
         /\ \E packet : result' = [result EXCEPT ![m.to] =
              [error           |-> Ok,
               packet          |-> packet,
               sequence_status |-> ObservedStatus(last_seen[m.to], m.key, m.sequence)]]
         /\ TypeOK'
<1>1. m \in Message /\ m.sequence = m.index % Modulus
  BY DEF FInv, FTypeOK, NumbersAreIndicesModulo
<1> DEFINE packet == ParsePacketExact(m.bytes, OptionsOf[m.to]).packet
<1>2. /\ IsSlice(m.bytes)
      /\ SequenceKeyOf(packet.prologue) = m.key
      /\ packet.prologue.header.sequence = m.sequence
  BY <1>1, WireAssumption, KeysAssumption DEF Message, IsSlice, SequenceKeyOf, SequenceKey
<1>3. TypeOK'
  BY <1>1, <1>2, ParseOkType DEF FInv, FTypeOK, Deliver, Message
<1> QED
  BY <1>1, <1>2, <1>3 DEF Deliver, ParseOk, FInv, FTypeOK, TypeOK

\* A parser keeps the number of the index it accepted.
LEMMA DeliverInv ==
  ASSUME FInv, NEW m \in network, Deliver(m)
  PROVE  FInv'
<1>1. /\ m \in Message /\ m.sequence = m.index % Modulus
      /\ last_seen' = [last_seen EXCEPT ![m.to] = Observe(@, m.key, m.sequence)]
      /\ TypeOK'
  BY DeliverParses
<1>2. /\ latest' = [latest EXCEPT ![m.to] =
           [k \in DOMAIN @ \cup {m.key} |-> IF k = m.key THEN m.index ELSE @[k]]]
      /\ UNCHANGED <<sequence, sent, network>>
  BY DEF Deliver
<1>3. m.to \in Parsers /\ m.key \in Keys /\ m.index \in Indices /\ m.sequence \in SequenceNumber
  BY <1>1 DEF Message
<1>4. ASSUME NEW p \in Parsers
      PROVE  DOMAIN latest'[p] \subseteq Keys /\ latest'[p] \in [DOMAIN latest'[p] -> Indices]
  BY <1>2, <1>3 DEF FInv, FTypeOK
<1>5. FTypeOK'
  BY <1>1, <1>2, <1>4 DEF FInv, FTypeOK
<1>6. m.sequence % Modulus = m.sequence
  BY <1>3, SmallRemainder, ModulusAssumption DEF SequenceNumber
<1>7. ASSUME NEW p \in Parsers
      PROVE  /\ DOMAIN last_seen'[p] = DOMAIN latest'[p]
             /\ \A key \in DOMAIN latest'[p] : last_seen'[p][key] = latest'[p][key] % Modulus
  BY <1>1, <1>2, <1>3, <1>6
     DEF FInv, FTypeOK, TypeOK, NumbersAreIndicesModulo, Observe
<1>8. NumbersAreIndicesModulo'
  BY <1>2, <1>7 DEF FInv, NumbersAreIndicesModulo
<1> QED
  BY <1>5, <1>8 DEF FInv

\* Losing a datagram leaves fewer of them.
LEMMA LoseInv ==
  ASSUME FInv, NEW m \in network, Lose(m)
  PROVE  FInv'
BY DEF FInv, FTypeOK, TypeOK, Tracker, NumbersAreIndicesModulo, Lose, Drop

\* A refused datagram leaves the tracker alone.
LEMMA ForeignInv ==
  ASSUME FInv, NEW p \in Parsers, NEW d, DeliverForeign(p, d)
  PROVE  FInv'
<1>1. TypeOK'
  BY ParseErrType DEF FInv, FTypeOK, DeliverForeign
<1> QED
  BY <1>1 DEF FInv, FTypeOK, NumbersAreIndicesModulo, DeliverForeign, ParseErr

\* A reset empties the tracker and forgets the indices with it.
LEMMA FResetInv ==
  ASSUME FInv, NEW p \in Parsers, Reset(p)
  PROVE  FInv'
<1>1. TypeOK'
  BY ResetType DEF FInv, FTypeOK, Reset
<1>2. /\ last_seen' = [last_seen EXCEPT ![p] = NothingSeen]
      /\ latest' = [latest EXCEPT ![p] = NothingSeen]
      /\ UNCHANGED <<sequence, sent, network>>
  BY DEF Reset, ResetSequences
<1>3. DOMAIN NothingSeen = {} /\ NothingSeen \in [DOMAIN NothingSeen -> Indices]
  BY DEF NothingSeen
<1>4. FTypeOK'
  BY <1>1, <1>2, <1>3 DEF FInv, FTypeOK
<1>5. NumbersAreIndicesModulo'
  BY <1>2, <1>3 DEF FInv, FTypeOK, TypeOK, NumbersAreIndicesModulo
<1> QED
  BY <1>4, <1>5 DEF FInv

\* Every step keeps the invariant.
LEMMA FStepInv == FInv /\ [FNext]_fvars => FInv'
<1> SUFFICES ASSUME FInv, [FNext]_fvars PROVE FInv'
  OBVIOUS
<1>1. CASE UNCHANGED fvars
  BY <1>1 DEF fvars, FInv, FTypeOK, TypeOK, Tracker, NumbersAreIndicesModulo
<1> QED
  BY <1>1, SendInv, RestartInv, DeliverInv, LoseInv, ForeignInv, FResetInv DEF FNext

(* Every counter, datagram and tracker holds true indices modulo the size  *)
(* of the counter, whatever the network does (sequence.rs 51-65).          *)
THEOREM FlowInvariant == FSpec => [](FTypeOK /\ NumbersAreIndicesModulo)
<1>1. FInv => FTypeOK /\ NumbersAreIndicesModulo
  BY DEF FInv
<1> QED
  BY FInitInv, FStepInv, <1>1, PTL DEF FSpec

(* Whatever the network does, everything in flight and everything a        *)
(* tracker holds is a number the code can hold: the sender masks with 0x0F *)
(* (udp_sender.rs 212-214), and only accepted datagrams reach a tracker.   *)
THEOREM FlowTypeCorrect == FSpec => []FTypeOK
BY FlowInvariant, PTL

-----------------------------------------------------------------------------
(* The refinement.                                                         *)

\* A delivery is a Receive of the true index the datagram was sent with.
LEMMA DeliverReceives ==
  ASSUME FInv, NEW m \in network, Deliver(m)
  PROVE  Order!TNext
<1> DEFINE status == ObservedStatus(last_seen[m.to], m.key, m.sequence)
           verdict == [p \in Parsers |-> VerdictOf(result[p])]
<1>1. PICK packet :
        /\ m \in Message /\ m.sequence = m.index % Modulus
        /\ DOMAIN result = Parsers
        /\ result' = [result EXCEPT ![m.to] =
             [error |-> Ok, packet |-> packet, sequence_status |-> status]]
  BY DeliverParses
<1>2. m.to \in Parsers /\ m.key \in Keys /\ m.index \in Indices /\ m.sequence \in SequenceNumber
  BY <1>1 DEF Message
<1>3. verdict' = [verdict EXCEPT ![m.to] = status]
  BY <1>1, <1>2 DEF VerdictOf
<1>4. /\ DOMAIN last_seen[m.to] = DOMAIN latest[m.to]
      /\ \A key \in DOMAIN latest[m.to] :
           last_seen[m.to][key] = latest[m.to][key] % Modulus /\ latest[m.to][key] \in Indices
      /\ Tracker(last_seen[m.to])
  BY <1>2 DEF FInv, FTypeOK, TypeOK, NumbersAreIndicesModulo
<1>5. status \in Order!Promised(latest[m.to], m.key, m.index)
  <2>1. CASE m.key \notin DOMAIN latest[m.to]
    BY <1>4, <2>1 DEF ObservedStatus, Order!Promised, Order!First, First
  <2>2. CASE m.key \in DOMAIN latest[m.to] /\ m.index - latest[m.to][m.key] \in Order!Window
    <3>1. m.index \in Nat /\ latest[m.to][m.key] \in Nat
      BY <1>2, <1>4, <2>2, BoundsAssumption DEF Indices
    <3>2. status = Order!Truth(latest[m.to][m.key], m.index)
      BY <1>1, <1>2, <1>4, <2>2, <3>1, TruthWithinWindow
    <3> QED
      BY <2>2, <3>2 DEF Order!Promised
  <2>3. CASE m.key \in DOMAIN latest[m.to] /\ m.index - latest[m.to][m.key] \notin Order!Window
    <3>1. m.sequence \in Nat
      BY <1>2, ModulusAssumption DEF SequenceNumber
    <3>2. status \in SequenceStatus
      BY <1>4, <3>1, StatusType
    <3>3. SequenceStatus = Order!SequenceStatus
      BY DEF SequenceStatus, Order!SequenceStatus, SequenceNumber, Order!SequenceNumber,
             First, Order!First, InOrder, Order!InOrder, Duplicate, Order!Duplicate,
             Gap, Order!Gap
    <3> QED
      BY <2>3, <3>2, <3>3 DEF Order!Promised
  <2> QED
    BY <2>1, <2>2, <2>3
<1>6. latest' = [latest EXCEPT ![m.to] =
        [k \in DOMAIN @ \cup {m.key} |-> IF k = m.key THEN m.index ELSE @[k]]]
  BY DEF Deliver
<1> HIDE DEF status
<1>7. Order!Receive(m.to, m.key, m.index)
  BY <1>3, <1>5, <1>6 DEF Order!Receive
<1> QED
  BY <1>2, <1>7 DEF Order!TNext

\* A datagram that is refused reports no status.
LEMMA ForeignRefuses ==
  ASSUME FInv, NEW p \in Parsers, NEW d, DeliverForeign(p, d)
  PROVE  Order!TNext
<1>1. /\ DOMAIN result = Parsers
      /\ ParsePacketExact(d, OptionsOf[p]).error # Ok
      /\ result' = [result EXCEPT ![p] = [error |-> ParsePacketExact(d, OptionsOf[p]).error]]
      /\ UNCHANGED latest
  BY DEF DeliverForeign, ParseErr, FInv, FTypeOK, TypeOK
<1>2. Order!Refuse(p)
  BY <1>1 DEF Order!Refuse, Order!NoVerdict, VerdictOf
<1> QED
  BY <1>2 DEF Order!TNext

\* A reset forgets every stream of that parser.
LEMMA ResetForgets ==
  ASSUME FInv, NEW p \in Parsers, Reset(p)
  PROVE  Order!TNext
<1>1. /\ DOMAIN result = Parsers
      /\ result' = [result EXCEPT ![p] = NoResult]
      /\ latest' = [latest EXCEPT ![p] = NothingSeen]
  BY DEF Reset, ResetSequences, FInv, FTypeOK, TypeOK
<1>2. NoResult.error # Ok
  BY DEF NoResult, Ok
<1>3. Order!Forget(p)
  BY <1>1, <1>2 DEF Order!Forget, Order!NoVerdict, Order!NothingSeen, NothingSeen, VerdictOf
<1> QED
  BY <1>3 DEF Order!TNext

\* Sending, losing and a restart are invisible, the rest is as above.
LEMMA FStepRefines == FInv /\ [FNext]_fvars => [Order!TNext]_(Order!tvars)
<1> SUFFICES ASSUME FInv, [FNext]_fvars PROVE [Order!TNext]_(Order!tvars)
  OBVIOUS
<1>1. ASSUME UNCHANGED <<latest, result>> PROVE UNCHANGED Order!tvars
  BY <1>1 DEF Order!tvars
<1>2. ASSUME NEW p \in Parsers, NEW key \in Keys, Send(p, key) PROVE UNCHANGED Order!tvars
  BY <1>1, <1>2 DEF Send
<1>3. ASSUME NEW m \in network, Lose(m) PROVE UNCHANGED Order!tvars
  BY <1>1, <1>3 DEF Lose
<1>4. CASE UNCHANGED fvars
  BY <1>1, <1>4 DEF fvars
<1>5. ASSUME NEW p \in Parsers, Restart(p) PROVE UNCHANGED Order!tvars
  BY <1>1, <1>5 DEF Restart
<1> QED
  BY <1>2, <1>3, <1>4, <1>5, DeliverReceives, ForeignRefuses, ResetForgets DEF FNext

\* Nothing seen and nothing reported.
LEMMA FInitRefines == FInit => Order!TInit
<1> SUFFICES ASSUME FInit PROVE Order!TInit
  OBVIOUS
<1>1. result = [p \in Parsers |-> NoResult] /\ latest = [p \in Parsers |-> NothingSeen]
  BY DEF FInit, Init
<1>2. NoResult.error # Ok
  BY DEF NoResult, Ok
<1> QED
  BY <1>1, <1>2 DEF Order!TInit, Order!NoVerdict, Order!NothingSeen, NothingSeen, VerdictOf

(* With loss, repetition, reordering, foreign datagrams, resets and        *)
(* sources that are run again, the statuses parse_datagram returns are     *)
(* those TrueOrder promises: the truth about the two latest datagrams of a *)
(* stream whenever they are less than a turn of the counter apart          *)
(* (packet_stream.rs 56-62, sequence.rs 51-76, udp_sender.rs 49-77).       *)
THEOREM FlowImplementsTrueOrder == FSpec => ImplementsTrueOrder
BY FInitInv, FStepInv, FInitRefines, FStepRefines, PTL DEF FSpec, ImplementsTrueOrder, Order!TSpec
=============================================================================

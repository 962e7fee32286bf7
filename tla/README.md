# difi-rs in TLA+

Models, model-checked properties and proofs for `difi-rs`, a Rust library that
parses UDP payloads holding DIFI Standard packets (a VITA-49 dialect), tracks
their sequence numbers and, behind the `write` feature, encodes packets again.
Paths below are those of the repository (`src/parser.rs` is the crate's file).

## 1. The system

The crate is sequential: no threads, no sockets, no files. Everything it does is
a call from its user, and the only state that outlives a call is the sequence
tracker's map and the buffers the caller lends. Two example programs put it to work
as processes at the two ends of a UDP socket. What is hard:

* **adversarial bytes**: every length, enumeration, reserved bit and fixed word
  arrives from the network, and a call must refuse what is wrong without leaving
  the slice it was given;
* **tables that are copies of each other**: per standard version the crate has a
  table of packet types, one of classes, one of pairs and one of memberships, two
  lists of status report sizes, two padding checks (parser and writer);
* **numbers of four bits** that stand for an unbounded order, over a transport
  that loses, repeats and reorders;
* **errors between two steps**: a datagram that parses partly must not touch the
  tracker, a packet that cannot be encoded must not touch the buffer;
* **two programs that end at their first error** and may be run again while the other
  one, its tracker and the datagrams in flight live on.

| Component | State | Operations | Talks to | What makes it correct |
|---|---|---|---|---|
| Wire syntax (`raw.rs`, `header.rs`, `information.rs`, `class_id.rs`) | none | read a word, decode header and class id | everything | the exact bit fields; each rejection in its order |
| Standard profile (`standard.rs`, `validation.rs`) | the options | one check per field | parser, writer | tables agree, newer standards contain older ones, the compatibility mode is narrow |
| Parser (`parser.rs`, `payload_format.rs`, the packet structs) | none | `parse_packet_prefix`, `parse_packet_exact` | profile, wire | packets tile the buffer; no read outside a packet; no abort; padding is zero |
| Sequence tracker (`sequence.rs`) | `last_seen`, a map from stream keys to four-bit numbers | `observe`, `observe_fields`, `reset` | stream parser | the map is the latest number per stream; a status judges two neighbours of one stream |
| Stream parser (`packet_stream.rs`) | options and a tracker | `parse_datagram`, `reset_sequences` | parser, tracker, the user's socket loop | a refused datagram leaves no trace |
| Writer (`writer.rs`) | none; borrows the caller's buffer | `encoded_len`, `write_packet`, the IQ helpers | profile, wire, parser as the other end | an error leaves the buffer alone, success writes all of it and the parser reads it back |
| IQ iterators (`samples.rs`) | a position in a payload | `next` | user | decode what the IQ helpers encode |
| Errors (`error.rs`) | none | formatting | user | only which error it is matters here |
| Example sender (`examples/udp_sender.rs`) | two sequence counters, a packet counter, one buffer for both kinds of packet | data, a context first and after every five data packets; ends at the first error | writer, the network | the writer never refuses; a context in time; numbering without a gap |
| Example receiver (`examples/udp_receiver.rs`) | a stream parser, a buffer | receive, parse, report; ends at the first error | stream parser, the network | no sender ends it; what it reports is true of the source it names |

## 2. Plan

1. (done) `DifiWire`, `StandardProfile`, `DataPadding`, `PacketParser`: the
   parser as operators; `PrefixWalk`: the caller's loop over it.
2. (done) `SequenceTracker`, `PacketStream`; `StreamHistory` with the history its
   user has in mind; `TrueOrder`, the abstract specification, and `DatagramFlow`,
   which implements it with real packets over a lossy network.
3. (done) `PacketWriter` and `IqCodec`: `prepare_packet`, then the stores one by
   one into the caller's slice; the IQ helpers and iterators. `WriterCalls`: a
   caller that reuses its slice, with the parser at the other end.
4. (done) `UdpSender` and `UdpLink`: the loops of `examples/`, with the writer at one
   end and the stream parser at the other, each stopping at its first error and run
   again; liveness under fairness of the network. `UdpOrder`: the programs implement
   `DatagramFlow`.
5. (done) Proofs about the parser and the writer, for every buffer, packet value,
   slice and options: a walk's packets tile its buffer, no call aborts, the padding
   arithmetic equals its meaning, the standards nest and their tables agree, a refused
   packet leaves the slice alone and an accepted one what follows it, writing back what
   was parsed is the identity, the IQ helpers do what `write_packet` does, and the
   example sender is never refused (section 6).
6. (done) Proofs about the other direction: what the writer stores the parser reads
   back, samples survive the IQ helpers and the iterators, no sender ends a receiver,
   and the two programs implement `DatagramFlow`.

What is left is outside what the prover supports (the end of section 6).

## 3. The modules

```
DifiWire --- StandardProfile ---+
         \-- DataPadding -------+-- PacketParser --+-- PrefixWalk
                                                   +-- PacketTypes --------------+
                                                   +-- PacketWriter -- IqCodec --+-- WriterCalls
                                                   |                             |
                                    SequenceTracker ---------------------- UdpSender
                                                   |                             |
                                             PacketStream --+-- StreamHistory    |
                                                            |                    |
                           DatagramNetwork -----------------+-- DatagramFlow     |
                                                            \------------------ UdpLink
                                                                                 |
TrueOrder  <..implements..  DatagramFlow  <..implements..................  UdpOrder
```

The theorems are in eight modules: `ParserProofs` (lemmas on the parser that the others
use) and `PrefixWalkProofs`; `PacketStreamProofs` and, for `StreamHistory` and
`DatagramFlow`, `TrackerProofs`; `WriterProofs` (lemmas on the checks and the stores of
the writer), `WriteBackProofs` (the writer against the parser, in both directions) and
`WriterCallsProofs`; and `UdpLinkProofs`, which is about `UdpLink` and `UdpOrder`.
`MCPrefixWalk`, `MCPacketStream`, `MCDatagramFlow`, `MCWriter`,
`MCUdpLink`, `MCUdpOrder` and the fixtures of `MCCorpus` (14 packets, at least one of
every variant and form) give the constants their values.

**Data.** A 32-bit word is a pair of 16-bit halves, because TLC's integers are
signed and 32 bits wide; shifts and masks are divisions and remainders on the
halves. A byte slice is `[words, extra]`: its whole words and the 0 to 3 bytes after
them, which nothing reads or writes. `Option<T>` is a sequence of at most one
element. A field the crate only carries along (a frequency, a timestamp) is the
words it was read from. A `Result` is the name of its error or `Ok`, and `??` is
Rust's `?`: the first error wins, so the order of the checks is the order in the
code. `Panic` stands for every abort: a slice index out of range, `unreachable!()`.
An error the writer takes over from a profile check keeps its name.

| Module | State | Actions and operators, and the code they are |
|---|---|---|
| `DifiWire` | none | `HeaderError`/`HeaderOf` (`PacketHeader::parse`), `ClassIdError`/`ClassIdOf`, `ReadU32`/`ReadU64`, `HeaderWord`, `ClassIdWords` |
| `StandardProfile` | none | the checks of `StandardProfile` and `validation.rs`, `ValidatePrologue` in the order of `parse_single_packet` |
| `DataPadding` | none | `ValidateDataPadding` byte by byte, and `PaddingIsZero`, what it means on the payload's bits |
| `PacketParser` | none | one `...Error` and one `...Body` per packet variant; `FramingError`, `ParsePacketPrefix`, `ParsePacketExact` |
| `PacketTypes` | none | the values a `Packet` can hold, whoever made it: the structs the parser returns and a user of the writer builds, with every field public |
| `PrefixWalk` | what is left of a buffer, the packets so far, where the buffer was cut (history), the outcome | `ParseNext`, `Reject`, `Finish`: a caller that goes on with each remainder |
| `SequenceTracker` | none (the map is its user's variable) | `ObservedStatus` and `Observe`: what `observe_fields` returns and what it leaves |
| `PacketStream` | `last_seen` and the last `result` of each parser | `ParseOk`, `ParseErr` (`parse_datagram` on both sides of its `?`), `ResetSequences` |
| `StreamHistory` | adds `log`, the accepted datagrams since the last reset | the same actions, recorded |
| `TrueOrder` | `latest` true index per stream, `verdict` | the abstract promise: a status is the truth about the two latest datagrams of a stream when they are within a window of a turn |
| `DatagramNetwork` | the datagrams in flight | `Transmit`, `Drop`: a network that loses others when it is full |
| `DatagramFlow` | sources' counters, the network, the parsers | `Send` (`next_sequence` of `udp_sender.rs`), `Restart` (its counters at zero again), `Deliver`, `Lose`, `DeliverForeign`, `Reset` |
| `UdpSender` | per process: where the loop is, both sequence counters, `packet_count`, the buffer | `SendContext`, `SendData` (each with the packet it builds and the writer's call), `StopSender`, `StartSender` |
| `UdpLink` | adds the network, the parsers and, per receiver, whether it runs and where its last datagram came from | the sender's actions with `send`; `Receive` (`recv_from`, `parse_datagram` and its `?`); `StopReceiver`, `StartReceiver` |
| `UdpOrder` | adds the true index of every datagram and the latest accepted ones | the same actions, recorded; the mapping to `DatagramFlow` |
| `PacketWriter` | none | `PrepareError` (`prepare_packet`), `CapacityError`, `PrologueStores`/`BodyStores` (the `write_*` functions), `WritePacket` |
| `IqCodec` | none | `WriteIqData` (`write_iq_data_i8`, `_i16`), `IqSamples` (the iterators), `IqPacket` (the packet a caller would build by hand instead) |
| `WriterCalls` | the caller's slice, the last request and what it returned | `WriteBuilt`, `WriteParsed`, `WriteIq` |

The parser's body operators and error operators are separate: an error is decided
first, in the code's order, and a body is only asked for when there is none. The
writer's stores are a list: the call makes them in order until one cannot be made
(an optional field that is missing, a slice too short), and those before it stay in
the slice. So a check that `prepare_packet` lacked would show as a half-written
slice, as it would in the code.

Duplication keeps a datagram in `network` after `Deliver`; reordering is the choice
of any message in flight. In `DatagramFlow` a datagram that fails to parse is
`DeliverForeign`; in `UdpLink` a foreign datagram may parse or not, and the receiver
stops or goes on accordingly. One turn of the sender's loop is two actions at most,
one per `send`, because the network and the receiver can act between the two; nothing
can act on the sender's own variables between. A `?` that returns from `main` at the
clock or the socket may happen at any time (`StopSender`, `StopReceiver`); one that
returns because the writer refused leaves no other step than `StopSender`.

In the mapping of `UdpOrder` a receiver and its sender are a parser and its source;
the stream, number and bytes of a datagram in flight are read out of the bytes the
writer left in the sender's buffer. A sender that is run again counts from zero while
its receiver's tracker lives on: in terms of order it skips the rest of a turn of its
counter (`NextTurn`).

## 4. What the runs show

| Run | Configuration | States | Properties |
|---|---|---|---|
| `walk` | `MCWalk` | 154 750 | `TypeOK`, `FramesTile`, `NoPanic`, `ShortReadsAreCommandWords`, `PadBitsAreZero`, `ZeroPadBitsAccepted` |
| `profiles` | `MCProfiles` | 101 017 | `StandardsNest`, `CompatibilityIsNarrow`, `OneClockPerInformationClass`, `ProfileTablesAgree` |
| `walk_ends` | `MCWalkEnds` | 784 | `Terminates` |
| `packet_stream` | `MCPacketStream` | 45 325 | `TypeOK`, `LastSeenIsLatest`, `StatusComparesNeighbours` |
| `flow_sixteen` | `MCFlowSixteen` | 69 486 | `FTypeOK`, `NumbersAreIndicesModulo`, `ImplementsTrueOrder` |
| `write` | `MCWrite` | 31 088 | `WTypeOK`, `RewriteIsIdentity`, `ReadsBack` |
| `reuse` | `MCReuse` | 23 946 | `WTypeOK`, `OnlyThePacketIsWritten` |
| `iq` | `MCIq` | 33 230 | `SamplesSurvive`, `HelperAgreesWithPacketWriter` |
| `udp_link` | `MCUdpLink` | 21 328 | `LinkTypeOK`, `SendersNeverRefused`, `ContextWithinInterval`, `OnlyForeignersStopReceivers`, `ReceiversLearnContext` |
| `udp_order` | `MCUdpOrder` | 62 448 | `ImplementsDatagramFlow` |
| `mismatch` | `MCMismatch` | violated | `OutputIsParseable` |
| `two_sources` | `MCTwoSources` | violated | `DuplicatesAreOfTheSource` |

**Parsing.** `FramesTile` says that the cuts go up by the size each packet claims, that
the bytes left are those after the last cut, and that the exact parser, given nothing
but the words between two cuts, returns the packet the walk kept. `walk` starts from every single-bit error of every fixture, every
declared size (0 to past the buffer) of every fixture, and every fixture followed by
every cut of another with 0 or 3 stray bytes, under four of the six options. The
parser has no state, so one call shows all its behaviours on one input, and what
bounds the run is the corpus: the single-bit errors reach every field the parser
reads, the sizes every comparison of a length, the cuts every remainder. Two packets
in a row are enough because a call sees nothing but its remainder. For the padding
it also takes every pad bit count from 0 to 31 over payloads of no, one and two words
with at most one bit set: more bits only add more reasons to refuse, and no count
reaches past the last word. `walk_ends` takes walks of three packets. `profiles` takes every prologue the enumerations can form (packet
type, type specific bits, clock, information class, packet class, padding) with the
body its class demands, under all six options.

**Sequence tracking.** `packet_stream` has a parser with ten datagrams: two data
streams and a version context that shares a stream id under both of its packet
types, numbers around the wrap, and datagrams refused at framing, by the class
identifier, by the profile and for what follows the packet; up to three accepted ones
between resets (`MaxLog`, per parser), any number of refused ones; and a second parser
that takes the same datagrams, one at a time, so that anything one parser did to the
other would show. `flow_sixteen` sends eighteen datagrams (`MaxIndex = 17`) of one
stream with the code's modulus, so that the counter wraps and datagrams more than a
turn apart exist; two in flight (`Capacity`) are what reordering and repetition need,
since the network may hold one back while the others pass. The theorems of section 6
hold for every modulus and any number of streams.

**Writing.** `write` parses and writes back every single-bit error of every
fixture, the slice full of stale bytes: the writer's copies of the parser's checks
accept at least what the parser accepts, and no word is left stale. It also takes
packets a user builds: each fixture with each field changed to the values on both
sides of its check, two fields at a time where form and optional fields depend on
each other, each header and class identifier field wrong, any body under any
prologue, and payloads at the limit of the size field; each with the header left as it
was and derived again. `reuse` makes two
calls on one slice of each length from 0 to 28 words (the longest fixture has 27),
with and without stray bytes. `iq` takes all pairs of samples at the ends of their
range and, with a few samples, every class, clock and an out-of-range number; and
requests of 65 528 and 65 529 samples, on both sides of the largest packet, with a
number on both sides of its limit. Where both are out of range the helper reports the
number and `write_packet` the size, since each reports what it checks first; elsewhere
the two agree on the error, the length and every byte.
`MaxCalls` bounds the calls on one slice: a call depends on the slice's length and on
nothing it holds, so one call, or two where a second must not be disturbed by the
first, are all there is to see.

**The example programs.** `udp_link` and `udp_order` run the real writer and parser on
datagrams of 28 words instead of 2250, the smallest in which a context (27 words) does
not fill the buffer, so that a tail of the packet before could be sent with it; 21
samples go into a data packet instead of 2243. A context is due after every second data
packet instead of every fifth, and `packet_count` has three values instead of 2^64,
which keeps what matters of both: the interval is more than one, and the wrap is no
multiple of it. Counters of two numbers wrap within the runs. The clock shows one time,
because no step depends on it. `udp_link` has one sender and one receiver, one datagram
in flight at a time (a lost one makes room for the next) and two kinds of foreign
datagram, one with a tail that ends the receiver and one whose tail is lost in
`recv_from` because it fills the receive buffer, so that it is accepted. `udp_order`
has room for two datagrams, which may overtake each other, four true indices per stream
(`MaxIndex = 3`: two turns of the counter) and restarts of both programs. The
code's own counter of sixteen is taken past its wrap by `flow_sixteen`, and the writer
looks at a number in no other way than to compare it with fifteen.

Every property of a passing run has a mutant, an operator next to the one it
replaces that makes the mistake a careless edit would make (a mask forgotten, a size
one too small, a check dropped), and TLC finds the property violated with it.

**Deadlock.** A walk stops at its end and a caller after `MaxCalls`, so the
configurations of `PrefixWalk` and `WriterCalls` do not check deadlock; the others do.

**Fairness.** `Terminates` needs `WF_vars(Next)` of `PrefixWalk`: the caller's loop
goes on calling, which a sequential loop does. `ReceiversLearnContext` needs two
things. A sender that is not stopped takes its next turn, `WF` of the turns of its
loop, which waits for nothing but an interval. It is stated of the turns and not of the
whole step, so that a sender whose packet the writer refused could only stop, as the
`?` makes it do, and not stand still. And the network, which may lose any
datagram it likes, does not lose every context of a sender that never ceases to send
them: strong fairness of their delivery, with its enabling condition written out
(`Deliverable`: the receiver runs and a context is in flight), since TLC would
otherwise run the parser to find out whether a step is possible. Neither
program has to stay up: the property speaks of those that eventually do. Nothing is
assumed about data packets, foreign datagrams or restarts.

## 5. Disagreements with the documents

**The variant and the class.** `prepare_packet` chooses the checks of a body by the variant of the `Packet` value
(`src/writer.rs`, line 229), the parser by the packet class in the prologue
(`src/parser.rs`, line 88), and nothing compares the two. The run `mismatch` puts a
signal data body under the prologue of a context packet: every check passes, the
packet is written and `Ok` is returned, and the parser refuses it (a context packet
of the wrong size). `docs/adr/0001-strict-canonical-packet-writer.md` says the writer
"produces packets that the parser can read back" and `README.md` that "Output is
canonical and parseable", and both mean hand-built values too. `ReadsBack` is
therefore stated of values whose variant agrees with their class (`VariantAgrees`),
and holds of all of those in the run.

**One parser for every source.** The receiver creates one `PacketStreamParser`
(`examples/udp_receiver.rs`, line 7), takes datagrams from any source (lines 6 and 11)
and prints "duplicate DIFI sequence from {source}" (line 17). Every sender has the same
`STREAM_ID` (`examples/udp_sender.rs`, line 38) and starts from zero. The run
`two_sources` starts two of them: their contexts arrive one after the other and the
second is reported as a duplicate from a source that has sent one packet.
`README.md`, line 61, asks for "one parser per source or source group when stream IDs
can overlap". `ImplementsDatagramFlow` is therefore stated of a receiver with one
sender.

## 6. What is proved

| Theorem | States |
|---|---|
| `WalkTypeCorrect` | `Spec => []TypeOK` of `PrefixWalk` |
| `WalkFramesTile` | `Spec => []FramesTile` |
| `WalkNeverPanics` | `Spec => []NoPanic` |
| `OnlyCommandWordsRunShort` | `Spec => []ShortReadsAreCommandWords` |
| `AcceptedPadBitsAreZero`, `OnlySetPadBitsAreRejected` | `Spec => []PadBitsAreZero`, `Spec => []ZeroPadBitsAccepted` |
| `TablesAgree`, `OneClockEach` | `Spec => []ProfileTablesAgree`, `Spec => []OneClockPerInformationClass` |
| `NewerReadsOlder`, `ModeIsNarrow` | `Spec => []StandardsNest`, `Spec => []CompatibilityIsNarrow` |
| `WriterTypeCorrect` | `WSpec => []WTypeOK` of `WriterCalls` |
| `CallsKeepTheRest` | `WSpec => OnlyThePacketIsWritten`, an action property |
| `RewritingIsIdentity` | `WSpec => []RewriteIsIdentity` |
| `HelperWritesTheSame` | `WSpec => []HelperAgreesWithPacketWriter` |
| `WrittenPacketsReadBack` | `WSpec => []ReadsBack` |
| `SamplesReadAsSent` | `WSpec => []SamplesSurvive` |
| `StreamTypeCorrect` | `Spec => []TypeOK` of `PacketStream` |
| `TrackerSummarisesHistory` | `HSpec => []LastSeenIsLatest` |
| `StatusesAreDeserved` | `HSpec => []StatusComparesNeighbours` |
| `FlowInvariant`, `FlowTypeCorrect` | `FSpec => []NumbersAreIndicesModulo`, `FSpec => []FTypeOK` |
| `FlowImplementsTrueOrder` | `FSpec => ImplementsTrueOrder` |
| `ContextNeverLate` | `LSpec => []ContextWithinInterval` of `UdpLink` |
| `SendersAreNeverRefused` | `LSpec => []SendersNeverRefused` |
| `LinkTypeCorrect` | `LSpec => []LinkTypeOK` |
| `SendersNeverStopReceivers` | `LSpec => []OnlyForeignersStopReceivers` |
| `ProgramsAreADatagramFlow` | `OSpec => ImplementsDatagramFlow` of `UdpOrder`, if `OneSenderEach` and `ForeignersAreRefused` |
| `WiresAreNumbered` | what `DatagramFlow` assumes of keys, wires and datagrams, of what `UdpOrder` puts for them |

They hold for every value of the constants that the named assumptions allow:
`InputsAssumption` and `OptionsAssumption` (a walk's buffers are byte slices of any
length, its options are options); `BuffersAssumption`, `WriterDatagramsAssumption`,
`BuiltAssumption`, `IqRequestsAssumption` and `WriterOptionsAssumption` (slices and
datagrams of any length, and values of the Rust types: any `Packet`, any spec and
samples, any options) and `MaxCallsAssumption`; `ModulusAssumption` (a positive counter
size), `OptionsOfAssumption` and `DatagramsAssumption` (parsers have options, datagrams
are byte slices), `MaxLogAssumption` and `BoundsAssumption` (bounds are naturals),
`KeysAssumption` and, for the flow, `WireAssumption`: every datagram a source may send
for a stream and a number parses under the options of its parser to that stream and that
number; `IntervalAssumption` and `CountsAssumption` (the interval and the size of the
packet counter are positive); and for the example programs `UdpSizeAssumption` (the
buffer has room for a context and is no larger than a packet), `FourBitsAssumption` (the
counters are masked with `0x0F`), `TimesAssumption` (the clock shows 32-bit seconds and
64-bit fractions), `ReceiveAssumption`, `CapacityAssumption` and `DestinationAssumption`
(what is sent fits a receive buffer, the network's bound is a natural, and every sender
has a receiver) and `ReceiverOptionsAssumption` (the receiver's parser is
`PacketStreamParser::new()`, with the default options: `examples/udp_receiver.rs`, line 7).

`ProgramsAreADatagramFlow` has two hypotheses besides, which are conditions of use and
not facts of the code. `OneSenderEach`: every receiver has a sender, and no two senders
share one; the run `two_sources` shows what happens otherwise (section 5).
`ForeignersAreRefused`: what others send does not parse. A foreign packet that parses
would be tracked as a stream of the flow that no source sends. In the run `udp_order`
both hold: `MCUdpOrder` states them as assumptions, which TLC evaluates.

TLC evaluates all of them in the runs, `WireAssumption` on
real packets. Any buffer, any packet value, any number of calls, parsers, streams and
datagrams, any history and any network are covered.

*The walk.* The invariant is `WalkInv`: the types, the tiling of `FramesTile` (each
packet is what the exact parser makes of the words between two cuts), and that an outcome
which is an error is the one the parser returns on what remains. Those two parts are why
the rest follows: everything a property says of an outcome becomes a statement about one call, and
everything it says of a packet a statement about words the exact parser accepted
(`WalkVerdicts`). Framing gives a call a packet that is all there, and from then on each
body operator checks the size before it reads, the command words of the two sink
capabilities packets excepted; so a `Panic` would have to come from a size set the code
has checked just before. The padding is arithmetic: the bytes and the mask the code
derives from a count select the bits that `PaddingIsZero` names, word by word
(`ParserProofs`). The profile theorems are case analyses over the enumerations: what one
standard's tables allow the tables of the newer ones allow too, each check of
`ValidatePrologue` is the same or weaker, and the body does not look at the standard.
`StandardsNest` is proved in the order `NewerStandards` spells out: 1.1 inside 1.2.1 only
with the legacy version packet type, since strict 1.2.1 demands another type.

*The writer stays in the packet.* `WTypeOK` is inductive once two things are known of a
call: `prepare_packet` accepts only packets all of whose stores lie inside the words it
has planned (the sizes it checks are those the body writers fill, the fields a form needs
are present), and the slice has room for those words. Then no store is missing a field
or out of range, so `StoresError` is `Ok` (`AllStored`) and the call cannot end between
two stores. `KeepsTheRest` says this of one call, for `write_packet_with_options` and for
the IQ helpers; `OnlyThePacketIsWritten` and `WTypeOK` follow. One step of the argument
is that `StoresError` picks the first failing store, so the empty set of them is what has
to be shown, whatever the order; and that the store on top of a word is one that covers
it, which needs that a set of indices has a largest one (`LargestIndex`).

*Writing back.* `Accepted` collects what an exact parse has checked. First the checks:
for each variant the parser's error chain being `Ok` makes the writer's copy of it `Ok`
(the `...WritesBack` lemmas), where the writer checks fields that the parser has taken
apart and so needs that taking apart and packing agree: the header and the class
identifier, the payload format, the buffer status, the version word. The length planned
from the body is the length of the frame (`AcceptedPlan`), and the header planned is the
one parsed (`PlannedIsParsed`); so `PrepareError` is `Ok` (`AcceptedPrepares`). Then the
stores: each is a copy of the words it was read from, at the place it was read from
(`CopyStore`), and together they cover the frame without a gap (`Rebuilds`: the prologue
words 1 to 7, `PrologueRebuilds`; the body the rest, one `...Rebuilds` lemma per variant
and form). Stores of that kind make the frame again whatever the slice held
(`RebuiltSlice`). And an exact parse takes all words of its datagram (`ExactTakesAll`),
so the frame is the datagram.

*The IQ helpers.* The header, the length and the stores `write_packet` plans for the
packet built by hand are those of the helper (`IqPlan`), and both make the same three
checks of it, the range of the number, the size and the profile, the first two in
another order (`IqErrors`: what is left of either chain of checks once those that cannot
fail are gone). `HelperAgreesWithPacketWriter` writes the second packet over the first,
so the bytes are the same if making the same stores again changes nothing: which store
is on top of a word depends on the number of words alone (`StoredAgain`).

*The stream parser.* `TypeOK` of `PacketStream` is inductive. The work is in the parser:
a datagram that `ParsePacketExact` accepts has a header whose packet type, class and
sequence number passed their checks (`AcceptedKey` and the lemmas before it follow the
`??` chains), so its stream key is well formed, and a remainder modulo `Modulus` is a
sequence number.

*The tracker and its history.* `LastSeenIsLatest` is not inductive alone: the log
must be well typed and the tracker too. The invariant is `HInv`, the conjunction of
`TypeOK`, `LogOK` and `LastSeenIsLatest`. That appending an entry to a log and
observing it in the tracker keeps the two together, and that the status returned on
the way is the deserved one, are two lemmas on sequences and maps that mention no
state; each action is one of them, a step that changes neither, or a reset.

*The flow implements TrueOrder.* The invariant is `FInv`: types, and that counters,
datagrams in flight and trackers hold true indices modulo the counter's size. The
heart is arithmetic: two indices whose difference lies within the window have equal
remainders only if they are equal, and successive remainders only if they are
successive, so `observe_fields` on remainders and `Truth` on indices agree. Outside
the window `TrueOrder` permits any status, and that the one returned is a status at
all is `StreamTypeCorrect`'s argument again. A source that is run again keeps the
invariant because `NextTurn` is a multiple of the modulus (`TurnBegins`). Each action
then maps to `Receive`, `Refuse`, `Forget` or a stutter.

*The context is never late.* That at most an interval of data packets has gone by is
not inductive: the code compares a counter that is never reset. `CadenceInv` says where
in the interval a sender is: between contexts the packets since the last one are
`packet_count` modulo the interval, and a context is due only at a multiple. A
remainder goes up by one or starts at zero again; where the counter wraps it becomes
zero, a multiple of everything, so that a context is due at once and can only be early,
although 2^64 is no multiple of 5.

*The senders are never refused.* That a write succeeds depends on the counters, the
clock and the buffer, so the invariant is `SenderInv`: they have their types, and the
buffer holds words and is as long as it was, because a write leaves the length alone
(`KeepsTheRest` again). For a context every check of `prepare_packet` is evaluated on the
constants of the program (`ContextPlan`, `ContextPrepares`): the header planned is the
one given, its size is 27 words, its number is below sixteen. For a data packet the ramp
stays inside 16 bits (`RampRange`), its samples fill the datagram to the word, and the
helper's three checks pass (`DataPasses`). That `Ok` from the checks and room in the
slice give `Ok` from the call is `PreparedIsWritten` and `RequestIsWritten`, the lemmas
behind `WTypeOK`. `LinkTypeOK` adds what is in flight: a datagram comes from a sender to
its receiver and is no longer than the buffer it was written into (`SentType`), and a
network that makes room before it takes another stays within its bound.

*Reading back.* `ReadsBack` goes the other way: from any packet value, with fields nobody
has parsed, to bytes. Following the stores byte by byte would need the parser's checks
on each of the seven bodies over a slice built by a list of stores. The proof takes a detour that
makes use of the first direction. `Encodable`: for a value that passes `prepare_packet`
and whose variant agrees with its class there is a frame, written out word by word
(`HeadOf`, and one `...Tail` or `...Rest` per variant), which the parser accepts and
decodes to that very value. This is where every field is packed and taken apart again:
header, class identifier, payload format, buffer status, capability tables and the
optional words, and where a check of `prepare_packet` has to be as strict as the
parser's. By the first direction, writing what was parsed from that frame stores that
frame; and since it decodes to the value, that is what writing the value stores
(`WrittenIsFrame`), in whatever slice. So it reads back (`WrittenReadsBack`). The
frame does not depend on the slice: a slice that is used again shows nothing of the
packet before. That the variant agrees with the class is needed (section 5).

*The samples.* What a helper stores is what `write_packet` stores of the packet built by
hand (`IqIsByHand`), whose payload the parser therefore returns (`IqReadsBack`). The rest
is one sample: two's complement of 8 and 16 bits and back, two samples to a word for 8
bits, and no pad bits, so that the iterator yields as many as were given.

*No sender ends a receiver.* A datagram in flight is `Readable`: byte-aligned and accepted by a
parser with the default options. What a sender sends is one frame whatever its buffer
held (`ContextIsFrame`, `DataIsFrame`), and that frame is accepted; it is no longer
than the sender's buffer, so the receive buffer cuts nothing (`ReceivedWhole`). With the
types of the link that is inductive (`LinkIsClean`), and a receiver that has stopped on
an error was given a datagram from elsewhere.

*The programs are a DatagramFlow.* The invariant is `OrderInv`: the types of the senders
and of the history, and that every datagram in flight is `Carried`, whole and from a
sender to its receiver. A context that a sender sends is one of the datagrams the flow
may send with that number (`ContextIsNumbered`), for which it matters again that what a
buffer held does not show; a data packet likewise. Because a datagram of the flow names
its receiver and the programs' names its sender, the mapping of the network keeps
distinct datagrams distinct (`MessagesStayApart`), which the bound on the network needs. A
receiver's turn is `Deliver`: what the parser returns carries the stream and number the
datagram was mapped to (`FlowParses`, `FlowReceives`). A run that begins again is
`Restart` or `Reset`, a program that stops is a stutter. `FlowImplementsTrueOrder` then
speaks of what the receiver prints, because its assumptions on the datagrams hold of the
programs' (`WiresAreNumbered`).

**Only model-checked**: liveness, `Terminates` and `ReceiversLearnContext`, which is
outside what the prover supports. Every invariant, action property and refinement of a
passing run is proved. `ENABLED` and induction over data are out of reach too, so what a
recursive definition computes for every input cannot be proved; no theorem here needed
it.

## 7. What is not modelled

* **Wording and details of errors** (`error.rs`, the fields of `WriteError`): an
  error is its name, because callers branch on the variant.
* **Public API plumbing** (`lib.rs`): re-exports, feature gates; the functions
  without options are those with the default options.
* **serde derives**: generated code.
* **Typed views of raw words** (scaling factors of fixed-point fields, reference
  levels as numbers): the crate keeps the words, and so do the models.
* **Around the loops of `examples/`**: arguments, what is printed, the length of the
  interval slept, and that seconds since 1970 stop fitting 32 bits in 2106 (a clock
  that fails is `StopSender`). `recv_from` cuts a datagram at the buffer, as on Unix;
  on Windows it fails, which is `StopReceiver`.
* **Benches, allocation counts, capture files**: not behaviour of a call.
* **The growth of the tracker's map**: the code has no bound; the model's map grows
  as the code's does, and there is no bound to state.

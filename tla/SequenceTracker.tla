-------------------------- MODULE SequenceTracker --------------------------
(***************************************************************************)
(* SequenceTracker (sequence.rs): a map from stream keys to the last       *)
(* sequence number seen, and the status of the next one.  The map is a     *)
(* function whose domain grows with the keys observed.                     *)
(***************************************************************************)
EXTENDS Integers

CONSTANT Modulus    \* 16 in the code: sequence numbers have four bits

ASSUME ModulusAssumption == Modulus \in Nat \ {0}

SequenceNumber == 0..(Modulus - 1)

\* A SequenceTracker that has observed nothing, as new and reset leave it.
NothingSeen == [key \in {} |-> 0]

First                 == [status |-> "First"]
InOrder               == [status |-> "InOrder"]
Duplicate             == [status |-> "Duplicate"]
Gap(expected, actual) == [status |-> "Gap", expected |-> expected, actual |-> actual]

SequenceStatus ==
  {First, InOrder, Duplicate} \cup {Gap(e, a) : e \in SequenceNumber, a \in SequenceNumber}

\* The number a sender gives its next packet (udp_sender.rs); the mutant forgets the mask.
UnmaskedNext(sequence) == sequence + 1
NextSequence(sequence) == (sequence + 1) % Modulus

\* Mutant: the key is the stream id alone.
StreamIdOnly(prologue) ==
  [packet_type |-> 0, packet_class |-> 0, stream_id |-> prologue.stream_id]

SequenceKeyOf(prologue) ==
  [packet_type  |-> prologue.header.packet_type,
   packet_class |-> prologue.class_id.packet_class,
   stream_id    |-> prologue.stream_id]

\* Mutants: the successor is not masked; an older number passes for a duplicate.
UnmaskedSuccessor(last_seen, key, sequence) ==
  LET actual   == sequence % Modulus
      expected == last_seen[key] + 1
  IN IF key \notin DOMAIN last_seen
     THEN First
     ELSE IF last_seen[key] = actual
          THEN Duplicate
          ELSE IF expected = actual THEN InOrder ELSE Gap(expected, actual)
OlderIsDuplicate(last_seen, key, sequence) ==
  LET actual   == sequence % Modulus
      expected == (last_seen[key] + 1) % Modulus
  IN IF key \notin DOMAIN last_seen
     THEN First
     ELSE IF expected = actual
          THEN InOrder
          ELSE IF last_seen[key] >= actual THEN Duplicate ELSE Gap(expected, actual)

\* observe_fields, what it returns: the masked number against the one it replaces.
ObservedStatus(last_seen, key, sequence) ==
  LET actual   == sequence % Modulus
      expected == (last_seen[key] + 1) % Modulus
  IN IF key \notin DOMAIN last_seen
     THEN First
     ELSE IF last_seen[key] = actual
          THEN Duplicate
          ELSE IF expected = actual THEN InOrder ELSE Gap(expected, actual)

\* Mutant: a key that is there is not overwritten.
KeepFirst(last_seen, key, sequence) ==
  [k \in DOMAIN last_seen \cup {key} |->
     IF k \in DOMAIN last_seen THEN last_seen[k] ELSE sequence % Modulus]

\* observe_fields, what it leaves: insert overwrites, whatever the status is.
Observe(last_seen, key, sequence) ==
  [k \in DOMAIN last_seen \cup {key} |->
     IF k = key THEN sequence % Modulus ELSE last_seen[k]]
=============================================================================

----------------------------- MODULE TrueOrder -----------------------------
(***************************************************************************)
(* What sequence tracking promises its user, in terms the wire does not    *)
(* carry: every datagram of a stream has a true index, 0, 1, 2, ...        *)
(* A status tells the truth about the true indices of the two latest       *)
(* datagrams of a stream as long as they are less than a turn of the       *)
(* counter apart; further apart, four bits cannot tell and any status may  *)
(* be reported, but the next comparison starts afresh.                     *)
(***************************************************************************)
EXTENDS SequenceTracker

CONSTANTS Receivers, Keys, Indices

VARIABLES
  latest,   \* per receiver and stream, the true index of the latest datagram
  verdict   \* what each receiver last reported

tvars == <<latest, verdict>>

NoVerdict == [status |-> "None"]

\* How far a datagram may be from the previous one of its stream: M-2 back, M-1 ahead.
Window == (2 - Modulus)..(Modulus - 1)

Truth(previous, index) ==
  IF index = previous
  THEN Duplicate
  ELSE IF index = previous + 1
       THEN InOrder
       ELSE Gap((previous + 1) % Modulus, index % Modulus)

Promised(seen, key, index) ==
  IF key \notin DOMAIN seen
  THEN {First}
  ELSE IF index - seen[key] \in Window
       THEN {Truth(seen[key], index)}
       ELSE SequenceStatus

TInit ==
  /\ latest = [r \in Receivers |-> NothingSeen]
  /\ verdict = [r \in Receivers |-> NoVerdict]

Receive(r, key, index) ==
  /\ \E status \in Promised(latest[r], key, index) :
       verdict' = [verdict EXCEPT ![r] = status]
  /\ latest' = [latest EXCEPT ![r] =
       [k \in DOMAIN @ \cup {key} |-> IF k = key THEN index ELSE @[k]]]

\* A datagram that is not a DIFI packet, or a reset of what was seen.
Refuse(r) == verdict' = [verdict EXCEPT ![r] = NoVerdict] /\ UNCHANGED latest
Forget(r) ==
  /\ latest' = [latest EXCEPT ![r] = NothingSeen]
  /\ verdict' = [verdict EXCEPT ![r] = NoVerdict]

TNext ==
  \E r \in Receivers :
    \/ \E key \in Keys, index \in Indices : Receive(r, key, index)
    \/ Refuse(r)
    \/ Forget(r)

TSpec == TInit /\ [][TNext]_tvars
=============================================================================

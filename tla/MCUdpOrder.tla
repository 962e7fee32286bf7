----------------------------- MODULE MCUdpOrder -----------------------------
(***************************************************************************)
(* One sender and its receiver, and two senders that share a receiver.     *)
(***************************************************************************)
EXTENDS UdpOrder, MCUdpLink

CONSTANT s2

Malformed == {Trailing}

\* The hypotheses of the refinement: the first whenever no receiver is shared.
ASSUME RefusedAssumption == ForeignersAreRefused
ASSUME UnsharedAssumption == Cardinality(Senders) = Cardinality(Parsers) => OneSenderEach
=============================================================================

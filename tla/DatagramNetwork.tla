-------------------------- MODULE DatagramNetwork --------------------------
(***************************************************************************)
(* What UDP does to the datagrams of the examples (std::net::UdpSocket):   *)
(* it carries them in any order, loses some and repeats some.  A datagram  *)
(* that is delivered stays in flight, so that it can be delivered again.   *)
(***************************************************************************)
EXTENDS Integers, FiniteSets

CONSTANT Capacity   \* bound: datagrams in the network at a time

ASSUME CapacityAssumption == Capacity \in Nat

VARIABLE network    \* datagrams in flight

\* A full network loses others to make room; a sender never waits for it.
Transmit(m) ==
  \E kept \in SUBSET network :
    Cardinality(kept) < Capacity /\ network' = kept \cup {m}

Drop(m) == network' = network \ {m}
=============================================================================

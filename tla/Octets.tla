------------------------------- MODULE Octets -------------------------------
(***************************************************************************)
(* The bytes that the two codecs work on.                                  *)
(***************************************************************************)
EXTENDS Integers, Sequences

CONSTANT Radix  \* how many values a byte has: 256 in the code

ASSUME RadixAssumption == Radix \in Nat /\ Radix >= 2

Octet == 0 .. Radix - 1
=============================================================================

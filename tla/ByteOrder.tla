------------------------------- MODULE ByteOrder -------------------------------
(***************************************************************************)
(* Integers as the bytes of the host's memory, the least significant byte  *)
(* first, and their conversion to the most significant byte first          *)
(* (as_msb).  A byte has Radix values, 256 in the program, and an integer  *)
(* one of several widths.  A signed integer is the unsigned one of the     *)
(* same bytes, so that negative ones come after the others.                *)
(***************************************************************************)
EXTENDS Numerals, SequencesExt

CONSTANTS
  Radix,     \* the number of values of a byte
  Widths     \* the widths of the integers, in bytes

ASSUME ByteOrderAssumption == Radix \in Nat \ {0, 1} /\ Widths \subseteq Nat \ {0}

IntegersOf(w) == 0 .. Largest(Radix)[w]

\* The bytes of an integer, in the order of their addresses.
Memory(x, w) == Reverse(Digits(Radix, x, w))

\* htobe, on a little-endian host: the integer with these bytes in the other order.
SwapBytes(x, w) == NumberOf(Radix, Memory(x, w))

as_msb(x, w) == SwapBytes(x, w)

msb_to_host_order(x, w) == SwapBytes(x, w)

\* "Used for lexicographically correct order of time keys": the bytes of converted
\* integers are ordered as the integers, as unsigned ones, and the conversion back
\* gives the integer.
MsbBytesOrdered ==
  \A w \in Widths : \A x, y \in IntegersOf(w) :
    /\ msb_to_host_order(as_msb(x, w), w) = x
    /\ Before(Memory(as_msb(x, w), w), Memory(as_msb(y, w), w)) <=> x < y
=============================================================================

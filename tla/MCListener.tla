----------------------------- MODULE MCListener -----------------------------
(***************************************************************************)
(* Listener with one listener from the beginning, one from within the      *)
(* stream, and bounded ones whose end lies before, at, between and past    *)
(* the entries.                                                            *)
(***************************************************************************)
EXTENDS Listener

MCInitHeads == {ZeroKey}

K(p, s) == [primary |-> p, secondary |-> s]

Unbounded(b) == [begin |-> b, hasEnd |-> FALSE, end |-> ZeroKey]

Bounded(b, e) == [begin |-> b, hasEnd |-> TRUE, end |-> e]

MCRanges ==
  {Unbounded(ZeroKey), Unbounded(K(1, 0)),
   Bounded(ZeroKey, K(0, 2)), Bounded(ZeroKey, K(1, 0))}

ASSUME NoWrapAssumption == NoWrap
=============================================================================

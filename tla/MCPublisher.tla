----------------------------- MODULE MCPublisher -----------------------------
(***************************************************************************)
(* Publisher on three primary keys, created at the zero key or past it,    *)
(* with fewer moves than the secondary key has values.                     *)
(***************************************************************************)
EXTENDS Publisher

MCInitHeads == {ZeroKey, [primary |-> 1, secondary |-> 0]}

ASSUME NoWrapAssumption == NoWrap
=============================================================================

--------------------------- MODULE MCPublisherWrap ---------------------------
(***************************************************************************)
(* Publisher with so small a secondary key that it wraps: 2 for 2^32, and  *)
(* more moves than that.                                                   *)
(***************************************************************************)
EXTENDS Publisher

MCInitHeads == {ZeroKey}
=============================================================================

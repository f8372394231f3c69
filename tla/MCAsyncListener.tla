--------------------------- MODULE MCAsyncListener ---------------------------
(***************************************************************************)
(* AsyncListener with one listener on a stream that starts empty and is    *)
(* pushed to up to twice.                                                  *)
(***************************************************************************)
EXTENDS AsyncListener

MCInitHeads == {ZeroKey}

MCRanges == {AllEntries}

ASSUME NoWrapAssumption == NoWrap
=============================================================================

----------------------------- MODULE MCKeySchema -----------------------------
(***************************************************************************)
(* KeySchema in base 2 with numbers of several digits, and streams whose   *)
(* names, A, A0 and AA, continue one another with characters below and     *)
(* above the delimiter.                                                    *)
(***************************************************************************)
EXTENDS KeySchema

MCNames == {<<65>>, <<65, 48>>, <<65, 65>>}
=============================================================================

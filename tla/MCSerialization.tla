--------------------------- MODULE MCSerialization ---------------------------
(***************************************************************************)
(* Serialization of a class with two derived classes, B derived from A,    *)
(* by versions that list both, in either order, one, or none, and do not   *)
(* register all they list.  TLC evaluates the assumption on the integers   *)
(* of one, two and four bytes.                                             *)
(***************************************************************************)
EXTENDS Serialization, ByteOrder

MCClasses == {"Base", "A", "B"}

MCIsA ==
  {<<c, c>> : c \in MCClasses} \union {<<"A", "Base">>, <<"B", "A">>, <<"B", "Base">>}

MCPrograms ==
  {[types |-> <<"B", "A">>, registered |-> {"A", "B"}],
   [types |-> <<"A", "B">>, registered |-> {"A", "B"}],
   [types |-> <<"B", "A">>, registered |-> {"A"}],
   [types |-> <<"A">>, registered |-> {"A"}],
   [types |-> <<>>, registered |-> {}]}

\* The conversion of integers has no state: TLC compares it with the order it is
\* for, on all integers of the widths given, before it begins.
ASSUME ConversionAssumption == MsbBytesOrdered
=============================================================================

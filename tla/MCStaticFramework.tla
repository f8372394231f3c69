-------------------------- MODULE MCStaticFramework --------------------------
(***************************************************************************)
(* StaticFramework with two frameworks of two streams each, the second one *)
(* without a publisher, and two connections.                               *)
(***************************************************************************)
EXTENDS StaticFramework

MCDeclarations ==
  <<[kind |-> "stream", name |-> 1], [kind |-> "publisher", name |-> 1],
    [kind |-> "exporter", name |-> 1], [kind |-> "stream", name |-> 2]>>
=============================================================================

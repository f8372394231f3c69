------------------------------- MODULE OrderKey -------------------------------
(***************************************************************************)
(* The order keys of a stream: a primary key given by the user's entry and *)
(* a secondary key the publisher counts up for entries of equal primary    *)
(* key.  Both are unsigned integers of fixed width, so both are bounded    *)
(* and the secondary key wraps.                                            *)
(*                                                                         *)
(* The storage orders its keys as strings.  A stream's keys share a prefix *)
(* and continue with the two numbers in zero-padded decimal of fixed       *)
(* width, so that the order of the strings is the order \prec below: that  *)
(* is what module KeySchema checks.                                        *)
(***************************************************************************)
EXTENDS Naturals

CONSTANTS
  MaxPrimary,        \* the largest value of T_PRIMARY_KEY
  SecondaryModulus   \* the number of values of T_SECONDARY_KEY

ASSUME OrderKeyAssumption ==
  /\ MaxPrimary \in Nat
  /\ SecondaryModulus \in Nat \ {0}

Primary == 0 .. MaxPrimary

Secondary == 0 .. SecondaryModulus - 1

Key == [primary : Primary, secondary : Secondary]

\* The key a default-constructed OrderKey holds once value-initialized.
ZeroKey == [primary |-> 0, secondary |-> 0]

\* The order of the composed storage keys.
a \prec b ==
  \/ a.primary < b.primary
  \/ a.primary = b.primary /\ a.secondary < b.secondary

a \preceq b == a = b \/ a \prec b

\* The unsigned secondary + 1.
IncrementSecondary(s) == IF s + 1 = SecondaryModulus THEN 0 ELSE s + 1

\* A defect: the comparison that keeps the secondary key counting is inverted.
NewHeadRestartsCount(head, p) ==
  [primary   |-> p,
   secondary |-> IF head.primary = p THEN 0 ELSE IncrementSecondary(head.secondary)]

\* A defect: the secondary key of an equal primary key is not counted up.
NewHeadKeepsSecondary(head, p) ==
  [primary   |-> p,
   secondary |-> IF head.primary < p THEN 0 ELSE head.secondary]

\* The head PushHeadUnguarded computes for primary key p, not below head's.
NewHead(head, p) ==
  [primary   |-> p,
   secondary |-> IF head.primary < p THEN 0 ELSE IncrementSecondary(head.secondary)]

=============================================================================

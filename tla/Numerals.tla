------------------------------- MODULE Numerals -------------------------------
(***************************************************************************)
(* Numbers as strings of digits, the most significant first, and the order *)
(* of strings.  A string is a sequence of numbers.                         *)
(***************************************************************************)
EXTENDS Naturals, Sequences

\* The largest number of d digits.
Largest(base) ==
  LET largest[d \in Nat] == IF d = 0 THEN 0 ELSE base * largest[d - 1] + base - 1
  IN largest

\* What is left of x without its last digits.
Rest(base, x) ==
  LET rest[i \in Nat] == IF i = 0 THEN x ELSE rest[i - 1] \div base IN rest

\* The last digits of x, as many as size.
Digits(base, x, size) == [i \in 1 .. size |-> Rest(base, x)[size - i] % base]

\* The number some digits are.
NumberOf(base, digits) ==
  LET value[i \in 0 .. Len(digits)] ==
        IF i = 0 THEN 0 ELSE base * value[i - 1] + digits[i]
  IN value[Len(digits)]

\* Strings compare by the first place they differ in; what another continues is before it.
Before(s, t) ==
  \/ Len(s) < Len(t) /\ \A i \in 1 .. Len(s) : s[i] = t[i]
  \/ \E i \in 1 .. Len(s) :
       i <= Len(t) /\ s[i] < t[i] /\ \A j \in 1 .. i - 1 : s[j] = t[j]
=============================================================================

---------------------------- MODULE KeySchemaProofs ----------------------------
(***************************************************************************)
(* The schema of the storage's keys, for numbers of any width, in any      *)
(* base, and for any streams: numbers come back as what was written and    *)
(* their strings are ordered as they are; no stream's interval meets       *)
(* another stream.  And numbers as the bytes of integers, for any size of  *)
(* bytes and any width.                                                    *)
(*                                                                         *)
(* What is defined by recursion is computed by recursion, as               *)
(* RecursionDefines shows once for all; facts about it are proved by       *)
(* looking at the least number for which they would fail.                  *)
(***************************************************************************)
EXTENDS KeySchema, ByteOrder, Integers, WellFoundedInduction, TLAPS

-----------------------------------------------------------------------------
(***************************************************************************)
(* Induction and recursion.                                                *)
(***************************************************************************)
LEMMA LeastOf ==
  ASSUME NEW S, S \subseteq Nat, S # {}
  PROVE  \E x \in S : \A y \in S : x <= y
<1> DEFINE less == {p \in Nat \X Nat : p[1] < p[2]}
<1>1. less = OpToRel(<, Nat)
  BY Zenon DEF OpToRel
<1>2. IsWellFoundedOn(less, Nat)
  BY <1>1, NatLessThanWellFounded, Zenon
<1>3. PICK x \in S : \A y \in S : <<y, x>> \notin less
  <2> HIDE DEF less
  <2> QED
    BY <1>2, WFMin, Zenon
<1>4. ASSUME NEW y \in S PROVE x <= y
  <2>1. ~(y < x)
    BY <1>3, <<y, x>> \in Nat \X Nat
  <2> QED
    BY <2>1
<1> QED
  BY <1>4

\* What holds for 0, and for n + 1 if for n, holds for all numbers.
LEMMA Induction ==
  ASSUME NEW S, 0 \in S, \A n \in Nat : n \in S => n + 1 \in S
  PROVE  Nat \subseteq S
<1> SUFFICES ASSUME Nat \ S # {} PROVE FALSE
  OBVIOUS
<1>1. PICK n \in Nat \ S : \A m \in Nat \ S : n <= m
  BY LeastOf
<1>2. n # 0 /\ n - 1 \in Nat
  BY <1>1
<1>3. n - 1 \in S
  BY <1>1, <1>2
<1> QED
  BY <1>1, <1>2, <1>3

\* A function of the first numbers that goes from each to the next as step says.
Goes(f, n, a, step) ==
  /\ f[0] = a
  /\ \A i \in Nat : i < n => f[i + 1] = step[<<i, f[i]>>]

\* A function of all numbers that does.
Recurs(f, a, step) == f[0] = a /\ \A n \in Nat : f[n + 1] = step[<<n, f[n]>>]

LEMMA RecursionDefines ==
  ASSUME NEW T, NEW a \in T, NEW step \in [Nat \X T -> T]
  PROVE  \E f \in [Nat -> T] : Recurs(f, a, step)
<1> DEFINE Has == {n \in Nat : \E f \in [0 .. n -> T] : Goes(f, n, a, step)}
           G(n) == CHOOSE f \in [0 .. n -> T] : Goes(f, n, a, step)
           F == [n \in Nat |-> G(n)[n]]
<1>1. Nat \subseteq Has
  <2>1. 0 \in Has
    <3>1. [i \in 0 .. 0 |-> a] \in [0 .. 0 -> T] /\ Goes([i \in 0 .. 0 |-> a], 0, a, step)
      BY DEF Goes
    <3> QED
      BY <3>1
  <2>2. ASSUME NEW n \in Nat, n \in Has PROVE n + 1 \in Has
    <3>1. PICK f \in [0 .. n -> T] : Goes(f, n, a, step)
      BY <2>2
    <3> DEFINE g == [i \in 0 .. n + 1 |-> IF i <= n THEN f[i] ELSE step[<<n, f[n]>>]]
    <3>2. f[n] \in T /\ step[<<n, f[n]>>] \in T
      OBVIOUS
    <3>3. g \in [0 .. n + 1 -> T]
      BY <3>2
    <3>4. g[0] = a
      BY <3>1 DEF Goes
    <3>5. ASSUME NEW i \in Nat, i < n + 1 PROVE g[i + 1] = step[<<i, g[i]>>]
      <4>1. CASE i < n
        <5>1. g[i + 1] = f[i + 1] /\ g[i] = f[i]
          BY <4>1
        <5> QED
          BY <3>1, <4>1, <5>1 DEF Goes
      <4>2. CASE i = n
        <5>1. g[i + 1] = step[<<n, f[n]>>] /\ g[i] = f[n]
          BY <4>2
        <5> QED
          BY <4>2, <5>1
      <4> QED
        BY <3>5, <4>1, <4>2
    <3>6. Goes(g, n + 1, a, step)
      <4> HIDE DEF g
      <4> QED
        BY <3>4, <3>5 DEF Goes
    <3> QED
      BY <3>3, <3>6
  <2> HIDE DEF Has
  <2> QED
    BY <2>1, <2>2, Induction
<1>2. \A n \in Nat : G(n) \in [0 .. n -> T] /\ Goes(G(n), n, a, step)
  <2> SUFFICES ASSUME NEW n \in Nat
               PROVE  G(n) \in [0 .. n -> T] /\ Goes(G(n), n, a, step)
    OBVIOUS
  <2>1. \E f \in [0 .. n -> T] : Goes(f, n, a, step)
    BY <1>1
  <2> QED
    BY <2>1, Zenon
<1> HIDE DEF G, Has
<1>3. \A n \in Nat : G(n + 1)[n] = G(n)[n]
  <2> SUFFICES ASSUME NEW n \in Nat PROVE G(n + 1)[n] = G(n)[n]
    OBVIOUS
  <2> DEFINE Same == {i \in Nat : i <= n => G(n + 1)[i] = G(n)[i]}
  <2>1. 0 \in Same
    BY <1>2 DEF Goes
  <2>2. ASSUME NEW i \in Nat, i \in Same PROVE i + 1 \in Same
    <3> SUFFICES ASSUME i + 1 <= n PROVE G(n + 1)[i + 1] = G(n)[i + 1]
      OBVIOUS
    <3>1. G(n + 1)[i + 1] = step[<<i, G(n + 1)[i]>>]
      BY <1>2 DEF Goes
    <3>2. G(n)[i + 1] = step[<<i, G(n)[i]>>]
      BY <1>2 DEF Goes
    <3> QED
      BY <2>2, <3>1, <3>2
  <2>3. Nat \subseteq Same
    <3> HIDE DEF Same
    <3> QED
      BY <2>1, <2>2, Induction
  <2> QED
    BY <2>3
<1>4. F \in [Nat -> T]
  BY <1>2
<1>5. F[0] = a
  BY <1>2 DEF Goes
<1>6. ASSUME NEW n \in Nat PROVE F[n + 1] = step[<<n, F[n]>>]
  <2>1. G(n + 1)[n + 1] = step[<<n, G(n + 1)[n]>>]
    BY <1>2 DEF Goes
  <2> QED
    BY <1>3, <2>1
<1> QED
  BY <1>4, <1>5, <1>6 DEF Recurs

-----------------------------------------------------------------------------
(***************************************************************************)
(* Numbers.                                                                *)
(***************************************************************************)
IsBase(base) == base \in Nat /\ 2 <= base

LEMMA Division ==
  ASSUME NEW base, IsBase(base), NEW x \in Nat
  PROVE  /\ x \div base \in Nat /\ x % base \in 0 .. base - 1
         /\ x = base * (x \div base) + (x % base)
         /\ \A y \in Nat : x <= y => x \div base <= y \div base
         /\ \A y \in Nat : x <= base * y + base - 1 => x \div base <= y
<1> USE DEF IsBase
<1>1. x \div base \in Nat /\ x % base \in 0 .. base - 1
  OBVIOUS
<1>2. x = base * (x \div base) + (x % base)
  OBVIOUS
<1>3. ASSUME NEW y \in Nat, x <= y PROVE x \div base <= y \div base
  BY <1>3
<1>4. ASSUME NEW y \in Nat, x <= base * y + base - 1 PROVE x \div base <= y
  <2>1. x < base * (y + 1)
    BY <1>4
  <2>2. x \div base < y + 1
    BY <2>1
  <2> QED
    BY <1>1, <2>2
<1> QED
  BY <1>1, <1>2, <1>3, <1>4

\* A quotient and a remainder are those of the number they make up.
LEMMA DivisionOf ==
  ASSUME NEW base, IsBase(base), NEW q \in Nat, NEW e \in 0 .. base - 1
  PROVE  (base * q + e) \div base = q /\ (base * q + e) % base = e
<1> USE DEF IsBase
<1> DEFINE n == base * q + e
<1>1. n \in Nat
  OBVIOUS
<1>2. n \div base = q
  OBVIOUS
<1>3. n = base * (n \div base) + (n % base)
  BY <1>1, Division
<1>4. n % base \in Nat
  BY <1>1, Division
<1>5. base * q \in Nat
  OBVIOUS
<1> QED
  BY <1>2, <1>3, <1>4, <1>5

LEMMA RestIs ==
  ASSUME NEW base, IsBase(base), NEW x \in Nat
  PROVE  /\ Rest(base, x)[0] = x
         /\ \A i \in Nat : /\ Rest(base, x)[i] \in Nat
                           /\ Rest(base, x)[i + 1] = Rest(base, x)[i] \div base
<1> DEFINE step == [p \in Nat \X Nat |-> p[2] \div base]
<1>1. step \in [Nat \X Nat -> Nat]
  BY Division
<1>2. PICK f \in [Nat -> Nat] : Recurs(f, x, step)
  <2> HIDE DEF step
  <2> QED
    BY <1>1, RecursionDefines, 0 \in Nat, Zenon
<1>3. ASSUME NEW i \in Nat \ {0} PROVE f[i] = f[i - 1] \div base
  <2>1. i - 1 \in Nat /\ (i - 1) + 1 = i
    OBVIOUS
  <2> QED
    BY <1>2, <2>1 DEF Recurs
<1>4. f = [i \in Nat |-> IF i = 0 THEN x ELSE f[i - 1] \div base]
  BY <1>2, <1>3 DEF Recurs
<1>5. Rest(base, x) = [i \in Nat |-> IF i = 0 THEN x ELSE Rest(base, x)[i - 1] \div base]
  BY <1>4, Zenon DEF Rest
<1>6. Rest(base, x)[0] = x
  BY <1>5
<1>7. ASSUME NEW i \in Nat PROVE Rest(base, x)[i + 1] = Rest(base, x)[i] \div base
  <2>1. i + 1 \in Nat /\ i + 1 # 0 /\ (i + 1) - 1 = i
    OBVIOUS
  <2> QED
    BY <1>5, <2>1
<1> DEFINE S == {i \in Nat : Rest(base, x)[i] \in Nat}
<1>8. 0 \in S
  BY <1>6
<1>9. ASSUME NEW i \in Nat, i \in S PROVE i + 1 \in S
  <2> DEFINE r == Rest(base, x)[i]
  <2>1. r \in Nat /\ Rest(base, x)[i + 1] = r \div base
    BY <1>7, <1>9
  <2> HIDE DEF r
  <2>2. r \div base \in Nat
    BY <2>1, Division
  <2> QED
    BY <2>1, <2>2
<1>10. Nat \subseteq S
  <2> HIDE DEF S
  <2> QED
    BY <1>8, <1>9, Induction
<1> QED
  BY <1>6, <1>7, <1>10

LEMMA LargestIs ==
  ASSUME NEW base, IsBase(base)
  PROVE  /\ Largest(base)[0] = 0
         /\ \A d \in Nat : /\ Largest(base)[d] \in Nat /\ d <= Largest(base)[d]
                           /\ Largest(base)[d + 1] = base * Largest(base)[d] + base - 1
<1> DEFINE step == [p \in Nat \X Nat |-> base * p[2] + base - 1]
<1>1. step \in [Nat \X Nat -> Nat]
  BY DEF IsBase
<1>2. PICK f \in [Nat -> Nat] : Recurs(f, 0, step)
  <2> HIDE DEF step
  <2> QED
    BY <1>1, RecursionDefines, 0 \in Nat, Zenon
<1>3. ASSUME NEW d \in Nat \ {0} PROVE f[d] = base * f[d - 1] + base - 1
  <2>1. d - 1 \in Nat /\ (d - 1) + 1 = d
    OBVIOUS
  <2> QED
    BY <1>2, <2>1 DEF Recurs
<1>4. f = [d \in Nat |-> IF d = 0 THEN 0 ELSE base * f[d - 1] + base - 1]
  BY <1>2, <1>3 DEF Recurs
<1>5. Largest(base) = [d \in Nat |-> IF d = 0 THEN 0 ELSE base * Largest(base)[d - 1] + base - 1]
  BY <1>4, Zenon DEF Largest
<1>6. Largest(base)[0] = 0
  BY <1>5
<1>7. ASSUME NEW d \in Nat PROVE Largest(base)[d + 1] = base * Largest(base)[d] + base - 1
  <2>1. d + 1 \in Nat /\ d + 1 # 0 /\ (d + 1) - 1 = d
    OBVIOUS
  <2> QED
    BY <1>5, <2>1
<1> DEFINE S == {d \in Nat : Largest(base)[d] \in Nat /\ d <= Largest(base)[d]}
<1>8. 0 \in S
  BY <1>6
<1>9. ASSUME NEW d \in Nat, d \in S PROVE d + 1 \in S
  <2> DEFINE l == Largest(base)[d]
  <2>1. l \in Nat /\ d <= l /\ Largest(base)[d + 1] = base * l + base - 1
    BY <1>7, <1>9
  <2> HIDE DEF l
  <2>2. base * l + base - 1 \in Nat /\ d + 1 <= base * l + base - 1
    BY <2>1 DEF IsBase
  <2> QED
    BY <2>1, <2>2
<1>10. Nat \subseteq S
  <2> HIDE DEF S
  <2> QED
    BY <1>8, <1>9, Induction
<1> QED
  BY <1>6, <1>7, <1>10

\* A number of at most size digits.
Fits(base, x, size) == x \in Nat /\ size \in Nat /\ Rest(base, x)[size] = 0

LEMMA NumbersFit ==
  ASSUME NEW base, IsBase(base), NEW size \in Nat, NEW x \in Nat, x <= Largest(base)[size]
  PROVE  Fits(base, x, size)
<1> DEFINE S == {i \in Nat : i <= size => Rest(base, x)[i] <= Largest(base)[size - i]}
<1>1. 0 \in S
  BY RestIs
<1>2. ASSUME NEW i \in Nat, i \in S PROVE i + 1 \in S
  <2> SUFFICES ASSUME i + 1 <= size PROVE Rest(base, x)[i + 1] <= Largest(base)[size - (i + 1)]
    OBVIOUS
  <2>1. size - (i + 1) \in Nat /\ (size - (i + 1)) + 1 = size - i
    OBVIOUS
  <2>2. Rest(base, x)[i] <= base * Largest(base)[size - (i + 1)] + base - 1
    BY <1>2, <2>1, LargestIs
  <2>3. Rest(base, x)[i] \in Nat /\ Largest(base)[size - (i + 1)] \in Nat
    BY <2>1, RestIs, LargestIs
  <2>4. Rest(base, x)[i] \div base <= Largest(base)[size - (i + 1)]
    BY <2>2, <2>3, Division
  <2> QED
    BY <2>4, RestIs
<1>3. size \in S
  <2> HIDE DEF S
  <2> QED
    BY <1>1, <1>2, Induction
<1>4. Rest(base, x)[size] <= Largest(base)[0]
  BY <1>3
<1> QED
  BY <1>4, RestIs, LargestIs DEF Fits

\* The digits of a number, one by one.
LEMMA DigitsAre ==
  ASSUME NEW base, IsBase(base), NEW x \in Nat, NEW size \in Nat
  PROVE  /\ Digits(base, x, size) \in Seq(0 .. base - 1)
         /\ Digits(base, x, size) \in Seq(Nat)
         /\ Len(Digits(base, x, size)) = size
         /\ \A i \in 1 .. size : Digits(base, x, size)[i] = Rest(base, x)[size - i] % base
<1>1. ASSUME NEW i \in 1 .. size
      PROVE  Rest(base, x)[size - i] % base \in 0 .. base - 1
  <2> DEFINE r == Rest(base, x)[size - i]
  <2>1. size - i \in Nat
    OBVIOUS
  <2>2. r \in Nat
    BY <2>1, RestIs
  <2> HIDE DEF r
  <2>3. r % base \in 0 .. base - 1
    BY <2>2, Division
  <2> QED
    BY <2>3 DEF r
<1> QED
  BY <1>1 DEF Digits

LEMMA ValueIs ==
  ASSUME NEW base, IsBase(base), NEW n \in Nat, NEW e \in Nat
  PROVE  base * n + e \in Nat
  BY DEF IsBase

\* The values of longer and longer beginnings of a string of digits.
LEMMA NumberOfIs ==
  ASSUME NEW base, IsBase(base), NEW d \in Seq(Nat)
  PROVE  \E v \in [0 .. Len(d) -> Nat] :
           /\ v[0] = 0
           /\ \A i \in 1 .. Len(d) : v[i] = base * v[i - 1] + d[i]
           /\ NumberOf(base, d) = v[Len(d)]
<1>1. \A i \in 1 .. Len(d) : d[i] \in Nat
  OBVIOUS
<1> DEFINE digit(i) == IF i \in 1 .. Len(d) THEN d[i] ELSE 0
           step == [p \in Nat \X Nat |-> base * p[2] + digit(p[1] + 1)]
<1>2. step \in [Nat \X Nat -> Nat]
  <2>1. \A i \in Nat : digit(i) \in Nat
    OBVIOUS
  <2> HIDE DEF digit
  <2>2. \A p \in Nat \X Nat : base * p[2] + digit(p[1] + 1) \in Nat
    <3> SUFFICES ASSUME NEW i \in Nat, NEW n \in Nat PROVE base * n + digit(i + 1) \in Nat
      OBVIOUS
    <3>1. digit(i + 1) \in Nat
      BY <2>1
    <3> QED
      BY <3>1, ValueIs
  <2> QED
    BY <2>2
<1>3. PICK f \in [Nat -> Nat] : Recurs(f, 0, step)
  <2> HIDE DEF step
  <2> QED
    BY <1>2, RecursionDefines, 0 \in Nat, Zenon
<1> DEFINE g == [i \in 0 .. Len(d) |-> f[i]]
<1>4. g = [i \in 0 .. Len(d) |-> IF i = 0 THEN 0 ELSE base * g[i - 1] + d[i]]
  <2>1. ASSUME NEW i \in 1 .. Len(d) PROVE f[i] = base * f[i - 1] + d[i]
    <3>1. i - 1 \in Nat /\ (i - 1) + 1 = i /\ digit(i) = d[i]
      OBVIOUS
    <3> HIDE DEF digit
    <3> QED
      BY <1>3, <3>1 DEF Recurs
  <2>2. f[0] = 0
    BY <1>3 DEF Recurs
  <2>3. ASSUME NEW i \in 0 .. Len(d)
        PROVE  g[i] = IF i = 0 THEN 0 ELSE base * g[i - 1] + d[i]
    <3>1. CASE i = 0
      BY <2>2, <3>1
    <3>2. CASE i # 0
      <4>1. i \in 1 .. Len(d) /\ i - 1 \in 0 .. Len(d)
        BY <3>2
      <4>2. g[i] = f[i] /\ g[i - 1] = f[i - 1]
        BY <4>1
      <4> HIDE DEF g
      <4> QED
        BY <2>1, <3>2, <4>1, <4>2
    <3> QED
      BY <3>1, <3>2
  <2>4. g = [i \in 0 .. Len(d) |-> g[i]]
    OBVIOUS
  <2> HIDE DEF g
  <2> QED
    BY <2>3, <2>4
<1>5. PICK v :
        /\ v = [i \in 0 .. Len(d) |-> IF i = 0 THEN 0 ELSE base * v[i - 1] + d[i]]
        /\ NumberOf(base, d) = v[Len(d)]
  <2> HIDE DEF g
  <2> QED
    BY <1>4, Zenon DEF NumberOf
<1>6. v[0] = 0 /\ \A i \in 1 .. Len(d) : v[i] = base * v[i - 1] + d[i]
  <2>1. ASSUME NEW i \in 1 .. Len(d) PROVE v[i] = base * v[i - 1] + d[i]
    <3>1. i \in 0 .. Len(d) /\ i # 0
      OBVIOUS
    <3> QED
      BY <1>5, <3>1
  <2>2. 0 \in 0 .. Len(d)
    OBVIOUS
  <2> QED
    BY <1>5, <2>1, <2>2
<1> DEFINE S == {i \in Nat : i <= Len(d) => v[i] \in Nat}
<1>7. 0 \in S
  BY <1>6
<1>8. ASSUME NEW i \in Nat, i \in S PROVE i + 1 \in S
  <2> SUFFICES ASSUME i + 1 <= Len(d) PROVE v[i + 1] \in Nat
    OBVIOUS
  <2>1. i + 1 \in 1 .. Len(d) /\ (i + 1) - 1 = i
    OBVIOUS
  <2>2. v[i + 1] = base * v[i] + d[i + 1]
    BY <1>6, <2>1
  <2>3. v[i] \in Nat
    <3>1. i <= Len(d)
      OBVIOUS
    <3> QED
      BY <1>8, <3>1
  <2>4. d[i + 1] \in Nat
    BY <1>1, <2>1
  <2> QED
    BY <2>2, <2>3, <2>4, ValueIs
<1>9. \A i \in 0 .. Len(d) : v[i] \in Nat
  <2>1. Nat \subseteq S
    <3> HIDE DEF S
    <3> QED
      BY <1>7, <1>8, Induction
  <2> QED
    BY <2>1
<1>10. v \in [0 .. Len(d) -> Nat]
  BY <1>5, <1>9
<1> QED
  BY <1>5, <1>6, <1>10

\* The digits of a number are digits of it.
LEMMA NumberOfDigits ==
  ASSUME NEW base, IsBase(base), NEW x, NEW size, Fits(base, x, size)
  PROVE  NumberOf(base, Digits(base, x, size)) = x
<1> DEFINE d == Digits(base, x, size)
<1>1. x \in Nat /\ size \in Nat /\ Rest(base, x)[size] = 0
  BY DEF Fits
<1>2. /\ d \in Seq(Nat) /\ Len(d) = size
      /\ \A i \in 1 .. size : d[i] = Rest(base, x)[size - i] % base
  BY <1>1, DigitsAre
<1> HIDE DEF d
<1>3. PICK v \in [0 .. size -> Nat] :
        /\ v[0] = 0
        /\ \A i \in 1 .. size : v[i] = base * v[i - 1] + d[i]
        /\ NumberOf(base, d) = v[size]
  BY <1>2, NumberOfIs
<1> DEFINE S == {i \in Nat : i <= size => v[i] = Rest(base, x)[size - i]}
<1>4. 0 \in S
  BY <1>1, <1>3
<1>5. ASSUME NEW i \in Nat, i \in S PROVE i + 1 \in S
  <2> SUFFICES ASSUME i + 1 <= size PROVE v[i + 1] = Rest(base, x)[size - (i + 1)]
    OBVIOUS
  <2> DEFINE r == Rest(base, x)[size - (i + 1)]
  <2>1. size - (i + 1) \in Nat /\ (size - (i + 1)) + 1 = size - i
    BY <1>1
  <2>2. r \in Nat /\ Rest(base, x)[size - i] = r \div base
    <3> DEFINE k == size - (i + 1)
    <3>1. k \in Nat /\ k + 1 = size - i
      BY <2>1
    <3> HIDE DEF k
    <3>2. Rest(base, x)[k] \in Nat /\ Rest(base, x)[k + 1] = Rest(base, x)[k] \div base
      BY <1>1, <3>1, RestIs
    <3> QED
      BY <3>1, <3>2 DEF k
  <2>3. v[i] = r \div base
    <3>1. i <= size
      BY <1>1
    <3> QED
      BY <1>5, <2>2, <3>1
  <2>4. v[i + 1] = base * v[i] + d[i + 1] /\ d[i + 1] = r % base
    BY <1>1, <1>2, <1>3
  <2> HIDE DEF r
  <2>5. r = base * (r \div base) + (r % base)
    BY <2>2, Division
  <2>6. v[i + 1] = r
    BY <2>3, <2>4, <2>5
  <2> QED
    BY <2>6 DEF r
<1>6. v[size] = Rest(base, x)[0]
  <2>1. Nat \subseteq S
    <3> HIDE DEF S
    <3> QED
      BY <1>4, <1>5, Induction
  <2> QED
    BY <1>1, <2>1
<1> QED
  BY <1>1, <1>3, <1>6, RestIs DEF d

\* Digits are the digits of their number.
LEMMA DigitsOfNumber ==
  ASSUME NEW base, IsBase(base), NEW d \in Seq(0 .. base - 1)
  PROVE  /\ Fits(base, NumberOf(base, d), Len(d))
         /\ Digits(base, NumberOf(base, d), Len(d)) = d
<1> DEFINE size == Len(d)
           x == NumberOf(base, d)
<1>1. d \in Seq(Nat) /\ size \in Nat /\ \A i \in 1 .. size : d[i] \in 0 .. base - 1
  BY DEF IsBase
<1>2. PICK v \in [0 .. size -> Nat] :
        /\ v[0] = 0
        /\ \A i \in 1 .. size : v[i] = base * v[i - 1] + d[i]
        /\ x = v[size]
  BY <1>1, NumberOfIs
<1> HIDE DEF size, x
<1>3. x \in Nat
  BY <1>1, <1>2
<1>4. ASSUME NEW i \in 1 .. size PROVE v[i] \div base = v[i - 1] /\ v[i] % base = d[i]
  <2> DEFINE q == v[i - 1]
             e == d[i]
  <2>1. q \in Nat /\ e \in 0 .. base - 1 /\ v[i] = base * q + e
    BY <1>1, <1>2
  <2> HIDE DEF q, e
  <2>2. (base * q + e) \div base = q /\ (base * q + e) % base = e
    BY <2>1, DivisionOf
  <2> QED
    BY <2>1, <2>2 DEF q, e
<1> DEFINE S == {i \in Nat : i <= size => Rest(base, x)[i] = v[size - i]}
<1>5. 0 \in S
  BY <1>1, <1>2, <1>3, RestIs
<1>6. ASSUME NEW i \in Nat, i \in S PROVE i + 1 \in S
  <2> SUFFICES ASSUME i + 1 <= size PROVE Rest(base, x)[i + 1] = v[size - (i + 1)]
    OBVIOUS
  <2>1. size - i \in 1 .. size /\ (size - i) - 1 = size - (i + 1)
    BY <1>1
  <2>2. Rest(base, x)[i] = v[size - i]
    BY <1>1, <1>6
  <2>3. Rest(base, x)[i + 1] = v[size - i] \div base
    BY <1>3, <2>2, RestIs
  <2> QED
    BY <1>4, <2>1, <2>3
<1>7. \A i \in 0 .. size : Rest(base, x)[i] = v[size - i]
  <2>1. Nat \subseteq S
    <3> HIDE DEF S
    <3> QED
      BY <1>5, <1>6, Induction
  <2> QED
    BY <1>1, <2>1
<1>8. Fits(base, x, size)
  BY <1>1, <1>2, <1>3, <1>7 DEF Fits
<1>9. ASSUME NEW i \in 1 .. size PROVE Digits(base, x, size)[i] = d[i]
  <2>1. size - i \in 0 .. size /\ size - (size - i) = i
    BY <1>1
  <2>2. Rest(base, x)[size - i] = v[i]
    BY <1>7, <2>1
  <2> QED
    BY <1>1, <1>3, <1>4, <2>2, DigitsAre
<1>10. Digits(base, x, size) = d
  <2>1. Digits(base, x, size) \in Seq(Nat) /\ Len(Digits(base, x, size)) = Len(d)
    BY <1>1, <1>3, DigitsAre DEF size
  <2> QED
    BY <1>1, <1>9, <2>1 DEF size
<1> QED
  BY <1>8, <1>10 DEF size, x

-----------------------------------------------------------------------------
(***************************************************************************)
(* The order of strings is decided where they first differ.                *)
(***************************************************************************)
DifferAt(s, t, i) ==
  /\ i \in 1 .. Len(s) /\ i \in 1 .. Len(t)
  /\ s[i] # t[i] /\ \A j \in 1 .. i - 1 : s[j] = t[j]

LEMMA BeforeWhereDiffering ==
  ASSUME NEW s \in Seq(Nat), NEW t \in Seq(Nat), NEW i, DifferAt(s, t, i)
  PROVE  Before(s, t) <=> s[i] < t[i]
<1>1. ASSUME Before(s, t) PROVE s[i] < t[i]
  <2>1. ~\A j \in 1 .. Len(s) : s[j] = t[j]
    BY DEF DifferAt
  <2>2. PICK k \in 1 .. Len(s) : k <= Len(t) /\ s[k] < t[k] /\ \A j \in 1 .. k - 1 : s[j] = t[j]
    BY <1>1, <2>1 DEF Before
  <2>3. s[k] \in Nat /\ s[k] # t[k]
    BY <2>2
  <2>4. ~(k < i)
    BY <2>3 DEF DifferAt
  <2>5. ~(i < k)
    BY <2>2 DEF DifferAt
  <2>6. i = k
    BY <2>4, <2>5 DEF DifferAt
  <2> QED
    BY <2>2, <2>6
<1>2. ASSUME s[i] < t[i] PROVE Before(s, t)
  BY <1>2 DEF DifferAt, Before
<1> QED
  BY <1>1, <1>2

LEMMA BeforeIsStrict ==
  ASSUME NEW s \in Seq(Nat)
  PROVE  ~Before(s, s)
<1>1. \A i \in 1 .. Len(s) : s[i] \in Nat
  OBVIOUS
<1> QED
  BY <1>1 DEF Before

\* Numbers are ordered as their digits are.
LEMMA DigitsOrdered ==
  ASSUME NEW base, IsBase(base), NEW x, NEW y, NEW size,
         Fits(base, x, size), Fits(base, y, size), x # y
  PROVE  \E i \in 1 .. size :
           /\ DifferAt(Digits(base, x, size), Digits(base, y, size), i)
           /\ Digits(base, x, size)[i] < Digits(base, y, size)[i] <=> x < y
<1> DEFINE p == Digits(base, x, size)
           q == Digits(base, y, size)
           Same == {j \in Nat : Rest(base, x)[j] = Rest(base, y)[j]}
<1>1. x \in Nat /\ y \in Nat /\ size \in Nat /\ Rest(base, x)[size] = 0 /\ Rest(base, y)[size] = 0
  BY DEF Fits
<1>2. PICK l \in Same : \A j \in Same : l <= j
  <2>1. size \in Same
    BY <1>1
  <2> QED
    BY <2>1, LeastOf
<1>3. l \in 1 .. size /\ l - 1 \in Nat /\ (l - 1) + 1 = l
  BY <1>1, <1>2, RestIs
<1> DEFINE a == Rest(base, x)[l - 1]
           b == Rest(base, y)[l - 1]
<1>4. /\ a \in Nat /\ b \in Nat /\ a # b
      /\ Rest(base, x)[l] = a \div base /\ Rest(base, y)[l] = b \div base
      /\ a \div base = b \div base
  BY <1>1, <1>2, <1>3, RestIs
<1>5. (a % base < b % base <=> a < b) /\ a % base # b % base
  <2> DEFINE u == base * (a \div base)
             c == a % base
             d == b % base
  <2> HIDE DEF a, b
  <2>1. a = u + c /\ b = u + d
    BY <1>4, Division
  <2>2. c \in Nat /\ d \in Nat
    BY <1>4, Division DEF IsBase
  <2>3. u \in Nat
    <3>1. a \div base \in Nat
      BY <1>4, Division
    <3> QED
      BY <3>1 DEF IsBase
  <2>4. (c < d <=> a < b) /\ c # d
    <3> HIDE DEF u, c, d
    <3> QED
      BY <1>4, <2>1, <2>2, <2>3
  <2> QED
    BY <2>4
\* The quotients stay the same once they are,
<1>6. ASSUME NEW n \in Nat PROVE Rest(base, x)[l + n] = Rest(base, y)[l + n]
  <2> DEFINE S == {m \in Nat : Rest(base, x)[l + m] = Rest(base, y)[l + m]}
  <2>1. 0 \in S
    BY <1>2
  <2>2. ASSUME NEW m \in Nat, m \in S PROVE m + 1 \in S
    <3>1. l + m \in Nat /\ l + (m + 1) = (l + m) + 1
      BY <1>3
    <3> QED
      BY <1>1, <2>2, <3>1, RestIs
  <2>3. Nat \subseteq S
    <3> HIDE DEF S
    <3> QED
      BY <2>1, <2>2, Induction
  <2> QED
    BY <2>3
\* and the smaller number's are never the larger.
<1>7. ASSUME NEW m \in Nat, NEW n \in Nat, m <= n, NEW k \in Nat
      PROVE  Rest(base, m)[k] <= Rest(base, n)[k]
  <2> DEFINE S == {i \in Nat : Rest(base, m)[i] <= Rest(base, n)[i]}
  <2>1. 0 \in S
    BY <1>7, RestIs
  <2>2. ASSUME NEW i \in Nat, i \in S PROVE i + 1 \in S
    <3>1. /\ Rest(base, m)[i] \in Nat /\ Rest(base, n)[i] \in Nat
          /\ Rest(base, m)[i] <= Rest(base, n)[i]
      BY <2>2, RestIs
    <3>2. Rest(base, m)[i] \div base <= Rest(base, n)[i] \div base
      BY <3>1, Division
    <3> QED
      BY <3>2, RestIs
  <2>3. Nat \subseteq S
    <3> HIDE DEF S
    <3> QED
      BY <2>1, <2>2, Induction
  <2> QED
    BY <2>3
<1>8. a < b <=> x < y
  <2>1. x <= y => a <= b
    BY <1>1, <1>3, <1>7
  <2>2. y <= x => b <= a
    BY <1>1, <1>3, <1>7
  <2> HIDE DEF a, b
  <2> QED
    BY <1>1, <1>4, <2>1, <2>2
<1> DEFINE i == size - (l - 1)
<1>9. i \in 1 .. size /\ size - i = l - 1
  BY <1>1, <1>3
<1>10. /\ Len(p) = size /\ Len(q) = size
       /\ \A j \in 1 .. size : /\ p[j] = (Rest(base, x)[size - j] % base)
                               /\ q[j] = (Rest(base, y)[size - j] % base)
  BY <1>1, DigitsAre
<1>11. p[i] = (a % base) /\ q[i] = (b % base)
  BY <1>9, <1>10
<1>12. p[i] # q[i] /\ (p[i] < q[i] <=> x < y)
  <2>1. a % base \in Nat /\ b % base \in Nat
    BY <1>4, Division
  <2> HIDE DEF a, b, p, q, i
  <2>2. p[i] # q[i]
    BY <1>5, <1>11, <2>1
  <2>3. p[i] < q[i] <=> a % base < b % base
    BY <1>11, <2>1
  <2> QED
    BY <1>5, <1>8, <2>2, <2>3
<1>13. ASSUME NEW j \in 1 .. i - 1 PROVE p[j] = q[j]
  <2>1. j \in 1 .. size /\ (size - j) - l \in Nat /\ l + ((size - j) - l) = size - j
    BY <1>1, <1>3
  <2>2. Rest(base, x)[size - j] = Rest(base, y)[size - j]
    BY <1>6, <2>1
  <2> QED
    BY <1>10, <2>1, <2>2
<1> HIDE DEF p, q, i
<1>14. DifferAt(p, q, i)
  BY <1>9, <1>10, <1>12, <1>13 DEF DifferAt
<1>15. \E k \in 1 .. size : DifferAt(p, q, k) /\ (p[k] < q[k] <=> x < y)
  BY <1>9, <1>12, <1>14, Zenon
<1> QED
  BY <1>15, Zenon DEF p, q

-----------------------------------------------------------------------------
(***************************************************************************)
(* The strings numbers are packed to.                                      *)
(***************************************************************************)
LEMMA BaseIs == IsBase(Base) /\ Base <= 10
  BY KeySchemaAssumption DEF IsBase

\* The width of a type is enough for its largest number.
LEMMA WidthSuffices ==
  ASSUME NEW max \in Nat
  PROVE  SizeInBytes(max) \in Nat \ {0} /\ max <= Largest(Base)[SizeInBytes(max)]
<1> DEFINE Over == {d \in Nat : max < Largest(Base)[d]}
<1>1. max + 1 \in Over
  BY BaseIs, LargestIs
<1>2. PICK least \in Over : \A d \in Over : least <= d
  BY <1>1, LeastOf
<1>3. least # 0 /\ least - 1 \in Nat /\ (least - 1) + 1 = least
  BY <1>2, BaseIs, LargestIs
<1>4. Largest(Base)[least - 1] <= max
  BY <1>2, <1>3, BaseIs, LargestIs
<1>5. least - 1 \in 0 .. max
  BY <1>3, <1>4, BaseIs, LargestIs
<1>6. \E d \in 0 .. max : Largest(Base)[d] <= max /\ max < Largest(Base)[d + 1]
  BY <1>2, <1>3, <1>4, <1>5
<1> DEFINE digits10 == CHOOSE d \in 0 .. max : Largest(Base)[d] <= max /\ max < Largest(Base)[d + 1]
<1>7. digits10 \in 0 .. max /\ max < Largest(Base)[digits10 + 1]
  BY <1>6, Zenon
<1>8. SizeInBytes(max) = 1 + digits10
  BY DEF SizeInBytes
<1> HIDE DEF digits10
<1> QED
  BY <1>7, <1>8, BaseIs, LargestIs

\* A number of size characters, each a digit's.
LEMMA PackIs ==
  ASSUME NEW x \in Nat, NEW size \in Nat
  PROVE  /\ PackToString(x, size) \in Seq(48 .. 57)
         /\ Len(PackToString(x, size)) = size
         /\ \A i \in 1 .. size : /\ Digits(Base, x, size)[i] \in Nat
                                 /\ PackToString(x, size)[i] = 48 + Digits(Base, x, size)[i]
<1> DEFINE d == Digits(Base, x, size)
<1>1. d \in Seq(0 .. Base - 1) /\ Len(d) = size
  BY BaseIs, DigitsAre
<1>2. PackToString(x, size) = [i \in 1 .. size |-> 48 + d[i]]
  BY DEF PackToString, ZeroCharacter
<1> HIDE DEF d
<1>3. ASSUME NEW i \in 1 .. size PROVE d[i] \in Nat /\ 48 + d[i] \in 48 .. 57
  <2> DEFINE D == 0 .. Base - 1
  <2>1. d \in Seq(D) /\ i \in 1 .. Len(d)
    BY <1>1
  <2> HIDE DEF D
  <2>2. d[i] \in D
    BY <2>1
  <2> QED
    BY <2>2, BaseIs DEF IsBase, D
<1>4. [i \in 1 .. size |-> 48 + d[i]] \in Seq(48 .. 57)
  BY <1>3
<1> QED
  BY <1>2, <1>3, <1>4 DEF d

\* What is packed is unpacked, leading zeros or not.
LEMMA UnpackPacked ==
  ASSUME NEW x, NEW size, Fits(Base, x, size)
  PROVE  UnpackFromString(PackToString(x, size)) = x
<1> DEFINE p == PackToString(x, size)
           d == Digits(Base, x, size)
<1>1. x \in Nat /\ size \in Nat
  BY DEF Fits
<1>2. /\ Len(p) = size /\ d \in Seq(Nat) /\ Len(d) = size
      /\ \A i \in 1 .. size : d[i] \in Nat /\ p[i] = 48 + d[i]
  BY <1>1, BaseIs, PackIs, DigitsAre
<1> HIDE DEF p, d
<1>3. [i \in 1 .. Len(p) |-> p[i] - ZeroCharacter] = d
  BY <1>1, <1>2 DEF ZeroCharacter
<1> QED
  BY <1>3, BaseIs, NumberOfDigits DEF UnpackFromString, p, d

\* Numbers are ordered as their strings are.
LEMMA PackOrdered ==
  ASSUME NEW x, NEW y, NEW size, Fits(Base, x, size), Fits(Base, y, size), x # y
  PROVE  \E i \in 1 .. size :
           /\ DifferAt(PackToString(x, size), PackToString(y, size), i)
           /\ PackToString(x, size)[i] < PackToString(y, size)[i] <=> x < y
<1> DEFINE p == PackToString(x, size)
           q == PackToString(y, size)
           d == Digits(Base, x, size)
           e == Digits(Base, y, size)
<1>1. x \in Nat /\ y \in Nat /\ size \in Nat
  BY DEF Fits
<1>2. PICK i \in 1 .. size : DifferAt(d, e, i) /\ (d[i] < e[i] <=> x < y)
  BY BaseIs, DigitsOrdered
<1>3. /\ Len(p) = size /\ Len(q) = size
      /\ \A j \in 1 .. size : /\ d[j] \in Nat /\ p[j] = 48 + d[j]
                              /\ e[j] \in Nat /\ q[j] = 48 + e[j]
  BY <1>1, PackIs
<1> HIDE DEF p, q, d, e
<1>4. DifferAt(p, q, i)
  <2>1. d[i] # e[i] /\ \A j \in 1 .. i - 1 : d[j] = e[j]
    BY <1>2 DEF DifferAt
  <2>2. p[i] # q[i]
    BY <1>3, <2>1
  <2>3. ASSUME NEW j \in 1 .. i - 1 PROVE p[j] = q[j]
    <3>1. j \in 1 .. size
      BY <1>1
    <3> QED
      BY <1>3, <2>1, <3>1
  <2>4. i \in 1 .. Len(p) /\ i \in 1 .. Len(q)
    BY <1>3
  <2> QED
    BY <2>2, <2>3, <2>4 DEF DifferAt
<1>5. p[i] < q[i] <=> x < y
  BY <1>2, <1>3
<1>6. \E k \in 1 .. size : DifferAt(p, q, k) /\ (p[k] < q[k] <=> x < y)
  BY <1>4, <1>5
<1> QED
  BY <1>6 DEF p, q
-----------------------------------------------------------------------------
(***************************************************************************)
(* The strings of the schema.                                              *)
(***************************************************************************)
LEMMA NamesAre ==
  ASSUME NEW name \in Names
  PROVE  /\ name \in Seq(Nat)
         /\ \A i \in 1 .. Len(name) : name[i] \in Nat /\ name[i] # 58 /\ name[i] # 59
<1>1. name \in Seq(IdentifierCharacters)
  BY KeySchemaAssumption
<1>2. \A c \in IdentifierCharacters : c \in Nat /\ c # 58 /\ c # 59
  BY DEF IdentifierCharacters
<1> HIDE DEF IdentifierCharacters
<1>3. \A i \in 1 .. Len(name) : name[i] \in IdentifierCharacters
  BY <1>1
<1> QED
  BY <1>1, <1>2, <1>3

LEMMA KeysFit ==
  ASSUME NEW k \in Key
  PROVE  /\ PrimarySize \in Nat /\ SecondarySize \in Nat
         /\ k.primary \in Nat /\ Fits(Base, k.primary, PrimarySize)
         /\ k.secondary \in Nat /\ Fits(Base, k.secondary, SecondarySize)
<1>1. /\ MaxPrimary \in Nat /\ k.primary \in Nat /\ k.primary <= MaxPrimary
      /\ SecondaryModulus - 1 \in Nat
      /\ k.secondary \in Nat /\ k.secondary <= SecondaryModulus - 1
  BY OrderKeyAssumption DEF Key, Primary, Secondary
<1>2. /\ PrimarySize \in Nat /\ MaxPrimary <= Largest(Base)[PrimarySize]
      /\ SecondarySize \in Nat /\ SecondaryModulus - 1 <= Largest(Base)[SecondarySize]
  BY <1>1, WidthSuffices DEF PrimarySize, SecondarySize
<1>3. Largest(Base)[PrimarySize] \in Nat /\ Largest(Base)[SecondarySize] \in Nat
  BY <1>2, BaseIs, LargestIs
<1>4. k.primary <= Largest(Base)[PrimarySize] /\ k.secondary <= Largest(Base)[SecondarySize]
  BY <1>1, <1>2, <1>3
<1> QED
  BY <1>1, <1>2, <1>4, BaseIs, NumbersFit

Joins(s, a, b, c) ==
  /\ s \in Seq(Nat) /\ Len(s) = Len(a) + Len(b) + Len(c)
  /\ \A i \in 1 .. Len(a) : s[i] = a[i]
  /\ \A i \in 1 .. Len(b) : s[Len(a) + i] = b[i]
  /\ \A i \in 1 .. Len(c) : s[Len(a) + Len(b) + i] = c[i]
  /\ SubSeq(s, Len(a) + 1, Len(a) + Len(b)) = b
  /\ SubSeq(s, Len(a) + Len(b) + 1, Len(s)) = c

LEMMA Concatenated ==
  ASSUME NEW a \in Seq(Nat), NEW b \in Seq(Nat), NEW c \in Seq(Nat)
  PROVE  Joins(a \o b \o c, a, b, c)
<1> DEFINE s == a \o b \o c
<1>1. /\ s \in Seq(Nat) /\ Len(s) = Len(a) + Len(b) + Len(c)
      /\ \A i \in 1 .. Len(a) : s[i] = a[i]
      /\ \A i \in 1 .. Len(b) : s[Len(a) + i] = b[i]
      /\ \A i \in 1 .. Len(c) : s[Len(a) + Len(b) + i] = c[i]
  OBVIOUS
<1>2. SubSeq(s, Len(a) + 1, Len(a) + Len(b)) = b
  OBVIOUS
<1>3. SubSeq(s, Len(a) + Len(b) + 1, Len(s)) = c
  OBVIOUS
<1> QED
  BY <1>1, <1>2, <1>3, Zenon DEF Joins

\* What the keys of a stream and their end begin with, but for the last character.
Begins(s, name, c) ==
  /\ Len(s) >= Len(name) + 3
  /\ s[1] = 100 /\ s[2] = 58 /\ s[Len(name) + 3] = c
  /\ \A i \in 1 .. Len(name) : s[i + 2] = name[i]

LEMMA BeginsWithName ==
  ASSUME NEW name \in Seq(Nat), NEW s, NEW c, Begins(s, name, c)
  PROVE  \A i \in 3 .. Len(name) + 2 : s[i] = name[i - 2]
<1> SUFFICES ASSUME NEW i \in 3 .. Len(name) + 2 PROVE s[i] = name[i - 2]
  OBVIOUS
<1>1. i - 2 \in 1 .. Len(name) /\ (i - 2) + 2 = i
  OBVIOUS
<1>2. s[(i - 2) + 2] = name[i - 2]
  BY <1>1, Zenon DEF Begins
<1> QED
  BY <1>1, <1>2

LEMMA PrefixIs ==
  ASSUME NEW name \in Seq(Nat), NEW c \in Nat,
         NEW s, s = stream_data_prefix \o <<delimiter>> \o name \o <<c>>
  PROVE  s \in Seq(Nat) /\ Len(s) = Len(name) + 3 /\ Begins(s, name, c)
BY DEF stream_data_prefix, delimiter, Begins

LEMMA EndIs ==
  ASSUME NEW name \in Names
  PROVE  /\ EndDataStorageKey(name) \in Seq(Nat)
         /\ Len(EndDataStorageKey(name)) = Len(name) + 3
         /\ Begins(EndDataStorageKey(name), name, 59)
<1>1. name \in Seq(Nat)
  BY NamesAre
<1>2. delimiter + 1 = 59
  BY DEF delimiter
<1>3. EndDataStorageKey(name) = stream_data_prefix \o <<delimiter>> \o name \o <<59>>
  BY <1>2 DEF EndDataStorageKey
<1>4. 59 \in Nat
  OBVIOUS
<1> QED
  BY <1>1, <1>3, <1>4, PrefixIs, Zenon

\* The keys go on with the two numbers.
Continues(s, l, k) ==
  LET p == PackToString(k.primary, PrimarySize)
      q == PackToString(k.secondary, SecondarySize)
  IN /\ \A i \in 1 .. PrimarySize : s[l + i] = p[i]
     /\ \A i \in 1 .. SecondarySize : s[l + PrimarySize + i] = q[i]
     /\ SubSeq(s, l + 1, l + PrimarySize) = p
     /\ SubSeq(s, l + PrimarySize + 1, Len(s)) = q

LEMMA ComposedIs ==
  ASSUME NEW name \in Names, NEW k \in Key
  PROVE  /\ ComposeStorageKey(name, k) \in Seq(Nat)
         /\ Len(ComposeStorageKey(name, k)) = Len(name) + 3 + PrimarySize + SecondarySize
         /\ Begins(ComposeStorageKey(name, k), name, 58)
         /\ Continues(ComposeStorageKey(name, k), Len(name) + 3, k)
         /\ Len(GetStreamDataPrefix(name)) = Len(name) + 3
<1> DEFINE s == ComposeStorageKey(name, k)
           l == Len(name) + 3
           d == GetStreamDataPrefix(name)
           p == PackToString(k.primary, PrimarySize)
           q == PackToString(k.secondary, SecondarySize)
<1>1. name \in Seq(Nat) /\ Len(name) \in Nat
  BY NamesAre
<1>2. d \in Seq(Nat) /\ Len(d) = l /\ Begins(d, name, 58)
  <2>1. d = stream_data_prefix \o <<delimiter>> \o name \o <<58>>
    BY DEF GetStreamDataPrefix, delimiter
  <2>2. 58 \in Nat
    OBVIOUS
  <2> QED
    BY <1>1, <2>1, <2>2, PrefixIs, Zenon
<1>3. p \in Seq(Nat) /\ Len(p) = PrimarySize /\ PrimarySize \in Nat
  <2>1. p \in Seq(48 .. 57) /\ Len(p) = PrimarySize /\ PrimarySize \in Nat
    BY KeysFit, PackIs
  <2> QED
    BY <2>1
<1>4. q \in Seq(Nat) /\ Len(q) = SecondarySize /\ SecondarySize \in Nat
  <2>1. q \in Seq(48 .. 57) /\ Len(q) = SecondarySize /\ SecondarySize \in Nat
    BY KeysFit, PackIs
  <2> QED
    BY <2>1
<1>5. s = d \o p \o q
  BY DEF ComposeStorageKey
<1> HIDE DEF s, d, p, q
<1>6. /\ s \in Seq(Nat) /\ Len(s) = Len(d) + Len(p) + Len(q)
      /\ \A i \in 1 .. Len(d) : s[i] = d[i]
      /\ \A i \in 1 .. Len(p) : s[Len(d) + i] = p[i]
      /\ \A i \in 1 .. Len(q) : s[Len(d) + Len(p) + i] = q[i]
      /\ SubSeq(s, Len(d) + 1, Len(d) + Len(p)) = p
      /\ SubSeq(s, Len(d) + Len(p) + 1, Len(s)) = q
  <2>1. Joins(d \o p \o q, d, p, q)
    BY <1>2, <1>3, <1>4, Concatenated
  <2>2. Joins(s, d, p, q)
    BY <1>5, <2>1
  <2> QED
    BY <2>2, Zenon DEF Joins
<1>7. Begins(s, name, 58)
  <2>1. \A i \in 1 .. Len(name) : i + 2 \in 1 .. l
    BY <1>1
  <2>2. 1 \in 1 .. l /\ 2 \in 1 .. l /\ l \in 1 .. l /\ Len(s) >= l
    BY <1>1, <1>2, <1>3, <1>4, <1>6
  <2> QED
    BY <1>2, <1>6, <2>1, <2>2 DEF Begins
<1>8. Continues(s, l, k)
  <2> HIDE DEF l
  <2> QED
    BY <1>2, <1>3, <1>4, <1>6, Zenon DEF Continues, p, q
<1> QED
  BY <1>2, <1>3, <1>4, <1>6, <1>7, <1>8, Zenon DEF s, d
-----------------------------------------------------------------------------
(***************************************************************************)
(* Where the strings of the schema differ.                                 *)
(***************************************************************************)

\* The entries of one stream are ordered as their keys.
LEMMA EntriesOrdered ==
  ASSUME NEW name \in Names, NEW j \in Key, NEW k \in Key
  PROVE  Before(ComposeStorageKey(name, j), ComposeStorageKey(name, k)) <=> j \prec k
<1> DEFINE s == ComposeStorageKey(name, j)
           t == ComposeStorageKey(name, k)
           l == Len(name) + 3
           pj == PackToString(j.primary, PrimarySize)
           pk == PackToString(k.primary, PrimarySize)
           qj == PackToString(j.secondary, SecondarySize)
           qk == PackToString(k.secondary, SecondarySize)
<1>1. /\ PrimarySize \in Nat /\ SecondarySize \in Nat /\ l \in Nat
      /\ j.primary \in Nat /\ k.primary \in Nat /\ j.secondary \in Nat /\ k.secondary \in Nat
  BY NamesAre, KeysFit
<1>2. /\ s \in Seq(Nat) /\ Len(s) = l + PrimarySize + SecondarySize
      /\ t \in Seq(Nat) /\ Len(t) = l + PrimarySize + SecondarySize
      /\ Begins(s, name, 58) /\ Begins(t, name, 58)
      /\ \A i \in 1 .. PrimarySize : s[l + i] = pj[i] /\ t[l + i] = pk[i]
      /\ \A i \in 1 .. SecondarySize :
           s[l + PrimarySize + i] = qj[i] /\ t[l + PrimarySize + i] = qk[i]
  <2> HIDE DEF s, t, l, pj, pk, qj, qk
  <2>1. Continues(s, l, j) /\ Continues(t, l, k)
    BY ComposedIs DEF s, t, l
  <2>2. /\ \A i \in 1 .. PrimarySize : s[l + i] = pj[i] /\ t[l + i] = pk[i]
        /\ \A i \in 1 .. SecondarySize :
             s[l + PrimarySize + i] = qj[i] /\ t[l + PrimarySize + i] = qk[i]
    BY <2>1, Zenon DEF Continues, pj, pk, qj, qk
  <2> QED
    BY <2>2, ComposedIs DEF s, t, l
<1>3. \A i \in 1 .. l : s[i] = t[i]
  <2> SUFFICES ASSUME NEW i \in 1 .. l PROVE s[i] = t[i]
    OBVIOUS
  <2> HIDE DEF s, t
  <2>1. i = 1 \/ i = 2 \/ i = l \/ i \in 3 .. Len(name) + 2
    BY <1>1, NamesAre
  <2>2. \A n \in 3 .. Len(name) + 2 : s[n] = t[n]
    <3>1. name \in Seq(Nat)
      BY NamesAre
    <3>2. \A n \in 3 .. Len(name) + 2 : s[n] = name[n - 2]
      BY <1>2, <3>1, BeginsWithName, Zenon
    <3>3. \A n \in 3 .. Len(name) + 2 : t[n] = name[n - 2]
      BY <1>2, <3>1, BeginsWithName, Zenon
    <3> QED
      BY <3>2, <3>3
  <2> QED
    BY <1>2, <2>1, <2>2 DEF Begins
<1> HIDE DEF s, t, l
<1>4. CASE j.primary # k.primary
  <2>1. PICK i \in 1 .. PrimarySize : DifferAt(pj, pk, i) /\ (pj[i] < pk[i] <=> j.primary < k.primary)
    BY <1>4, KeysFit, PackOrdered
  <2> HIDE DEF pj, pk, qj, qk
  <2>2. DifferAt(s, t, l + i)
    <3>1. /\ l + i \in 1 .. Len(s) /\ l + i \in 1 .. Len(t)
          /\ s[l + i] # t[l + i]
      BY <1>1, <1>2, <2>1 DEF DifferAt
    <3>2. ASSUME NEW n \in 1 .. (l + i) - 1 PROVE s[n] = t[n]
      <4>1. CASE n <= l
        BY <1>1, <1>3, <4>1
      <4>2. CASE n > l
        <5>1. n - l \in 1 .. i - 1 /\ n - l \in 1 .. PrimarySize /\ l + (n - l) = n
          BY <1>1, <4>2
        <5>2. pj[n - l] = pk[n - l]
          BY <2>1, <5>1 DEF DifferAt
        <5> QED
          BY <1>2, <5>1, <5>2
      <4> QED
        BY <1>1, <4>1, <4>2
    <3> QED
      BY <3>1, <3>2, Zenon DEF DifferAt
  <2>3. Before(s, t) <=> j.primary < k.primary
    <3>1. Before(s, t) <=> s[l + i] < t[l + i]
      BY <1>2, <2>2, BeforeWhereDiffering
    <3>2. s[l + i] = pj[i] /\ t[l + i] = pk[i]
      BY <1>2
    <3> QED
      BY <2>1, <3>1, <3>2
  <2>4. j.primary < k.primary <=> j \prec k
    BY <1>4 DEF \prec
  <2> QED
    BY <2>3, <2>4 DEF s, t
<1>5. CASE j.primary = k.primary /\ j.secondary # k.secondary
  <2>1. PICK i \in 1 .. SecondarySize :
          DifferAt(qj, qk, i) /\ (qj[i] < qk[i] <=> j.secondary < k.secondary)
    BY <1>5, KeysFit, PackOrdered
  <2>2. pj = pk
    BY <1>5
  <2> HIDE DEF pj, pk, qj, qk
  <2> DEFINE m == l + PrimarySize
  <2>3. DifferAt(s, t, m + i)
    <3>1. /\ m + i \in 1 .. Len(s) /\ m + i \in 1 .. Len(t)
          /\ s[m + i] # t[m + i]
      BY <1>1, <1>2, <2>1 DEF DifferAt
    <3>2. ASSUME NEW n \in 1 .. (m + i) - 1 PROVE s[n] = t[n]
      <4>1. CASE n <= l
        BY <1>1, <1>3, <4>1
      <4>2. CASE n > l /\ n <= m
        <5>1. n - l \in 1 .. PrimarySize /\ l + (n - l) = n
          BY <1>1, <4>2
        <5> QED
          BY <1>2, <2>2, <5>1
      <4>3. CASE n > m
        <5>1. n - m \in 1 .. i - 1 /\ n - m \in 1 .. SecondarySize /\ m + (n - m) = n
          BY <1>1, <4>3
        <5>2. qj[n - m] = qk[n - m]
          BY <2>1, <5>1 DEF DifferAt
        <5> QED
          BY <1>2, <5>1, <5>2
      <4> QED
        BY <1>1, <4>1, <4>2, <4>3
    <3> QED
      BY <3>1, <3>2, Zenon DEF DifferAt
  <2>4. Before(s, t) <=> j.secondary < k.secondary
    <3>1. Before(s, t) <=> s[m + i] < t[m + i]
      BY <1>2, <2>3, BeforeWhereDiffering
    <3>2. s[m + i] = qj[i] /\ t[m + i] = qk[i]
      BY <1>2
    <3> QED
      BY <2>1, <3>1, <3>2
  <2>5. j.secondary < k.secondary <=> j \prec k
    BY <1>1, <1>5 DEF \prec
  <2> QED
    BY <2>4, <2>5 DEF s, t
<1>6. CASE j.primary = k.primary /\ j.secondary = k.secondary
  <2>1. j = k
    BY <1>6 DEF Key
  <2>2. ~(j \prec k)
    BY <1>1, <1>6 DEF \prec
  <2>3. ~Before(s, t)
    BY <1>2, <2>1, BeforeIsStrict DEF s, t
  <2> QED
    BY <2>2, <2>3 DEF s, t
<1> QED
  BY <1>4, <1>5, <1>6

\* and precede the end of the stream's data.
LEMMA EntriesBeforeEnd ==
  ASSUME NEW name \in Names, NEW k \in Key
  PROVE  Before(ComposeStorageKey(name, k), EndDataStorageKey(name))
<1> DEFINE s == ComposeStorageKey(name, k)
           t == EndDataStorageKey(name)
           l == Len(name) + 3
<1>1. Len(name) \in Nat /\ PrimarySize \in Nat /\ SecondarySize \in Nat
  BY NamesAre, KeysFit
<1>2. /\ s \in Seq(Nat) /\ Len(s) = l + PrimarySize + SecondarySize
      /\ t \in Seq(Nat) /\ Len(t) = l
      /\ Begins(s, name, 58) /\ Begins(t, name, 59)
  BY ComposedIs, EndIs
<1> HIDE DEF s, t
<1>3. ASSUME NEW i \in 1 .. l - 1 PROVE s[i] = t[i]
  <2>1. i = 1 \/ i = 2 \/ i \in 3 .. Len(name) + 2
    BY <1>1
  <2>2. \A n \in 3 .. Len(name) + 2 : s[n] = t[n]
    <3>1. name \in Seq(Nat)
      BY NamesAre
    <3>2. \A n \in 3 .. Len(name) + 2 : s[n] = name[n - 2]
      BY <1>2, <3>1, BeginsWithName, Zenon
    <3>3. \A n \in 3 .. Len(name) + 2 : t[n] = name[n - 2]
      BY <1>2, <3>1, BeginsWithName, Zenon
    <3> QED
      BY <3>2, <3>3
  <2> QED
    BY <1>2, <2>1, <2>2 DEF Begins
<1>4. DifferAt(s, t, l)
  BY <1>1, <1>2, <1>3 DEF DifferAt, Begins
<1>5. Before(s, t) <=> s[l] < t[l]
  BY <1>2, <1>4, BeforeWhereDiffering
<1> QED
  BY <1>2, <1>5 DEF Begins, s, t

\* An entry of another stream is before all keys of this one and the end of its
\* data, or before none: the character that ends a name is in no name, nor is the
\* next one.
LEMMA OthersApart ==
  ASSUME NEW name \in Names, NEW other \in Names, other # name,
         NEW j \in Key, NEW k \in Key
  PROVE  Before(ComposeStorageKey(other, j), ComposeStorageKey(name, k))
           <=> Before(ComposeStorageKey(other, j), EndDataStorageKey(name))
<1> DEFINE u == ComposeStorageKey(other, j)
           s == ComposeStorageKey(name, k)
           t == EndDataStorageKey(name)
           D == {i \in Nat \ {0} : i > Len(name) \/ i > Len(other) \/ name[i] # other[i]}
<1>1. /\ name \in Seq(Nat) /\ Len(name) \in Nat /\ other \in Seq(Nat) /\ Len(other) \in Nat
      /\ \A i \in 1 .. Len(name) : name[i] \in Nat /\ name[i] # 58 /\ name[i] # 59
      /\ \A i \in 1 .. Len(other) : other[i] \in Nat /\ other[i] # 58 /\ other[i] # 59
  BY NamesAre
<1>2. /\ u \in Seq(Nat) /\ Begins(u, other, 58)
      /\ s \in Seq(Nat) /\ Begins(s, name, 58)
      /\ t \in Seq(Nat) /\ Begins(t, name, 59)
  BY ComposedIs, EndIs
<1>3. PICK d \in D : \A i \in D : d <= i
  <2>1. Len(name) + 1 \in D
    BY <1>1
  <2> QED
    BY <2>1, LeastOf
<1>4. /\ d \in Nat \ {0} /\ d <= Len(name) + 1 /\ d <= Len(other) + 1
      /\ d > Len(name) \/ d > Len(other) \/ name[d] # other[d]
  <2>1. Len(name) + 1 \in D /\ Len(other) + 1 \in D
    BY <1>1
  <2> QED
    BY <1>3, <2>1
<1>5. \A i \in 1 .. d - 1 : i <= Len(name) /\ i <= Len(other) /\ name[i] = other[i]
  <2> SUFFICES ASSUME NEW i \in 1 .. d - 1
               PROVE  i <= Len(name) /\ i <= Len(other) /\ name[i] = other[i]
    OBVIOUS
  <2>1. i \in Nat \ {0} /\ ~(d <= i)
    BY <1>4
  <2>2. i \notin D
    BY <1>3, <2>1
  <2> QED
    BY <1>1, <2>1, <2>2
<1>6. d <= Len(name) \/ d <= Len(other)
  <2> SUFFICES ASSUME d > Len(name), d > Len(other) PROVE FALSE
    BY <1>1, <1>4
  <2>1. Len(name) = d - 1 /\ Len(other) = d - 1
    BY <1>1, <1>4
  <2>2. \A i \in 1 .. Len(name) : name[i] = other[i]
    BY <1>5, <2>1
  <2>3. name = other
    BY <1>1, <2>1, <2>2
  <2> QED
    BY <2>3
<1> HIDE DEF u, s, t, D
<1>7. /\ u[d + 2] = IF d <= Len(other) THEN other[d] ELSE 58
      /\ s[d + 2] = IF d <= Len(name) THEN name[d] ELSE 58
      /\ t[d + 2] = IF d <= Len(name) THEN name[d] ELSE 59
  <2>1. ASSUME d <= Len(other) PROVE u[d + 2] = other[d]
    <3>1. d \in 1 .. Len(other)
      BY <1>1, <1>4, <2>1
    <3> QED
      BY <1>2, <3>1, Zenon DEF Begins
  <2>2. ASSUME d <= Len(name) PROVE s[d + 2] = name[d] /\ t[d + 2] = name[d]
    <3>1. d \in 1 .. Len(name)
      BY <1>1, <1>4, <2>2
    <3> QED
      BY <1>2, <3>1, Zenon DEF Begins
  <2>3. ASSUME ~(d <= Len(other)) PROVE u[d + 2] = 58
    <3>1. d + 2 = Len(other) + 3
      BY <1>1, <1>4, <2>3
    <3> QED
      BY <1>2, <3>1 DEF Begins
  <2>4. ASSUME ~(d <= Len(name)) PROVE s[d + 2] = 58 /\ t[d + 2] = 59
    <3>1. d + 2 = Len(name) + 3
      BY <1>1, <1>4, <2>4
    <3> QED
      BY <1>2, <3>1 DEF Begins
  <2>5. u[d + 2] = IF d <= Len(other) THEN other[d] ELSE 58
    BY <2>1, <2>3
  <2>6. /\ s[d + 2] = IF d <= Len(name) THEN name[d] ELSE 58
        /\ t[d + 2] = IF d <= Len(name) THEN name[d] ELSE 59
    BY <2>2, <2>4
  <2> QED
    BY <2>5, <2>6
<1>8. /\ u[d + 2] # s[d + 2] /\ u[d + 2] # t[d + 2]
      /\ u[d + 2] < s[d + 2] <=> u[d + 2] < t[d + 2]
  <2>1. d \in 1 .. Len(name) \/ ~(d <= Len(name))
    BY <1>1, <1>4
  <2>2. d \in 1 .. Len(other) \/ ~(d <= Len(other))
    BY <1>1, <1>4
  <2>3. CASE d \in 1 .. Len(name) /\ d \in 1 .. Len(other)
    BY <1>1, <1>4, <1>7, <2>3
  <2>4. CASE d \in 1 .. Len(name) /\ ~(d <= Len(other))
    BY <1>1, <1>7, <2>4
  <2>5. CASE ~(d <= Len(name)) /\ d \in 1 .. Len(other)
    <3>1. u[d + 2] = other[d] /\ s[d + 2] = 58 /\ t[d + 2] = 59
      BY <1>1, <1>7, <2>5
    <3>2. other[d] \in Nat /\ other[d] # 58 /\ other[d] # 59
      BY <1>1, <2>5
    <3> QED
      BY <3>1, <3>2
  <2> QED
    BY <1>6, <2>1, <2>2, <2>3, <2>4, <2>5
<1>9. ASSUME NEW i \in 1 .. (d + 2) - 1 PROVE u[i] = s[i] /\ u[i] = t[i]
  <2>1. i = 1 \/ i = 2 \/ i \in 3 .. d + 1
    BY <1>4
  <2>2. CASE i = 1 \/ i = 2
    <3>1. u[1] = 100 /\ s[1] = 100 /\ t[1] = 100 /\ u[2] = 58 /\ s[2] = 58 /\ t[2] = 58
      BY <1>2, Zenon DEF Begins
    <3> QED
      BY <2>2, <3>1
  <2>3. CASE i \in 3 .. d + 1
    <3>1. i - 2 \in 1 .. d - 1
      BY <1>4, <2>3
    <3>2. /\ i - 2 <= Len(name) /\ i - 2 <= Len(other)
          /\ name[i - 2] = other[i - 2]
      BY <1>5, <3>1
    <3>3. i \in 3 .. Len(name) + 2 /\ i \in 3 .. Len(other) + 2
      BY <1>1, <2>3, <3>2
    <3>4. u[i] = other[i - 2]
      BY <1>1, <1>2, <3>3, BeginsWithName
    <3>5. s[i] = name[i - 2]
      BY <1>1, <1>2, <3>3, BeginsWithName
    <3>6. t[i] = name[i - 2]
      BY <1>1, <1>2, <3>3, BeginsWithName
    <3> QED
      BY <3>2, <3>4, <3>5, <3>6
  <2> QED
    BY <2>1, <2>2, <2>3
<1>10. /\ d + 2 \in 1 .. Len(u) /\ d + 2 \in 1 .. Len(s) /\ d + 2 \in 1 .. Len(t)
  <2>1. Len(u) \in Nat /\ Len(s) \in Nat /\ Len(t) \in Nat
    BY <1>2
  <2>2. Len(u) >= Len(other) + 3 /\ Len(s) >= Len(name) + 3 /\ Len(t) >= Len(name) + 3
    BY <1>2 DEF Begins
  <2> QED
    BY <1>1, <1>4, <2>1, <2>2
<1>11. DifferAt(u, s, d + 2)
  BY <1>8, <1>9, <1>10, Zenon DEF DifferAt
<1>12. DifferAt(u, t, d + 2)
  BY <1>8, <1>9, <1>10, Zenon DEF DifferAt
<1>13. Before(u, s) <=> u[d + 2] < s[d + 2]
  BY <1>2, <1>11, BeforeWhereDiffering
<1>14. Before(u, t) <=> u[d + 2] < t[d + 2]
  BY <1>2, <1>12, BeforeWhereDiffering
<1> QED
  BY <1>8, <1>13, <1>14 DEF u, s, t

LEMMA HeadKeyIs ==
  ASSUME NEW name \in Names
  PROVE  /\ HeadStorageKey(name) \in Seq(Nat) /\ Len(HeadStorageKey(name)) = Len(name) + 2
         /\ HeadStorageKey(name)[1] = 115
         /\ \A i \in 1 .. Len(name) : HeadStorageKey(name)[i + 2] = name[i]
<1>1. name \in Seq(Nat)
  BY NamesAre
<1> QED
  BY <1>1 DEF HeadStorageKey, stream_meta_prefix, delimiter

\* The heads of two streams are stored under two keys,
LEMMA HeadKeysDiffer ==
  ASSUME NEW name \in Names, NEW other \in Names,
         HeadStorageKey(name) = HeadStorageKey(other)
  PROVE  name = other
<1>1. name \in Seq(Nat) /\ other \in Seq(Nat) /\ Len(name) \in Nat /\ Len(other) \in Nat
  BY NamesAre
<1>2. Len(name) = Len(other)
  <2>1. Len(name) + 2 = Len(other) + 2
    BY HeadKeyIs
  <2> QED
    BY <1>1, <2>1
<1>3. ASSUME NEW i \in 1 .. Len(name) PROVE name[i] = other[i]
  <2>1. HeadStorageKey(name)[i + 2] = name[i]
    BY HeadKeyIs
  <2>2. HeadStorageKey(other)[i + 2] = other[i]
    BY <1>2, HeadKeyIs
  <2> QED
    BY <2>1, <2>2
<1> QED
  BY <1>1, <1>2, <1>3

\* where no entry is, nor any listener looks.
LEMMA HeadKeysApart ==
  ASSUME NEW name \in Names, NEW other \in Names
  PROVE  /\ ~Before(HeadStorageKey(other), EndDataStorageKey(name))
         /\ \A k \in Key : HeadStorageKey(other) # ComposeStorageKey(name, k)
<1> DEFINE s == HeadStorageKey(other)
           t == EndDataStorageKey(name)
<1>1. /\ s \in Seq(Nat) /\ Len(s) = Len(other) + 2 /\ s[1] = 115
      /\ t \in Seq(Nat) /\ Len(t) = Len(name) + 3 /\ t[1] = 100
      /\ Len(other) \in Nat /\ Len(name) \in Nat
  <2>1. s \in Seq(Nat) /\ Len(s) = Len(other) + 2 /\ s[1] = 115
    BY HeadKeyIs
  <2>2. t \in Seq(Nat) /\ Len(t) = Len(name) + 3 /\ t[1] = 100
    BY EndIs DEF Begins
  <2>3. Len(other) \in Nat /\ Len(name) \in Nat
    BY NamesAre
  <2> QED
    BY <2>1, <2>2, <2>3
<1> HIDE DEF s, t
<1>2. DifferAt(s, t, 1)
  BY <1>1 DEF DifferAt
<1>3. ~Before(s, t)
  BY <1>1, <1>2, BeforeWhereDiffering
<1>4. \A k \in Key : ComposeStorageKey(name, k)[1] = 100
  BY ComposedIs DEF Begins
<1> QED
  BY <1>1, <1>3, <1>4 DEF s, t

\* No two entries, of one stream or of two, are stored under one key.
LEMMA EntryKeysDiffer ==
  ASSUME NEW name \in Names, NEW other \in Names, NEW j \in Key, NEW k \in Key,
         ComposeStorageKey(other, j) = ComposeStorageKey(name, k)
  PROVE  other = name /\ j = k
<1>1. ~Before(ComposeStorageKey(name, k), ComposeStorageKey(name, k))
  BY ComposedIs, BeforeIsStrict
<1>2. other = name
  BY <1>1, EntriesBeforeEnd, OthersApart
<1>3. ~(j \prec k) /\ ~(k \prec j)
  BY <1>1, <1>2, EntriesOrdered
<1>4. /\ j.primary \in Nat /\ k.primary \in Nat /\ j.secondary \in Nat /\ k.secondary \in Nat
  BY KeysFit
<1>5. j.primary = k.primary /\ j.secondary = k.secondary
  BY <1>3, <1>4 DEF \prec
<1> QED
  BY <1>2, <1>5 DEF Key

\* A key is read back from what it was composed into.
LEMMA DecomposeComposed ==
  ASSUME NEW name \in Names, NEW k \in Key
  PROVE  /\ WellFormed(name, ComposeStorageKey(name, k))
         /\ DecomposeStorageKey(name, ComposeStorageKey(name, k)) = k
<1> DEFINE s == ComposeStorageKey(name, k)
           from == Len(GetStreamDataPrefix(name))
<1>1. /\ Len(s) = from + PrimarySize + SecondarySize
      /\ Continues(s, from, k)
  BY ComposedIs
<1> HIDE DEF s, from
<1>2. /\ SubSeq(s, from + 1, from + PrimarySize) = PackToString(k.primary, PrimarySize)
      /\ SubSeq(s, from + PrimarySize + 1, Len(s)) = PackToString(k.secondary, SecondarySize)
  BY <1>1, Zenon DEF Continues
<1>3. /\ UnpackFromString(PackToString(k.primary, PrimarySize)) = k.primary
      /\ UnpackFromString(PackToString(k.secondary, SecondarySize)) = k.secondary
  BY KeysFit, UnpackPacked
<1>4. DecomposeStorageKey(name, s) = [primary |-> k.primary, secondary |-> k.secondary]
  BY <1>2, <1>3 DEF DecomposeStorageKey, from
<1>5. k = [primary |-> k.primary, secondary |-> k.secondary]
  BY DEF Key
<1> QED
  BY <1>1, <1>4, <1>5 DEF WellFormed, s, from
-----------------------------------------------------------------------------
(***************************************************************************)
(* The inductive invariant.                                                *)
(***************************************************************************)
LEMMA NewHeadIsAKey ==
  ASSUME NEW h \in Key, NEW p \in Primary
  PROVE  NewHead(h, p) \in Key
BY OrderKeyAssumption DEF NewHead, IncrementSecondary, Key, Primary, Secondary

LEMMA PutIs ==
  ASSUME NEW map, NEW k, NEW v
  PROVE  /\ DOMAIN Put(map, k, v) = DOMAIN map \union {k}
         /\ Put(map, k, v)[k] = v
         /\ \A x \in DOMAIN map : x # k => Put(map, k, v)[x] = map[x]
BY DEF Put

LEMMA SchemaInit == SInit => SchemaInv
<1> SUFFICES ASSUME SInit PROVE SchemaInv
  OBVIOUS
<1>1. DOMAIN heads = {} /\ DOMAIN storage = {} /\ heads \in [{} -> Key]
  BY DEF SInit, Nothing
<1>2. entries \in [Names -> SUBSET Key] /\ Entries = {}
  BY DEF SInit, Entries
<1>3. EntriesHaveStream
  BY DEF SInit, EntriesHaveStream
<1> QED
  BY <1>1, <1>2, <1>3 DEF SchemaInv, SchemaTypeOK, StoredIsWritten

\* A head that is put in memory stays typed, as do the others.
LEMMA HeadPut ==
  ASSUME SchemaInv, NEW name \in Names, NEW head \in Key, heads' = Put(heads, name, head)
  PROVE  /\ DOMAIN heads' = DOMAIN heads \union {name}
         /\ DOMAIN heads' \subseteq Names /\ heads' \in [DOMAIN heads' -> Key]
         /\ heads'[name] = head
         /\ \A other \in DOMAIN heads : other # name => heads'[other] = heads[other]
<1>1. DOMAIN heads \subseteq Names /\ heads \in [DOMAIN heads -> Key]
  BY DEF SchemaInv, SchemaTypeOK
<1>2. heads' = [x \in DOMAIN heads \union {name} |-> IF x = name THEN head ELSE heads[x]]
  BY DEF Put
<1> QED
  BY <1>1, <1>2

\* A stream is created, or its head moved, in both places.
LEMMA HeadStored ==
  ASSUME SchemaInv, NEW name \in Names, NEW head \in Key,
         heads' = Put(heads, name, head),
         storage' = Put(storage, HeadStorageKey(name), ComposeStorageKey(name, head)),
         entries' = entries
  PROVE  SchemaInv'
<1>1. /\ DOMAIN heads' = DOMAIN heads \union {name}
      /\ DOMAIN heads' \subseteq Names /\ heads' \in [DOMAIN heads' -> Key]
      /\ heads'[name] = head
      /\ \A other \in DOMAIN heads : other # name => heads'[other] = heads[other]
  BY HeadPut
<1>2. Entries' = Entries
  BY DEF Entries
<1>3. /\ DOMAIN storage' = DOMAIN storage \union {HeadStorageKey(name)}
      /\ storage'[HeadStorageKey(name)] = ComposeStorageKey(name, head)
      /\ \A x \in DOMAIN storage : x # HeadStorageKey(name) => storage'[x] = storage[x]
  <2> DEFINE at == HeadStorageKey(name)
             value == ComposeStorageKey(name, head)
  <2>1. storage' = Put(storage, at, value)
    OBVIOUS
  <2> HIDE DEF at, value
  <2>2. /\ DOMAIN storage' = DOMAIN storage \union {at}
        /\ storage'[at] = value
        /\ \A x \in DOMAIN storage : x # at => storage'[x] = storage[x]
    BY <2>1, PutIs
  <2> QED
    BY <2>2 DEF at, value
<1>4. DOMAIN storage = {HeadStorageKey(n) : n \in DOMAIN heads}
                         \union {ComposeStorageKey(e[1], e[2]) : e \in Entries}
  BY DEF SchemaInv, StoredIsWritten
<1>5. DOMAIN storage' = {HeadStorageKey(n) : n \in DOMAIN heads'}
                          \union {ComposeStorageKey(e[1], e[2]) : e \in Entries'}
  BY <1>1, <1>2, <1>3, <1>4
<1>6. ASSUME NEW n \in DOMAIN heads'
      PROVE  storage'[HeadStorageKey(n)] = ComposeStorageKey(n, heads'[n])
  <2>1. CASE n = name
    BY <1>1, <1>3, <2>1
  <2>2. CASE n # name
    <3>1. n \in DOMAIN heads /\ n \in Names /\ HeadStorageKey(n) \in DOMAIN storage
      BY <1>1, <1>4, <2>2
    <3>2. HeadStorageKey(n) # HeadStorageKey(name)
      BY <2>2, <3>1, HeadKeysDiffer
    <3>3. storage'[HeadStorageKey(n)] = storage[HeadStorageKey(n)]
      BY <1>3, <3>1, <3>2
    <3>4. storage[HeadStorageKey(n)] = ComposeStorageKey(n, heads[n])
      BY <3>1 DEF SchemaInv, StoredIsWritten
    <3> QED
      BY <1>1, <2>2, <3>1, <3>3, <3>4
  <2> QED
    BY <2>1, <2>2
<1>7. SchemaTypeOK'
  BY <1>1 DEF SchemaInv, SchemaTypeOK
<1>8. EntriesHaveStream'
  BY <1>1 DEF SchemaInv, EntriesHaveStream
<1> QED
  BY <1>5, <1>6, <1>7, <1>8 DEF SchemaInv, StoredIsWritten

\* An entry is pushed.
LEMMA EntryStored ==
  ASSUME SchemaInv, NEW name \in Names, NEW head \in Key,
         heads' = Put(heads, name, head),
         storage' = Put(Put(storage, ComposeStorageKey(name, head), EntryValue),
                        HeadStorageKey(name), ComposeStorageKey(name, head)),
         entries' = [entries EXCEPT ![name] = @ \union {head}]
  PROVE  SchemaInv'
<1> DEFINE key == ComposeStorageKey(name, head)
           map == Put(storage, key, EntryValue)
<1>1. /\ DOMAIN heads' = DOMAIN heads \union {name}
      /\ DOMAIN heads' \subseteq Names /\ heads' \in [DOMAIN heads' -> Key]
      /\ heads'[name] = head
      /\ \A other \in DOMAIN heads : other # name => heads'[other] = heads[other]
  BY HeadPut
<1>2. entries \in [Names -> SUBSET Key]
  BY DEF SchemaInv, SchemaTypeOK
<1>3. Entries' = Entries \union {<<name, head>>}
  <2>1. \A n \in Names : entries'[n] = IF n = name THEN entries[n] \union {head} ELSE entries[n]
    BY <1>2
  <2>2. ASSUME NEW e \in Names \X Key
        PROVE  e[2] \in entries'[e[1]] <=> e[2] \in entries[e[1]] \/ e = <<name, head>>
    BY <2>1
  <2>3. <<name, head>> \in Names \X Key
    OBVIOUS
  <2> QED
    BY <2>2, <2>3 DEF Entries
<1>4. DOMAIN storage = {HeadStorageKey(n) : n \in DOMAIN heads}
                         \union {ComposeStorageKey(e[1], e[2]) : e \in Entries}
  BY DEF SchemaInv, StoredIsWritten
<1>5. /\ DOMAIN map = DOMAIN storage \union {key}
      /\ \A x \in DOMAIN storage : x # key => map[x] = storage[x]
  <2> HIDE DEF key
  <2>1. map = [x \in DOMAIN storage \union {key} |->
                 IF x = key THEN EntryValue ELSE storage[x]]
    BY Zenon DEF Put
  <2> HIDE DEF map
  <2> QED
    BY <2>1
<1>6. storage' = Put(map, HeadStorageKey(name), key)
  OBVIOUS
<1> HIDE DEF map
<1>7. /\ DOMAIN storage' = DOMAIN map \union {HeadStorageKey(name)}
      /\ storage'[HeadStorageKey(name)] = key
      /\ \A x \in DOMAIN map : x # HeadStorageKey(name) => storage'[x] = map[x]
  BY <1>6, PutIs
<1>8. DOMAIN storage' = {HeadStorageKey(n) : n \in DOMAIN heads'}
                          \union {ComposeStorageKey(e[1], e[2]) : e \in Entries'}
  <2>1. {HeadStorageKey(n) : n \in DOMAIN heads'}
          = {HeadStorageKey(n) : n \in DOMAIN heads} \union {HeadStorageKey(name)}
    BY <1>1
  <2>2. {ComposeStorageKey(e[1], e[2]) : e \in Entries'}
          = {ComposeStorageKey(e[1], e[2]) : e \in Entries} \union {key}
    <3> DEFINE Written(e) == ComposeStorageKey(e[1], e[2])
    <3>1. key = Written(<<name, head>>)
      OBVIOUS
    <3>2. {Written(e) : e \in Entries'} = {Written(e) : e \in Entries} \union {key}
      <4> HIDE DEF Written, key
      <4> QED
        BY <1>3, <3>1
    <3> QED
      BY <3>2
  <2> QED
    BY <1>4, <1>5, <1>7, <2>1, <2>2
<1>9. ASSUME NEW n \in DOMAIN heads'
      PROVE  storage'[HeadStorageKey(n)] = ComposeStorageKey(n, heads'[n])
  <2>1. CASE n = name
    BY <1>1, <1>7, <2>1
  <2>2. CASE n # name
    <3>1. n \in DOMAIN heads /\ n \in Names /\ HeadStorageKey(n) \in DOMAIN storage
      BY <1>1, <1>4, <2>2
    <3>2. HeadStorageKey(n) # HeadStorageKey(name) /\ HeadStorageKey(n) # key
      BY <2>2, <3>1, HeadKeysDiffer, HeadKeysApart
    <3>3. storage'[HeadStorageKey(n)] = storage[HeadStorageKey(n)]
      BY <1>5, <1>7, <3>1, <3>2
    <3>4. storage[HeadStorageKey(n)] = ComposeStorageKey(n, heads[n])
      BY <3>1 DEF SchemaInv, StoredIsWritten
    <3> QED
      BY <1>1, <2>2, <3>1, <3>3, <3>4
  <2> QED
    BY <2>1, <2>2
<1>10. SchemaTypeOK'
  BY <1>1, <1>2 DEF SchemaTypeOK
<1>11. EntriesHaveStream'
  <2>1. ASSUME NEW n \in Names, entries'[n] # {} PROVE n \in DOMAIN heads'
    <3>1. n = name \/ entries'[n] = entries[n]
      BY <1>2
    <3> QED
      BY <1>1, <2>1, <3>1 DEF SchemaInv, EntriesHaveStream
  <2> QED
    BY <2>1 DEF EntriesHaveStream
<1> QED
  BY <1>8, <1>9, <1>10, <1>11 DEF SchemaInv, StoredIsWritten

\* A restart reads what was written, and so changes nothing.
LEMMA HeadsRead ==
  ASSUME SchemaInv, NEW name \in DOMAIN heads
  PROVE  /\ WellFormed(name, storage[HeadStorageKey(name)])
         /\ DecomposeStorageKey(name, storage[HeadStorageKey(name)]) = heads[name]
<1>1. name \in Names /\ heads[name] \in Key
  BY DEF SchemaInv, SchemaTypeOK
<1>2. storage[HeadStorageKey(name)] = ComposeStorageKey(name, heads[name])
  BY DEF SchemaInv, StoredIsWritten
<1> QED
  BY <1>1, <1>2, DecomposeComposed

LEMMA SchemaStep == SchemaInv /\ [SNext]_schemaVars => SchemaInv'
<1> SUFFICES ASSUME SchemaInv, [SNext]_schemaVars PROVE SchemaInv'
  OBVIOUS
<1>1. ASSUME NEW name \in Names, NEW k \in Key, CreateStream(name, k) PROVE SchemaInv'
  BY <1>1, HeadStored DEF CreateStream
<1>2. ASSUME NEW name \in Names, NEW p \in Primary, name \in DOMAIN heads
      PROVE  NewHead(heads[name], p) \in Key
  <2>1. heads[name] \in Key
    BY <1>2 DEF SchemaInv, SchemaTypeOK
  <2> QED
    BY <2>1, NewHeadIsAKey
<1>3. ASSUME NEW name \in Names, NEW p \in Primary, PushHead(name, p) PROVE SchemaInv'
  <2>1. NewHead(heads[name], p) \in Key
    BY <1>2, <1>3 DEF PushHead
  <2> QED
    BY <1>3, <2>1, HeadStored DEF PushHead
<1>4. ASSUME NEW name \in Names, NEW p \in Primary, Push(name, p) PROVE SchemaInv'
  <2>1. NewHead(heads[name], p) \in Key
    BY <1>2, <1>4 DEF Push
  <2> QED
    BY <1>4, <2>1, EntryStored DEF Push
<1>5. CASE Restart
  <2>1. heads' = [name \in DOMAIN heads |-> heads[name]]
    BY <1>5, HeadsRead DEF Restart
  <2>2. heads' = heads
    BY <2>1 DEF SchemaInv, SchemaTypeOK
  <2> QED
    BY <1>5, <2>2 DEF Restart, SchemaInv, SchemaTypeOK, StoredIsWritten, EntriesHaveStream, Entries
<1>6. CASE UNCHANGED schemaVars
  BY <1>6
  DEF schemaVars, SchemaInv, SchemaTypeOK, StoredIsWritten, EntriesHaveStream, Entries
<1> QED
  BY <1>1, <1>3, <1>4, <1>5, <1>6 DEF SNext
-----------------------------------------------------------------------------
(***************************************************************************)
(* The theorems.                                                           *)
(***************************************************************************)

\* The storage holds the heads that the streams have in memory and the entries that
\* were pushed, each under the key ConfigValues makes of it, and nothing else.
THEOREM SchemaInvariance == SSpec => []SchemaInv
BY SchemaInit, SchemaStep, PTL DEF SSpec

\* A process that restarts finds a head of the right length for every stream and
\* reads what the last one wrote: Stream::Stream never meets a
\* MalformedStorageHeadException, whatever the names, the base and the widths.
THEOREM RestartReadsHeads == SSpec => []HeadReadBack
<1>1. SchemaInv => HeadReadBack
  BY HeadsRead DEF HeadReadBack
<1> QED
  BY <1>1, SchemaInvariance, PTL

\* The storage orders the entries of a stream as their keys: the padding of
\* FixedSizeSerializer is enough for every number of the keys' types.
THEOREM StringsAreOrdered == SSpec => []StringsOrderedAsKeys
<1>1. SchemaInv => StringsOrderedAsKeys
  BY EntriesOrdered DEF SchemaInv, SchemaTypeOK, StringsOrderedAsKeys
<1> QED
  BY <1>1, SchemaInvariance, PTL

\* The iterator of a listener shows the entries of its stream from any key on and
\* nothing else, whatever streams share the storage.
THEOREM IntervalHoldsTheStream == SSpec => []IntervalIsTheStream
<1>1. ASSUME SchemaInv, NEW name \in Names, NEW k \in Key
      PROVE  Interval(ComposeStorageKey(name, k), EndDataStorageKey(name))
               = {ComposeStorageKey(name, j) : j \in {i \in entries[name] : k \preceq i}}
  <2> DEFINE s == ComposeStorageKey(name, k)
             t == EndDataStorageKey(name)
  <2>1. entries \in [Names -> SUBSET Key] /\ DOMAIN heads \subseteq Names
    BY <1>1 DEF SchemaInv, SchemaTypeOK
  <2>2. DOMAIN storage = {HeadStorageKey(n) : n \in DOMAIN heads}
                           \union {ComposeStorageKey(e[1], e[2]) : e \in Entries}
    BY <1>1 DEF SchemaInv, StoredIsWritten
  <2>3. ASSUME NEW j \in Key PROVE ~(j \prec k) <=> k \preceq j
    <3>1. /\ j.primary \in Nat /\ k.primary \in Nat /\ j.secondary \in Nat /\ k.secondary \in Nat
      BY KeysFit
    <3>2. j.primary = k.primary /\ j.secondary = k.secondary => j = k
      BY DEF Key
    <3> QED
      BY <3>1, <3>2 DEF \prec, \preceq
  <2>4. ASSUME NEW u \in DOMAIN storage, ~Before(u, s), Before(u, t)
        PROVE  \E j \in entries[name] : k \preceq j /\ u = ComposeStorageKey(name, j)
    <3>1. \A n \in DOMAIN heads : u # HeadStorageKey(n)
      BY <2>1, <2>4, HeadKeysApart
    <3>2. PICK e \in Entries : u = ComposeStorageKey(e[1], e[2])
      BY <2>2, <3>1
    <3>3. e[1] \in Names /\ e[2] \in Key /\ e[2] \in entries[e[1]]
      BY DEF Entries
    <3>4. e[1] = name
      BY <2>4, <3>2, <3>3, OthersApart
    <3>5. ~(e[2] \prec k)
      BY <2>4, <3>2, <3>3, <3>4, EntriesOrdered
    <3> QED
      BY <2>3, <3>2, <3>3, <3>4, <3>5
  <2>5. ASSUME NEW j \in entries[name], k \preceq j
        PROVE  /\ ComposeStorageKey(name, j) \in DOMAIN storage
               /\ ~Before(ComposeStorageKey(name, j), s)
               /\ Before(ComposeStorageKey(name, j), t)
    <3>1. j \in Key
      BY <2>1
    <3>2. <<name, j>> \in Entries
      BY <3>1 DEF Entries
    <3>3. ComposeStorageKey(name, j) \in DOMAIN storage
      BY <2>2, <3>2
    <3> QED
      BY <2>3, <2>5, <3>1, <3>3, EntriesOrdered, EntriesBeforeEnd
  <2> HIDE DEF s, t
  <2>6. Interval(s, t) = {ComposeStorageKey(name, j) : j \in {i \in entries[name] : k \preceq i}}
    BY <2>4, <2>5 DEF Interval
  <2> QED
    BY <2>6 DEF s, t
<1>2. SchemaInv => IntervalIsTheStream
  BY <1>1 DEF IntervalIsTheStream
<1> QED
  BY <1>2, SchemaInvariance, PTL
-----------------------------------------------------------------------------
(***************************************************************************)
(* The refinement.                                                         *)
(***************************************************************************)

\* What the storage's strings say of the streams is what memory and history say.
LEMMA FoundInStorage ==
  SchemaInv => StreamsInStorage
                 = [name \in DOMAIN heads |-> [head |-> heads[name], data |-> entries[name]]]
<1> SUFFICES ASSUME SchemaInv
             PROVE  StreamsInStorage
                      = [name \in DOMAIN heads |-> [head |-> heads[name], data |-> entries[name]]]
  OBVIOUS
<1>1. entries \in [Names -> SUBSET Key] /\ DOMAIN heads \subseteq Names
  BY DEF SchemaInv, SchemaTypeOK
<1>2. DOMAIN storage = {HeadStorageKey(n) : n \in DOMAIN heads}
                         \union {ComposeStorageKey(e[1], e[2]) : e \in Entries}
  BY DEF SchemaInv, StoredIsWritten
<1>3. \A e \in Entries : e[1] \in Names /\ e[2] \in Key /\ e[2] \in entries[e[1]]
  BY DEF Entries
<1>4. {n \in Names : HeadStorageKey(n) \in DOMAIN storage} = DOMAIN heads
  <2>1. ASSUME NEW n \in Names, HeadStorageKey(n) \in DOMAIN storage PROVE n \in DOMAIN heads
    <3>1. \A e \in Entries : HeadStorageKey(n) # ComposeStorageKey(e[1], e[2])
      BY <1>3, HeadKeysApart
    <3>2. PICK m \in DOMAIN heads : HeadStorageKey(n) = HeadStorageKey(m)
      BY <1>2, <2>1, <3>1
    <3> QED
      BY <1>1, <3>2, HeadKeysDiffer
  <2> QED
    BY <1>1, <1>2, <2>1
<1>5. ASSUME NEW name \in DOMAIN heads
      PROVE  {k \in Key : ComposeStorageKey(name, k) \in DOMAIN storage} = entries[name]
  <2>1. ASSUME NEW k \in Key, ComposeStorageKey(name, k) \in DOMAIN storage
        PROVE  k \in entries[name]
    <3>1. \A n \in DOMAIN heads : ComposeStorageKey(name, k) # HeadStorageKey(n)
      BY <1>1, HeadKeysApart
    <3>2. PICK e \in Entries : ComposeStorageKey(name, k) = ComposeStorageKey(e[1], e[2])
      BY <1>2, <2>1, <3>1
    <3>3. e[1] = name /\ e[2] = k
      BY <1>1, <1>3, <3>2, EntryKeysDiffer
    <3> QED
      BY <1>3, <3>3
  <2>2. ASSUME NEW k \in entries[name]
        PROVE  k \in Key /\ ComposeStorageKey(name, k) \in DOMAIN storage
    <3>1. k \in Key /\ name \in Names
      BY <1>1
    <3>2. <<name, k>> \in Entries
      BY <3>1 DEF Entries
    <3> QED
      BY <1>2, <3>1, <3>2
  <2> QED
    BY <2>1, <2>2
<1>6. ASSUME NEW name \in DOMAIN heads
      PROVE  DecomposeStorageKey(name, storage[HeadStorageKey(name)]) = heads[name]
  BY HeadsRead
<1> QED
  BY <1>4, <1>5, <1>6 DEF StreamsInStorage

LEMMA StoreStep ==
  SchemaInv /\ SchemaInv' /\ [SNext]_schemaVars => [Store!Next]_StreamsInStorage
<1> SUFFICES ASSUME SchemaInv, SchemaInv', [SNext]_schemaVars
             PROVE  [Store!Next]_StreamsInStorage
  OBVIOUS
<1>1. StreamsInStorage
        = [name \in DOMAIN heads |-> [head |-> heads[name], data |-> entries[name]]]
  BY FoundInStorage
<1>2. StreamsInStorage'
        = [name \in DOMAIN heads' |-> [head |-> heads'[name], data |-> entries'[name]]]
  <2>1. (SchemaInv => StreamsInStorage = [name \in DOMAIN heads |->
                                            [head |-> heads[name], data |-> entries[name]]])'
    BY FoundInStorage, PTL
  <2> QED
    BY <2>1
<1>3. /\ DOMAIN heads \subseteq Names /\ heads \in [DOMAIN heads -> Key]
      /\ entries \in [Names -> SUBSET Key]
  BY DEF SchemaInv, SchemaTypeOK
<1>4. ASSUME NEW name \in Names, NEW k \in Key, CreateStream(name, k) PROVE Store!Next
  <2>1. name \notin DOMAIN heads
    BY <1>4 DEF CreateStream, SchemaInv, StoredIsWritten
  <2>2. entries[name] = {} /\ entries' = entries
    BY <1>4, <2>1 DEF CreateStream, SchemaInv, EntriesHaveStream
  <2>3. /\ DOMAIN heads' = DOMAIN heads \union {name}
        /\ heads'[name] = k
        /\ \A other \in DOMAIN heads : other # name => heads'[other] = heads[other]
    BY <1>4, HeadPut DEF CreateStream
  <2>4. Store!Create(name, k)
    BY <1>1, <1>2, <2>1, <2>2, <2>3 DEF Store!Create
  <2>5. name \in Names \ DOMAIN StreamsInStorage
    BY <1>1, <2>1
  <2> QED
    BY <2>4, <2>5 DEF Store!Next
<1>5. ASSUME NEW name \in Names, NEW p \in Primary, name \in DOMAIN heads,
             heads' = Put(heads, name, NewHead(heads[name], p)),
             NEW new \in {{}, {NewHead(heads[name], p)}},
             entries' = [entries EXCEPT ![name] = @ \union new]
      PROVE  Store!Next
  <2> DEFINE k == NewHead(heads[name], p)
  <2>1. k \in Key
    BY <1>3, <1>5, NewHeadIsAKey
  <2>2. /\ DOMAIN heads' = DOMAIN heads
        /\ heads'[name] = k
        /\ \A other \in DOMAIN heads : other # name => heads'[other] = heads[other]
    BY <1>5, <2>1, HeadPut
  <2>3. /\ entries'[name] = entries[name] \union new
        /\ \A other \in DOMAIN heads : other # name => entries'[other] = entries[other]
    BY <1>3, <1>5
  <2>4. StreamsInStorage[name] = [head |-> heads[name], data |-> entries[name]]
    BY <1>1, <1>5
  <2>5. StreamsInStorage' =
          [StreamsInStorage EXCEPT ![name] = [head |-> k, data |-> @.data \union new]]
    <3> HIDE DEF k
    <3> QED
      BY <1>1, <1>2, <1>5, <2>2, <2>3, <2>4
  <2>6. NewHead(StreamsInStorage[name].head, p) = k
    BY <2>4
  <2>7. StreamsInStorage'[name].head = k
    BY <1>2, <1>5, <2>2
  <2>8. Store!Push(name, p)
    BY <1>5, <2>5, <2>6, <2>7 DEF Store!Push
  <2>9. name \in DOMAIN StreamsInStorage
    BY <1>1, <1>5
  <2> QED
    BY <2>8, <2>9 DEF Store!Next
<1>6. ASSUME NEW name \in Names, NEW p \in Primary, PushHead(name, p) PROVE Store!Next
  <2>1. entries' = [entries EXCEPT ![name] = @ \union {}]
    BY <1>3, <1>6 DEF PushHead
  <2> QED
    BY <1>5, <1>6, <2>1 DEF PushHead
<1>7. ASSUME NEW name \in Names, NEW p \in Primary, Push(name, p) PROVE Store!Next
  BY <1>5, <1>7 DEF Push
<1>8. CASE Restart
  <2>1. heads' = [name \in DOMAIN heads |-> heads[name]]
    BY <1>8, HeadsRead DEF Restart
  <2>2. heads' = heads /\ entries' = entries
    BY <1>3, <1>8, <2>1 DEF Restart
  <2> QED
    BY <1>1, <1>2, <2>2
<1>9. CASE UNCHANGED schemaVars
  BY <1>1, <1>2, <1>9 DEF schemaVars
<1> QED
  BY <1>4, <1>6, <1>7, <1>8, <1>9 DEF SNext

\* Streams that share a storage are as if each had its own, as Publisher and Listener
\* have it: a head and the keys of entries, that only a push to this stream changes.
THEOREM StreamsAreApart == SSpec => ImplementsStore
<1>1. SInit => Store!Init
  <2> SUFFICES ASSUME SInit PROVE StreamsInStorage = [name \in {} |-> {}]
    BY DEF Store!Init
  <2>1. DOMAIN heads = {}
    BY DEF SInit, Nothing
  <2>2. StreamsInStorage
          = [name \in DOMAIN heads |-> [head |-> heads[name], data |-> entries[name]]]
    BY SchemaInit, FoundInStorage
  <2> QED
    BY <2>1, <2>2
<1> QED
  BY <1>1, StoreStep, SchemaInvariance, PTL DEF SSpec, ImplementsStore, Store!Spec
-----------------------------------------------------------------------------
(***************************************************************************)
(* The bytes of integers.                                                  *)
(***************************************************************************)
LEMMA ReverseTwice ==
  ASSUME NEW S, NEW s \in Seq(S)
  PROVE  /\ Reverse(s) \in Seq(S) /\ Len(Reverse(s)) = Len(s)
         /\ Reverse(Reverse(s)) = s
<1>1. Reverse(s) \in Seq(S) /\ Len(Reverse(s)) = Len(s)
  BY DEF Reverse
<1>2. \A i \in 1 .. Len(s) : Reverse(s)[i] = s[(Len(s) - i) + 1]
  BY DEF Reverse
<1>3. Reverse(Reverse(s)) = [i \in 1 .. Len(s) |-> Reverse(s)[(Len(s) - i) + 1]]
  BY <1>1 DEF Reverse
<1>4. \A i \in 1 .. Len(s) : Reverse(s)[(Len(s) - i) + 1] = s[i]
  <2> SUFFICES ASSUME NEW i \in 1 .. Len(s) PROVE Reverse(s)[(Len(s) - i) + 1] = s[i]
    OBVIOUS
  <2>1. (Len(s) - i) + 1 \in 1 .. Len(s) /\ (Len(s) - ((Len(s) - i) + 1)) + 1 = i
    OBVIOUS
  <2> QED
    BY <1>2, <2>1
<1> QED
  BY <1>1, <1>3, <1>4

\* What a converted integer's memory holds are the digits of the integer.
LEMMA MemoryOfConverted ==
  ASSUME NEW w \in Widths, NEW x \in IntegersOf(w)
  PROVE  /\ Fits(Radix, x, w)
         /\ Memory(as_msb(x, w), w) = Digits(Radix, x, w)
         /\ msb_to_host_order(as_msb(x, w), w) = x
<1> DEFINE d == Digits(Radix, x, w)
           D == 0 .. Radix - 1
<1>1. IsBase(Radix) /\ w \in Nat /\ x \in Nat /\ x <= Largest(Radix)[w]
  BY ByteOrderAssumption, LargestIs DEF IsBase, IntegersOf
<1>2. Fits(Radix, x, w)
  BY <1>1, NumbersFit
<1>3. d \in Seq(D) /\ Len(d) = w
  BY <1>1, DigitsAre
<1> HIDE DEF D
<1>4. Reverse(d) \in Seq(D) /\ Len(Reverse(d)) = w /\ Reverse(Reverse(d)) = d
  BY <1>3, ReverseTwice
<1>5. Digits(Radix, NumberOf(Radix, Reverse(d)), w) = Reverse(d)
  BY <1>1, <1>4, DigitsOfNumber DEF D
<1>6. Memory(as_msb(x, w), w) = d
  BY <1>4, <1>5 DEF Memory, as_msb, SwapBytes
<1>7. msb_to_host_order(as_msb(x, w), w) = x
  BY <1>1, <1>2, <1>6, NumberOfDigits DEF msb_to_host_order, SwapBytes
<1> QED
  BY <1>2, <1>6, <1>7

\* Integers of any width converted with as_msb are ordered bytewise as they are, and
\* msb_to_host_order gives them back.
THEOREM IntegersOrderedAsBytes == MsbBytesOrdered
<1> SUFFICES ASSUME NEW w \in Widths, NEW x \in IntegersOf(w), NEW y \in IntegersOf(w)
             PROVE  /\ msb_to_host_order(as_msb(x, w), w) = x
                    /\ Before(Memory(as_msb(x, w), w), Memory(as_msb(y, w), w)) <=> x < y
  BY DEF MsbBytesOrdered
<1> DEFINE d == Digits(Radix, x, w)
           e == Digits(Radix, y, w)
<1>1. IsBase(Radix) /\ w \in Nat /\ x \in Nat /\ y \in Nat
  BY ByteOrderAssumption, LargestIs DEF IsBase, IntegersOf
<1>2. d \in Seq(Nat) /\ e \in Seq(Nat)
  BY <1>1, DigitsAre
<1>3. Before(d, e) <=> x < y
  <2>1. CASE x = y
    BY <1>1, <1>2, <2>1, BeforeIsStrict
  <2>2. CASE x # y
    <3>1. PICK i \in 1 .. w : DifferAt(d, e, i) /\ (d[i] < e[i] <=> x < y)
      BY <1>1, <2>2, MemoryOfConverted, DigitsOrdered
    <3> HIDE DEF d, e
    <3> QED
      BY <1>2, <3>1, BeforeWhereDiffering
  <2> QED
    BY <2>1, <2>2
<1> QED
  BY <1>3, MemoryOfConverted
=============================================================================

--------------------------- MODULE IdTextProofs ----------------------------
(***************************************************************************)
(* What TLAPS proves of IdText, for texts of any length, any values that   *)
(* programs make and any usize::MAX.                                       *)
(*                                                                         *)
(* The parsers and the printers are recursive functions, and what they     *)
(* compute is shown by induction: a set of numbers that holds each number  *)
(* all of whose predecessors it holds is Nat (Induction).  The sections    *)
(* follow the code: characters and numbers, the numerals of a version, the *)
(* version, the specific and the address in a text, what is printed, and   *)
(* at the end the program and its theorems.                                *)
(***************************************************************************)
EXTENDS IdText, SequenceTheorems, WellFoundedInduction, TLAPS

-----------------------------------------------------------------------------
(* Induction over the numbers, with a set in the place of the predicate. *)

\* A set of numbers that is not empty has a smallest element.
LEMMA Smallest ==
  ASSUME NEW T, T \subseteq Nat, T # {}
  PROVE  \E m \in T : \A k \in T : m <= k
  <1>1. PICK m \in T : \A k \in T : ~ (<<k, m>> \in OpToRel(<, Nat))
    BY WFMin, NatLessThanWellFounded, Zenon
  <1>2. \A k \in T : ~ (k < m)
    BY <1>1 DEF OpToRel
  <1> QED
    BY <1>2

\* A set that holds each number all of whose predecessors it holds holds all.
LEMMA Induction ==
  ASSUME NEW T, \A n \in Nat : (\A k \in Nat : k < n => k \in T) => n \in T
  PROVE  Nat \subseteq T
  <1> DEFINE Bad == Nat \ T
  <1>1. ASSUME Bad # {} PROVE FALSE
    <2>1. PICK m \in Bad : \A k \in Bad : m <= k
      BY <1>1, Smallest
    <2>2. \A k \in Nat : k < m => k \in T
      BY <2>1
    <2> QED
      BY <2>1, <2>2
  <1> QED
    BY <1>1

-----------------------------------------------------------------------------
(* Characters. *)

\* The ten digits, each with its value.
LEMMA DigitsAre ==
  /\ \A d, e \in 0..9 : Digits[d + 1] = Digits[e + 1] => d = e
  /\ \A d \in 0..9 : Digits[d + 1] \in Digit
  /\ \A c \in Digit : \E d \in 0..9 : Digits[d + 1] = c
  BY DEF Digits, Digit, ToSet

\* DigitValue inverts the table.
LEMMA DigitValues ==
  /\ \A d \in 0..9 : DigitValue(Digits[d + 1]) = d
  /\ \A c \in Digit : DigitValue(c) \in 0..9
  BY DigitsAre DEF DigitValue

\* The characters between the parts are in none of the parts' classes.
LEMMA Classes ==
  /\ Digit \subseteq Skewer /\ Skewer \subseteq Domain /\ Domain \subseteq Segment
  /\ Segment \subseteq Char /\ {".", "-", ":"} \subseteq Char
  /\ "." \notin Skewer /\ "-" \notin Digit /\ ":" \notin Segment
  <1>1. \A c \in Digit : \E i \in 1..10 : c = Digits[i]
    BY DEF Digits, Digit, ToSet
  <1>2. \A i \in 1..10 : Digits[i] \notin {".", "-", ":"}
    BY DEF Digits
  <1>3. {".", "-", ":"} \cap Digit = {}
    BY <1>1, <1>2
  <1> QED
    BY <1>3, Zenon DEF Skewer, Domain, Segment, Char

-----------------------------------------------------------------------------
(* Runs. *)

\* The longest run of the class from i on ends where it ends.
LEMMA TakesRun ==
  ASSUME NEW s \in Seq(Char), NEW class, NEW i \in 1..Len(s), NEW j \in 1..(Len(s) + 1),
         Run(s, i, j - 1, class), j = Len(s) + 1 \/ s[j] \notin class
  PROVE  Take1(s, i, class) = j
  <1> DEFINE T == {k \in i..(Len(s) + 1) : k = Len(s) + 1 \/ s[k] \notin class}
  <1>1. Len(s) \in Nat /\ i < j /\ j \in T
    BY DEF Run
  <1>2. \A k \in T : j <= k
    BY <1>1 DEF Run
  <1>3. \A x \in T : (\A k \in T : x <= k) => x = j
    BY <1>1, <1>2
  <1>4. Min(T) = j
    BY <1>1, <1>2, <1>3 DEF Min
  <1> QED
    BY <1>1, <1>4 DEF Take1

\* There is one wherever a character of the class is.
LEMMA RunEnds ==
  ASSUME NEW s \in Seq(Char), NEW class, NEW i \in 1..Len(s), s[i] \in class
  PROVE  \E j \in (i + 1)..(Len(s) + 1) :
           /\ Run(s, i, j - 1, class) /\ (j = Len(s) + 1 \/ s[j] \notin class)
           /\ Take1(s, i, class) = j
  <1> DEFINE T == {k \in i..(Len(s) + 1) : k = Len(s) + 1 \/ s[k] \notin class}
  <1>1. Len(s) \in Nat /\ T \subseteq Nat /\ T # {}
    <2>1. Len(s) \in Nat
      OBVIOUS
    <2>2. Len(s) + 1 \in T
      BY <2>1
    <2> QED
      BY <2>1, <2>2
  <1>2. PICK j \in T : \A k \in T : j <= k
    BY <1>1, Smallest
  <1>3. j \in i..(Len(s) + 1) /\ (j = Len(s) + 1 \/ s[j] \notin class) /\ j # i
    BY <1>1
  <1>4. ASSUME NEW k \in i..(j - 1) PROVE s[k] \in class
    BY <1>1, <1>2, <1>3
  <1>5. j \in (i + 1)..(Len(s) + 1) /\ Run(s, i, j - 1, class)
    BY <1>1, <1>3, <1>4 DEF Run
  <1>6. Take1(s, i, class) = j
    BY <1>1, <1>3, <1>5, TakesRun
  <1> QED
    BY <1>3, <1>5, <1>6

\* There is none elsewhere.
LEMMA NoRun ==
  ASSUME NEW s \in Seq(Char), NEW class, NEW i \in 0..(Len(s) + 1),
         i = 0 \/ i = Len(s) + 1 \/ s[i] \notin class
  PROVE  Take1(s, i, class) = 0
  <1> DEFINE T == {k \in i..(Len(s) + 1) : k = Len(s) + 1 \/ s[k] \notin class}
  <1>1. CASE i = 0
    BY <1>1 DEF Take1
  <1>2. CASE i # 0
    <2>1. Len(s) \in Nat /\ i \in T /\ \A k \in T : i <= k
      BY <1>2
    <2>2. \A x \in T : (\A k \in T : x <= k) => x = i
      BY <2>1
    <2>3. Min(T) = i
      BY <2>1, <2>2 DEF Min
    <2> QED
      BY <2>1, <2>3 DEF Take1
  <1> QED
    BY <1>1, <1>2

-----------------------------------------------------------------------------
(* Numbers and their digits. *)

\* What the digits up to each place count, as far as place m.
Counts(f, digits, m) ==
  /\ f \in [0..m -> Nat]
  /\ f[0] = 0
  /\ \A n \in 1..m : f[n] = 10 * f[n - 1] + DigitValue(digits[n])

\* The recursion of Number has a solution.
LEMMA CountsExists ==
  ASSUME NEW s \in Seq(Digit)
  PROVE  \E f : Counts(f, s, Len(s))
  <1> DEFINE T == {m \in Nat : m <= Len(s) => \E f : Counts(f, s, m)}
  <1>0. Len(s) \in Nat /\ \A n \in 1..Len(s) : DigitValue(s[n]) \in Nat
    BY DigitValues
  <1>1. ASSUME NEW m \in Nat, \A k \in Nat : k < m => k \in T
        PROVE  m \in T
    <2>1. CASE m = 0
      <3>1. Counts([n \in 0..0 |-> 0], s, 0)
        BY DEF Counts
      <3> QED
        BY <2>1, <3>1
    <2>2. CASE m > 0 /\ m <= Len(s)
      <3>1. PICK f : Counts(f, s, m - 1)
        BY <1>0, <1>1, <2>2
      <3> DEFINE g == [n \in 0..m |-> IF n = m THEN 10 * f[m - 1] + DigitValue(s[m]) ELSE f[n]]
      <3>2. f[m - 1] \in Nat /\ DigitValue(s[m]) \in Nat
        BY <1>0, <2>2, <3>1 DEF Counts
      <3>3. \A n \in 0..(m - 1) : g[n] = f[n] /\ f[n] \in Nat
        BY <2>2, <3>1 DEF Counts
      <3>4. g[m] = 10 * f[m - 1] + DigitValue(s[m]) /\ g[m] \in Nat
        BY <2>2, <3>2, SMTT(20)
      <3>5. g \in [0..m -> Nat]
        <4>1. \A n \in 0..m : n = m \/ n \in 0..(m - 1)
          BY <2>2
        <4>2. \A n \in 0..m : g[n] \in Nat
          BY <3>3, <3>4, <4>1
        <4> QED
          BY <4>2
      <3> HIDE DEF g
      <3>6. ASSUME NEW n \in 1..m PROVE g[n] = 10 * g[n - 1] + DigitValue(s[n])
        <4>1. g[n - 1] = f[n - 1]
          BY <2>2, <3>3
        <4>2. CASE n = m
          BY <3>4, <4>1, <4>2
        <4>3. CASE n # m
          <5>1. n \in 1..(m - 1)
            BY <2>2, <4>3
          <5>2. g[n] = f[n] /\ f[n] = 10 * f[n - 1] + DigitValue(s[n])
            BY <3>1, <3>3, <5>1, SMTT(20) DEF Counts
          <5> QED
            BY <4>1, <5>2
        <4> QED
          BY <4>2, <4>3
      <3>7. g[0] = 0
        BY <2>2, <3>1, <3>3 DEF Counts
      <3>8. Counts(g, s, m)
        BY <3>5, <3>6, <3>7 DEF Counts
      <3> QED
        BY <3>8
    <2>3. CASE m > Len(s)
      BY <1>0, <2>3
    <2> QED
      BY <1>0, <2>1, <2>2, <2>3
  <1>2. Nat \subseteq T
    <2> HIDE DEF T
    <2> QED
      BY <1>1, Induction
  <1> QED
    BY <1>0, <1>2

\* It has one, and it looks at the digits it counts only.
LEMMA CountsAgree ==
  ASSUME NEW m \in Nat, NEW f, NEW g, NEW s, NEW t,
         Counts(f, s, m), Counts(g, t, m), \A n \in 1..m : s[n] = t[n]
  PROVE  f[m] = g[m]
  <1> DEFINE T == {n \in Nat : n <= m => f[n] = g[n]}
  <1>1. ASSUME NEW n \in Nat, \A k \in Nat : k < n => k \in T
        PROVE  n \in T
    <2>1. CASE n = 0
      BY <2>1 DEF Counts
    <2>2. CASE n > 0 /\ n <= m
      <3>1. n - 1 \in Nat /\ n - 1 < n /\ n \in 1..m
        BY <2>2
      <3>2. f[n - 1] = g[n - 1]
        BY <1>1, <2>2, <3>1
      <3>3. /\ f[n] = 10 * f[n - 1] + DigitValue(s[n])
            /\ g[n] = 10 * g[n - 1] + DigitValue(t[n]) /\ s[n] = t[n]
        BY <3>1 DEF Counts
      <3> QED
        BY <3>2, <3>3
    <2> QED
      BY <2>1, <2>2
  <1>2. Nat \subseteq T
    <2> HIDE DEF T
    <2> QED
      BY <1>1, Induction
  <1> QED
    BY <1>2

\* Number counts its digits.
LEMMA NumberCounts ==
  ASSUME NEW s \in Seq(Digit)
  PROVE  \E f : Counts(f, s, Len(s)) /\ Number(s) = f[Len(s)]
  <1> DEFINE Eq(f) ==
        f = [n \in 0..Len(s) |-> IF n = 0 THEN 0 ELSE 10 * f[n - 1] + DigitValue(s[n])]
  <1>0. Len(s) \in Nat
    OBVIOUS
  <1>1. PICK f : Counts(f, s, Len(s))
    BY CountsExists
  <1>2. Eq(f)
    <2>1. f = [n \in 0..Len(s) |-> f[n]]
      BY <1>1 DEF Counts
    <2>2. \A n \in 0..Len(s) :
            f[n] = IF n = 0 THEN 0 ELSE 10 * f[n - 1] + DigitValue(s[n])
      BY <1>0, <1>1 DEF Counts
    <2> QED
      BY <2>1, <2>2
  <1>3. PICK v : v = CHOOSE g : Eq(g)
    OBVIOUS
  <1>4. Eq(v)
    BY <1>2, <1>3
  <1>5. Number(s) = v[Len(s)]
    BY <1>3 DEF Number
  <1>6. Counts(v, s, Len(s))
    <2>1. \A n \in 0..Len(s) :
            v[n] = IF n = 0 THEN 0 ELSE 10 * v[n - 1] + DigitValue(s[n])
      BY <1>4
    <2>2. v[0] = 0 /\ \A n \in 1..Len(s) : v[n] = 10 * v[n - 1] + DigitValue(s[n])
      BY <1>0, <2>1
    <2>3. \A n \in 1..Len(s) : DigitValue(s[n]) \in Nat
      BY DigitValues
    <2> DEFINE T == {n \in Nat : n <= Len(s) => v[n] \in Nat}
    <2>4. ASSUME NEW n \in Nat, \A k \in Nat : k < n => k \in T
          PROVE  n \in T
      <3>1. CASE n = 0
        BY <2>2, <3>1
      <3>2. CASE n > 0 /\ n <= Len(s)
        <4>1. v[n - 1] \in Nat /\ n \in 1..Len(s)
          BY <1>0, <2>4, <3>2
        <4> QED
          BY <2>2, <2>3, <4>1
      <3> QED
        BY <1>0, <3>1, <3>2
    <2>5. Nat \subseteq T
      <3> HIDE DEF T
      <3> QED
        BY <2>4, Induction
    <2>6. DOMAIN v = 0..Len(s) /\ v = [n \in 0..Len(s) |-> v[n]]
      BY <1>4
    <2>7. v \in [0..Len(s) -> Nat]
      BY <2>5, <2>6
    <2> QED
      BY <2>2, <2>7 DEF Counts
  <1> QED
    BY <1>5, <1>6

\* A further digit counts ten times what was there.
LEMMA NumberAppend ==
  ASSUME NEW s \in Seq(Digit), NEW c \in Digit
  PROVE  /\ Number(s) \in Nat
         /\ Number(Append(s, c)) = 10 * Number(s) + DigitValue(c)
  <1> DEFINE t == Append(s, c)
  <1>1. /\ t \in Seq(Digit) /\ Len(s) \in Nat /\ Len(t) = Len(s) + 1
        /\ t[Len(s) + 1] = c /\ \A n \in 1..Len(s) : s[n] = t[n]
    OBVIOUS
  <1> HIDE DEF t
  <1>2. PICK f : Counts(f, s, Len(s)) /\ Number(s) = f[Len(s)]
    BY NumberCounts
  <1>3. PICK g : Counts(g, t, Len(t)) /\ Number(t) = g[Len(t)]
    BY <1>1, NumberCounts
  <1> DEFINE h == [n \in 0..Len(s) |-> g[n]]
  <1>4. Counts(h, t, Len(s))
    BY <1>1, <1>3 DEF Counts
  <1>5. f[Len(s)] = h[Len(s)]
    <2> HIDE DEF h
    <2> QED
      BY <1>1, <1>2, <1>4, CountsAgree
  <1>6. g[Len(s)] = f[Len(s)] /\ f[Len(s)] \in Nat
    BY <1>1, <1>2, <1>5 DEF Counts
  <1>7. g[Len(t)] = 10 * g[Len(s)] + DigitValue(c)
    BY <1>1, <1>3 DEF Counts
  <1> QED
    BY <1>2, <1>3, <1>6, <1>7 DEF t

\* Nothing counts nothing.
LEMMA NumberEmpty ==
  Number(<<>>) = 0
  <1>1. <<>> \in Seq(Digit) /\ Len(<<>>) = 0
    OBVIOUS
  <1>2. PICK f : Counts(f, <<>>, 0) /\ Number(<<>>) = f[0]
    BY <1>1, NumberCounts
  <1> QED
    BY <1>2 DEF Counts

\* A number.
LEMMA NumberType ==
  ASSUME NEW s \in Seq(Digit)
  PROVE  Number(s) \in Nat
  <1>1. PICK f : Counts(f, s, Len(s)) /\ Number(s) = f[Len(s)]
    BY NumberCounts
  <1>2. Len(s) \in 0..Len(s)
    OBVIOUS
  <1> QED
    BY <1>1, <1>2 DEF Counts

\* Digits that go on count no less.
LEMMA NumberGrows ==
  ASSUME NEW s \in Seq(Char), NEW i \in 1..Len(s), NEW k \in i..Len(s), NEW j \in i..k,
         Run(s, i, k, Digit)
  PROVE  /\ Number(SubSeq(s, i, k)) \in Nat
         /\ Number(SubSeq(s, i, j)) <= Number(SubSeq(s, i, k))
  <1> DEFINE Upto(n) == Number(SubSeq(s, i, n))
             T == {n \in Nat : j + n <= k => Upto(j) <= Upto(j + n)}
  <1>0. Len(s) \in Nat /\ i \in Nat /\ j \in Nat /\ k \in Nat /\ i <= j /\ j <= k
    OBVIOUS
  <1>1. ASSUME NEW n \in i..k PROVE SubSeq(s, i, n) \in Seq(Digit)
    <2>1. \A m \in i..n : s[m] \in Digit
      BY <1>0 DEF Run
    <2> QED
      BY <1>0, <2>1, SubSeqProperties
  <1>2. \A n \in i..k : Upto(n) \in Nat
    BY <1>1, NumberType, Zenon
  <1>3. ASSUME NEW n \in i..k, n # i
        PROVE  Upto(n - 1) <= Upto(n)
    <2>1. n - 1 \in i..k /\ n \in i..Len(s) /\ s[n] \in Digit
      BY <1>0, <1>3 DEF Run
    <2>2. PICK t : t = SubSeq(s, i, n - 1)
      OBVIOUS
    <2>3. t \in Seq(Digit)
      BY <1>1, <2>1, <2>2, Zenon
    <2>4. SubSeq(s, i, n) = t \o <<s[n]>>
      BY <2>1, <2>2, SubSeqRecursiveSecond, Zenon
    <2>5. SubSeq(s, i, n) = Append(t, s[n])
      BY <2>1, <2>3, <2>4, AppendIsConcat, Zenon
    <2>6. Upto(n) = 10 * Number(t) + DigitValue(s[n]) /\ Number(t) \in Nat
      BY <2>1, <2>3, <2>5, NumberAppend, Zenon
    <2>7. DigitValue(s[n]) \in Nat
      BY <2>1, DigitValues
    <2>8. \A x \in Nat, y \in Nat : x <= 10 * x + y
      OBVIOUS
    <2> QED
      BY <2>2, <2>6, <2>7, <2>8, Zenon
  <1> HIDE DEF Upto
  <1>4. ASSUME NEW n \in Nat, \A m \in Nat : m < n => m \in T
        PROVE  n \in T
    <2>1. CASE n = 0
      BY <1>0, <1>2, <2>1
    <2>2. CASE n > 0 /\ j + n <= k
      <3>1. n - 1 \in Nat /\ n - 1 < n /\ j + (n - 1) <= k
        BY <1>0, <2>2
      <3>2. j + n \in i..k /\ j + n # i /\ j + n - 1 \in i..k
        BY <1>0, <2>2
      <3>a. n - 1 \in T
        BY <1>4, <3>1
      <3>b. Upto(j) <= Upto(j + (n - 1))
        BY <3>1, <3>a
      <3>c. Upto(j + n - 1) <= Upto(j + n)
        <4>1. PICK p \in i..k : p = j + n /\ p # i
          BY <3>2
        <4>2. Upto(p - 1) <= Upto(p)
          BY <1>3, <4>1
        <4>3. p - 1 = j + n - 1
          BY <1>0, <4>1
        <4> QED
          BY <4>1, <4>2, <4>3, Zenon
      <3>3. Upto(j) <= Upto(j + n - 1) /\ Upto(j + n - 1) <= Upto(j + n)
        BY <3>b, <3>c
      <3>4. Upto(j) \in Nat /\ Upto(j + n - 1) \in Nat /\ Upto(j + n) \in Nat
        BY <1>0, <1>2, <3>2
      <3> QED
        BY <3>3, <3>4
    <2> QED
      BY <1>0, <2>1, <2>2
  <1>5. Nat \subseteq T
    <2> HIDE DEF T
    <2> QED
      BY <1>4, Induction
  <1>6. k - j \in Nat /\ j + (k - j) = k /\ k \in i..k
    BY <1>0
  <1>7. Upto(k) \in Nat /\ Upto(j) <= Upto(k)
    BY <1>0, <1>2, <1>5, <1>6
  <1> QED
    BY <1>7 DEF Upto

\* The text of a number, as far as number m.
Writes(f, m) ==
  f = [k \in 0..m |->
         (IF k < 10 THEN <<>> ELSE f[k \div 10]) \o <<Digits[(k % 10) + 1]>>]

\* Its equation at one place.
LEMMA WritesAt ==
  ASSUME NEW m \in Nat, NEW f, Writes(f, m), NEW k \in 0..m
  PROVE  f[k] = (IF k < 10 THEN <<>> ELSE f[k \div 10]) \o <<Digits[(k % 10) + 1]>>
  <1> DEFINE g == [n \in 0..m |->
                     (IF n < 10 THEN <<>> ELSE f[n \div 10]) \o <<Digits[(n % 10) + 1]>>]
  <1>1. g[k] = (IF k < 10 THEN <<>> ELSE f[k \div 10]) \o <<Digits[(k % 10) + 1]>>
    BY Zenon
  <1>2. f = g
    BY Zenon DEF Writes
  <1> QED
    BY <1>1, <1>2, Zenon

\* The recursion of Numeral has a solution.
LEMMA WritesExists ==
  \A m \in Nat : \E f : Writes(f, m)
  <1> DEFINE T == {m \in Nat : \E f : Writes(f, m)}
  <1>1. ASSUME NEW m \in Nat, \A k \in Nat : k < m => k \in T
        PROVE  m \in T
    <2> DEFINE Final(f) == (IF m < 10 THEN <<>> ELSE f[m \div 10]) \o <<Digits[(m % 10) + 1]>>
    <2>1. CASE m = 0
      <3> DEFINE g == [k \in 0..0 |-> <<>> \o <<Digits[(0 % 10) + 1]>>]
      <3>1. \A k \in 0..0 : k = 0
        OBVIOUS
      <3>2. Writes(g, 0)
        BY <3>1 DEF Writes
      <3> QED
        BY <2>1, <3>2
    <2>2. CASE m > 0
      <3>1. PICK f : Writes(f, m - 1)
        BY <1>1, <2>2
      <3> DEFINE g == [k \in 0..m |-> IF k = m THEN Final(f) ELSE f[k]]
      <3>2. \A k \in 0..(m - 1) : k \in 0..m /\ k # m /\ g[k] = f[k]
        BY <2>2
      <3>3. g = [k \in 0..m |-> g[k]] /\ g[m] = Final(f)
        BY <2>2
      <3>4. \A k \in 0..m : k >= 10 => k \div 10 \in 0..(k - 1)
        OBVIOUS
      <3> HIDE DEF g
      <3>5. ASSUME NEW k \in 0..m
            PROVE  g[k] = (IF k < 10 THEN <<>> ELSE g[k \div 10]) \o <<Digits[(k % 10) + 1]>>
        <4>1. k >= 10 => g[k \div 10] = f[k \div 10]
          <5>1. CASE k >= 10
            <6>1. k \div 10 \in 0..(m - 1)
              BY <2>2, <3>4, <5>1
            <6> QED
              BY <3>2, <6>1
          <5> QED
            BY <5>1
        <4> DEFINE Step(h) == (IF k < 10 THEN <<>> ELSE h[k \div 10]) \o <<Digits[(k % 10) + 1]>>
        <4>a. Step(f) = Step(g)
          <5>1. k < 10 \/ k >= 10
            OBVIOUS
          <5> QED
            BY <4>1, <5>1, Zenon
        <4>2. CASE k = m
          BY <3>3, <4>a, <4>2, Zenon
        <4>3. CASE k # m
          <5>1. k \in 0..(m - 1)
            BY <4>3
          <5>2. f[k] = Step(f)
            BY <2>2, <3>1, <5>1, m - 1 \in Nat, WritesAt
          <5> QED
            BY <3>2, <4>a, <5>1, <5>2, Zenon
        <4> QED
          BY <4>2, <4>3
      <3>6. Writes(g, m)
        BY <3>3, <3>5, Zenon DEF Writes
      <3> QED
        BY <3>6
    <2> QED
      BY <2>1, <2>2
  <1>2. Nat \subseteq T
    <2> HIDE DEF T
    <2> QED
      BY <1>1, Induction
  <1> QED
    BY <1>2

\* Numeral writes digits, at least one, that count the number.
LEMMA NumeralCounts ==
  ASSUME NEW n \in Nat
  PROVE  Numeral(n) \in Seq(Digit) /\ Numeral(n) # <<>> /\ Number(Numeral(n)) = n
  <1>1. PICK v : v = CHOOSE f : Writes(f, n)
    OBVIOUS
  <1>2. Writes(v, n)
    BY <1>1, WritesExists, Zenon
  <1>3. Numeral(n) = v[n]
    BY <1>1, Zenon DEF Numeral, Writes
  <1>4. \A k \in 0..n : v[k] = (IF k < 10 THEN <<>> ELSE v[k \div 10]) \o <<Digits[(k % 10) + 1]>>
    BY <1>2, WritesAt, Zenon
  <1> DEFINE Good(t, k) == t \in Seq(Digit) /\ t # <<>> /\ Number(t) = k
             T == {k \in Nat : k <= n => Good(v[k], k)}
  <1>5. ASSUME NEW k \in Nat, \A j \in Nat : j < k => j \in T
        PROVE  k \in T
    <2>1. SUFFICES ASSUME k <= n PROVE Good(v[k], k)
      OBVIOUS
    <2>2. k % 10 \in 0..9 /\ Digits[(k % 10) + 1] \in Digit /\ DigitValue(Digits[(k % 10) + 1]) = k % 10
      <3>1. k % 10 \in 0..9
        OBVIOUS
      <3> QED
        BY <3>1, DigitsAre, DigitValues
    <2>3. ASSUME NEW t \in Seq(Digit), v[k] = t \o <<Digits[(k % 10) + 1]>>,
                 k = 10 * Number(t) + (k % 10)
          PROVE  Good(v[k], k)
      <3>1. PICK c \in Digit : c = Digits[(k % 10) + 1] /\ DigitValue(c) = k % 10
        BY <2>2
      <3>2. v[k] = Append(t, c)
        BY <2>3, <3>1, AppendIsConcat
      <3>3. Append(t, c) \in Seq(Digit) /\ Append(t, c) # <<>>
        BY AppendProperties
      <3>4. Number(Append(t, c)) = 10 * Number(t) + DigitValue(c)
        BY NumberAppend
      <3> QED
        BY <2>3, <3>1, <3>2, <3>3, <3>4, Zenon
    <2>4. CASE k < 10
      <3>1. v[k] = <<>> \o <<Digits[(k % 10) + 1]>> /\ k = 10 * 0 + (k % 10)
        <4>1. k \in 0..n /\ k < 10 /\ k = 10 * 0 + (k % 10)
          BY <2>1, <2>4
        <4> QED
          BY <1>4, <4>1, Zenon
      <3>2. <<>> \in Seq(Digit) /\ Number(<<>>) = 0
        BY NumberEmpty
      <3> QED
        BY <2>3, <3>1, <3>2
    <2>5. CASE k >= 10
      <3>1. k \div 10 \in Nat /\ k \div 10 < k /\ k = 10 * (k \div 10) + (k % 10)
        BY <2>5
      <3>2. Good(v[k \div 10], k \div 10)
        BY <1>5, <2>1, <3>1
      <3>3. v[k] = v[k \div 10] \o <<Digits[(k % 10) + 1]>>
        <4>1. k \in 0..n /\ ~(k < 10)
          BY <2>1, <2>5
        <4> QED
          BY <1>4, <4>1, Zenon
      <3> QED
        BY <2>3, <3>1, <3>2, <3>3
    <2> QED
      BY <2>4, <2>5
  <1>6. Nat \subseteq T
    <2> HIDE DEF T
    <2> QED
      BY <1>5, Induction
  <1> QED
    BY <1>3, <1>6

-----------------------------------------------------------------------------
(* A version in a text. *)

\* The run of the class from i on ends before j.
Ends(s, i, class, j) ==
  /\ i \in 1..Len(s) /\ j \in (i + 1)..(Len(s) + 1)
  /\ Run(s, i, j - 1, class) /\ (j = Len(s) + 1 \/ s[j] \notin class)

\* Take1 finds that place, and only that.
LEMMA TakeEnds ==
  ASSUME NEW s \in Seq(Char), NEW class, NEW i \in 0..(Len(s) + 1)
  PROVE  /\ \A j : Ends(s, i, class, j) => Take1(s, i, class) = j
         /\ Take1(s, i, class) # 0 => Ends(s, i, class, Take1(s, i, class))
         /\ i \in 1..Len(s) /\ s[i] \in class => Take1(s, i, class) # 0
  <1>0. Len(s) \in Nat
    OBVIOUS
  <1>1. ASSUME NEW j, Ends(s, i, class, j) PROVE Take1(s, i, class) = j
    <2>1. i \in 1..Len(s) /\ j \in 1..(Len(s) + 1)
      BY <1>0, <1>1 DEF Ends
    <2> QED
      BY <1>1, <2>1, TakesRun DEF Ends
  <1>2. ASSUME i \in 1..Len(s), s[i] \in class
        PROVE  \E j : Ends(s, i, class, j) /\ Take1(s, i, class) = j /\ j # 0
    BY <1>0, <1>2, RunEnds, SMTT(20) DEF Ends
  <1>3. ASSUME ~(i \in 1..Len(s) /\ s[i] \in class)
        PROVE  Take1(s, i, class) = 0
    <2>1. i = 0 \/ i = Len(s) + 1 \/ s[i] \notin class
      BY <1>0, <1>3
    <2> QED
      BY <2>1, NoRun
  <1> QED
    BY <1>1, <1>2, <1>3

\* A run of the class that begins and ends at the same places is found.
LEMMA EndsOnce ==
  ASSUME NEW s \in Seq(Char), NEW class, NEW i, NEW j, NEW k,
         Ends(s, i, class, j), Ends(s, i, class, k)
  PROVE  j = k
  <1>1. i \in 0..(Len(s) + 1)
    BY DEF Ends
  <1> QED
    BY <1>1, TakeEnds

\* A character that ends a part.
LEMMA Tagged ==
  ASSUME NEW s \in Seq(Char), NEW i \in 0..(Len(s) + 1), NEW c
  PROVE  /\ Tag(s, i, c) \in 0..(Len(s) + 1)
         /\ i \in 1..Len(s) /\ s[i] = c => Tag(s, i, c) = i + 1
         /\ Tag(s, i, c) # 0 => i \in 1..Len(s) /\ s[i] = c /\ Tag(s, i, c) = i + 1
  BY DEF Tag

\* A version begins at h: its numbers end at a, b and c.
VersionAt(s, h, a, b, c) ==
  /\ Ends(s, h, Digit, a) /\ a \in 1..Len(s) /\ s[a] = "."
  /\ Ends(s, a + 1, Digit, b) /\ b \in 1..Len(s) /\ s[b] = "."
  /\ Ends(s, b + 1, Digit, c)

NumbersAt(s, h, a, b, c) ==
  {Number(SubSeq(s, h, a - 1)), Number(SubSeq(s, a + 1, b - 1)), Number(SubSeq(s, b + 1, c - 1))}

VersionOf(s, h, a, b, c, release) ==
  [major |-> Number(SubSeq(s, h, a - 1)), minor |-> Number(SubSeq(s, a + 1, b - 1)),
   patch |-> Number(SubSeq(s, b + 1, c - 1)), release |-> release]

\* The place after its release, if it has one.
ReleaseEnd(s, c) == Take1(s, Tag(s, c, "-"), Skewer)

\* The parser finds it where it is.
LEMMA VersionParsed ==
  ASSUME NEW s \in Seq(Char), NEW h, NEW a, NEW b, NEW c, VersionAt(s, h, a, b, c)
  PROVE  ParseVersion(s, h) =
           [next |-> IF ReleaseEnd(s, c) = 0 THEN c ELSE ReleaseEnd(s, c),
            panics |-> \E n \in NumbersAt(s, h, a, b, c) : n > MaxNumber,
            it |-> VersionOf(s, h, a, b, c, ReleaseAt(s, c, ReleaseEnd(s, c)))]
  <1>0. /\ Len(s) \in Nat /\ h \in 0..(Len(s) + 1) /\ a \in 1..Len(s) /\ b \in 1..Len(s)
        /\ a + 1 \in 0..(Len(s) + 1) /\ b + 1 \in 0..(Len(s) + 1) /\ c # 0
    <2>1. /\ Len(s) \in Nat /\ h \in 1..Len(s) /\ a \in 1..Len(s) /\ b \in 1..Len(s)
          /\ c \in (b + 1 + 1)..(Len(s) + 1)
      BY Zenon, LenProperties DEF VersionAt, Ends
    <2> QED
      BY <2>1
  <1>1. a = Take1(s, h, Digit) /\ Tag(s, a, ".") = a + 1
    BY <1>0, TakeEnds DEF VersionAt, Tag
  <1>2. b = Take1(s, a + 1, Digit) /\ Tag(s, b, ".") = b + 1
    BY <1>0, TakeEnds DEF VersionAt, Tag
  <1>3. c = Take1(s, b + 1, Digit)
    BY <1>0, TakeEnds DEF VersionAt
  <1> QED
    BY <1>0, <1>1, <1>2, <1>3, Zenon DEF ParseVersion, NumbersAt, VersionOf, ReleaseEnd

\* It fails where there is none.
LEMMA VersionFailed ==
  ASSUME NEW s \in Seq(Char), NEW h \in 0..(Len(s) + 1), ParseVersion(s, h) # Fail
  PROVE  \E a, b, c : VersionAt(s, h, a, b, c)
  <1> DEFINE a == Take1(s, h, Digit)
             b == Take1(s, Tag(s, a, "."), Digit)
             c == Take1(s, Tag(s, b, "."), Digit)
  <1>1. c # 0
    BY Zenon DEF ParseVersion
  <1>2. ASSUME NEW i \in 0..(Len(s) + 1), Take1(s, i, Digit) # 0
        PROVE  /\ Ends(s, i, Digit, Take1(s, i, Digit))
               /\ Take1(s, i, Digit) \in 0..(Len(s) + 1) /\ i # 0
    BY <1>2, TakeEnds DEF Ends
  <1>3. ASSUME NEW i \in 0..(Len(s) + 1) PROVE Take1(s, i, Digit) \in 0..(Len(s) + 1)
    BY <1>2, <1>3
  <1>4. a \in 0..(Len(s) + 1)
    BY <1>3
  <1> HIDE DEF a
  <1>5. b \in 0..(Len(s) + 1)
    BY <1>3, <1>4, Tagged
  <1>a. Tag(s, a, ".") # 0 /\ b # 0 => Ends(s, a + 1, Digit, b) /\ a \in 1..Len(s) /\ s[a] = "."
    BY <1>2, <1>4, Tagged
  <1>b. b # 0 => Tag(s, a, ".") # 0
    BY <1>2, <1>4, Tagged
  <1> HIDE DEF b
  <1>6. Tag(s, b, ".") # 0
    BY <1>1, <1>2, <1>5, Tagged
  <1>7. Ends(s, b + 1, Digit, c) /\ b \in 1..Len(s) /\ s[b] = "."
    BY <1>1, <1>2, <1>5, <1>6, Tagged
  <1>8. Ends(s, a + 1, Digit, b) /\ a \in 1..Len(s) /\ s[a] = "."
    BY <1>7, <1>a, <1>b
  <1>9. Ends(s, h, Digit, a)
    BY <1>2, <1>8 DEF a
  <1> QED
    BY <1>7, <1>8, <1>9 DEF VersionAt

\* Nothing but its release, if it has one, is behind a version's numbers.
WholeAt(s, c) ==
  \/ c = Len(s) + 1
  \/ c \in 1..Len(s) /\ s[c] = "-" /\ Run(s, c + 1, Len(s), Skewer)

ReleaseOf(s, c) ==
  IF c > Len(s) THEN NoRelease ELSE [some |-> TRUE, text |-> SubSeq(s, c + 1, Len(s))]

\* The parser is at the end of the text just then, with that release.
LEMMA ReleaseParsed ==
  ASSUME NEW s \in Seq(Char), NEW c \in 1..(Len(s) + 1)
  PROVE  /\ WholeAt(s, c) <=> (IF ReleaseEnd(s, c) = 0 THEN c ELSE ReleaseEnd(s, c)) = Len(s) + 1
         /\ WholeAt(s, c) => ReleaseAt(s, c, ReleaseEnd(s, c)) = ReleaseOf(s, c)
         /\ (IF ReleaseEnd(s, c) = 0 THEN c ELSE ReleaseEnd(s, c)) \in 1..(Len(s) + 1)
  <1> DEFINE t == Tag(s, c, "-")
             r == ReleaseEnd(s, c)
  <1>0. Len(s) \in Nat /\ c \in Nat /\ c # 0 /\ c \in 0..(Len(s) + 1)
    OBVIOUS
  <1>1. /\ t \in 0..(Len(s) + 1)
        /\ c \in 1..Len(s) /\ s[c] = "-" => t = c + 1
        /\ t # 0 => c \in 1..Len(s) /\ s[c] = "-" /\ t = c + 1
    BY <1>0, Tagged
  <1>2. r = Take1(s, t, Skewer)
    BY DEF ReleaseEnd
  <1> HIDE DEF t, r
  <1>3. r # 0 => Ends(s, t, Skewer, r)
    BY <1>1, <1>2, TakeEnds
  <1>4. \A j : Ends(s, t, Skewer, j) => r = j
    BY <1>1, <1>2, TakeEnds
  <1>5. CASE r = 0
    <2>1. ReleaseAt(s, c, r) = NoRelease
      BY <1>5 DEF ReleaseAt
    <2>2. ASSUME c \in 1..Len(s), s[c] = "-", Run(s, c + 1, Len(s), Skewer)
          PROVE  FALSE
      <3>1. t = c + 1 /\ c + 1 \in 1..Len(s)
        BY <1>0, <1>1, <2>2 DEF Run
      <3>2. Ends(s, t, Skewer, Len(s) + 1)
        BY <1>0, <2>2, <3>1 DEF Ends
      <3> QED
        BY <1>0, <1>4, <1>5, <3>2
    <2>3. WholeAt(s, c) <=> c = Len(s) + 1
      BY <2>2 DEF WholeAt
    <2> QED
      BY <1>0, <1>5, <2>1, <2>3 DEF r, ReleaseOf
  <1>6. CASE r # 0
    <2>1. /\ c \in 1..Len(s) /\ s[c] = "-" /\ t = c + 1
          /\ r \in (c + 2)..(Len(s) + 1) /\ Run(s, c + 1, r - 1, Skewer)
          /\ (r = Len(s) + 1 \/ s[r] \notin Skewer)
      BY <1>0, <1>1, <1>3, <1>6 DEF Ends
    <2>2. r = Len(s) + 1 => Run(s, c + 1, Len(s), Skewer)
      BY <1>0, <2>1
    <2>3. Run(s, c + 1, Len(s), Skewer) => r = Len(s) + 1
      BY <1>0, <2>1 DEF Run
    <2>4. WholeAt(s, c) <=> r = Len(s) + 1
      BY <1>0, <2>1, <2>2, <2>3 DEF WholeAt
    <2>5. r = Len(s) + 1 => r - 1 = Len(s) /\ ~(c > Len(s))
      BY <1>0, <2>1
    <2>6. r = Len(s) + 1 => ReleaseAt(s, c, r) = ReleaseOf(s, c)
      BY <1>6, <2>5, Zenon DEF ReleaseAt, ReleaseOf
    <2>7. r \in 1..(Len(s) + 1)
      BY <1>0, <2>1
    <2> QED
      BY <1>6, <2>4, <2>6, <2>7 DEF r
  <1> QED
    BY <1>5, <1>6

\* v stands in the text from h to the end.
WholeVersion(s, h, v) ==
  \E a, b, c : /\ VersionAt(s, h, a, b, c) /\ WholeAt(s, c)
               /\ v = VersionOf(s, h, a, b, c, ReleaseOf(s, c))

\* The grammar reads a version where there is a whole one.
LEMMA VersionRead ==
  ASSUME NEW s \in Seq(Char), NEW h \in 1..(Len(s) + 1), NEW v
  PROVE  v \in VersionReadings(s, h) <=> WholeVersion(s, h, v)
  <1> DEFINE Cut(i, j, k) ==
               /\ Run(s, h, i - 1, Digit) /\ Run(s, i + 1, j - 1, Digit) /\ Run(s, j + 1, k - 1, Digit)
               /\ k <= Len(s) => Run(s, k + 1, Len(s), Skewer)
             In(i, j, k) ==
               /\ i \in Places(s, ".") /\ j \in Places(s, ".")
               /\ k \in Places(s, "-") \cup {Len(s) + 1}
  <1>0. Len(s) \in Nat /\ DOMAIN s = 1..Len(s)
    BY LenProperties
  <1>1. v \in VersionReadings(s, h) <=>
          \E a, b, c : In(a, b, c) /\ Cut(a, b, c) /\ v = VersionOf(s, h, a, b, c, ReleaseOf(s, c))
    <2>1. ASSUME v \in VersionReadings(s, h)
          PROVE  \E a, b, c : In(a, b, c) /\ Cut(a, b, c) /\ v = VersionOf(s, h, a, b, c, ReleaseOf(s, c))
      <3>1. PICK t \in Places(s, ".") \X Places(s, ".") \X (Places(s, "-") \cup {Len(s) + 1}) :
              Cut(t[1], t[2], t[3]) /\ v = VersionOf(s, h, t[1], t[2], t[3], ReleaseOf(s, t[3]))
        BY <2>1, Zenon DEF VersionReadings, VersionOf, ReleaseOf
      <3>2. In(t[1], t[2], t[3])
        BY <3>1
      <3> QED
        BY <3>1, <3>2, Zenon
    <2>2. ASSUME NEW a, NEW b, NEW c, In(a, b, c), Cut(a, b, c),
                 v = VersionOf(s, h, a, b, c, ReleaseOf(s, c))
          PROVE  v \in VersionReadings(s, h)
      <3>1. PICK t : t = <<a, b, c>>
        OBVIOUS
      <3>2. /\ t \in Places(s, ".") \X Places(s, ".") \X (Places(s, "-") \cup {Len(s) + 1})
            /\ t[1] = a /\ t[2] = b /\ t[3] = c
        BY <2>2, <3>1
      <3>3. Cut(t[1], t[2], t[3]) /\ v = VersionOf(s, h, t[1], t[2], t[3], ReleaseOf(s, t[3]))
        BY <2>2, <3>2, Zenon
      <3> QED
        BY <3>2, <3>3, Zenon DEF VersionReadings, VersionOf, ReleaseOf
    <2> QED
      BY <2>1, <2>2, Zenon
  <1>2. ASSUME NEW a, NEW b, NEW c
        PROVE  In(a, b, c) /\ Cut(a, b, c) <=> VersionAt(s, h, a, b, c) /\ WholeAt(s, c)
    <2>0. \A i, n : s[i] = n /\ n \in {".", "-"} => s[i] \notin Digit
      BY Classes
    <2>1. ASSUME In(a, b, c), Cut(a, b, c) PROVE VersionAt(s, h, a, b, c) /\ WholeAt(s, c)
      <3>1. /\ a \in 1..Len(s) /\ s[a] = "." /\ b \in 1..Len(s) /\ s[b] = "."
            /\ c \in 1..(Len(s) + 1) /\ (c = Len(s) + 1 \/ (c \in 1..Len(s) /\ s[c] = "-"))
        <4>1. /\ a \in 1..Len(s) /\ s[a] = "." /\ b \in 1..Len(s) /\ s[b] = "."
              /\ c = Len(s) + 1 \/ (c \in 1..Len(s) /\ s[c] = "-")
          BY <1>0, <2>1, Zenon DEF Places
        <4> QED
          BY <1>0, <4>1
      <3>2. h <= a - 1 /\ a + 1 <= b - 1 /\ b + 1 <= c - 1
        BY <2>1, Zenon DEF Run
      <3>3. Ends(s, h, Digit, a)
        BY <1>0, <2>0, <2>1, <3>1, <3>2 DEF Ends
      <3>4. Ends(s, a + 1, Digit, b)
        BY <1>0, <2>0, <2>1, <3>1, <3>2, SMTT(20) DEF Ends
      <3>5. Ends(s, b + 1, Digit, c)
        BY <1>0, <2>0, <2>1, <3>1, <3>2 DEF Ends
      <3>6. WholeAt(s, c)
        BY <1>0, <2>1, <3>1 DEF WholeAt
      <3> QED
        BY <3>1, <3>3, <3>4, <3>5, <3>6 DEF VersionAt
    <2>2. ASSUME VersionAt(s, h, a, b, c), WholeAt(s, c) PROVE In(a, b, c) /\ Cut(a, b, c)
      <3>1. In(a, b, c)
        BY <1>0, <2>2 DEF VersionAt, WholeAt, Places
      <3>2. c <= Len(s) => Run(s, c + 1, Len(s), Skewer)
        BY <1>0, <2>2 DEF WholeAt
      <3> QED
        BY <2>2, <3>1, <3>2, Zenon DEF VersionAt, Ends
    <2> QED
      BY <2>1, <2>2
  <1> QED
    BY <1>1, <1>2, Zenon DEF WholeVersion

-----------------------------------------------------------------------------
(* A text and one it begins with. *)

\* What a text that is cut keeps.
LEMMA Begins ==
  ASSUME NEW s \in Seq(Char), NEW n \in 0..Len(s)
  PROVE  /\ SubSeq(s, 1, n) \in Seq(Char) /\ Len(SubSeq(s, 1, n)) = n
         /\ \A i \in 1..n : SubSeq(s, 1, n)[i] = s[i]
         /\ \A i \in 1..n, j \in 1..n : i <= j => SubSeq(SubSeq(s, 1, n), i, j) = SubSeq(s, i, j)
  <1> DEFINE t == SubSeq(s, 1, n)
  <1>0. Len(s) \in Nat /\ n \in Nat /\ n <= Len(s) /\ \A i \in 1..Len(s) : s[i] \in Char
    OBVIOUS
  <1>1. t \in Seq(Char) /\ Len(t) = n /\ \A i \in 1..n : t[i] = s[i]
    OBVIOUS
  <1>2. ASSUME NEW i \in 1..n, NEW j \in 1..n, i <= j
        PROVE  SubSeq(t, i, j) = SubSeq(s, i, j)
    <2>1. \A k \in i..j : k \in 1..n /\ k \in 1..Len(s)
      BY <1>0
    <2>2. \A k \in i..j : t[k] \in Char /\ s[k] \in Char
      BY <1>0, <1>1, <2>1
    <2> HIDE DEF t
    <2>3. PICK x : x = SubSeq(t, i, j)
      OBVIOUS
    <2>4. x \in Seq(Char) /\ Len(x) = j - i + 1 /\ \A k \in 1..(j - i + 1) : x[k] = t[i + k - 1]
      BY <1>2, <2>2, <2>3, SubSeqProperties
    <2>5. PICK y : y = SubSeq(s, i, j)
      OBVIOUS
    <2>6. y \in Seq(Char) /\ Len(y) = j - i + 1 /\ \A k \in 1..(j - i + 1) : y[k] = s[i + k - 1]
      BY <1>2, <2>2, <2>5, SubSeqProperties
    <2>7. \A k \in 1..(j - i + 1) : i + k - 1 \in 1..n
      BY <1>0
    <2>8. \A k \in 1..Len(x) : x[k] = y[k]
      BY <1>1, <2>4, <2>6, <2>7
    <2> QED
      BY <2>3, <2>4, <2>5, <2>6, <2>8, SeqEqual
  <1> QED
    BY <1>1, <1>2

\* A run that ends inside the cut ends there in the whole text, and conversely.
LEMMA EndsBefore ==
  ASSUME NEW s \in Seq(Char), NEW n \in 0..Len(s), NEW class, NEW i, NEW j \in 1..n
  PROVE  Ends(SubSeq(s, 1, n), i, class, j) <=> Ends(s, i, class, j)
  <1>1. PICK t : t = SubSeq(s, 1, n)
    OBVIOUS
  <1>2. /\ Len(t) = n /\ Len(s) \in Nat /\ n \in Nat /\ n <= Len(s)
        /\ \A k \in 1..n : t[k] = s[k]
    BY <1>1, Begins
  <1>3. ASSUME Ends(t, i, class, j) PROVE Ends(s, i, class, j)
    <2>1. i \in 1..n /\ j \in (i + 1)..n /\ Run(t, i, j - 1, class) /\ t[j] \notin class
      BY <1>2, <1>3 DEF Ends
    <2>a. \A k \in i..(j - 1) : k \in 1..n /\ t[k] = s[k]
      BY <1>2, <2>1
    <2>2. Run(s, i, j - 1, class)
      BY <2>1, <2>a, Zenon DEF Run
    <2> QED
      BY <1>2, <2>1, <2>2 DEF Ends
  <1>4. ASSUME Ends(s, i, class, j) PROVE Ends(t, i, class, j)
    <2>1. i \in 1..n /\ j \in (i + 1)..n /\ Run(s, i, j - 1, class) /\ s[j] \notin class
      BY <1>2, <1>4 DEF Ends
    <2>a. \A k \in i..(j - 1) : k \in 1..n /\ t[k] = s[k]
      BY <1>2, <2>1
    <2>2. Run(t, i, j - 1, class)
      BY <2>1, <2>a, Zenon DEF Run
    <2> QED
      BY <1>2, <2>1, <2>2 DEF Ends
  <1> QED
    BY <1>1, <1>3, <1>4

\* A version in the cut is in the whole text, with a patch that counts no less.
LEMMA VersionBefore ==
  ASSUME NEW s \in Seq(Char), NEW n \in 0..Len(s), NEW h, NEW a, NEW b, NEW c,
         VersionAt(SubSeq(s, 1, n), h, a, b, c)
  PROVE  \E d : /\ VersionAt(s, h, a, b, d)
                /\ \A m \in NumbersAt(SubSeq(s, 1, n), h, a, b, c) :
                     m > MaxNumber => \E k \in NumbersAt(s, h, a, b, d) : k > MaxNumber
  <1>1. PICK t : t = SubSeq(s, 1, n)
    OBVIOUS
  <1>2. /\ t \in Seq(Char) /\ Len(t) = n /\ Len(s) \in Nat /\ n \in Nat /\ n <= Len(s)
        /\ \A k \in 1..n : t[k] = s[k]
        /\ \A i \in 1..n, j \in 1..n : i <= j => SubSeq(t, i, j) = SubSeq(s, i, j)
    BY <1>1, Begins
  <1>3. VersionAt(t, h, a, b, c)
    BY <1>1
  <1>4. /\ h \in 1..n /\ a \in 1..n /\ b \in 1..n /\ c \in 1..(n + 1)
        /\ h < a /\ a + 1 < b /\ b + 1 < c /\ s[a] = "." /\ s[b] = "."
    BY <1>2, <1>3 DEF VersionAt, Ends
  <1>5. Ends(s, h, Digit, a) /\ Ends(s, a + 1, Digit, b)
    BY <1>1, <1>3, <1>4, EndsBefore DEF VersionAt
  <1>6. b + 1 \in 1..n /\ Run(t, b + 1, c - 1, Digit)
    BY <1>2, <1>3, <1>4 DEF VersionAt, Ends
  <1>7. \A k \in (b + 1)..(c - 1) : k \in 1..n /\ s[k] \in Digit
    BY <1>2, <1>4, <1>6 DEF Run
  <1>8. PICK d : Ends(s, b + 1, Digit, d)
    <2>1. b + 1 \in 1..Len(s) /\ s[b + 1] \in Digit /\ b + 1 \in 0..(Len(s) + 1)
      BY <1>2, <1>4, <1>6, <1>7
    <2> QED
      BY <2>1, TakeEnds
  <1>9. d \in c..(Len(s) + 1)
    BY <1>2, <1>4, <1>7, <1>8 DEF Ends
  <1>10. VersionAt(s, h, a, b, d)
    BY <1>2, <1>4, <1>5, <1>8 DEF VersionAt
  <1>11. /\ SubSeq(t, h, a - 1) = SubSeq(s, h, a - 1)
         /\ SubSeq(t, a + 1, b - 1) = SubSeq(s, a + 1, b - 1)
         /\ SubSeq(t, b + 1, c - 1) = SubSeq(s, b + 1, c - 1)
    <2>1. /\ a - 1 \in 1..n /\ b - 1 \in 1..n /\ c - 1 \in 1..n /\ a + 1 \in 1..n /\ b + 1 \in 1..n
          /\ h <= a - 1 /\ a + 1 <= b - 1 /\ b + 1 <= c - 1
      BY <1>2, <1>4
    <2> QED
      BY <1>2, <1>4, <2>1
  <1>12. /\ Number(SubSeq(s, b + 1, d - 1)) \in Nat
         /\ Number(SubSeq(s, b + 1, c - 1)) <= Number(SubSeq(s, b + 1, d - 1))
    <2>1. b + 1 \in 1..Len(s) /\ d - 1 \in (b + 1)..Len(s) /\ c - 1 \in (b + 1)..(d - 1)
      BY <1>2, <1>4, <1>9
    <2>2. Run(s, b + 1, d - 1, Digit)
      BY <1>8 DEF Ends
    <2> QED
      BY <2>1, <2>2, NumberGrows
  <1>13. Number(SubSeq(s, b + 1, c - 1)) \in Nat
    <2>1. b + 1 \in 1..Len(s) /\ c - 1 \in (b + 1)..Len(s) /\ c - 1 \in (b + 1)..(c - 1)
      BY <1>2, <1>4, <1>9
    <2>2. Run(s, b + 1, c - 1, Digit)
      BY <1>4, <1>7 DEF Run
    <2> QED
      BY <2>1, <2>2, NumberGrows
  <1>14. ASSUME NEW m \in NumbersAt(t, h, a, b, c), m > MaxNumber
         PROVE  \E k \in NumbersAt(s, h, a, b, d) : k > MaxNumber
    <2>1. CASE m = Number(SubSeq(s, b + 1, c - 1))
      <3>1. \A x, y \in Nat : x > MaxNumber /\ x <= y => y > MaxNumber
        BY ConstantsAssumption DEF ConstantsAssumption
      <3>2. Number(SubSeq(s, b + 1, d - 1)) > MaxNumber
        BY <1>12, <1>13, <1>14, <2>1, <3>1, Zenon
      <3> QED
        BY <3>2, Zenon DEF NumbersAt
    <2>2. CASE m # Number(SubSeq(s, b + 1, c - 1))
      <3>1. m \in NumbersAt(s, h, a, b, d)
        BY <1>11, <1>14, <2>2, Zenon DEF NumbersAt
      <3> QED
        BY <1>14, <3>1
    <2> QED
      BY <2>1, <2>2
  <1> QED
    BY <1>1, <1>10, <1>14, Zenon

\* The parser panics where some beginning of the text has a number too large.
LEMMA VersionPanics ==
  ASSUME NEW s \in Seq(Char), NEW h \in 1..(Len(s) + 1)
  PROVE  ParseVersion(s, h).panics <=>
           \E n \in 1..Len(s) : h <= n + 1 /\
             \E v \in VersionReadings(SubSeq(s, 1, n), h) :
               \E m \in {v.major, v.minor, v.patch} : m > MaxNumber
  <1>0. Len(s) \in Nat /\ h \in 0..(Len(s) + 1)
    OBVIOUS
  <1>1. ASSUME NEW a, NEW b, NEW c, VersionAt(s, h, a, b, c),
               NEW m \in NumbersAt(s, h, a, b, c), m > MaxNumber
        PROVE  \E n \in 1..Len(s) : h <= n + 1 /\
                 \E v \in VersionReadings(SubSeq(s, 1, n), h) :
                   \E k \in {v.major, v.minor, v.patch} : k > MaxNumber
    <2>1. /\ h \in 1..Len(s) /\ a \in 1..Len(s) /\ b \in 1..Len(s) /\ c \in 1..(Len(s) + 1)
          /\ h < a /\ a + 1 < b /\ b + 1 < c
          /\ Ends(s, h, Digit, a) /\ Ends(s, a + 1, Digit, b)
          /\ s[a] = "." /\ s[b] = "." /\ Run(s, b + 1, c - 1, Digit)
      BY <1>0, <1>1 DEF VersionAt, Ends
    <2>2. PICK n : n = c - 1
      OBVIOUS
    <2>3. /\ n \in 0..Len(s) /\ n \in 1..Len(s) /\ h <= n + 1 /\ h \in 1..(n + 1)
          /\ a \in 1..n /\ b \in 1..n /\ b + 1 <= n
      BY <1>0, <2>1, <2>2
    <2>4. PICK t : t = SubSeq(s, 1, n)
      OBVIOUS
    <2>5. /\ t \in Seq(Char) /\ Len(t) = n /\ \A k \in 1..n : t[k] = s[k]
          /\ \A i \in 1..n, j \in 1..n : i <= j => SubSeq(t, i, j) = SubSeq(s, i, j)
      BY <2>3, <2>4, Begins
    <2>6. Ends(t, h, Digit, a) /\ Ends(t, a + 1, Digit, b)
      BY <2>1, <2>3, <2>4, EndsBefore
    <2>7. Ends(t, b + 1, Digit, c)
      <3>1. \A k \in (b + 1)..(c - 1) : k \in 1..n /\ t[k] = s[k]
        BY <1>0, <2>1, <2>2, <2>3, <2>5
      <3>2. Run(t, b + 1, c - 1, Digit)
        BY <2>1, <3>1, Zenon DEF Run
      <3>3. b + 1 \in 1..n /\ c \in (b + 1 + 1)..(n + 1) /\ c = n + 1
        BY <1>0, <2>1, <2>2, <2>3
      <3> QED
        BY <2>5, <3>2, <3>3 DEF Ends
    <2>8. VersionAt(t, h, a, b, c)
      BY <2>1, <2>3, <2>5, <2>6, <2>7 DEF VersionAt
    <2>9. WholeAt(t, c)
      BY <1>0, <2>1, <2>2, <2>5 DEF WholeAt
    <2>10. PICK v : v = VersionOf(t, h, a, b, c, ReleaseOf(t, c))
      OBVIOUS
    <2>11. v \in VersionReadings(t, h)
      <3>1. WholeVersion(t, h, v) /\ h \in 1..(Len(t) + 1)
        BY <2>3, <2>5, <2>8, <2>9, <2>10, Zenon DEF WholeVersion
      <3> QED
        BY <2>5, <3>1, VersionRead, Zenon
    <2>12. {v.major, v.minor, v.patch} = NumbersAt(s, h, a, b, c)
      <3>1. /\ SubSeq(t, h, a - 1) = SubSeq(s, h, a - 1)
            /\ SubSeq(t, a + 1, b - 1) = SubSeq(s, a + 1, b - 1)
            /\ SubSeq(t, b + 1, c - 1) = SubSeq(s, b + 1, c - 1)
        <4>1. /\ a - 1 \in 1..n /\ b - 1 \in 1..n /\ c - 1 \in 1..n /\ a + 1 \in 1..n /\ b + 1 \in 1..n
              /\ h \in 1..n /\ h <= a - 1 /\ a + 1 <= b - 1 /\ b + 1 <= c - 1
          BY <1>0, <2>1, <2>2, <2>3
        <4> QED
          BY <2>5, <4>1
      <3> QED
        BY <2>10, <3>1, Zenon DEF VersionOf, NumbersAt
    <2> QED
      BY <1>1, <2>3, <2>4, <2>11, <2>12, Zenon
  <1>2. ASSUME NEW n \in 1..Len(s), h <= n + 1,
               NEW v \in VersionReadings(SubSeq(s, 1, n), h),
               NEW m \in {v.major, v.minor, v.patch}, m > MaxNumber
        PROVE  \E a, b, c : VersionAt(s, h, a, b, c) /\ \E k \in NumbersAt(s, h, a, b, c) : k > MaxNumber
    <2>1. PICK t : t = SubSeq(s, 1, n)
      OBVIOUS
    <2>2. t \in Seq(Char) /\ Len(t) = n /\ n \in 0..Len(s)
      BY <2>1, Begins
    <2>3. h \in 1..(Len(t) + 1)
      BY <1>0, <1>2, <2>2
    <2>a. v \in VersionReadings(t, h)
      BY <2>1, Zenon
    <2>b. WholeVersion(t, h, v)
      BY <2>2, <2>3, <2>a, VersionRead, Zenon
    <2>4. PICK a, b, c : VersionAt(t, h, a, b, c) /\ v = VersionOf(t, h, a, b, c, ReleaseOf(t, c))
      BY <2>b, Zenon DEF WholeVersion
    <2>5. m \in NumbersAt(t, h, a, b, c)
      BY <2>4, Zenon DEF VersionOf, NumbersAt
    <2>6. PICK d : /\ VersionAt(s, h, a, b, d)
                   /\ \A x \in NumbersAt(t, h, a, b, c) :
                        x > MaxNumber => \E k \in NumbersAt(s, h, a, b, d) : k > MaxNumber
      BY <2>1, <2>2, <2>4, VersionBefore
    <2> QED
      BY <1>2, <2>5, <2>6, Zenon
  <1>3. ASSUME NEW a, NEW b, NEW c, VersionAt(s, h, a, b, c)
        PROVE  ParseVersion(s, h).panics = \E n \in NumbersAt(s, h, a, b, c) : n > MaxNumber
    <2>1. PICK x, p, y : /\ x = IF ReleaseEnd(s, c) = 0 THEN c ELSE ReleaseEnd(s, c)
                         /\ p = \E n \in NumbersAt(s, h, a, b, c) : n > MaxNumber
                         /\ y = VersionOf(s, h, a, b, c, ReleaseAt(s, c, ReleaseEnd(s, c)))
      OBVIOUS
    <2>2. ParseVersion(s, h) = [next |-> x, panics |-> p, it |-> y]
      BY <1>3, <2>1, VersionParsed, Zenon
    <2>3. ParseVersion(s, h).panics = p
      BY <2>2
    <2> QED
      BY <2>1, <2>3, Zenon
  <1>4. (~ \E a, b, c : VersionAt(s, h, a, b, c)) => ~ParseVersion(s, h).panics
    BY <1>0, VersionFailed DEF Fail
  <1>5. ASSUME ParseVersion(s, h).panics
        PROVE  \E n \in 1..Len(s) : h <= n + 1 /\
                 \E v \in VersionReadings(SubSeq(s, 1, n), h) :
                   \E m \in {v.major, v.minor, v.patch} : m > MaxNumber
    <2>1. PICK a, b, c : VersionAt(s, h, a, b, c)
      BY <1>4, <1>5, Zenon
    <2>2. PICK m \in NumbersAt(s, h, a, b, c) : m > MaxNumber
      BY <1>3, <1>5, <2>1, Zenon
    <2> QED
      BY <1>1, <2>1, <2>2, Zenon
  <1>6. ASSUME NEW n \in 1..Len(s), h <= n + 1,
               \E v \in VersionReadings(SubSeq(s, 1, n), h) :
                 \E m \in {v.major, v.minor, v.patch} : m > MaxNumber
        PROVE  ParseVersion(s, h).panics
    <2>1. PICK a, b, c : VersionAt(s, h, a, b, c) /\ \E k \in NumbersAt(s, h, a, b, c) : k > MaxNumber
      BY <1>2, <1>6, Zenon
    <2> QED
      BY <1>3, <2>1, Zenon
  <1> QED
    BY <1>5, <1>6, Zenon

\* A version that was parsed to the end is what the grammar reads.
LEMMA VersionReadsAsGrammar ==
  ASSUME NEW s \in Seq(Char), NEW h \in 1..(Len(s) + 1)
  PROVE  VersionReadings(s, h) =
           IF ParseVersion(s, h).next = Len(s) + 1 THEN {ParseVersion(s, h).it} ELSE {}
  <1>0. Len(s) \in Nat /\ h \in 0..(Len(s) + 1) /\ Fail.next # Len(s) + 1
    BY DEF Fail
  <1>1. ASSUME NEW a, NEW b, NEW c, VersionAt(s, h, a, b, c)
        PROVE  /\ ParseVersion(s, h).next = Len(s) + 1 <=> WholeAt(s, c)
               /\ WholeAt(s, c) => ParseVersion(s, h).it = VersionOf(s, h, a, b, c, ReleaseOf(s, c))
    <2>1. c \in 1..(Len(s) + 1)
      BY <1>0, <1>1 DEF VersionAt, Ends
    <2>2. /\ ParseVersion(s, h).next = IF ReleaseEnd(s, c) = 0 THEN c ELSE ReleaseEnd(s, c)
          /\ ParseVersion(s, h).it = VersionOf(s, h, a, b, c, ReleaseAt(s, c, ReleaseEnd(s, c)))
      BY <1>1, VersionParsed
    <2> QED
      BY <2>1, <2>2, ReleaseParsed, Zenon
  <1>2. CASE \E a, b, c : VersionAt(s, h, a, b, c)
    <2>1. PICK a, b, c : VersionAt(s, h, a, b, c)
      BY <1>2
    <2>2. \A x, y, z : VersionAt(s, h, x, y, z) => x = a /\ y = b /\ z = c
      BY <2>1, EndsOnce, Zenon DEF VersionAt
    <2>3. \A v : v \in VersionReadings(s, h) <=>
                   WholeAt(s, c) /\ v = VersionOf(s, h, a, b, c, ReleaseOf(s, c))
      <3>1. ASSUME NEW v, v \in VersionReadings(s, h)
            PROVE  WholeAt(s, c) /\ v = VersionOf(s, h, a, b, c, ReleaseOf(s, c))
        <4>a. WholeVersion(s, h, v)
          BY <3>1, VersionRead, Zenon
        <4>1. PICK x, y, z : /\ VersionAt(s, h, x, y, z) /\ WholeAt(s, z)
                             /\ v = VersionOf(s, h, x, y, z, ReleaseOf(s, z))
          BY <4>a, Zenon DEF WholeVersion
        <4>2. x = a /\ y = b /\ z = c
          BY <2>2, <4>1, Zenon
        <4> QED
          BY <4>1, <4>2, Zenon
      <3>2. ASSUME NEW v, WholeAt(s, c), v = VersionOf(s, h, a, b, c, ReleaseOf(s, c))
            PROVE  v \in VersionReadings(s, h)
        <4>1. WholeVersion(s, h, v)
          BY <2>1, <3>2, Zenon DEF WholeVersion
        <4> QED
          BY <4>1, VersionRead, Zenon
      <3> QED
        BY <3>1, <3>2, Zenon
    <2>4. CASE WholeAt(s, c)
      <3>1. VersionReadings(s, h) = {VersionOf(s, h, a, b, c, ReleaseOf(s, c))}
        BY <2>3, <2>4
      <3> QED
        BY <1>1, <2>1, <2>4, <3>1, Zenon
    <2>5. CASE ~WholeAt(s, c)
      <3>1. VersionReadings(s, h) = {}
        BY <2>3, <2>5
      <3> QED
        BY <1>1, <2>1, <2>5, <3>1, Zenon
    <2> QED
      BY <2>4, <2>5
  <1>3. CASE ~ \E a, b, c : VersionAt(s, h, a, b, c)
    <2>1. ParseVersion(s, h) = Fail
      BY <1>0, <1>3, VersionFailed
    <2>2. \A v : v \notin VersionReadings(s, h)
      BY <1>3, VersionRead, Zenon DEF WholeVersion
    <2> QED
      BY <1>0, <2>1, <2>2
  <1> QED
    BY <1>2, <1>3

-----------------------------------------------------------------------------
(* A specific in a text. *)

\* A specific begins with the text: its strings end at v, p and q.
SpecificAt(s, v, p, q) ==
  /\ Ends(s, 1, Domain, v) /\ v \in 1..Len(s) /\ s[v] = ":"
  /\ Ends(s, v + 1, Skewer, p) /\ p \in 1..Len(s) /\ s[p] = ":"
  /\ Ends(s, p + 1, Skewer, q) /\ q \in 1..Len(s) /\ s[q] = ":"

SpecificOf(s, v, p, q, version) ==
  [vendor |-> SubSeq(s, 1, v - 1), product |-> SubSeq(s, v + 1, p - 1),
   variant |-> SubSeq(s, p + 1, q - 1), version |-> version]

\* It begins at one place only.
LEMMA SpecificOnce ==
  ASSUME NEW s \in Seq(Char), NEW v, NEW p, NEW q, NEW x, NEW y, NEW z,
         SpecificAt(s, v, p, q), SpecificAt(s, x, y, z)
  PROVE  x = v /\ y = p /\ z = q
  BY EndsOnce, Zenon DEF SpecificAt

\* The parser finds it where it is and goes on with the version.
LEMMA SpecificParsed ==
  ASSUME NEW s \in Seq(Char), NEW v, NEW p, NEW q, SpecificAt(s, v, p, q)
  PROVE  /\ q + 1 \in 1..(Len(s) + 1)
         /\ ParseSpecific(s) =
              IF ParseVersion(s, q + 1).next = 0 THEN Fail
              ELSE [ParseVersion(s, q + 1) EXCEPT !.it = SpecificOf(s, v, p, q, @)]
  <1>0. /\ Len(s) \in Nat /\ 1 \in 0..(Len(s) + 1) /\ v \in 1..Len(s) /\ p \in 1..Len(s) /\ q \in 1..Len(s)
        /\ s[v] = ":" /\ s[p] = ":" /\ s[q] = ":"
    BY SMTT(20) DEF SpecificAt, Ends
  <1>1. /\ v + 1 \in 0..(Len(s) + 1) /\ p + 1 \in 0..(Len(s) + 1) /\ q + 1 \in 1..(Len(s) + 1)
        /\ q + 1 # 0
    BY <1>0
  <1>2. v = Take1(s, 1, Domain)
    BY <1>0, TakeEnds DEF SpecificAt
  <1>3. p = Take1(s, v + 1, Skewer)
    BY <1>1, TakeEnds DEF SpecificAt
  <1>4. q = Take1(s, p + 1, Skewer)
    BY <1>1, TakeEnds DEF SpecificAt
  <1>5. Tag(s, v, ":") = v + 1 /\ Tag(s, p, ":") = p + 1 /\ Tag(s, q, ":") = q + 1
    BY <1>0, Zenon DEF Tag
  <1> QED
    BY <1>1, <1>2, <1>3, <1>4, <1>5, Zenon DEF ParseSpecific, SpecificOf

\* It fails where there is none, or no version behind it.
LEMMA SpecificFailed ==
  ASSUME NEW s \in Seq(Char), ParseSpecific(s) # Fail
  PROVE  \E v, p, q : SpecificAt(s, v, p, q) /\ ParseVersion(s, q + 1).next # 0
  <1> DEFINE v == Take1(s, 1, Domain)
             p == Take1(s, Tag(s, v, ":"), Skewer)
             q == Take1(s, Tag(s, p, ":"), Skewer)
  <1>0. Len(s) \in Nat /\ 0 \in 0..(Len(s) + 1) /\ 1 \in 0..(Len(s) + 1) /\ Fail.next = 0
    BY DEF Fail
  <1>1. Tag(s, q, ":") # 0 /\ ParseVersion(s, q + 1).next # 0
    BY <1>0, Zenon DEF ParseSpecific
  <1>2. ASSUME NEW class, NEW i \in 0..(Len(s) + 1), Take1(s, i, class) # 0
        PROVE  /\ Ends(s, i, class, Take1(s, i, class))
               /\ Take1(s, i, class) \in 0..(Len(s) + 1) /\ i # 0
    BY <1>2, TakeEnds DEF Ends
  <1>3. ASSUME NEW class, NEW i \in 0..(Len(s) + 1) PROVE Take1(s, i, class) \in 0..(Len(s) + 1)
    BY <1>0, <1>2
  <1>4. v \in 0..(Len(s) + 1) /\ (v # 0 => Ends(s, 1, Domain, v))
    BY <1>0, <1>2, <1>3
  <1> HIDE DEF v
  <1>5. p \in 0..(Len(s) + 1)
    BY <1>3, <1>4, Tagged
  <1>a. p # 0 => Tag(s, v, ":") # 0 /\ Ends(s, v + 1, Skewer, p) /\ v \in 1..Len(s) /\ s[v] = ":"
    BY <1>2, <1>4, Tagged
  <1> HIDE DEF p
  <1>6. q \in 0..(Len(s) + 1)
    BY <1>3, <1>5, Tagged
  <1>b. q # 0 => Tag(s, p, ":") # 0 /\ Ends(s, p + 1, Skewer, q) /\ p \in 1..Len(s) /\ s[p] = ":"
    BY <1>2, <1>5, Tagged
  <1> HIDE DEF q
  <1>7. q \in 1..Len(s) /\ s[q] = ":"
    BY <1>1, <1>6, Tagged
  <1>8. Ends(s, p + 1, Skewer, q) /\ p \in 1..Len(s) /\ s[p] = ":"
    BY <1>7, <1>b
  <1>9. Ends(s, v + 1, Skewer, p) /\ v \in 1..Len(s) /\ s[v] = ":"
    BY <1>8, <1>a
  <1>10. Ends(s, 1, Domain, v)
    BY <1>4, <1>9
  <1> QED
    BY <1>1, <1>7, <1>8, <1>9, <1>10, Zenon DEF SpecificAt

\* A run before a character that is not of the class ends there.
LEMMA EndsThere ==
  ASSUME NEW s \in Seq(Char), NEW class, NEW i \in Nat \ {0}, NEW j \in 1..(Len(s) + 1),
         Run(s, i, j - 1, class), j = Len(s) + 1 \/ s[j] \notin class
  PROVE  Ends(s, i, class, j)
  <1>1. Len(s) \in Nat /\ i <= j - 1
    BY DEF Run
  <1>2. i \in 1..Len(s) /\ j \in (i + 1)..(Len(s) + 1)
    BY <1>1
  <1> QED
    BY <1>2, Zenon DEF Ends

\* It begins the text, and a version goes from there to the end.
WholeSpecific(s, it) ==
  \E v, p, q : /\ SpecificAt(s, v, p, q)
               /\ \E w \in VersionReadings(s, q + 1) : it = SpecificOf(s, v, p, q, w)

\* The grammar reads a specific where there is a whole one.
LEMMA SpecificRead ==
  ASSUME NEW s \in Seq(Char), NEW it
  PROVE  it \in SpecificReadings(s) <=> WholeSpecific(s, it)
  <1> DEFINE Cut(i, j, k) ==
        Run(s, 1, i - 1, Domain) /\ Run(s, i + 1, j - 1, Skewer) /\ Run(s, j + 1, k - 1, Skewer)
      In(i, j, k) == i \in Places(s, ":") /\ j \in Places(s, ":") /\ k \in Places(s, ":")
      Goes(i, j, k) == \E w \in VersionReadings(s, k + 1) : it = SpecificOf(s, i, j, k, w)
  <1>0. Len(s) \in Nat /\ DOMAIN s = 1..Len(s)
    BY LenProperties
  <1>1. ASSUME it \in SpecificReadings(s)
        PROVE  \E i, j, k : In(i, j, k) /\ Cut(i, j, k) /\ Goes(i, j, k)
    <2>1. PICK c \in Places(s, ":") \X Places(s, ":") \X Places(s, ":") :
            Cut(c[1], c[2], c[3]) /\ Goes(c[1], c[2], c[3])
      BY <1>1, Zenon DEF SpecificReadings, SpecificOf
    <2>2. In(c[1], c[2], c[3])
      BY <2>1
    <2> QED
      BY <2>1, <2>2, Zenon
  <1>2. ASSUME NEW i, NEW j, NEW k, In(i, j, k), Cut(i, j, k), Goes(i, j, k)
        PROVE  it \in SpecificReadings(s)
    <2>1. PICK c : c = <<i, j, k>>
      OBVIOUS
    <2>2. /\ c \in Places(s, ":") \X Places(s, ":") \X Places(s, ":")
          /\ c[1] = i /\ c[2] = j /\ c[3] = k
      BY <1>2, <2>1
    <2>3. Cut(c[1], c[2], c[3])
      BY <1>2, <2>2, Zenon
    <2>4. PICK w \in VersionReadings(s, c[3] + 1) : it = SpecificOf(s, c[1], c[2], c[3], w)
      BY <1>2, <2>2, Zenon
    <2>5. PICK part : part = {[vendor |-> SubSeq(s, 1, c[1] - 1), product |-> SubSeq(s, c[1] + 1, c[2] - 1),
                               variant |-> SubSeq(s, c[2] + 1, c[3] - 1), version |-> v] :
                                v \in VersionReadings(s, c[3] + 1)}
      OBVIOUS
    <2>6. it \in part
      BY <2>4, <2>5, Zenon DEF SpecificOf
    <2>7. part \in {{[vendor |-> SubSeq(s, 1, d[1] - 1), product |-> SubSeq(s, d[1] + 1, d[2] - 1),
                       variant |-> SubSeq(s, d[2] + 1, d[3] - 1), version |-> v] :
                        v \in VersionReadings(s, d[3] + 1)} :
                          d \in {d \in Places(s, ":") \X Places(s, ":") \X Places(s, ":") :
                                   Cut(d[1], d[2], d[3])}}
      BY <2>2, <2>3, <2>5, Zenon
    <2> QED
      BY <2>6, <2>7, Zenon DEF SpecificReadings
  <1>3. ASSUME NEW i, NEW j, NEW k
        PROVE  In(i, j, k) /\ Cut(i, j, k) <=> SpecificAt(s, i, j, k)
    <2>0. \A n : s[n] = ":" => s[n] \notin Domain /\ s[n] \notin Skewer
      BY Classes
    <2>1. ASSUME In(i, j, k), Cut(i, j, k) PROVE SpecificAt(s, i, j, k)
      <3>1. /\ i \in 1..Len(s) /\ s[i] = ":" /\ j \in 1..Len(s) /\ s[j] = ":"
            /\ k \in 1..Len(s) /\ s[k] = ":"
        BY <1>0, <2>1, Zenon DEF Places
      <3>2. 1 <= i - 1 /\ i + 1 <= j - 1 /\ j + 1 <= k - 1
        BY <2>1, Zenon DEF Run
      <3>a. /\ 1 \in Nat \ {0} /\ i + 1 \in Nat \ {0} /\ j + 1 \in Nat \ {0}
            /\ i \in 1..(Len(s) + 1) /\ j \in 1..(Len(s) + 1) /\ k \in 1..(Len(s) + 1)
        BY <1>0, <3>1
      <3>3. Ends(s, 1, Domain, i)
        BY <2>0, <2>1, <3>1, <3>a, EndsThere, Zenon
      <3>4. Ends(s, i + 1, Skewer, j)
        BY <2>0, <2>1, <3>1, <3>a, EndsThere, Zenon
      <3>5. Ends(s, j + 1, Skewer, k)
        BY <2>0, <2>1, <3>1, <3>a, EndsThere, Zenon
      <3> QED
        BY <3>1, <3>3, <3>4, <3>5 DEF SpecificAt
    <2>2. ASSUME SpecificAt(s, i, j, k) PROVE In(i, j, k) /\ Cut(i, j, k)
      <3>1. In(i, j, k)
        BY <1>0, <2>2, Zenon DEF SpecificAt, Places
      <3> QED
        BY <2>2, <3>1, Zenon DEF SpecificAt, Ends
    <2> QED
      BY <2>1, <2>2
  <1>4. ASSUME it \in SpecificReadings(s) PROVE WholeSpecific(s, it)
    BY <1>1, <1>3, <1>4, Zenon DEF WholeSpecific
  <1>5. ASSUME WholeSpecific(s, it) PROVE it \in SpecificReadings(s)
    BY <1>2, <1>3, <1>5, Zenon DEF WholeSpecific
  <1> QED
    BY <1>4, <1>5

\* A version's parser fails or gives a place, whether it panics and a version.
LEMMA VersionShape ==
  ASSUME NEW s \in Seq(Char), NEW h \in 0..(Len(s) + 1), ParseVersion(s, h) # Fail
  PROVE  /\ ParseVersion(s, h).next \in 1..(Len(s) + 1)
         /\ \E x, p, y : ParseVersion(s, h) = [next |-> x, panics |-> p, it |-> y]
         /\ ParseVersion(s, h).panics \in BOOLEAN
  <1>1. PICK a, b, c : VersionAt(s, h, a, b, c)
    BY VersionFailed
  <1>2. c \in 1..(Len(s) + 1)
    BY <1>1 DEF VersionAt, Ends
  <1>3. PICK x, p, y : /\ x = IF ReleaseEnd(s, c) = 0 THEN c ELSE ReleaseEnd(s, c)
                       /\ p = \E n \in NumbersAt(s, h, a, b, c) : n > MaxNumber
                       /\ y = VersionOf(s, h, a, b, c, ReleaseAt(s, c, ReleaseEnd(s, c)))
    OBVIOUS
  <1>4. ParseVersion(s, h) = [next |-> x, panics |-> p, it |-> y]
    BY <1>1, <1>3, VersionParsed, Zenon
  <1>5. x \in 1..(Len(s) + 1)
    BY <1>2, <1>3, ReleaseParsed, Zenon
  <1>6. ParseVersion(s, h).next = x /\ ParseVersion(s, h).panics = p
    BY <1>4
  <1>7. p \in BOOLEAN
    BY <1>3
  <1> QED
    BY <1>4, <1>5, <1>6, <1>7, Zenon

\* The parser of a specific passes on what that of the version says.
LEMMA SpecificShape ==
  ASSUME NEW s \in Seq(Char), NEW v, NEW p, NEW q, SpecificAt(s, v, p, q),
         ParseVersion(s, q + 1) # Fail
  PROVE  /\ ParseSpecific(s).next = ParseVersion(s, q + 1).next
         /\ ParseSpecific(s).panics = ParseVersion(s, q + 1).panics
         /\ ParseSpecific(s).it = SpecificOf(s, v, p, q, ParseVersion(s, q + 1).it)
  <1>1. /\ Len(s) \in Nat /\ q + 1 \in 1..(Len(s) + 1)
        /\ ParseSpecific(s) = IF ParseVersion(s, q + 1).next = 0 THEN Fail
                              ELSE [ParseVersion(s, q + 1) EXCEPT !.it = SpecificOf(s, v, p, q, @)]
    BY SpecificParsed, LenProperties
  <1>2. q + 1 \in 0..(Len(s) + 1)
    BY <1>1
  <1>3. PICK w : w = ParseVersion(s, q + 1)
    OBVIOUS
  <1>4. w.next \in 1..(Len(s) + 1) /\ \E x, b, y : w = [next |-> x, panics |-> b, it |-> y]
    BY <1>2, <1>3, VersionShape
  <1>5. w.next # 0
    BY <1>1, <1>4
  <1>6. PICK r : r = SpecificOf(s, v, p, q, w.it)
    OBVIOUS
  <1>7. ParseSpecific(s) = [w EXCEPT !.it = r]
    BY <1>1, <1>3, <1>5, <1>6, Zenon
  <1> QED
    BY <1>3, <1>4, <1>6, <1>7

\* A specific that was parsed to the end is what the grammar reads.
LEMMA SpecificReadsAsGrammar ==
  ASSUME NEW s \in Seq(Char)
  PROVE  SpecificReadings(s) =
           IF ParseSpecific(s).next = Len(s) + 1 THEN {ParseSpecific(s).it} ELSE {}
  <1>0. Len(s) \in Nat /\ Len(s) + 1 # 0 /\ Fail.next = 0
    BY DEF Fail
  <1>1. CASE \E v, p, q : SpecificAt(s, v, p, q) /\ ParseVersion(s, q + 1) # Fail
    <2>1. PICK v, p, q : SpecificAt(s, v, p, q) /\ ParseVersion(s, q + 1) # Fail
      BY <1>1
    <2>2. q + 1 \in 1..(Len(s) + 1)
      BY <2>1, SpecificParsed
    <2>3. PICK w : w = ParseVersion(s, q + 1)
      OBVIOUS
    <2>4. VersionReadings(s, q + 1) = IF w.next = Len(s) + 1 THEN {w.it} ELSE {}
      BY <2>2, <2>3, VersionReadsAsGrammar
    <2>5. PICK r : r = SpecificOf(s, v, p, q, w.it)
      OBVIOUS
    <2>6. ParseSpecific(s).next = w.next /\ ParseSpecific(s).it = r
      BY <2>1, <2>3, <2>5, SpecificShape, Zenon
    <2>7. \A it : WholeSpecific(s, it) <=> w.next = Len(s) + 1 /\ it = r
      <3>1. ASSUME NEW it, WholeSpecific(s, it) PROVE w.next = Len(s) + 1 /\ it = r
        <4>1. PICK x, y, z : /\ SpecificAt(s, x, y, z)
                             /\ \E u \in VersionReadings(s, z + 1) : it = SpecificOf(s, x, y, z, u)
          BY <3>1, Zenon DEF WholeSpecific
        <4>2. x = v /\ y = p /\ z = q
          BY <2>1, <4>1, SpecificOnce, Zenon
        <4>3. PICK u \in VersionReadings(s, q + 1) : it = SpecificOf(s, v, p, q, u)
          BY <4>1, <4>2, Zenon
        <4>4. w.next = Len(s) + 1 /\ u = w.it
          BY <2>4, <4>3
        <4> QED
          BY <2>5, <4>3, <4>4, Zenon
      <3>2. ASSUME w.next = Len(s) + 1 PROVE WholeSpecific(s, r)
        <4>1. w.it \in VersionReadings(s, q + 1)
          BY <2>4, <3>2
        <4> QED
          BY <2>1, <2>5, <4>1, Zenon DEF WholeSpecific
      <3> QED
        BY <3>1, <3>2, Zenon
    <2>8. \A it : it \in SpecificReadings(s) <=> w.next = Len(s) + 1 /\ it = r
      BY <2>7, SpecificRead, Zenon
    <2>9. CASE w.next = Len(s) + 1
      <3>1. SpecificReadings(s) = {r}
        BY <2>8, <2>9
      <3> QED
        BY <2>6, <2>9, <3>1, Zenon
    <2>10. CASE w.next # Len(s) + 1
      <3>1. SpecificReadings(s) = {}
        BY <2>8, <2>10
      <3> QED
        BY <2>6, <2>10, <3>1, Zenon
    <2> QED
      BY <2>9, <2>10
  <1>2. CASE ~ \E v, p, q : SpecificAt(s, v, p, q) /\ ParseVersion(s, q + 1) # Fail
    <2>1. ParseSpecific(s) = Fail
      BY <1>0, <1>2, SpecificFailed, Zenon
    <2>2. ASSUME NEW it, WholeSpecific(s, it) PROVE FALSE
      <3>1. PICK v, p, q : SpecificAt(s, v, p, q) /\ VersionReadings(s, q + 1) # {}
        BY <2>2, Zenon DEF WholeSpecific
      <3>2. q + 1 \in 1..(Len(s) + 1)
        BY <3>1, SpecificParsed
      <3>3. ParseVersion(s, q + 1).next = Len(s) + 1
        BY <3>1, <3>2, VersionReadsAsGrammar, Zenon
      <3> QED
        BY <1>0, <1>2, <3>1, <3>3, Zenon
    <2>3. \A it : it \notin SpecificReadings(s)
      BY <2>2, SpecificRead, Zenon
    <2> QED
      BY <1>0, <2>1, <2>3
  <1> QED
    BY <1>1, <1>2

\* A specific begins in the cut where it begins in the whole text.
LEMMA SpecificBefore ==
  ASSUME NEW s \in Seq(Char), NEW n \in 0..Len(s), NEW v, NEW p, NEW q \in 1..n
  PROVE  SpecificAt(SubSeq(s, 1, n), v, p, q) <=> SpecificAt(s, v, p, q)
  <1>1. PICK t : t = SubSeq(s, 1, n)
    OBVIOUS
  <1>2. /\ t \in Seq(Char) /\ Len(t) = n /\ Len(s) \in Nat /\ n \in Nat /\ n <= Len(s)
        /\ \A k \in 1..n : t[k] = s[k]
    BY <1>1, Begins
  <1>3. ASSUME SpecificAt(t, v, p, q) \/ SpecificAt(s, v, p, q)
        PROVE  v \in 1..n /\ p \in 1..n
    <2>1. /\ v \in 1..Len(s) \cup 1..n /\ p \in 1..Len(s) \cup 1..n
          /\ p \in (v + 1 + 1)..(Len(s) + 1) \cup (v + 1 + 1)..(n + 1)
          /\ q \in (p + 1 + 1)..(Len(s) + 1) \cup (p + 1 + 1)..(n + 1)
      BY <1>2, <1>3, Zenon DEF SpecificAt, Ends
    <2>2. v \in Nat /\ p \in Nat /\ 1 <= v /\ 1 <= p
      BY <1>2, <2>1
    <2>3. p + 2 <= q /\ v + 2 <= p
      BY <1>2, <2>1, <2>2
    <2> QED
      BY <1>2, <2>2, <2>3
  <1>4. ASSUME v \in 1..n, p \in 1..n
        PROVE  /\ Ends(t, 1, Domain, v) <=> Ends(s, 1, Domain, v)
               /\ Ends(t, v + 1, Skewer, p) <=> Ends(s, v + 1, Skewer, p)
               /\ Ends(t, p + 1, Skewer, q) <=> Ends(s, p + 1, Skewer, q)
    BY <1>1, <1>4, EndsBefore, Zenon
  <1>5. \A k \in 1..n : k \in 1..Len(s) /\ k \in 1..Len(t)
    BY <1>2
  <1> QED
    BY <1>1, <1>2, <1>3, <1>4, <1>5, Zenon DEF SpecificAt

\* The parser panics where some beginning of the text has a number too large.
LEMMA SpecificPanics ==
  ASSUME NEW s \in Seq(Char)
  PROVE  ParseSpecific(s).panics <=> Overflows("Specific", s)
  <1>0. Len(s) \in Nat /\ DOMAIN s = 1..Len(s) /\ Fail.panics = FALSE
    BY LenProperties DEF Fail
  <1> DEFINE Large(n, h) == \E w \in VersionReadings(SubSeq(s, 1, n), h) :
                              \E m \in {w.major, w.minor, w.patch} : m > MaxNumber
  <1>1. Overflows("Specific", s) <=>
          \E n \in 1..Len(s) : \E it \in SpecificReadings(SubSeq(s, 1, n)) :
            \E m \in {it.version.major, it.version.minor, it.version.patch} : m > MaxNumber
    BY <1>0, Zenon DEF Overflows, Numbers
  <1>2. ASSUME ParseSpecific(s).panics PROVE Overflows("Specific", s)
    <2>1. PICK v, p, q : SpecificAt(s, v, p, q) /\ ParseVersion(s, q + 1).next # 0
      BY <1>0, <1>2, SpecificFailed
    <2>2. q + 1 \in 1..(Len(s) + 1) /\ q \in 1..Len(s)
      BY <2>1, SpecificParsed DEF SpecificAt
    <2>3. ParseVersion(s, q + 1) # Fail
      BY <2>1 DEF Fail
    <2>4. ParseVersion(s, q + 1).panics
      BY <1>2, <2>1, <2>3, SpecificShape, Zenon
    <2>5. PICK n \in 1..Len(s) : q + 1 <= n + 1 /\ Large(n, q + 1)
      BY <2>2, <2>4, VersionPanics, Zenon
    <2>6. PICK t : t = SubSeq(s, 1, n)
      OBVIOUS
    <2>7. t \in Seq(Char) /\ n \in 0..Len(s) /\ q \in 1..n
      BY <1>0, <2>2, <2>5, <2>6
    <2>8. SpecificAt(t, v, p, q)
      BY <2>1, <2>6, <2>7, SpecificBefore
    <2>9. PICK w \in VersionReadings(t, q + 1) : \E m \in {w.major, w.minor, w.patch} : m > MaxNumber
      BY <2>5, <2>6, Zenon
    <2>10. PICK it : it = SpecificOf(t, v, p, q, w)
      OBVIOUS
    <2>11. it \in SpecificReadings(t)
      BY <2>7, <2>8, <2>9, <2>10, SpecificRead, Zenon DEF WholeSpecific
    <2>12. it.version = w
      BY <2>10 DEF SpecificOf
    <2> QED
      BY <1>1, <2>6, <2>9, <2>11, <2>12, Zenon
  <1>3. ASSUME Overflows("Specific", s) PROVE ParseSpecific(s).panics
    <2>a. PICK n \in 1..Len(s) : \E it \in SpecificReadings(SubSeq(s, 1, n)) :
            \E m \in {it.version.major, it.version.minor, it.version.patch} : m > MaxNumber
      BY <1>1, <1>3, Zenon
    <2>1. PICK it \in SpecificReadings(SubSeq(s, 1, n)) :
            \E m \in {it.version.major, it.version.minor, it.version.patch} : m > MaxNumber
      BY <2>a
    <2>2. PICK t : t = SubSeq(s, 1, n)
      OBVIOUS
    <2>3. t \in Seq(Char) /\ n \in 0..Len(s) /\ Len(t) = n
      BY <1>0, <2>2, Begins
    <2>b. WholeSpecific(t, it)
      BY <2>2, <2>3, SpecificRead, Zenon
    <2>4. PICK v, p, q : /\ SpecificAt(t, v, p, q)
                         /\ \E w \in VersionReadings(t, q + 1) : it = SpecificOf(t, v, p, q, w)
      BY <2>b, Zenon DEF WholeSpecific
    <2>5. PICK w \in VersionReadings(t, q + 1) : it = SpecificOf(t, v, p, q, w)
      BY <2>4
    <2>6. it.version = w
      BY <2>5 DEF SpecificOf
    <2>7. q \in 1..n /\ q + 1 <= n + 1 /\ q + 1 \in 1..(Len(s) + 1)
      BY <1>0, <2>3, <2>4 DEF SpecificAt
    <2>8. SpecificAt(s, v, p, q)
      BY <2>2, <2>3, <2>4, <2>7, SpecificBefore
    <2>9. Large(n, q + 1)
      BY <2>1, <2>2, <2>5, <2>6, Zenon
    <2>10. ParseVersion(s, q + 1).panics
      BY <2>7, <2>9, VersionPanics, Zenon
    <2>11. ParseVersion(s, q + 1) # Fail
      BY <1>0, <2>10
    <2> QED
      BY <2>8, <2>10, <2>11, SpecificShape, Zenon
  <1> QED
    BY <1>2, <1>3

\* A version's parser panics where the grammar says that it overflows.
LEMMA VersionOverflows ==
  ASSUME NEW s \in Seq(Char)
  PROVE  ParseVersion(s, 1).panics <=> Overflows("Version", s)
  <1>0. DOMAIN s = 1..Len(s) /\ 1 \in 1..(Len(s) + 1) /\ \A n \in 1..Len(s) : 1 <= n + 1
    BY LenProperties
  <1>1. Overflows("Version", s) <=>
          \E n \in 1..Len(s) : \E it \in VersionReadings(SubSeq(s, 1, n), 1) :
            \E m \in {it.major, it.minor, it.patch} : m > MaxNumber
    BY <1>0, Zenon DEF Overflows, Numbers
  <1> QED
    BY <1>0, <1>1, VersionPanics, Zenon

-----------------------------------------------------------------------------
(* Texts put together. *)

\* The texts of q put together up to each place, as far as place m.
Flat(f, q, m) ==
  /\ f \in [1..m -> Seq(Char)]
  /\ \A i \in 1..m : f[i] = IF i = 1 THEN q[i] ELSE f[i - 1] \o q[i]

\* The recursion of FlattenSeq has a solution.
LEMMA FlatExists ==
  ASSUME NEW q \in Seq(Seq(Char))
  PROVE  \E f : Flat(f, q, Len(q))
  <1> DEFINE T == {m \in Nat : m <= Len(q) => \E f : Flat(f, q, m)}
  <1>0. Len(q) \in Nat /\ \A i \in 1..Len(q) : q[i] \in Seq(Char)
    OBVIOUS
  <1>1. ASSUME NEW m \in Nat, \A k \in Nat : k < m => k \in T
        PROVE  m \in T
    <2>1. CASE m = 0
      <3>1. Flat([i \in 1..0 |-> <<>>], q, 0)
        BY DEF Flat
      <3> QED
        BY <2>1, <3>1
    <2>2. CASE m > 0 /\ m <= Len(q)
      <3>a. m - 1 \in Nat /\ m - 1 < m /\ m - 1 <= Len(q)
        BY <1>0, <2>2
      <3>b. m - 1 \in T
        BY <1>1, <3>a, Zenon
      <3>1. PICK f : Flat(f, q, m - 1)
        BY <3>a, <3>b
      <3> DEFINE New == IF m = 1 THEN q[m] ELSE f[m - 1] \o q[m]
                 g == [i \in 1..m |-> IF i = m THEN New ELSE f[i]]
      <3>2. New \in Seq(Char)
        <4>1. q[m] \in Seq(Char) /\ (m # 1 => m - 1 \in 1..(m - 1))
          BY <1>0, <2>2
        <4>2. m # 1 => f[m - 1] \in Seq(Char)
          BY <3>1, <4>1 DEF Flat
        <4>3. m # 1 => f[m - 1] \o q[m] \in Seq(Char)
          BY <4>1, <4>2, ConcatProperties
        <4> QED
          BY <4>1, <4>3
      <3> HIDE DEF New
      <3>3. \A i \in 1..(m - 1) : i # m /\ i \in 1..m /\ g[i] = f[i] /\ f[i] \in Seq(Char)
        BY <2>2, <3>1 DEF Flat
      <3>4. m \in 1..m /\ g[m] = New /\ \A i \in 1..m : i = m \/ i \in 1..(m - 1)
        BY <2>2
      <3>5. g \in [1..m -> Seq(Char)]
        BY <3>2, <3>3, <3>4
      <3> HIDE DEF g
      <3>6. ASSUME NEW i \in 1..m
            PROVE  g[i] = IF i = 1 THEN q[i] ELSE g[i - 1] \o q[i]
        <4>1. i # 1 => g[i - 1] = f[i - 1]
          BY <2>2, <3>3
        <4>2. CASE i = m
          BY <3>4, <4>1, <4>2, Zenon DEF New
        <4>3. CASE i # m
          BY <3>1, <3>3, <3>4, <4>1, <4>3, Zenon DEF Flat
        <4> QED
          BY <4>2, <4>3
      <3>7. Flat(g, q, m)
        BY <3>5, <3>6 DEF Flat
      <3> QED
        BY <3>7
    <2>3. CASE m > Len(q)
      BY <1>0, <2>3
    <2> QED
      BY <1>0, <2>1, <2>2, <2>3
  <1>2. Nat \subseteq T
    <2> HIDE DEF T
    <2> QED
      BY <1>1, Induction
  <1> QED
    BY <1>0, <1>2

\* FlattenSeq puts its texts together.
LEMMA FlattenIsFlat ==
  ASSUME NEW q \in Seq(Seq(Char)), q # <<>>
  PROVE  \E f : Flat(f, q, Len(q)) /\ FlattenSeq(q) = f[Len(q)]
  <1> DEFINE Eq(f) == f = [i \in 1..Len(q) |-> IF i = 1 THEN q[i] ELSE f[i - 1] \o q[i]]
  <1>0. Len(q) \in Nat /\ Len(q) # 0 /\ \A i \in 1..Len(q) : q[i] \in Seq(Char)
    OBVIOUS
  <1>1. PICK f : Flat(f, q, Len(q))
    BY FlatExists
  <1>2. Eq(f)
    <2>1. f = [i \in 1..Len(q) |-> f[i]]
      BY <1>1 DEF Flat
    <2> QED
      BY <1>1, <2>1, Zenon DEF Flat
  <1>3. PICK v : v = CHOOSE g : Eq(g)
    OBVIOUS
  <1>4. Eq(v)
    BY <1>2, <1>3, Zenon
  <1>5. FlattenSeq(q) = v[Len(q)]
    BY <1>0, <1>3, Zenon DEF FlattenSeq
  <1>6. \A i \in 1..Len(q) : v[i] = IF i = 1 THEN q[i] ELSE v[i - 1] \o q[i]
    <2> DEFINE g == [i \in 1..Len(q) |-> IF i = 1 THEN q[i] ELSE v[i - 1] \o q[i]]
    <2>1. \A i \in 1..Len(q) : g[i] = IF i = 1 THEN q[i] ELSE v[i - 1] \o q[i]
      BY Zenon
    <2>2. v = g
      BY <1>4, Zenon
    <2> QED
      BY <2>1, <2>2, Zenon
  <1>7. DOMAIN v = 1..Len(q) /\ v = [i \in 1..Len(q) |-> v[i]]
    BY <1>4
  <1> HIDE DEF Eq
  <1> DEFINE T == {n \in Nat : n \in 1..Len(q) => v[n] \in Seq(Char)}
  <1>8. ASSUME NEW n \in Nat, \A k \in Nat : k < n => k \in T
        PROVE  n \in T
    <2>1. SUFFICES ASSUME n \in 1..Len(q) PROVE v[n] \in Seq(Char)
      OBVIOUS
    <2>2. CASE n = 1
      BY <1>0, <1>6, <2>1, <2>2
    <2>3. CASE n # 1
      <3>1. n - 1 \in Nat /\ n - 1 < n /\ n - 1 \in 1..Len(q)
        BY <1>0, <2>1, <2>3
      <3>2. v[n - 1] \in Seq(Char) /\ q[n] \in Seq(Char)
        BY <1>0, <1>8, <2>1, <3>1
      <3>3. v[n - 1] \o q[n] \in Seq(Char)
        BY <3>2, ConcatProperties
      <3> QED
        BY <1>6, <2>1, <2>3, <3>3, Zenon
    <2> QED
      BY <2>2, <2>3
  <1>9. Nat \subseteq T
    <2> HIDE DEF T
    <2> QED
      BY <1>8, Induction
  <1>10. \A n \in 1..Len(q) : n \in Nat /\ v[n] \in Seq(Char)
    BY <1>0, <1>9
  <1>11. v \in [1..Len(q) -> Seq(Char)]
    BY <1>7, <1>10
  <1> QED
    BY <1>5, <1>6, <1>11, Zenon DEF Flat

\* A text put before others is what their text begins with.
LEMMA FlattenCons ==
  ASSUME NEW x \in Seq(Char), NEW q \in Seq(Seq(Char))
  PROVE  /\ FlattenSeq(q) \in Seq(Char)
         /\ FlattenSeq(<<x>>) = x
         /\ FlattenSeq(<<x>> \o q) = x \o FlattenSeq(q)
  <1>0. Len(q) \in Nat /\ \A i \in 1..Len(q) : q[i] \in Seq(Char)
    OBVIOUS
  <1>1. FlattenSeq(<<x>>) = x
    <2>1. <<x>> \in Seq(Seq(Char)) /\ <<x>> # <<>> /\ Len(<<x>>) = 1 /\ <<x>>[1] = x
      OBVIOUS
    <2>2. PICK f : Flat(f, <<x>>, 1) /\ FlattenSeq(<<x>>) = f[1]
      BY <2>1, FlattenIsFlat
    <2> QED
      BY <2>1, <2>2 DEF Flat
  <1>2. CASE q = <<>>
    <2>1. FlattenSeq(q) = <<>>
      <3>1. Len(q) = 0
        BY <1>2
      <3> QED
        BY <1>2, <3>1, Zenon DEF FlattenSeq
    <2>2. <<x>> \o q = <<x>> /\ x \o <<>> = x /\ <<>> \in Seq(Char)
      <3>1. <<x>> \in Seq(Seq(Char))
        OBVIOUS
      <3> QED
        BY <1>2, <3>1, ConcatEmptySeq, EmptySeq
    <2> QED
      BY <1>1, <2>1, <2>2, Zenon
  <1>3. CASE q # <<>>
    <2>1. PICK t : t = <<x>> \o q
      OBVIOUS
    <2>2. /\ t \in Seq(Seq(Char)) /\ Len(t) = Len(q) + 1 /\ t # <<>> /\ t[1] = x
          /\ \A i \in 1..Len(q) : t[i + 1] = q[i]
      <3>1. <<x>> \in Seq(Seq(Char)) /\ Len(<<x>>) = 1 /\ <<x>>[1] = x
        OBVIOUS
      <3>2. /\ t \in Seq(Seq(Char)) /\ Len(t) = 1 + Len(q)
            /\ \A i \in 1..(1 + Len(q)) : t[i] = IF i <= 1 THEN <<x>>[i] ELSE q[i - 1]
        BY <2>1, <3>1, ConcatProperties
      <3>3. Len(t) # 0 /\ t[1] = x
        BY <1>0, <3>1, <3>2
      <3>4. ASSUME NEW i \in 1..Len(q) PROVE t[i + 1] = q[i]
        <4>1. PICK k : k = i + 1
          OBVIOUS
        <4>2. k \in 1..(1 + Len(q)) /\ ~(k <= 1) /\ k - 1 = i
          BY <1>0, <4>1
        <4>3. t[k] = q[i]
          BY <3>2, <4>2
        <4> QED
          BY <4>1, <4>3
      <3>5. t # <<>> /\ Len(t) = Len(q) + 1
        BY <1>0, <3>2, <3>3
      <3> QED
        BY <3>2, <3>3, <3>4, <3>5
    <2>3. PICK f : Flat(f, q, Len(q)) /\ FlattenSeq(q) = f[Len(q)]
      BY <1>3, FlattenIsFlat
    <2>4. PICK g : Flat(g, t, Len(t)) /\ FlattenSeq(t) = g[Len(t)]
      BY <2>2, FlattenIsFlat
    <2>5. /\ \A i \in 1..Len(q) : f[i] \in Seq(Char)
          /\ \A i \in 1..Len(q) : f[i] = IF i = 1 THEN q[i] ELSE f[i - 1] \o q[i]
          /\ \A i \in 1..(Len(q) + 1) : g[i] = IF i = 1 THEN t[i] ELSE g[i - 1] \o t[i]
      BY <2>2, <2>3, <2>4 DEF Flat
    <2> DEFINE T == {n \in Nat : n \in 1..Len(q) => g[n + 1] = x \o f[n]}
    <2>6. ASSUME NEW n \in Nat, \A k \in Nat : k < n => k \in T
          PROVE  n \in T
      <3>1. SUFFICES ASSUME n \in 1..Len(q) PROVE g[n + 1] = x \o f[n]
        OBVIOUS
      <3>2. g[n + 1] = g[n] \o q[n]
        <4>1. PICK k : k = n + 1
          OBVIOUS
        <4>2. k \in 1..(Len(q) + 1) /\ k # 1 /\ k - 1 = n
          BY <1>0, <3>1, <4>1
        <4>3. g[k] = g[n] \o t[k]
          BY <2>5, <4>2, Zenon
        <4>4. t[k] = q[n]
          BY <2>2, <3>1, <4>1, Zenon
        <4> QED
          BY <4>1, <4>3, <4>4, Zenon
      <3>3. CASE n = 1
        <4>1. g[1] = x
          <5>1. 1 \in 1..(Len(q) + 1)
            BY <1>0
          <5> QED
            BY <2>2, <2>5, <5>1, Zenon
        <4>2. f[1] = q[1]
          BY <2>5, <3>1, <3>3, Zenon
        <4> QED
          BY <3>2, <3>3, <4>1, <4>2, Zenon
      <3>4. CASE n # 1
        <4>1. n - 1 \in Nat /\ n - 1 < n /\ n - 1 \in 1..Len(q) /\ n - 1 + 1 = n
          BY <1>0, <3>1, <3>4
        <4>2. n - 1 \in T
          BY <2>6, <4>1
        <4>3. g[n] = x \o f[n - 1]
          BY <4>1, <4>2, Zenon
        <4>4. f[n] = f[n - 1] \o q[n]
          BY <2>5, <3>1, <3>4, Zenon
        <4>5. (x \o f[n - 1]) \o q[n] = x \o (f[n - 1] \o q[n])
          <5>1. f[n - 1] \in Seq(Char) /\ q[n] \in Seq(Char)
            BY <1>0, <2>5, <3>1, <4>1, Zenon
          <5>2. \A a \in Seq(Char), b \in Seq(Char) : (x \o a) \o b = x \o (a \o b)
            BY ConcatAssociative, SMTT(20)
          <5> QED
            BY <5>1, <5>2, Zenon
        <4> QED
          BY <3>2, <4>3, <4>4, <4>5, Zenon
      <3> QED
        BY <3>3, <3>4
    <2>7. Nat \subseteq T
      <3> HIDE DEF T
      <3> QED
        BY <2>6, Induction
    <2>8. Len(q) \in 1..Len(q)
      BY <1>0, <1>3
    <2>9. g[Len(q) + 1] = x \o f[Len(q)]
      BY <1>0, <2>7, <2>8
    <2> QED
      BY <1>1, <2>1, <2>2, <2>3, <2>4, <2>5, <2>8, <2>9, Zenon
  <1> QED
    BY <1>2, <1>3

-----------------------------------------------------------------------------
(* An address in a text. *)

\* The text of the segments of an address.
AddressText(q) == FlattenSeq([i \in DOMAIN q |-> q[i] \o <<":">>])

\* A further segment in front, with its colon.
LEMMA AddressTextCons ==
  ASSUME NEW x \in Seq(Char), NEW q \in Seq(Seq(Char))
  PROVE  /\ AddressText(q) \in Seq(Char)
         /\ AddressText(<<x>>) = x \o <<":">>
         /\ AddressText(<<x>> \o q) = (x \o <<":">>) \o AddressText(q)
  <1> DEFINE With(p) == [i \in DOMAIN p |-> p[i] \o <<":">>]
  <1>0. Len(q) \in Nat /\ <<":">> \in Seq(Char)
    BY Classes
  <1>1. PICK y \in Seq(Char) : y = x \o <<":">>
    BY <1>0, ConcatProperties
  <1>2. ASSUME NEW p \in Seq(Seq(Char))
        PROVE  /\ With(p) \in Seq(Seq(Char)) /\ Len(With(p)) = Len(p)
               /\ \A i \in 1..Len(p) : With(p)[i] = p[i] \o <<":">>
    <2>1. DOMAIN p = 1..Len(p) /\ Len(p) \in Nat /\ \A i \in 1..Len(p) : p[i] \in Seq(Char)
      BY LenProperties
    <2>2. \A i \in 1..Len(p) : p[i] \o <<":">> \in Seq(Char)
      BY <1>0, <2>1, ConcatProperties
    <2>3. With(p) \in [1..Len(p) -> Seq(Char)] /\ \A i \in 1..Len(p) : With(p)[i] = p[i] \o <<":">>
      BY <2>1, <2>2
    <2> HIDE DEF With
    <2>4. With(p) \in Seq(Seq(Char))
      <3>1. Seq(Seq(Char)) = UNION {[1..n -> Seq(Char)] : n \in Nat}
        BY SeqDef
      <3>2. [1..Len(p) -> Seq(Char)] \in {[1..n -> Seq(Char)] : n \in Nat}
        BY <2>1, Zenon
      <3> QED
        BY <2>3, <3>1, <3>2, Zenon
    <2>5. DOMAIN With(p) = 1..Len(p)
      BY <2>3
    <2>6. Len(With(p)) = Len(p)
      BY <2>1, <2>4, <2>5, LenProperties
    <2> QED
      BY <2>3, <2>4, <2>6
  <1>3. \A p : AddressText(p) = FlattenSeq(With(p))
    BY Zenon DEF AddressText
  <1> HIDE DEF With
  <1>4. AddressText(q) \in Seq(Char)
    BY <1>2, <1>3, FlattenCons
  <1>5. With(<<x>>) = <<y>>
    <2>1. <<x>> \in Seq(Seq(Char)) /\ <<y>> \in Seq(Seq(Char)) /\ Len(<<x>>) = 1 /\ Len(<<y>>) = 1
          /\ <<x>>[1] = x /\ <<y>>[1] = y
      OBVIOUS
    <2>2. /\ With(<<x>>) \in Seq(Seq(Char)) /\ Len(With(<<x>>)) = Len(<<y>>)
          /\ \A i \in 1..1 : With(<<x>>)[i] = <<x>>[i] \o <<":">>
      BY <1>2, <2>1
    <2>3. \A i \in 1..Len(With(<<x>>)) : With(<<x>>)[i] = <<y>>[i]
      <3>1. \A i \in 1..1 : i = 1
        OBVIOUS
      <3> QED
        BY <1>1, <2>1, <2>2, <3>1, Zenon
    <2> QED
      BY <2>1, <2>2, <2>3, SeqEqual
  <1>6. With(<<x>> \o q) = <<y>> \o With(q)
    <2>0. <<x>> \in Seq(Seq(Char)) /\ <<y>> \in Seq(Seq(Char)) /\ Len(<<x>>) = 1 /\ Len(<<y>>) = 1
          /\ <<x>>[1] = x /\ <<y>>[1] = y
      OBVIOUS
    <2>1. PICK p : p = <<x>> \o q
      OBVIOUS
    <2>2. /\ p \in Seq(Seq(Char)) /\ Len(p) = 1 + Len(q)
          /\ \A i \in 1..(1 + Len(q)) : p[i] = IF i <= 1 THEN <<x>>[i] ELSE q[i - 1]
      BY <2>0, <2>1, ConcatProperties
    <2>3. /\ With(q) \in Seq(Seq(Char)) /\ Len(With(q)) = Len(q)
          /\ \A i \in 1..Len(q) : With(q)[i] = q[i] \o <<":">>
      BY <1>2
    <2>4. PICK u : u = <<y>> \o With(q)
      OBVIOUS
    <2>5. /\ u \in Seq(Seq(Char)) /\ Len(u) = 1 + Len(q)
          /\ \A i \in 1..(1 + Len(q)) : u[i] = IF i <= 1 THEN <<y>>[i] ELSE With(q)[i - 1]
      BY <2>0, <2>3, <2>4, ConcatProperties
    <2>6. /\ With(p) \in Seq(Seq(Char)) /\ Len(With(p)) = 1 + Len(q)
          /\ \A i \in 1..(1 + Len(q)) : With(p)[i] = p[i] \o <<":">>
      BY <1>2, <2>2
    <2>7. ASSUME NEW i \in 1..(1 + Len(q)) PROVE With(p)[i] = u[i]
      <3>1. CASE i = 1
        <4>1. i <= 1
          BY <3>1
        <4>2. p[i] = x /\ u[i] = y
          BY <2>0, <2>2, <2>5, <3>1, <4>1, Zenon
        <4> QED
          BY <1>1, <2>6, <4>2, Zenon
      <3>2. CASE i # 1
        <4>1. ~(i <= 1) /\ i - 1 \in 1..Len(q)
          BY <1>0, <3>2
        <4>2. p[i] = q[i - 1] /\ u[i] = With(q)[i - 1]
          BY <2>2, <2>5, <4>1, Zenon
        <4> QED
          BY <2>3, <2>6, <4>1, <4>2, Zenon
      <3> QED
        BY <3>1, <3>2
    <2>8. With(p) = u
      BY <2>5, <2>6, <2>7, SeqEqual
    <2> QED
      BY <2>1, <2>4, <2>8, Zenon
  <1>7. With(q) \in Seq(Seq(Char))
    BY <1>2
  <1>8. FlattenSeq(<<y>>) = y /\ FlattenSeq(<<y>> \o With(q)) = y \o FlattenSeq(With(q))
    BY <1>7, FlattenCons, Zenon
  <1> QED
    BY <1>1, <1>3, <1>4, <1>5, <1>6, <1>8, Zenon

\* What parse_address does at place i, where f says what it does further on.
AddressStep(f, s, i) ==
  LET j == Take1(s, i, Segment)
      rest == IF Tag(s, j, ":") = 0 THEN Fail ELSE f[j + 1]
  IN IF j = 0 THEN Fail
     ELSE IF rest.next = 0
       THEN [next |-> j, panics |-> FALSE, it |-> <<SubSeq(s, i, j - 1)>>]
       ELSE [rest EXCEPT !.it = <<SubSeq(s, i, j - 1)>> \o @]

\* It looks further on only.
LEMMA AddressStepUses ==
  ASSUME NEW s \in Seq(Char), NEW i \in 1..(Len(s) + 1), NEW f, NEW g,
         \A k \in (i + 1)..(Len(s) + 1) : f[k] = g[k]
  PROVE  AddressStep(f, s, i) = AddressStep(g, s, i)
  <1>0. Len(s) \in Nat /\ i \in 0..(Len(s) + 1)
    OBVIOUS
  <1>1. PICK j : j = Take1(s, i, Segment)
    OBVIOUS
  <1>2. j # 0 => Ends(s, i, Segment, j)
    BY <1>0, <1>1, TakeEnds
  <1>3. j # 0 => j \in (i + 1)..(Len(s) + 1) /\ j \in 0..(Len(s) + 1)
    BY <1>0, <1>2 DEF Ends
  <1>4. j # 0 /\ Tag(s, j, ":") # 0 => f[j + 1] = g[j + 1]
    <2>1. SUFFICES ASSUME j # 0, Tag(s, j, ":") # 0 PROVE f[j + 1] = g[j + 1]
      OBVIOUS
    <2>2. j \in 1..Len(s)
      BY <1>3, <2>1, Tagged
    <2>3. j + 1 \in (i + 1)..(Len(s) + 1)
      BY <1>0, <1>3, <2>1, <2>2
    <2> QED
      BY <2>3, Zenon
  <1> QED
    BY <1>1, <1>4, Zenon DEF AddressStep

\* The recursion of parse_address has a solution.
LEMMA AddressStepsExist ==
  ASSUME NEW s \in Seq(Char)
  PROVE  \E f : /\ f = [i \in 1..(Len(s) + 1) |-> f[i]]
                /\ \A i \in 1..(Len(s) + 1) : f[i] = AddressStep(f, s, i)
  <1> DEFINE Dom == 1..(Len(s) + 1)
             From(f, n) == /\ f = [i \in Dom |-> f[i]]
                           /\ \A i \in (Len(s) + 2 - n)..(Len(s) + 1) : f[i] = AddressStep(f, s, i)
             T == {n \in Nat : n <= Len(s) + 1 => \E f : From(f, n)}
  <1>0. Len(s) \in Nat
    OBVIOUS
  <1>1. ASSUME NEW n \in Nat, \A k \in Nat : k < n => k \in T
        PROVE  n \in T
    <2>1. CASE n = 0
      <3>1. PICK f : f = [i \in Dom |-> Fail]
        OBVIOUS
      <3>2. f = [i \in Dom |-> f[i]]
        BY <3>1
      <3>3. \A i \in (Len(s) + 2 - 0)..(Len(s) + 1) : FALSE
        BY <1>0
      <3>4. From(f, 0)
        BY <3>2, <3>3
      <3> QED
        BY <2>1, <3>4
    <2>2. CASE n > 0 /\ n <= Len(s) + 1
      <3>1. n - 1 \in Nat /\ n - 1 < n /\ n - 1 <= Len(s) + 1
        BY <1>0, <2>2
      <3>2. n - 1 \in T
        BY <1>1, <3>1, Zenon
      <3>3. PICK f : From(f, n - 1)
        BY <3>1, <3>2
      <3>4. PICK m : m = Len(s) + 2 - n
        OBVIOUS
      <3>5. m \in Dom /\ Len(s) + 2 - (n - 1) = m + 1
        BY <1>0, <2>2, <3>4
      <3>6. PICK new : new = AddressStep(f, s, m)
        OBVIOUS
      <3>7. PICK g : g = [i \in Dom |-> IF i = m THEN new ELSE f[i]]
        OBVIOUS
      <3>8. g = [i \in Dom |-> g[i]] /\ g[m] = new /\ \A i \in Dom : i # m => g[i] = f[i]
        BY <3>5, <3>7
      <3>9. ASSUME NEW i \in m..(Len(s) + 1) PROVE g[i] = AddressStep(g, s, i)
        <4>1. i \in Dom
          BY <1>0, <3>5
        <4>2. \A k \in (i + 1)..(Len(s) + 1) : k \in Dom /\ k # m
          BY <1>0, <3>5
        <4>3. \A k \in (i + 1)..(Len(s) + 1) : f[k] = g[k]
          BY <3>8, <4>2, Zenon
        <4>4. AddressStep(f, s, i) = AddressStep(g, s, i)
          BY <4>1, <4>3, AddressStepUses
        <4>5. CASE i = m
          BY <3>6, <3>8, <4>4, <4>5, Zenon
        <4>6. CASE i # m
          <5>1. i \in (m + 1)..(Len(s) + 1)
            BY <1>0, <3>5, <4>6
          <5>2. f[i] = AddressStep(f, s, i)
            BY <3>3, <3>5, <5>1, Zenon
          <5> QED
            BY <3>8, <4>1, <4>4, <4>6, <5>2, Zenon
        <4> QED
          BY <4>5, <4>6
      <3>10. From(g, n)
        BY <3>4, <3>8, <3>9, Zenon
      <3> QED
        BY <3>10
    <2>3. CASE n > Len(s) + 1
      BY <1>0, <2>3
    <2> QED
      BY <1>0, <2>1, <2>2, <2>3
  <1>2. Nat \subseteq T
    <2> HIDE DEF T
    <2> QED
      BY <1>1, Induction
  <1>3. PICK n \in Nat : n = Len(s) + 1 /\ Len(s) + 2 - n = 1 /\ n <= Len(s) + 1
    BY <1>0
  <1>4. PICK f : From(f, n)
    BY <1>2, <1>3
  <1> QED
    BY <1>3, <1>4, Zenon

\* parse_address is one, at the first place.
LEMMA AddressSteps ==
  ASSUME NEW s \in Seq(Char)
  PROVE  \E f : /\ \A i \in 1..(Len(s) + 1) : f[i] = AddressStep(f, s, i)
                /\ ParseAddress(s) = f[1]
  <1> DEFINE Eq(f) == f = [i \in 1..(Len(s) + 1) |-> AddressStep(f, s, i)]
  <1>1. PICK f : /\ f = [i \in 1..(Len(s) + 1) |-> f[i]]
                 /\ \A i \in 1..(Len(s) + 1) : f[i] = AddressStep(f, s, i)
    BY AddressStepsExist
  <1>2. Eq(f)
    BY <1>1, Zenon
  <1>3. PICK v : v = CHOOSE g : Eq(g)
    OBVIOUS
  <1>4. Eq(v)
    BY <1>2, <1>3, Zenon
  <1>5. ParseAddress(s) = v[1]
    BY <1>3, Zenon DEF ParseAddress, AddressStep
  <1>6. \A i \in 1..(Len(s) + 1) : v[i] = AddressStep(v, s, i)
    <2>1. PICK g : g = [i \in 1..(Len(s) + 1) |-> AddressStep(v, s, i)]
      OBVIOUS
    <2>2. \A i \in 1..(Len(s) + 1) : g[i] = AddressStep(v, s, i)
      BY <2>1, Zenon
    <2>3. v = g
      BY <1>4, <2>1, Zenon
    <2> QED
      BY <2>2, <2>3, Zenon
  <1> QED
    BY <1>5, <1>6, Zenon

\* Segments with colons between them stand from i to before j.
Segments(s, i, j) ==
  /\ j \in (i + 1)..(Len(s) + 1) /\ s[i] \in Segment /\ s[j - 1] \in Segment
  /\ \A k \in i..(j - 1) : s[k] \in Segment \cup {":"}
  /\ \A k \in i..(j - 2) : s[k] # ":" \/ s[k + 1] # ":"

\* No further one follows at j.
Stops(s, j) ==
  \/ j = Len(s) + 1
  \/ s[j] \notin Segment /\ (s[j] = ":" => j = Len(s) \/ s[j + 1] \notin Segment)

\* What was parsed from i on: nothing, or the segments that stand there.
AddressFrom(s, i, r) ==
  \/ r = Fail /\ (i = Len(s) + 1 \/ s[i] \notin Segment)
  \/ \E j, q : /\ r = [next |-> j, panics |-> FALSE, it |-> q]
               /\ Segments(s, i, j) /\ Stops(s, j)
               /\ q \in Seq(Seq(Char)) /\ AddressText(q) = SubSeq(s, i, j - 1) \o <<":">>

\* Two runs of segments with a colon between are one.
LEMMA SegmentsJoin ==
  ASSUME NEW s \in Seq(Char), NEW i \in 1..Len(s), NEW j \in (i + 1)..Len(s), NEW m,
         Run(s, i, j - 1, Segment), s[j] = ":", Segments(s, j + 1, m)
  PROVE  Segments(s, i, m)
  <1>0. Len(s) \in Nat /\ i \in Nat /\ j \in Nat /\ 1 <= i /\ i < j /\ j <= Len(s)
    OBVIOUS
  <1>1. m \in (j + 1 + 1)..(Len(s) + 1) /\ s[j + 1] \in Segment /\ s[m - 1] \in Segment
    BY DEF Segments
  <1>2. m \in (i + 1)..(Len(s) + 1) /\ i \in i..(j - 1)
    BY <1>0, <1>1
  <1>3. \A k \in i..(j - 1) : s[k] \in Segment
    BY DEF Run
  <1>4. ":" \notin Segment
    BY Classes
  <1>5. ASSUME NEW k \in i..(m - 1) PROVE s[k] \in Segment \cup {":"}
    <2>1. k \in i..(j - 1) \/ k = j \/ k \in (j + 1)..(m - 1)
      BY <1>0, <1>1
    <2> QED
      BY <1>3, <2>1, Zenon DEF Segments
  <1>6. ASSUME NEW k \in i..(m - 2) PROVE s[k] # ":" \/ s[k + 1] # ":"
    <2>1. k \in i..(j - 1) \/ k = j \/ k \in (j + 1)..(m - 2)
      BY <1>0, <1>1
    <2>2. k = j => s[k + 1] \in Segment
      BY <1>1
    <2> QED
      BY <1>3, <1>4, <2>1, <2>2, Zenon DEF Segments
  <1> QED
    BY <1>1, <1>2, <1>3, <1>5, <1>6, Zenon DEF Segments

\* One run is.
LEMMA SegmentsOne ==
  ASSUME NEW s \in Seq(Char), NEW i, NEW j, Ends(s, i, Segment, j)
  PROVE  Segments(s, i, j)
  <1>1. /\ Len(s) \in Nat /\ i \in 1..Len(s) /\ j \in (i + 1)..(Len(s) + 1)
        /\ \A k \in i..(j - 1) : s[k] \in Segment
    BY DEF Ends, Run
  <1>2. /\ i \in i..(j - 1) /\ j - 1 \in i..(j - 1)
        /\ \A k \in i..(j - 2) : k \in i..(j - 1)
    BY <1>1
  <1>3. ":" \notin Segment
    BY Classes
  <1> QED
    BY <1>1, <1>2, <1>3, Zenon DEF Segments

\* A place is parsed like this if those behind it are.
LEMMA AddressStepFrom ==
  ASSUME NEW s \in Seq(Char), NEW i \in 1..(Len(s) + 1), NEW f,
         \A k \in (i + 1)..(Len(s) + 1) : AddressFrom(s, k, f[k])
  PROVE  AddressFrom(s, i, AddressStep(f, s, i))
  <1>0. Len(s) \in Nat /\ i \in 0..(Len(s) + 1) /\ Fail.next = 0
    BY DEF Fail
  <1>1. PICK j : j = Take1(s, i, Segment)
    OBVIOUS
  <1>2. PICK rest : rest = IF Tag(s, j, ":") = 0 THEN Fail ELSE f[j + 1]
    OBVIOUS
  <1>3. PICK x : x = SubSeq(s, i, j - 1)
    OBVIOUS
  <1>4. AddressStep(f, s, i) =
          IF j = 0 THEN Fail
          ELSE IF rest.next = 0 THEN [next |-> j, panics |-> FALSE, it |-> <<x>>]
          ELSE [rest EXCEPT !.it = <<x>> \o @]
    BY <1>1, <1>2, <1>3, Zenon DEF AddressStep
  <1>5. CASE j = 0
    <2>1. ASSUME i # Len(s) + 1, s[i] \in Segment PROVE FALSE
      <3>1. i \in 1..Len(s)
        BY <1>0, <2>1
      <3> QED
        BY <1>0, <1>1, <1>5, <2>1, <3>1, TakeEnds, Zenon
    <2> QED
      BY <1>4, <1>5, <2>1, Zenon DEF AddressFrom
  <1>6. CASE j # 0
    <2>1. Ends(s, i, Segment, j)
      BY <1>0, <1>1, <1>6, TakeEnds
    <2>2. /\ i \in 1..Len(s) /\ j \in (i + 1)..(Len(s) + 1) /\ j \in 0..(Len(s) + 1)
          /\ Run(s, i, j - 1, Segment) /\ (j = Len(s) + 1 \/ s[j] \notin Segment)
      BY <1>0, <2>1 DEF Ends
    <2>3. x \in Seq(Char)
      <3>1. i \in Int /\ j - 1 \in Int /\ \A k \in i..(j - 1) : s[k] \in Char
        BY <1>0, <2>2, ElementOfSeq
      <3> QED
        BY <1>3, <3>1, SubSeqProperties
    <2>4. AddressText(<<x>>) = x \o <<":">> /\ <<x>> \in Seq(Seq(Char))
      <3>1. <<>> \in Seq(Seq(Char)) /\ <<x>> \in Seq(Seq(Char))
        BY <2>3
      <3> QED
        BY <2>3, <3>1, AddressTextCons
    <2>5. CASE rest = Fail
      <3>1. Stops(s, j)
        <4>1. CASE j \in 1..Len(s) /\ s[j] = ":"
          <5>1. Tag(s, j, ":") # 0
            BY <2>2, <4>1, Tagged
          <5>2. f[j + 1] = Fail
            BY <1>2, <2>5, <5>1
          <5>3. j + 1 \in (i + 1)..(Len(s) + 1)
            BY <1>0, <2>2, <4>1
          <5>4. PICK k \in (i + 1)..(Len(s) + 1) : k = j + 1 /\ f[k] = Fail
            BY <5>2, <5>3
          <5>5. k = Len(s) + 1 \/ s[k] \notin Segment
            <6>1. AddressFrom(s, k, Fail)
              BY <5>4, Zenon
            <6>2. ASSUME NEW a, NEW q, Fail = [next |-> a, panics |-> FALSE, it |-> q]
                  PROVE  FALSE
              <7>1. "it" \in DOMAIN Fail
                BY <6>2
              <7> QED
                BY <7>1 DEF Fail
            <6> QED
              BY <6>1, <6>2, Zenon DEF AddressFrom
          <5>6. j = Len(s) \/ s[j + 1] \notin Segment
            BY <1>0, <2>2, <5>4, <5>5
          <5> QED
            BY <2>2, <5>6 DEF Stops
        <4>2. CASE ~(j \in 1..Len(s) /\ s[j] = ":")
          <5>1. j = Len(s) + 1 \/ (s[j] \notin Segment /\ s[j] # ":")
            BY <1>0, <2>2, <4>2
          <5> QED
            BY <5>1, Zenon DEF Stops
        <4> QED
          BY <4>1, <4>2
      <3>2. AddressStep(f, s, i) = [next |-> j, panics |-> FALSE, it |-> <<x>>]
        BY <1>0, <1>4, <1>6, <2>5, Zenon
      <3>3. Segments(s, i, j)
        BY <2>1, SegmentsOne
      <3> QED
        BY <1>3, <2>4, <3>1, <3>2, <3>3, Zenon DEF AddressFrom
    <2>6. CASE rest # Fail
      <3>1. Tag(s, j, ":") # 0 /\ rest = f[j + 1]
        BY <1>2, <2>6
      <3>2. j \in 1..Len(s) /\ s[j] = ":"
        BY <2>2, <3>1, Tagged
      <3>3. j + 1 \in (i + 1)..(Len(s) + 1) /\ j \in (i + 1)..Len(s) /\ j + 1 \in 1..(Len(s) + 1)
        BY <1>0, <2>2, <3>2
      <3>4. AddressFrom(s, j + 1, rest)
        BY <3>1, <3>3, Zenon
      <3>5. PICK m, q : /\ rest = [next |-> m, panics |-> FALSE, it |-> q]
                        /\ Segments(s, j + 1, m) /\ Stops(s, m)
                        /\ q \in Seq(Seq(Char)) /\ AddressText(q) = SubSeq(s, j + 1, m - 1) \o <<":">>
        BY <2>6, <3>4, Zenon DEF AddressFrom
      <3>6. m \in (j + 1 + 1)..(Len(s) + 1) /\ m # 0
        BY <1>0, <3>3, <3>5 DEF Segments
      <3>7. AddressStep(f, s, i) = [next |-> m, panics |-> FALSE, it |-> <<x>> \o q]
        <4>1. rest.next # 0
          BY <3>5, <3>6
        <4>2. AddressStep(f, s, i) = [rest EXCEPT !.it = <<x>> \o @]
          BY <1>4, <1>6, <4>1, Zenon
        <4>3. PICK y : y = <<x>> \o q
          OBVIOUS
        <4>4. rest.it = q
          BY <3>5
        <4>5. AddressStep(f, s, i) = [rest EXCEPT !.it = y]
          BY <4>2, <4>3, <4>4, Zenon
        <4> QED
          BY <3>5, <4>3, <4>5
      <3>8. Segments(s, i, m)
        BY <2>2, <3>2, <3>3, <3>5, SegmentsJoin
      <3>9. <<x>> \o q \in Seq(Seq(Char)) /\ AddressText(<<x>> \o q) = (x \o <<":">>) \o AddressText(q)
        BY <2>3, <2>4, <3>5, AddressTextCons, ConcatProperties
      <3>10. (x \o <<":">>) \o AddressText(q) = SubSeq(s, i, m - 1) \o <<":">>
        <4>1. j \in i..Len(s) /\ m - 1 \in j..Len(s) /\ j \in (i - 1)..Len(s) /\ i \in 1..(Len(s) + 1)
          BY <1>0, <2>2, <3>2, <3>3, <3>6
        <4>2. x \o <<":">> = SubSeq(s, i, j)
          BY <1>3, <2>2, <3>2, <4>1, SubSeqRecursiveSecond, Zenon
        <4>3. SubSeq(s, i, j) \o SubSeq(s, j + 1, m - 1) = SubSeq(s, i, m - 1)
          BY <4>1, ConcatAdjacentSubSeq
        <4>4. /\ SubSeq(s, i, j) \in Seq(Char) /\ SubSeq(s, j + 1, m - 1) \in Seq(Char)
              /\ <<":">> \in Seq(Char)
          <5>1. /\ i \in Int /\ j \in Int /\ j + 1 \in Int /\ m - 1 \in Int
                /\ \A k \in i..j : s[k] \in Char
                /\ \A k \in (j + 1)..(m - 1) : s[k] \in Char
            BY <1>0, <2>2, <3>6, <4>1, ElementOfSeq
          <5> QED
            BY <5>1, SubSeqProperties, Classes
        <4>5. \A a \in Seq(Char), b \in Seq(Char), c \in Seq(Char) : (a \o b) \o c = a \o (b \o c)
          BY ConcatAssociative, SMTT(20)
        <4>6. PICK a \in Seq(Char), b \in Seq(Char), c \in Seq(Char) :
                a = SubSeq(s, i, j) /\ b = SubSeq(s, j + 1, m - 1) /\ c = <<":">>
          BY <4>4
        <4>7. (a \o b) \o c = a \o (b \o c)
          BY <4>5, Zenon
        <4>8. a \o b = SubSeq(s, i, m - 1) /\ AddressText(q) = b \o c /\ x \o <<":">> = a
          BY <3>5, <4>2, <4>3, <4>6, Zenon
        <4> QED
          BY <4>6, <4>7, <4>8
      <3> QED
        BY <3>5, <3>7, <3>8, <3>9, <3>10, Zenon DEF AddressFrom
    <2> QED
      BY <2>5, <2>6
  <1> QED
    BY <1>5, <1>6

\* The parser does so with the whole text.
LEMMA AddressParsed ==
  ASSUME NEW s \in Seq(Char)
  PROVE  AddressFrom(s, 1, ParseAddress(s))
  <1>0. Len(s) \in Nat
    OBVIOUS
  <1>1. PICK f : /\ \A i \in 1..(Len(s) + 1) : f[i] = AddressStep(f, s, i)
                 /\ ParseAddress(s) = f[1]
    BY AddressSteps
  <1> DEFINE T == {n \in Nat : n <= Len(s) => AddressFrom(s, Len(s) + 1 - n, f[Len(s) + 1 - n])}
  <1>2. ASSUME NEW n \in Nat, \A k \in Nat : k < n => k \in T
        PROVE  n \in T
    <2>1. SUFFICES ASSUME n <= Len(s) PROVE AddressFrom(s, Len(s) + 1 - n, f[Len(s) + 1 - n])
      OBVIOUS
    <2>2. PICK i : i = Len(s) + 1 - n
      OBVIOUS
    <2>3. i \in 1..(Len(s) + 1)
      BY <1>0, <2>1, <2>2
    <2>4. ASSUME NEW k \in (i + 1)..(Len(s) + 1) PROVE AddressFrom(s, k, f[k])
      <3>a. k \in Nat /\ i + 1 <= k /\ k <= Len(s) + 1 /\ n = Len(s) + 1 - i
        BY <1>0, <2>2, <2>3
      <3>b. PICK m : m = Len(s) + 1 - k
        OBVIOUS
      <3>1. m \in Nat /\ m < n /\ m <= Len(s) /\ k = Len(s) + 1 - m
        BY <1>0, <2>3, <3>a, <3>b
      <3>2. m \in T
        BY <1>2, <3>1, Zenon
      <3> QED
        BY <3>1, <3>2
    <2>5. AddressFrom(s, i, AddressStep(f, s, i))
      BY <2>3, <2>4, AddressStepFrom
    <2> QED
      BY <1>1, <2>2, <2>3, <2>5, Zenon
  <1>3. Nat \subseteq T
    <2> HIDE DEF T
    <2> QED
      BY <1>2, Induction
  <1>4. PICK n \in Nat : n = Len(s) /\ Len(s) + 1 - n = 1 /\ n <= Len(s)
    BY <1>0
  <1>5. n \in T
    BY <1>3
  <1> QED
    BY <1>1, <1>4, <1>5

\* It takes the addresses of the grammar, and no other text, to the end.
LEMMA AddressReadsAsGrammar ==
  ASSUME NEW s \in Seq(Char)
  PROVE  /\ ParseAddress(s).panics = FALSE
         /\ IsAddress(s) <=> ParseAddress(s).next = Len(s) + 1
         /\ IsAddress(s) => /\ ParseAddress(s).it \in Seq(Seq(Char))
                            /\ AddressText(ParseAddress(s).it) = Append(s, ":")
  <1>0. /\ Len(s) \in Nat /\ DOMAIN s = 1..Len(s) /\ Fail.next = 0 /\ Fail.panics = FALSE
        /\ ":" \notin Segment /\ ":" \in Char
    BY LenProperties, Classes DEF Fail
  <1>1. CASE ParseAddress(s) = Fail /\ (1 = Len(s) + 1 \/ s[1] \notin Segment)
    <2>1. ~IsAddress(s)
      <3>1. ASSUME IsAddress(s) PROVE FALSE
        <4>1. Len(s) # 0 /\ 1 \in DOMAIN s
          BY <1>0, <3>1 DEF IsAddress
        <4>2. s[1] \in Segment
          BY <3>1, <4>1, Zenon DEF IsAddress
        <4> QED
          BY <1>0, <1>1, <4>1, <4>2
      <3> QED
        BY <3>1
    <2>2. ParseAddress(s).next # Len(s) + 1 /\ ParseAddress(s).panics = FALSE
      BY <1>0, <1>1
    <2> QED
      BY <2>1, <2>2
  <1>2. ASSUME NEW j, NEW q, ParseAddress(s) = [next |-> j, panics |-> FALSE, it |-> q],
               Segments(s, 1, j), Stops(s, j),
               q \in Seq(Seq(Char)), AddressText(q) = SubSeq(s, 1, j - 1) \o <<":">>
        PROVE  /\ ParseAddress(s).panics = FALSE
               /\ IsAddress(s) <=> ParseAddress(s).next = Len(s) + 1
               /\ IsAddress(s) => /\ ParseAddress(s).it \in Seq(Seq(Char))
                                  /\ AddressText(ParseAddress(s).it) = Append(s, ":")
    <2>1. /\ ParseAddress(s).next = j /\ ParseAddress(s).panics = FALSE /\ ParseAddress(s).it = q
      BY <1>2
    <2>2. j \in 2..(Len(s) + 1) /\ Len(s) # 0
      BY <1>0, <1>2 DEF Segments
    <2>3. ASSUME j = Len(s) + 1
          PROVE  IsAddress(s) /\ AddressText(q) = Append(s, ":")
      <3>1. j - 1 = Len(s) /\ j - 2 = Len(s) - 1
        BY <1>0, <2>3
      <3>2. s[1] # ":" /\ s[Len(s)] # ":"
        BY <1>0, <1>2, <3>1, Zenon DEF Segments
      <3>3. s # <<>>
        BY <2>2
      <3>4. IsAddress(s)
        BY <1>0, <1>2, <3>1, <3>2, <3>3, Zenon DEF Segments, IsAddress
      <3>5. SubSeq(s, 1, j - 1) = s
        BY <3>1, SubSeqFull, Zenon
      <3>6. Append(s, ":") = s \o <<":">>
        BY <1>0, AppendIsConcat
      <3> QED
        BY <1>2, <3>4, <3>5, <3>6, Zenon
    <2>4. ASSUME IsAddress(s), j # Len(s) + 1
          PROVE  FALSE
      <3>1. j \in 1..Len(s) /\ s[j] \notin Segment /\ (s[j] = ":" => j = Len(s) \/ s[j + 1] \notin Segment)
        <4>1. j \in 1..Len(s)
          BY <1>0, <2>2, <2>4
        <4> QED
          BY <1>2, <2>4, <4>1, Zenon DEF Stops
      <3>2. s[j] = ":"
        BY <1>0, <2>4, <3>1, Zenon DEF IsAddress
      <3>3. j # Len(s)
        BY <2>4, <3>2, Zenon DEF IsAddress
      <3>4. j \in 1..(Len(s) - 1) /\ j + 1 \in 1..Len(s)
        <4>1. \A n \in Nat : \A x \in 1..n : x # n => x \in 1..(n - 1) /\ x + 1 \in 1..n
          OBVIOUS
        <4> QED
          BY <1>0, <3>1, <3>3, <4>1, Zenon
      <3>5. s[j + 1] = ":"
        BY <1>0, <2>4, <3>1, <3>2, <3>3, <3>4, Zenon DEF IsAddress
      <3> QED
        BY <2>4, <3>2, <3>4, <3>5, Zenon DEF IsAddress
    <2> QED
      BY <1>2, <2>1, <2>3, <2>4, Zenon
  <1>3. AddressFrom(s, 1, ParseAddress(s))
    BY AddressParsed
  <1> QED
    BY <1>1, <1>2, <1>3, Zenon DEF AddressFrom

-----------------------------------------------------------------------------
(* What parsers make, and printers. *)

\* A part of a text.
LEMMA PartOf ==
  ASSUME NEW s \in Seq(Char), NEW i \in 1..(Len(s) + 1), NEW j \in 0..Len(s)
  PROVE  SubSeq(s, i, j) \in Seq(Char)
  <1>1. i \in Int /\ j \in Int /\ Len(s) \in Nat /\ \A k \in i..j : k \in 1..Len(s)
    BY LenProperties
  <1>2. \A k \in i..j : s[k] \in Char
    BY <1>1, ElementOfSeq
  <1> QED
    BY <1>1, <1>2, SubSeqProperties

\* A run's digits count a number.
LEMMA RunCounts ==
  ASSUME NEW s \in Seq(Char), NEW i, NEW j, Ends(s, i, Digit, j)
  PROVE  Number(SubSeq(s, i, j - 1)) \in Nat
  <1>1. /\ Len(s) \in Nat /\ i \in 1..Len(s) /\ j \in (i + 1)..(Len(s) + 1) /\ Run(s, i, j - 1, Digit)
    BY LenProperties DEF Ends
  <1>2. j - 1 \in i..Len(s) /\ j - 1 \in i..(j - 1)
    BY <1>1
  <1> QED
    BY <1>1, <1>2, NumberGrows

\* A version that is parsed without a panic is one.
LEMMA VersionType ==
  ASSUME NEW s \in Seq(Char), NEW h \in 0..(Len(s) + 1),
         ParseVersion(s, h) # Fail, ~ParseVersion(s, h).panics
  PROVE  ParseVersion(s, h).it \in Version
  <1>1. PICK a, b, c : VersionAt(s, h, a, b, c)
    BY VersionFailed
  <1>2. /\ Len(s) \in Nat /\ h \in 1..Len(s) /\ a \in 1..Len(s) /\ b \in 1..Len(s) /\ c \in 1..(Len(s) + 1)
        /\ Ends(s, h, Digit, a) /\ Ends(s, a + 1, Digit, b) /\ Ends(s, b + 1, Digit, c)
    BY <1>1, LenProperties DEF VersionAt, Ends
  <1>3. PICK x, p, y : /\ x = IF ReleaseEnd(s, c) = 0 THEN c ELSE ReleaseEnd(s, c)
                       /\ p = \E n \in NumbersAt(s, h, a, b, c) : n > MaxNumber
                       /\ y = VersionOf(s, h, a, b, c, ReleaseAt(s, c, ReleaseEnd(s, c)))
    OBVIOUS
  <1>4. ParseVersion(s, h) = [next |-> x, panics |-> p, it |-> y]
    BY <1>1, <1>3, VersionParsed, Zenon
  <1>5. ParseVersion(s, h).it = y /\ ~p
    BY <1>4
  <1>6. \A n \in NumbersAt(s, h, a, b, c) : n \in Usize
    <2>1. \A n \in NumbersAt(s, h, a, b, c) : n \in Nat
      BY <1>2, RunCounts, Zenon DEF NumbersAt
    <2>2. \A n \in NumbersAt(s, h, a, b, c) : ~(n > MaxNumber)
      BY <1>3, <1>5, Zenon
    <2>3. MaxNumber \in Nat
      BY ConstantsAssumption DEF ConstantsAssumption
    <2>4. \A n \in Nat : ~(n > MaxNumber) => n \in Usize
      BY <2>3 DEF Usize
    <2> QED
      BY <2>1, <2>2, <2>4, Zenon
  <1>7. ReleaseAt(s, c, ReleaseEnd(s, c)) \in Release
    <2>1. PICK r : r = ReleaseEnd(s, c)
      OBVIOUS
    <2>2. CASE r = 0
      BY <2>1, <2>2, Zenon DEF ReleaseAt, Release
    <2>3. CASE r # 0
      <3>1. c \in 0..(Len(s) + 1)
        BY <1>2
      <3>2. Tag(s, c, "-") \in 0..(Len(s) + 1)
        BY <3>1, Tagged
      <3>3. Ends(s, Tag(s, c, "-"), Skewer, r)
        BY <2>1, <2>3, <3>2, TakeEnds DEF ReleaseEnd
      <3>4. Tag(s, c, "-") # 0
        BY <1>2, <3>3 DEF Ends
      <3>5. c \in 1..Len(s) /\ Tag(s, c, "-") = c + 1
        BY <3>1, <3>4, Tagged
      <3>a. Ends(s, c + 1, Skewer, r)
        BY <3>3, <3>5, Zenon
      <3>6. c + 1 \in 1..(Len(s) + 1) /\ r - 1 \in 0..Len(s)
        BY <1>2, <3>5, <3>a DEF Ends
      <3>7. SubSeq(s, c + 1, r - 1) \in Seq(Char)
        BY <3>6, PartOf
      <3> QED
        BY <2>1, <2>3, <3>7 DEF ReleaseAt, Release
    <2> QED
      BY <2>2, <2>3
  <1>8. y.major \in Usize /\ y.minor \in Usize /\ y.patch \in Usize /\ y.release \in Release
    BY <1>3, <1>6, <1>7 DEF VersionOf, NumbersAt
  <1>9. y = [major |-> y.major, minor |-> y.minor, patch |-> y.patch, release |-> y.release]
    BY <1>3 DEF VersionOf
  <1> QED
    BY <1>5, <1>8, <1>9 DEF Version

\* So is a specific.
LEMMA SpecificType ==
  ASSUME NEW s \in Seq(Char), ParseSpecific(s) # Fail, ~ParseSpecific(s).panics
  PROVE  ParseSpecific(s).it \in Specific
  <1>1. PICK v, p, q : SpecificAt(s, v, p, q) /\ ParseVersion(s, q + 1).next # 0
    BY SpecificFailed
  <1>2. ParseVersion(s, q + 1) # Fail
    BY <1>1 DEF Fail
  <1>3. /\ Len(s) \in Nat /\ v \in 1..Len(s) /\ p \in 1..Len(s) /\ q \in 1..Len(s)
    BY <1>1, LenProperties DEF SpecificAt
  <1>4. /\ q + 1 \in 0..(Len(s) + 1) /\ 1 \in 1..(Len(s) + 1) /\ v + 1 \in 1..(Len(s) + 1)
        /\ p + 1 \in 1..(Len(s) + 1)
        /\ v - 1 \in 0..Len(s) /\ p - 1 \in 0..Len(s) /\ q - 1 \in 0..Len(s)
    BY <1>3
  <1>5. PICK w : w = ParseVersion(s, q + 1).it
    OBVIOUS
  <1>6. w \in Version
    <2>1. ~ParseVersion(s, q + 1).panics
      BY <1>1, <1>2, SpecificShape, Zenon
    <2> QED
      BY <1>2, <1>4, <1>5, <2>1, VersionType
  <1>7. ParseSpecific(s).it = SpecificOf(s, v, p, q, w)
    BY <1>1, <1>2, <1>5, SpecificShape
  <1>8. /\ SubSeq(s, 1, v - 1) \in Seq(Char) /\ SubSeq(s, v + 1, p - 1) \in Seq(Char)
        /\ SubSeq(s, p + 1, q - 1) \in Seq(Char)
    BY <1>4, PartOf
  <1>9. PICK x \in Seq(Char), y \in Seq(Char), z \in Seq(Char) :
          ParseSpecific(s).it = [vendor |-> x, product |-> y, variant |-> z, version |-> w]
    BY <1>7, <1>8, Zenon DEF SpecificOf
  <1> QED
    BY <1>6, <1>9 DEF Specific

\* What is read of a text is a value of the type.
LEMMA ReadType ==
  ASSUME NEW type \in Type, NEW s \in Seq(Char), FromStr(type, s).how = "ok"
  PROVE  FromStr(type, s).value \in Value /\ FromStr(type, s).value.type = type
  <1>0. Len(s) \in Nat /\ Len(s) + 1 # 0 /\ 1 \in 0..(Len(s) + 1) /\ Fail.next # Len(s) + 1
    BY LenProperties DEF Fail
  <1>1. PICK p : p = Parse(type, s)
    OBVIOUS
  <1>2. ~p.panics /\ p.next = Len(s) + 1 /\ FromStr(type, s) = [how |-> "ok", value |-> [type |-> type, it |-> p.it]]
    BY <1>1 DEF FromStr
  <1>3. FromStr(type, s).value = [type |-> type, it |-> p.it]
    BY <1>2
  <1>4. CASE type = "Version"
    <2>1. p = ParseVersion(s, 1)
      BY <1>1, <1>4 DEF Parse
    <2>2. p # Fail
      BY <1>0, <1>2
    <2>3. p.it \in Version
      BY <1>0, <1>2, <2>1, <2>2, VersionType
    <2> QED
      BY <1>3, <1>4, <2>3 DEF Value
  <1>5. CASE type = "Specific"
    <2>1. p = ParseSpecific(s)
      BY <1>1, <1>5 DEF Parse
    <2>2. p # Fail
      BY <1>0, <1>2
    <2>3. p.it \in Specific
      BY <1>2, <2>1, <2>2, SpecificType
    <2> QED
      BY <1>3, <1>5, <2>3 DEF Value
  <1>6. CASE type = "Address"
    <2>1. p = ParseAddress(s)
      BY <1>1, <1>6 DEF Parse
    <2>2. p.it \in Seq(Seq(Char))
      BY <1>2, <2>1, AddressReadsAsGrammar, Zenon
    <2> QED
      BY <1>3, <1>6, <2>2 DEF Value
  <1> QED
    BY <1>4, <1>5, <1>6 DEF Type

\* A numeral is a text.
LEMMA NumeralType ==
  ASSUME NEW n \in Nat
  PROVE  Numeral(n) \in Seq(Char)
  <1>1. Numeral(n) \in Seq(Digit) /\ Digit \subseteq Char
    BY NumeralCounts, Classes
  <1> QED
    BY <1>1, SeqMonotonic, Zenon

\* The printed release.
ReleaseText(v) == IF v.release.some THEN <<"-">> \o v.release.text ELSE <<>>

\* The parts of a version, and the characters between them, are texts.
LEMMA VersionParts ==
  ASSUME NEW v \in Version
  PROVE  /\ v.major \in Nat /\ v.minor \in Nat /\ v.patch \in Nat
         /\ Numeral(v.major) \in Seq(Char) /\ Numeral(v.minor) \in Seq(Char)
         /\ Numeral(v.patch) \in Seq(Char) /\ <<".">> \in Seq(Char)
         /\ v.release \in Release /\ (v.release.some => v.release.text \in Seq(Char))
         /\ (~v.release.some => v.release = NoRelease)
         /\ <<"-">> \in Seq(Char) /\ ReleaseText(v) \in Seq(Char)
  <1>1. v.major \in Nat /\ v.minor \in Nat /\ v.patch \in Nat /\ v.release \in Release
    <2>1. Usize \subseteq Nat
      BY ConstantsAssumption DEF ConstantsAssumption, Usize
    <2> QED
      BY <2>1 DEF Version
  <1>2. /\ v.release.some => v.release.text \in Seq(Char)
        /\ ~v.release.some => v.release = NoRelease
    <2>1. PICK r \in Release : r = v.release
      BY <1>1
    <2>2. r = NoRelease \/ r \in [some : {TRUE}, text : Seq(Char)]
      BY DEF Release
    <2>3. CASE r = NoRelease
      BY <2>1, <2>3 DEF NoRelease
    <2>4. CASE r \in [some : {TRUE}, text : Seq(Char)]
      BY <2>1, <2>4
    <2> QED
      BY <2>2, <2>3, <2>4
  <1>3. <<".">> \in Seq(Char) /\ <<"-">> \in Seq(Char) /\ <<>> \in Seq(Char)
    BY Classes
  <1>4. v.release.some => <<"-">> \o v.release.text \in Seq(Char)
    BY <1>2, <1>3, ConcatProperties
  <1>5. ReleaseText(v) \in Seq(Char)
    BY <1>3, <1>4 DEF ReleaseText
  <1> QED
    BY <1>1, <1>2, <1>3, <1>5, NumeralType

\* A version is printed as a text.
LEMMA PrintVersionType ==
  ASSUME NEW v \in Version
  PROVE  PrintVersion(v) \in Seq(Char)
  <1>1. PICK a \in Seq(Char), b \in Seq(Char), c \in Seq(Char), d \in Seq(Char), e \in Seq(Char) :
          /\ a = Numeral(v.major) /\ b = <<".">> /\ c = Numeral(v.minor) /\ d = Numeral(v.patch)
          /\ e = ReleaseText(v)
    BY VersionParts
  <1>2. PrintVersion(v) = ((((a \o b) \o c) \o b) \o d) \o e
    BY <1>1, Zenon DEF PrintVersion, ReleaseText
  <1>3. \A x \in Seq(Char), y \in Seq(Char) : x \o y \in Seq(Char)
    BY ConcatProperties
  <1>4. (a \o b) \o c \in Seq(Char)
    BY <1>3, Zenon
  <1>5. ((a \o b) \o c) \o b \in Seq(Char)
    BY <1>3, <1>4, Zenon
  <1>6. (((a \o b) \o c) \o b) \o d \in Seq(Char)
    BY <1>3, <1>5, Zenon
  <1>7. ((((a \o b) \o c) \o b) \o d) \o e \in Seq(Char)
    BY <1>3, <1>6, Zenon
  <1> QED
    BY <1>2, <1>7, Zenon

\* So is any value.
LEMMA PrintType ==
  ASSUME NEW value \in Value
  PROVE  TextOf(value) \in Seq(Char) /\ value.type \in Type
  <1>1. \A x \in Seq(Char), y \in Seq(Char) : x \o y \in Seq(Char)
    BY ConcatProperties
  <1>2. CASE value.type = "Version"
    <2>1. value.it \in Version
      BY <1>2 DEF Value
    <2>2. TextOf(value) = PrintVersion(value.it)
      BY <1>2 DEF TextOf
    <2> QED
      BY <1>2, <2>1, <2>2, PrintVersionType DEF Type
  <1>3. CASE value.type = "Specific"
    <2>1. value.it \in Specific
      BY <1>3 DEF Value
    <2>2. PICK a \in Seq(Char), b \in Seq(Char), c \in Seq(Char), d \in Seq(Char), e \in Seq(Char) :
            /\ a = value.it.vendor /\ b = value.it.product /\ c = value.it.variant
            /\ d = PrintVersion(value.it.version) /\ e = <<":">>
      <3>1. /\ value.it.vendor \in Seq(Char) /\ value.it.product \in Seq(Char)
            /\ value.it.variant \in Seq(Char) /\ value.it.version \in Version
        BY <2>1 DEF Specific
      <3>2. <<":">> \in Seq(Char) /\ PrintVersion(value.it.version) \in Seq(Char)
        BY <3>1, PrintVersionType, Classes
      <3> QED
        BY <3>1, <3>2, Zenon
    <2>3. TextOf(value) = (((((a \o e) \o b) \o e) \o c) \o e) \o d
      BY <1>3, <2>2, Zenon DEF TextOf
    <2>4. (a \o e) \o b \in Seq(Char)
      BY <1>1, Zenon
    <2>5. (((a \o e) \o b) \o e) \o c \in Seq(Char)
      BY <1>1, <2>4, Zenon
    <2>6. (((((a \o e) \o b) \o e) \o c) \o e) \o d \in Seq(Char)
      BY <1>1, <2>5, Zenon
    <2> QED
      BY <1>3, <2>3, <2>6, Zenon DEF Type
  <1>4. CASE value.type = "Address"
    <2>1. value.it \in Seq(Seq(Char)) /\ <<>> \in Seq(Char)
      BY <1>4 DEF Value
    <2>2. TextOf(value) = AddressText(value.it)
      BY <1>4 DEF TextOf, AddressText
    <2> QED
      BY <1>4, <2>1, <2>2, AddressTextCons DEF Type
  <1> QED
    BY <1>2, <1>3, <1>4 DEF Value

\* An edited text is a text.
LEMMA EditedType ==
  ASSUME NEW s \in Seq(Char), NEW t \in Edited(s)
  PROVE  t \in Seq(Char)
  <1>0. Len(s) \in Nat /\ DOMAIN s = 1..Len(s) /\ Typed \subseteq Char
    BY LenProperties, ConstantsAssumption DEF ConstantsAssumption
  <1>1. \A x \in Seq(Char), y \in Seq(Char) : x \o y \in Seq(Char)
    BY ConcatProperties
  <1>2. ASSUME NEW i \in 1..(Len(s) + 1), NEW c \in Typed, t = InsertAt(s, i, c)
        PROVE  t \in Seq(Char)
    <2>1. 1 \in 1..(Len(s) + 1) /\ i - 1 \in 0..Len(s) /\ Len(s) \in 0..Len(s) /\ <<c>> \in Seq(Char)
      BY <1>0
    <2>2. SubSeq(s, 1, i - 1) \in Seq(Char) /\ SubSeq(s, i, Len(s)) \in Seq(Char)
      BY <2>1, PartOf
    <2> QED
      BY <1>1, <1>2, <2>1, <2>2, Zenon DEF InsertAt
  <1>3. ASSUME NEW i \in 1..Len(s), t = RemoveAt(s, i)
        PROVE  t \in Seq(Char)
    <2>1. 1 \in 1..(Len(s) + 1) /\ i - 1 \in 0..Len(s) /\ Len(s) \in 0..Len(s) /\ i + 1 \in 1..(Len(s) + 1)
      BY <1>0
    <2>2. SubSeq(s, 1, i - 1) \in Seq(Char) /\ SubSeq(s, i + 1, Len(s)) \in Seq(Char)
      BY <2>1, PartOf
    <2> QED
      BY <1>1, <1>3, <2>2, Zenon DEF RemoveAt
  <1>4. ASSUME NEW i \in 1..Len(s), NEW c \in Typed, t = [s EXCEPT ![i] = c]
        PROVE  t \in Seq(Char)
    BY <1>0, <1>4, ExceptSeq
  <1>5. \/ \E i \in 1..(Len(s) + 1), c \in Typed : t = InsertAt(s, i, c)
        \/ \E i \in 1..Len(s) : t = RemoveAt(s, i)
        \/ \E i \in 1..Len(s), c \in Typed : t = [s EXCEPT ![i] = c]
    BY <1>0 DEF Edited
  <1> QED
    BY <1>2, <1>3, <1>4, <1>5, Zenon

-----------------------------------------------------------------------------
(* A text inside another. *)

\* t stands in s from i to before j.
Spells(s, i, j, t) ==
  /\ i \in Nat \ {0} /\ j = i + Len(t) /\ j <= Len(s) + 1
  /\ \A k \in 1..Len(t) : s[i + (k - 1)] = t[k]

\* A text stands in itself.
LEMMA SpellsItself ==
  ASSUME NEW s \in Seq(Char)
  PROVE  Spells(s, 1, Len(s) + 1, s)
  <1>1. Len(s) \in Nat /\ Len(s) + 1 = 1 + Len(s) /\ Len(s) + 1 <= Len(s) + 1
    OBVIOUS
  <1>2. \A k \in 1..Len(s) : 1 + (k - 1) = k
    BY <1>1
  <1> QED
    BY <1>1, <1>2 DEF Spells

\* Where two texts stand together, each stands.
LEMMA SpellsJoin ==
  ASSUME NEW s \in Seq(Char), NEW t \in Seq(Char), NEW u \in Seq(Char), NEW i, NEW j,
         Spells(s, i, j, t \o u)
  PROVE  \E m : Spells(s, i, m, t) /\ Spells(s, m, j, u)
  <1>1. PICK x : x = t \o u
    OBVIOUS
  <1>2. /\ Len(s) \in Nat /\ Len(t) \in Nat /\ Len(u) \in Nat /\ Len(x) = Len(t) + Len(u)
        /\ \A k \in 1..(Len(t) + Len(u)) : x[k] = IF k <= Len(t) THEN t[k] ELSE u[k - Len(t)]
    BY <1>1, ConcatProperties, LenProperties
  <1>3. /\ i \in Nat \ {0} /\ j = i + Len(x) /\ j <= Len(s) + 1
        /\ \A k \in 1..Len(x) : s[i + (k - 1)] = x[k]
    BY <1>1, Zenon DEF Spells
  <1>4. PICK m : m = i + Len(t)
    OBVIOUS
  <1>5. m \in Nat \ {0} /\ m <= Len(s) + 1 /\ j = m + Len(u)
    BY <1>2, <1>3, <1>4
  <1>6. ASSUME NEW k \in 1..Len(t) PROVE s[i + (k - 1)] = t[k]
    <2>1. k \in 1..Len(x) /\ k \in 1..(Len(t) + Len(u)) /\ k <= Len(t)
      BY <1>2
    <2> QED
      BY <1>2, <1>3, <2>1, Zenon
  <1>7. ASSUME NEW k \in 1..Len(u) PROVE s[m + (k - 1)] = u[k]
    <2>1. PICK n : n = Len(t) + k
      OBVIOUS
    <2>a. PICK p \in Nat, q \in Nat, r \in Nat : p = Len(t) /\ q = Len(u) /\ r = i
      BY <1>2, <1>3, Zenon
    <2>b. k \in 1..q /\ n = p + k /\ m = r + p
      BY <1>4, <2>1, <2>a, Zenon
    <2>c. n \in 1..(p + q) /\ ~(n <= p) /\ n - p = k /\ r + (n - 1) = m + (k - 1)
      BY <2>b
    <2>2. /\ n \in 1..Len(x) /\ n \in 1..(Len(t) + Len(u)) /\ ~(n <= Len(t))
          /\ n - Len(t) = k /\ i + (n - 1) = m + (k - 1)
      BY <1>2, <2>a, <2>c, Zenon
    <2>3. x[n] = u[k] /\ s[i + (n - 1)] = x[n]
      BY <1>2, <1>3, <2>2, Zenon
    <2> QED
      BY <2>2, <2>3, Zenon
  <1>8. Spells(s, i, m, t)
    BY <1>3, <1>4, <1>5, <1>6, Zenon DEF Spells
  <1>9. Spells(s, m, j, u)
    BY <1>3, <1>5, <1>7, Zenon DEF Spells
  <1> QED
    BY <1>8, <1>9

\* What stands there is that part of the text.
LEMMA SpellsPart ==
  ASSUME NEW s \in Seq(Char), NEW t \in Seq(Char), NEW i, NEW j, Spells(s, i, j, t)
  PROVE  SubSeq(s, i, j - 1) = t /\ i \in 1..(Len(s) + 1) /\ j \in i..(Len(s) + 1)
  <1>1. /\ Len(s) \in Nat /\ Len(t) \in Nat /\ i \in Nat \ {0} /\ j = i + Len(t) /\ j <= Len(s) + 1
        /\ \A k \in 1..Len(t) : s[i + (k - 1)] = t[k]
    BY LenProperties DEF Spells
  <1>2. i \in 1..(Len(s) + 1) /\ j \in i..(Len(s) + 1) /\ j - 1 \in 0..Len(s) /\ i \in Int /\ j - 1 \in Int
    BY <1>1
  <1>3. PICK x : x = SubSeq(s, i, j - 1)
    OBVIOUS
  <1>4. x \in Seq(Char)
    BY <1>2, <1>3, PartOf
  <1>5. /\ Len(x) = IF i <= j - 1 THEN j - 1 - i + 1 ELSE 0
        /\ \A k \in 1..(j - 1 - i + 1) : x[k] = s[i + k - 1]
    <2>1. \A k \in i..(j - 1) : k \in 1..Len(s)
      BY <1>1
    <2>2. \A k \in i..(j - 1) : s[k] \in Char
      BY <2>1, ElementOfSeq
    <2> QED
      BY <1>2, <1>3, <2>2, SubSeqProperties
  <1>6. Len(x) = Len(t)
    BY <1>1, <1>5
  <1>7. ASSUME NEW k \in 1..Len(x) PROVE x[k] = t[k]
    <2>1. k \in 1..Len(t) /\ k \in 1..(j - 1 - i + 1) /\ i + k - 1 = i + (k - 1)
      BY <1>1, <1>6
    <2> QED
      BY <1>1, <1>5, <2>1
  <1>8. x = t
    BY <1>4, <1>6, <1>7, SeqEqual
  <1> QED
    BY <1>2, <1>3, <1>8

\* A run of the class, if its characters are.
LEMMA SpellsRun ==
  ASSUME NEW s \in Seq(Char), NEW class, NEW t \in Seq(class), t # <<>>, NEW i, NEW j,
         Spells(s, i, j, t)
  PROVE  Run(s, i, j - 1, class) /\ i \in Nat \ {0}
  <1>1. /\ Len(t) \in Nat \ {0} /\ i \in Nat \ {0} /\ j = i + Len(t)
        /\ \A k \in 1..Len(t) : s[i + (k - 1)] = t[k]
    BY EmptySeq, Zenon DEF Spells
  <1>2. ASSUME NEW k \in i..(j - 1) PROVE s[k] \in class
    <2>1. PICK n : n = k - i + 1
      OBVIOUS
    <2>2. n \in 1..Len(t) /\ i + (n - 1) = k
      BY <1>1, <2>1
    <2>3. t[n] \in class
      BY <2>2, ElementOfSeq
    <2>4. s[i + (n - 1)] = t[n]
      BY <1>1, <2>2, Zenon
    <2> QED
      BY <2>2, <2>3, <2>4, Zenon
  <1>3. i <= j - 1
    BY <1>1
  <1> QED
    BY <1>1, <1>2, <1>3, Zenon DEF Run

\* One character.
LEMMA SpellsOne ==
  ASSUME NEW s \in Seq(Char), NEW c, NEW i, NEW j, Spells(s, i, j, <<c>>)
  PROVE  i \in 1..Len(s) /\ s[i] = c /\ j = i + 1
  <1>1. Len(<<c>>) = 1 /\ <<c>>[1] = c /\ Len(s) \in Nat
    OBVIOUS
  <1>2. /\ i \in Nat \ {0} /\ j = i + 1 /\ j <= Len(s) + 1
        /\ \A k \in 1..1 : s[i + (k - 1)] = <<c>>[k]
    BY <1>1, Zenon DEF Spells
  <1>3. i + (1 - 1) = i /\ 1 \in 1..1
    BY <1>2
  <1>4. s[i] = c
    BY <1>1, <1>2, <1>3, Zenon
  <1> QED
    BY <1>1, <1>2, <1>4

-----------------------------------------------------------------------------
(* A printed version. *)

\* A release that the parser takes for one: none, or a skewer.
GoodRelease(r) == r.some => r.text \in Seq(Skewer) /\ r.text # <<>>

\* It begins where it is printed, and is the version; only its release can make
\* it no whole one.
LEMMA VersionPrinted ==
  ASSUME NEW s \in Seq(Char), NEW v \in Version, NEW h, Spells(s, h, Len(s) + 1, PrintVersion(v))
  PROVE  \E a, b, c : /\ VersionAt(s, h, a, b, c)
                      /\ v = VersionOf(s, h, a, b, c, ReleaseOf(s, c))
                      /\ WholeAt(s, c) <=> GoodRelease(v.release)
  <1>0. Len(s) \in Nat
    OBVIOUS
  <1>1. PICK x \in Seq(Char), y \in Seq(Char), z \in Seq(Char), dot \in Seq(Char), e \in Seq(Char) :
          /\ x = Numeral(v.major) /\ y = Numeral(v.minor) /\ z = Numeral(v.patch)
          /\ dot = <<".">> /\ e = ReleaseText(v)
    BY VersionParts, Zenon
  <1>2. PrintVersion(v) = ((((x \o dot) \o y) \o dot) \o z) \o e
    BY <1>1, Zenon DEF PrintVersion, ReleaseText
  <1>3. PICK a, a1, b, b1, c : /\ Spells(s, h, a, x) /\ Spells(s, a, a1, dot) /\ Spells(s, a1, b, y)
                               /\ Spells(s, b, b1, dot) /\ Spells(s, b1, c, z)
                               /\ Spells(s, c, Len(s) + 1, e)
    <2>0. \A t \in Seq(Char), u \in Seq(Char) : t \o u \in Seq(Char)
      BY ConcatProperties
    <2>1. x \o dot \in Seq(Char)
      BY <2>0, Zenon
    <2>2. (x \o dot) \o y \in Seq(Char)
      BY <2>0, <2>1, Zenon
    <2>3. ((x \o dot) \o y) \o dot \in Seq(Char)
      BY <2>0, <2>2, Zenon
    <2>4. (((x \o dot) \o y) \o dot) \o z \in Seq(Char)
      BY <2>0, <2>3, Zenon
    <2>5. Spells(s, h, Len(s) + 1, ((((x \o dot) \o y) \o dot) \o z) \o e)
      BY <1>2, Zenon
    <2>6. PICK c : Spells(s, h, c, (((x \o dot) \o y) \o dot) \o z) /\ Spells(s, c, Len(s) + 1, e)
      BY <2>4, <2>5, SpellsJoin, Zenon
    <2>7. PICK b1 : Spells(s, h, b1, ((x \o dot) \o y) \o dot) /\ Spells(s, b1, c, z)
      BY <2>3, <2>6, SpellsJoin, Zenon
    <2>8. PICK b : Spells(s, h, b, (x \o dot) \o y) /\ Spells(s, b, b1, dot)
      BY <2>2, <2>7, SpellsJoin, Zenon
    <2>9. PICK a1 : Spells(s, h, a1, x \o dot) /\ Spells(s, a1, b, y)
      BY <2>1, <2>8, SpellsJoin, Zenon
    <2>10. PICK a : Spells(s, h, a, x) /\ Spells(s, a, a1, dot)
      BY <2>9, SpellsJoin, Zenon
    <2> QED
      BY <2>6, <2>7, <2>8, <2>9, <2>10, Zenon
  <1>4. /\ a \in 1..Len(s) /\ s[a] = "." /\ a1 = a + 1
        /\ b \in 1..Len(s) /\ s[b] = "." /\ b1 = b + 1
    BY <1>1, <1>3, SpellsOne
  <1>5. c \in 1..(Len(s) + 1) /\ a \in 1..(Len(s) + 1) /\ b \in 1..(Len(s) + 1)
    <2>1. c \in b1..(Len(s) + 1)
      BY <1>3, SpellsPart, Zenon
    <2>2. c \in (b + 1)..(Len(s) + 1)
      BY <1>4, <2>1, Zenon
    <2>3. \A n \in Nat : \A i \in 1..n : /\ i \in 1..(n + 1)
                                         /\ \A k \in (i + 1)..(n + 1) : k \in 1..(n + 1)
      OBVIOUS
    <2> QED
      BY <1>0, <1>4, <2>2, <2>3, Zenon
  <1>6. /\ SubSeq(s, h, a - 1) = x /\ SubSeq(s, a + 1, b - 1) = y /\ SubSeq(s, b + 1, c - 1) = z
    <2>1. SubSeq(s, h, a - 1) = x
      BY <1>3, SpellsPart
    <2>2. SubSeq(s, a1, b - 1) = y
      BY <1>3, SpellsPart
    <2>3. SubSeq(s, b1, c - 1) = z
      BY <1>3, SpellsPart
    <2> QED
      BY <1>4, <2>1, <2>2, <2>3, Zenon
  <1>7. /\ Run(s, h, a - 1, Digit) /\ Run(s, a + 1, b - 1, Digit) /\ Run(s, b + 1, c - 1, Digit)
        /\ h \in Nat \ {0} /\ a + 1 \in Nat \ {0} /\ b + 1 \in Nat \ {0}
        /\ Number(x) = v.major /\ Number(y) = v.minor /\ Number(z) = v.patch
    <2>1. /\ x \in Seq(Digit) /\ x # <<>> /\ y \in Seq(Digit) /\ y # <<>> /\ z \in Seq(Digit) /\ z # <<>>
          /\ Number(x) = v.major /\ Number(y) = v.minor /\ Number(z) = v.patch
      BY <1>1, VersionParts, NumeralCounts, Zenon
    <2> QED
      BY <1>3, <1>4, <2>1, SpellsRun, Zenon
  <1>8. "." \notin Digit /\ "-" \notin Digit
    BY Classes
  <1>9. Ends(s, h, Digit, a) /\ Ends(s, a + 1, Digit, b)
    BY <1>4, <1>5, <1>7, <1>8, EndsThere, Zenon
  <1>10. CASE ~v.release.some
    <2>1. e = <<>> /\ v.release = NoRelease /\ GoodRelease(v.release)
      BY <1>1, <1>10, VersionParts, Zenon DEF ReleaseText, GoodRelease
    <2>2. Len(e) = 0
      BY <2>1
    <2>3. c = Len(s) + 1
      <3>1. Len(s) + 1 = c + 0
        BY <1>3, <2>2, Zenon DEF Spells
      <3> QED
        BY <1>0, <1>5, <3>1
    <2>4. Ends(s, b + 1, Digit, c)
      BY <1>5, <1>7, <2>3, EndsThere, Zenon
    <2>5. ReleaseOf(s, c) = v.release
      <3>1. c > Len(s)
        BY <1>0, <2>3
      <3> QED
        BY <2>1, <3>1, Zenon DEF ReleaseOf
    <2>6. v = [major |-> v.major, minor |-> v.minor, patch |-> v.patch, release |-> v.release]
      BY DEF Version
    <2>7. v = VersionOf(s, h, a, b, c, ReleaseOf(s, c))
      BY <1>6, <1>7, <2>5, <2>6, Zenon DEF VersionOf
    <2>8. VersionAt(s, h, a, b, c) /\ WholeAt(s, c)
      BY <1>4, <1>9, <2>3, <2>4, Zenon DEF VersionAt, WholeAt
    <2> QED
      BY <2>1, <2>7, <2>8, Zenon
  <1>11. CASE v.release.some
    <2>1. PICK t \in Seq(Char) : t = v.release.text /\ e = <<"-">> \o t /\ <<"-">> \in Seq(Char)
      BY <1>1, <1>11, VersionParts, Zenon DEF ReleaseText
    <2>2. PICK d : Spells(s, c, d, <<"-">>) /\ Spells(s, d, Len(s) + 1, t)
      <3>1. Spells(s, c, Len(s) + 1, <<"-">> \o t)
        BY <1>3, <2>1, Zenon
      <3> QED
        BY <2>1, <3>1, SpellsJoin, Zenon
    <2>3. c \in 1..Len(s) /\ s[c] = "-" /\ d = c + 1
      BY <2>2, SpellsOne
    <2>4. SubSeq(s, c + 1, Len(s)) = t /\ (Len(s) + 1) - 1 = Len(s)
      <3>1. (Len(s) + 1) - 1 = Len(s)
        BY <1>0
      <3>2. SubSeq(s, d, (Len(s) + 1) - 1) = t
        BY <2>2, SpellsPart
      <3> QED
        BY <2>3, <3>1, <3>2
    <2>5. Ends(s, b + 1, Digit, c)
      BY <1>5, <1>7, <1>8, <2>3, EndsThere, Zenon
    <2>6. ReleaseOf(s, c) = v.release
      <3>1. ~(c > Len(s))
        BY <1>0, <2>3
      <3>2. v.release = [some |-> TRUE, text |-> t]
        <4>1. v.release \in Release
          BY VersionParts
        <4>2. v.release # NoRelease
          BY <1>11 DEF NoRelease
        <4> QED
          BY <2>1, <4>1, <4>2 DEF Release
      <3> QED
        BY <2>4, <3>1, <3>2, Zenon DEF ReleaseOf
    <2>7. v = [major |-> v.major, minor |-> v.minor, patch |-> v.patch, release |-> v.release]
      BY DEF Version
    <2>8. v = VersionOf(s, h, a, b, c, ReleaseOf(s, c))
      BY <1>6, <1>7, <2>6, <2>7, Zenon DEF VersionOf
    <2>9. VersionAt(s, h, a, b, c)
      BY <1>4, <1>9, <2>5, Zenon DEF VersionAt
    <2>10. WholeAt(s, c) <=> Run(s, c + 1, Len(s), Skewer)
      <3>1. c # Len(s) + 1
        BY <1>0, <2>3
      <3> QED
        BY <2>3, <3>1, Zenon DEF WholeAt
    <2>11. ASSUME Run(s, c + 1, Len(s), Skewer) PROVE GoodRelease(v.release)
      <3>1. c + 1 \in Int /\ Len(s) \in Int /\ c + 1 <= Len(s) /\ \A k \in (c + 1)..Len(s) : s[k] \in Skewer
        BY <1>0, <2>3, <2>11 DEF Run
      <3>2. SubSeq(s, c + 1, Len(s)) \in Seq(Skewer) /\ Len(SubSeq(s, c + 1, Len(s))) = Len(s) - (c + 1) + 1
        BY <3>1, SubSeqProperties
      <3>3. t \in Seq(Skewer) /\ Len(t) # 0
        <4>1. t \in Seq(Skewer) /\ Len(t) = Len(s) - (c + 1) + 1
          BY <2>4, <3>2, Zenon
        <4>2. \A n \in Nat : \A k \in 1..n : k + 1 <= n => n - (k + 1) + 1 # 0
          OBVIOUS
        <4> QED
          BY <1>0, <2>3, <3>1, <4>1, <4>2, Zenon
      <3>4. t # <<>>
        BY <3>3
      <3> QED
        BY <2>1, <3>3, <3>4, Zenon DEF GoodRelease
    <2>12. ASSUME GoodRelease(v.release) PROVE Run(s, c + 1, Len(s), Skewer)
      <3>1. t \in Seq(Skewer) /\ t # <<>>
        BY <1>11, <2>1, <2>12, Zenon DEF GoodRelease
      <3>2. Run(s, d, (Len(s) + 1) - 1, Skewer)
        BY <2>2, <3>1, SpellsRun, Zenon
      <3> QED
        BY <2>3, <2>4, <3>2, Zenon
    <2> QED
      BY <2>8, <2>9, <2>10, <2>11, <2>12, Zenon
  <1> QED
    BY <1>10, <1>11

\* So it is parsed without a panic, and to the end if its release is good.
LEMMA VersionReprinted ==
  ASSUME NEW s \in Seq(Char), NEW v \in Version, NEW h, Spells(s, h, Len(s) + 1, PrintVersion(v))
  PROVE  /\ h \in 1..(Len(s) + 1) /\ ParseVersion(s, h) # Fail /\ ~ParseVersion(s, h).panics
         /\ ParseVersion(s, h).next = Len(s) + 1 <=> GoodRelease(v.release)
         /\ GoodRelease(v.release) => ParseVersion(s, h).it = v
  <1>1. PICK a, b, c : /\ VersionAt(s, h, a, b, c)
                       /\ v = VersionOf(s, h, a, b, c, ReleaseOf(s, c))
                       /\ WholeAt(s, c) <=> GoodRelease(v.release)
    BY VersionPrinted
  <1>2. h \in 1..Len(s) /\ c \in 1..(Len(s) + 1) /\ Len(s) \in Nat
    BY <1>1, LenProperties DEF VersionAt, Ends
  <1>3. PICK x, p, y : /\ x = IF ReleaseEnd(s, c) = 0 THEN c ELSE ReleaseEnd(s, c)
                       /\ p = \E n \in NumbersAt(s, h, a, b, c) : n > MaxNumber
                       /\ y = VersionOf(s, h, a, b, c, ReleaseAt(s, c, ReleaseEnd(s, c)))
    OBVIOUS
  <1>4. ParseVersion(s, h) = [next |-> x, panics |-> p, it |-> y]
    BY <1>1, <1>3, VersionParsed, Zenon
  <1>5. ParseVersion(s, h).next = x /\ ParseVersion(s, h).panics = p /\ ParseVersion(s, h).it = y
    BY <1>4
  <1>6. ~p
    <2>1. v.major \in Usize /\ v.minor \in Usize /\ v.patch \in Usize
      BY DEF Version
    <2>2. NumbersAt(s, h, a, b, c) = {v.major, v.minor, v.patch}
      BY <1>1 DEF VersionOf, NumbersAt
    <2>3. \A n \in Usize : ~(n > MaxNumber)
      BY ConstantsAssumption DEF ConstantsAssumption, Usize
    <2>4. \A n \in {v.major, v.minor, v.patch} : ~(n > MaxNumber)
      BY <2>1, <2>3
    <2> QED
      BY <1>3, <2>2, <2>4, Zenon
  <1>7. /\ WholeAt(s, c) <=> x = Len(s) + 1
        /\ WholeAt(s, c) => y = v
        /\ x \in 1..(Len(s) + 1)
    BY <1>1, <1>2, <1>3, ReleaseParsed, Zenon
  <1>8. ParseVersion(s, h) # Fail
    <2>1. x # 0
      BY <1>2, <1>7
    <2> QED
      BY <1>5, <2>1 DEF Fail
  <1>9. h \in 1..(Len(s) + 1)
    BY <1>2
  <1> QED
    BY <1>1, <1>5, <1>6, <1>7, <1>8, <1>9, Zenon

\* A version that was parsed to the end has such a release, and no colon.
LEMMA VersionWhole ==
  ASSUME NEW s \in Seq(Char), NEW h \in 1..(Len(s) + 1), ParseVersion(s, h).next = Len(s) + 1
  PROVE  /\ GoodRelease(ParseVersion(s, h).it.release)
         /\ \A k \in h..Len(s) : s[k] # ":"
  <1>0. Len(s) \in Nat /\ h \in 0..(Len(s) + 1) /\ Fail.next # Len(s) + 1
    BY LenProperties DEF Fail
  <1>1. PICK y : y = ParseVersion(s, h).it
    OBVIOUS
  <1>2. y \in VersionReadings(s, h)
    BY <1>1, VersionReadsAsGrammar
  <1>3. WholeVersion(s, h, y)
    BY <1>2, VersionRead, Zenon
  <1>4. PICK a, b, c : /\ VersionAt(s, h, a, b, c) /\ WholeAt(s, c)
                       /\ y = VersionOf(s, h, a, b, c, ReleaseOf(s, c))
    BY <1>3, Zenon DEF WholeVersion
  <1>5. /\ h \in 1..Len(s) /\ a \in 1..Len(s) /\ b \in 1..Len(s) /\ c \in 1..(Len(s) + 1)
        /\ h < a /\ a + 1 < b /\ b + 1 < c /\ s[a] = "." /\ s[b] = "."
        /\ Run(s, h, a - 1, Digit) /\ Run(s, a + 1, b - 1, Digit) /\ Run(s, b + 1, c - 1, Digit)
    BY <1>0, <1>4 DEF VersionAt, Ends
  <1>6. ASSUME c \in 1..Len(s), s[c] = "-", Run(s, c + 1, Len(s), Skewer)
        PROVE  GoodRelease(ReleaseOf(s, c))
    <2>1. /\ c + 1 \in Int /\ Len(s) \in Int /\ c + 1 <= Len(s)
          /\ \A k \in (c + 1)..Len(s) : s[k] \in Skewer
      BY <1>0, <1>6 DEF Run
    <2>2. PICK t : t = SubSeq(s, c + 1, Len(s))
      OBVIOUS
    <2>3. t \in Seq(Skewer) /\ Len(t) = Len(s) - (c + 1) + 1
      BY <2>1, <2>2, SubSeqProperties
    <2>4. t # <<>> /\ ~(c > Len(s))
      <3>1. Len(s) - (c + 1) + 1 # 0 /\ ~(c > Len(s))
        BY <1>0, <1>6, <2>1
      <3>2. Len(t) # 0
        BY <2>3, <3>1, Zenon
      <3> QED
        BY <3>1, <3>2
    <2>5. ReleaseOf(s, c) = [some |-> TRUE, text |-> t]
      BY <2>2, <2>4, Zenon DEF ReleaseOf
    <2> QED
      BY <2>3, <2>4, <2>5 DEF GoodRelease
  <1>7. GoodRelease(ReleaseOf(s, c))
    <2>1. CASE c = Len(s) + 1
      <3>1. c > Len(s)
        BY <1>0, <2>1
      <3>2. ReleaseOf(s, c) = NoRelease
        BY <3>1, Zenon DEF ReleaseOf
      <3> QED
        BY <3>2 DEF NoRelease, GoodRelease
    <2>2. CASE c # Len(s) + 1
      BY <1>4, <1>6, <2>2, Zenon DEF WholeAt
    <2> QED
      BY <2>1, <2>2
  <1>8. y.release = ReleaseOf(s, c)
    BY <1>4 DEF VersionOf
  <1>9. \A x : x \in Skewer \/ x \in Digit \/ x = "." \/ x = "-" => x # ":"
    BY Classes
  <1>10. ASSUME NEW k \in h..Len(s) PROVE s[k] # ":"
    <2>1. \/ k \in h..(a - 1) \/ k = a \/ k \in (a + 1)..(b - 1) \/ k = b \/ k \in (b + 1)..(c - 1)
          \/ (k = c /\ c \in 1..Len(s)) \/ (k \in (c + 1)..Len(s) /\ c \in 1..Len(s))
      <3>1. /\ Len(s) \in Nat /\ h \in 1..Len(s) /\ a \in 1..Len(s) /\ b \in 1..Len(s)
            /\ c \in 1..(Len(s) + 1) /\ h < a /\ a + 1 < b /\ b + 1 < c
        BY <1>0, <1>5, Zenon
      <3> QED
        BY <3>1
    <2>2. c \in 1..Len(s) => s[c] = "-" /\ Run(s, c + 1, Len(s), Skewer)
      <3>1. c \in 1..Len(s) => c # Len(s) + 1
        BY <1>0
      <3> QED
        BY <1>4, <3>1, Zenon DEF WholeAt
    <2> QED
      BY <1>5, <1>9, <2>1, <2>2, Zenon DEF Run
  <1> QED
    BY <1>1, <1>7, <1>8, <1>10

-----------------------------------------------------------------------------
(* A printed specific. *)

\* Its strings and its version stand there, with a colon after each string.
PrintedAt(s, it, v, p, q) ==
  /\ v \in 1..Len(s) /\ p \in 1..Len(s) /\ q \in 1..Len(s) /\ v < p /\ p < q
  /\ s[v] = ":" /\ s[p] = ":" /\ s[q] = ":"
  /\ Spells(s, 1, v, it.vendor) /\ Spells(s, v + 1, p, it.product) /\ Spells(s, p + 1, q, it.variant)
  /\ Spells(s, q + 1, Len(s) + 1, PrintVersion(it.version))

SpecificText(it) ==
  it.vendor \o <<":">> \o it.product \o <<":">> \o it.variant \o <<":">> \o PrintVersion(it.version)

\* The text of a specific is laid out like this.
LEMMA SpecificPrinted ==
  ASSUME NEW it \in Specific
  PROVE  /\ SpecificText(it) \in Seq(Char)
         /\ \E v, p, q : PrintedAt(SpecificText(it), it, v, p, q)
  <1>1. PICK x \in Seq(Char), y \in Seq(Char), z \in Seq(Char), d \in Seq(Char), e \in Seq(Char) :
          /\ x = it.vendor /\ y = it.product /\ z = it.variant
          /\ d = PrintVersion(it.version) /\ e = <<":">>
    <2>1. /\ it.vendor \in Seq(Char) /\ it.product \in Seq(Char) /\ it.variant \in Seq(Char)
          /\ it.version \in Version
      BY DEF Specific
    <2>2. <<":">> \in Seq(Char) /\ PrintVersion(it.version) \in Seq(Char)
      BY <2>1, PrintVersionType, Classes
    <2> QED
      BY <2>1, <2>2, Zenon
  <1>2. \A t \in Seq(Char), u \in Seq(Char) : t \o u \in Seq(Char)
    BY ConcatProperties
  <1>3. x \o e \in Seq(Char)
    BY <1>2, Zenon
  <1>4. (x \o e) \o y \in Seq(Char)
    BY <1>2, <1>3, Zenon
  <1>5. ((x \o e) \o y) \o e \in Seq(Char)
    BY <1>2, <1>4, Zenon
  <1>6. (((x \o e) \o y) \o e) \o z \in Seq(Char)
    BY <1>2, <1>5, Zenon
  <1>7. ((((x \o e) \o y) \o e) \o z) \o e \in Seq(Char)
    BY <1>2, <1>6, Zenon
  <1>8. PICK s \in Seq(Char) : s = (((((x \o e) \o y) \o e) \o z) \o e) \o d /\ s = SpecificText(it)
    <2>1. (((((x \o e) \o y) \o e) \o z) \o e) \o d \in Seq(Char)
      BY <1>2, <1>7, Zenon
    <2>2. SpecificText(it) = (((((x \o e) \o y) \o e) \o z) \o e) \o d
      BY <1>1, Zenon DEF SpecificText
    <2> QED
      BY <2>1, <2>2, Zenon
  <1>9. Spells(s, 1, Len(s) + 1, (((((x \o e) \o y) \o e) \o z) \o e) \o d)
    BY <1>8, SpellsItself, Zenon
  <1>10. PICK q1 : Spells(s, 1, q1, ((((x \o e) \o y) \o e) \o z) \o e) /\ Spells(s, q1, Len(s) + 1, d)
    BY <1>7, <1>9, SpellsJoin, Zenon
  <1>11. PICK q : Spells(s, 1, q, (((x \o e) \o y) \o e) \o z) /\ Spells(s, q, q1, e)
    BY <1>6, <1>10, SpellsJoin, Zenon
  <1>12. PICK p1 : Spells(s, 1, p1, ((x \o e) \o y) \o e) /\ Spells(s, p1, q, z)
    BY <1>5, <1>11, SpellsJoin, Zenon
  <1>13. PICK p : Spells(s, 1, p, (x \o e) \o y) /\ Spells(s, p, p1, e)
    BY <1>4, <1>12, SpellsJoin, Zenon
  <1>14. PICK v1 : Spells(s, 1, v1, x \o e) /\ Spells(s, v1, p, y)
    BY <1>3, <1>13, SpellsJoin, Zenon
  <1>15. PICK v : Spells(s, 1, v, x) /\ Spells(s, v, v1, e)
    BY <1>14, SpellsJoin, Zenon
  <1>16. /\ v \in 1..Len(s) /\ s[v] = ":" /\ v1 = v + 1
         /\ p \in 1..Len(s) /\ s[p] = ":" /\ p1 = p + 1
         /\ q \in 1..Len(s) /\ s[q] = ":" /\ q1 = q + 1
    BY <1>1, <1>11, <1>13, <1>15, SpellsOne
  <1>17. p \in (v + 1)..(Len(s) + 1) /\ q \in (p + 1)..(Len(s) + 1)
    <2>1. p \in v1..(Len(s) + 1)
      BY <1>14, SpellsPart, Zenon
    <2>2. q \in p1..(Len(s) + 1)
      BY <1>12, SpellsPart, Zenon
    <2> QED
      BY <1>16, <2>1, <2>2, Zenon
  <1>18. v < p /\ p < q
    <2>1. Len(s) \in Nat
      OBVIOUS
    <2>2. \A n \in Nat : \A i \in 1..n : \A k \in (i + 1)..(n + 1) : i < k
      OBVIOUS
    <2> QED
      BY <1>16, <1>17, <2>1, <2>2, Zenon
  <1>19. PrintedAt(s, it, v, p, q)
    BY <1>1, <1>10, <1>12, <1>14, <1>15, <1>16, <1>18, Zenon DEF PrintedAt
  <1> QED
    BY <1>8, <1>19, Zenon

\* Where a specific begins, its colons are the first ones.
LEMMA SpecificColons ==
  ASSUME NEW s \in Seq(Char), NEW x, NEW y, NEW z, SpecificAt(s, x, y, z)
  PROVE  /\ x \in 1..Len(s) /\ y \in 1..Len(s) /\ z \in 1..Len(s) /\ x < y /\ y < z
         /\ s[x] = ":" /\ s[y] = ":" /\ s[z] = ":"
         /\ \A k \in 1..z : s[k] = ":" => k \in {x, y, z}
  <1>1. /\ x \in 1..Len(s) /\ y \in 1..Len(s) /\ z \in 1..Len(s)
        /\ y \in (x + 1 + 1)..(Len(s) + 1) /\ z \in (y + 1 + 1)..(Len(s) + 1)
        /\ Run(s, 1, x - 1, Domain) /\ Run(s, x + 1, y - 1, Skewer) /\ Run(s, y + 1, z - 1, Skewer)
        /\ s[x] = ":" /\ s[y] = ":" /\ s[z] = ":"
    BY Zenon DEF SpecificAt, Ends
  <1>2. Len(s) \in Nat /\ x \in 1..Len(s) /\ y \in 1..Len(s) /\ z \in 1..Len(s)
    BY <1>1, LenProperties, Zenon
  <1>3. x < y /\ y < z
    <2>1. y \in (x + 1 + 1)..(Len(s) + 1) /\ z \in (y + 1 + 1)..(Len(s) + 1)
      BY <1>1, Zenon
    <2> QED
      BY <1>2, <2>1
  <1>4. ASSUME NEW k \in 1..z, s[k] = ":" PROVE k \in {x, y, z}
    <2>1. \/ k \in 1..(x - 1) \/ k = x \/ k \in (x + 1)..(y - 1) \/ k = y
          \/ k \in (y + 1)..(z - 1) \/ k = z
      BY <1>2, <1>3
    <2>2. ":" \notin Domain /\ ":" \notin Skewer
      BY Classes
    <2> QED
      BY <1>1, <1>4, <2>1, <2>2, Zenon DEF Run
  <1> QED
    BY <1>1, <1>3, <1>4, Zenon

\* Three places in order are three others in order, if they are among them.
LEMMA SamePlaces ==
  ASSUME NEW v \in Nat, NEW p \in Nat, NEW q \in Nat, NEW x \in Nat, NEW y \in Nat, NEW z \in Nat,
         v < p, p < q, x < y, y < z, {v, p, q} \subseteq {x, y, z}
  PROVE  v = x /\ p = y /\ q = z
  OBVIOUS

\* Read whole, a printed specific is itself: colons inside its strings would be
\* colons too many.
LEMMA SpecificKept ==
  ASSUME NEW s \in Seq(Char), NEW it \in Specific, NEW v, NEW p, NEW q, PrintedAt(s, it, v, p, q),
         ParseSpecific(s).next = Len(s) + 1
  PROVE  ParseSpecific(s).it = it
  <1>0. /\ Len(s) \in Nat /\ Fail.next # Len(s) + 1 /\ Fail.next = 0
        /\ v \in 1..Len(s) /\ p \in 1..Len(s) /\ q \in 1..Len(s) /\ v < p /\ p < q
    BY LenProperties DEF Fail, PrintedAt
  <1>1. PICK x, y, z : SpecificAt(s, x, y, z) /\ ParseVersion(s, z + 1).next # 0
    BY <1>0, SpecificFailed
  <1>2. z + 1 \in 1..(Len(s) + 1) /\ ParseVersion(s, z + 1) # Fail
    BY <1>0, <1>1, SpecificParsed, Zenon
  <1>3. PICK w : w = ParseVersion(s, z + 1)
    OBVIOUS
  <1>4. w.next = Len(s) + 1 /\ ParseSpecific(s).it = SpecificOf(s, x, y, z, w.it)
    BY <1>1, <1>2, <1>3, SpecificShape, Zenon
  <1>5. \A k \in (z + 1)..Len(s) : s[k] # ":"
    BY <1>2, <1>3, <1>4, VersionWhole, Zenon
  <1>6. /\ x \in 1..Len(s) /\ y \in 1..Len(s) /\ z \in 1..Len(s) /\ x < y /\ y < z
        /\ \A k \in 1..z : s[k] = ":" => k \in {x, y, z}
    BY <1>1, SpecificColons, Zenon
  <1>7. \A k \in 1..Len(s) : s[k] = ":" => k \in {x, y, z}
    <2>1. \A k \in 1..Len(s) : k \in 1..z \/ k \in (z + 1)..Len(s)
      BY <1>0, <1>6
    <2> QED
      BY <1>5, <1>6, <2>1, Zenon
  <1>8. s[v] = ":" /\ s[p] = ":" /\ s[q] = ":"
    BY Zenon DEF PrintedAt
  <1>9. v = x /\ p = y /\ q = z
    <2>1. v \in {x, y, z} /\ p \in {x, y, z} /\ q \in {x, y, z}
      BY <1>0, <1>7, <1>8, Zenon
    <2>2. /\ v \in Nat /\ p \in Nat /\ q \in Nat /\ x \in Nat /\ y \in Nat /\ z \in Nat
          /\ v < p /\ p < q /\ x < y /\ y < z
      BY <1>0, <1>6
    <2>3. {v, p, q} \subseteq {x, y, z}
      BY <2>1
    <2> QED
      BY <2>2, <2>3, SamePlaces
  <1>10. /\ it.vendor \in Seq(Char) /\ it.product \in Seq(Char) /\ it.variant \in Seq(Char)
         /\ it.version \in Version
         /\ it = [vendor |-> it.vendor, product |-> it.product, variant |-> it.variant,
                  version |-> it.version]
    BY DEF Specific
  <1>11. /\ SubSeq(s, 1, v - 1) = it.vendor /\ SubSeq(s, v + 1, p - 1) = it.product
         /\ SubSeq(s, p + 1, q - 1) = it.variant
    <2>1. /\ Spells(s, 1, v, it.vendor) /\ Spells(s, v + 1, p, it.product)
          /\ Spells(s, p + 1, q, it.variant)
      BY Zenon DEF PrintedAt
    <2>2. it.vendor \in Seq(Char) /\ it.product \in Seq(Char) /\ it.variant \in Seq(Char)
      BY <1>10, Zenon
    <2>3. ASSUME NEW t \in Seq(Char), NEW i, NEW j, Spells(s, i, j, t)
          PROVE  SubSeq(s, i, j - 1) = t
      BY <2>3, SpellsPart
    <2> QED
      BY <2>1, <2>2, <2>3, Zenon
  <1>12. w.it = it.version
    <2>1. Spells(s, z + 1, Len(s) + 1, PrintVersion(it.version))
      BY <1>9, Zenon DEF PrintedAt
    <2>2. it.version \in Version /\ ParseVersion(s, z + 1) = w /\ w.next = Len(s) + 1
      BY <1>3, <1>4, <1>10, Zenon
    <2>3. PICK version \in Version : version = it.version
      BY <2>2, Zenon
    <2>4. Spells(s, z + 1, Len(s) + 1, PrintVersion(version))
      BY <2>1, <2>3, Zenon
    <2>5. /\ ParseVersion(s, z + 1).next = Len(s) + 1 => GoodRelease(version.release)
          /\ GoodRelease(version.release) => ParseVersion(s, z + 1).it = version
      BY <2>4, VersionReprinted
    <2> QED
      BY <2>2, <2>3, <2>5, Zenon
  <1> QED
    BY <1>4, <1>9, <1>10, <1>11, <1>12, Zenon DEF SpecificOf

\* Without colons in its strings it is parsed without a panic.
LEMMA SpecificQuiet ==
  ASSUME NEW s \in Seq(Char), NEW it \in Specific, NEW v, NEW p, NEW q, PrintedAt(s, it, v, p, q),
         ~HasColon(it)
  PROVE  ~ParseSpecific(s).panics
  <1>0. /\ Len(s) \in Nat /\ Fail.panics = FALSE /\ Fail.next = 0
        /\ v \in 1..Len(s) /\ p \in 1..Len(s) /\ q \in 1..Len(s) /\ v < p /\ p < q
    BY LenProperties DEF Fail, PrintedAt
  <1>1. /\ s[v] = ":" /\ s[p] = ":" /\ s[q] = ":"
        /\ Spells(s, 1, v, it.vendor) /\ Spells(s, v + 1, p, it.product)
        /\ Spells(s, p + 1, q, it.variant) /\ Spells(s, q + 1, Len(s) + 1, PrintVersion(it.version))
    BY Zenon DEF PrintedAt
  <1>2. ASSUME NEW t \in Seq(Char), ":" \notin ToSet(t), NEW i, NEW j, Spells(s, i, j, t)
        PROVE  \A k \in i..(j - 1) : s[k] # ":"
    <2>1. /\ Len(t) \in Nat /\ DOMAIN t = 1..Len(t) /\ i \in Nat \ {0} /\ j = i + Len(t)
          /\ \A k \in 1..Len(t) : s[i + (k - 1)] = t[k]
      BY <1>2, LenProperties, Zenon DEF Spells
    <2>2. \A k \in 1..Len(t) : t[k] # ":"
      BY <1>2, <2>1, Zenon DEF ToSet
    <2>3. ASSUME NEW k \in i..(j - 1) PROVE s[k] # ":"
      <3>1. PICK n : n = k - i + 1
        OBVIOUS
      <3>a. Len(t) \in Nat /\ i \in Nat \ {0} /\ j = i + Len(t)
        BY <2>1, Zenon
      <3>2. n \in 1..Len(t) /\ i + (n - 1) = k
        BY <3>1, <3>a
      <3> QED
        BY <2>1, <2>2, <3>2, Zenon
    <2> QED
      BY <2>3
  <1>3. /\ it.vendor \in Seq(Char) /\ it.product \in Seq(Char) /\ it.variant \in Seq(Char)
        /\ it.version \in Version
        /\ ":" \notin ToSet(it.vendor) /\ ":" \notin ToSet(it.product) /\ ":" \notin ToSet(it.variant)
    BY DEF Specific, HasColon
  <1>4. /\ \A k \in 1..(v - 1) : s[k] # ":"
        /\ \A k \in (v + 1)..(p - 1) : s[k] # ":"
        /\ \A k \in (p + 1)..(q - 1) : s[k] # ":"
    BY <1>1, <1>2, <1>3, Zenon
  <1>5. ASSUME ParseSpecific(s).panics PROVE FALSE
    <2>1. PICK x, y, z : SpecificAt(s, x, y, z) /\ ParseVersion(s, z + 1).next # 0
      BY <1>0, <1>5, SpecificFailed
    <2>2. ParseVersion(s, z + 1) # Fail /\ ParseVersion(s, z + 1).panics
      BY <1>0, <1>5, <2>1, SpecificShape, Zenon
    <2>3. /\ x \in 1..Len(s) /\ y \in 1..Len(s) /\ z \in 1..Len(s) /\ x < y /\ y < z
          /\ s[x] = ":" /\ s[y] = ":" /\ s[z] = ":"
          /\ \A k \in 1..z : s[k] = ":" => k \in {x, y, z}
      BY <2>1, SpecificColons, Zenon
    <2>4. q = z
      <3>1. /\ x \notin 1..(v - 1) /\ x \notin (v + 1)..(p - 1) /\ x \notin (p + 1)..(q - 1)
            /\ y \notin 1..(v - 1) /\ y \notin (v + 1)..(p - 1) /\ y \notin (p + 1)..(q - 1)
            /\ z \notin 1..(v - 1) /\ z \notin (v + 1)..(p - 1) /\ z \notin (p + 1)..(q - 1)
        BY <1>4, <2>3, Zenon
      <3>2. /\ x \in 1..Len(s) /\ y \in 1..Len(s) /\ z \in 1..Len(s) /\ x < y /\ y < z
        BY <2>3, Zenon
      <3>3. z >= q
        BY <1>0, <3>1, <3>2
      <3>4. q \in 1..z /\ v \in 1..z /\ p \in 1..z
        BY <1>0, <3>2, <3>3
      <3>5. q \in {x, y, z} /\ v \in {x, y, z} /\ p \in {x, y, z}
        BY <1>1, <2>3, <3>4, Zenon
      <3> QED
        BY <1>0, <3>2, <3>5
    <2>5. Spells(s, z + 1, Len(s) + 1, PrintVersion(it.version))
      BY <1>1, <2>4, Zenon
    <2> QED
      BY <1>3, <2>2, <2>5, VersionReprinted, Zenon
  <1> QED
    BY <1>5

\* Strings and a release that the parser takes for such.
GoodSpecific(it) ==
  /\ it.vendor \in Seq(Domain) /\ it.vendor # <<>>
  /\ it.product \in Seq(Skewer) /\ it.product # <<>>
  /\ it.variant \in Seq(Skewer) /\ it.variant # <<>>
  /\ GoodRelease(it.version.release)

\* With these it is parsed to the end, as itself.
LEMMA SpecificReprinted ==
  ASSUME NEW s \in Seq(Char), NEW it \in Specific, NEW v, NEW p, NEW q, PrintedAt(s, it, v, p, q),
         GoodSpecific(it)
  PROVE  /\ ~ParseSpecific(s).panics /\ ParseSpecific(s).next = Len(s) + 1
         /\ ParseSpecific(s).it = it
  <1>0. Len(s) \in Nat /\ v \in 1..Len(s) /\ p \in 1..Len(s) /\ q \in 1..Len(s)
    BY LenProperties DEF PrintedAt
  <1>1. /\ s[v] = ":" /\ s[p] = ":" /\ s[q] = ":"
        /\ Spells(s, 1, v, it.vendor) /\ Spells(s, v + 1, p, it.product)
        /\ Spells(s, p + 1, q, it.variant) /\ Spells(s, q + 1, Len(s) + 1, PrintVersion(it.version))
    BY Zenon DEF PrintedAt
  <1>2. ":" \notin Domain /\ ":" \notin Skewer
    BY Classes
  <1>3. v \in 1..(Len(s) + 1) /\ p \in 1..(Len(s) + 1) /\ q \in 1..(Len(s) + 1)
    BY <1>0
  <1>4. Ends(s, 1, Domain, v)
    <2>1. Run(s, 1, v - 1, Domain) /\ 1 \in Nat \ {0}
      BY <1>1, SpellsRun, Zenon DEF GoodSpecific
    <2> QED
      BY <1>1, <1>2, <1>3, <2>1, EndsThere, Zenon
  <1>5. Ends(s, v + 1, Skewer, p)
    <2>1. Run(s, v + 1, p - 1, Skewer) /\ v + 1 \in Nat \ {0}
      BY <1>1, SpellsRun, Zenon DEF GoodSpecific
    <2> QED
      BY <1>1, <1>2, <1>3, <2>1, EndsThere, Zenon
  <1>6. Ends(s, p + 1, Skewer, q)
    <2>1. Run(s, p + 1, q - 1, Skewer) /\ p + 1 \in Nat \ {0}
      BY <1>1, SpellsRun, Zenon DEF GoodSpecific
    <2> QED
      BY <1>1, <1>2, <1>3, <2>1, EndsThere, Zenon
  <1>7. SpecificAt(s, v, p, q)
    BY <1>0, <1>1, <1>4, <1>5, <1>6, Zenon DEF SpecificAt
  <1>8. /\ ParseVersion(s, q + 1) # Fail /\ ~ParseVersion(s, q + 1).panics
        /\ ParseVersion(s, q + 1).next = Len(s) + 1
    <2>1. it.version \in Version
      BY DEF Specific
    <2> QED
      BY <1>1, <2>1, VersionReprinted, Zenon DEF GoodSpecific
  <1>9. ~ParseSpecific(s).panics /\ ParseSpecific(s).next = Len(s) + 1
    BY <1>7, <1>8, SpecificShape, Zenon
  <1> QED
    BY <1>9, SpecificKept, Zenon

\* A specific that was parsed to the end has them.
LEMMA SpecificWhole ==
  ASSUME NEW s \in Seq(Char), ParseSpecific(s).next = Len(s) + 1
  PROVE  GoodSpecific(ParseSpecific(s).it)
  <1>0. Len(s) \in Nat /\ Fail.next # Len(s) + 1 /\ Fail.next = 0
    BY LenProperties DEF Fail
  <1>1. PICK x, y, z : SpecificAt(s, x, y, z) /\ ParseVersion(s, z + 1).next # 0
    BY <1>0, SpecificFailed
  <1>2. z + 1 \in 1..(Len(s) + 1) /\ ParseVersion(s, z + 1) # Fail
    BY <1>0, <1>1, SpecificParsed, Zenon
  <1>3. PICK w : w = ParseVersion(s, z + 1)
    OBVIOUS
  <1>4. w.next = Len(s) + 1 /\ ParseSpecific(s).it = SpecificOf(s, x, y, z, w.it)
    BY <1>1, <1>2, <1>3, SpecificShape, Zenon
  <1>5. GoodRelease(w.it.release)
    BY <1>2, <1>3, <1>4, VersionWhole, Zenon
  <1>6. ASSUME NEW class, NEW i, NEW j, Ends(s, i, class, j)
        PROVE  SubSeq(s, i, j - 1) \in Seq(class) /\ SubSeq(s, i, j - 1) # <<>>
    <2>1. i \in 1..Len(s) /\ j \in (i + 1)..(Len(s) + 1) /\ \A k \in i..(j - 1) : s[k] \in class
      BY <1>6, Zenon DEF Ends, Run
    <2>2. i \in Int /\ j - 1 \in Int /\ i <= j - 1
      BY <1>0, <2>1
    <2>3. SubSeq(s, i, j - 1) \in Seq(class) /\ Len(SubSeq(s, i, j - 1)) = j - 1 - i + 1
      BY <2>1, <2>2, SubSeqProperties
    <2>4. Len(SubSeq(s, i, j - 1)) # 0
      BY <2>2, <2>3
    <2>5. PICK t : t = SubSeq(s, i, j - 1)
      OBVIOUS
    <2>6. Len(t) # 0 => t # <<>>
      OBVIOUS
    <2> QED
      BY <2>3, <2>4, <2>5, <2>6, Zenon
  <1>7. /\ SubSeq(s, 1, x - 1) \in Seq(Domain) /\ SubSeq(s, 1, x - 1) # <<>>
        /\ SubSeq(s, x + 1, y - 1) \in Seq(Skewer) /\ SubSeq(s, x + 1, y - 1) # <<>>
        /\ SubSeq(s, y + 1, z - 1) \in Seq(Skewer) /\ SubSeq(s, y + 1, z - 1) # <<>>
    BY <1>1, <1>6, Zenon DEF SpecificAt
  <1>8. PICK a, b, c : a = SubSeq(s, 1, x - 1) /\ b = SubSeq(s, x + 1, y - 1) /\ c = SubSeq(s, y + 1, z - 1)
    OBVIOUS
  <1>9. ParseSpecific(s).it = [vendor |-> a, product |-> b, variant |-> c, version |-> w.it]
    BY <1>4, <1>8, Zenon DEF SpecificOf
  <1>10. /\ ParseSpecific(s).it.vendor = a /\ ParseSpecific(s).it.product = b
         /\ ParseSpecific(s).it.variant = c /\ ParseSpecific(s).it.version = w.it
    BY <1>9
  <1> QED
    BY <1>5, <1>7, <1>8, <1>10, Zenon DEF GoodSpecific

\* The text of an address is empty or ends with a colon: the grammar has neither.
LEMMA AddressRefused ==
  ASSUME NEW q \in Seq(Seq(Char))
  PROVE  ~IsAddress(AddressText(q))
  <1>0. Len(q) \in Nat /\ DOMAIN q = 1..Len(q) /\ <<":">> \in Seq(Char) /\ \A i \in 1..Len(q) : q[i] \in Seq(Char)
    BY Classes
  <1>1. PICK w : w = [i \in DOMAIN q |-> q[i] \o <<":">>]
    OBVIOUS
  <1>2. w \in Seq(Seq(Char)) /\ Len(w) = Len(q) /\ \A i \in 1..Len(q) : w[i] = q[i] \o <<":">>
    <2>1. \A i \in 1..Len(q) : q[i] \o <<":">> \in Seq(Char)
      BY <1>0, ConcatProperties
    <2>2. w \in [1..Len(q) -> Seq(Char)] /\ \A i \in 1..Len(q) : w[i] = q[i] \o <<":">>
      BY <1>0, <1>1, <2>1
    <2>3. w \in Seq(Seq(Char))
      <3>1. Seq(Seq(Char)) = UNION {[1..n -> Seq(Char)] : n \in Nat}
        BY SeqDef
      <3>2. [1..Len(q) -> Seq(Char)] \in {[1..n -> Seq(Char)] : n \in Nat}
        BY <1>0, Zenon
      <3> QED
        BY <2>2, <3>1, <3>2, Zenon
    <2>4. Len(w) = Len(q)
      BY <1>0, <2>2, <2>3, LenProperties
    <2> QED
      BY <2>2, <2>3, <2>4, Zenon
  <1>3. AddressText(q) = FlattenSeq(w)
    BY <1>1, Zenon DEF AddressText
  <1>4. CASE w = <<>>
    <2>1. FlattenSeq(w) = <<>>
      BY <1>4 DEF FlattenSeq
    <2> QED
      BY <1>3, <2>1, Zenon DEF IsAddress
  <1>5. CASE w # <<>>
    <2>1. PICK f : Flat(f, w, Len(w)) /\ FlattenSeq(w) = f[Len(w)]
      BY <1>2, <1>5, FlattenIsFlat, Zenon
    <2>2. PICK n \in 1..Len(q) : n = Len(q)
      <3>1. Len(w) # 0 /\ Len(q) \in Nat /\ Len(w) = Len(q)
        <4>1. w \in Seq(Seq(Char)) /\ Len(w) = Len(q)
          BY <1>2, Zenon
        <4> QED
          BY <1>0, <1>5, <4>1
      <3>2. Len(q) \in 1..Len(q)
        BY <3>1
      <3> QED
        BY <3>2, Zenon
    <2>3. /\ f \in [1..n -> Seq(Char)]
          /\ FlattenSeq(w) = IF n = 1 THEN w[n] ELSE f[n - 1] \o w[n]
      BY <1>2, <2>1, <2>2, Zenon DEF Flat
    <2>4. PICK t \in Seq(Char) : t = q[n]
      BY <1>0, Zenon
    <2>5. w[n] = t \o <<":">>
      BY <1>2, <2>4, Zenon
    <2>6. ASSUME NEW x \in Seq(Char), NEW y \in Seq(Char), NEW z, z = x \o (y \o <<":">>) \/ z = y \o <<":">>
          PROVE  z \in Seq(Char) /\ z[Len(z)] = ":"
      <3>1. PICK u : u = y \o <<":">>
        OBVIOUS
      <3>2. u \in Seq(Char) /\ Len(u) = Len(y) + 1 /\ u[Len(y) + 1] = ":" /\ Len(y) \in Nat
        BY <1>0, <3>1
      <3>3. CASE z = u
        BY <3>2, <3>3, Zenon
      <3>4. CASE z = x \o u
        <4>1. /\ z \in Seq(Char) /\ Len(z) = Len(x) + Len(u)
              /\ \A i \in 1..(Len(x) + Len(u)) : z[i] = IF i <= Len(x) THEN x[i] ELSE u[i - Len(x)]
          BY <3>2, <3>4, ConcatProperties
        <4>2. /\ Len(x) + Len(u) \in 1..(Len(x) + Len(u)) /\ ~(Len(x) + Len(u) <= Len(x))
              /\ (Len(x) + Len(u)) - Len(x) = Len(u)
          <5>1. Len(x) \in Nat /\ Len(u) \in Nat \ {0}
            BY <3>2
          <5> QED
            BY <5>1
        <4>3. z[Len(z)] = u[Len(u)]
          BY <4>1, <4>2, Zenon
        <4> QED
          BY <3>2, <4>1, <4>3, Zenon
      <3> QED
        BY <2>6, <3>1, <3>3, <3>4, Zenon
    <2>7. FlattenSeq(w)[Len(FlattenSeq(w))] = ":"
      <3>1. CASE n = 1
        BY <2>3, <2>4, <2>5, <2>6, <3>1, Zenon
      <3>2. CASE n # 1
        <4>1. n - 1 \in 1..n
          BY <3>2
        <4>2. f[n - 1] \in Seq(Char)
          BY <2>3, <4>1, Zenon
        <4> QED
          BY <2>3, <2>4, <2>5, <2>6, <3>2, <4>2, Zenon
      <3> QED
        BY <3>1, <3>2
    <2> QED
      BY <1>3, <2>7, Zenon DEF IsAddress
  <1> QED
    BY <1>4, <1>5

-----------------------------------------------------------------------------
(* The program. *)

\* The program reads one of three ways.
LEMMA ReadHow ==
  ASSUME NEW type, NEW s
  PROVE  \/ /\ FromStr(type, s) = [how |-> "panic"] /\ FromStr(type, s).how = "panic"
            /\ Parse(type, s).panics
         \/ /\ FromStr(type, s) = [how |-> "err"] /\ FromStr(type, s).how = "err"
            /\ ~Parse(type, s).panics /\ Parse(type, s).next # Len(s) + 1
         \/ /\ FromStr(type, s).how = "ok"
            /\ FromStr(type, s) = [how |-> "ok", value |-> [type |-> type, it |-> Parse(type, s).it]]
            /\ FromStr(type, s).value = [type |-> type, it |-> Parse(type, s).it]
            /\ ~Parse(type, s).panics /\ Parse(type, s).next = Len(s) + 1
  <1>1. PICK p : p = Parse(type, s)
    OBVIOUS
  <1>2. FromStr(type, s) = IF p.panics THEN [how |-> "panic"]
                           ELSE IF p.next # Len(s) + 1 THEN [how |-> "err"]
                           ELSE [how |-> "ok", value |-> [type |-> type, it |-> p.it]]
    BY <1>1, Zenon DEF FromStr
  <1>3. CASE p.panics
    BY <1>1, <1>2, <1>3
  <1>4. CASE ~p.panics /\ p.next # Len(s) + 1
    BY <1>1, <1>2, <1>4
  <1>5. CASE ~p.panics /\ p.next = Len(s) + 1
    BY <1>1, <1>2, <1>5
  <1> QED
    BY <1>3, <1>4, <1>5

\* What a program holds is a value of the Rust types: whatever text was read, its
\* numbers are at most usize::MAX, for parse_version panics on any other.
THEOREM IdTextTyped == Spec => []TypeOK
  <1>1. Init => TypeOK
    BY ConstantsAssumption DEF Init, TypeOK, ConstantsAssumption
  <1>2. TypeOK /\ [Next]_vars => TypeOK'
    <2>1. SUFFICES ASSUME TypeOK, [Next]_vars PROVE TypeOK'
      OBVIOUS
    <2>2. CASE PrintOut
      <3>1. held.is = "value" /\ held.value \in Value /\ held.edits \in 0..MaxEdits
        BY <2>1, <2>2 DEF TypeOK, PrintOut
      <3>2. PICK t \in Seq(Char) : t = TextOf(held.value)
        BY <3>1, PrintType
      <3>3. held' = [is |-> "text", text |-> t, of |-> held.value, edits |-> held.edits]
        BY <2>2, <3>2, Zenon DEF PrintOut
      <3> QED
        BY <3>1, <3>3 DEF TypeOK
    <2>3. CASE Edit
      <3>1. /\ held \in [is : {"text"}, text : Seq(Char), of : Value, edits : 0..MaxEdits]
            /\ held.edits < MaxEdits
        BY <2>1, <2>3 DEF TypeOK, Edit
      <3>2. PICK t \in Edited(held.text) : held' = [held EXCEPT !.text = t, !.edits = @ + 1]
        BY <2>3, Zenon DEF Edit
      <3>3. t \in Seq(Char)
        BY <3>1, EditedType
      <3>4. held.edits + 1 \in 0..MaxEdits
        BY <3>1, ConstantsAssumption DEF ConstantsAssumption
      <3>5. held' \in [is : {"text"}, text : Seq(Char), of : Value, edits : 0..MaxEdits]
        BY <3>1, <3>2, <3>3, <3>4
      <3> QED
        BY <3>5 DEF TypeOK
    <2>4. CASE Read
      <3>1. held.text \in Seq(Char) /\ held.of \in Value /\ held.edits \in 0..MaxEdits
        BY <2>1, <2>4 DEF TypeOK, Read
      <3>2. held.of.type \in Type
        BY <3>1, PrintType
      <3>3. PICK o : o = FromStr(held.of.type, held.text)
        OBVIOUS
      <3>4. held' = CASE o.how = "ok" -> [is |-> "value", value |-> o.value, edits |-> held.edits]
                      [] o.how = "err" -> [is |-> "error"]
                      [] o.how = "panic" -> [is |-> "panic"]
        BY <2>4, <3>3, Zenon DEF Read
      <3>5. o.how \in {"ok", "err", "panic"}
        <4>1. o.how = "ok" \/ o.how = "err" \/ o.how = "panic"
          BY <3>3, ReadHow, Zenon
        <4> QED
          BY <4>1
      <3>6. CASE o.how = "ok"
        <4>1. o.value \in Value
          BY <3>1, <3>2, <3>3, <3>6, ReadType
        <4> QED
          BY <3>1, <3>4, <3>6, <4>1 DEF TypeOK
      <3>7. CASE o.how = "err"
        BY <3>4, <3>7 DEF TypeOK
      <3>8. CASE o.how = "panic"
        BY <3>4, <3>8 DEF TypeOK
      <3> QED
        BY <3>5, <3>6, <3>7, <3>8
    <2>5. CASE TakeParent
      BY <2>5 DEF TakeParent, TypeOK
    <2>6. CASE UNCHANGED vars
      BY <2>1, <2>6 DEF vars, TypeOK
    <2> QED
      BY <2>1, <2>2, <2>3, <2>4, <2>5, <2>6 DEF Next
  <1> QED
    BY <1>1, <1>2, PTL DEF Spec

\* The parsers and the grammar agree on any text: from_str accepts a text just if
\* there is a way to cut it, gives what the cut stands for, and panics just if
\* some beginning of the text can be cut with a number above usize::MAX.
THEOREM ReadsTheGrammar == Spec => []ReadsAsGrammar
  <1>1. TypeOK => ReadsAsGrammar
    <2>1. SUFFICES ASSUME TypeOK, held.is = "text"
                   PROVE  ReadsAsGrammar
      BY DEF ReadsAsGrammar
    <2>a. held.text \in Seq(Char) /\ held.of.type \in Type
      <3>1. held.text \in Seq(Char) /\ held.of \in Value
        BY <2>1 DEF TypeOK
      <3> QED
        BY <3>1, PrintType, Zenon
    <2>b. PICK s \in Seq(Char) : s = held.text
      BY <2>a, Zenon
    <2>2. PICK type \in Type : s = held.text /\ type = held.of.type
      BY <2>a, <2>b, Zenon
    <2>3. PICK o : o = FromStr(type, s)
      OBVIOUS
    <2>4. PICK p : p = Parse(type, s)
      OBVIOUS
    <2>5. /\ p.panics => o.how = "panic"
          /\ ~p.panics /\ p.next # Len(s) + 1 => o.how = "err"
          /\ ~p.panics /\ p.next = Len(s) + 1 => o.how = "ok" /\ o.value.type = type /\ o.value.it = p.it
      <3>1. \/ p.panics /\ o.how = "panic"
            \/ ~p.panics /\ p.next # Len(s) + 1 /\ o.how = "err"
            \/ /\ ~p.panics /\ p.next = Len(s) + 1 /\ o.how = "ok"
               /\ o.value = [type |-> type, it |-> p.it]
        BY <2>3, <2>4, ReadHow, Zenon
      <3> QED
        BY <3>1
    <2>6. CASE type = "Address"
      <3>1. p = ParseAddress(s)
        BY <2>4, <2>6 DEF Parse
      <3>2. /\ p.panics = FALSE /\ (IsAddress(s) <=> p.next = Len(s) + 1)
            /\ IsAddress(s) => AddressText(p.it) = Append(s, ":")
        BY <3>1, AddressReadsAsGrammar, Zenon
      <3>3. IsAddress(s) => o.how = "ok" /\ TextOf(o.value) = Append(s, ":")
        <4>1. ASSUME IsAddress(s) PROVE o.how = "ok" /\ o.value.type = "Address" /\ o.value.it = p.it
          BY <2>5, <2>6, <3>2, <4>1
        <4>2. o.value.type = "Address" => TextOf(o.value) = AddressText(o.value.it)
          BY DEF TextOf, AddressText
        <4> QED
          BY <3>2, <4>1, <4>2, Zenon
      <3>4. ~IsAddress(s) => o.how = "err"
        BY <2>5, <3>2, Zenon
      <3> QED
        BY <2>2, <2>3, <2>6, <3>3, <3>4, Zenon DEF ReadsAsGrammar
    <2>7. CASE type = "Version"
      <3>1. p = ParseVersion(s, 1)
        BY <2>4, <2>7 DEF Parse
      <3>2. p.panics <=> Overflows("Version", s)
        BY <3>1, VersionOverflows, Zenon
      <3>3. VersionReadings(s, 1) = IF p.next = Len(s) + 1 THEN {p.it} ELSE {}
        <4>1. 1 \in 1..(Len(s) + 1)
          BY LenProperties
        <4> QED
          BY <3>1, <4>1, VersionReadsAsGrammar, Zenon
      <3>4. VersionReadings(s, 1) = {} <=> p.next # Len(s) + 1
        BY <3>3
      <3> QED
        BY <2>2, <2>3, <2>5, <2>7, <3>2, <3>3, <3>4, Zenon DEF ReadsAsGrammar
    <2>8. CASE type = "Specific"
      <3>1. p = ParseSpecific(s)
        BY <2>4, <2>8 DEF Parse
      <3>2. p.panics <=> Overflows("Specific", s)
        BY <3>1, SpecificPanics, Zenon
      <3>3. SpecificReadings(s) = IF p.next = Len(s) + 1 THEN {p.it} ELSE {}
        BY <3>1, SpecificReadsAsGrammar, Zenon
      <3>4. SpecificReadings(s) = {} <=> p.next # Len(s) + 1
        BY <3>3
      <3> QED
        BY <2>2, <2>3, <2>5, <2>8, <3>2, <3>3, <3>4, Zenon DEF ReadsAsGrammar
    <2> QED
      BY <2>6, <2>7, <2>8 DEF Type
  <1> QED
    BY <1>1, IdTextTyped, PTL

\* The text of a version or of a specific, read as such, gives the same, or the
\* reader refuses it; it may panic for a specific with colons in its strings.
LEMMA ReadBack ==
  ASSUME NEW type \in Type, NEW it, [type |-> type, it |-> it] \in Value
  PROVE  LET value == [type |-> type, it |-> it]
             o == FromStr(type, TextOf(value))
         IN \/ o.how = "err"
            \/ o.how = "ok" /\ o.value = value /\ type # "Address"
            \/ o.how = "panic" /\ type = "Specific" /\ HasColon(it)
  <1>1. PICK value \in Value : value = [type |-> type, it |-> it] /\ value.type = type /\ value.it = it
    OBVIOUS
  <1>2. PICK s \in Seq(Char) : s = TextOf(value)
    BY PrintType, Zenon
  <1>3. PICK o : o = FromStr(type, s)
    OBVIOUS
  <1>4. PICK p : p = Parse(type, s)
    OBVIOUS
  <1>5. \/ p.panics /\ o.how = "panic"
        \/ ~p.panics /\ p.next # Len(s) + 1 /\ o.how = "err"
        \/ /\ ~p.panics /\ p.next = Len(s) + 1 /\ o.how = "ok"
           /\ o.value = [type |-> type, it |-> p.it]
    BY <1>3, <1>4, ReadHow, Zenon
  <1> DEFINE Goal == \/ o.how = "err"
                     \/ o.how = "ok" /\ o.value = value /\ type # "Address"
                     \/ o.how = "panic" /\ type = "Specific" /\ HasColon(it)
  <1>6. CASE type = "Version"
    <2>1. it \in Version /\ s = PrintVersion(it) /\ p = ParseVersion(s, 1)
      <3>1. it \in Version
        BY <1>1, <1>6 DEF Value
      <3>2. TextOf(value) = PrintVersion(value.it)
        BY <1>1, <1>6 DEF TextOf
      <3>3. Parse(type, s) = ParseVersion(s, 1)
        BY <1>6 DEF Parse
      <3> QED
        BY <1>1, <1>2, <1>4, <3>1, <3>2, <3>3, Zenon
    <2>2. Spells(s, 1, Len(s) + 1, PrintVersion(it))
      BY <2>1, SpellsItself, Zenon
    <2>3. ~p.panics /\ (p.next = Len(s) + 1 => p.it = it)
      BY <2>1, <2>2, VersionReprinted, Zenon
    <2>4. type # "Address"
      BY <1>6
    <2>5. Goal
      BY <1>1, <1>5, <2>3, <2>4, Zenon
    <2> QED
      BY <1>1, <1>2, <1>3, <2>5, Zenon
  <1>7. CASE type = "Specific"
    <2>1. it \in Specific /\ s = SpecificText(it) /\ p = ParseSpecific(s)
      <3>1. it \in Specific
        BY <1>1, <1>7 DEF Value
      <3>2. TextOf(value) = SpecificText(value.it)
        BY <1>1, <1>7 DEF TextOf, SpecificText
      <3>3. Parse(type, s) = ParseSpecific(s)
        BY <1>7 DEF Parse
      <3> QED
        BY <1>1, <1>2, <1>4, <3>1, <3>2, <3>3, Zenon
    <2>2. PICK v, a, b : PrintedAt(s, it, v, a, b)
      BY <2>1, SpecificPrinted, Zenon
    <2>3. p.next = Len(s) + 1 => p.it = it
      BY <2>1, <2>2, SpecificKept, Zenon
    <2>4. ~HasColon(it) => ~p.panics
      BY <2>1, <2>2, SpecificQuiet, Zenon
    <2>5. type # "Address"
      BY <1>7
    <2>6. Goal
      BY <1>1, <1>5, <1>7, <2>3, <2>4, <2>5, Zenon
    <2> QED
      BY <1>1, <1>2, <1>3, <2>6, Zenon
  <1>8. CASE type = "Address"
    <2>1. it \in Seq(Seq(Char)) /\ s = AddressText(it) /\ p = ParseAddress(s)
      <3>1. it \in Seq(Seq(Char))
        BY <1>1, <1>8 DEF Value
      <3>2. TextOf(value) = AddressText(value.it)
        BY <1>1, <1>8 DEF TextOf, AddressText
      <3>3. Parse(type, s) = ParseAddress(s)
        BY <1>8 DEF Parse
      <3> QED
        BY <1>1, <1>2, <1>4, <3>1, <3>2, <3>3, Zenon
    <2>2. ~IsAddress(s)
      BY <2>1, AddressRefused, Zenon
    <2>3. p.panics = FALSE /\ p.next # Len(s) + 1
      BY <2>1, <2>2, AddressReadsAsGrammar, Zenon
    <2>4. Goal
      BY <1>5, <2>3
    <2> QED
      BY <1>1, <1>2, <1>3, <2>4, Zenon
  <1> QED
    BY <1>6, <1>7, <1>8 DEF Type

\* Both together, as a run checks them: whatever was printed and edited, what is
\* held is typed, and from_str reads a text as the grammar does.
THEOREM TextCorrect == Spec => []TextInv
  <1>1. TypeOK /\ ReadsAsGrammar => TextInv
    BY DEF TextInv
  <1> QED
    BY <1>1, IdTextTyped, ReadsTheGrammar, PTL

\* What to_string made of a value, whatever strings are in it, from_str reads as
\* that value or refuses, an address always; a panic takes a specific with a
\* colon in a string.
THEOREM ReadsTheSame == Spec => SameOrRefused
  <1> DEFINE A == held.is = "text" /\ held.text = TextOf(held.of) =>
                    \/ held'.is \in {"text", "error"}
                    \/ held'.is = "value" /\ held'.value = held.of /\ held.of.type # "Address"
                    \/ held'.is = "panic" /\ held.of.type = "Specific" /\ HasColon(held.of.it)
  <1>1. TypeOK /\ [Next]_vars => [A]_vars
    <2>1. SUFFICES ASSUME TypeOK, [Next]_vars, held.is = "text", held.text = TextOf(held.of)
                   PROVE  held' = held \/ A
      BY DEF vars
    <2>2. CASE PrintOut \/ TakeParent
      BY <2>1, <2>2 DEF PrintOut, TakeParent
    <2>3. CASE Edit
      <3>1. held'.is = "text"
        BY <2>1, <2>3 DEF Edit, TypeOK
      <3> QED
        BY <3>1
    <2>4. CASE Read
      <3>1. held.of \in Value
        BY <2>1 DEF TypeOK
      <3>2. PICK type, it : /\ type \in Type
                            /\ held.of = [type |-> type, it |-> it]
                            /\ held.of.type = type /\ held.of.it = it
        <4>1. held.of.type \in Type /\ held.of = [type |-> held.of.type, it |-> held.of.it]
          BY <3>1 DEF Value, Type
        <4> QED
          BY <4>1, Zenon
      <3>3. PICK o : o = FromStr(type, TextOf([type |-> type, it |-> it]))
        OBVIOUS
      <3>4. \/ o.how = "err"
            \/ o.how = "ok" /\ o.value = held.of /\ type # "Address"
            \/ o.how = "panic" /\ type = "Specific" /\ HasColon(it)
        BY <3>1, <3>2, <3>3, ReadBack, Zenon
      <3>5. held' = CASE o.how = "ok" -> [is |-> "value", value |-> o.value, edits |-> held.edits]
                      [] o.how = "err" -> [is |-> "error"]
                      [] o.how = "panic" -> [is |-> "panic"]
        BY <2>1, <2>4, <3>2, <3>3, Zenon DEF Read
      <3>6. CASE o.how = "err"
        BY <3>5, <3>6
      <3>7. CASE o.how = "ok" /\ o.value = held.of /\ type # "Address"
        BY <3>2, <3>5, <3>7
      <3>8. CASE o.how = "panic" /\ type = "Specific" /\ HasColon(it)
        <4>1. held'.is = "panic"
          BY <3>5, <3>8
        <4> QED
          BY <3>2, <3>8, <4>1, Zenon
      <3> QED
        BY <3>4, <3>6, <3>7, <3>8
    <2>5. CASE UNCHANGED vars
      BY <2>5 DEF vars
    <2> QED
      BY <2>1, <2>2, <2>3, <2>4, <2>5 DEF Next
  <1> QED
    BY <1>1, IdTextTyped, PTL DEF Spec, SameOrRefused

\* A version or a specific that was read is read again from its own text.
LEMMA ReadAgain ==
  ASSUME NEW type \in {"Version", "Specific"}, NEW s \in Seq(Char), FromStr(type, s).how = "ok"
  PROVE  FromStr(type, TextOf(FromStr(type, s).value)) = [how |-> "ok", value |-> FromStr(type, s).value]
  <1>0. type \in Type /\ Len(s) \in Nat /\ Fail.next # Len(s) + 1
    BY LenProperties DEF Type, Fail
  <1>1. PICK value \in Value : value = FromStr(type, s).value
    BY <1>0, ReadType, Zenon
  <1>2. PICK it : it = Parse(type, s).it
    OBVIOUS
  <1>3. /\ value = [type |-> type, it |-> it]
        /\ ~Parse(type, s).panics /\ Parse(type, s).next = Len(s) + 1
    <2>1. FromStr(type, s).how # "panic" /\ FromStr(type, s).how # "err"
      OBVIOUS
    <2> QED
      BY <1>1, <1>2, <2>1, ReadHow, Zenon
  <1>4. value.type = type /\ value.it = it
    BY <1>3
  <1>5. PICK t \in Seq(Char) : t = TextOf(value)
    BY PrintType, Zenon
  <1>6. ASSUME ~Parse(type, t).panics, Parse(type, t).next = Len(t) + 1, Parse(type, t).it = it
        PROVE  FromStr(type, t) = [how |-> "ok", value |-> value]
    BY <1>3, <1>6, ReadHow, Zenon
  <1>7. CASE type = "Version"
    <2>1. /\ it \in Version /\ it = ParseVersion(s, 1).it /\ ParseVersion(s, 1).next = Len(s) + 1
          /\ t = PrintVersion(it) /\ Parse(type, t) = ParseVersion(t, 1)
      <3>1. it \in Version
        BY <1>4, <1>7 DEF Value
      <3>2. TextOf(value) = PrintVersion(value.it)
        BY <1>4, <1>7 DEF TextOf
      <3>3. Parse(type, s) = ParseVersion(s, 1) /\ Parse(type, t) = ParseVersion(t, 1)
        BY <1>7 DEF Parse
      <3> QED
        BY <1>2, <1>3, <1>4, <1>5, <3>1, <3>2, <3>3, Zenon
    <2>2. GoodRelease(it.release)
      <3>1. 1 \in 1..(Len(s) + 1)
        BY <1>0
      <3> QED
        BY <2>1, <3>1, VersionWhole, Zenon
    <2>3. Spells(t, 1, Len(t) + 1, PrintVersion(it))
      BY <2>1, SpellsItself, Zenon
    <2>4. ~Parse(type, t).panics /\ Parse(type, t).next = Len(t) + 1 /\ Parse(type, t).it = it
      <3>1. ~ParseVersion(t, 1).panics /\ ParseVersion(t, 1).next = Len(t) + 1 /\ ParseVersion(t, 1).it = it
        BY <2>1, <2>2, <2>3, VersionReprinted
      <3> QED
        BY <2>1, <3>1, Zenon
    <2> QED
      BY <1>1, <1>5, <1>6, <2>4, Zenon
  <1>8. CASE type = "Specific"
    <2>1. /\ it \in Specific /\ it = ParseSpecific(s).it /\ ParseSpecific(s).next = Len(s) + 1
          /\ t = SpecificText(it) /\ Parse(type, t) = ParseSpecific(t)
      <3>1. it \in Specific
        BY <1>4, <1>8 DEF Value
      <3>2. TextOf(value) = SpecificText(value.it)
        BY <1>4, <1>8 DEF TextOf, SpecificText
      <3>3. Parse(type, s) = ParseSpecific(s) /\ Parse(type, t) = ParseSpecific(t)
        BY <1>8 DEF Parse
      <3> QED
        BY <1>2, <1>3, <1>4, <1>5, <3>1, <3>2, <3>3, Zenon
    <2>2. GoodSpecific(it)
      BY <2>1, SpecificWhole, Zenon
    <2>3. PICK v, a, b : PrintedAt(t, it, v, a, b)
      BY <2>1, SpecificPrinted, Zenon
    <2>4. ~Parse(type, t).panics /\ Parse(type, t).next = Len(t) + 1 /\ Parse(type, t).it = it
      BY <2>1, <2>2, <2>3, SpecificReprinted, Zenon
    <2> QED
      BY <1>1, <1>5, <1>6, <2>4, Zenon
  <1> QED
    BY <1>7, <1>8

\* Any text of a version or a specific that from_str takes, edited by hand or not,
\* is as good as what the value is printed as: one reading makes it stable.
THEOREM ReadingIsStable == Spec => ReadSurvives
  <1> DEFINE A == held.is = "text" /\ held'.is = "value" /\ held'.value.type # "Address" =>
                    FromStr(held'.value.type, TextOf(held'.value)) = [how |-> "ok", value |-> held'.value]
  <1>1. TypeOK /\ [Next]_vars => [A]_vars
    <2>1. SUFFICES ASSUME TypeOK, [Next]_vars, held.is = "text", held'.is = "value",
                          held'.value.type # "Address"
                   PROVE  A
      BY DEF vars
    <2>2. CASE PrintOut \/ TakeParent
      BY <2>1, <2>2 DEF PrintOut, TakeParent
    <2>3. CASE Edit
      <3>1. held'.is = "text"
        BY <2>1, <2>3 DEF Edit, TypeOK
      <3> QED
        BY <2>1, <3>1
    <2>4. CASE Read
      <3>1. held.text \in Seq(Char) /\ held.of \in Value
        BY <2>1 DEF TypeOK
      <3>2. PICK s \in Seq(Char), type \in Type : s = held.text /\ type = held.of.type
        BY <3>1, PrintType, Zenon
      <3>3. PICK o : o = FromStr(type, s)
        OBVIOUS
      <3>4. o.how \in {"panic", "err", "ok"}
        <4>1. o.how = "ok" \/ o.how = "err" \/ o.how = "panic"
          BY <3>3, ReadHow, Zenon
        <4> QED
          BY <4>1
      <3>5. held' = CASE o.how = "ok" -> [is |-> "value", value |-> o.value, edits |-> held.edits]
                      [] o.how = "err" -> [is |-> "error"]
                      [] o.how = "panic" -> [is |-> "panic"]
        BY <2>4, <3>2, <3>3, Zenon DEF Read
      <3>6. o.how = "ok" /\ held'.value = o.value
        BY <2>1, <3>4, <3>5
      <3>7. o.value.type = type
        BY <3>3, <3>6, ReadType, Zenon
      <3>8. type \in {"Version", "Specific"}
        BY <2>1, <3>6, <3>7 DEF Type
      <3>9. FromStr(type, TextOf(o.value)) = [how |-> "ok", value |-> o.value]
        BY <3>3, <3>6, <3>8, ReadAgain, Zenon
      <3> QED
        BY <3>6, <3>7, <3>9, Zenon
    <2>5. CASE UNCHANGED vars
      <3>1. held' = held
        BY <2>5 DEF vars
      <3>2. held'.is = "text"
        BY <2>1, <3>1, Zenon
      <3> QED
        BY <2>1, <3>2
    <2> QED
      BY <2>1, <2>2, <2>3, <2>4, <2>5 DEF Next
  <1> QED
    BY <1>1, IdTextTyped, PTL DEF Spec, ReadSurvives
=============================================================================

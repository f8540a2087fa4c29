-------------------------- MODULE HttpClientProofs --------------------------
(***************************************************************************)
(* Lemmas about one REST call, for texts of any length: what FlattenSeq    *)
(* returns, that Decode is the inverse of urlEncode, that the exchange     *)
(* finds in a URL the path and the parameters it was made of, and that a   *)
(* request made of what was passed, by Plain or with a signature, is       *)
(* delivered and accepted.  RestClientsProofs applies them to every        *)
(* function of the four classes.                                           *)
(***************************************************************************)
EXTENDS HttpClient, SequenceTheorems, FiniteSetTheorems, WellFoundedInduction, TLAPS

-----------------------------------------------------------------------------
(* Induction over the numbers.  The library's theorem takes an operator, so *)
(* a set of numbers takes its place.                                        *)

\* A set of numbers has a least one.
LEMMA LeastNumber ==
  ASSUME NEW T \in SUBSET Nat, T # {}
  PROVE  \E m \in T : \A k \in T : m <= k
<1> DEFINE U == {1..n : n \in T}
<1>1. \A n \in Nat : 1..n \in FiniteSubsetsOf(Nat)
  BY FS_Interval DEF FiniteSubsetsOf
<1>2. U \subseteq FiniteSubsetsOf(Nat) /\ U # {}
  BY <1>1
<1>3. PICK x \in U : \A y \in U : <<y, x>> \notin StrictSubsetOrdering(Nat)
  <2> HIDE DEF U
  <2> QED
    BY <1>2, FS_StrictSubsetOrderingWellFounded, WFMin
<1>4. PICK m \in T : x = 1..m
  BY <1>3
<1>5. ASSUME NEW k \in T, k < m PROVE FALSE
  <2>1. 1..k \subseteq 1..m /\ m \in 1..m /\ m \notin 1..k
    BY <1>5
  <2>2. <<1..k, 1..m>> \in StrictSubsetOrdering(Nat)
    BY <2>1 DEF StrictSubsetOrdering
  <2> QED
    BY <1>3, <1>4, <2>2
<1> QED
  BY <1>5

\* What holds of 0 and of the successor of each number it holds of.
LEMMA Induction ==
  ASSUME NEW T, 0 \in T, \A n \in Nat : n \in T => n + 1 \in T
  PROVE  Nat \subseteq T
<1> SUFFICES ASSUME Nat \ T # {} PROVE FALSE
  OBVIOUS
<1>1. PICK m \in Nat \ T : \A k \in Nat \ T : m <= k
  <2> DEFINE U == Nat \ T
  <2>1. U \in SUBSET Nat /\ U # {}
    OBVIOUS
  <2> QED
    BY <2>1, LeastNumber
<1>2. m # 0 /\ m - 1 \in Nat /\ m - 1 \notin Nat \ T
  BY <1>1
<1> QED
  BY <1>1, <1>2

-----------------------------------------------------------------------------
(* FlattenSeq.                                                              *)

Joins(flatten, seqs) ==
    flatten = [i \in 1..Len(seqs) |-> IF i = 1 THEN seqs[i] ELSE flatten[i - 1] \o seqs[i]]

\* The recursion of FlattenSeq has a solution.
LEMMA JoinsExists ==
  ASSUME NEW S, NEW seqs \in Seq(Seq(S)) PROVE \E f : Joins(f, seqs)
<1> DEFINE n == Len(seqs)
           e(f, i) == IF i = 1 THEN seqs[i] ELSE f[i - 1] \o seqs[i]
           P(k) == \E f : f = [i \in 1..k |-> e(f, i)]
           T == {k \in Nat : k <= n => P(k)}
<1>1. 0 \in T
  <2>1. [i \in 1..0 |-> seqs[i]] = [i \in 1..0 |-> e([j \in 1..0 |-> seqs[j]], i)]
    OBVIOUS
  <2> QED BY <2>1
<1>2. ASSUME NEW k \in Nat, k \in T PROVE k + 1 \in T
  <2> SUFFICES ASSUME k + 1 <= n PROVE P(k + 1)
    <3> HIDE DEF P
    <3> QED OBVIOUS
  <2>0. k <= n /\ P(k)
    <3> HIDE DEF P
    <3> QED BY <1>2
  <2>1. PICK f : f = [i \in 1..k |-> e(f, i)]
    BY <2>0
  <2> DEFINE g == [i \in 1..(k + 1) |-> IF i <= k THEN f[i] ELSE e(f, i)]
  <2>2. \A i \in 1..k : f[i] = e(f, i)
    BY <2>1
  <2>3. ASSUME NEW i \in 1..(k + 1) PROVE g[i] = e(g, i)
    <3>1. i = 1 \/ (i - 1 \in 1..k /\ g[i - 1] = f[i - 1])
      OBVIOUS
    <3>2. e(g, i) = e(f, i)
      BY <3>1
    <3> QED
      BY <2>2, <3>2
  <2>4. g = [i \in 1..(k + 1) |-> e(g, i)]
    <3> HIDE DEF e
    <3> QED BY <2>3
  <2> QED
    BY <2>4
<1>3. n \in T
  <2> HIDE DEF T
  <2> QED BY <1>1, <1>2, Induction
<1>4. P(n)
  <2> HIDE DEF P
  <2> QED BY <1>3
<1> QED
  BY <1>4 DEF Joins

\* FlattenSeq joins the sequences one by one.
LEMMA Flatten ==
  ASSUME NEW S, NEW seqs \in Seq(Seq(S)), seqs # <<>>
  PROVE  \E f \in [1..Len(seqs) -> Seq(S)] :
           /\ f[1] = seqs[1]
           /\ \A i \in 2..Len(seqs) : f[i] = f[i - 1] \o seqs[i]
           /\ FlattenSeq(seqs) = f[Len(seqs)]
<1> DEFINE n == Len(seqs)
           f == CHOOSE g : Joins(g, seqs)
           T == {k \in Nat : k \in 1..n => f[k] \in Seq(S)}
<1>1. n \in Nat \ {0} /\ \A i \in 1..n : seqs[i] \in Seq(S)
  OBVIOUS
<1>2. Joins(f, seqs)
  BY JoinsExists
<1>3. f = [i \in 1..n |-> IF i = 1 THEN seqs[i] ELSE f[i - 1] \o seqs[i]]
  BY <1>2 DEF Joins
<1>4. FlattenSeq(seqs) = f[n]
  BY <1>1 DEF FlattenSeq, Joins
<1> HIDE DEF f
<1>5. f[1] = seqs[1] /\ \A i \in 2..n : f[i] = f[i - 1] \o seqs[i]
  <2>1. \A i \in 1..n : f[i] = IF i = 1 THEN seqs[i] ELSE f[i - 1] \o seqs[i]
    BY <1>3
  <2>2. 1 \in 1..n /\ \A i \in 2..n : i \in 1..n /\ i # 1
    BY <1>1
  <2> QED BY <2>1, <2>2
<1>6. \A k \in Nat : k \in T => k + 1 \in T
  <2> SUFFICES ASSUME NEW k \in Nat, k \in T, k + 1 \in 1..n PROVE f[k + 1] \in Seq(S)
    OBVIOUS
  <2>1. CASE k = 0
    BY <1>1, <1>5, <2>1
  <2>2. CASE k # 0
    <3>1. k \in 1..n /\ k + 1 \in 2..n /\ (k + 1) - 1 = k
      BY <2>2
    <3>2. f[k] \in Seq(S) /\ seqs[k + 1] \in Seq(S) /\ f[k + 1] = f[k] \o seqs[k + 1]
      BY <1>1, <1>5, <3>1
    <3> QED BY <3>2
  <2> QED BY <2>1, <2>2
<1>7. Nat \subseteq T
  <2>1. 0 \in T OBVIOUS
  <2> HIDE DEF T
  <2> QED BY <1>6, <2>1, Induction
<1>8. f \in [1..n -> Seq(S)]
  <2>1. \A k \in 1..n : f[k] \in Seq(S)
    BY <1>7
  <2> QED BY <1>3, <2>1
<1> QED
  BY <1>4, <1>5, <1>8

\* The blocks of a flattened sequence, each with the number of elements that
\* are before it.
Blocks(seqs, at) ==
    LET n == Len(seqs) IN
    /\ at \in [1..(n + 1) -> Nat]
    /\ at[1] = 0 /\ at[n + 1] = Len(FlattenSeq(seqs))
    /\ \A i \in 1..n : at[i + 1] = at[i] + Len(seqs[i])
    /\ \A i \in 1..n : \A j \in 1..Len(seqs[i]) : FlattenSeq(seqs)[at[i] + j] = seqs[i][j]
    /\ \A m \in DOMAIN FlattenSeq(seqs) :
        \E i \in 1..n : \E j \in 1..Len(seqs[i]) : m = at[i] + j

\* Each block is found where the ones before it end.
LEMMA FlattenBlocks ==
  ASSUME NEW S, NEW seqs \in Seq(Seq(S))
  PROVE  FlattenSeq(seqs) \in Seq(S) /\ \E at : Blocks(seqs, at)
<1> DEFINE n == Len(seqs)
<1>1. CASE seqs = <<>>
  <2>1. FlattenSeq(seqs) = <<>> /\ n = 0
    BY <1>1 DEF FlattenSeq
  <2>2. Blocks(seqs, [i \in 1..1 |-> 0])
    BY <1>1, <2>1 DEF Blocks
  <2> QED BY <2>1, <2>2
<1>2. CASE seqs # <<>>
  <2>1. PICK f \in [1..n -> Seq(S)] :
           /\ f[1] = seqs[1]
           /\ \A i \in 2..n : f[i] = f[i - 1] \o seqs[i]
           /\ FlattenSeq(seqs) = f[n]
    BY <1>2, Flatten
  <2> DEFINE at == [i \in 1..(n + 1) |-> IF i = 1 THEN 0 ELSE Len(f[i - 1])]
             Placed(k) == \A i \in 1..k : \A j \in 1..Len(seqs[i]) :
                            at[i] + j <= at[k + 1] /\ f[k][at[i] + j] = seqs[i][j]
             Covered(k) == \A m \in 1..at[k + 1] :
                            \E i \in 1..k : \E j \in 1..Len(seqs[i]) : m = at[i] + j
             T == {k \in Nat : k \in 1..n => Placed(k) /\ Covered(k)}
  <2>2. n \in Nat \ {0} /\ \A i \in 1..n : seqs[i] \in Seq(S) /\ Len(seqs[i]) \in Nat
    BY <1>2
  <2>3. \A i \in 1..n : at[i + 1] = Len(f[i])
    OBVIOUS
  <2>4. at \in [1..(n + 1) -> Nat] /\ at[1] = 0 /\ at[n + 1] = Len(f[n])
    BY <2>2
  <2>5. \A i \in 1..n : at[i + 1] = at[i] + Len(seqs[i])
    <3> TAKE i \in 1..n
    <3>1. CASE i = 1
      BY <2>1, <2>2, <3>1
    <3>2. CASE i # 1
      <4>1. i \in 2..n /\ i - 1 \in 1..n
        BY <3>2
      <4>2. f[i] = f[i - 1] \o seqs[i] /\ f[i - 1] \in Seq(S) /\ seqs[i] \in Seq(S)
        BY <2>1, <2>2, <4>1
      <4>3. Len(f[i]) = Len(f[i - 1]) + Len(seqs[i])
        BY <4>2
      <4>4. at[i] = Len(f[i - 1]) /\ at[i + 1] = Len(f[i])
        BY <3>2
      <4> QED BY <4>3, <4>4
    <3> QED BY <3>1, <3>2
  <2>6. ASSUME NEW k \in Nat, k \in T PROVE k + 1 \in T
    <3> SUFFICES ASSUME k + 1 \in 1..n PROVE Placed(k + 1) /\ Covered(k + 1)
      <4> HIDE DEF Placed, Covered
      <4> QED OBVIOUS
    <3>1. CASE k = 0
      <4>1. f[1] = seqs[1] /\ at[1] = 0 /\ at[2] = Len(seqs[1])
        BY <2>1, <2>2, <2>3
      <4> HIDE DEF at
      <4> QED
        BY <2>2, <3>1, <4>1
    <3>2. CASE k # 0
      <4> DEFINE old == f[k]
                 new == seqs[k + 1]
                 a == at[k + 1]
      <4>1. k \in 1..n /\ k + 1 \in 2..n /\ (k + 1) - 1 = k
        BY <3>2
      <4>2. f[k + 1] = old \o new /\ old \in Seq(S) /\ new \in Seq(S)
        BY <2>1, <2>2, <4>1
      <4>3. a = Len(old) /\ at[(k + 1) + 1] = a + Len(new) /\ a \in Nat /\ Len(new) \in Nat
        <5>1. a = Len(old)
          BY <2>3, <4>1
        <5>2. at[(k + 1) + 1] = a + Len(new)
          BY <2>5, <4>1
        <5>3. Len(old) \in Nat /\ Len(new) \in Nat
          <6> HIDE DEF old, new
          <6> QED BY <4>2
        <5> HIDE DEF a, old, new, at
        <5> QED BY <5>1, <5>2, <5>3
      <4>4. /\ \A m \in 1..a : (old \o new)[m] = old[m]
            /\ \A j \in 1..Len(new) : (old \o new)[a + j] = new[j]
        <5> HIDE DEF a, old, new, at
        <5> QED BY <4>2, <4>3, ConcatProperties
      <4>5. Placed(k) /\ Covered(k)
        <5> HIDE DEF Placed, Covered
        <5> QED BY <2>6, <4>1
      <4>6. \A i \in 1..k : at[i] \in Nat
        BY <2>2, <2>4, <4>1
      <4> HIDE DEF at, a, old, new
      <4>7. ASSUME NEW i \in 1..(k + 1), NEW j \in 1..Len(seqs[i])
            PROVE  at[i] + j <= at[(k + 1) + 1] /\ f[k + 1][at[i] + j] = seqs[i][j]
        <5>1. CASE i = k + 1
          <6>1. at[i] = a /\ seqs[i] = new
            BY <5>1 DEF a, new
          <6>2. j \in 1..Len(new)
            BY <6>1
          <6> QED BY <4>2, <4>3, <4>4, <6>1, <6>2
        <5>2. CASE i # k + 1
          <6>1. i \in 1..k /\ at[i] + j \in Nat /\ at[i] + j >= 1
            <7>1. i \in 1..k
              BY <5>2
            <7>2. at[i] \in Nat /\ j \in Nat /\ j >= 1
              BY <4>6, <7>1
            <7> QED BY <7>1, <7>2
          <6>2. at[i] + j <= a /\ old[at[i] + j] = seqs[i][j]
            BY <4>5, <6>1 DEF a, old
          <6>3. at[i] + j \in 1..a
            BY <4>3, <6>1, <6>2
          <6> QED BY <4>2, <4>3, <4>4, <6>2, <6>3
        <5> QED BY <5>1, <5>2
      <4>8. ASSUME NEW m \in 1..at[(k + 1) + 1]
            PROVE  \E i \in 1..(k + 1) : \E j \in 1..Len(seqs[i]) : m = at[i] + j
        <5>1. CASE m <= a
          <6>1. m \in 1..at[k + 1]
            BY <4>3, <5>1 DEF a
          <6>2. PICK i \in 1..k : \E j \in 1..Len(seqs[i]) : m = at[i] + j
            BY <4>5, <6>1
          <6>3. i \in 1..(k + 1)
            OBVIOUS
          <6> QED BY <6>2, <6>3
        <5>2. CASE ~(m <= a)
          <6>1. m - a \in 1..Len(new) /\ m = a + (m - a)
            BY <4>3, <5>2
          <6>2. k + 1 \in 1..(k + 1)
            OBVIOUS
          <6> QED BY <6>1, <6>2 DEF a, new
        <5> QED BY <5>1, <5>2
      <4> QED BY <4>7, <4>8
    <3> QED BY <3>1, <3>2
  <2>7. n \in T
    <3>1. 0 \in T OBVIOUS
    <3> HIDE DEF T
    <3> QED BY <2>2, <2>6, <3>1, Induction
  <2>8. f[n] \in Seq(S) /\ FlattenSeq(seqs) = f[n]
    BY <2>1, <2>2
  <2>9. Placed(n) /\ Covered(n)
    <3> HIDE DEF Placed, Covered
    <3> QED BY <2>2, <2>7
  <2>10. DOMAIN f[n] = 1..at[n + 1]
    BY <2>4, <2>8
  <2> HIDE DEF at
  <2>11. Blocks(seqs, at)
    BY <2>4, <2>5, <2>8, <2>9, <2>10 DEF Blocks
  <2> QED BY <2>8, <2>11
<1> QED BY <1>1, <1>2

\* No block begins before the end of an earlier one.
LEMMA BlocksAscend ==
  ASSUME NEW S, NEW seqs \in Seq(Seq(S)), NEW at, Blocks(seqs, at)
  PROVE  \A i, j \in 1..(Len(seqs) + 1) : i <= j => at[i] <= at[j]
<1> DEFINE n == Len(seqs)
           Up(k) == \A i, j \in 1..(n + 1) : j = i + k => at[i] <= at[j]
           T == {k \in Nat : Up(k)}
<1>1. /\ n \in Nat /\ at \in [1..(n + 1) -> Nat]
      /\ \A i \in 1..n : at[i + 1] = at[i] + Len(seqs[i]) /\ Len(seqs[i]) \in Nat
  BY DEF Blocks
<1>2. \A i \in 1..(n + 1) : at[i] \in Nat
  BY <1>1
<1>3. 0 \in T
  BY <1>1
<1>4. ASSUME NEW k \in Nat, k \in T PROVE k + 1 \in T
  <2>1. Up(k)
    BY <1>4
  <2>2. ASSUME NEW i \in 1..(n + 1), NEW j \in 1..(n + 1), j = i + (k + 1) PROVE at[i] <= at[j]
    <3>1. j - 1 \in 1..n /\ j - 1 = i + k /\ j - 1 \in 1..(n + 1)
      BY <1>1, <2>2
    <3>2. at[i] <= at[j - 1] /\ at[j - 1] <= at[(j - 1) + 1]
      <4>1. at[i] <= at[j - 1]
        BY <2>1, <3>1
      <4>2. at[(j - 1) + 1] = at[j - 1] + Len(seqs[j - 1]) /\ Len(seqs[j - 1]) \in Nat
        BY <1>1, <3>1
      <4>3. at[j - 1] \in Nat
        BY <1>2, <3>1
      <4> HIDE DEF n
      <4> QED BY <4>1, <4>2, <4>3
    <3>3. at[i] \in Nat /\ at[j - 1] \in Nat /\ at[j] \in Nat
      BY <1>2, <3>1
    <3>4. (j - 1) + 1 = j
      BY <1>1
    <3> QED BY <3>2, <3>3, <3>4
  <2> QED BY <2>2
<1>5. \A k \in Nat : Up(k)
  <2>1. Nat \subseteq T
    <3> HIDE DEF T
    <3> QED BY <1>3, <1>4, Induction
  <2> HIDE DEF Up
  <2> QED BY <2>1
<1>6. ASSUME NEW i \in 1..(n + 1), NEW j \in 1..(n + 1), i <= j PROVE at[i] <= at[j]
  <2>1. j - i \in Nat /\ j = i + (j - i)
    BY <1>1, <1>6
  <2> QED BY <1>5, <2>1
<1> QED BY <1>6

-----------------------------------------------------------------------------
(* Characters and escapes.                                                  *)

Hex == ToSet(HexDigits)
Safe == Hex \cup {"M", "b", "m", "-", "underscore", ".", "~"}

\* The sixteen digits and their values.
LEMMA HexDigit ==
  /\ Hex = {"0", "1", "2", "3", "4", "5", "6", "7", "8", "9", "A", "B", "C", "D", "E", "F"}
  /\ \A v \in 0..15 : HexDigits[v + 1] \in Hex /\ DigitValue[HexDigits[v + 1]] = v
  /\ \A d \in Hex : DigitValue[d] \in 0..15
  /\ DOMAIN DigitValue = Hex
<1>1. Hex = {"0", "1", "2", "3", "4", "5", "6", "7", "8", "9", "A", "B", "C", "D", "E", "F"}
  BY DEF Hex, ToSet, HexDigits
<1>2. \A v \in 0..15 : HexDigits[v + 1] \in Hex /\ DigitValue[HexDigits[v + 1]] = v
  BY DEF Hex, ToSet, HexDigits, DigitValue
<1>3. \A d \in Hex : DigitValue[d] \in 0..15
  BY DEF Hex, ToSet, HexDigits, DigitValue
<1> QED
  BY <1>1, <1>2, <1>3 DEF DigitValue, Hex

\* Characters have bytes; safe ones are those urlEncode leaves.
LEMMA CharacterBytes ==
  /\ \A c \in Characters : Byte[c] \in 0..255 /\ Byte[c] \in Nat
  /\ \A c : Unreserved(c) <=> c \in Safe
  /\ Safe \subseteq Characters /\ Hex \subseteq Safe /\ "%" \in Characters
  /\ \A c \in {"%", "&", "?", "/", "="} : c \notin Safe
<1>1. \A c \in Others : Byte[c] \in 0..255
  BY DEF Byte, Others, Characters
<1>2. \A c \in Hex \ Others : Byte[c] \in 0..255
  <2>1. \A c \in Hex : c \in Characters /\ DigitValue[c] \in 0..15
    BY HexDigit DEF Characters, Hex
  <2> QED BY <2>1 DEF Byte, Others
<1>3. Characters = Hex \cup Others
  BY DEF Characters, Hex
<1>4. \A c : Unreserved(c) <=> c \in Safe
  BY DEF Unreserved, Safe, Hex
<1>5. Safe \subseteq Characters /\ Hex \subseteq Safe /\ "%" \in Characters
  BY <1>3 DEF Safe, Others
<1>6. \A c \in {"%", "&", "?", "/", "="} : c \notin Safe
  BY HexDigit DEF Safe
<1> QED BY <1>1, <1>2, <1>3, <1>4, <1>5, <1>6

\* What an escape consists of.
Escape(c) == IF Unreserved(c) THEN <<c>> ELSE <<"%">> \o HexByte(Byte[c])

\* An escape is the character itself or "%" and two digits of its byte.
LEMMA Escapes ==
  ASSUME NEW c \in Characters
  PROVE  /\ Escape(c) \in Seq(Safe \cup {"%"})
         /\ c \in Safe => Escape(c) = <<c>> /\ c # "%"
         /\ (c \notin Safe /\ Byte[c] >= 16) =>
              /\ Len(Escape(c)) = 3 /\ Escape(c)[1] = "%"
              /\ Escape(c)[2] \in Hex /\ Escape(c)[3] \in Hex
              /\ 16 * DigitValue[Escape(c)[2]] + DigitValue[Escape(c)[3]] = Byte[c]
<1> DEFINE b == Byte[c]
           high == HexDigits[1 + (b \div 16)]
           low == HexDigits[1 + (b % 16)]
<1>1. b \in 0..255
  BY CharacterBytes
<1>2. b \div 16 \in 0..15 /\ b % 16 \in 0..15 /\ 16 * (b \div 16) + (b % 16) = b
  BY <1>1
<1>3. /\ high \in Hex /\ DigitValue[high] = b \div 16
      /\ low \in Hex /\ DigitValue[low] = b % 16
  <2>1. 1 + (b \div 16) = (b \div 16) + 1 /\ 1 + (b % 16) = (b % 16) + 1
    BY <1>2
  <2> QED BY <1>2, <2>1, HexDigit
<1>4. CASE c \in Safe
  <2>1. Escape(c) = <<c>>
    BY <1>4, CharacterBytes DEF Escape
  <2> QED BY <1>4, <2>1, CharacterBytes
<1>5. CASE c \notin Safe /\ b >= 16
  <2>1. Escape(c) = <<"%">> \o <<high, low>>
    BY <1>1, <1>5, CharacterBytes DEF Escape, HexByte
  <2> HIDE DEF high, low, b
  <2>2. /\ Len(Escape(c)) = 3
        /\ Escape(c)[1] = "%" /\ Escape(c)[2] = high /\ Escape(c)[3] = low
    BY <2>1
  <2>3. high \in Safe /\ low \in Safe
    BY <1>3, CharacterBytes
  <2>4. Escape(c) \in Seq(Safe \cup {"%"})
    BY <2>1, <2>3
  <2> QED BY <1>2, <1>3, <1>5, <2>2, <2>4 DEF b
<1>6. CASE c \notin Safe /\ ~(b >= 16)
  <2>1. b \in 0..15 /\ 1 + b = b + 1
    BY <1>1, <1>6
  <2>2. HexDigits[1 + b] \in Safe
    BY <2>1, HexDigit, CharacterBytes
  <2>3. Escape(c) = <<"%">> \o <<HexDigits[1 + b]>>
    BY <2>1, <1>6, CharacterBytes DEF Escape, HexByte
  <2>4. Escape(c) \in Seq(Safe \cup {"%"})
    BY <2>2, <2>3
  <2> QED BY <1>6, <2>4
<1> QED BY <1>4, <1>5, <1>6

\* The blocks of an encoded text.
Escaped(text) == [i \in DOMAIN text |-> Escape(text[i])]

\* urlEncode is the escapes, one after the other.
LEMMA Encoded ==
  ASSUME NEW text \in Seq(Characters)
  PROVE  /\ Escaped(text) \in Seq(Seq(Safe \cup {"%"})) /\ Len(Escaped(text)) = Len(text)
         /\ urlEncode(text) = FlattenSeq(Escaped(text))
         /\ urlEncode(text) \in Seq(Safe \cup {"%"})
<1>1. \A i \in 1..Len(text) : text[i] \in Characters /\ Escape(text[i]) \in Seq(Safe \cup {"%"})
  BY Escapes
<1>2. Escaped(text) \in Seq(Seq(Safe \cup {"%"})) /\ Len(Escaped(text)) = Len(text)
  BY <1>1 DEF Escaped
<1>3. urlEncode(text) = FlattenSeq(Escaped(text))
  BY DEF urlEncode, Escaped, Escape
<1> QED BY <1>2, <1>3, FlattenBlocks

-----------------------------------------------------------------------------
(* Decode is the inverse of urlEncode.                                      *)

\* What Decode reads at place i, if from has what it reads after i.
Reading(s, from, i) ==
    LET IsHex(j) == j <= Len(s) /\ s[j] \in DOMAIN DigitValue
    IN  IF i > Len(s) THEN <<>>
        ELSE CASE s[i] # "%" -> <<Byte[s[i]]>> \o from[i + 1]
               [] s[i] = "%" /\ IsHex(i + 1) /\ IsHex(i + 2)
                  -> <<16 * DigitValue[s[i + 1]] + DigitValue[s[i + 2]]>> \o from[i + 3]
               [] OTHER -> <<Malformed>> \o from[i + 1]

\* What is read at a place depends on what is after it only.
LEMMA ReadingLooksAhead ==
  ASSUME NEW S, NEW s \in Seq(S), NEW i \in 1..(Len(s) + 1), NEW f, NEW g,
         \A j \in (i + 1)..(Len(s) + 1) : f[j] = g[j]
  PROVE  Reading(s, f, i) = Reading(s, g, i)
<1> DEFINE hex == i + 1 <= Len(s) /\ s[i + 1] \in DOMAIN DigitValue
                  /\ i + 2 <= Len(s) /\ s[i + 2] \in DOMAIN DigitValue
<1>1. Len(s) \in Nat
  OBVIOUS
<1>2. CASE i > Len(s)
  BY <1>2 DEF Reading
<1>3. CASE ~(i > Len(s))
  <2>1. f[i + 1] = g[i + 1]
    BY <1>1, <1>3
  <2>2. hex => f[i + 3] = g[i + 3]
    <3>1. hex => i + 3 \in (i + 1)..(Len(s) + 1)
      BY <1>1
    <3> QED BY <3>1
  <2>3. CASE s[i] # "%"
    BY <1>3, <2>1, <2>3 DEF Reading
  <2>4. CASE s[i] = "%" /\ hex
    <3>1. f[i + 3] = g[i + 3]
      BY <2>2, <2>4
    <3> QED BY <1>3, <2>4, <3>1 DEF Reading
  <2>5. CASE s[i] = "%" /\ ~hex
    BY <1>3, <2>1, <2>5 DEF Reading
  <2> QED BY <2>3, <2>4, <2>5
<1> QED BY <1>2, <1>3

\* The recursion of Decode has a solution, so Decode reads from place 1.
LEMMA DecodeReads ==
  ASSUME NEW S, NEW s \in Seq(S)
  PROVE  \E from : /\ \A i \in 1..(Len(s) + 1) : from[i] = Reading(s, from, i)
                   /\ Decode(s) = from[1]
<1> DEFINE n == Len(s)
           Solves(f, m) == f = [i \in m..(n + 1) |-> Reading(s, f, i)]
           P(k) == \E f : Solves(f, n + 1 - k)
           T == {k \in Nat : k <= n => P(k)}
<1>1. n \in Nat
  OBVIOUS
<1>2. 0 \in T
  <2> DEFINE f == [i \in (n + 1)..(n + 1) |-> <<>>]
  <2>1. \A i \in (n + 1)..(n + 1) : Reading(s, f, i) = <<>>
    BY <1>1 DEF Reading
  <2>2. Solves(f, n + 1)
    BY <2>1
  <2> HIDE DEF f, Solves, n
  <2> QED BY <2>2, <1>1
<1>3. ASSUME NEW k \in Nat, k \in T PROVE k + 1 \in T
  <2> SUFFICES ASSUME k + 1 <= n PROVE P(k + 1)
    <3> HIDE DEF P
    <3> QED OBVIOUS
  <2> DEFINE m == n + 1 - k
  <2>1. P(k)
    <3> HIDE DEF P
    <3> QED BY <1>1, <1>3
  <2>2. m - 1 = n + 1 - (k + 1) /\ m \in 1..(n + 1) /\ m - 1 \in 1..(n + 1)
    BY <1>1
  <2>3. PICK f : Solves(f, m)
    BY <2>1
  <2> DEFINE g == [i \in (m - 1)..(n + 1) |-> IF i = m - 1 THEN Reading(s, f, i) ELSE f[i]]
  <2>4. \A i \in m..(n + 1) : g[i] = f[i] /\ f[i] = Reading(s, f, i)
    <3>1. \A i \in m..(n + 1) : i \in (m - 1)..(n + 1) /\ i # m - 1
      BY <2>2
    <3> QED BY <2>3, <3>1
  <2>5. \A i \in (m - 1)..(n + 1) : g[i] = Reading(s, f, i)
    <3>1. \A i \in (m - 1)..(n + 1) : i = m - 1 \/ i \in m..(n + 1)
      BY <1>1, <2>2
    <3> QED BY <2>4, <3>1
  <2>6. \A i \in (m - 1)..(n + 1) : Reading(s, g, i) = Reading(s, f, i)
    <3> TAKE i \in (m - 1)..(n + 1)
    <3>1. i \in 1..(n + 1) /\ \A j \in (i + 1)..(n + 1) : j \in m..(n + 1)
      BY <1>1, <2>2
    <3>2. \A j \in (i + 1)..(n + 1) : g[j] = f[j]
      BY <2>4, <3>1
    <3> HIDE DEF g
    <3> QED BY <3>1, <3>2, ReadingLooksAhead
  <2>7. Solves(g, m - 1)
    <3>1. \A i \in (m - 1)..(n + 1) : g[i] = Reading(s, g, i)
      BY <2>5, <2>6
    <3>2. g = [i \in (m - 1)..(n + 1) |-> g[i]]
      OBVIOUS
    <3> HIDE DEF g
    <3> QED BY <3>1, <3>2
  <2> HIDE DEF g, Solves
  <2> QED BY <2>2, <2>7
<1>4. P(n)
  <2>1. n \in T
    <3> HIDE DEF T
    <3> QED BY <1>1, <1>2, <1>3, Induction
  <2> HIDE DEF P
  <2> QED BY <1>1, <2>1
<1> DEFINE from == CHOOSE f : Solves(f, 1)
<1>5. Solves(from, 1)
  <2>1. n + 1 - n = 1
    BY <1>1
  <2> HIDE DEF Solves
  <2> QED BY <1>4, <2>1
<1>6. Decode(s) = from[1]
  BY DEF Decode, Reading
<1> HIDE DEF from
<1>7. \A i \in 1..(n + 1) : from[i] = Reading(s, from, i)
  BY <1>5
<1> QED BY <1>6, <1>7

\* Place at[i] + 1 of s is where the i-th character of text is written, as it
\* is or by its byte.
Written(s, text, at, i) ==
    \/ /\ at[i + 1] = at[i] + 1
       /\ s[at[i] + 1] = text[i] /\ text[i] # "%"
    \/ /\ at[i + 1] = at[i] + 3
       /\ s[at[i] + 1] = "%" /\ s[at[i] + 2] \in Hex /\ s[at[i] + 3] \in Hex
       /\ 16 * DigitValue[s[at[i] + 2]] + DigitValue[s[at[i] + 3]] = Byte[text[i]]

\* A suffix is its first element and the next suffix.
LEMMA Suffix ==
  ASSUME NEW S, NEW t \in Seq(S), NEW i \in 1..Len(t)
  PROVE  SubSeq(t, i, Len(t)) = <<t[i]>> \o SubSeq(t, i + 1, Len(t))
<1> DEFINE n == Len(t)
           a == SubSeq(t, i, n)
           r == SubSeq(t, i + 1, n)
           x == t[i]
           b == <<x>> \o r
<1>1. n \in Nat /\ x \in S
  OBVIOUS
<1>2. a \in Seq(S) /\ Len(a) = n + 1 - i /\ \A j \in 1..(n + 1 - i) : a[j] = t[i + j - 1]
  BY <1>1
<1>3. r \in Seq(S) /\ Len(r) = n - i /\ \A j \in 1..(n - i) : r[j] = t[(i + 1) + j - 1]
  BY <1>1
<1> HIDE DEF n, a, r, x, b
<1>4. r \in Seq(S) /\ Len(r) = n - i
  BY <1>3
<1>5. /\ b \in Seq(S) /\ Len(b) = 1 + Len(r)
      /\ b[1] = x
      /\ \A j \in 1..Len(r) : b[j + 1] = r[j]
  <2>1. r \in Seq(S)
    BY <1>4
  <2>2. b = <<x>> \o r
    BY DEF b
  <2> QED BY <1>1, <2>1, <2>2
<1>6. ASSUME NEW j \in 1..(n + 1 - i) PROVE b[j] = a[j]
  <2>1. CASE j = 1
    <3>1. a[1] = x
      <4>1. i + 1 - 1 = i
        BY <1>1
      <4> QED BY <1>2, <2>1, <4>1 DEF x
    <3> QED BY <1>5, <2>1, <3>1
  <2>2. CASE j # 1
    <3>1. j - 1 \in 1..Len(r) /\ j - 1 \in 1..(n - i) /\ (j - 1) + 1 = j
          /\ (i + 1) + (j - 1) - 1 = i + j - 1
      BY <1>1, <1>4, <2>2
    <3>2. b[j] = r[j - 1]
      BY <1>5, <3>1
    <3>3. r[j - 1] = t[i + j - 1]
      BY <1>3, <3>1
    <3> QED BY <1>2, <3>2, <3>3
  <2> QED BY <2>1, <2>2
<1>7. Len(b) = n + 1 - i
  <2>1. Len(b) = 1 + Len(r)
    BY <1>5
  <2> QED BY <1>1, <1>4, <2>1
<1>8. b \in Seq(S) /\ Len(b) = Len(a) /\ \A j \in 1..Len(b) : b[j] = a[j]
  BY <1>2, <1>5, <1>6, <1>7
<1>9. a = b
  BY <1>2, <1>8, SeqEqual, SMTT(40)
<1> QED BY <1>9 DEF a, b, r, n, x

\* Decode finds the bytes of a text that is written in any such way.
LEMMA DecodeWritten ==
  ASSUME NEW S, NEW s \in Seq(S), NEW text \in Seq(Characters),
         NEW at \in [1..(Len(text) + 1) -> Nat],
         at[1] = 0, at[Len(text) + 1] = Len(s),
         \A i \in 1..Len(text) : Written(s, text, at, i) /\ at[i + 1] <= Len(s)
  PROVE  Decode(s) = Bytes(text)
<1> DEFINE n == Len(text)
           t == Bytes(text)
           Rest(i) == SubSeq(t, i, n)
<1>1. n \in Nat /\ Len(s) \in Nat
  OBVIOUS
<1>2. PICK from : /\ \A i \in 1..(Len(s) + 1) : from[i] = Reading(s, from, i)
                  /\ Decode(s) = from[1]
  BY DecodeReads
<1>3. t \in Seq(Nat) /\ Len(t) = n /\ \A i \in 1..n : t[i] = Byte[text[i]] /\ t[i] \in Nat
  <2>1. \A i \in 1..n : Byte[text[i]] \in Nat
    <3>1. \A i \in 1..n : text[i] \in Characters
      OBVIOUS
    <3>2. \A c \in Characters : Byte[c] \in Nat
      BY CharacterBytes
    <3> QED BY <3>1, <3>2
  <2>2. t = [i \in 1..n |-> Byte[text[i]]]
    BY DEF Bytes
  <2> QED BY <2>1, <2>2
<1> HIDE DEF t
<1>4. Rest(n + 1) = <<>> /\ Rest(1) = t /\ \A i \in 1..n : Rest(i) = <<t[i]>> \o Rest(i + 1)
  <2>1. Rest(n + 1) = <<>> /\ Rest(1) = t
    BY <1>1, <1>3
  <2>2. \A i \in 1..n : Rest(i) = <<t[i]>> \o Rest(i + 1)
    BY <1>3, Suffix
  <2> QED BY <2>1, <2>2
<1> HIDE DEF Rest
<1> DEFINE P(i) == from[at[i] + 1] = Rest(i)
           T == {k \in Nat : k <= n => P(n + 1 - k)}
<1>5. 0 \in T
  <2>1. from[Len(s) + 1] = <<>>
    <3>1. Len(s) + 1 \in 1..(Len(s) + 1) /\ Len(s) + 1 > Len(s)
      BY <1>1
    <3>2. Reading(s, from, Len(s) + 1) = <<>>
      BY <3>1 DEF Reading
    <3> QED BY <1>2, <3>1, <3>2
  <2>2. n + 1 - 0 = n + 1
    BY <1>1
  <2> QED BY <1>4, <2>1, <2>2
<1>6. ASSUME NEW k \in Nat, k \in T PROVE k + 1 \in T
  <2> SUFFICES ASSUME k + 1 <= n PROVE P(n + 1 - (k + 1))
    <3> HIDE DEF P
    <3> QED OBVIOUS
  <2> DEFINE i == n - k
  <2>1. i \in 1..n /\ n + 1 - (k + 1) = i /\ n + 1 - k = i + 1
    BY <1>1
  <2>2. P(i + 1)
    <3>1. P(n + 1 - k)
      <4> HIDE DEF P
      <4> QED BY <1>1, <1>6
    <3> QED BY <2>1, <3>1
  <2>3. P(i)
    <3> HIDE DEF i
    <3> DEFINE p == at[i] + 1
    <3>1. at[i] \in Nat /\ at[i + 1] \in Nat /\ at[i + 1] <= Len(s) /\ Written(s, text, at, i)
      <4>1. i \in 1..(n + 1) /\ i + 1 \in 1..(n + 1)
        BY <1>1, <2>1
      <4> QED BY <2>1, <4>1
    <3>2. text[i] \in Characters /\ t[i] = Byte[text[i]]
      BY <1>3, <2>1
    <3>3. CASE at[i + 1] = at[i] + 1 /\ s[at[i] + 1] = text[i] /\ text[i] # "%"
      <4>1. p \in 1..(Len(s) + 1) /\ ~(p > Len(s)) /\ s[p] # "%" /\ s[p] = text[i]
            /\ at[i + 1] + 1 = p + 1
        BY <1>1, <3>1, <3>3
      <4> HIDE DEF p
      <4>2. Reading(s, from, p) = <<Byte[s[p]]>> \o from[p + 1]
        BY <4>1 DEF Reading
      <4>3. from[p] = <<t[i]>> \o Rest(i + 1)
        BY <1>2, <2>2, <3>2, <4>1, <4>2
      <4> QED BY <1>4, <2>1, <4>3 DEF p
    <3>4. CASE /\ at[i + 1] = at[i] + 3
               /\ s[at[i] + 1] = "%" /\ s[at[i] + 2] \in Hex /\ s[at[i] + 3] \in Hex
               /\ 16 * DigitValue[s[at[i] + 2]] + DigitValue[s[at[i] + 3]] = Byte[text[i]]
      <4>1. /\ p \in 1..(Len(s) + 1) /\ ~(p > Len(s)) /\ s[p] = "%"
            /\ p + 1 <= Len(s) /\ p + 2 <= Len(s)
            /\ at[i + 1] + 1 = p + 3 /\ at[i] + 2 = p + 1 /\ at[i] + 3 = p + 2
        <5>1. at[i] + 3 <= Len(s)
          BY <3>1, <3>4
        <5>2. /\ p \in 1..(Len(s) + 1) /\ ~(p > Len(s))
              /\ p + 1 <= Len(s) /\ p + 2 <= Len(s)
              /\ at[i] + 2 = p + 1 /\ at[i] + 3 = p + 2
          <6> DEFINE a == at[i]
                     l == Len(s)
          <6>1. a \in Nat /\ l \in Nat /\ a + 3 <= l /\ p = a + 1
            BY <1>1, <3>1, <5>1
          <6> HIDE DEF a, l, p
          <6>2. p \in 1..(l + 1) /\ ~(p > l) /\ p + 1 <= l /\ p + 2 <= l
                /\ a + 2 = p + 1 /\ a + 3 = p + 2
            BY <6>1
          <6> QED BY <6>2 DEF a, l
        <5>3. at[i + 1] + 1 = p + 3
          BY <3>1, <3>4
        <5> QED BY <3>4, <5>2, <5>3
      <4> HIDE DEF p
      <4>2. s[p + 1] \in DOMAIN DigitValue /\ s[p + 2] \in DOMAIN DigitValue
            /\ 16 * DigitValue[s[p + 1]] + DigitValue[s[p + 2]] = t[i]
        BY <3>2, <3>4, <4>1, HexDigit
      <4>3. Reading(s, from, p)
              = <<16 * DigitValue[s[p + 1]] + DigitValue[s[p + 2]]>> \o from[p + 3]
        BY <4>1, <4>2 DEF Reading
      <4>4. from[p] = <<t[i]>> \o Rest(i + 1)
        BY <1>2, <2>2, <4>1, <4>2, <4>3
      <4> QED BY <1>4, <2>1, <4>4 DEF p
    <3> QED BY <3>1, <3>3, <3>4 DEF Written
  <2> QED BY <2>1, <2>3
<1>7. P(1)
  <2>1. n \in T
    <3> HIDE DEF T
    <3> QED BY <1>1, <1>5, <1>6, Induction
  <2>2. n <= n /\ n + 1 - n = 1
    BY <1>1
  <2> HIDE DEF P
  <2> QED BY <2>1, <2>2
<1> QED BY <1>2, <1>4, <1>7 DEF t

\* What is written in an unescaped text is read as it is.
LEMMA DecodePlain ==
  ASSUME NEW text \in Seq(Characters), \A i \in 1..Len(text) : text[i] # "%"
  PROVE  Decode(text) = Bytes(text)
<1> DEFINE at == [i \in 1..(Len(text) + 1) |-> i - 1]
<1>1. /\ at \in [1..(Len(text) + 1) -> Nat]
      /\ at[1] = 0 /\ at[Len(text) + 1] = Len(text)
      /\ \A i \in 1..Len(text) : at[i] = i - 1 /\ at[i + 1] = i
  OBVIOUS
<1> HIDE DEF at
<1>2. \A i \in 1..Len(text) : Written(text, text, at, i) /\ at[i + 1] <= Len(text)
  <2> TAKE i \in 1..Len(text)
  <2>1. at[i + 1] = at[i] + 1 /\ at[i] + 1 = i /\ text[i] # "%" /\ at[i + 1] <= Len(text)
    BY <1>1
  <2> QED BY <2>1 DEF Written
<1> QED BY <1>1, <1>2, DecodeWritten

\* The exchange reads what was encoded, if no byte is below 16.
LEMMA DecodeEncoded ==
  ASSUME NEW text \in Seq(Characters), \A i \in 1..Len(text) : Byte[text[i]] >= 16
  PROVE  Decode(urlEncode(text)) = Bytes(text)
<1> DEFINE e == Escaped(text)
           s == urlEncode(text)
           n == Len(text)
<1>1. /\ e \in Seq(Seq(Safe \cup {"%"})) /\ Len(e) = n
      /\ s = FlattenSeq(e) /\ s \in Seq(Safe \cup {"%"})
  BY Encoded
<1>2. PICK at : Blocks(e, at)
  BY <1>1, FlattenBlocks
<1>3. \A i \in 1..n : e[i] = Escape(text[i]) /\ text[i] \in Characters
  BY DEF Escaped
<1> HIDE DEF e, s
<1>4. /\ at \in [1..(n + 1) -> Nat]
      /\ at[1] = 0 /\ at[n + 1] = Len(s)
      /\ \A i \in 1..n : at[i + 1] = at[i] + Len(e[i])
      /\ \A i \in 1..n : \A j \in 1..Len(e[i]) : s[at[i] + j] = e[i][j]
  BY <1>1, <1>2 DEF Blocks
<1>5. \A i \in 1..n : at[i + 1] <= Len(s)
  <2>1. \A i, j \in 1..(n + 1) : i <= j => at[i] <= at[j]
    BY <1>1, <1>2, BlocksAscend
  <2>2. n \in Nat /\ \A i \in 1..n : i + 1 \in 1..(n + 1) /\ n + 1 \in 1..(n + 1) /\ i + 1 <= n + 1
    OBVIOUS
  <2> QED BY <1>4, <2>1, <2>2
<1>6. ASSUME NEW i \in 1..n PROVE Written(s, text, at, i)
  <2>1. CASE text[i] \in Safe
    <3>1. e[i] = <<text[i]>> /\ text[i] # "%"
      BY <1>3, <2>1, Escapes
    <3>2. Len(e[i]) = 1 /\ e[i][1] = text[i] /\ 1 \in 1..Len(e[i])
      BY <3>1
    <3> QED BY <1>4, <3>1, <3>2 DEF Written
  <2>2. CASE text[i] \notin Safe
    <3>1. /\ Len(e[i]) = 3 /\ e[i][1] = "%" /\ e[i][2] \in Hex /\ e[i][3] \in Hex
          /\ 16 * DigitValue[e[i][2]] + DigitValue[e[i][3]] = Byte[text[i]]
      BY <1>3, <2>2, Escapes
    <3>2. 1 \in 1..Len(e[i]) /\ 2 \in 1..Len(e[i]) /\ 3 \in 1..Len(e[i])
      BY <3>1
    <3>3. s[at[i] + 1] = e[i][1] /\ s[at[i] + 2] = e[i][2] /\ s[at[i] + 3] = e[i][3]
      BY <1>4, <3>2
    <3> QED BY <1>4, <3>1, <3>3 DEF Written
  <2> QED BY <2>1, <2>2
<1>7. Decode(s) = Bytes(text)
  BY <1>1, <1>4, <1>5, <1>6, DecodeWritten
<1> QED BY <1>7 DEF s

-----------------------------------------------------------------------------
(* The parts of a URL.                                                      *)

\* SubSeq within the bounds.
LEMMA Part ==
  ASSUME NEW S, NEW s \in Seq(S), NEW i \in 1..(Len(s) + 1), NEW j \in (i - 1)..Len(s),
         NEW a, a = SubSeq(s, i, j)
  PROVE  /\ a \in Seq(S) /\ Len(a) = j + 1 - i
         /\ \A k \in 1..(j + 1 - i) : a[k] = s[i + k - 1]
OBVIOUS

\* Place, by what it looks for.
LEMMA PlaceIs ==
  ASSUME NEW S, NEW s \in Seq(S), NEW c, NEW i \in 1..(Len(s) + 1), NEW p \in i..(Len(s) + 1),
         p <= Len(s) => s[p] = c, \A k \in i..(p - 1) : s[k] # c
  PROVE  Place(s, c, i) = p
<1> DEFINE Q == {k \in i..Len(s) : s[k] = c} \cup {Len(s) + 1}
<1>1. Len(s) \in Nat
  OBVIOUS
<1>2. p \in Q
  BY <1>1
<1>3. \A k \in Q : k \in Int /\ p <= k
  <2>1. \A k \in i..Len(s) : s[k] = c => k \in Int /\ p <= k
    BY <1>1
  <2>2. Len(s) + 1 \in Int /\ p <= Len(s) + 1
    BY <1>1
  <2> QED BY <2>1, <2>2
<1> HIDE DEF Q
<1>4. \A x \in Q : (\A y \in Q : x <= y) <=> x = p
  <2> TAKE x \in Q
  <2>1. x \in Int /\ p <= x /\ p \in Int
    BY <1>2, <1>3
  <2>2. (\A y \in Q : x <= y) => x = p
    <3>1. (\A y \in Q : x <= y) => x <= p
      BY <1>2
    <3> QED BY <2>1, <3>1
  <2>3. x = p => \A y \in Q : x <= y
    BY <1>3
  <2> QED BY <2>2, <2>3
<1>5. Min(Q) = p
  BY <1>2, <1>4 DEF Min
<1> QED BY <1>5 DEF Place, Q

\* The exchange finds the path and the query that a URL was made of.
LEMMA UrlIsRead ==
  ASSUME NEW S, "?" \in S, NEW path \in Seq(S), path # <<>>, NEW query \in Seq(S),
         \A i \in 1..Len(path) : path[i] # "?"
  PROVE  /\ Query(Url(path, query)) = query
         /\ Path(Url(path, query)) = SubSeq(path, 2, Len(path))
         /\ Head(Url(path, query)) = path[1]
<1> DEFINE n == Len(path)
           u == Url(path, query)
<1>1. n \in Nat \ {0} /\ Len(query) \in Nat
  OBVIOUS
<1>2. CASE query = <<>>
  <2>1. u = path
    BY <1>2 DEF Url
  <2>2. Place(path, "?", 1) = n + 1
    <3>1. n + 1 \in 1..(n + 1) /\ 1 \in 1..(n + 1) /\ ~(n + 1 <= n) /\ (n + 1) - 1 = n
      BY <1>1
    <3> QED BY <3>1, PlaceIs, SMTT(40)
  <2>3. Query(u) = <<>>
    <3>1. Query(u) = SubSeq(path, (n + 1) + 1, n)
      BY <2>1, <2>2 DEF Query
    <3> QED BY <1>1, <3>1
  <2>4. Path(u) = SubSeq(path, 2, n)
    <3>1. (n + 1) - 1 = n
      BY <1>1
    <3> QED BY <2>1, <2>2, <3>1 DEF Path
  <2>5. Head(u) = path[1]
    BY <1>1, <2>1
  <2> QED BY <1>2, <2>3, <2>4, <2>5
<1>3. CASE query # <<>>
  <2> DEFINE t == <<"?">> \o query
             m == Len(query)
  <2>1. t \in Seq(S) /\ Len(t) = 1 + m /\ t[1] = "?" /\ \A j \in 1..m : t[j + 1] = query[j]
    OBVIOUS
  <2>2. u = path \o t
    BY <1>3 DEF Url
  <2> HIDE DEF t, u
  <2>3. /\ u \in Seq(S) /\ Len(u) = n + (1 + m)
        /\ \A k \in 1..n : u[k] = path[k]
        /\ \A k \in 1..(1 + m) : u[n + k] = t[k]
    <3>1. t \in Seq(S) /\ Len(t) = 1 + m
      BY <2>1
    <3> HIDE DEF n, m
    <3>2. /\ u \in Seq(S) /\ Len(u) = Len(path) + Len(t)
          /\ \A k \in 1..Len(path) : u[k] = path[k]
          /\ \A k \in 1..Len(t) : u[Len(path) + k] = t[k]
      BY <2>2, <3>1, ConcatProperties
    <3> QED BY <3>1, <3>2 DEF n
  <2>4. /\ u[n + 1] = "?"
        /\ \A j \in 1..m : u[(n + 1) + j] = query[j]
    <3>1. 1 \in 1..(1 + m) /\ \A j \in 1..m : j + 1 \in 1..(1 + m) /\ n + (j + 1) = (n + 1) + j
      BY <1>1
    <3> QED BY <2>1, <2>3, <3>1
  <2>5. Place(u, "?", 1) = n + 1
    <3>1. n + 1 \in 1..(Len(u) + 1) /\ 1 \in 1..(Len(u) + 1) /\ (n + 1) - 1 = n
      BY <1>1, <2>3
    <3>2. \A k \in 1..((n + 1) - 1) : u[k] # "?"
      BY <2>3, <3>1
    <3> DEFINE p == n + 1
    <3>3. u \in Seq(S) /\ p \in 1..(Len(u) + 1) /\ 1 \in 1..(Len(u) + 1) /\ u[p] = "?"
          /\ \A k \in 1..(p - 1) : u[k] # "?"
      BY <2>3, <2>4, <3>1, <3>2
    <3> HIDE DEF n, p
    <3>4. Place(u, "?", 1) = p
      BY <3>3, PlaceIs, SMTT(40)
    <3> QED BY <3>4 DEF p
  <2>6. Query(u) = query
    <3> DEFINE q == SubSeq(u, (n + 1) + 1, Len(u))
    <3>1. q \in Seq(S) /\ Len(q) = m /\ \A j \in 1..m : q[j] = u[((n + 1) + 1) + j - 1]
      BY <1>1, <2>3
    <3>2. \A j \in 1..m : q[j] = query[j]
      <4>1. \A j \in 1..m : ((n + 1) + 1) + j - 1 = (n + 1) + j
        BY <1>1
      <4> HIDE DEF q
      <4> QED BY <2>4, <3>1, <4>1
    <3> HIDE DEF q
    <3>3. q = query
      BY <3>1, <3>2, SeqEqual, SMTT(40)
    <3> QED BY <2>5, <3>3 DEF Query, q
  <2>7. Path(u) = SubSeq(path, 2, n)
    <3> DEFINE a == SubSeq(u, 2, n)
               b == SubSeq(path, 2, n)
    <3>1. /\ a \in Seq(S) /\ Len(a) = n - 1 /\ \A j \in 1..(n - 1) : a[j] = u[2 + j - 1]
          /\ b \in Seq(S) /\ Len(b) = n - 1 /\ \A j \in 1..(n - 1) : b[j] = path[2 + j - 1]
      <4>1. 2 \in 1..(n + 1) /\ n \in 1..n /\ n + 1 - 2 = n - 1
        BY <1>1
      <4>2. 2 \in 1..(Len(u) + 1) /\ n \in 1..Len(u)
        BY <1>1, <2>3
      <4> HIDE DEF n, a, b
      <4>3. a \in Seq(S) /\ Len(a) = n - 1 /\ \A j \in 1..(n - 1) : a[j] = u[2 + j - 1]
        BY <2>3, <4>1, <4>2, Part, SMTT(40) DEF a
      <4>4. b \in Seq(S) /\ Len(b) = n - 1 /\ \A j \in 1..(n - 1) : b[j] = path[2 + j - 1]
        BY <4>1, Part, SMTT(40) DEF b, n
      <4> QED BY <4>3, <4>4
    <3>2. \A j \in 1..(n - 1) : 2 + j - 1 \in 1..n
      BY <1>1
    <3> HIDE DEF a, b
    <3>3. \A j \in 1..(n - 1) : a[j] = b[j]
      BY <2>3, <3>1, <3>2
    <3>5. a = b
      <4> HIDE DEF n
      <4> QED BY <3>1, <3>3, SeqEqual, SMTT(40)
    <3>4. (n + 1) - 1 = n
      BY <1>1
    <3> QED BY <2>5, <3>5, <3>4 DEF Path, a, b
  <2>8. Head(u) = path[1]
    <3>1. Head(u) = u[1] /\ 1 \in 1..n
      BY <1>1, <2>3
    <3> QED BY <2>3, <3>1
  <2> QED BY <2>6, <2>7, <2>8 DEF u
<1> QED BY <1>2, <1>3

\* Blocks that are empty or begin with the only "&" they have, flattened
\* without the first "&", are the fields of the query.
Marked(block) ==
    \/ block = <<>>
    \/ block[1] = "&" /\ \A j \in 2..Len(block) : block[j] # "&"

\* The fields of a query that is made of such blocks are the blocks.
LEMMA FieldsAreBlocks ==
  ASSUME NEW S, NEW seqs \in Seq(Seq(S)), \A i \in 1..Len(seqs) : Marked(seqs[i]),
         NEW f
  PROVE  LET q == SubSeq(FlattenSeq(seqs), 2, Len(FlattenSeq(seqs)))
         IN  (f \in Fields(q) /\ Len(f) >= 2)
               <=> \E i \in 1..Len(seqs) : Len(seqs[i]) >= 3
                                          /\ f = SubSeq(seqs[i], 2, Len(seqs[i]))
<1> DEFINE n == Len(seqs)
           p == FlattenSeq(seqs)
           l == Len(p)
           q == SubSeq(p, 2, l)
           starts == {1} \cup {k + 1 : k \in {i \in DOMAIN q : q[i] = "&"}}
           field(k) == SubSeq(q, k, Place(q, "&", k) - 1)
           tail(i) == SubSeq(seqs[i], 2, Len(seqs[i]))
<1>1. p \in Seq(S) /\ \E at : Blocks(seqs, at)
  BY FlattenBlocks
<1>2. PICK at : Blocks(seqs, at)
  BY <1>1
<1>0. l \in Nat /\ DOMAIN p = 1..l
  <2> HIDE DEF p
  <2> QED BY <1>1
<1>3. /\ n \in Nat /\ l \in Nat /\ \A i \in 1..(n + 1) : at[i] \in Nat
      /\ \A i \in 1..n : seqs[i] \in Seq(S) /\ Len(seqs[i]) \in Nat
      /\ \A i \in 1..n : i \in 1..(n + 1) /\ i + 1 \in 1..(n + 1) /\ n + 1 \in 1..(n + 1)
  <2>1. n \in Nat /\ \A i \in 1..n : seqs[i] \in Seq(S) /\ Len(seqs[i]) \in Nat
    OBVIOUS
  <2>2. \A i \in 1..(n + 1) : at[i] \in Nat
    BY <1>2 DEF Blocks
  <2> HIDE DEF n, l
  <2>3. \A i \in 1..n : i \in 1..(n + 1) /\ i + 1 \in 1..(n + 1) /\ n + 1 \in 1..(n + 1)
    BY <2>1
  <2> QED BY <1>0, <2>1, <2>2, <2>3
<1>4. /\ at[1] = 0 /\ at[n + 1] = l
      /\ \A i \in 1..n : at[i + 1] = at[i] + Len(seqs[i])
      /\ \A i \in 1..n : \A j \in 1..Len(seqs[i]) : p[at[i] + j] = seqs[i][j]
      /\ \A m \in 1..l : \E i \in 1..n : \E j \in 1..Len(seqs[i]) : m = at[i] + j
  <2> DEFINE dom == DOMAIN p
  <2>1. /\ at[1] = 0 /\ at[n + 1] = l
        /\ \A i \in 1..n : at[i + 1] = at[i] + Len(seqs[i])
        /\ \A i \in 1..n : \A j \in 1..Len(seqs[i]) : p[at[i] + j] = seqs[i][j]
        /\ \A m \in dom : \E i \in 1..n : \E j \in 1..Len(seqs[i]) : m = at[i] + j
    BY <1>2 DEF Blocks
  <2>2. dom = 1..l
    BY <1>0
  <2> HIDE DEF dom, p
  <2> QED BY <2>1, <2>2
<1>5. \A i, j \in 1..(n + 1) : i <= j => at[i] <= at[j]
  BY <1>2, BlocksAscend
<1> HIDE DEF p
<1>6. Fields(q) = {field(k) : k \in starts}
  BY DEF Fields
\* The marks of p are the first characters of its blocks.
<1>7. \A i \in 1..n : Len(seqs[i]) >= 1 => p[at[i] + 1] = "&"
  <2> TAKE i \in 1..n
  <2> HAVE Len(seqs[i]) >= 1
  <2>1. seqs[i] # <<>> /\ 1 \in 1..Len(seqs[i])
    BY <1>3
  <2>2. seqs[i][1] = "&"
    BY <2>1 DEF Marked
  <2> QED BY <1>4, <2>1, <2>2
<1>8. \A i \in 1..n : \A j \in 2..Len(seqs[i]) : p[at[i] + j] # "&"
  <2> TAKE i \in 1..n
  <2> TAKE j \in 2..Len(seqs[i])
  <2>1. seqs[i] # <<>> /\ j \in 1..Len(seqs[i])
    BY <1>3
  <2>2. seqs[i][j] # "&"
    BY <2>1 DEF Marked
  <2> QED BY <1>4, <2>1, <2>2
<1>9. \A m \in 1..l : p[m] = "&" => \E i \in 1..n : Len(seqs[i]) >= 1 /\ m = at[i] + 1
  <2> TAKE m \in 1..l
  <2> HAVE p[m] = "&"
  <2>1. PICK i \in 1..n : \E j \in 1..Len(seqs[i]) : m = at[i] + j
    BY <1>4
  <2>2. PICK j \in 1..Len(seqs[i]) : m = at[i] + j
    BY <2>1
  <2>3. Len(seqs[i]) \in Nat
    BY <1>3
  <2>4. j = 1
    <3>1. j # 1 => j \in 2..Len(seqs[i])
      BY <2>3
    <3> QED BY <1>8, <2>2, <3>1
  <2> QED BY <2>2, <2>3, <2>4
\* The place after a block is a mark or the end.
<1>10. \A i \in 1..n : at[i + 1] + 1 <= l => p[at[i + 1] + 1] = "&"
  <2> TAKE i \in 1..n
  <2> HAVE at[i + 1] + 1 <= l
  <2> DEFINE a == at[i + 1]
  <2>1. a \in Nat /\ a + 1 \in 1..l
    <3>1. a \in Nat /\ a + 1 <= l
      BY <1>3
    <3> HIDE DEF a, l
    <3> QED BY <1>3, <3>1
  <2>2. PICK b \in 1..n : \E j \in 1..Len(seqs[b]) : a + 1 = at[b] + j
    BY <1>4, <2>1
  <2>3. PICK j \in 1..Len(seqs[b]) : a + 1 = at[b] + j
    BY <2>2
  <2>4. /\ at[b] \in Nat /\ at[b + 1] \in Nat /\ Len(seqs[b]) \in Nat
        /\ at[b + 1] = at[b] + Len(seqs[b])
    BY <1>3, <1>4
  <2>5. b >= i + 1
    <3> SUFFICES ASSUME ~(b >= i + 1) PROVE FALSE
      OBVIOUS
    <3>1. b + 1 <= i + 1 /\ b + 1 \in 1..(n + 1) /\ i + 1 \in 1..(n + 1)
      BY <1>3
    <3>2. at[b + 1] <= a
      BY <1>5, <3>1
    <3> HIDE DEF a
    <3> QED BY <2>1, <2>3, <2>4, <3>2
  <2>6. a <= at[b]
    <3>1. b \in 1..(n + 1) /\ i + 1 \in 1..(n + 1)
      BY <1>3
    <3> QED BY <1>5, <2>5, <3>1
  <2> HIDE DEF a
  <2>7. j = 1 /\ Len(seqs[b]) >= 1
    BY <2>1, <2>3, <2>4, <2>6
  <2>8. p[a + 1] = "&"
    BY <1>7, <2>3, <2>7
  <2> QED BY <2>8 DEF a
\* q is p without its first mark.
<1>11. /\ q \in Seq(S)
       /\ l >= 1 => Len(q) = l - 1
       /\ \A k \in 1..(l - 1) : q[k] = p[k + 1]
       /\ l = 0 => q = <<>>
  <2>1. CASE l = 0
    BY <1>1, <2>1
  <2>2. CASE l # 0
    <3>1. 2 \in 1..(l + 1) /\ l \in (2 - 1)..l /\ l + 1 - 2 = l - 1
      BY <1>3, <2>2
    <3>2. q \in Seq(S) /\ Len(q) = l - 1 /\ \A k \in 1..(l - 1) : q[k] = p[2 + k - 1]
      BY <1>1, <3>1, Part, SMTT(40)
    <3>3. \A k \in 1..(l - 1) : 2 + k - 1 = k + 1
      BY <1>3
    <3> HIDE DEF q, l
    <3> QED BY <2>2, <3>2, <3>3
  <2> QED BY <2>1, <2>2
<1> HIDE DEF q
<1>12. CASE l = 0
  <2>1. q = <<>>
    BY <1>11, <1>12
  <2>2. \A i \in 1..n : Len(seqs[i]) = 0
    <3> TAKE i \in 1..n
    <3>1. at[i + 1] <= at[n + 1] /\ at[i] \in Nat /\ at[i + 1] \in Nat
      <4>1. i + 1 \in 1..(n + 1) /\ n + 1 \in 1..(n + 1) /\ i \in 1..(n + 1) /\ i + 1 <= n + 1
        BY <1>3
      <4> QED BY <1>3, <1>5, <4>1
    <3>2. at[i + 1] = at[i] + Len(seqs[i]) /\ Len(seqs[i]) \in Nat /\ at[n + 1] = 0
      BY <1>3, <1>4, <1>12
    <3> QED BY <3>1, <3>2
  <2>3. \A k \in starts : Len(field(k)) = 0
    <3>1. starts = {1}
      BY <2>1
    <3>2. Place(q, "&", 1) = 1
      <4>1. Place(q, "&", 1) = Min({1})
        BY <2>1 DEF Place
      <4> QED BY <4>1 DEF Min
    <3>3. Len(field(1)) = 0
      BY <2>1, <3>2
    <3> HIDE DEF field, starts
    <3> QED BY <3>1, <3>3
  <2> HIDE DEF field, starts
  <2>4. ~(f \in Fields(q) /\ Len(f) >= 2)
    BY <1>6, <2>3
  <2>5. \A i \in 1..n : ~(Len(seqs[i]) >= 3)
    BY <2>2
  <2> QED BY <2>4, <2>5 DEF q, p, l
<1>13. CASE l # 0
  <2>1. p[1] = "&"
    <3>1. PICK i \in 1..n : \E j \in 1..Len(seqs[i]) : 1 = at[i] + j
      <4>1. 1 \in 1..l
        <5> HIDE DEF l
        <5> QED BY <1>3, <1>13
      <4> QED BY <1>4, <4>1
    <3>2. PICK j \in 1..Len(seqs[i]) : 1 = at[i] + j
      BY <3>1
    <3>3. at[i] \in Nat /\ Len(seqs[i]) \in Nat
      BY <1>3
    <3>5. j \in Nat /\ 1 <= j /\ j <= Len(seqs[i])
      BY <3>3
    <3>4. at[i] = 0 /\ Len(seqs[i]) >= 1
      BY <3>2, <3>3, <3>5
    <3> QED BY <1>7, <3>4
  <2>2. l >= 1 /\ Len(q) = l - 1 /\ q \in Seq(S)
    <3>1. l >= 1
      <4> HIDE DEF l
      <4> QED BY <1>3, <1>13
    <3> HIDE DEF l
    <3> QED BY <1>11, <3>1
  <2>3. \A k \in starts : k \in 1..l /\ p[k] = "&"
    <3>1. 1 \in 1..l
      BY <1>3, <1>13
    <3>2. \A i \in 1..(l - 1) : q[i] = "&" => i + 1 \in 1..l /\ p[i + 1] = "&"
      BY <1>3, <1>11
    <3>3. DOMAIN q = 1..(l - 1)
      BY <2>2
    <3> HIDE DEF l
    <3> QED BY <2>1, <3>1, <3>2, <3>3
  <2>4. \A k \in 1..l : p[k] = "&" => k \in starts
    <3> TAKE k \in 1..l
    <3> HAVE p[k] = "&"
    <3>1. CASE k = 1
      BY <3>1
    <3>2. CASE k # 1
      <4>1. k - 1 \in 1..(l - 1) /\ (k - 1) + 1 = k
        BY <1>3, <3>2
      <4>2. q[k - 1] = "&" /\ k - 1 \in DOMAIN q
        BY <1>11, <2>2, <4>1
      <4> QED BY <4>1, <4>2
    <3> QED BY <3>1, <3>2
  <2> HIDE DEF starts
  <2>5. ASSUME NEW i \in 1..n, Len(seqs[i]) >= 1 PROVE field(at[i] + 1) = tail(i)
    <3> DEFINE k == at[i] + 1
               e == at[i + 1]
               s == seqs[i]
               t == tail(i)
               g == field(k)
    <3>1. /\ s \in Seq(S) /\ Len(s) \in Nat /\ Len(s) >= 1 /\ at[i] \in Nat
          /\ e \in Nat /\ e = at[i] + Len(s) /\ e <= l
      <4>1. i + 1 <= n + 1 /\ i + 1 \in 1..(n + 1) /\ n + 1 \in 1..(n + 1)
        BY <1>3
      <4> QED BY <1>3, <1>4, <1>5, <2>5, <4>1
    <3>2. k \in 1..l /\ k <= e
      <4> HIDE DEF e, s
      <4> QED BY <1>3, <3>1
    <3>3. Place(q, "&", k) = e
      <4>1. \A x \in k..(e - 1) : q[x] # "&"
        <5> TAKE x \in k..(e - 1)
        <5> DEFINE j == x + 1 - at[i]
        <5>1. j \in 2..Len(s) /\ at[i] + j = x + 1 /\ x \in 1..(l - 1)
          <6> DEFINE a == at[i]
                     z == Len(s)
          <6>1. a \in Nat /\ z \in Nat /\ e \in Nat /\ e = a + z /\ e <= l /\ l \in Nat
                /\ k = a + 1 /\ j = x + 1 - a
            BY <1>3, <3>1
          <6> HIDE DEF e, s, a, z, k, l, j
          <6>2. j \in 2..z /\ a + j = x + 1 /\ x \in 1..(l - 1)
            BY <6>1
          <6> QED BY <6>2 DEF a, z
        <5> QED BY <1>8, <1>11, <5>1
      <4>2. e <= l - 1 => q[e] = "&"
        <5>1. e <= l - 1 => e + 1 <= l /\ e \in 1..(l - 1)
          <6> HIDE DEF e
          <6> QED BY <1>3, <3>1
        <5> QED BY <1>10, <1>11, <5>1
      <4> HIDE DEF e, k
      <4>3. k \in 1..(Len(q) + 1) /\ e \in k..(Len(q) + 1) /\ (e <= Len(q) => q[e] = "&")
        BY <1>3, <2>2, <3>1, <3>2, <4>2
      <4> QED BY <2>2, <4>1, <4>3, PlaceIs, SMTT(40)
    <3>4. g \in Seq(S) /\ Len(g) = Len(s) - 1 /\ \A x \in 1..(Len(s) - 1) : g[x] = q[k + x - 1]
      <4>1. g = SubSeq(q, k, e - 1)
        BY <3>3
      <4> HIDE DEF g
      <4>2. k \in 1..(Len(q) + 1) /\ e - 1 \in (k - 1)..Len(q) /\ (e - 1) + 1 - k = Len(s) - 1
        <5> DEFINE a == at[i]
                   z == Len(s)
                   y == Len(q)
        <5>1. a \in Nat /\ z \in Nat /\ e \in Nat /\ e = a + z /\ e <= l /\ l \in Nat
              /\ k = a + 1 /\ k \in 1..l /\ k <= e /\ y = l - 1
          BY <1>3, <2>2, <3>1, <3>2
        <5> HIDE DEF e, s, a, z, k, l, y
        <5>2. k \in 1..(y + 1) /\ e - 1 \in (k - 1)..y /\ (e - 1) + 1 - k = z - 1
          BY <5>1
        <5> QED BY <5>2 DEF y, z
      <4> HIDE DEF k, e, s
      <4> DEFINE b == e - 1
                 z == Len(s) - 1
      <4>3. k \in 1..(Len(q) + 1) /\ b \in (k - 1)..Len(q) /\ b + 1 - k = z
        BY <4>2
      <4>4. g = SubSeq(q, k, b)
        BY <4>1
      <4> HIDE DEF b, z
      <4>5. g \in Seq(S) /\ Len(g) = b + 1 - k /\ \A x \in 1..(b + 1 - k) : g[x] = q[k + x - 1]
        <5>1. q \in Seq(S)
          BY <2>2
        <5> HIDE DEF q
        <5> QED BY <4>3, <4>4, <5>1, Part, SMTT(40)
      <4>6. g \in Seq(S) /\ Len(g) = z /\ \A x \in 1..z : g[x] = q[k + x - 1]
        BY <4>3, <4>5
      <4> QED BY <4>6 DEF z
    <3>5. t \in Seq(S) /\ Len(t) = Len(s) - 1 /\ \A x \in 1..(Len(s) - 1) : t[x] = s[2 + x - 1]
      <4>1. 2 \in 1..(Len(s) + 1) /\ Len(s) \in (2 - 1)..Len(s) /\ Len(s) + 1 - 2 = Len(s) - 1
        BY <3>1
      <4>2. t = SubSeq(s, 2, Len(s))
        OBVIOUS
      <4> HIDE DEF s, t
      <4> QED BY <3>1, <4>1, <4>2, Part, SMTT(40)
    <3>6. ASSUME NEW x \in 1..(Len(s) - 1) PROVE g[x] = t[x]
      <4>1. /\ k + x - 1 \in 1..(l - 1) /\ (k + x - 1) + 1 = at[i] + (x + 1)
            /\ x + 1 \in 1..Len(s) /\ 2 + x - 1 = x + 1
        <5> DEFINE a == at[i]
                   z == Len(s)
        <5>1. a \in Nat /\ z \in Nat /\ e \in Nat /\ e = a + z /\ e <= l /\ l \in Nat
              /\ k = a + 1
          BY <1>3, <3>1
        <5>2. x \in 1..(z - 1)
          OBVIOUS
        <5> HIDE DEF e, s, a, z, k, l
        <5>3. /\ k + x - 1 \in 1..(l - 1) /\ (k + x - 1) + 1 = a + (x + 1)
              /\ x + 1 \in 1..z /\ 2 + x - 1 = x + 1
          BY <5>1, <5>2
        <5> QED BY <5>3 DEF a, z
      <4>2. q[k + x - 1] = p[at[i] + (x + 1)]
        BY <1>11, <4>1
      <4>3. p[at[i] + (x + 1)] = s[x + 1]
        BY <1>4, <4>1
      <4> HIDE DEF g, t, s, k
      <4> QED BY <3>4, <3>5, <4>1, <4>2, <4>3
    <3> HIDE DEF g, t, s, k
    <3>7. g = t
      BY <3>1, <3>4, <3>5, <3>6, SeqEqual, SMTT(40)
    <3> QED BY <3>7 DEF g, t, k
  <2>6. \A i \in 1..n : Len(seqs[i]) >= 1 => Len(tail(i)) = Len(seqs[i]) - 1
    <3> TAKE i \in 1..n
    <3> HAVE Len(seqs[i]) >= 1
    <3>1. seqs[i] \in Seq(S) /\ Len(seqs[i]) \in Nat
      BY <1>3
    <3> QED BY <3>1
  <2>7. \A i \in 1..n : Len(seqs[i]) >= 1 => at[i] + 1 \in starts
    <3> TAKE i \in 1..n
    <3> HAVE Len(seqs[i]) >= 1
    <3>1. at[i] + 1 \in 1..l
      <4> DEFINE x == at[i]
                 y == at[i + 1]
                 z == Len(seqs[i])
      <4>1. x \in Nat /\ y = x + z /\ z \in Nat /\ z >= 1
        BY <1>3, <1>4
      <4>2. y <= l /\ l \in Nat
        <5>1. i + 1 <= n + 1 /\ i + 1 \in 1..(n + 1) /\ n + 1 \in 1..(n + 1)
          BY <1>3
        <5>2. y <= at[n + 1]
          BY <1>5, <5>1
        <5> QED BY <1>3, <1>4, <5>2
      <4> HIDE DEF x, y, z, l
      <4>3. x + 1 \in 1..l
        BY <4>1, <4>2
      <4> QED BY <4>3 DEF x
    <3> QED BY <1>7, <2>4, <3>1
  <2>8. \A k \in starts : \E i \in 1..n : Len(seqs[i]) >= 1 /\ k = at[i] + 1
    BY <1>9, <2>3
  <2> HIDE DEF field, tail
  <2>9. f \in Fields(q) <=> \E i \in 1..n : Len(seqs[i]) >= 1 /\ f = tail(i)
    <3>1. ASSUME f \in Fields(q) PROVE \E i \in 1..n : Len(seqs[i]) >= 1 /\ f = tail(i)
      <4>1. PICK k \in starts : f = field(k)
        BY <1>6, <3>1
      <4>2. PICK i \in 1..n : Len(seqs[i]) >= 1 /\ k = at[i] + 1
        BY <2>8
      <4> QED BY <2>5, <4>1, <4>2
    <3>2. ASSUME NEW i \in 1..n, Len(seqs[i]) >= 1, f = tail(i) PROVE f \in Fields(q)
      BY <1>6, <2>5, <2>7, <3>2
    <3> QED BY <3>1, <3>2
  <2>10. \A i \in 1..n : (Len(seqs[i]) >= 1 /\ Len(tail(i)) >= 2) <=> Len(seqs[i]) >= 3
    <3> TAKE i \in 1..n
    <3>1. Len(seqs[i]) \in Nat
      BY <1>3
    <3> QED BY <2>6, <3>1
  <2>11. (f \in Fields(q) /\ Len(f) >= 2) <=> \E i \in 1..n : Len(seqs[i]) >= 3 /\ f = tail(i)
    BY <2>9, <2>10
  <2> QED BY <2>11 DEF q, p, l, tail
<1> QED BY <1>12, <1>13

-----------------------------------------------------------------------------
(* The query string.                                                        *)

Names == ToSet(NameOrder)

IsParameters(p) ==
    DOMAIN p \subseteq Names /\ \A n \in DOMAIN p : p[n] \in Seq(Characters)

\* Names and characters are no separators.
LEMMA NameAtoms == /\ "&" \notin Names /\ "?" \notin Names /\ "?" \notin Characters
                   /\ NameOrder \in Seq(Names)
                   /\ \A n \in Names : \E i \in 1..Len(NameOrder) : NameOrder[i] = n
<1>1. "&" \notin Names /\ "?" \notin Names
  BY DEF Names, ToSet, NameOrder
<1>2. "?" \notin Characters
  BY HexDigit DEF Characters, Others, Hex
<1>3. \A n \in Names : \E i \in 1..Len(NameOrder) : NameOrder[i] = n
  BY DEF Names, ToSet, NameOrder
<1>4. NameOrder \in Seq(Names)
  <2>1. DOMAIN NameOrder = 1..17 /\ NameOrder = [i \in 1..17 |-> NameOrder[i]]
    BY DEF NameOrder
  <2>2. \A i \in 1..17 : NameOrder[i] \in Names
    BY <2>1 DEF Names, ToSet
  <2> QED BY <2>1, <2>2
<1> QED BY <1>1, <1>2, <1>3, <1>4

\* A pair begins with "&", its name and "=".
LEMMA PairIs ==
  ASSUME NEW p, IsParameters(p), NEW n \in Names, NEW b, b = Pair(p, n),
         NEW t, t = SubSeq(b, 2, Len(b))
  PROVE  /\ b \in Seq(Characters \cup Names) /\ Marked(b)
         /\ n \notin DOMAIN p => Len(b) = 0
         /\ n \in DOMAIN p => /\ Len(b) >= 3 /\ Len(t) >= 2 /\ Head(t) = n
                              /\ SubSeq(t, 3, Len(t)) = urlEncode(p[n])
<1> DEFINE U == Characters \cup Names
<1>1. CASE n \notin DOMAIN p
  <2>1. b = <<>>
    BY <1>1 DEF Pair
  <2> QED BY <1>1, <2>1 DEF Marked
<1>2. CASE n \in DOMAIN p
  <2> DEFINE e == urlEncode(p[n])
             a == <<"&", n, "=">>
             l == Len(e)
  <2>1. e \in Seq(Safe \cup {"%"})
    BY <1>2, Encoded DEF IsParameters
  <2>2. "&" \in U /\ "=" \in U /\ n \in U
    BY DEF Characters, Others
  <2>3. e \in Seq(U) /\ l \in Nat /\ \A i \in 1..l : e[i] # "&"
    <3>1. \A i \in 1..Len(e) : e[i] \in Safe \cup {"%"}
      BY <2>1
    <3>2. \A c \in Safe \cup {"%"} : c # "&" /\ c \in U
      BY CharacterBytes
    <3> HIDE DEF e, U
    <3> QED BY <2>1, <3>1, <3>2
  <2>4. a \in Seq(U) /\ Len(a) = 3 /\ a[1] = "&" /\ a[2] = n /\ a[3] = "="
    BY <2>2
  <2>5. b = a \o e
    BY <1>2 DEF Pair
  <2>6. n # "&" /\ "=" # "&"
    BY NameAtoms
  <2> HIDE DEF e, a, l, U
  <2>7. /\ b \in Seq(U) /\ Len(b) = 3 + l
        /\ b[1] = "&" /\ b[2] = n /\ b[3] = "="
        /\ \A i \in 1..l : b[3 + i] = e[i]
    <3>1. b \in Seq(U) /\ Len(b) = Len(a) + Len(e)
          /\ \A i \in 1..(Len(a) + Len(e)) : b[i] = IF i <= Len(a) THEN a[i] ELSE e[i - Len(a)]
      <4>1. a \in Seq(U) /\ e \in Seq(U)
        BY <2>3, <2>4
      <4> QED BY <2>5, <4>1, ConcatProperties
    <3>2. Len(a) + Len(e) = 3 + l
      BY <2>4 DEF l
    <3>3. \A i \in 1..(3 + l) : b[i] = IF i <= 3 THEN a[i] ELSE e[i - 3]
      BY <2>4, <3>1, <3>2
    <3>4. 1 \in 1..(3 + l) /\ 2 \in 1..(3 + l) /\ 3 \in 1..(3 + l)
          /\ \A i \in 1..l : 3 + i \in 1..(3 + l) /\ ~(3 + i <= 3) /\ (3 + i) - 3 = i
      BY <2>3
    <3>5. b[1] = "&" /\ b[2] = n /\ b[3] = "="
      BY <2>4, <3>3, <3>4
    <3>6. \A i \in 1..l : b[3 + i] = e[i]
      BY <3>3, <3>4
    <3> QED BY <3>1, <3>2, <3>5, <3>6
  <2>8. \A j \in 2..Len(b) : b[j] # "&"
    <3> TAKE j \in 2..Len(b)
    <3>1. j = 2 \/ j = 3 \/ (j - 3 \in 1..l /\ 3 + (j - 3) = j)
      BY <2>3, <2>7
    <3> QED BY <2>3, <2>6, <2>7, <3>1
  <2>9. Marked(b)
    BY <2>7, <2>8 DEF Marked
  <2>10. t \in Seq(U) /\ Len(t) = 2 + l /\ \A k \in 1..(2 + l) : t[k] = b[2 + k - 1]
    <3>1. 2 \in 1..(Len(b) + 1) /\ Len(b) \in (2 - 1)..Len(b) /\ Len(b) + 1 - 2 = 2 + l
      BY <2>3, <2>7
    <3> QED BY <2>7, <3>1, Part, SMTT(40)
  <2>11. Head(t) = n
    <3>1. 1 \in 1..(2 + l) /\ 2 + 1 - 1 = 2
      BY <2>3
    <3>2. t[1] = n
      BY <2>7, <2>10, <3>1
    <3>3. t \in Seq(U) /\ Len(t) >= 1
      BY <2>3, <2>10
    <3> QED BY <3>2, <3>3
  <2>12. SubSeq(t, 3, Len(t)) = e
    <3> DEFINE r == SubSeq(t, 3, Len(t))
    <3>1. 3 \in 1..(Len(t) + 1) /\ Len(t) \in (3 - 1)..Len(t) /\ Len(t) + 1 - 3 = l
      BY <2>3, <2>10
    <3>2. r \in Seq(U) /\ Len(r) = l /\ \A k \in 1..l : r[k] = t[3 + k - 1]
      <4>1. t \in Seq(U)
        BY <2>10
      <4> HIDE DEF r
      <4>2. r = SubSeq(t, 3, Len(t))
        BY DEF r
      <4> QED BY <3>1, <4>1, <4>2, Part, SMTT(40)
    <3>3. ASSUME NEW k \in 1..l PROVE r[k] = e[k]
      <4>1. 3 + k - 1 \in 1..(2 + l) /\ 2 + (3 + k - 1) - 1 = 3 + k
        BY <2>3
      <4> HIDE DEF r
      <4>2. r[k] = t[3 + k - 1] /\ t[3 + k - 1] = b[3 + k]
        BY <2>10, <3>2, <4>1
      <4> QED BY <2>7, <4>2
    <3> HIDE DEF r
    <3>4. r = e
      BY <2>3, <3>2, <3>3, SeqEqual, SMTT(40) DEF l
    <3> QED BY <3>4 DEF r
  <2>13. Len(b) >= 3 /\ Len(t) >= 2
    BY <2>3, <2>7, <2>10
  <2> QED BY <1>2, <2>7, <2>9, <2>11, <2>12, <2>13 DEF U, e
<1> QED BY <1>1, <1>2

\* The blocks of a query string.
PairBlocks(p) == [i \in DOMAIN NameOrder |-> Pair(p, NameOrder[i])]

\* The query string is the pairs, one after the other.
LEMMA QueryBlocks ==
  ASSUME NEW p, IsParameters(p)
  PROVE  /\ PairBlocks(p) \in Seq(Seq(Characters \cup Names))
         /\ Len(PairBlocks(p)) = Len(NameOrder)
         /\ Pairs(p) = FlattenSeq(PairBlocks(p))
         /\ Pairs(p) \in Seq(Characters \cup Names)
         /\ buildQueryString(p) \in Seq(Characters \cup Names)
<1> DEFINE U == Characters \cup Names
<1>1. \A i \in 1..Len(NameOrder) : NameOrder[i] \in Names
  BY NameAtoms
<1>2. \A i \in 1..Len(NameOrder) : Pair(p, NameOrder[i]) \in Seq(U)
  BY <1>1, PairIs
<1>3. Len(NameOrder) \in Nat /\ DOMAIN NameOrder = 1..Len(NameOrder)
  BY NameAtoms
<1>4. PairBlocks(p) \in Seq(Seq(U)) /\ Len(PairBlocks(p)) = Len(NameOrder)
  BY <1>2, <1>3 DEF PairBlocks
<1>5. Pairs(p) = FlattenSeq(PairBlocks(p))
  BY DEF Pairs, PairBlocks
<1>6. Pairs(p) \in Seq(U)
  BY <1>4, <1>5, FlattenBlocks
<1>7. buildQueryString(p) \in Seq(U)
  <2> HIDE DEF U
  <2> QED BY <1>6 DEF buildQueryString
<1> QED BY <1>4, <1>5, <1>6, <1>7

\* The exchange reads from a query what was encoded for it.
LEMMA QueryIsRead ==
  ASSUME NEW p, IsParameters(p), NEW url, Query(url) = buildQueryString(p)
  PROVE  FromQuery(url) = [n \in DOMAIN p |-> Decode(urlEncode(p[n]))]
<1> DEFINE s == PairBlocks(p)
           q == Query(url)
           fields == {f \in Fields(q) : Len(f) >= 2}
           tail(n) == SubSeq(Pair(p, n), 2, Len(Pair(p, n)))
<1>1. /\ s \in Seq(Seq(Characters \cup Names)) /\ Len(s) = Len(NameOrder)
      /\ q = SubSeq(FlattenSeq(s), 2, Len(FlattenSeq(s)))
  BY QueryBlocks DEF buildQueryString
<1>2. \A i \in 1..Len(s) : NameOrder[i] \in Names /\ s[i] = Pair(p, NameOrder[i])
  <2>1. DOMAIN NameOrder = 1..Len(NameOrder) /\ \A i \in 1..Len(NameOrder) : NameOrder[i] \in Names
    BY NameAtoms
  <2> QED BY <1>1, <2>1 DEF PairBlocks
<1>3. \A n \in Names : /\ Marked(Pair(p, n))
                       /\ n \notin DOMAIN p => Len(Pair(p, n)) = 0
                       /\ n \in DOMAIN p => /\ Len(Pair(p, n)) >= 3
                                            /\ Head(tail(n)) = n
                                            /\ SubSeq(tail(n), 3, Len(tail(n))) = urlEncode(p[n])
  BY PairIs
<1>4. \A n \in DOMAIN p : n \in Names /\ \E i \in 1..Len(s) : NameOrder[i] = n
  BY <1>1, NameAtoms DEF IsParameters
<1>5. \A i \in 1..Len(s) : Marked(s[i])
  BY <1>2, <1>3
<1> HIDE DEF s, q
<1>6. \A f : f \in fields <=> \E i \in 1..Len(s) : Len(s[i]) >= 3 /\ f = SubSeq(s[i], 2, Len(s[i]))
  BY <1>1, <1>5, FieldsAreBlocks
<1> HIDE DEF fields
<1>7. \A f : f \in fields <=> \E n \in DOMAIN p : f = tail(n)
  <2>1. ASSUME NEW f, f \in fields PROVE \E n \in DOMAIN p : f = tail(n)
    <3>1. PICK i \in 1..Len(s) : Len(s[i]) >= 3 /\ f = SubSeq(s[i], 2, Len(s[i]))
      BY <1>6, <2>1
    <3>2. NameOrder[i] \in DOMAIN p
      BY <1>2, <1>3, <3>1
    <3>3. f = tail(NameOrder[i])
      BY <1>2, <3>1
    <3> QED BY <3>2, <3>3
  <2>2. ASSUME NEW n \in DOMAIN p PROVE tail(n) \in fields
    <3>1. PICK i \in 1..Len(s) : NameOrder[i] = n
      BY <1>4
    <3>2. Len(s[i]) >= 3 /\ tail(n) = SubSeq(s[i], 2, Len(s[i]))
      BY <1>2, <1>3, <1>4, <3>1
    <3> QED BY <1>6, <3>2
  <2> QED BY <2>1, <2>2
<1> DEFINE first(n) == CHOOSE f \in fields : Head(f) = n
           rest(f) == SubSeq(f, 3, Len(f))
<1>8. \A n \in DOMAIN p : Head(tail(n)) = n /\ rest(tail(n)) = urlEncode(p[n])
  BY <1>3, <1>4
<1>9. FromQuery(url) = [n \in {Head(f) : f \in fields} |-> Decode(rest(first(n)))]
  BY DEF FromQuery, fields, q
<1> HIDE DEF tail, rest
<1>10. {Head(f) : f \in fields} = DOMAIN p
  BY <1>7, <1>8
<1>11. \A n \in DOMAIN p : first(n) = tail(n)
  <2> TAKE n \in DOMAIN p
  <2>1. tail(n) \in fields /\ Head(tail(n)) = n
    BY <1>7, <1>8
  <2>2. \A f \in fields : Head(f) = n => f = tail(n)
    BY <1>7, <1>8
  <2> QED BY <2>1, <2>2
<1> HIDE DEF first
<1>12. \A n \in DOMAIN p : Decode(rest(first(n))) = Decode(urlEncode(p[n]))
  BY <1>8, <1>11
<1> QED BY <1>9, <1>10, <1>12

-----------------------------------------------------------------------------
(* A text in a JSON body.                                                   *)

\* A text has as many bytes as characters.
LEMMA BytesOf ==
  ASSUME NEW text \in Seq(Characters)
  PROVE  Bytes(text) \in Seq(Nat) /\ Len(Bytes(text)) = Len(text)
<1>1. DOMAIN text = 1..Len(text) /\ \A i \in 1..Len(text) : text[i] \in Characters
  OBVIOUS
<1>2. \A i \in 1..Len(text) : Byte[text[i]] \in Nat
  BY <1>1, CharacterBytes
<1> QED BY <1>1, <1>2 DEF Bytes

Taken(b, taken) ==
    taken = [i \in DOMAIN b |-> IF i = 1 \/ b[i - 1] < 128 THEN 0 ELSE 1 - taken[i - 1]]

\* The bytes above 127.
LEMMA HighBytes ==
  /\ Byte["xC3"] = 195 /\ Byte["xA9"] = 169
  /\ \A c \in Characters \ {"xC3", "xA9"} : Byte[c] < 128
<1>1. Characters = Hex \cup Others
  BY DEF Characters, Hex
<1>2. Byte["xC3"] = 195 /\ Byte["xA9"] = 169
  BY <1>1 DEF Byte, Others
<1>3. \A c \in Others \ {"xC3", "xA9"} : Byte[c] < 128
  BY DEF Byte, Others, Characters
<1>4. \A c \in Hex \ Others : Byte[c] < 128
  <2>1. \A c \in Hex : c \in Characters /\ DigitValue[c] \in 0..15
    BY HexDigit DEF Characters, Hex
  <2> QED BY <2>1 DEF Byte, Others
<1> QED BY <1>1, <1>2, <1>3, <1>4

\* In valid UTF-8, the byte that is taken with the one before is the second of
\* its character.
LEMMA SecondIsTaken ==
  ASSUME NEW text \in Seq(Characters), Utf8Text(text)
  PROVE  \A f : Taken(Bytes(text), f)
                <=> f = [i \in DOMAIN text |-> IF text[i] = "xA9" THEN 1 ELSE 0]
<1> DEFINE n == Len(text)
           b == Bytes(text)
           g == [i \in 1..n |-> IF text[i] = "xA9" THEN 1 ELSE 0]
           e(f, i) == IF i = 1 \/ b[i - 1] < 128 THEN 0 ELSE 1 - f[i - 1]
<1>1. n \in Nat /\ DOMAIN text = 1..n /\ DOMAIN b = 1..n
  BY DEF Bytes
<1>2. \A i \in 1..n : text[i] \in Characters /\ b[i] = Byte[text[i]]
  BY DEF Bytes
<1>3. \A i \in 1..n : b[i] < 128 <=> text[i] \notin {"xC3", "xA9"}
  BY <1>2, HighBytes
<1>4. \A i \in 1..n : /\ text[i] = "xC3" => i + 1 \in 1..n /\ text[i + 1] = "xA9"
                      /\ text[i] = "xA9" => i - 1 \in 1..n /\ text[i - 1] = "xC3"
  BY <1>1 DEF Utf8Text
<1> HIDE DEF b
<1>5. ASSUME NEW i \in 1..n PROVE g[i] = e(g, i)
  <2>1. CASE i = 1
    <3>1. i - 1 \notin 1..n
      BY <1>1, <2>1
    <3> QED BY <1>4, <2>1, <3>1
  <2>2. CASE i # 1
    <3>1. i - 1 \in 1..n /\ (i - 1) + 1 = i
      BY <1>1, <2>2
    <3>2. CASE text[i - 1] = "xC3"
      <4>1. text[i] = "xA9" /\ ~(b[i - 1] < 128)
        BY <1>3, <1>4, <3>1, <3>2
      <4> QED BY <2>2, <3>1, <3>2, <4>1
    <3>3. CASE text[i - 1] = "xA9"
      <4>1. text[i] # "xA9" /\ ~(b[i - 1] < 128)
        BY <1>3, <1>4, <3>1, <3>3
      <4> QED BY <2>2, <3>1, <3>3, <4>1
    <3>4. CASE text[i - 1] \notin {"xC3", "xA9"}
      <4>1. text[i] # "xA9" /\ b[i - 1] < 128
        BY <1>3, <1>4, <3>1, <3>4
      <4> QED BY <2>2, <4>1
    <3> QED BY <3>2, <3>3, <3>4
  <2> QED BY <2>1, <2>2
<1>6. Taken(b, g)
  BY <1>1, <1>5 DEF Taken
<1>7. ASSUME NEW f, Taken(b, f) PROVE f = g
  <2>1. f = [i \in 1..n |-> e(f, i)]
    BY <1>1, <1>7 DEF Taken
  <2>2. \A i \in 1..n : f[i] = e(f, i)
    BY <2>1
  <2> DEFINE T == {k \in Nat : k \in 1..n => f[k] = g[k]}
  <2> HIDE DEF g
  <2>3. 0 \in T
    OBVIOUS
  <2>4. ASSUME NEW k \in Nat, k \in T PROVE k + 1 \in T
    <3> SUFFICES ASSUME k + 1 \in 1..n PROVE f[k + 1] = g[k + 1]
      OBVIOUS
    <3>1. k + 1 = 1 \/ f[k] = g[k]
      BY <1>1, <2>4
    <3>2. (k + 1) - 1 = k
      OBVIOUS
    <3>3. e(f, k + 1) = e(g, k + 1)
      BY <3>1, <3>2
    <3> HIDE DEF e
    <3> QED BY <1>5, <2>2, <3>3
  <2>5. Nat \subseteq T
    <3> HIDE DEF T
    <3> QED BY <2>3, <2>4, Induction
  <2>6. \A k \in 1..n : f[k] = g[k]
    BY <2>5
  <2>7. g = [i \in 1..n |-> g[i]]
    BY DEF g
  <2>8. f = [i \in 1..n |-> f[i]]
    <3> HIDE DEF e
    <3> QED BY <2>1, <2>2
  <2> QED BY <2>6, <2>7, <2>8
<1>8. g = [i \in DOMAIN text |-> IF text[i] = "xA9" THEN 1 ELSE 0]
  BY <1>1
<1> HIDE DEF g
<1> QED BY <1>6, <1>7, <1>8 DEF b

\* The code points written for a text.
LEMMA JsonPoints ==
  ASSUME NEW text \in Seq(Characters), Utf8Text(text)
  PROVE  JsonString(text) = [i \in DOMAIN text |->
            CASE text[i] = "xA9" -> <<>> [] text[i] = "xC3" -> <<233>> [] OTHER -> <<Byte[text[i]]>>]
<1> DEFINE b == Bytes(text)
           n == Len(text)
           f == CHOOSE g : Taken(b, g)
           point(i) == IF f[i] = 1 THEN <<>>
                       ELSE IF b[i] < 128 THEN <<b[i]>>
                       ELSE IF i = Len(b) THEN <<Replacement>>
                       ELSE <<64 * (b[i] % 32) + (b[i + 1] % 64)>>
           read(i) == CASE text[i] = "xA9" -> <<>> [] text[i] = "xC3" -> <<233>>
                        [] OTHER -> <<Byte[text[i]]>>
<1>1. n \in Nat /\ DOMAIN text = 1..n /\ DOMAIN b = 1..n /\ Len(b) = n
  BY BytesOf DEF Bytes
<1>2. \A i \in 1..n : text[i] \in Characters /\ b[i] = Byte[text[i]]
  BY DEF Bytes
<1>3. JsonString(text) = [i \in DOMAIN b |-> point(i)]
  BY DEF JsonString, Taken
<1>4. f = [i \in DOMAIN text |-> IF text[i] = "xA9" THEN 1 ELSE 0]
  <2>1. \E g : Taken(b, g)
    BY SecondIsTaken
  <2>2. Taken(b, f)
    BY <2>1
  <2> HIDE DEF f
  <2> QED BY <2>2, SecondIsTaken
<1> HIDE DEF f, b
<1>5. ASSUME NEW i \in 1..n PROVE point(i) = read(i)
  <2>1. CASE text[i] = "xA9"
    BY <1>1, <1>4, <2>1
  <2>2. CASE text[i] = "xC3"
    <3>1. i + 1 \in 1..n /\ text[i + 1] = "xA9"
      BY <1>1, <2>2 DEF Utf8Text
    <3>2. b[i] = 195 /\ b[i + 1] = 169
      BY <1>2, <2>2, <3>1, HighBytes
    <3>3. f[i] = 0
      BY <1>1, <1>4, <2>2
    <3>4. i # Len(b)
      <4> HIDE DEF n
      <4>1. i # n
        BY <1>1, <3>1
      <4> QED BY <1>1, <4>1
    <3>5. 64 * (b[i] % 32) + (b[i + 1] % 64) = 233 /\ ~(b[i] < 128)
      BY <3>2
    <3> QED BY <2>2, <3>3, <3>4, <3>5
  <2>3. CASE text[i] \notin {"xC3", "xA9"}
    <3>1. b[i] < 128 /\ f[i] = 0 /\ b[i] = Byte[text[i]]
      BY <1>1, <1>2, <1>4, <2>3, HighBytes
    <3> QED BY <2>3, <3>1
  <2> QED BY <2>1, <2>2, <2>3
<1> HIDE DEF point, read
<1>6. JsonString(text) = [i \in DOMAIN text |-> read(i)]
  BY <1>1, <1>3, <1>5
<1> QED BY <1>6 DEF read

\* A text of valid UTF-8 comes out of a JSON body as it went in.
LEMMA JsonIsRead ==
  ASSUME NEW text \in Seq(Characters), Utf8Text(text)
  PROVE  ReadString(JsonString(text)) = Bytes(text)
<1> DEFINE n == Len(text)
           b == Bytes(text)
           J == JsonString(text)
           block(i) == CASE text[i] = "xA9" -> <<>> [] text[i] = "xC3" -> <<195, 169>>
                         [] OTHER -> <<b[i]>>
           s == [i \in 1..n |-> block(i)]
<1>1. n \in Nat /\ DOMAIN text = 1..n /\ b \in Seq(Nat) /\ Len(b) = n
  BY BytesOf
<1>2. \A i \in 1..n : text[i] \in Characters /\ b[i] = Byte[text[i]] /\ b[i] \in Nat
  BY CharacterBytes DEF Bytes
<1>3. \A i \in 1..n : /\ text[i] = "xC3" => i + 1 \in 1..n /\ text[i + 1] = "xA9"
                      /\ text[i] = "xA9" => i - 1 \in 1..n /\ text[i - 1] = "xC3"
  BY <1>1 DEF Utf8Text
<1>4. \A i \in 1..n : /\ text[i] = "xC3" => b[i] = 195
                      /\ text[i] = "xA9" => b[i] = 169
                      /\ text[i] \notin {"xC3", "xA9"} => b[i] < 128
  BY <1>2, HighBytes
<1>5. J = [i \in 1..n |-> CASE text[i] = "xA9" -> <<>> [] text[i] = "xC3" -> <<233>>
                            [] OTHER -> <<b[i]>>]
  <2>1. J = [i \in 1..n |-> CASE text[i] = "xA9" -> <<>> [] text[i] = "xC3" -> <<233>>
                              [] OTHER -> <<Byte[text[i]]>>]
    BY <1>1, JsonPoints
  <2> HIDE DEF J, b
  <2> QED BY <1>2, <2>1
<1> HIDE DEF J, b
<1>6. ReadString(J) = FlattenSeq(s)
  <2>1. Utf8(233) = <<195, 169>>
    BY DEF Utf8
  <2>2. ASSUME NEW p \in Nat, p < 128 PROVE Utf8(p) = <<p>>
    <3>1. p \notin 128..2047
      BY <2>2
    <3> QED BY <2>2, <3>1 DEF Utf8
  <2>3. DOMAIN J = 1..n
    BY <1>5
  <2>4. ASSUME NEW i \in 1..n PROVE block(i) = IF J[i] = <<>> THEN <<>> ELSE Utf8(J[i][1])
    <3>1. CASE text[i] = "xA9"
      BY <1>5, <3>1
    <3>2. CASE text[i] = "xC3"
      <4>1. J[i] = <<233>> /\ J[i] # <<>> /\ J[i][1] = 233
        BY <1>5, <3>2
      <4> QED BY <2>1, <3>2, <4>1
    <3>3. CASE text[i] \notin {"xC3", "xA9"}
      <4>1. J[i] = <<b[i]>> /\ J[i] # <<>> /\ J[i][1] = b[i]
        BY <1>5, <3>3
      <4>2. Utf8(b[i]) = <<b[i]>>
        BY <1>2, <1>4, <2>2, <3>3
      <4> QED BY <3>3, <4>1, <4>2
    <3> QED BY <3>1, <3>2, <3>3
  <2> HIDE DEF block
  <2>5. [i \in DOMAIN J |-> IF J[i] = <<>> THEN <<>> ELSE Utf8(J[i][1])] = s
    BY <2>3, <2>4
  <2> HIDE DEF s
  <2> QED BY <2>5 DEF ReadString
<1>7. \A i \in 1..n : block(i) \in Seq(Nat)
  <2> TAKE i \in 1..n
  <2>1. <<>> \in Seq(Nat) /\ <<195, 169>> \in Seq(Nat) /\ <<b[i]>> \in Seq(Nat)
    BY <1>2
  <2> QED BY <2>1
<1>8. s \in Seq(Seq(Nat)) /\ Len(s) = n /\ \A i \in 1..n : s[i] = block(i)
  <2> HIDE DEF block
  <2> QED BY <1>1, <1>7
<1>9. CASE n = 0
  <2>1. s = <<>> /\ b = <<>>
    BY <1>1, <1>8, <1>9
  <2>2. FlattenSeq(s) = <<>>
    BY <2>1 DEF FlattenSeq
  <2> HIDE DEF s
  <2> QED BY <1>6, <2>1, <2>2 DEF J, b
<1>10. CASE n # 0
  <2> HIDE DEF s
  <2>1. s # <<>>
    BY <1>8, <1>10
  <2>2. PICK f \in [1..n -> Seq(Nat)] :
           /\ f[1] = s[1]
           /\ \A i \in 2..n : f[i] = f[i - 1] \o s[i]
           /\ FlattenSeq(s) = f[n]
    <3>1. s \in Seq(Seq(Nat))
      BY <1>8
    <3>2. \E f \in [1..Len(s) -> Seq(Nat)] :
             /\ f[1] = s[1]
             /\ \A i \in 2..Len(s) : f[i] = f[i - 1] \o s[i]
             /\ FlattenSeq(s) = f[Len(s)]
      BY <2>1, <3>1, Flatten
    <3> QED BY <1>8, <3>2
  <2> DEFINE end(k) == IF text[k] = "xC3" THEN k + 1 ELSE k
             T == {k \in Nat : k \in 1..n => f[k] = SubSeq(b, 1, end(k))}
  <2>3. ASSUME NEW k \in Nat, k \in T PROVE k + 1 \in T
    <3> SUFFICES ASSUME k + 1 \in 1..n PROVE f[k + 1] = SubSeq(b, 1, end(k + 1))
      OBVIOUS
    <3> DEFINE old == SubSeq(b, 1, k)
    <3>1. k = 0 \/ text[k + 1] = "xA9" \/ (k \in 1..n /\ text[k] # "xC3")
      BY <1>1, <1>3
    <3>2. CASE text[k + 1] = "xA9"
      <4>1. k \in 1..n /\ text[k] = "xC3" /\ k + 1 \in 2..n /\ (k + 1) - 1 = k
        BY <1>1, <1>3, <3>2
      <4>2. f[k] = SubSeq(b, 1, k + 1)
        BY <2>3, <4>1
      <4>3. f[k + 1] = f[k] \o <<>>
        BY <1>8, <2>2, <3>2, <4>1
      <4>4. f[k] \in Seq(Nat)
        BY <2>2, <4>1
      <4>5. f[k + 1] = f[k]
        BY <4>3, <4>4
      <4> QED BY <3>2, <4>2, <4>5
    <3>3. CASE text[k + 1] # "xA9"
      <4>1. f[k + 1] = old \o s[k + 1]
        <5>1. CASE k = 0
          <6>1. old = <<>> /\ s[1] \in Seq(Nat)
            BY <1>1, <1>7, <1>8, <5>1
          <6> QED BY <2>2, <5>1, <6>1
        <5>2. CASE k # 0
          <6>1. k \in 1..n /\ text[k] # "xC3" /\ k + 1 \in 2..n /\ (k + 1) - 1 = k
            BY <1>1, <3>1, <3>3, <5>2
          <6>2. f[k] = old
            BY <2>3, <6>1
          <6> QED BY <2>2, <6>1, <6>2
        <5> QED BY <5>1, <5>2
      <4>2. CASE text[k + 1] = "xC3"
        <5>1. s[k + 1] = <<195, 169>>
          BY <1>8, <4>2
        <5>2. (k + 1) + 1 \in 1..n /\ b[k + 1] = 195 /\ b[(k + 1) + 1] = 169
          BY <1>3, <1>4, <4>2
        <5>3. SubSeq(b, 1, (k + 1) + 1) = old \o <<195, 169>>
          BY <1>1, <5>2
        <5> QED BY <4>1, <4>2, <5>1, <5>3
      <4>3. CASE text[k + 1] # "xC3"
        <5>1. s[k + 1] = <<b[k + 1]>>
          BY <1>8, <3>3, <4>3
        <5>2. SubSeq(b, 1, k + 1) = old \o <<b[k + 1]>>
          BY <1>1
        <5> QED BY <4>1, <4>3, <5>1, <5>2
      <4> QED BY <4>2, <4>3
    <3> QED BY <3>2, <3>3
  <2>4. n \in T
    <3>1. 0 \in T OBVIOUS
    <3> HIDE DEF T
    <3> QED BY <1>1, <2>3, <3>1, Induction
  <2>5. n \in 1..n /\ text[n] # "xC3"
    <3>1. n \in 1..n /\ n + 1 \notin 1..n
      BY <1>1, <1>10
    <3> QED BY <1>3, <3>1
  <2>6. f[n] = SubSeq(b, 1, n)
    BY <1>1, <2>4, <2>5
  <2>7. SubSeq(b, 1, n) = b
    BY <1>1
  <2> QED BY <1>6, <2>2, <2>6, <2>7 DEF J, b
<1> QED BY <1>9, <1>10

-----------------------------------------------------------------------------
(* What the exchange reads.                                                 *)

Read(q) == Over(FromPath(q.url), Over(FromQuery(q.url), FromBody(q.body)))

SafePath(q) == \A c \in ToSet(Path(q.url)) : Unreserved(c) \/ c = "/"

\* A text whose bytes survive urlEncode.
Clear(text) == text \in Seq(Characters) /\ \A i \in 1..Len(text) : Byte[text[i]] >= 16

\* The request says what is in sent, in a body as far as it is valid UTF-8.
Reads(q, sent) ==
    SafePath(q) =>
        /\ DOMAIN Read(q) = DOMAIN sent
        /\ \A n \in DOMAIN sent :
            Clear(sent[n]) /\ (n \in DOMAIN q.body => Utf8Text(sent[n]))
                => Read(q)[n] = Bytes(sent[n])

\* A path that begins with head.
IsPath(path, head, rest) ==
    /\ head # "?"
    /\ rest \in Seq(Characters \cup {"/"}) /\ path \in Seq(Characters \cup {"/", head})
    /\ Len(path) = Len(rest) + 1 /\ path[1] = head
    /\ \A i \in 1..Len(rest) : path[i + 1] = rest[i]

\* The parts of a URL that has such a path.
LEMMA PathIsRead ==
  ASSUME NEW head, NEW rest, NEW path, IsPath(path, head, rest),
         NEW p, IsParameters(p), NEW url, url = Url(path, buildQueryString(p))
  PROVE  /\ Query(url) = buildQueryString(p)
         /\ Path(url) = rest /\ Head(url) = head
<1> DEFINE S == Characters \cup Names \cup {"?", "/", head}
           query == buildQueryString(p)
<1> USE DEF IsPath
<1>1. query \in Seq(Characters \cup Names)
  BY QueryBlocks
<1> HIDE DEF query
<1>2. query \in Seq(S)
  BY <1>1
<1>3. rest \in Seq(S) /\ \A i \in 1..Len(rest) : rest[i] # "?"
  <2>1. \A i \in 1..Len(rest) : rest[i] \in Characters \cup {"/"}
    OBVIOUS
  <2>2. "?" \notin Characters \cup {"/"}
    BY NameAtoms
  <2> QED BY <2>1, <2>2
<1>4. /\ path \in Seq(S) /\ Len(path) = Len(rest) + 1 /\ path[1] = head
      /\ \A i \in 1..Len(rest) : path[i + 1] = rest[i]
  <2>1. path \in Seq(S)
    OBVIOUS
  <2> QED BY <2>1
<1>5. path # <<>> /\ "?" \in S /\ \A i \in 1..Len(path) : path[i] # "?"
  <2>2. ASSUME NEW i \in 1..Len(path) PROVE path[i] # "?"
    <3>1. CASE i = 1
      BY <1>4, <3>1
    <3>2. CASE i # 1
      <4>1. i - 1 \in 1..Len(rest) /\ (i - 1) + 1 = i
        BY <1>3, <1>4, <3>2
      <4> DEFINE k == i - 1
      <4>2. path[k + 1] = rest[k] /\ rest[k] # "?"
        BY <1>3, <1>4, <4>1
      <4> QED BY <4>1, <4>2
    <3> QED BY <3>1, <3>2
  <2>3. path # <<>>
    BY <1>3, <1>4
  <2> QED BY <2>2, <2>3
<1>6. SubSeq(path, 2, Len(path)) = rest
  <2> DEFINE a == SubSeq(path, 2, Len(path))
  <2>1. /\ a \in Seq(S) /\ Len(a) = Len(rest)
        /\ \A k \in 1..Len(rest) : a[k] = path[2 + k - 1]
    <3>1. 2 \in 1..(Len(path) + 1) /\ Len(path) \in (2 - 1)..Len(path)
          /\ Len(path) + 1 - 2 = Len(rest)
      BY <1>3, <1>4
    <3>2. a = SubSeq(path, 2, Len(path))
      OBVIOUS
    <3> HIDE DEF a, S
    <3> QED BY <1>4, <3>1, <3>2, Part, SMTT(40)
  <2> HIDE DEF a
  <2>2. \A k \in 1..Len(rest) : a[k] = rest[k]
    <3>1. \A k \in 1..Len(rest) : 2 + k - 1 = k + 1
      BY <1>3
    <3> QED BY <1>4, <2>1, <3>1
  <2>3. a = rest
    <3> HIDE DEF S
    <3> QED BY <1>3, <2>1, <2>2, SeqEqual, SMTT(40)
  <2> QED BY <2>3 DEF a
<1> HIDE DEF S
<1>7. /\ Query(Url(path, query)) = query
      /\ Path(Url(path, query)) = SubSeq(path, 2, Len(path))
      /\ Head(Url(path, query)) = path[1]
  BY <1>2, <1>4, <1>5, UrlIsRead
<1> QED BY <1>4, <1>6, <1>7 DEF query

\* A text in a path, where nothing is escaped.
LEMMA DecodePath ==
  ASSUME NEW text \in Seq(Characters), \A i \in 1..Len(text) : Unreserved(text[i])
  PROVE  Decode(text) = Bytes(text)
<1>1. \A i \in 1..Len(text) : text[i] # "%"
  BY CharacterBytes
<1> QED BY <1>1, DecodePlain

\* The exchange reads the bytes of the parameters of a query.
LEMMA PairsRead ==
  ASSUME NEW p, IsParameters(p), NEW url, Query(url) = buildQueryString(p)
  PROVE  /\ DOMAIN FromQuery(url) = DOMAIN p
         /\ \A n \in DOMAIN p : Clear(p[n]) => FromQuery(url)[n] = Bytes(p[n])
<1>1. FromQuery(url) = [n \in DOMAIN p |-> Decode(urlEncode(p[n]))]
  BY QueryIsRead
<1>2. \A n \in DOMAIN p : Clear(p[n]) => Decode(urlEncode(p[n])) = Bytes(p[n])
  BY DecodeEncoded DEF Clear
<1> QED BY <1>1, <1>2

\* A request whose parameters are in the query says what they are.
LEMMA QueryReads ==
  ASSUME NEW head, head # "?", NEW p, IsParameters(p), NEW q,
         q.url = Url(<<head>>, buildQueryString(p)), q.body = NoBody
  PROVE  Query(q.url) = buildQueryString(p) /\ Reads(q, p)
<1>1. /\ Query(q.url) = buildQueryString(p)
      /\ Path(q.url) = <<>>
  <2> DEFINE path == <<head>>
             url == q.url
             rest == <<>>
  <2>1. IsPath(path, head, rest)
    BY DEF IsPath
  <2>2. url = Url(path, buildQueryString(p))
    OBVIOUS
  <2> HIDE DEF path, url, rest
  <2>3. Query(url) = buildQueryString(p) /\ Path(url) = rest
    BY <2>1, <2>2, PathIsRead
  <2> QED BY <2>3 DEF url, rest
<1>2. FromPath(q.url) = <<>>
  BY <1>1 DEF FromPath
<1>3. DOMAIN <<>> = {}
  OBVIOUS
<1>4. DOMAIN FromBody(q.body) = {}
  BY <1>3 DEF FromBody, NoBody
<1>5. DOMAIN Read(q) = DOMAIN p /\ \A n \in DOMAIN p : Read(q)[n] = FromQuery(q.url)[n]
  <2>1. DOMAIN FromQuery(q.url) = DOMAIN p
    BY <1>1, PairsRead
  <2> QED BY <1>2, <1>3, <1>4, <2>1 DEF Read, Over
<1>6. \A n \in DOMAIN p : Clear(p[n]) => FromQuery(q.url)[n] = Bytes(p[n])
  BY <1>1, PairsRead
<1> QED BY <1>1, <1>5, <1>6 DEF Reads

\* What names the rest of a path.
Named(n, text) == IF text = <<>> THEN <<>> ELSE [m \in {n} |-> text]

\* A request with a text at the end of its path says it, too.
LEMMA SymbolReads ==
  ASSUME NEW head, head \notin {"?", "/api/v1/contract/depth_commits/"},
         NEW symbol \in Seq(Characters), NEW p, IsParameters(p), NEW q,
         q.url = Url(<<head>> \o symbol, buildQueryString(p)), q.body = NoBody
  PROVE  /\ Query(q.url) = buildQueryString(p)
         /\ Reads(q, Over(Named(PathName(head), symbol), p))
<1> DEFINE sent == Over(Named(PathName(head), symbol), p)
<1>1. Query(q.url) = buildQueryString(p) /\ Path(q.url) = symbol /\ Head(q.url) = head
  <2> DEFINE path == <<head>> \o symbol
  <2>1. IsPath(path, head, symbol)
    BY DEF IsPath
  <2> DEFINE url == q.url
  <2>2. url = Url(path, buildQueryString(p))
    OBVIOUS
  <2> HIDE DEF path, url
  <2>3. Query(url) = buildQueryString(p) /\ Path(url) = symbol /\ Head(url) = head
    BY <2>1, <2>2, PathIsRead
  <2> QED BY <2>3 DEF url
<1>2. FromPath(q.url) = IF symbol = <<>> THEN <<>> ELSE [n \in {PathName(head)} |-> Decode(symbol)]
  <2>1. head # "/api/v1/contract/depth_commits/"
    OBVIOUS
  <2> QED BY <1>1, <2>1 DEF FromPath
<1>3. DOMAIN <<>> = {}
  OBVIOUS
<1>4. DOMAIN FromBody(q.body) = {}
  BY <1>3 DEF FromBody, NoBody
<1>5. /\ DOMAIN FromQuery(q.url) = DOMAIN p
      /\ \A n \in DOMAIN p : Clear(p[n]) => FromQuery(q.url)[n] = Bytes(p[n])
  BY <1>1, PairsRead
<1>6. SafePath(q) => Decode(symbol) = Bytes(symbol)
  <2> SUFFICES ASSUME SafePath(q) PROVE Decode(symbol) = Bytes(symbol)
    OBVIOUS
  <2>1. ASSUME NEW i \in 1..Len(symbol) PROVE Unreserved(symbol[i])
    <3>1. symbol[i] \in ToSet(Path(q.url)) /\ symbol[i] \in Characters
      BY <1>1 DEF ToSet
    <3>2. "/" \notin Characters
      BY HexDigit DEF Characters, Others, Hex
    <3> QED BY <3>1, <3>2 DEF SafePath
  <2> QED BY <2>1, DecodePath
<1> HIDE DEF sent
<1>7. DOMAIN Read(q) = DOMAIN sent
  <2>1. DOMAIN FromPath(q.url) = DOMAIN Named(PathName(head), symbol)
    BY <1>2, <1>3 DEF Named
  <2>2. DOMAIN Read(q) = DOMAIN FromPath(q.url) \cup DOMAIN p
    BY <1>4, <1>5 DEF Read, Over
  <2> QED BY <2>1, <2>2 DEF sent, Over
<1>8. ASSUME SafePath(q), NEW n \in DOMAIN sent, Clear(sent[n]) PROVE Read(q)[n] = Bytes(sent[n])
  <2>1. CASE symbol # <<>> /\ n = PathName(head)
    <3>1. sent[n] = symbol
      BY <2>1 DEF sent, Over, Named
    <3>2. Read(q)[n] = Decode(symbol)
      BY <1>2, <2>1 DEF Read, Over
    <3> QED BY <1>6, <1>8, <3>1, <3>2
  <2>2. CASE ~(symbol # <<>> /\ n = PathName(head))
    <3>1. n \notin DOMAIN Named(PathName(head), symbol) /\ n \notin DOMAIN FromPath(q.url)
      BY <1>2, <1>3, <2>2 DEF Named
    <3>2. n \in DOMAIN p /\ sent[n] = p[n]
      BY <1>8, <3>1 DEF sent, Over
    <3>3. Read(q)[n] = FromQuery(q.url)[n]
      BY <1>5, <3>1, <3>2 DEF Read, Over
    <3> QED BY <1>5, <1>8, <3>2, <3>3
  <2> QED BY <2>1, <2>2
<1>9. Reads(q, sent)
  BY <1>7, <1>8 DEF Reads
<1> QED BY <1>1, <1>9 DEF sent

IsFirst(s, c, i, p) ==
    /\ i \in 1..(Len(s) + 1) /\ p \in i..(Len(s) + 1)
    /\ p <= Len(s) => s[p] = c
    /\ \A k \in i..(p - 1) : s[k] # c

\* PlaceIs, with its hypotheses in one.
LEMMA PlaceIsFirst ==
  ASSUME NEW S, NEW s \in Seq(S), NEW c, NEW i, NEW p, IsFirst(s, c, i, p)
  PROVE  Place(s, c, i) = p
BY PlaceIs, SMTT(40) DEF IsFirst

\* Two texts and the slash between them.
IsBoth(rest, symbol, limit) ==
    /\ rest \in Seq(Characters \cup {"/"}) /\ Len(rest) = Len(symbol) + 1 + Len(limit)
    /\ \A i \in 1..Len(symbol) : rest[i] = symbol[i]
    /\ rest[Len(symbol) + 1] = "/"
    /\ \A i \in 1..Len(limit) : rest[Len(symbol) + 1 + i] = limit[i]

\* The exchange splits the two texts at the slash.
LEMMA BothAreRead ==
  ASSUME NEW symbol \in Seq(Characters), NEW limit \in Seq(Characters), NEW rest,
         IsBoth(rest, symbol, limit), NEW url, Path(url) = rest,
         Head(url) = "/api/v1/contract/depth_commits/"
  PROVE  /\ FromPath(url) = [symbol |-> Decode(symbol), limit |-> Decode(limit)]
         /\ (\A c \in ToSet(rest) : Unreserved(c) \/ c = "/") =>
                Decode(symbol) = Bytes(symbol) /\ Decode(limit) = Bytes(limit)
<1> DEFINE n == Len(symbol)
           U == Characters \cup {"/"}
<1>1. /\ rest \in Seq(U) /\ n \in Nat /\ Len(limit) \in Nat /\ Len(rest) = n + 1 + Len(limit)
      /\ \A i \in 1..n : rest[i] = symbol[i] /\ symbol[i] \in Characters
      /\ rest[n + 1] = "/"
      /\ \A i \in 1..Len(limit) : rest[n + 1 + i] = limit[i]
  BY DEF IsBoth
<1> HIDE DEF n, U
<1>6. rest # <<>>
  BY <1>1
<1>7. Place(rest, "/", 1) = n + 1
  <2> DEFINE at == n + 1
  <2>1. "/" \notin Characters
    BY HexDigit DEF Characters, Others, Hex
  <2>2. at \in 1..(Len(rest) + 1) /\ 1 \in 1..(Len(rest) + 1) /\ at - 1 = n /\ rest[at] = "/"
    BY <1>1
  <2> HIDE DEF at
  <2>3. \A k \in 1..(at - 1) : rest[k] # "/"
    BY <1>1, <2>1, <2>2
  <2>4. Place(rest, "/", 1) = at
    <3>1. IsFirst(rest, "/", 1, at)
      BY <2>2, <2>3 DEF IsFirst
    <3> QED BY <1>1, <3>1, PlaceIsFirst
  <2> QED BY <2>4 DEF at
<1>8. SubSeq(rest, 1, n) = symbol
  <2> DEFINE a == SubSeq(rest, 1, n)
  <2>1. a \in Seq(U) /\ Len(a) = n /\ \A k \in 1..n : a[k] = rest[k]
    BY <1>1
  <2> HIDE DEF a
  <2>2. a = symbol
    BY <1>1, <2>1, SeqEqual, SMTT(40) DEF n
  <2> QED BY <2>2 DEF a
<1>9. SubSeq(rest, n + 2, Len(rest)) = limit
  <2> DEFINE a == SubSeq(rest, n + 2, Len(rest))
             m == Len(limit)
  <2>1. n + 2 \in 1..(Len(rest) + 1) /\ Len(rest) \in (n + 2 - 1)..Len(rest)
        /\ Len(rest) + 1 - (n + 2) = m /\ \A k \in 1..m : n + 2 + k - 1 = n + 1 + k
    BY <1>1
  <2>2. a = SubSeq(rest, n + 2, Len(rest))
    OBVIOUS
  <2> HIDE DEF a, m
  <2>3. a \in Seq(U) /\ Len(a) = m /\ \A k \in 1..m : a[k] = rest[n + 2 + k - 1]
    BY <1>1, <2>1, <2>2, Part, SMTT(40)
  <2>4. \A k \in 1..m : a[k] = limit[k]
    BY <1>1, <2>1, <2>3 DEF m
  <2>5. a = limit
    BY <2>3, <2>4, SeqEqual, SMTT(40) DEF m
  <2> QED BY <2>5 DEF a
<1>10. FromPath(url) = [symbol |-> Decode(symbol), limit |-> Decode(limit)]
  <2>1. n + 1 - 1 = n /\ n + 1 + 1 = n + 2
    BY <1>1
  <2> DEFINE slash == Place(rest, "/", 1)
  <2>2. FromPath(url) = [symbol |-> Decode(SubSeq(rest, 1, slash - 1)),
                         limit |-> Decode(SubSeq(rest, slash + 1, Len(rest)))]
    BY <1>6 DEF FromPath
  <2>3. slash - 1 = n /\ slash + 1 = n + 2
    <3>1. slash = n + 1
      BY <1>7
    <3> HIDE DEF slash
    <3> QED BY <1>1, <3>1
  <2> HIDE DEF slash
  <2> QED BY <1>8, <1>9, <2>2, <2>3
<1>11. ASSUME \A c \in ToSet(rest) : Unreserved(c) \/ c = "/"
       PROVE  Decode(symbol) = Bytes(symbol) /\ Decode(limit) = Bytes(limit)
  <2>1. "/" \notin Characters
    BY HexDigit DEF Characters, Others, Hex
  <2>2. \A i \in 1..Len(rest) : rest[i] \in Characters => Unreserved(rest[i])
    <3>1. DOMAIN rest = 1..Len(rest)
      BY <1>1
    <3> QED BY <1>11, <2>1, <3>1 DEF ToSet
  <2>3. \A i \in 1..n : Unreserved(symbol[i])
    <3>1. \A i \in 1..n : i \in 1..Len(rest)
      BY <1>1
    <3> QED BY <1>1, <2>2, <3>1
  <2>4. \A i \in 1..Len(limit) : Unreserved(limit[i])
    <3>1. \A i \in 1..Len(limit) : n + 1 + i \in 1..Len(rest) /\ limit[i] \in Characters
      BY <1>1
    <3> QED BY <1>1, <2>2, <3>1
  <2> QED BY <2>3, <2>4, DecodePath DEF n
<1> QED BY <1>10, <1>11

\* The request of depthCommits says its two texts.
LEMMA CommitsReads ==
  ASSUME NEW symbol \in Seq(Characters), NEW limit \in Seq(Characters), NEW path, NEW rest,
         IsPath(path, "/api/v1/contract/depth_commits/", rest), IsBoth(rest, symbol, limit),
         NEW p, DOMAIN p = {}, NEW q,
         q.url = Url(path, buildQueryString(p)), q.body = NoBody
  PROVE  /\ Query(q.url) = buildQueryString(p)
         /\ Reads(q, [symbol |-> symbol, limit |-> limit])
<1> DEFINE url == q.url
           sent == [symbol |-> symbol, limit |-> limit]
<1>3. url = Url(path, buildQueryString(p)) /\ IsParameters(p)
  BY DEF IsParameters
<1> HIDE DEF url
<1>5. /\ Query(url) = buildQueryString(p)
      /\ Path(url) = rest /\ Head(url) = "/api/v1/contract/depth_commits/"
  BY <1>3, PathIsRead
<1>10. FromPath(url) = [symbol |-> Decode(symbol), limit |-> Decode(limit)]
  BY <1>5, BothAreRead
<1>11. SafePath(q) => Decode(symbol) = Bytes(symbol) /\ Decode(limit) = Bytes(limit)
  BY <1>5, BothAreRead DEF SafePath, url
<1>12. DOMAIN FromBody(q.body) = {} /\ DOMAIN FromQuery(url) = {}
  <2>1. DOMAIN <<>> = {}
    OBVIOUS
  <2> QED BY <1>3, <1>5, <2>1, PairsRead DEF FromBody, NoBody
<1>13. /\ DOMAIN Read(q) = {"symbol", "limit"}
       /\ Read(q)["symbol"] = Decode(symbol) /\ Read(q)["limit"] = Decode(limit)
  BY <1>10, <1>12 DEF Read, Over, url
<1>14. DOMAIN sent = {"symbol", "limit"} /\ sent["symbol"] = symbol /\ sent["limit"] = limit
  OBVIOUS
<1> HIDE DEF sent
<1>15. Reads(q, sent)
  BY <1>11, <1>13, <1>14 DEF Reads
<1> QED BY <1>5, <1>15 DEF url, sent

\* A request whose parameters are in the body says what they are.
LEMMA BodyReads ==
  ASSUME NEW head, head # "?", NEW members, NEW q, q.url = <<head>>,
         q.body = jsonToString(members)
  PROVE  Reads(q, members)
<1>1. Query(q.url) = <<>> /\ Path(q.url) = <<>>
  <2> DEFINE path == <<head>>
             S == {head, "?"}
             query == <<>>
  <2>1. /\ "?" \in S /\ path \in Seq(S) /\ path # <<>> /\ query \in Seq(S)
        /\ \A i \in 1..Len(path) : path[i] # "?"
    OBVIOUS
  <2>2. q.url = Url(path, query) /\ SubSeq(path, 2, Len(path)) = <<>>
    BY DEF Url
  <2> HIDE DEF path, S
  <2> QED BY <2>1, <2>2, UrlIsRead
<1>2. DOMAIN FromPath(q.url) = {} /\ DOMAIN FromQuery(q.url) = {}
  <2> DEFINE none == <<>>
             fields == {f \in Fields(none) : Len(f) >= 2}
  <2>1. DOMAIN none = {} /\ none \in Seq({}) /\ Len(none) = 0
    OBVIOUS
  <2>2. DOMAIN FromPath(q.url) = {}
    BY <1>1, <2>1 DEF FromPath
  <2>3. Place(none, "&", 1) = 1
    <3> DEFINE one == 1
    <3>1. /\ one \in one..(Len(none) + 1) /\ one \in 1..(Len(none) + 1) /\ ~(one <= Len(none))
          /\ \A k \in one..(one - 1) : none[k] # "&"
      BY <2>1
    <3> HIDE DEF one, none
    <3>2. Place(none, "&", one) = one
      <4>1. IsFirst(none, "&", one, one)
        BY <3>1 DEF IsFirst
      <4> QED BY <2>1, <4>1, PlaceIsFirst
    <3> QED BY <3>2 DEF one
  <2>4. \A f \in Fields(none) : f = SubSeq(none, 1, 0)
    BY <2>1, <2>3 DEF Fields
  <2>5. Len(SubSeq(none, 1, 0)) = 0
    OBVIOUS
  <2>6. fields = {}
    <3> HIDE DEF none
    <3> QED BY <2>4, <2>5
  <2>7. DOMAIN FromQuery(q.url) = {Head(f) : f \in fields}
    BY <1>1 DEF FromQuery
  <2> HIDE DEF fields
  <2> QED BY <2>2, <2>6, <2>7
<1> DEFINE from == FromBody(q.body)
<1>3. /\ DOMAIN q.body = DOMAIN members /\ DOMAIN from = DOMAIN members
      /\ \A n \in DOMAIN members : from[n] = ReadString(JsonString(members[n]))
  BY DEF FromBody, jsonToString
<1> HIDE DEF from
<1>4. \A n \in DOMAIN members :
        Clear(members[n]) /\ Utf8Text(members[n]) => from[n] = Bytes(members[n])
  BY <1>3, JsonIsRead DEF Clear
<1>5. Read(q) = Over(FromPath(q.url), Over(FromQuery(q.url), from))
  BY DEF Read, from
<1>6. DOMAIN Read(q) = DOMAIN members /\ \A n \in DOMAIN members : Read(q)[n] = from[n]
  BY <1>2, <1>3, <1>5 DEF Over
<1> QED BY <1>3, <1>4, <1>6 DEF Reads

-----------------------------------------------------------------------------
(* A call and its request.                                                  *)

Texts(params) == \A n \in DOMAIN params : params[n] \in Seq(Characters)

\* What is sent is what was passed, but for defaults and what the library adds.
Carries(params, sent, upper, rewritten, signed) ==
    /\ \A n \in DOMAIN params \ rewritten :
        params[n] # <<>> =>
            /\ n \in DOMAIN sent
            /\ sent[n] = IF n \in upper THEN toUpper(params[n]) ELSE params[n]
    /\ \A n \in DOMAIN sent :
        sent[n] # <<>> =>
            \/ n \in DOMAIN params /\ params[n] # <<>>
            \/ n = "limit" /\ sent[n] = <<"5", "0", "0">>
            \/ n = "timestamp" /\ signed

Delivers(call, q) ==
    (/\ \A n \in DOMAIN call.params :
            \A i \in DOMAIN call.params[n] : Byte[call.params[n][i]] >= 16
     /\ \A n \in DOMAIN call.params \cap DOMAIN q.body : Utf8Text(call.params[n])
     /\ SafePath(q))
    => LET wanted == NonEmpty(call.params)
           got == NonEmpty(Read(q))
       IN  /\ \A n \in DOMAIN wanted \ Rewritten(call) :
                /\ n \in DOMAIN got
                /\ got[n] = Bytes(IF n \in AnyCase(call) THEN toUpper(wanted[n]) ELSE wanted[n])
           /\ \A n \in DOMAIN got \ DOMAIN wanted :
                \/ n = "limit" /\ got[n] = Bytes(<<"5", "0", "0">>)
                \/ n = "timestamp" /\ q.signature # None

\* What toUpper returns and preserves.
LEMMA UpperIs ==
  ASSUME NEW text \in Seq(Characters)
  PROVE  /\ toUpper(text) \in Seq(Characters)
         /\ text = <<>> <=> toUpper(text) = <<>>
         /\ Clear(text) => Clear(toUpper(text))
         /\ Utf8Text(text) => Utf8Text(toUpper(text))
<1> DEFINE up(c) == CASE c = "b" -> "B" [] c = "m" -> "M" [] OTHER -> c
           new == toUpper(text)
<1>1. \A c \in Characters : /\ up(c) \in Characters
                            /\ Byte[c] >= 16 => Byte[up(c)] >= 16
  <2>1. "B" \in Characters /\ "M" \in Characters
    BY DEF Characters, Others, ToSet, HexDigits
  <2>2. Byte["B"] >= 16
    <3>1. "B" \in Hex
      BY DEF Hex, ToSet, HexDigits
    <3>2. DigitValue["B"] \in 0..15 /\ "B" \in Characters
      BY <3>1, HexDigit DEF Characters, Hex
    <3> QED BY <3>2 DEF Byte
  <2>3. Byte["M"] >= 16
    BY <2>1 DEF Byte
  <2> QED BY <2>1, <2>2, <2>3
<1>2. \A i \in 1..Len(text) : text[i] \in Characters
  OBVIOUS
<1>3. new = [i \in 1..Len(text) |-> up(text[i])]
  BY DEF toUpper
<1> HIDE DEF up, new
<1>4. new \in Seq(Characters) /\ Len(new) = Len(text)
  BY <1>1, <1>2, <1>3
<1>5. Clear(text) => Clear(new)
  BY <1>1, <1>2, <1>3, <1>4 DEF Clear
<1>6. text = <<>> <=> new = <<>>
  BY <1>4
<1>7. Utf8Text(text) => Utf8Text(new)
  <2>1. \A c : (up(c) = "xC3" <=> c = "xC3") /\ (up(c) = "xA9" <=> c = "xA9")
    BY DEF up
  <2>2. DOMAIN text = 1..Len(text) /\ DOMAIN new = 1..Len(text)
    BY <1>3
  <2>3. \A i \in 1..Len(text) : new[i] = up(text[i])
    BY <1>3
  <2> QED BY <2>1, <2>2, <2>3 DEF Utf8Text
<1> QED BY <1>4, <1>5, <1>6, <1>7 DEF new

\* The default limit survives urlEncode.
LEMMA ClearLimit ==
  /\ Clear(<<"5", "0", "0">>) /\ Utf8Text(<<"5", "0", "0">>)
  /\ Clear(<<>>) /\ Utf8Text(<<>>)
<1>1. "5" \in Characters /\ "0" \in Characters
  BY DEF Characters, Others, ToSet, HexDigits
<1>2. Byte["5"] >= 16 /\ Byte["0"] >= 16
  BY DEF Byte, Characters, Others, DigitValue, HexDigits, ToSet
<1> QED BY <1>1, <1>2 DEF Clear, Utf8Text

\* Only the empty text has no bytes.
LEMMA BytesEmpty ==
  ASSUME NEW text \in Seq(Characters)
  PROVE  Bytes(text) = <<>> <=> text = <<>>
<1>1. Bytes(text) \in Seq(Nat) /\ Len(Bytes(text)) = Len(text)
  BY BytesOf
<1> QED BY <1>1

\* What is said and carries what was passed is delivered.
LEMMA Delivered ==
  ASSUME NEW call, NEW q, NEW sent, Reads(q, sent), Texts(call.params),
         Carries(call.params, sent, AnyCase(call), Rewritten(call), q.signature # None)
  PROVE  Delivers(call, q)
<1> DEFINE params == call.params
           wanted == NonEmpty(params)
           got == NonEmpty(Read(q))
           upper == AnyCase(call)
           signed == q.signature # None
           copy(n) == IF n \in upper THEN toUpper(params[n]) ELSE params[n]
<1> SUFFICES ASSUME \A n \in DOMAIN params : \A i \in DOMAIN params[n] : Byte[params[n][i]] >= 16,
                    \A n \in DOMAIN params \cap DOMAIN q.body : Utf8Text(params[n]),
                    SafePath(q)
             PROVE  /\ \A n \in DOMAIN wanted \ Rewritten(call) :
                        /\ n \in DOMAIN got
                        /\ got[n] = Bytes(IF n \in upper THEN toUpper(wanted[n]) ELSE wanted[n])
                    /\ \A n \in DOMAIN got \ DOMAIN wanted :
                        \/ n = "limit" /\ got[n] = Bytes(<<"5", "0", "0">>)
                        \/ n = "timestamp" /\ signed
  BY DEF Delivers
<1>1. /\ DOMAIN Read(q) = DOMAIN sent
      /\ \A n \in DOMAIN sent :
            Clear(sent[n]) /\ (n \in DOMAIN q.body => Utf8Text(sent[n]))
                => Read(q)[n] = Bytes(sent[n])
  BY DEF Reads
<1>2. \A n \in DOMAIN params : params[n] \in Seq(Characters) /\ Clear(params[n])
  BY DEF Texts, Clear
<1>3. /\ DOMAIN wanted = {n \in DOMAIN params : params[n] # <<>>}
      /\ \A n \in DOMAIN wanted : wanted[n] = params[n]
  BY DEF NonEmpty, removeEmptyParams
<1>4. /\ DOMAIN got = {n \in DOMAIN sent : Read(q)[n] # <<>>}
      /\ \A n \in DOMAIN got : got[n] = Read(q)[n]
  BY <1>1 DEF NonEmpty, removeEmptyParams
<1>5. /\ \A n \in DOMAIN params \ Rewritten(call) :
            params[n] # <<>> => n \in DOMAIN sent /\ sent[n] = copy(n)
      /\ \A n \in DOMAIN sent :
            sent[n] # <<>> => \/ n \in DOMAIN params /\ params[n] # <<>>
                              \/ n = "limit" /\ sent[n] = <<"5", "0", "0">>
                              \/ n = "timestamp" /\ signed
  BY DEF Carries
<1>6. \A n \in DOMAIN params :
        /\ copy(n) \in Seq(Characters) /\ Clear(copy(n))
        /\ n \in DOMAIN q.body => Utf8Text(copy(n))
        /\ params[n] # <<>> => copy(n) # <<>>
  BY <1>2, UpperIs
<1> HIDE DEF params, wanted, got, upper, signed
<1>7. ASSUME NEW n \in DOMAIN wanted \ Rewritten(call)
      PROVE  /\ n \in DOMAIN got
             /\ got[n] = Bytes(IF n \in upper THEN toUpper(wanted[n]) ELSE wanted[n])
  <2>1. n \in DOMAIN params /\ params[n] # <<>> /\ wanted[n] = params[n]
    BY <1>3
  <2>2. n \in DOMAIN sent /\ sent[n] = copy(n)
    BY <1>5, <2>1
  <2>3. /\ copy(n) \in Seq(Characters) /\ Clear(copy(n)) /\ copy(n) # <<>>
        /\ n \in DOMAIN q.body => Utf8Text(copy(n))
    BY <1>6, <2>1
  <2> HIDE DEF copy
  <2>4. Read(q)[n] = Bytes(copy(n)) /\ Bytes(copy(n)) # <<>>
    BY <1>1, <2>2, <2>3, BytesEmpty
  <2> QED BY <1>4, <2>1, <2>2, <2>4 DEF copy
<1>8. ASSUME NEW n \in DOMAIN got \ DOMAIN wanted
      PROVE  \/ n = "limit" /\ got[n] = Bytes(<<"5", "0", "0">>)
             \/ n = "timestamp" /\ signed
  <2>1. n \in DOMAIN sent /\ Read(q)[n] # <<>> /\ got[n] = Read(q)[n]
    BY <1>4
  <2>2. sent[n] # <<>>
    <3>1. <<>> \in Seq(Characters)
      OBVIOUS
    <3> QED BY <1>1, <2>1, <3>1, BytesEmpty, ClearLimit
  <2>3. ~(n \in DOMAIN params /\ params[n] # <<>>)
    BY <1>3
  <2>4. sent[n] = <<"5", "0", "0">> => Read(q)[n] = Bytes(<<"5", "0", "0">>)
    BY <1>1, <2>1, ClearLimit
  <2> QED BY <1>5, <2>1, <2>2, <2>3, <2>4
<1> QED BY <1>7, <1>8

\* The digest that the exchange computes for q.
Digest(q) ==
    CASE q.kind = "POST" /\ q.time # 0 -> futuresSign(q.time, q.body)
      [] q.kind # "POST" /\ q.time # 0 -> futuresSign(q.time, Query(q.url))
      [] OTHER -> spotSign(Query(q.url))

\* What says how a call should arrive.
Call(class, fn, params) == [kind |-> class, name |-> fn, params |-> params]

\* The methods that httpRequest knows, and the function that uses another.
Known(fn, method) == method \in {"GET", "POST", "DELETE"} \/ fn = "keepaliveUserDataStream"

Sound(class, fn, params, q) ==
    /\ q.signature # None => q.signature = Digest(q)
    /\ Delivers(Call(class, fn, params), q)
    /\ Known(fn, q.kind)

\* A call that keeps the promises of SignatureAccepted and ArgumentsArrive, and
\* whose method arrives if it is known.
Sent ==
    /\ SignatureAccepted' /\ ArgumentsArrive'
    /\ request'.kind = asked'.method \/ asked'.name = "keepaliveUserDataStream"
    /\ asked = None /\ asked' # None
    /\ UNCHANGED <<fate, reply, result>>

\* A call that begins with a sound request is sent.
LEMMA BeginSound ==
  ASSUME NEW class, NEW fn, NEW params, NEW unwraps, NEW q,
         Begin(class, fn, params, unwraps, q), Sound(class, fn, params, q)
  PROVE  Sent
<1>1. /\ asked' = [kind |-> class, name |-> fn, method |-> q.kind, params |-> params,
                   unwraps |-> unwraps]
      /\ request' = [kind |-> CurlMethod(q.kind), url |-> q.url, body |-> q.body,
                     time |-> q.time, signature |-> q.signature]
  BY DEF Begin
<1>2. /\ asked'.kind = class /\ asked'.name = fn /\ asked'.params = params
      /\ asked'.method = q.kind
      /\ request'.kind = CurlMethod(q.kind) /\ request'.url = q.url /\ request'.body = q.body
      /\ request'.time = q.time /\ request'.signature = q.signature
  BY <1>1
<1>3. SignatureAccepted'
  <2>1. request'.kind = "POST" <=> q.kind = "POST"
    BY <1>2 DEF CurlMethod
  <2> QED BY <1>2, <2>1 DEF Sound, Digest, SignatureAccepted, Expected
<1>4. Delivers(asked', request')
  <2> DEFINE call == Call(class, fn, params)
  <2>1. call.kind = class /\ call.name = fn /\ call.params = params
    BY DEF Call
  <2>2. Delivers(call, q)
    BY DEF Sound
  <2> HIDE DEF call
  <2>3. /\ AnyCase(asked') = AnyCase(call) /\ Rewritten(asked') = Rewritten(call)
        /\ Read(request') = Read(q) /\ (SafePath(request') <=> SafePath(q))
    BY <1>2, <2>1 DEF AnyCase, Rewritten, Read, SafePath
  <2> QED BY <1>2, <2>1, <2>2, <2>3 DEF Delivers
<1>5. ArgumentsArrive'
  BY <1>4 DEF Delivers, ArgumentsArrive, Legible, Arrived, Read, SafePath
<1>6. request'.kind = asked'.method \/ asked'.name = "keepaliveUserDataStream"
  BY <1>2 DEF Sound, Known, CurlMethod
<1>7. asked' # None
  <2>1. "params" \in DOMAIN asked'
    BY <1>1
  <2>2. "params" \notin DOMAIN None
    BY DEF None
  <2> QED BY <2>1, <2>2
<1> QED BY <1>3, <1>5, <1>6, <1>7 DEF Begin, Sent

-----------------------------------------------------------------------------
(* The kinds of request.                                                    *)

Conveys(class, fn, params, sent, signed) ==
    LET call == Call(class, fn, params)
    IN  Carries(params, sent, AnyCase(call), Rewritten(call), signed)

\* A request that says what conveys the parameters is sound.
LEMMA SoundIf ==
  ASSUME NEW class, NEW fn, NEW params, NEW q, NEW sent, NEW signed,
         Texts(params), Reads(q, sent), Conveys(class, fn, params, sent, signed),
         signed => q.signature # None,
         q.signature # None => q.signature = Digest(q), Known(fn, q.kind)
  PROVE  Sound(class, fn, params, q)
<1> DEFINE call == Call(class, fn, params)
<1>1. call.params = params
  BY DEF Call
<1>2. Carries(params, sent, AnyCase(call), Rewritten(call), signed)
  BY DEF Conveys
<1> HIDE DEF call
<1>3. Carries(params, sent, AnyCase(call), Rewritten(call), q.signature # None)
  BY <1>2 DEF Carries
<1>4. Delivers(call, q)
  BY <1>1, <1>3, Delivered
<1> QED BY <1>4 DEF Sound, call

\* Empty parameters may be dropped.
LEMMA Kept ==
  ASSUME NEW p, IsParameters(p), NEW params, Texts(params), NEW class, NEW fn, NEW signed
  PROVE  /\ IsParameters(removeEmptyParams(p))
         /\ Conveys(class, fn, params, p, signed)
            => Conveys(class, fn, params, removeEmptyParams(p), signed)
         /\ \A a : Conveys(class, fn, params, Over(a, p), signed)
                  => Conveys(class, fn, params, Over(a, removeEmptyParams(p)), signed)
<1> DEFINE r == removeEmptyParams(p)
<1>1. DOMAIN r = {n \in DOMAIN p : p[n] # <<>>} /\ \A n \in DOMAIN r : r[n] = p[n]
  BY DEF removeEmptyParams
<1> HIDE DEF r
<1>2. IsParameters(r)
  BY <1>1 DEF IsParameters
<1>3. ASSUME NEW upper, NEW rewritten, NEW s, NEW t,
             Carries(params, s, upper, rewritten, signed),
             DOMAIN t \subseteq DOMAIN s, \A n \in DOMAIN t : t[n] = s[n],
             \A n \in DOMAIN s : s[n] # <<>> => n \in DOMAIN t
      PROVE  Carries(params, t, upper, rewritten, signed)
  <2>1. ASSUME NEW n \in DOMAIN params \ rewritten, params[n] # <<>>
        PROVE  n \in DOMAIN t /\ t[n] = IF n \in upper THEN toUpper(params[n]) ELSE params[n]
    <3>1. n \in DOMAIN s /\ s[n] = IF n \in upper THEN toUpper(params[n]) ELSE params[n]
      BY <1>3, <2>1 DEF Carries
    <3>2. s[n] # <<>>
      BY <2>1, <3>1, UpperIs DEF Texts
    <3> QED BY <1>3, <3>1, <3>2
  <2>2. ASSUME NEW n \in DOMAIN t, t[n] # <<>>
        PROVE  \/ n \in DOMAIN params /\ params[n] # <<>>
               \/ n = "limit" /\ t[n] = <<"5", "0", "0">>
               \/ n = "timestamp" /\ signed
    BY <1>3, <2>2 DEF Carries
  <2> QED BY <2>1, <2>2 DEF Carries
<1>4. Conveys(class, fn, params, p, signed) => Conveys(class, fn, params, r, signed)
  <2>1. /\ DOMAIN r \subseteq DOMAIN p /\ \A n \in DOMAIN r : r[n] = p[n]
        /\ \A n \in DOMAIN p : p[n] # <<>> => n \in DOMAIN r
    BY <1>1
  <2> QED BY <1>3, <2>1 DEF Conveys
<1>5. ASSUME NEW a PROVE Conveys(class, fn, params, Over(a, p), signed)
                         => Conveys(class, fn, params, Over(a, r), signed)
  <2> DEFINE s == Over(a, p)
             t == Over(a, r)
  <2>1. DOMAIN t \subseteq DOMAIN s /\ \A n \in DOMAIN t : t[n] = s[n]
    BY <1>1 DEF Over
  <2>2. \A n \in DOMAIN s : s[n] # <<>> => n \in DOMAIN t
    BY <1>1 DEF Over
  <2> HIDE DEF s, t
  <2>3. Conveys(class, fn, params, s, signed) => Conveys(class, fn, params, t, signed)
    BY <1>3, <2>1, <2>2 DEF Conveys
  <2> QED BY <2>3 DEF s, t
<1> QED BY <1>2, <1>4, <1>5 DEF r

\* The list with the default limit, and with the time of a signed request.
LEMMA Added ==
  ASSUME NEW p, IsParameters(p), NEW params, Texts(params), NEW class, NEW fn, NEW signed,
         Conveys(class, fn, params, p, signed)
  PROVE  /\ LET s == Over(p, [limit |-> <<"5", "0", "0">>])
            IN  IsParameters(s) /\ Conveys(class, fn, params, s, signed)
         /\ "timestamp" \notin DOMAIN params =>
              \A stamp \in Seq(Characters) :
                LET s == Over([timestamp |-> stamp], p)
                IN  IsParameters(s) /\ Conveys(class, fn, params, s, TRUE)
<1>1. {"limit", "timestamp"} \subseteq Names
  BY DEF Names, ToSet, NameOrder
<1>2. <<"5", "0", "0">> \in Seq(Characters)
  BY ClearLimit DEF Clear
<1> DEFINE limited == Over(p, [limit |-> <<"5", "0", "0">>])
<1>3. /\ DOMAIN limited = DOMAIN p \cup {"limit"}
      /\ \A n \in DOMAIN p : limited[n] = p[n]
      /\ \A n \in DOMAIN limited \ DOMAIN p : n = "limit" /\ limited[n] = <<"5", "0", "0">>
  BY DEF Over
<1> HIDE DEF limited
<1>4. IsParameters(limited)
  BY <1>1, <1>2, <1>3 DEF IsParameters
<1>5. Conveys(class, fn, params, limited, signed)
  <2>1. ASSUME NEW upper, NEW rewritten, Carries(params, p, upper, rewritten, signed)
        PROVE  Carries(params, limited, upper, rewritten, signed)
    BY <1>3, <2>1 DEF Carries
  <2> QED BY <2>1 DEF Conveys
<1>6. ASSUME NEW stamp \in Seq(Characters), "timestamp" \notin DOMAIN params,
             NEW s, s = Over([timestamp |-> stamp], p)
      PROVE  IsParameters(s) /\ Conveys(class, fn, params, s, TRUE)
  <2>1. /\ DOMAIN s = DOMAIN p \cup {"timestamp"} /\ s["timestamp"] = stamp
        /\ \A n \in DOMAIN s \ {"timestamp"} : n \in DOMAIN p /\ s[n] = p[n]
    BY <1>6 DEF Over
  <2>2. IsParameters(s)
    BY <1>1, <2>1 DEF IsParameters
  <2>3. ASSUME NEW upper, NEW rewritten, Carries(params, p, upper, rewritten, signed)
        PROVE  Carries(params, s, upper, rewritten, TRUE)
    BY <1>6, <2>1, <2>3 DEF Carries
  <2> QED BY <2>2, <2>3 DEF Conveys
<1> QED BY <1>4, <1>5, <1>6 DEF limited

\* A public GET of one path.
LEMMA GetSound ==
  ASSUME NEW class, NEW fn, NEW params, NEW head, NEW p, NEW r,
         head # "?", IsParameters(p), Texts(params), Conveys(class, fn, params, p, FALSE),
         r = p \/ r = removeEmptyParams(p)
  PROVE  Sound(class, fn, params, Plain("GET", Url(<<head>>, buildQueryString(r))))
<1> DEFINE q == Plain("GET", Url(<<head>>, buildQueryString(r)))
<1>1. IsParameters(r) /\ Conveys(class, fn, params, r, FALSE)
  BY Kept
<1>2. /\ q.url = Url(<<head>>, buildQueryString(r)) /\ q.body = NoBody /\ q.signature = None
      /\ Known(fn, q.kind)
  BY DEF Plain, Known
<1> HIDE DEF q
<1>3. Reads(q, r)
  BY <1>1, <1>2, QueryReads
<1>4. Sound(class, fn, params, q)
  BY <1>1, <1>2, <1>3, SoundIf
<1> QED BY <1>4 DEF q

\* A signed GET of one path.
LEMMA SignedGetSound ==
  ASSUME NEW class, NEW fn, NEW params, NEW head, NEW p, NEW time \in Nat \ {0},
         head # "?", IsParameters(p), Texts(params), Conveys(class, fn, params, p, FALSE)
  PROVE  LET query == buildQueryString(removeEmptyParams(p))
         IN  Sound(class, fn, params,
                 [kind |-> "GET", url |-> Url(<<head>>, query), body |-> NoBody,
                  time |-> time, signature |-> futuresSign(time, query)])
<1> DEFINE r == removeEmptyParams(p)
           query == buildQueryString(r)
           q == [kind |-> "GET", url |-> Url(<<head>>, query), body |-> NoBody,
                 time |-> time, signature |-> futuresSign(time, query)]
<1>1. IsParameters(r) /\ Conveys(class, fn, params, r, FALSE)
  BY Kept
<1> HIDE DEF r
<1>2. /\ q.url = Url(<<head>>, buildQueryString(r)) /\ q.body = NoBody /\ q.kind = "GET"
      /\ q.time = time /\ q.signature = futuresSign(time, buildQueryString(r))
      /\ Known(fn, q.kind)
  BY DEF Known
<1> HIDE DEF q
<1>3. Reads(q, r) /\ Query(q.url) = buildQueryString(r)
  BY <1>1, <1>2, QueryReads
<1>4. q.signature = Digest(q)
  BY <1>2, <1>3 DEF Digest
<1>5. Sound(class, fn, params, q)
  BY <1>1, <1>2, <1>3, <1>4, SoundIf
<1> QED BY <1>5 DEF q, r

\* The same for a path that ends with a text, which FromPath reads as a
\* parameter.
LEMMA PathGetSound ==
  ASSUME NEW class, NEW fn, NEW params, NEW head, NEW text \in Seq(Characters), NEW p, NEW r,
         head \notin {"?", "/api/v1/contract/depth_commits/"}, IsParameters(p), Texts(params),
         Conveys(class, fn, params, Over(Named(PathName(head), text), p), FALSE),
         r = p \/ r = removeEmptyParams(p)
  PROVE  /\ Sound(class, fn, params, Plain("GET", Url(<<head>> \o text, buildQueryString(r))))
         /\ \A time \in Nat \ {0} :
              Sound(class, fn, params,
                 [kind |-> "GET", url |-> Url(<<head>> \o text, buildQueryString(r)),
                  body |-> NoBody, time |-> time,
                  signature |-> futuresSign(time, buildQueryString(r))])
<1> DEFINE path == <<head>> \o text
           query == buildQueryString(r)
           sent == Over(Named(PathName(head), text), r)
<1>1. IsParameters(r) /\ Conveys(class, fn, params, sent, FALSE)
  BY Kept
<1>2. ASSUME NEW q, q.url = Url(path, query), q.body = NoBody
      PROVE  Reads(q, sent) /\ Query(q.url) = query
  BY <1>1, <1>2, SymbolReads
<1> DEFINE q1 == Plain("GET", Url(path, query))
<1>3. /\ q1.url = Url(path, query) /\ q1.body = NoBody /\ q1.signature = None
      /\ Known(fn, q1.kind)
  BY DEF Plain, Known
<1> HIDE DEF path, sent, q1
<1>4. Reads(q1, sent)
  BY <1>2, <1>3
<1>5. Sound(class, fn, params, q1)
  BY <1>1, <1>3, <1>4, SoundIf
<1>6. ASSUME NEW time \in Nat \ {0}, NEW q,
             q = [kind |-> "GET", url |-> Url(path, query), body |-> NoBody, time |-> time,
                  signature |-> futuresSign(time, query)]
      PROVE  Sound(class, fn, params, q)
  <2>1. /\ q.url = Url(path, query) /\ q.body = NoBody /\ q.kind = "GET"
        /\ q.time = time /\ q.signature = futuresSign(time, query) /\ Known(fn, q.kind)
    BY <1>6 DEF Known
  <2>2. Reads(q, sent) /\ Query(q.url) = query
    BY <1>2, <2>1
  <2>3. q.signature = Digest(q)
    BY <2>1, <2>2 DEF Digest
  <2> QED BY <1>1, <2>1, <2>2, <2>3, SoundIf
<1> QED BY <1>5, <1>6 DEF q1, path

\* The path of depthCommits().
LEMMA CommitsSound ==
  ASSUME NEW class, NEW fn, NEW symbol \in Seq(Characters), NEW limit \in Seq(Characters),
         Conveys(class, fn, [symbol |-> symbol, limit |-> limit],
                 [symbol |-> symbol, limit |-> limit], FALSE)
  PROVE  Sound(class, fn, [symbol |-> symbol, limit |-> limit],
               Plain("GET", Url(<<"/api/v1/contract/depth_commits/">> \o symbol \o <<"/">> \o limit,
                                buildQueryString(removeEmptyParams(<<>>)))))
<1> DEFINE params == [symbol |-> symbol, limit |-> limit]
           head == "/api/v1/contract/depth_commits/"
           rest == symbol \o <<"/">> \o limit
           path == <<head>> \o symbol \o <<"/">> \o limit
           none == removeEmptyParams(<<>>)
           q == Plain("GET", Url(path, buildQueryString(none)))
<1>1. Texts(params)
  BY DEF Texts
<1>2. IsBoth(rest, symbol, limit)
  <2>1. /\ rest \in Seq(Characters \cup {"/"}) /\ Len(rest) = Len(symbol) + 1 + Len(limit)
        /\ \A i \in 1..Len(symbol) : rest[i] = symbol[i]
        /\ rest[Len(symbol) + 1] = "/"
        /\ \A i \in 1..Len(limit) : rest[Len(symbol) + 1 + i] = limit[i]
    OBVIOUS
  <2> QED BY <2>1 DEF IsBoth
<1>3. IsPath(path, head, rest)
  <2>1. path \in Seq(Characters \cup {"/", head}) /\ Len(path) = Len(rest) + 1 /\ path[1] = head
    OBVIOUS
  <2>2. \A i \in 1..Len(rest) : path[i + 1] = rest[i]
    OBVIOUS
  <2> QED BY <1>2, <2>1, <2>2 DEF IsPath, IsBoth
<1>4. DOMAIN none = {}
  BY DEF removeEmptyParams
<1>5. /\ q.url = Url(path, buildQueryString(none)) /\ q.body = NoBody /\ q.signature = None
      /\ Known(fn, q.kind)
  BY DEF Plain, Known
<1> HIDE DEF path, q, none, rest
<1>6. Reads(q, params)
  BY <1>2, <1>3, <1>4, <1>5, CommitsReads
<1>7. Sound(class, fn, params, q)
  <2>1. Conveys(class, fn, params, params, FALSE)
    OBVIOUS
  <2> HIDE DEF params
  <2> QED BY <1>1, <1>5, <1>6, <2>1, SoundIf
<1> QED BY <1>7 DEF q, path, none

\* A signed POST.
LEMMA PostSound ==
  ASSUME NEW class, NEW fn, NEW params, NEW head, NEW members, NEW time \in Nat \ {0},
         head # "?", Texts(params), Conveys(class, fn, params, members, FALSE)
  PROVE  LET body == jsonToString(members)
         IN  Sound(class, fn, params,
                   [kind |-> "POST", url |-> <<head>>, body |-> body, time |-> time,
                    signature |-> futuresSign(time, body)])
<1> DEFINE body == jsonToString(members)
           q == [kind |-> "POST", url |-> <<head>>, body |-> body, time |-> time,
                 signature |-> futuresSign(time, body)]
<1>1. /\ q.url = <<head>> /\ q.body = body /\ q.kind = "POST" /\ q.time = time
      /\ q.signature = futuresSign(time, body) /\ Known(fn, q.kind)
  BY DEF Known
<1> HIDE DEF q
<1>2. Reads(q, members)
  BY <1>1, BodyReads
<1>3. q.signature = Digest(q)
  BY <1>1 DEF Digest
<1>4. Sound(class, fn, params, q)
  BY <1>1, <1>2, <1>3, SoundIf
<1> QED BY <1>4 DEF q

\* A signed request of SpotTrade.
LEMMA SpotSound ==
  ASSUME NEW fn, NEW params, NEW method, Known(fn, method), NEW head, NEW p,
         NEW stamp \in Seq(Characters),
         head # "?", IsParameters(p), Texts(params), "timestamp" \notin DOMAIN params,
         Conveys("spot", fn, params, p, FALSE)
  PROVE  LET query == buildQueryString(Over([timestamp |-> stamp], removeEmptyParams(p)))
         IN  Sound("spot", fn, params,
                 [kind |-> method, url |-> Url(<<head>>, query), body |-> NoBody, time |-> 0,
                  signature |-> spotSign(query)])
<1> DEFINE r == removeEmptyParams(p)
           sent == Over([timestamp |-> stamp], r)
           query == buildQueryString(sent)
           q == [kind |-> method, url |-> Url(<<head>>, query), body |-> NoBody, time |-> 0,
                 signature |-> spotSign(query)]
<1>1. IsParameters(r) /\ Conveys("spot", fn, params, r, FALSE)
  BY Kept
<1> HIDE DEF r
<1>2. IsParameters(sent) /\ Conveys("spot", fn, params, sent, TRUE)
  BY <1>1, Added
<1> HIDE DEF sent
<1>3. /\ q.url = Url(<<head>>, buildQueryString(sent)) /\ q.body = NoBody /\ q.time = 0
      /\ q.signature = spotSign(buildQueryString(sent)) /\ Known(fn, q.kind)
  OBVIOUS
<1> HIDE DEF q
<1>4. Reads(q, sent) /\ Query(q.url) = buildQueryString(sent)
  BY <1>2, <1>3, QueryReads
<1>5. q.signature = Digest(q)
  BY <1>3, <1>4 DEF Digest
<1>6. q.signature # None
  <2>1. "key" \in DOMAIN spotSign(buildQueryString(sent))
    BY DEF spotSign, hmacSha256Hex
  <2>2. "key" \notin DOMAIN None
    BY DEF None
  <2> QED BY <1>3, <2>1, <2>2
<1>7. Sound("spot", fn, params, q)
  BY <1>2, <1>3, <1>4, <1>5, <1>6, SoundIf
<1> QED BY <1>7 DEF q, sent, r

=============================================================================

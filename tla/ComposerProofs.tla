--------------------------- MODULE ComposerProofs ---------------------------
(***************************************************************************)
(* Proofs about drafting a goal.  First, for any text and any number of    *)
(* decimals, that an amount is read, stored and shown exactly: reading and *)
(* writing a number are recursive functions of its text, so that needs     *)
(* induction, by the least member of a set of naturals, which is a fact    *)
(* about well-founded relations.  Then, for any texts, saves, clocks and   *)
(* zones, that the goals saved from the form can run, and are what the     *)
(* form previewed, up to the difference of the zones.                      *)
(***************************************************************************)
EXTENDS Composer, AmountField, SequenceTheorems, WellFoundedInduction, TLAPS

-----------------------------------------------------------------------------
(* Induction and recursion.                                                *)

LEMMA LeastNatural ==
    ASSUME NEW T \in SUBSET Nat, T # {}
    PROVE  \E x \in T : \A y \in T : x <= y
<1> DEFINE R == {ss \in Nat \X Nat : ss[1] < ss[2]}
<1>1. IsWellFoundedOn(R, Nat)
    BY NatLessThanWellFounded DEF OpToRel
<1> HIDE DEF R
<1>2. PICK x \in T : \A y \in T : ~(<<y, x>> \in R)
    BY <1>1, WFMin
<1>3. \A y \in T : ~(y < x)
    BY <1>2 DEF R
<1> QED
    BY <1>3

\* A set that has 0, and the successor of each of its numbers, has every number.
LEMMA SetInduction ==
    ASSUME NEW P, 0 \in P, \A n \in Nat : n \in P => n + 1 \in P
    PROVE  Nat \subseteq P
<1> SUFFICES ASSUME NEW T, T = Nat \ P, T # {} PROVE FALSE
    OBVIOUS
<1>1. PICK x \in T : \A y \in T : x <= y
    BY LeastNatural
<1>2. x \in Nat /\ x # 0
    OBVIOUS
<1>3. x - 1 \in Nat /\ x - 1 \notin T
    BY <1>1, <1>2
<1> QED
    BY <1>2, <1>3

\* A set that has each number whose predecessors it all has, has every number.
LEMMA StrongInduction ==
    ASSUME NEW P, \A n \in Nat : (\A m \in 0..n - 1 : m \in P) => n \in P
    PROVE  Nat \subseteq P
<1> SUFFICES ASSUME NEW T, T = Nat \ P, T # {} PROVE FALSE
    OBVIOUS
<1>1. PICK x \in T : \A y \in T : x <= y
    BY LeastNatural
<1>2. \A m \in 0..x - 1 : m \in P
    BY <1>1
<1> QED
    BY <1>2

\* A recursion over the numbers, each but the roots taken from a smaller one.
WellFounded(S, root, init, step, prev) ==
    /\ init \in [Nat -> S] /\ step \in [Nat \X S -> S] /\ prev \in [Nat -> Nat]
    /\ 0 \in root /\ \A n \in Nat : n \notin root => prev[n] < n

Follows(f, k, S, root, init, step, prev) ==
    /\ f \in [0..k -> S]
    /\ \A n \in 0..k : f[n] = IF n \in root THEN init[n] ELSE step[<<n, f[prev[n]]>>]

LEMMA RecursionExists ==
    ASSUME NEW k \in Nat, NEW S, NEW root, NEW init, NEW step, NEW prev,
           WellFounded(S, root, init, step, prev)
    PROVE  \E f : Follows(f, k, S, root, init, step, prev)
<1> USE DEF WellFounded, Follows
<1> DEFINE F(g, n) == IF n \in root THEN init[n] ELSE step[<<n, g[prev[n]]>>]
           P == {i \in Nat : \E g \in [0..i -> S] : \A n \in 0..i : g[n] = F(g, n)}
<1>1. 0 \in P
  <2>1. PICK g : g = [n \in 0..0 |-> init[0]]
      OBVIOUS
  <2>2. g \in [0..0 -> S] /\ \A n \in 0..0 : n = 0 /\ g[n] = init[n]
      BY <2>1
  <2> QED
      BY <2>2
<1>2. ASSUME NEW i \in Nat, i \in P PROVE i + 1 \in P
  <2>1. PICK g \in [0..i -> S] : \A n \in 0..i : g[n] = F(g, n)
      BY <1>2
  <2> HIDE DEF F
  <2>2. PICK h : h = [n \in 0..i + 1 |-> F(g, n)]
      OBVIOUS
  <2>3. \A n \in 0..i : h[n] = g[n]
      BY <2>1, <2>2
  <2>4. ASSUME NEW n \in 0..i + 1 PROVE F(g, n) \in S /\ F(h, n) = F(g, n)
    <3>1. CASE n \in root
        BY <3>1 DEF F
    <3>2. CASE n \notin root
      <4>1. n \in Nat /\ prev[n] \in 0..i
          BY <3>2
      <4>2. h[prev[n]] = g[prev[n]] /\ g[prev[n]] \in S
          BY <2>3, <4>1
      <4>3. <<n, g[prev[n]]>> \in Nat \X S
          BY <4>1, <4>2
      <4> QED
          BY <3>2, <4>2, <4>3 DEF F
    <3> QED
        BY <3>1, <3>2
  <2>5. h \in [0..i + 1 -> S] /\ \A n \in 0..i + 1 : h[n] = F(h, n)
      BY <2>2, <2>4
  <2>6. i + 1 \in Nat
      OBVIOUS
  <2> QED
      BY <2>5, <2>6
<1> HIDE DEF P
<1>3. k \in P
    BY <1>1, <1>2, SetInduction
<1> QED
    BY <1>3 DEF P

-----------------------------------------------------------------------------
(* Numbers as texts of digits.                                             *)

DigitValue(c) == CHOOSE d \in 0..9 : Digits[d + 1] = c

LEMMA DigitsAreDistinct ==
    /\ \A c \in Digit : DigitValue(c) \in 0..9 /\ c = Digits[DigitValue(c) + 1]
    /\ \A d \in 0..9 : Digits[d + 1] \in Digit /\ DigitValue(Digits[d + 1]) = d
    /\ "0" \in Digit /\ DigitValue("0") = 0 /\ "." \notin Digit /\ " " \notin Digit
    /\ \A c \in Digit : DigitValue(c) = 0 => c = "0"
<1>1. \A d, e \in 0..9 : Digits[d + 1] = Digits[e + 1] => d = e
    BY DEF Digits
<1>2. \A d \in 0..9 : Digits[d + 1] \in Digit
  <2>1. \A d \in 0..9 : d + 1 \in 1..10
      OBVIOUS
  <2> QED
      BY <2>1 DEF Digit
<1>3. \A c \in Digit : \E d \in 0..9 : Digits[d + 1] = c
  <2> SUFFICES ASSUME NEW c \in Digit PROVE \E d \in 0..9 : Digits[d + 1] = c
      OBVIOUS
  <2>1. PICK n \in 1..10 : c = Digits[n]
      BY DEF Digit
  <2>2. n - 1 \in 0..9 /\ (n - 1) + 1 = n
      OBVIOUS
  <2> QED
      BY <2>1, <2>2
<1>4. \A c \in Digit : DigitValue(c) \in 0..9 /\ c = Digits[DigitValue(c) + 1]
    BY <1>3 DEF DigitValue
<1>5. \A d \in 0..9 : DigitValue(Digits[d + 1]) = d
    BY <1>1, <1>2, <1>4
<1>6. Digits[0 + 1] = "0" /\ 0 \in 0..9
    BY DEF Digits
<1>7. "." \notin Digit /\ " " \notin Digit
  <2>1. \A n \in 1..10 : Digits[n] # "." /\ Digits[n] # " "
    <3>1. /\ Digits[1] = "0" /\ Digits[2] = "1" /\ Digits[3] = "2" /\ Digits[4] = "3"
          /\ Digits[5] = "4" /\ Digits[6] = "5" /\ Digits[7] = "6" /\ Digits[8] = "7"
          /\ Digits[9] = "8" /\ Digits[10] = "9"
        BY DEF Digits
    <3>2. \A n \in 1..10 : n \in 1..5 \/ n \in 6..10
        OBVIOUS
    <3>3. \A n \in 1..5 : n = 1 \/ n = 2 \/ n = 3 \/ n = 4 \/ n = 5
        OBVIOUS
    <3>4. \A n \in 6..10 : n = 6 \/ n = 7 \/ n = 8 \/ n = 9 \/ n = 10
        OBVIOUS
    <3> QED
        BY <3>1, <3>2, <3>3, <3>4
  <2> QED
      BY <2>1 DEF Digit
<1>8. "0" \in Digit /\ DigitValue("0") = 0
  <2>1. Digits[0 + 1] \in Digit /\ DigitValue(Digits[0 + 1]) = 0
      BY <1>2, <1>5
  <2> QED
      BY <1>6, <2>1
<1>9. \A c \in Digit : DigitValue(c) = 0 => c = "0"
    BY <1>4, <1>6
<1> QED
    BY <1>2, <1>4, <1>5, <1>7, <1>8, <1>9

\* f is the value of each prefix of a text of digits.
Horner(f, s) ==
    /\ f \in [0..Len(s) -> Nat] /\ f[0] = 0
    /\ \A n \in 1..Len(s) : f[n] = 10 * f[n - 1] + DigitValue(s[n])

LEMMA BigIntIsHorner ==
    ASSUME NEW s \in Seq(Digit) PROVE \E f : Horner(f, s) /\ BigIntOf(s) = f[Len(s)]
<1> DEFINE F(g, n) == IF n = 0 THEN 0 ELSE 10 * g[n - 1] + DigitValue(s[n])
<1>1. Len(s) \in Nat /\ \A n \in 1..Len(s) : s[n] \in Digit
    OBVIOUS
<1>2. \A n \in 1..Len(s) : DigitValue(s[n]) \in Nat
  <2>1. ASSUME NEW n \in 1..Len(s) PROVE DigitValue(s[n]) \in 0..9
      BY <1>1, DigitsAreDistinct
  <2> QED
      BY <2>1
<1>3. PICK g \in [0..Len(s) -> Nat] : \A n \in 0..Len(s) : g[n] = F(g, n)
  <2>1. PICK init : init = [n \in Nat |-> 0]
      OBVIOUS
  <2>2. PICK prev : prev = [n \in Nat |-> IF n = 0 THEN 0 ELSE n - 1]
      OBVIOUS
  <2>3. PICK step : step = [p \in Nat \X Nat |->
                  10 * p[2] + (IF p[1] \in 1..Len(s) THEN DigitValue(s[p[1]]) ELSE 0)]
      OBVIOUS
  <2>4. init \in [Nat -> Nat] /\ prev \in [Nat -> Nat]
      BY <2>1, <2>2
  <2>5. \A a, b \in Nat : 10 * a + b \in Nat
      OBVIOUS
  <2>6. step \in [Nat \X Nat -> Nat]
    <3>1. ASSUME NEW p \in Nat \X Nat
          PROVE  10 * p[2] + (IF p[1] \in 1..Len(s) THEN DigitValue(s[p[1]]) ELSE 0) \in Nat
      <4>1. PICK d : d = IF p[1] \in 1..Len(s) THEN DigitValue(s[p[1]]) ELSE 0
          OBVIOUS
      <4>2. d \in Nat /\ p[2] \in Nat
          BY <1>2, <4>1
      <4> QED
          BY <2>5, <4>1, <4>2
    <3> QED
        BY <2>3, <3>1
  <2>7. /\ \A n \in Nat : n \notin {0} => prev[n] < n
        /\ 0 \in {0} /\ Len(s) \in Nat
      BY <1>1, <2>2
  <2>8. PICK g \in [0..Len(s) -> Nat] : \A n \in 0..Len(s) :
            g[n] = IF n \in {0} THEN init[n] ELSE step[<<n, g[prev[n]]>>]
    <3> HIDE DEF F
    <3>1. WellFounded(Nat, {0}, init, step, prev)
        BY <2>4, <2>6, <2>7 DEF WellFounded
    <3>2. PICK g : Follows(g, Len(s), Nat, {0}, init, step, prev)
        BY <2>7, <3>1, RecursionExists
    <3> QED
        BY <3>2 DEF Follows
  <2>9. ASSUME NEW n \in 0..Len(s) PROVE g[n] = F(g, n)
    <3>1. CASE n = 0
        BY <2>1, <2>8, <3>1
    <3>2. CASE n # 0
      <4>1. n \in 1..Len(s) /\ prev[n] = n - 1 /\ n - 1 \in 0..Len(s) /\ n \in Nat
          BY <1>1, <2>2, <3>2
      <4>2. g[n - 1] \in Nat
          BY <4>1
      <4>3. <<n, g[n - 1]>> \in Nat \X Nat
          BY <4>1, <4>2
      <4>4. step[<<n, g[n - 1]>>] = 10 * g[n - 1] + DigitValue(s[n])
          BY <2>3, <4>1, <4>3
      <4> QED
          BY <2>8, <3>2, <4>1, <4>4
    <3> QED
        BY <3>1, <3>2
  <2> QED
      BY <2>9
<1> HIDE DEF F
<1>4. g = [n \in 0..Len(s) |-> F(g, n)]
    BY <1>3
<1> DEFINE f == CHOOSE h : h = [n \in 0..Len(s) |-> F(h, n)]
<1>5. f = [n \in 0..Len(s) |-> F(f, n)]
    BY <1>4
<1>6. BigIntOf(s) = f[Len(s)]
    BY DEF BigIntOf, f, F, DigitValue
<1> HIDE DEF f
<1>7. f[0] = 0 /\ \A n \in 1..Len(s) : f[n] = 10 * f[n - 1] + DigitValue(s[n])
    BY <1>1, <1>5 DEF F
<1> DEFINE P == {n \in Nat : n <= Len(s) => f[n] \in Nat}
<1>8. 0 \in P
    BY <1>7
<1>9. ASSUME NEW n \in Nat, n \in P PROVE n + 1 \in P
  <2> SUFFICES ASSUME n + 1 <= Len(s) PROVE f[n + 1] \in Nat
      OBVIOUS
  <2>1. f[n] \in Nat /\ n + 1 \in 1..Len(s) /\ (n + 1) - 1 = n
      BY <1>1, <1>9
  <2>2. f[n + 1] = 10 * f[n] + DigitValue(s[n + 1])
      BY <1>7, <2>1
  <2> QED
      BY <1>2, <2>1, <2>2
<1>10. ASSUME NEW n \in 0..Len(s) PROVE f[n] \in Nat
  <2> HIDE DEF P
  <2>1. n \in P
      BY <1>1, <1>8, <1>9, SetInduction
  <2> QED
      BY <1>1, <2>1 DEF P
<1>11. Horner(f, s)
    BY <1>5, <1>7, <1>10 DEF Horner
<1> QED
    BY <1>6, <1>11

\* One digit more is ten times the number and the digit.
LEMMA BigIntAppend ==
    ASSUME NEW s \in Seq(Digit), NEW c \in Digit
    PROVE  /\ BigIntOf(s) \in Nat /\ BigIntOf(<<>>) = 0
           /\ BigIntOf(Append(s, c)) = 10 * BigIntOf(s) + DigitValue(c)
<1> DEFINE t == Append(s, c)
<1>1. /\ t \in Seq(Digit) /\ Len(t) = Len(s) + 1 /\ Len(s) \in Nat
      /\ t[Len(t)] = c /\ \A n \in 1..Len(s) : t[n] = s[n]
    OBVIOUS
<1> HIDE DEF t
<1>2. PICK f : Horner(f, s) /\ BigIntOf(s) = f[Len(s)]
    BY BigIntIsHorner
<1>3. PICK g : Horner(g, t) /\ BigIntOf(t) = g[Len(t)]
    BY <1>1, BigIntIsHorner
<1>4. PICK e : Horner(e, <<>>) /\ BigIntOf(<<>>) = e[Len(<<>>)]
    BY EmptySeq, BigIntIsHorner
<1>5. BigIntOf(<<>>) = 0
    BY <1>4, EmptySeq DEF Horner
<1> DEFINE P == {n \in Nat : n <= Len(s) => g[n] = f[n]}
<1>6. 0 \in P
    BY <1>2, <1>3 DEF Horner
<1>7. ASSUME NEW n \in Nat, n \in P PROVE n + 1 \in P
  <2> SUFFICES ASSUME n + 1 <= Len(s) PROVE g[n + 1] = f[n + 1]
      OBVIOUS
  <2>1. /\ n + 1 \in 1..Len(s) /\ n + 1 \in 1..Len(t) /\ (n + 1) - 1 = n
        /\ g[n] = f[n]
      BY <1>1, <1>7
  <2> QED
      BY <1>1, <1>2, <1>3, <2>1 DEF Horner
<1> HIDE DEF P
<1>8. Len(s) \in P
    BY <1>1, <1>6, <1>7, SetInduction
<1>9. g[Len(s)] = f[Len(s)]
    BY <1>1, <1>8 DEF P
<1>10. Len(t) \in 1..Len(t) /\ Len(t) - 1 = Len(s)
    BY <1>1
<1>11. g[Len(t)] = 10 * g[Len(s)] + DigitValue(c)
    BY <1>1, <1>3, <1>10 DEF Horner
<1>12. f[Len(s)] \in Nat
    BY <1>1, <1>2 DEF Horner
<1> QED
    BY <1>2, <1>3, <1>5, <1>9, <1>11, <1>12 DEF t

\* A place in a text that some characters of it are at, the first and the last.
LEMMA FirstAndLast ==
    ASSUME NEW t \in Seq(Character), NEW S, S \subseteq DOMAIN t, S # {}
    PROVE  /\ Len(t) \in Nat /\ DOMAIN t = 1..Len(t)
           /\ (CHOOSE n \in S : \A m \in S : n <= m) \in 1..Len(t)
           /\ (CHOOSE n \in S : \A m \in S : m <= n) \in 1..Len(t)
<1>1. Len(t) \in Nat /\ DOMAIN t = 1..Len(t)
    BY LenProperties
<1>2. S \in SUBSET Nat /\ S \subseteq 1..Len(t)
    BY <1>1
<1>3. \E n \in S : \A m \in S : n <= m
    BY <1>2, LeastNatural
<1>4. \E n \in S : \A m \in S : m <= n
  <2>1. PICK back : back = {Len(t) - n : n \in S}
      OBVIOUS
  <2>2. \A x \in back : x \in Nat
      BY <1>1, <1>2, <2>1
  <2>3. back \in SUBSET Nat /\ back # {}
      BY <2>1, <2>2
  <2>4. PICK x \in back : \A y \in back : x <= y
      BY <2>3, LeastNatural
  <2>5. PICK n \in S : x = Len(t) - n
      BY <2>1, <2>4
  <2>6. ASSUME NEW m \in S PROVE m <= n
    <3>1. Len(t) - m \in back
        BY <2>1
    <3>2. Len(t) - n <= Len(t) - m
        BY <2>4, <2>5, <3>1
    <3> QED
        BY <1>1, <1>2, <3>2
  <2> QED
      BY <2>6
<1> QED
    BY <1>1, <1>2, <1>3, <1>4

LEMMA SubSeqType ==
    ASSUME NEW t \in Seq(Character), NEW m \in Nat \ {0}, NEW n \in 0..Len(t)
    PROVE  SubSeq(t, m, n) \in Seq(Character)
<1>1. \A i \in m..n : t[i] \in Character
  <2>1. Len(t) \in Nat /\ \A i \in 1..Len(t) : t[i] \in Character
      BY LenProperties, ElementOfSeq
  <2> QED
      BY <2>1
<1>2. m \in Int /\ n \in Int
    OBVIOUS
<1> QED
    BY <1>1, <1>2, SubSeqProperties

LEMMA TrimType == ASSUME NEW t \in Seq(Character) PROVE trim(t) \in Seq(Character)
<1>1. PICK inked : inked = {n \in DOMAIN t : t[n] # " "}
    OBVIOUS
<1>2. CASE inked = {}
  <2>1. trim(t) = <<>>
      BY <1>1, <1>2 DEF trim
  <2> QED
      BY <2>1, EmptySeq
<1>3. CASE inked # {}
  <2>1. PICK first : first = CHOOSE n \in inked : \A m \in inked : n <= m
      OBVIOUS
  <2>2. PICK last : last = CHOOSE n \in inked : \A m \in inked : m <= n
      OBVIOUS
  <2>3. inked \subseteq DOMAIN t
      BY <1>1
  <2>4. first \in 1..Len(t) /\ last \in 1..Len(t) /\ Len(t) \in Nat
      BY <1>3, <2>1, <2>2, <2>3, FirstAndLast
  <2>5. first \in Nat \ {0} /\ last \in 0..Len(t)
      BY <2>4
  <2>6. SubSeq(t, first, last) \in Seq(Character)
      BY <2>5, SubSeqType
  <2>7. trim(t) = SubSeq(t, first, last)
      BY <1>1, <1>3, <2>1, <2>2 DEF trim
  <2> QED
      BY <2>6, <2>7
<1> QED
    BY <1>2, <1>3

LEMMA DigitsAreDigits ==
    ASSUME NEW t \in Seq(Character), \A n \in DOMAIN t : t[n] \in Digit
    PROVE  t \in Seq(Digit)
<1>1. /\ Len(t) \in Nat /\ DOMAIN t = 1..Len(t)
      /\ t \in [1..Len(t) -> Character]
    BY LenProperties
<1>2. t \in [1..Len(t) -> Digit]
    BY <1>1
<1> QED
    BY <1>1, <1>2, SeqDef

-----------------------------------------------------------------------------
(* The places of a decimal.                                                *)

\* The number that a text's first digits write.
LEMMA BigIntPrefix ==
    ASSUME NEW s \in Seq(Digit)
    PROVE  /\ Len(s) \in Nat /\ SubSeq(s, 1, Len(s)) = s
           /\ BigIntOf(s) \in Nat /\ BigIntOf(SubSeq(s, 1, 0)) = 0
           /\ \A n \in 0..Len(s) : /\ SubSeq(s, 1, n) \in Seq(Digit)
                                   /\ BigIntOf(SubSeq(s, 1, n)) \in Nat
           /\ \A n \in Nat : n + 1 <= Len(s) =>
                /\ SubSeq(s, 1, n + 1) = Append(SubSeq(s, 1, n), s[n + 1])
                /\ BigIntOf(SubSeq(s, 1, n + 1))
                     = 10 * BigIntOf(SubSeq(s, 1, n)) + DigitValue(s[n + 1])
<1>1. Len(s) \in Nat /\ \A n \in 1..Len(s) : s[n] \in Digit
    OBVIOUS
<1>2. SubSeq(s, 1, Len(s)) = s
    BY SubSeqFull
<1>3. \A n \in 0..Len(s) : SubSeq(s, 1, n) \in Seq(Digit)
  <2>1. ASSUME NEW n \in 0..Len(s) PROVE SubSeq(s, 1, n) \in Seq(Digit)
    <3>1. 1 \in Int /\ n \in Int /\ \A i \in 1..n : s[i] \in Digit
        BY <1>1
    <3> QED
        BY <3>1, SubSeqProperties
  <2> QED
      BY <2>1
<1>4. "0" \in Digit
    BY DigitsAreDistinct
<1>5. \A n \in 0..Len(s) : BigIntOf(SubSeq(s, 1, n)) \in Nat
  <2>1. ASSUME NEW n \in 0..Len(s) PROVE BigIntOf(SubSeq(s, 1, n)) \in Nat
    <3>1. SubSeq(s, 1, n) \in Seq(Digit)
        BY <1>3
    <3> QED
        BY <1>4, <3>1, BigIntAppend
  <2> QED
      BY <2>1
<1>6. BigIntOf(s) \in Nat /\ BigIntOf(SubSeq(s, 1, 0)) = 0
  <2>1. SubSeq(s, 1, 0) = <<>>
      BY SubSeqEmpty
  <2> QED
      BY <1>4, <2>1, BigIntAppend
<1>7. ASSUME NEW n \in Nat, n + 1 <= Len(s)
      PROVE  SubSeq(s, 1, n + 1) = Append(SubSeq(s, 1, n), s[n + 1])
  <2>1. /\ 1 \in 1..Len(s) /\ n + 1 \in 1..Len(s) /\ (n + 1) - 1 = n /\ n \in 0..Len(s)
        /\ s[n + 1] \in Digit
      BY <1>1, <1>7
  <2>2. SubSeq(s, 1, n + 1) = SubSeq(s, 1, n) \o <<s[n + 1]>>
      BY <2>1, SubSeqRecursiveSecond
  <2>3. SubSeq(s, 1, n) \in Seq(Digit)
      BY <1>3, <2>1
  <2> QED
      BY <2>1, <2>2, <2>3, AppendIsConcat
<1>8. ASSUME NEW n \in Nat, n + 1 <= Len(s)
      PROVE  BigIntOf(SubSeq(s, 1, n + 1)) = 10 * BigIntOf(SubSeq(s, 1, n)) + DigitValue(s[n + 1])
  <2>1. n + 1 \in 1..Len(s) /\ n \in 0..Len(s)
      BY <1>1, <1>8
  <2>2. s[n + 1] \in Digit /\ SubSeq(s, 1, n) \in Seq(Digit)
      BY <1>1, <1>3, <2>1
  <2> QED
      BY <1>7, <1>8, <2>2, BigIntAppend
<1> QED
    BY <1>1, <1>2, <1>3, <1>5, <1>6, <1>7, <1>8

\* f is the value of each power of ten up to the k-th.
Powers(f, k) == /\ f \in [0..k -> Nat] /\ f[0] = 1
                /\ \A n \in 1..k : f[n] = 10 * f[n - 1]

LEMMA PowerIsPowers ==
    ASSUME NEW k \in Nat PROVE \E f : Powers(f, k) /\ PowerOfTen(k) = f[k]
<1> DEFINE F(g, n) == IF n = 0 THEN 1 ELSE 10 * g[n - 1]
<1>1. PICK g \in [0..k -> Nat] : \A n \in 0..k : g[n] = F(g, n)
  <2>1. PICK init : init = [n \in Nat |-> 1]
      OBVIOUS
  <2>2. PICK prev : prev = [n \in Nat |-> IF n = 0 THEN 0 ELSE n - 1]
      OBVIOUS
  <2>3. PICK step : step = [p \in Nat \X Nat |-> 10 * p[2]]
      OBVIOUS
  <2>4. WellFounded(Nat, {0}, init, step, prev)
      BY <2>1, <2>2, <2>3 DEF WellFounded
  <2> HIDE DEF F
  <2>5. PICK g : Follows(g, k, Nat, {0}, init, step, prev)
      BY <2>4, RecursionExists
  <2>6. ASSUME NEW n \in 0..k PROVE g[n] = F(g, n)
    <3>1. g[n] = IF n \in {0} THEN init[n] ELSE step[<<n, g[prev[n]]>>]
        BY <2>5 DEF Follows
    <3>2. CASE n = 0
        BY <2>1, <3>1, <3>2 DEF F
    <3>3. CASE n # 0
      <4>1. prev[n] = n - 1 /\ n - 1 \in 0..k /\ n \in Nat
          BY <2>2, <3>3
      <4>2. <<n, g[n - 1]>> \in Nat \X Nat
          BY <2>5, <4>1 DEF Follows
      <4> QED
          BY <2>3, <3>1, <3>3, <4>1, <4>2 DEF F
    <3> QED
        BY <3>2, <3>3
  <2> QED
      BY <2>5, <2>6 DEF Follows
<1> HIDE DEF F
<1>2. g = [n \in 0..k |-> F(g, n)]
    BY <1>1
<1> DEFINE f == CHOOSE h : h = [n \in 0..k |-> F(h, n)]
<1>3. f = [n \in 0..k |-> F(f, n)]
    BY <1>2
<1>4. PowerOfTen(k) = f[k]
    BY DEF PowerOfTen, f, F
<1> HIDE DEF f
<1>5. f[0] = 1 /\ \A n \in 1..k : f[n] = 10 * f[n - 1]
    BY <1>3 DEF F
<1> DEFINE P == {n \in Nat : n <= k => f[n] \in Nat}
<1>6. 0 \in P
    BY <1>5
<1>7. ASSUME NEW n \in Nat, n \in P PROVE n + 1 \in P
  <2> SUFFICES ASSUME n + 1 <= k PROVE f[n + 1] \in Nat
      OBVIOUS
  <2>1. f[n] \in Nat /\ n + 1 \in 1..k /\ (n + 1) - 1 = n
      BY <1>7
  <2> QED
      BY <1>5, <2>1
<1> HIDE DEF P
<1>8. \A n \in Nat : n \in P
    BY <1>6, <1>7, SetInduction
<1>9. f \in [0..k -> Nat]
    BY <1>3, <1>8 DEF P
<1> QED
    BY <1>4, <1>5, <1>9 DEF Powers

LEMMA TenTimes ==
    /\ PowerOfTen(0) = 1
    /\ \A k \in Nat : PowerOfTen(k) \in Nat /\ PowerOfTen(k + 1) = 10 * PowerOfTen(k)
<1>1. PowerOfTen(0) = 1
  <2>1. PICK f : Powers(f, 0) /\ PowerOfTen(0) = f[0]
      BY PowerIsPowers
  <2> QED
      BY <2>1 DEF Powers
<1>2. ASSUME NEW k \in Nat
      PROVE  PowerOfTen(k) \in Nat /\ PowerOfTen(k + 1) = 10 * PowerOfTen(k)
  <2>1. PICK f : Powers(f, k) /\ PowerOfTen(k) = f[k]
      BY PowerIsPowers
  <2>2. PICK g : Powers(g, k + 1) /\ PowerOfTen(k + 1) = g[k + 1]
      BY PowerIsPowers
  <2> DEFINE P == {n \in Nat : n <= k => g[n] = f[n]}
  <2>3. 0 \in P
      BY <2>1, <2>2 DEF Powers
  <2>4. ASSUME NEW n \in Nat, n \in P PROVE n + 1 \in P
    <3> SUFFICES ASSUME n + 1 <= k PROVE g[n + 1] = f[n + 1]
        OBVIOUS
    <3>1. n + 1 \in 1..k /\ n + 1 \in 1..k + 1 /\ (n + 1) - 1 = n /\ g[n] = f[n]
        BY <2>4
    <3> QED
        BY <2>1, <2>2, <3>1 DEF Powers
  <2> HIDE DEF P
  <2>5. k \in P
      BY <2>3, <2>4, SetInduction
  <2>6. g[k] = f[k] /\ f[k] \in Nat
      BY <2>1, <2>5 DEF P, Powers
  <2>7. k + 1 \in 1..k + 1 /\ (k + 1) - 1 = k
      OBVIOUS
  <2> QED
      BY <2>1, <2>2, <2>6, <2>7 DEF Powers
<1> QED
    BY <1>1, <1>2

LEMMA PlacesAddUp ==
    ASSUME NEW t, Len(t) \in Nat, \A n \in 1..Len(t) : Place(t, n) \in Nat
    PROVE  \E f : /\ f \in [0..Len(t) -> Nat] /\ f[0] = 0 /\ Places(t) = f[Len(t)]
                  /\ \A n \in 1..Len(t) : f[n] = f[n - 1] + Place(t, n)
<1> DEFINE F(g, n) == IF n = 0 THEN 0 ELSE g[n - 1] + Place(t, n)
<1>1. PICK g \in [0..Len(t) -> Nat] : \A n \in 0..Len(t) : g[n] = F(g, n)
  <2>1. PICK init : init = [n \in Nat |-> 0]
      OBVIOUS
  <2>2. PICK prev : prev = [n \in Nat |-> IF n = 0 THEN 0 ELSE n - 1]
      OBVIOUS
  <2>3. PICK place \in [Nat -> Nat] : \A n \in 1..Len(t) : place[n] = Place(t, n)
    <3>1. PICK place : place = [n \in Nat |-> IF n \in 1..Len(t) THEN Place(t, n) ELSE 0]
        OBVIOUS
    <3> QED
        BY <3>1
  <2>4. PICK step : step = [p \in Nat \X Nat |-> p[2] + place[p[1]]]
      OBVIOUS
  <2>5. WellFounded(Nat, {0}, init, step, prev)
    <3>1. ASSUME NEW p \in Nat \X Nat PROVE p[2] + place[p[1]] \in Nat
      <4>1. p[2] \in Nat /\ place[p[1]] \in Nat
          OBVIOUS
      <4>2. \A a, b \in Nat : a + b \in Nat
          OBVIOUS
      <4> QED
          BY <4>1, <4>2, Zenon
    <3> QED
        BY <2>1, <2>2, <2>4, <3>1 DEF WellFounded
  <2> HIDE DEF F
  <2>6. PICK g : Follows(g, Len(t), Nat, {0}, init, step, prev)
      BY <2>5, RecursionExists
  <2>7. ASSUME NEW n \in 0..Len(t) PROVE g[n] = F(g, n)
    <3>1. g[n] = IF n \in {0} THEN init[n] ELSE step[<<n, g[prev[n]]>>]
        BY <2>6 DEF Follows
    <3>2. CASE n = 0
        BY <2>1, <3>1, <3>2 DEF F
    <3>3. CASE n # 0
      <4>1. prev[n] = n - 1 /\ n - 1 \in 0..Len(t) /\ n \in Nat /\ n \in 1..Len(t)
          BY <2>2, <3>3
      <4>2. <<n, g[n - 1]>> \in Nat \X Nat
          BY <2>6, <4>1 DEF Follows
      <4>3. step[<<n, g[n - 1]>>] = g[n - 1] + Place(t, n)
          BY <2>3, <2>4, <4>1, <4>2
      <4> QED
          BY <3>1, <3>3, <4>1, <4>3 DEF F
    <3> QED
        BY <3>2, <3>3
  <2> QED
      BY <2>6, <2>7 DEF Follows
<1> HIDE DEF F
<1>2. g = [n \in 0..Len(t) |-> F(g, n)]
    BY <1>1
<1> DEFINE f == CHOOSE h : h = [n \in 0..Len(t) |-> F(h, n)]
<1>3. f = [n \in 0..Len(t) |-> F(f, n)]
    BY <1>2
<1>4. Places(t) = f[Len(t)]
    BY DEF Places, f, F
<1> HIDE DEF f
<1>5. f[0] = 0 /\ \A n \in 1..Len(t) : f[n] = f[n - 1] + Place(t, n)
    BY <1>3 DEF F
<1> DEFINE P == {n \in Nat : n <= Len(t) => f[n] \in Nat}
<1>6. 0 \in P
    BY <1>5
<1>7. ASSUME NEW n \in Nat, n \in P PROVE n + 1 \in P
  <2> SUFFICES ASSUME n + 1 <= Len(t) PROVE f[n + 1] \in Nat
      OBVIOUS
  <2>1. f[n] \in Nat /\ n + 1 \in 1..Len(t) /\ (n + 1) - 1 = n
      BY <1>7
  <2> QED
      BY <1>5, <2>1
<1> HIDE DEF P
<1>8. \A n \in Nat : n \in P
    BY <1>6, <1>7, SetInduction
<1>9. f \in [0..Len(t) -> Nat]
    BY <1>3, <1>8 DEF P
<1> QED
    BY <1>4, <1>5, <1>9

\* Zeros put behind a number multiply it, and before it they count for nothing.
LEMMA ZerosAreDigits ==
    ASSUME NEW k \in Nat
    PROVE  /\ Zeros(k) \in Seq(Digit) /\ Len(Zeros(k)) = k
           /\ \A n \in 1..k : Zeros(k)[n] = "0"
           /\ Zeros(0) = <<>> /\ Zeros(k + 1) = Append(Zeros(k), "0")
<1>1. \A m \in Nat : Zeros(m) \in Seq(Digit) /\ Len(Zeros(m)) = m
  <2>1. ASSUME NEW m \in Nat PROVE Zeros(m) \in Seq(Digit) /\ Len(Zeros(m)) = m
    <3>1. "0" \in Digit
        BY DigitsAreDistinct
    <3>2. Zeros(m) \in [1..m -> Digit]
        BY <3>1 DEF Zeros
    <3>3. Zeros(m) \in Seq(Digit)
        BY <3>2, SeqDef
    <3>4. Len(Zeros(m)) = m
        BY DEF Zeros
    <3> QED
        BY <3>3, <3>4
  <2> QED
      BY <2>1
<1>2. \A m \in Nat : \A n \in 1..m : Zeros(m)[n] = "0"
    BY DEF Zeros
<1>3. Zeros(0) = <<>>
    BY <1>1, EmptySeq
<1>4. Zeros(k + 1) = Append(Zeros(k), "0")
  <2>0. k + 1 \in Nat
      OBVIOUS
  <2>1. "0" \in Digit /\ Zeros(k) \in Seq(Digit) /\ Zeros(k + 1) \in Seq(Digit) /\ k + 1 \in Nat
      BY <1>1, <2>0, DigitsAreDistinct
  <2>2. /\ Append(Zeros(k), "0") \in Seq(Digit) /\ Len(Append(Zeros(k), "0")) = k + 1
        /\ \A n \in 1..k + 1 : Append(Zeros(k), "0")[n] = IF n = k + 1 THEN "0" ELSE Zeros(k)[n]
      BY <1>1, <2>1, AppendProperties
  <2>3. \A n \in 1..k + 1 : Append(Zeros(k), "0")[n] = Zeros(k + 1)[n]
      BY <1>2, <2>1, <2>2
  <2>4. Len(Zeros(k + 1)) = k + 1
      BY <1>1, <2>1
  <2> HIDE DEF Zeros
  <2> QED
      BY <2>1, <2>2, <2>3, <2>4, SeqEqual
<1> QED
    BY <1>1, <1>2, <1>3, <1>4

LEMMA Distributes ==
    ASSUME NEW a \in Nat, NEW b \in Nat, NEW d \in Nat
    PROVE  /\ (10 * a + d) * b = a * (10 * b) + d * b
           /\ 10 * (a * b) = a * (10 * b)
           /\ a * 1 = a /\ 0 * a = 0
           /\ a * b \in Nat
    OBVIOUS

LEMMA ZerosBehind ==
    ASSUME NEW s \in Seq(Digit), NEW k \in Nat
    PROVE  /\ s \o Zeros(k) \in Seq(Digit)
           /\ BigIntOf(s \o Zeros(k)) = BigIntOf(s) * PowerOfTen(k)
<1>1. BigIntOf(s) \in Nat
    BY BigIntPrefix
<1> DEFINE Z(m) == /\ s \o Zeros(m) \in Seq(Digit)
                   /\ BigIntOf(s \o Zeros(m)) = BigIntOf(s) * PowerOfTen(m)
           P == {m \in Nat : Z(m)}
<1>2. 0 \in P
  <2>1. s \o Zeros(0) = s
      BY ZerosAreDigits, ConcatEmptySeq
  <2> QED
      BY <1>1, <2>1, TenTimes, Distributes
<1>3. ASSUME NEW m \in Nat, m \in P PROVE m + 1 \in P
  <2> DEFINE z == s \o Zeros(m)
  <2>1. /\ z \in Seq(Digit) /\ BigIntOf(z) = BigIntOf(s) * PowerOfTen(m)
        /\ Zeros(m) \in Seq(Digit) /\ "0" \in Digit /\ DigitValue("0") = 0
      BY <1>3, ZerosAreDigits, DigitsAreDistinct
  <2>2. s \o Zeros(m + 1) = Append(z, "0")
    <3>1. Zeros(m + 1) = Zeros(m) \o <<"0">> /\ <<"0">> \in Seq(Digit)
      <4>1. Zeros(m + 1) = Append(Zeros(m), "0")
          BY ZerosAreDigits
      <4>2. Append(Zeros(m), "0") = Zeros(m) \o <<"0">>
          BY <2>1, AppendIsConcat
      <4>3. <<"0">> \in Seq(Digit)
          BY <2>1
      <4> QED
          BY <4>1, <4>2, <4>3
    <3>2. s \o (Zeros(m) \o <<"0">>) = z \o <<"0">>
        BY <2>1, <3>1, ConcatAssociative
    <3>3. Append(z, "0") = z \o <<"0">>
        BY <2>1, AppendIsConcat
    <3> QED
        BY <3>1, <3>2, <3>3
  <2> HIDE DEF z
  <2>3. Append(z, "0") \in Seq(Digit) /\ BigIntOf(Append(z, "0")) = 10 * BigIntOf(z)
    <3>1. BigIntOf(z) \in Nat /\ BigIntOf(Append(z, "0")) = 10 * BigIntOf(z) + 0
        BY <2>1, BigIntAppend
    <3>2. Append(z, "0") \in Seq(Digit)
        BY <2>1, AppendProperties
    <3> QED
        BY <3>1, <3>2
  <2>4. PowerOfTen(m) \in Nat /\ PowerOfTen(m + 1) = 10 * PowerOfTen(m)
      BY TenTimes
  <2>5. 10 * (BigIntOf(s) * PowerOfTen(m)) = BigIntOf(s) * (10 * PowerOfTen(m))
      BY <1>1, <2>4, Distributes
  <2>6. Z(m + 1)
      BY <2>1, <2>2, <2>3, <2>4, <2>5
  <2> QED
      BY <2>6
<1> HIDE DEF P
<1>4. k \in P
    BY <1>2, <1>3, SetInduction
<1> QED
    BY <1>4 DEF P

LEMMA ZerosBefore ==
    ASSUME NEW s \in Seq(Digit), NEW k \in Nat
    PROVE  /\ Zeros(k) \o s \in Seq(Digit)
           /\ BigIntOf(Zeros(k) \o s) = BigIntOf(s)
<1>1. Zeros(k) \in Seq(Digit) /\ "0" \in Digit
    BY ZerosAreDigits, DigitsAreDistinct
<1>2. BigIntOf(Zeros(k)) = 0
  <2>1. <<>> \in Seq(Digit) /\ BigIntOf(<<>>) = 0
      BY <1>1, EmptySeq, BigIntAppend
  <2>2. <<>> \o Zeros(k) = Zeros(k)
      BY <1>1, ConcatEmptySeq
  <2>3. BigIntOf(<<>> \o Zeros(k)) = BigIntOf(<<>>) * PowerOfTen(k)
      BY <2>1, ZerosBehind
  <2> QED
      BY <2>1, <2>2, <2>3, TenTimes, Distributes
<1> DEFINE P == {m \in Nat : m <= Len(s) =>
                    BigIntOf(Zeros(k) \o SubSeq(s, 1, m)) = BigIntOf(SubSeq(s, 1, m))}
<1>3. 0 \in P
  <2>1. SubSeq(s, 1, 0) = <<>>
      BY SubSeqEmpty
  <2>2. Zeros(k) \o SubSeq(s, 1, 0) = Zeros(k) /\ BigIntOf(SubSeq(s, 1, 0)) = 0
      BY <1>1, <2>1, ConcatEmptySeq, BigIntPrefix
  <2> QED
      BY <1>2, <2>2
<1>4. ASSUME NEW m \in Nat, m \in P PROVE m + 1 \in P
  <2> SUFFICES ASSUME m + 1 <= Len(s)
               PROVE  BigIntOf(Zeros(k) \o SubSeq(s, 1, m + 1)) = BigIntOf(SubSeq(s, 1, m + 1))
      OBVIOUS
  <2>1. PICK c : c = s[m + 1]
      OBVIOUS
  <2>2. PICK h : h = SubSeq(s, 1, m)
      OBVIOUS
  <2>3. /\ Len(s) \in Nat /\ SubSeq(s, 1, m + 1) = Append(h, c)
        /\ BigIntOf(SubSeq(s, 1, m + 1)) = 10 * BigIntOf(h) + DigitValue(c)
      BY <2>1, <2>2, BigIntPrefix
  <2>4. m \in 0..Len(s) /\ m + 1 \in 1..Len(s)
      BY <2>3
  <2>5. h \in Seq(Digit) /\ c \in Digit
      BY <2>1, <2>2, <2>4, BigIntPrefix
  <2>6. Zeros(k) \o Append(h, c) = Append(Zeros(k) \o h, c) /\ Zeros(k) \o h \in Seq(Digit)
    <3>1. Append(h, c) = h \o <<c>> /\ <<c>> \in Seq(Digit)
        BY <2>5, AppendIsConcat
    <3>2. Zeros(k) \o h \in Seq(Digit)
        BY <1>1, <2>5, ConcatProperties
    <3>3. Zeros(k) \o (h \o <<c>>) = (Zeros(k) \o h) \o <<c>>
        BY <1>1, <2>5, <3>1, ConcatAssociative
    <3>4. Append(Zeros(k) \o h, c) = (Zeros(k) \o h) \o <<c>>
        BY <2>5, <3>2, AppendIsConcat
    <3> QED
        BY <3>1, <3>2, <3>3, <3>4
  <2>7. BigIntOf(Append(Zeros(k) \o h, c)) = 10 * BigIntOf(Zeros(k) \o h) + DigitValue(c)
      BY <2>5, <2>6, BigIntAppend
  <2>8. BigIntOf(Zeros(k) \o h) = BigIntOf(h)
      BY <1>4, <2>2, <2>4
  <2> QED
      BY <2>3, <2>6, <2>7, <2>8
<1> HIDE DEF P
<1>5. Len(s) \in Nat /\ SubSeq(s, 1, Len(s)) = s
    BY BigIntPrefix
<1>6. Len(s) \in P
    BY <1>3, <1>4, <1>5, SetInduction
<1>7. BigIntOf(Zeros(k) \o s) = BigIntOf(s)
  <2>1. BigIntOf(Zeros(k) \o SubSeq(s, 1, Len(s))) = BigIntOf(SubSeq(s, 1, Len(s)))
    <3>1. Len(s) <= Len(s)
        BY <1>5
    <3> QED
        BY <1>6, <3>1 DEF P
  <2> QED
      BY <1>5, <2>1
<1> QED
    BY <1>1, <1>7, ConcatProperties

-----------------------------------------------------------------------------
\* The whole part of a text holds no point, and is all of it or ends at one.
LEMMA WholePart ==
    ASSUME NEW t \in Seq(Character)
    PROVE  /\ Len(t) \in Nat /\ DOMAIN t = 1..Len(t) /\ WholeLength(t) \in 0..Len(t)
           /\ \A n \in 1..WholeLength(t) : t[n] # "."
           /\ WholeLength(t) < Len(t) => t[WholeLength(t) + 1] = "."
<1>1. PICK points : points = {n \in DOMAIN t : t[n] = "."}
    OBVIOUS
<1>2. Len(t) \in Nat /\ DOMAIN t = 1..Len(t)
    BY LenProperties
<1>3. CASE points = {}
  <2>1. WholeLength(t) = Len(t)
      BY <1>1, <1>3 DEF WholeLength
  <2>2. \A n \in 1..Len(t) : t[n] # "."
      BY <1>1, <1>2, <1>3
  <2> QED
      BY <1>2, <2>1, <2>2
<1>4. CASE points # {}
  <2>1. points \subseteq 1..Len(t) /\ points \in SUBSET Nat
      BY <1>1, <1>2
  <2>2. PICK least : least = CHOOSE n \in points : \A m \in points : n <= m
      OBVIOUS
  <2>3. least \in points /\ \A m \in points : least <= m
      BY <1>4, <2>1, <2>2, LeastNatural
  <2>4. WholeLength(t) = least - 1
      BY <1>1, <1>4, <2>2 DEF WholeLength
  <2>5. \A n \in 1..least - 1 : n \notin points /\ n \in 1..Len(t)
      BY <1>2, <2>1, <2>3
  <2>6. \A n \in 1..least - 1 : t[n] # "."
      BY <1>1, <1>2, <2>5
  <2>7. least \in 1..Len(t) /\ (least - 1) + 1 = least /\ t[least] = "."
      BY <1>1, <2>1, <2>3
  <2> QED
      BY <1>2, <2>4, <2>6, <2>7
<1> QED
    BY <1>3, <1>4

LEMMA OnlyPoint ==
    ASSUME NEW t \in Seq(Character),
           \A n, m \in DOMAIN t : t[n] = "." /\ t[m] = "." => n = m
    PROVE  Point(t) = WholeLength(t) + 1
<1>1. PICK p : p = WholeLength(t)
    OBVIOUS
<1>2. /\ Len(t) \in Nat /\ DOMAIN t = 1..Len(t) /\ p \in 0..Len(t)
      /\ \A n \in 1..p : t[n] # "."
      /\ p < Len(t) => t[p + 1] = "."
    BY <1>1, WholePart
<1>3. CASE p < Len(t)
  <2>1. p + 1 \in DOMAIN t /\ t[p + 1] = "."
      BY <1>2, <1>3
  <2>2. (CHOOSE n \in DOMAIN t : t[n] = ".") = p + 1
      BY <2>1
  <2> QED
      BY <1>1, <2>1, <2>2 DEF Point
<1>4. CASE ~(p < Len(t))
  <2>1. p = Len(t)
    <3>1. p \in Int /\ Len(t) \in Int /\ p <= Len(t)
        BY <1>2
    <3> QED
        BY <1>4, <3>1
  <2>2. ~\E n \in DOMAIN t : t[n] = "."
      BY <1>2, <2>1
  <2> QED
      BY <1>1, <2>1, <2>2 DEF Point
<1> QED
    BY <1>3, <1>4

\* A text's whole part and its fraction, of a length and with the characters they have in it.
LEMMA Parts ==
    ASSUME NEW t \in Seq(Character), NEW p \in 0..Len(t)
    PROVE  /\ SubSeq(t, 1, p) \in Seq(Character) /\ Len(SubSeq(t, 1, p)) = p
           /\ \A n \in 1..p : SubSeq(t, 1, p)[n] = t[n]
           /\ SubSeq(t, p + 2, Len(t)) \in Seq(Character)
           /\ Len(SubSeq(t, p + 2, Len(t))) = IF p < Len(t) THEN Len(t) - p - 1 ELSE 0
           /\ \A n \in 1..Len(SubSeq(t, p + 2, Len(t))) :
                SubSeq(t, p + 2, Len(t))[n] = t[p + 1 + n]
<1> DEFINE whole == SubSeq(t, 1, p)
           fraction == SubSeq(t, p + 2, Len(t))
<1>1. Len(t) \in Nat /\ p \in 0..Len(t) /\ \A n \in 1..Len(t) : t[n] \in Character
    BY WholePart, ElementOfSeq
<1>2. whole \in Seq(Character) /\ Len(whole) = p /\ \A n \in 1..p : whole[n] = t[n]
  <2>1. 1 \in Int /\ p \in Int /\ \A n \in 1..p : t[n] \in Character
      BY <1>1
  <2>2. /\ whole \in Seq(Character) /\ Len(whole) = IF 1 <= p THEN p - 1 + 1 ELSE 0
        /\ \A n \in 1..p - 1 + 1 : whole[n] = t[1 + n - 1]
      BY <2>1, SubSeqProperties
  <2> QED
      BY <1>1, <2>2
<1>3. /\ fraction \in Seq(Character)
      /\ Len(fraction) = IF p < Len(t) THEN Len(t) - p - 1 ELSE 0
      /\ \A n \in 1..Len(fraction) : fraction[n] = t[p + 1 + n]
  <2>1. PICK m \in Int : m = p + 2
      BY <1>1
  <2>2. \A n \in m..Len(t) : t[n] \in Character
      BY <1>1, <2>1
  <2>3. /\ fraction \in Seq(Character)
        /\ Len(fraction) = IF m <= Len(t) THEN Len(t) - m + 1 ELSE 0
        /\ \A n \in 1..Len(t) - m + 1 : fraction[n] = t[m + n - 1]
      BY <1>1, <2>1, <2>2, SubSeqProperties
  <2>4. Len(fraction) = IF p < Len(t) THEN Len(t) - p - 1 ELSE 0
      BY <1>1, <2>1, <2>3
  <2>5. ASSUME NEW n \in 1..Len(fraction) PROVE fraction[n] = t[p + 1 + n]
    <3>1. n \in 1..Len(t) - m + 1 /\ m + n - 1 = p + 1 + n
        BY <1>1, <2>1, <2>3
    <3> QED
        BY <2>3, <3>1
  <2> QED
      BY <2>3, <2>4, <2>5
<1> QED
    BY <1>2, <1>3

\* The pattern and the length of the fraction let through what a person calls a decimal.
LEMMA MatchesDecimals ==
    ASSUME NEW t \in Seq(Character)
    PROVE  /\ Matches(t) /\ Len(SubSeq(t, WholeLength(t) + 2, Len(t))) <= Decimals
                <=> IsDecimal(t)
           /\ IsDecimal(t) => /\ Point(t) = WholeLength(t) + 1
                              /\ IsDigits(SubSeq(t, 1, WholeLength(t)))
<1>1. Len(t) \in Nat /\ WholeLength(t) \in 0..Len(t)
    BY WholePart
<1>2. PICK p \in Nat : p = WholeLength(t)
    BY <1>1
<1>3. PICK L \in Nat : L = Len(t)
    BY <1>1
<1>4. PICK whole : whole = SubSeq(t, 1, p)
    OBVIOUS
<1>5. PICK fraction : fraction = SubSeq(t, p + 2, L)
    OBVIOUS
<1>6. /\ L \in Nat /\ DOMAIN t = 1..L /\ p \in 0..L
      /\ \A n \in 1..p : t[n] # "."
      /\ p < L => t[p + 1] = "."
    BY <1>2, <1>3, WholePart
<1>7. /\ whole \in Seq(Character) /\ Len(whole) = p /\ \A n \in 1..p : whole[n] = t[n]
      /\ fraction \in Seq(Character)
      /\ Len(fraction) = IF p < L THEN L - p - 1 ELSE 0
      /\ \A n \in 1..Len(fraction) : fraction[n] = t[p + 1 + n]
    BY <1>1, <1>2, <1>3, <1>4, <1>5, Parts
<1>8. "." \notin Digit /\ Decimals \in Nat
    BY DigitsAreDistinct, AmountFieldAssumption
<1>9. DOMAIN whole = 1..p /\ DOMAIN fraction = 1..Len(fraction)
    BY <1>7, LenProperties
<1>10. (whole = <<>> <=> p = 0) /\ (fraction = <<>> <=> Len(fraction) = 0)
    BY <1>3, <1>7, EmptySeq
<1>11. Matches(t) <=> /\ IsDigits(whole) /\ (p > 1 => whole[1] # "0")
                      /\ p < L => IsDigits(fraction)
    BY <1>2, <1>3, <1>4, <1>5, <1>7 DEF Matches
<1>12. ASSUME Matches(t), Len(fraction) <= Decimals PROVE IsDecimal(t)
  <2>1. /\ p \in 1..L /\ \A n \in 1..p : t[n] \in Digit
        /\ p > 1 => t[1] # "0"
      BY <1>6, <1>7, <1>9, <1>10, <1>11, <1>12 DEF IsDigits
  <2>2. ASSUME p < L
        PROVE  /\ p + 2 <= L /\ \A n \in p + 2..L : t[n] \in Digit
               /\ Len(fraction) = L - p - 1
    <3>1. fraction # <<>> /\ \A n \in 1..Len(fraction) : fraction[n] \in Digit
        BY <1>9, <1>11, <1>12, <2>2 DEF IsDigits
    <3>2. Len(fraction) = L - p - 1 /\ Len(fraction) # 0
        BY <1>7, <1>10, <2>2, <3>1
    <3>3. ASSUME NEW n \in p + 2..L PROVE t[n] \in Digit
      <4>1. n - p - 1 \in 1..Len(fraction) /\ p + 1 + (n - p - 1) = n
          BY <1>6, <3>2
      <4>2. fraction[n - p - 1] \in Digit
          BY <3>1, <4>1
      <4> QED
          BY <1>7, <4>1, <4>2
    <3> QED
        BY <1>6, <2>2, <3>2, <3>3
  <2>3. \A n \in 1..L : t[n] \in Digit \/ (n = p + 1 /\ t[n] = ".")
    <3>1. ASSUME NEW n \in 1..L, n # p + 1 PROVE t[n] \in Digit
      <4>1. n \in 1..p \/ (p < L /\ n \in p + 2..L)
          BY <1>6, <3>1
      <4> QED
          BY <2>1, <2>2, <4>1
    <3>2. ASSUME NEW n \in 1..L, n = p + 1 PROVE t[n] = "."
      <4>1. p < L
          BY <1>6, <3>2
      <4> QED
          BY <1>6, <3>2, <4>1
    <3> QED
        BY <3>1, <3>2
  <2>4. \A n, m \in DOMAIN t : t[n] = "." /\ t[m] = "." => n = m
      BY <1>6, <1>8, <2>3
  <2>5. Point(t) = p + 1
      BY <1>2, <2>4, OnlyPoint
  <2>6. L - Point(t) <= Decimals
    <3>1. CASE p < L
        BY <1>6, <1>8, <1>12, <2>2, <2>5, <3>1
    <3>2. CASE ~(p < L)
        BY <1>6, <1>8, <2>5, <3>2
    <3> QED
        BY <3>1, <3>2
  <2>7. t[1] \in Digit /\ t[L] \in Digit /\ t # <<>>
    <3>1. 1 \in 1..p /\ L \in 1..L
        BY <1>6, <2>1
    <3>2. L # p + 1
        BY <1>6, <2>2
    <3>3. t # <<>>
        BY <1>3, <1>6, <3>1, EmptySeq
    <3>4. t[L] \in Digit
        BY <1>6, <2>3, <3>1, <3>2
    <3> QED
        BY <1>3, <2>1, <3>1, <3>3, <3>4
  <2>8. (t[1] = "0" /\ L > 1) => t[2] = "."
    <3> SUFFICES ASSUME t[1] = "0", L > 1 PROVE t[2] = "."
        OBVIOUS
    <3>1. p = 1 /\ p < L
        BY <1>6, <2>1
    <3> QED
        BY <1>6, <3>1
  <2>9. \A n \in DOMAIN t : t[n] \in Digit \cup {"."}
      BY <1>6, <2>3
  <2> QED
      BY <1>3, <2>4, <2>6, <2>7, <2>8, <2>9 DEF IsDecimal
<1>13. ASSUME IsDecimal(t)
       PROVE  /\ Matches(t) /\ Len(fraction) <= Decimals /\ Point(t) = p + 1
              /\ IsDigits(whole)
  <2>1. /\ t # <<>> /\ t[1] \in Digit /\ t[L] \in Digit
        /\ \A n \in DOMAIN t : t[n] \in Digit \cup {"."}
        /\ \A n, m \in DOMAIN t : t[n] = "." /\ t[m] = "." => n = m
        /\ (t[1] = "0" /\ L > 1) => t[2] = "."
        /\ L - Point(t) <= Decimals
      BY <1>3, <1>13 DEF IsDecimal
  <2>2. Point(t) = p + 1
      BY <1>2, <2>1, OnlyPoint
  <2>3. L # 0 /\ p # 0
    <3>1. L # 0
        BY <1>3, <2>1, EmptySeq
    <3>2. t[1] # "."
        BY <1>8, <2>1
    <3>3. p = 0 => p < L /\ p + 1 = 1
        BY <1>6, <3>1
    <3> QED
        BY <1>6, <3>1, <3>2, <3>3
  <2>4. IsDigits(whole)
    <3>1. \A n \in 1..p : n \in DOMAIN t
        BY <1>6
    <3>2. \A n \in 1..p : whole[n] \in Digit
        BY <1>6, <1>7, <2>1, <3>1
    <3> QED
        BY <1>9, <1>10, <2>3, <3>2 DEF IsDigits
  <2>5. p > 1 => whole[1] # "0"
    <3> SUFFICES ASSUME p > 1, whole[1] = "0" PROVE FALSE
        OBVIOUS
    <3>1. 1 \in 1..p /\ 2 \in 1..p /\ L > 1
        BY <1>6
    <3>2. t[1] = "0"
        BY <1>7, <3>1
    <3> QED
        BY <1>6, <2>1, <3>1, <3>2
  <2>6. p < L => IsDigits(fraction)
    <3> SUFFICES ASSUME p < L PROVE IsDigits(fraction)
        OBVIOUS
    <3>1. t[p + 1] = "." /\ p + 1 # L /\ p + 1 \in DOMAIN t
        BY <1>6, <1>8, <2>1
    <3>2. Len(fraction) = L - p - 1 /\ Len(fraction) # 0
        BY <1>6, <1>7, <3>1
    <3>3. ASSUME NEW n \in 1..Len(fraction) PROVE fraction[n] \in Digit
      <4>1. p + 1 + n \in DOMAIN t /\ p + 1 + n # p + 1
          BY <1>6, <3>2
      <4>2. t[p + 1 + n] # "."
          BY <2>1, <3>1, <4>1
      <4> QED
          BY <1>7, <2>1, <4>1, <4>2
    <3> QED
        BY <1>9, <1>10, <3>2, <3>3 DEF IsDigits
  <2>7. Len(fraction) <= Decimals
    <3>1. CASE p < L
        BY <1>6, <1>7, <1>8, <2>1, <2>2, <3>1
    <3>2. CASE ~(p < L)
        BY <1>7, <1>8, <3>2
    <3> QED
        BY <3>1, <3>2
  <2> QED
      BY <1>11, <2>2, <2>4, <2>5, <2>6, <2>7
<1> QED
    BY <1>2, <1>3, <1>4, <1>5, <1>12, <1>13

\* The digits of a decimal, point apart, write its value in units of its last place.
LEMMA DecimalValue ==
    ASSUME NEW t \in Seq(Character), IsDecimal(t),
           NEW whole, whole = SubSeq(t, 1, WholeLength(t)),
           NEW fraction, fraction = SubSeq(t, WholeLength(t) + 2, Len(t))
    PROVE  /\ whole \o fraction \in Seq(Digit) /\ Decimals - Len(fraction) \in Nat
           /\ Places(t) = BigIntOf(whole \o fraction) * PowerOfTen(Decimals - Len(fraction))
<1>1. Len(t) \in Nat /\ WholeLength(t) \in 0..Len(t) /\ Decimals \in Nat
    BY WholePart, AmountFieldAssumption
<1>2. PICK p \in Nat : p = WholeLength(t)
    BY <1>1
<1>3. PICK L \in Nat : L = Len(t)
    BY <1>1
<1>4. PICK D \in Nat : D = Decimals
    BY <1>1
<1>5. /\ DOMAIN t = 1..L /\ p \in 0..L
      /\ \A n \in 1..p : t[n] # "."
      /\ p < L => t[p + 1] = "."
    BY <1>2, <1>3, WholePart
<1>6. PICK F \in Nat :
      /\ F = Len(fraction) /\ F = IF p < L THEN L - p - 1 ELSE 0
      /\ whole \in Seq(Character) /\ Len(whole) = p /\ \A n \in 1..p : whole[n] = t[n]
      /\ fraction \in Seq(Character) /\ \A n \in 1..F : fraction[n] = t[p + 1 + n]
  <2>1. /\ whole \in Seq(Character) /\ Len(whole) = p /\ \A n \in 1..p : whole[n] = t[n]
        /\ fraction \in Seq(Character)
        /\ Len(fraction) = IF p < L THEN L - p - 1 ELSE 0
        /\ \A n \in 1..Len(fraction) : fraction[n] = t[p + 1 + n]
      BY <1>1, <1>2, <1>3, Parts
  <2>2. Len(fraction) \in Nat
      BY <2>1, LenProperties
  <2> QED
      BY <2>1, <2>2
<1>7. /\ Point(t) = p + 1
      /\ \A n \in 1..L : n # p + 1 => t[n] \in Digit
      /\ L - (p + 1) <= D
      /\ p # L - 1 \/ p = L
  <2>1. Point(t) = p + 1
      BY <1>2, MatchesDecimals
  <2>2. /\ t # <<>> /\ t[L] \in Digit
        /\ \A n \in 1..L : t[n] \in Digit \cup {"."}
        /\ \A n, m \in 1..L : t[n] = "." /\ t[m] = "." => n = m
        /\ L - Point(t) <= D
      BY <1>3, <1>4, <1>5 DEF IsDecimal
  <2>3. ASSUME NEW n \in 1..L, n # p + 1 PROVE t[n] \in Digit
    <3>1. CASE n \in 1..p
        BY <1>5, <2>2, <3>1
    <3>2. CASE n \notin 1..p
      <4>1. p < L /\ p + 1 \in 1..L
          BY <1>5, <2>3, <3>2
      <4> QED
          BY <1>5, <2>2, <2>3, <4>1
    <3> QED
        BY <3>1, <3>2
  <2>4. ~(p = L - 1)
    <3> SUFFICES ASSUME p = L - 1 PROVE FALSE
        OBVIOUS
    <3>1. t[p + 1] = "." /\ p + 1 = L
        BY <1>5
    <3> QED
        BY <2>2, <3>1, DigitsAreDistinct
  <2> QED
      BY <2>1, <2>2, <2>3, <2>4
<1>8. /\ p <= L /\ F = (IF p < L THEN L - p - 1 ELSE 0) /\ L - (p + 1) <= D
      /\ p # L - 1 \/ p = L
    BY <1>5, <1>6, <1>7
<1>9. whole \in Seq(Digit) /\ fraction \in Seq(Digit)
  <2>1. DOMAIN whole = 1..p /\ DOMAIN fraction = 1..F
      BY <1>6, LenProperties
  <2>2. ASSUME NEW n \in 1..p PROVE whole[n] \in Digit
    <3>1. n \in 1..L /\ n # p + 1
        BY <1>5
    <3> QED
        BY <1>6, <1>7, <3>1
  <2>3. ASSUME NEW n \in 1..F PROVE fraction[n] \in Digit
    <3>1. p + 1 + n \in 1..L /\ p + 1 + n # p + 1
        BY <1>5, <1>6
    <3> QED
        BY <1>6, <1>7, <3>1
  <2> QED
      BY <1>6, <2>1, <2>2, <2>3, DigitsAreDigits
<1>10. PICK s : s = whole \o fraction
    OBVIOUS
<1>11. PICK K \in Nat : K = Len(s)
    BY <1>9, <1>10
<1>12. /\ s \in Seq(Digit) /\ K = IF p < L THEN L - 1 ELSE p
       /\ \A n \in 1..p : s[n] = t[n]
       /\ \A n \in p + 1..K : s[n] = t[n + 1]
       /\ K - p <= D /\ F = K - p /\ p <= K
  <2>2. /\ s \in Seq(Digit) /\ K = p + F
        /\ \A n \in 1..p + F : s[n] = IF n <= p THEN whole[n] ELSE fraction[n - p]
    <3>1. /\ whole \o fraction \in Seq(Digit)
          /\ Len(whole \o fraction) = Len(whole) + Len(fraction)
          /\ \A n \in 1..Len(whole) + Len(fraction) : (whole \o fraction)[n] =
                IF n <= Len(whole) THEN whole[n] ELSE fraction[n - Len(whole)]
        BY <1>9, ConcatProperties
    <3>2. Len(whole) = p /\ Len(fraction) = F
        BY <1>6
    <3> QED
        BY <1>10, <1>11, <3>1, <3>2
  <2>4. ASSUME NEW n \in 1..p PROVE s[n] = t[n]
    <3>1. n \in 1..p + F /\ n <= p
        OBVIOUS
    <3> QED
        BY <1>6, <2>2, <3>1
  <2>5. ASSUME NEW n \in p + 1..K PROVE s[n] = t[n + 1]
    <3>1. n \in 1..p + F /\ ~(n <= p) /\ n - p \in 1..F /\ p + 1 + (n - p) = n + 1
        BY <2>2
    <3> QED
        BY <1>6, <2>2, <3>1
  <2>6. K - p <= D /\ F = K - p /\ p <= K /\ K = IF p < L THEN L - 1 ELSE p
      BY <1>8, <2>2
  <2> QED
      BY <2>2, <2>4, <2>5, <2>6
<1>13. ASSUME NEW n \in 1..L
       PROVE  Place(t, n) = IF n = p + 1 THEN 0
                            ELSE DigitValue(t[n]) * PowerOfTen(D + p - (IF n <= p THEN n ELSE n - 1))
  <2>1. CASE n = p + 1
      BY <1>5, <2>1 DEF Place
  <2>2. CASE n # p + 1
    <3>1. t[n] # "."
        BY <1>7, <2>2, DigitsAreDistinct
    <3>2. Place(t, n) = DigitValue(t[n]) *
            PowerOfTen(Decimals + IF n < p + 1 THEN p + 1 - 1 - n ELSE p + 1 - n)
        BY <1>7, <3>1 DEF Place, DigitValue
    <3>3. Decimals + (IF n < p + 1 THEN p + 1 - 1 - n ELSE p + 1 - n)
            = D + p - (IF n <= p THEN n ELSE n - 1)
        BY <1>4
    <3> QED
        BY <2>2, <3>2, <3>3
  <2> QED
      BY <2>1, <2>2
<1>14. ASSUME NEW n \in 1..L PROVE Place(t, n) \in Nat
  <2>1. CASE n = p + 1
      BY <1>13, <2>1
  <2>2. CASE n # p + 1
    <3>1. PICK e : e = D + p - (IF n <= p THEN n ELSE n - 1)
        OBVIOUS
    <3>2. e \in Nat
        BY <1>5, <1>7, <2>2, <3>1
    <3>3. DigitValue(t[n]) \in Nat
      <4>1. DigitValue(t[n]) \in 0..9
          BY <1>7, <2>2, DigitsAreDistinct
      <4> QED
          BY <4>1
    <3>4. DigitValue(t[n]) * PowerOfTen(e) \in Nat
        BY <3>2, <3>3, TenTimes, Distributes
    <3> QED
        BY <1>13, <2>2, <3>1, <3>4
  <2> QED
      BY <2>1, <2>2
<1>15. PICK f : /\ f \in [0..L -> Nat] /\ f[0] = 0 /\ Places(t) = f[L]
                /\ \A n \in 1..L : f[n] = f[n - 1] + Place(t, n)
    BY <1>3, <1>14, PlacesAddUp
<1> DEFINE q(n) == IF n <= p THEN n ELSE n - 1
           B(n) == BigIntOf(SubSeq(s, 1, n))
           P == {n \in Nat : n <= L => f[n] = B(q(n)) * PowerOfTen(D + p - q(n))}
<1>16. 0 \in P
  <2>1. B(0) = 0 /\ q(0) = 0 /\ D + p - 0 \in Nat
      BY <1>12, BigIntPrefix
  <2>2. PowerOfTen(D + p - 0) \in Nat
      BY <2>1, TenTimes
  <2>3. 0 * PowerOfTen(D + p - 0) = 0
      BY <2>2, Distributes
  <2> HIDE DEF B, q
  <2> QED
      BY <1>15, <2>1, <2>3
<1>17. ASSUME NEW n \in Nat, n \in P PROVE n + 1 \in P
  <2> SUFFICES ASSUME n + 1 <= L
               PROVE  f[n + 1] = B(q(n + 1)) * PowerOfTen(D + p - q(n + 1))
      OBVIOUS
  <2>1. /\ f[n] = B(q(n)) * PowerOfTen(D + p - q(n))
        /\ n + 1 \in 1..L /\ (n + 1) - 1 = n
      BY <1>17
  <2>2. f[n + 1] = f[n] + Place(t, n + 1)
      BY <1>15, <2>1
  <2>3. CASE n + 1 = p + 1
    <3>1. q(n + 1) = n /\ q(n) = n /\ Place(t, n + 1) = 0 /\ f[n] \in Nat
        BY <1>13, <1>15, <2>1, <2>3
    <3> HIDE DEF q, B
    <3> QED
        BY <2>1, <2>2, <3>1
  <2>4. CASE n + 1 # p + 1
    <3>1. PICK m \in Nat : m = q(n)
      <4>1. q(n) \in Nat
          BY <2>4
      <4> QED
          BY <4>1
    <3>2. PICK e \in Nat : e = D + p - (m + 1)
      <4>1. D + p - (m + 1) \in Nat
          BY <1>5, <1>7, <2>1, <2>4, <3>1
      <4> QED
          BY <4>1
    <3>3. q(n + 1) = m + 1 /\ D + p - m = e + 1 /\ m + 1 <= K
      <4>1. q(n + 1) = m + 1
          BY <2>4, <3>1
      <4>2. D + p - m = e + 1
          BY <3>2
      <4>3. K = IF p < L THEN L - 1 ELSE p
          BY <1>12
      <4>4. m + 1 <= K
        <5>1. CASE n <= p
            BY <1>8, <2>4, <3>1, <4>3, <5>1
        <5>2. CASE ~(n <= p)
            BY <1>8, <3>1, <4>3, <5>2
        <5> QED
            BY <5>1, <5>2
      <4> QED
          BY <4>1, <4>2, <4>4
    <3>4. PICK d \in Nat : d = DigitValue(t[n + 1])
      <4>1. DigitValue(t[n + 1]) \in 0..9
          BY <1>7, <2>1, <2>4, DigitsAreDistinct
      <4> QED
          BY <4>1
    <3>5. Place(t, n + 1) = d * PowerOfTen(e)
        BY <1>13, <2>1, <2>4, <3>2, <3>3, <3>4
    <3>6. s[m + 1] = t[n + 1]
        BY <1>12, <2>4, <3>1, <3>3
    <3>7. B(m + 1) = 10 * B(m) + d /\ B(m) \in Nat
      <4>1. m \in 0..Len(s) /\ m + 1 <= Len(s)
          BY <1>11, <3>3
      <4> QED
          BY <1>12, <3>4, <3>6, <4>1, BigIntPrefix
    <3>8. PowerOfTen(e) \in Nat /\ PowerOfTen(e + 1) = 10 * PowerOfTen(e)
        BY TenTimes
    <3> HIDE DEF q, B
    <3>9. (10 * B(m) + d) * PowerOfTen(e) = B(m) * (10 * PowerOfTen(e)) + d * PowerOfTen(e)
        BY <3>7, <3>8, Distributes
    <3> QED
        BY <2>1, <2>2, <3>1, <3>2, <3>3, <3>5, <3>7, <3>8, <3>9
  <2> QED
      BY <2>3, <2>4
<1>18. Places(t) = B(q(L)) * PowerOfTen(D + p - q(L))
  <2> HIDE DEF P
  <2>1. L \in P
      BY <1>16, <1>17, SetInduction
  <2> QED
      BY <1>15, <2>1 DEF P
<1>19. q(L) = K /\ D + p - K = D - F /\ D - F \in Nat
  <2>1. K = (IF p < L THEN L - 1 ELSE p) /\ F = K - p /\ K - p <= D
      BY <1>12
  <2> QED
      BY <1>8, <2>1
<1>20. B(K) = BigIntOf(s)
    BY <1>11, <1>12, BigIntPrefix
<1> HIDE DEF q, B
<1> QED
    BY <1>4, <1>6, <1>10, <1>12, <1>18, <1>19, <1>20

\* A text is accepted just when it is a decimal, blanks around it apart, and as its value.
LEMMA ParseIsExact ==
    ASSUME NEW value \in Seq(Character)
    PROVE  parseTokenAmount(value, Decimals) =
             IF IsDecimal(trim(value)) THEN Places(trim(value)) ELSE NoAmount
<1> DEFINE t == trim(value)
           n == WholeLength(t)
           whole == SubSeq(t, 1, n)
           fraction == SubSeq(t, n + 2, Len(t))
<1>1. t \in Seq(Character)
    BY TrimType
<1> HIDE DEF t
<1>2. Matches(t) /\ Len(fraction) <= Decimals <=> IsDecimal(t)
    BY <1>1, MatchesDecimals
<1>3. CASE IsDecimal(t)
  <2>1. /\ whole \o fraction \in Seq(Digit) /\ Decimals - Len(fraction) \in Nat
        /\ Places(t) = BigIntOf(whole \o fraction) * PowerOfTen(Decimals - Len(fraction))
      BY <1>1, <1>3, DecimalValue
  <2>2. BigIntOf(whole \o fraction \o Zeros(Decimals - Len(fraction))) = Places(t)
      BY <2>1, ZerosBehind
  <2>3. parseTokenAmount(value, Decimals) =
          BigIntOf(whole \o fraction \o Zeros(Decimals - Len(fraction)))
      BY <1>2, <1>3 DEF parseTokenAmount, t
  <2> QED
      BY <1>3, <2>2, <2>3 DEF t
<1>4. CASE ~IsDecimal(t)
    BY <1>2, <1>4 DEF parseTokenAmount, t
<1> QED
    BY <1>3, <1>4

-----------------------------------------------------------------------------
LEMMA DivMod ==
    ASSUME NEW a \in Nat
    PROVE  /\ a \div 10 \in Nat /\ a % 10 \in 0..9 /\ 10 * (a \div 10) + (a % 10) = a
           /\ a >= 10 => a \div 10 < a /\ a \div 10 >= 1
    OBVIOUS

\* f is the text of each number up to k.
Texts(f, k) ==
    /\ f \in [0..k -> Seq(Digit)]
    /\ \A a \in 0..k : f[a] = IF a < 10 THEN <<Digits[a + 1]>>
                               ELSE Append(f[a \div 10], Digits[(a % 10) + 1])

LEMMA ToStringIsTexts ==
    ASSUME NEW k \in Nat PROVE \E f : Texts(f, k) /\ toString(k) = f[k]
<1> DEFINE F(g, a) == IF a < 10 THEN <<Digits[a + 1]>>
                      ELSE Append(g[a \div 10], Digits[(a % 10) + 1])
           S == Seq(Digit)
<1>1. ASSUME NEW a \in Nat
      PROVE  /\ Digits[(a % 10) + 1] \in Digit
             /\ a < 10 => <<Digits[a + 1]>> \in S
  <2>1. a % 10 \in 0..9 /\ (a < 10 => a \in 0..9)
      BY DivMod
  <2>2. Digits[(a % 10) + 1] \in Digit /\ (a < 10 => Digits[a + 1] \in Digit)
      BY <2>1, DigitsAreDistinct
  <2>3. \A c \in Digit : <<c>> \in Seq(Digit)
      OBVIOUS
  <2> QED
      BY <2>2, <2>3
<1>2. PICK g : g \in [0..k -> S] /\ \A a \in 0..k : g[a] = F(g, a)
  <2>1. PICK init : init = [a \in Nat |-> IF a < 10 THEN <<Digits[a + 1]>> ELSE <<>>]
      OBVIOUS
  <2>2. PICK prev : prev = [a \in Nat |-> a \div 10]
      OBVIOUS
  <2>3. PICK step : step = [p \in Nat \X S |-> Append(p[2], Digits[(p[1] % 10) + 1])]
      OBVIOUS
  <2>4. init \in [Nat -> S]
    <3>1. ASSUME NEW a \in Nat PROVE (IF a < 10 THEN <<Digits[a + 1]>> ELSE <<>>) \in S
        BY <1>1, EmptySeq
    <3> QED
        BY <2>1, <3>1
  <2>5. prev \in [Nat -> Nat] /\ \A a \in Nat : a \notin 0..9 => prev[a] < a
    <3>1. ASSUME NEW a \in Nat PROVE a \div 10 \in Nat /\ (a \notin 0..9 => a \div 10 < a)
        BY DivMod
    <3> QED
        BY <2>2, <3>1
  <2>6. step \in [Nat \X S -> S]
    <3>1. ASSUME NEW p \in Nat \X S PROVE Append(p[2], Digits[(p[1] % 10) + 1]) \in S
      <4>1. p[1] \in Nat /\ p[2] \in S
          OBVIOUS
      <4>2. Digits[(p[1] % 10) + 1] \in Digit
          BY <1>1, <4>1
      <4> QED
          BY <4>1, <4>2, AppendProperties
    <3> QED
        BY <2>3, <3>1
  <2>7. WellFounded(S, 0..9, init, step, prev)
    <3>1. 0 \in 0..9
        OBVIOUS
    <3> HIDE DEF S
    <3> QED
        BY <2>4, <2>5, <2>6, <3>1 DEF WellFounded
  <2> HIDE DEF F, S
  <2>8. PICK g : Follows(g, k, S, 0..9, init, step, prev)
      BY <2>7, RecursionExists
  <2>9. g \in [0..k -> S]
      BY <2>8 DEF Follows
  <2>10. ASSUME NEW a \in 0..k PROVE g[a] = F(g, a)
    <3>1. g[a] = IF a \in 0..9 THEN init[a] ELSE step[<<a, g[prev[a]]>>]
        BY <2>8 DEF Follows
    <3>2. CASE a < 10
      <4>1. a \in 0..9 /\ init[a] = <<Digits[a + 1]>>
          BY <2>1, <3>2
      <4> QED
          BY <3>1, <3>2, <4>1 DEF F
    <3>3. CASE ~(a < 10)
      <4>1. a \notin 0..9 /\ a \in Nat /\ prev[a] = a \div 10
          BY <2>2, <3>3
      <4>2. a \div 10 \in 0..k
          BY <4>1, DivMod
      <4>3. <<a, g[a \div 10]>> \in Nat \X S
          BY <2>9, <4>1, <4>2
      <4>4. step[<<a, g[a \div 10]>>] = Append(g[a \div 10], Digits[(a % 10) + 1])
          BY <2>3, <4>3
      <4> QED
          BY <3>1, <3>3, <4>1, <4>4 DEF F
    <3> QED
        BY <3>2, <3>3
  <2> QED
      BY <2>9, <2>10
<1> HIDE DEF F
<1>3. g = [a \in 0..k |-> F(g, a)]
    BY <1>2
<1> DEFINE f == CHOOSE h : h = [a \in 0..k |-> F(h, a)]
<1>4. f = [a \in 0..k |-> F(f, a)]
    BY <1>3
<1>5. toString(k) = f[k]
    BY DEF toString, f, F
<1> HIDE DEF f
<1> DEFINE P == {a \in Nat : a <= k => f[a] \in S}
<1>6. ASSUME NEW a \in Nat, \A m \in 0..a - 1 : m \in P PROVE a \in P
  <2> SUFFICES ASSUME a <= k PROVE f[a] \in S
      OBVIOUS
  <2>1. f[a] = F(f, a)
      BY <1>4
  <2>2. CASE a < 10
      BY <1>1, <2>1, <2>2 DEF F
  <2>3. CASE ~(a < 10)
    <3>1. a \div 10 \in 0..a - 1 /\ a \div 10 <= k
        BY <2>3, DivMod
    <3>2. f[a \div 10] \in S
        BY <1>6, <3>1
    <3>3. Append(f[a \div 10], Digits[(a % 10) + 1]) \in S
        BY <1>1, <3>2, AppendProperties
    <3> QED
        BY <2>1, <2>3, <3>3 DEF F
  <2> QED
      BY <2>2, <2>3
<1> HIDE DEF P, S
<1>7. \A a \in Nat : a \in P
    BY <1>6, StrongInduction
<1>8. f \in [0..k -> S]
    BY <1>4, <1>7 DEF P
<1>9. Texts(f, k)
    BY <1>4, <1>8 DEF Texts, F, S
<1> QED
    BY <1>5, <1>9

\* The text of a number is read back as it, and begins with a zero only for zero.
LEMMA ToStringReadsBack ==
    ASSUME NEW amount \in Nat
    PROVE  /\ toString(amount) \in Seq(Digit) /\ Len(toString(amount)) \in Nat \ {0}
           /\ BigIntOf(toString(amount)) = amount
           /\ amount # 0 => toString(amount)[1] # "0"
<1>1. PICK f : Texts(f, amount) /\ toString(amount) = f[amount]
    BY ToStringIsTexts
<1> DEFINE Good(s, a) == /\ s \in Seq(Digit) /\ Len(s) \in Nat \ {0} /\ BigIntOf(s) = a
                         /\ a # 0 => s[1] # "0"
           P == {a \in Nat : a <= amount => Good(f[a], a)}
<1>2. ASSUME NEW a \in Nat, \A m \in 0..a - 1 : m \in P PROVE a \in P
  <2> SUFFICES ASSUME a <= amount PROVE Good(f[a], a)
      OBVIOUS
  <2>1. f[a] = IF a < 10 THEN <<Digits[a + 1]>>
                ELSE Append(f[a \div 10], Digits[(a % 10) + 1])
    <3>1. a \in 0..amount
        OBVIOUS
    <3> QED
        BY <1>1, <3>1 DEF Texts
  <2>2. CASE a < 10
    <3>1. PICK c : c = Digits[a + 1]
        OBVIOUS
    <3>2. a \in 0..9
        BY <2>2
    <3>3. c \in Digit /\ DigitValue(c) = a
        BY <3>1, <3>2, DigitsAreDistinct
    <3>4. a # 0 => c # "0"
        BY <3>3, DigitsAreDistinct
    <3>5. f[a] = <<c>> /\ Append(<<>>, c) = <<c>> /\ <<>> \in Seq(Digit)
        BY <2>1, <2>2, <3>1
    <3>6. BigIntOf(Append(<<>>, c)) = 10 * 0 + a
        BY <3>3, <3>5, BigIntAppend
    <3>7. f[a] \in Seq(Digit) /\ Len(f[a]) = 1 /\ f[a][1] = c
        BY <3>3, <3>5
    <3> QED
        BY <3>4, <3>5, <3>6, <3>7
  <2>3. CASE ~(a < 10)
    <3>1. PICK b \in Nat : b = a \div 10
        BY DivMod
    <3>2. PICK c : c = Digits[(a % 10) + 1]
        OBVIOUS
    <3>3. a = 10 * b + (a % 10) /\ b \in 0..a - 1 /\ b <= amount /\ b # 0 /\ a % 10 \in 0..9
        BY <2>3, <3>1, DivMod
    <3>4. Good(f[b], b)
        BY <1>2, <3>3
    <3>5. c \in Digit /\ DigitValue(c) = a % 10
        BY <3>2, <3>3, DigitsAreDistinct
    <3>6. PICK s \in Seq(Digit) : s = f[b]
        BY <3>4
    <3>7. f[a] = Append(s, c)
        BY <2>1, <2>3, <3>1, <3>2, <3>6
    <3>8. BigIntOf(Append(s, c)) = 10 * b + (a % 10)
      <4>1. BigIntOf(Append(s, c)) = 10 * BigIntOf(s) + DigitValue(c) /\ BigIntOf(s) = b
          BY <3>4, <3>5, <3>6, BigIntAppend
      <4> QED
          BY <3>5, <4>1, Zenon
    <3>9. /\ Append(s, c) \in Seq(Digit) /\ Len(Append(s, c)) = Len(s) + 1
          /\ Len(s) \in Nat \ {0} /\ Append(s, c)[1] = s[1]
        BY <3>4, <3>5, <3>6, AppendProperties
    <3> QED
        BY <3>3, <3>4, <3>6, <3>7, <3>8, <3>9
  <2> QED
      BY <2>2, <2>3
<1> HIDE DEF P
<1>3. amount \in P
    BY <1>2, StrongInduction
<1>4. Good(f[amount], amount)
    BY <1>3 DEF P
<1> QED
    BY <1>1, <1>4

LEMMA Greatest ==
    ASSUME NEW top \in Nat, NEW T \in SUBSET (0..top), T # {}
    PROVE  \E x \in T : \A y \in T : y <= x
<1>1. PICK back : back = {top - n : n \in T}
    OBVIOUS
<1>2. back \in SUBSET Nat /\ back # {}
  <2>1. \A n \in T : top - n \in Nat
      OBVIOUS
  <2> QED
      BY <1>1, <2>1
<1>3. PICK x \in back : \A y \in back : x <= y
    BY <1>2, LeastNatural
<1>4. PICK n \in T : x = top - n
    BY <1>1, <1>3
<1>5. ASSUME NEW m \in T PROVE m <= n
  <2>1. top - m \in back
      BY <1>1
  <2>2. top - n <= top - m
      BY <1>3, <1>4, <2>1
  <2> QED
      BY <2>2
<1> QED
    BY <1>5

LEMMA RangeHasItsEnds == \A k \in Nat \ {0} : 1 \in 1..k /\ k \in 1..k
    OBVIOUS

LEMMA EndsOfRange ==
    ASSUME NEW L \in Nat \ {0}, NEW T \in SUBSET (1..L), 1 \in T, L \in T
    PROVE  /\ (CHOOSE n \in T : \A m \in T : n <= m) = 1
           /\ (CHOOSE n \in T : \A m \in T : m <= n) = L
<1>1. \A n \in T : n \in 1..L
    OBVIOUS
<1>2. \A n \in T : (\A m \in T : n <= m) <=> n = 1
  <2>1. ASSUME NEW n \in T, \A m \in T : n <= m PROVE n = 1
      BY <1>1, <2>1
  <2>2. \A m \in T : 1 <= m
      BY <1>1
  <2> QED
      BY <2>1, <2>2
<1>3. \A n \in T : (\A m \in T : m <= n) <=> n = L
  <2>1. ASSUME NEW n \in T, \A m \in T : m <= n PROVE n = L
      BY <1>1, <2>1
  <2>2. \A m \in T : m <= L
      BY <1>1
  <2> QED
      BY <2>1, <2>2
<1> QED
    BY <1>2, <1>3

\* A text that neither begins nor ends with a blank is left as it is.
LEMMA TrimIsIdle ==
    ASSUME NEW t \in Seq(Character), t # <<>>, t[1] # " ", t[Len(t)] # " "
    PROVE  trim(t) = t
<1>1. PICK L \in Nat \ {0} : L = Len(t) /\ 1 \in 1..L /\ L \in 1..L
  <2>1. Len(t) \in Nat \ {0}
      BY EmptySeq
  <2> QED
      BY <2>1, RangeHasItsEnds
<1>2. DOMAIN t = 1..L
    BY <1>1, LenProperties
<1>3. PICK inked : inked = {n \in DOMAIN t : t[n] # " "}
    OBVIOUS
<1>4. 1 \in inked /\ L \in inked /\ inked \in SUBSET (1..L)
    BY <1>1, <1>2, <1>3
<1>5. /\ (CHOOSE n \in inked : \A m \in inked : n <= m) = 1
      /\ (CHOOSE n \in inked : \A m \in inked : m <= n) = L
    BY <1>4, EndsOfRange
<1>6. trim(t) = SubSeq(t, 1, L)
    BY <1>3, <1>4, <1>5 DEF trim
<1> QED
    BY <1>1, <1>6, SubSeqFull

\* Padded to more places than the token has, a number is as it was, and begins
\* with a zero only where that is its whole part.
LEMMA PaddedNumber ==
    ASSUME NEW amount \in Nat \ {0}, NEW D \in Nat \ {0}
    PROVE  LET digits == padStart(toString(amount), D + 1)
           IN  /\ digits \in Seq(Digit) /\ Len(digits) \in Nat /\ Len(digits) > D
               /\ BigIntOf(digits) = amount
               /\ Len(digits) - D > 1 => digits[1] # "0"
<1>1. PICK str : str = toString(amount)
    OBVIOUS
<1>2. PICK N \in Nat \ {0} : N = Len(str)
    BY <1>1, ToStringReadsBack
<1>3. str \in Seq(Digit) /\ BigIntOf(str) = amount /\ str[1] # "0"
    BY <1>1, ToStringReadsBack
<1>4. PICK z \in Nat : z = IF D + 1 - N >= 0 THEN D + 1 - N ELSE 0
  <2>1. (IF D + 1 - N >= 0 THEN D + 1 - N ELSE 0) \in Nat
      OBVIOUS
  <2> QED
      BY <2>1
<1>5. Zeros(D + 1 - N) = Zeros(z)
  <2>1. CASE D + 1 - N >= 0
      BY <1>4, <2>1
  <2>2. CASE ~(D + 1 - N >= 0)
    <3>1. z = 0 /\ 1..(D + 1 - N) = {} /\ 1..z = {}
        BY <1>4, <2>2
    <3> QED
        BY <3>1 DEF Zeros
  <2> QED
      BY <2>1, <2>2
<1>6. PICK digits : digits = Zeros(z) \o str
    OBVIOUS
<1>7. padStart(toString(amount), D + 1) = digits
    BY <1>1, <1>2, <1>5, <1>6 DEF padStart
<1>8. digits \in Seq(Digit) /\ BigIntOf(digits) = amount
    BY <1>3, <1>6, ZerosBefore
<1>9. Len(digits) = z + N /\ \A n \in 1..z + N : digits[n] = IF n <= z THEN Zeros(z)[n] ELSE str[n - z]
  <2>1. Zeros(z) \in Seq(Digit) /\ Len(Zeros(z)) = z
      BY ZerosAreDigits
  <2>2. /\ Len(Zeros(z) \o str) = Len(Zeros(z)) + Len(str)
        /\ \A n \in 1..Len(Zeros(z)) + Len(str) : (Zeros(z) \o str)[n] =
              IF n <= Len(Zeros(z)) THEN Zeros(z)[n] ELSE str[n - Len(Zeros(z))]
      BY <1>3, <2>1, ConcatProperties
  <2> QED
      BY <1>2, <1>6, <2>1, <2>2
<1>10. z + N > D
    BY <1>4
<1>11. ASSUME z + N - D > 1 PROVE digits[1] # "0"
  <2>1. z = 0
      BY <1>4, <1>11
  <2>2. 1 \in 1..z + N /\ ~(1 <= z) /\ 1 - z = 1
      BY <2>1
  <2> QED
      BY <1>3, <1>9, <2>2
<1> QED
    BY <1>7, <1>8, <1>9, <1>10, <1>11

\* The text shown for digits: without the idle zeros at the end, and with a point
\* in them if any of the fraction is left.
Shows(shown, digits, point, last, D) ==
    /\ digits \in Seq(Digit) /\ point \in Nat \ {0} /\ last \in Nat
    /\ Len(digits) = point + D /\ last \in point..point + D
    /\ point > 1 => digits[1] # "0"
    /\ last # point => digits[last] # "0"
    /\ \A n \in last + 1..point + D : digits[n] = "0"
    /\ shown \in Seq(Character) /\ Len(shown) = IF last = point THEN point ELSE last + 1
    /\ \A n \in 1..point : shown[n] = digits[n]
    /\ last # point => shown[point + 1] = "."
    /\ \A n \in point + 2..Len(shown) : shown[n] = digits[n - 1]

LEMMA ShownNumber ==
    ASSUME NEW amount \in Nat \ {0}, NEW D \in Nat \ {0}
    PROVE  \E digits, point, last :
             Shows(formatTokenAmount(amount, D), digits, point, last, D) /\ BigIntOf(digits) = amount
<1>1. PICK digits \in Seq(Digit) : digits = padStart(toString(amount), D + 1)
    BY PaddedNumber
<1>2. /\ Len(digits) \in Nat /\ Len(digits) > D /\ BigIntOf(digits) = amount
      /\ Len(digits) - D > 1 => digits[1] # "0"
    BY <1>1, PaddedNumber
<1>3. PICK point \in Nat \ {0} : point = Len(digits) - D
    BY <1>2
<1>4. PICK M \in Nat : M = Len(digits) /\ M = point + D
    BY <1>2, <1>3
<1> DEFINE Last(n) == /\ n = point \/ digits[n] # "0"
                      /\ \A m \in n + 1 .. M : digits[m] = "0"
<1>5. \E n \in point..M : Last(n)
  <2>1. PICK T : T = {n \in point..M : n = point \/ digits[n] # "0"}
      OBVIOUS
  <2>2. point \in T /\ T \in SUBSET (0..M)
      BY <1>4, <2>1
  <2>3. PICK x \in T : \A y \in T : y <= x
      BY <2>2, Greatest
  <2>4. x \in point..M /\ (x = point \/ digits[x] # "0")
      BY <2>1, <2>3
  <2>5. ASSUME NEW m \in x + 1..M PROVE digits[m] = "0"
    <3>1. m \in point..M /\ m # point /\ ~(m <= x)
        BY <2>4
    <3> QED
        BY <2>1, <2>3, <3>1
  <2> QED
      BY <2>4, <2>5
<1> HIDE DEF Last
<1>6. PICK last : last = CHOOSE n \in point..M : Last(n)
    OBVIOUS
<1>7. last \in point..M /\ Last(last) /\ last \in Nat
    BY <1>5, <1>6
<1>8. PICK whole : whole = SubSeq(digits, 1, point)
    OBVIOUS
<1>9. PICK fraction : fraction = SubSeq(digits, point + 1, last)
    OBVIOUS
<1>10. formatTokenAmount(amount, D) =
         IF last = point THEN whole ELSE whole \o <<".">> \o fraction
    BY <1>1, <1>3, <1>4, <1>6, <1>8, <1>9 DEF formatTokenAmount, Last
<1>11. \A n \in 1..M : digits[n] \in Character
  <2>1. \A n \in 1..M : digits[n] \in Digit
      BY <1>4, ElementOfSeq
  <2> QED
      BY <2>1 DEF Character
<1>12. /\ whole \in Seq(Character) /\ Len(whole) = point
       /\ \A n \in 1..point : whole[n] = digits[n]
  <2>1. 1 \in Int /\ point \in Int /\ \A n \in 1..point : digits[n] \in Character
      BY <1>4, <1>11
  <2>2. /\ whole \in Seq(Character)
        /\ Len(whole) = IF 1 <= point THEN point - 1 + 1 ELSE 0
        /\ \A n \in 1..point - 1 + 1 : whole[n] = digits[1 + n - 1]
      BY <1>8, <2>1, SubSeqProperties
  <2> QED
      BY <2>2
<1>13. /\ fraction \in Seq(Character) /\ Len(fraction) = last - point
       /\ \A n \in 1..last - point : fraction[n] = digits[point + n]
  <2>1. PICK m \in Int : m = point + 1
      OBVIOUS
  <2>2. last \in Int /\ \A n \in m..last : digits[n] \in Character
      BY <1>4, <1>7, <1>11, <2>1
  <2>3. /\ fraction \in Seq(Character)
        /\ Len(fraction) = IF m <= last THEN last - m + 1 ELSE 0
        /\ \A n \in 1..last - m + 1 : fraction[n] = digits[m + n - 1]
      BY <1>9, <2>1, <2>2, SubSeqProperties
  <2>4. ASSUME NEW n \in 1..last - point PROVE fraction[n] = digits[point + n]
    <3>1. n \in 1..last - m + 1 /\ m + n - 1 = point + n
        BY <1>7, <2>1
    <3> QED
        BY <2>3, <3>1
  <2>5. Len(fraction) = last - point
      BY <1>7, <2>1, <2>3
  <2> QED
      BY <2>3, <2>4, <2>5
<1>14. PICK shown : shown = formatTokenAmount(amount, D)
    OBVIOUS
<1>15. /\ shown \in Seq(Character)
       /\ Len(shown) = IF last = point THEN point ELSE last + 1
       /\ \A n \in 1..point : shown[n] = digits[n]
       /\ last # point => shown[point + 1] = "."
       /\ \A n \in point + 2..(IF last = point THEN point ELSE last + 1) : shown[n] = digits[n - 1]
  <2>1. CASE last = point
      BY <1>10, <1>12, <1>14, <2>1
  <2>2. CASE last # point
    <3>1. PICK head : head = whole \o <<".">>
        OBVIOUS
    <3>2. <<".">> \in Seq(Character) /\ Len(<<".">>) = 1 /\ <<".">>[1] = "."
        BY DEF Character
    <3>3. /\ head \in Seq(Character) /\ Len(head) = Len(whole) + Len(<<".">>)
          /\ \A n \in 1..Len(whole) + Len(<<".">>) : head[n] =
                IF n <= Len(whole) THEN whole[n] ELSE <<".">>[n - Len(whole)]
        BY <1>12, <3>1, <3>2, ConcatProperties
    <3>4. /\ Len(head) = point + 1
          /\ \A n \in 1..point : head[n] = digits[n]
          /\ head[point + 1] = "."
        BY <1>12, <3>2, <3>3
    <3>5. shown = head \o fraction
        BY <1>10, <1>14, <2>2, <3>1
    <3>6. /\ shown \in Seq(Character) /\ Len(shown) = Len(head) + Len(fraction)
          /\ \A n \in 1..Len(head) + Len(fraction) : shown[n] =
                IF n <= Len(head) THEN head[n] ELSE fraction[n - Len(head)]
      <4>1. head \in Seq(Character) /\ fraction \in Seq(Character)
          BY <1>13, <3>3
      <4>2. /\ head \o fraction \in Seq(Character)
            /\ Len(head \o fraction) = Len(head) + Len(fraction)
            /\ \A n \in 1..Len(head) + Len(fraction) : (head \o fraction)[n] =
                  IF n <= Len(head) THEN head[n] ELSE fraction[n - Len(head)]
          BY <4>1, ConcatProperties
      <4> QED
          BY <3>5, <4>2
    <3>7. /\ Len(shown) = last + 1
          /\ \A n \in 1..last + 1 : shown[n] =
                IF n <= point + 1 THEN head[n] ELSE fraction[n - (point + 1)]
      <4>1. Len(head) + Len(fraction) = last + 1
          BY <1>7, <1>13, <3>4
      <4> QED
          BY <3>4, <3>6, <4>1
    <3>8. point + 1 \in 1..last + 1 /\ \A n \in 1..point : n \in 1..last + 1 /\ n <= point + 1
        BY <1>7, <2>2
    <3>9. (\A n \in 1..point : shown[n] = digits[n]) /\ shown[point + 1] = "."
        BY <3>4, <3>7, <3>8
    <3>10. ASSUME NEW n \in point + 2..last + 1 PROVE shown[n] = digits[n - 1]
      <4>1. /\ n \in 1..last + 1 /\ ~(n <= point + 1) /\ n - (point + 1) \in 1..last - point
            /\ point + (n - (point + 1)) = n - 1
          BY <1>7
      <4> QED
          BY <1>13, <3>7, <4>1
    <3> QED
        BY <2>2, <3>6, <3>7, <3>9, <3>10
  <2> QED
      BY <2>1, <2>2
<1>16. /\ \A n \in last + 1..point + D : digits[n] = "0"
       /\ last # point => digits[last] # "0"
    BY <1>4, <1>7 DEF Last
<1>17. last \in point..point + D /\ Len(digits) = point + D /\ (point > 1 => digits[1] # "0")
    BY <1>2, <1>3, <1>4, <1>7
<1>18. Shows(shown, digits, point, last, D)
    BY <1>7, <1>15, <1>16, <1>17 DEF Shows
<1> QED
    BY <1>2, <1>14, <1>18

\* An amount that is accepted is a positive number of base units, and a text that
\* is refused is read as none: either way it is a natural number.
LEMMA AmountIsNatural ==
    ASSUME NEW value \in Seq(Character), NEW decimals \in Nat
    PROVE  parseTokenAmount(value, decimals) \in Nat
<1> DEFINE text == trim(value)
           n == WholeLength(text)
           whole == SubSeq(text, 1, n)
           fraction == SubSeq(text, n + 2, Len(text))
<1>1. text \in Seq(Character) /\ n \in 0..Len(text) /\ Len(text) \in Nat
    BY TrimType, WholePart
<1> HIDE DEF text, n
<1>2. CASE Matches(text) /\ Len(fraction) <= decimals
  <2>1. IsDigits(whole) /\ (n < Len(text) => IsDigits(fraction))
      BY <1>2 DEF Matches, n
  <2>2. whole \in Seq(Character) /\ fraction \in Seq(Character)
      BY <1>1, SubSeqType
  <2>3. CASE n < Len(text) \/ fraction = <<>>
    <3> HIDE DEF whole, fraction
    <3>1. whole \in Seq(Digit)
        BY <2>1, <2>2, DigitsAreDigits DEF IsDigits
    <3>2. fraction \in Seq(Digit)
        BY <2>1, <2>2, <2>3, DigitsAreDigits, EmptySeq DEF IsDigits
    <3>3. decimals - Len(fraction) \in Nat
        BY <1>2, <3>2, LenProperties
    <3>4. "0" \in Digit
        BY DEF Digit, Digits
    <3>5. Zeros(decimals - Len(fraction)) \in Seq(Digit)
        BY <3>3, <3>4, SeqDef DEF Zeros
    <3>6. whole \o fraction \in Seq(Digit)
        BY <3>1, <3>2, ConcatProperties
    <3>7. whole \o fraction \o Zeros(decimals - Len(fraction)) \in Seq(Digit)
        BY <3>5, <3>6, ConcatProperties
    <3>8. BigIntOf(whole \o fraction \o Zeros(decimals - Len(fraction))) \in Nat
        BY <3>7, BigIntPrefix
    <3> QED
        BY <1>2, <3>8 DEF parseTokenAmount, whole, fraction, text, n
  <2>4. CASE ~(n < Len(text))
    <3>1. n = Len(text)
        BY <1>1, <2>4
    <3>2. n + 2 \in Int /\ Len(text) \in Int /\ Len(text) < n + 2
        BY <1>1, <3>1
    <3>3. fraction = <<>>
        BY <3>2, SubSeqEmpty
    <3> QED
        BY <2>3, <3>3
  <2> QED
      BY <2>3, <2>4
<1>3. CASE ~(Matches(text) /\ Len(fraction) <= decimals)
    BY <1>3 DEF parseTokenAmount, NoAmount, text, n
<1> QED
    BY <1>2, <1>3


\* What is shown for an amount is read back as it, and has no idle zero.
LEMMA FormatIsExact ==
    ASSUME NEW amount \in Nat \ {0},
           NEW shown, shown = formatTokenAmount(amount, Decimals)
    PROVE  /\ parseTokenAmount(shown, Decimals) = amount /\ IsDecimal(shown)
           /\ Point(shown) < Len(shown) => shown[Len(shown)] # "0"
<1>1. PICK D \in Nat \ {0} : D = Decimals
    BY AmountFieldAssumption
<1>2. PICK digits, point, last : Shows(shown, digits, point, last, D) /\ BigIntOf(digits) = amount
    BY <1>1, ShownNumber
<1>3. /\ digits \in Seq(Digit) /\ point \in Nat \ {0} /\ last \in Nat
      /\ Len(digits) = point + D /\ last \in point..point + D
      /\ point > 1 => digits[1] # "0"
      /\ last # point => digits[last] # "0"
      /\ \A n \in last + 1..point + D : digits[n] = "0"
      /\ shown \in Seq(Character)
      /\ \A n \in 1..point : shown[n] = digits[n]
      /\ last # point => shown[point + 1] = "."
    BY <1>2 DEF Shows
<1>4. PICK L \in Nat : /\ L = Len(shown) /\ L = IF last = point THEN point ELSE last + 1
                       /\ \A n \in point + 2..L : shown[n] = digits[n - 1]
  <2>1. (IF last = point THEN point ELSE last + 1) \in Nat
      BY <1>3
  <2> QED
      BY <1>2, <2>1 DEF Shows
<1>5. \A n \in 1..point + D : digits[n] \in Digit
    BY <1>3, ElementOfSeq
<1>6. /\ \A n \in 1..point : shown[n] \in Digit
      /\ \A n \in point + 2..L : shown[n] \in Digit
      /\ DOMAIN shown = 1..L
  <2>1. ASSUME NEW n \in 1..point PROVE shown[n] \in Digit
    <3>1. n \in 1..point + D
        BY <1>3
    <3> QED
        BY <1>3, <1>5, <3>1
  <2>2. ASSUME NEW n \in point + 2..L PROVE shown[n] \in Digit
    <3>1. n - 1 \in 1..point + D
        BY <1>3, <1>4
    <3> QED
        BY <1>4, <1>5, <3>1
  <2> QED
      BY <1>3, <1>4, <2>1, <2>2, LenProperties
<1>7. "." \notin Digit /\ " " \notin Digit
    BY DigitsAreDistinct
<1>8. trim(shown) = shown
  <2>1. L # 0 /\ (L \in 1..point \/ L \in point + 2..L) /\ 1 \in 1..point
      BY <1>3, <1>4
  <2>2. shown[1] # " " /\ shown[L] # " "
      BY <1>6, <1>7, <2>1
  <2>3. shown # <<>>
      BY <1>4, <2>1, EmptySeq
  <2> QED
      BY <1>3, <1>4, <2>2, <2>3, TrimIsIdle
<1>9. WholeLength(shown) = point
  <2>1. PICK p \in Nat : p = WholeLength(shown)
    <3>1. Len(shown) \in Nat /\ WholeLength(shown) \in 0..Len(shown)
        BY <1>3, WholePart
    <3> QED
        BY <3>1
  <2>2. /\ p \in 0..L /\ \A n \in 1..p : shown[n] # "."
        /\ p < L => shown[p + 1] = "."
      BY <1>3, <1>4, <2>1, WholePart
  <2>3. p >= point
    <3> SUFFICES ASSUME p < point PROVE FALSE
        BY <1>3
    <3>1. p < L /\ p + 1 \in 1..point
        BY <1>3, <1>4
    <3> QED
        BY <1>6, <1>7, <2>2, <3>1
  <2>4. CASE last = point
    <3>1. p <= L /\ L = point
        BY <1>4, <2>2, <2>4
    <3> QED
        BY <1>3, <2>1, <2>3, <3>1
  <2>5. CASE last # point
    <3> SUFFICES ASSUME p > point PROVE FALSE
        BY <1>3, <2>1, <2>3
    <3>1. point + 1 \in 1..p
        BY <1>3
    <3> QED
        BY <1>3, <2>2, <2>5, <3>1
  <2> QED
      BY <2>4, <2>5
<1>10. PICK whole : whole = SubSeq(shown, 1, point)
    OBVIOUS
<1>11. PICK fraction : fraction = SubSeq(shown, point + 2, L)
    OBVIOUS
<1>12. PICK F \in Nat : F = last - point
  <2>1. last - point \in Nat
      BY <1>3
  <2> QED
      BY <2>1
<1>13. /\ whole \in Seq(Character) /\ Len(whole) = point
       /\ \A n \in 1..point : whole[n] = digits[n]
       /\ fraction \in Seq(Character) /\ Len(fraction) = F
       /\ \A n \in 1..F : fraction[n] = digits[point + n]
  <2>1. point \in 0..Len(shown)
      BY <1>3, <1>4
  <2>2. /\ whole \in Seq(Character) /\ Len(whole) = point
        /\ \A n \in 1..point : whole[n] = shown[n]
        /\ fraction \in Seq(Character)
        /\ Len(fraction) = IF point < L THEN L - point - 1 ELSE 0
        /\ \A n \in 1..Len(fraction) : fraction[n] = shown[point + 1 + n]
    <3>1. /\ SubSeq(shown, 1, point) \in Seq(Character) /\ Len(SubSeq(shown, 1, point)) = point
          /\ \A n \in 1..point : SubSeq(shown, 1, point)[n] = shown[n]
          /\ SubSeq(shown, point + 2, Len(shown)) \in Seq(Character)
          /\ Len(SubSeq(shown, point + 2, Len(shown)))
               = IF point < Len(shown) THEN Len(shown) - point - 1 ELSE 0
          /\ \A n \in 1..Len(SubSeq(shown, point + 2, Len(shown))) :
               SubSeq(shown, point + 2, Len(shown))[n] = shown[point + 1 + n]
        BY <1>3, <2>1, Parts
    <3>2. Len(shown) = L
        BY <1>4
    <3> QED
        BY <1>10, <1>11, <3>1, <3>2
  <2>3. Len(fraction) = F
    <3>1. F = IF point < L THEN L - point - 1 ELSE 0
        BY <1>3, <1>4, <1>12
    <3> QED
        BY <2>2, <3>1
  <2>4. ASSUME NEW n \in 1..F PROVE fraction[n] = digits[point + n]
    <3>1. point + 1 + n \in point + 2..L /\ point + 1 + n - 1 = point + n
        BY <1>3, <1>4, <1>12
    <3>2. fraction[n] = shown[point + 1 + n]
        BY <2>2, <2>3
    <3>3. shown[point + 1 + n] = digits[point + 1 + n - 1]
        BY <1>4, <3>1
    <3> QED
        BY <3>1, <3>2, <3>3
  <2> QED
      BY <1>3, <2>2, <2>3, <2>4
<1>14. whole \in Seq(Digit) /\ fraction \in Seq(Digit) /\ whole # <<>>
  <2>1. DOMAIN whole = 1..point /\ DOMAIN fraction = 1..F
      BY <1>13, LenProperties
  <2>2. (\A n \in 1..point : n \in 1..point + D) /\ \A n \in 1..F : point + n \in 1..point + D
      BY <1>3, <1>12
  <2>3. (\A n \in 1..point : whole[n] \in Digit) /\ \A n \in 1..F : fraction[n] \in Digit
      BY <1>5, <1>13, <2>2
  <2>4. whole # <<>>
      BY <1>3, <1>13, EmptySeq
  <2> QED
      BY <1>13, <2>1, <2>3, <2>4, DigitsAreDigits
<1>15. Matches(shown) /\ F <= D
  <2>1. IsDigits(whole)
      BY <1>14 DEF IsDigits
  <2>2. Len(whole) > 1 => whole[1] # "0"
    <3>1. 1 \in 1..point
        BY <1>3
    <3> QED
        BY <1>3, <1>13, <3>1
  <2>3. point < L => IsDigits(fraction)
    <3> SUFFICES ASSUME point < L PROVE IsDigits(fraction)
        OBVIOUS
    <3>1. F # 0
        BY <1>3, <1>4, <1>12
    <3> QED
        BY <1>13, <1>14, <3>1, EmptySeq DEF IsDigits
  <2>4. F <= D
      BY <1>3, <1>12
  <2> QED
      BY <1>4, <1>9, <1>10, <1>11, <2>1, <2>2, <2>3, <2>4 DEF Matches
<1>16. PICK k \in Nat : k = D - F
  <2>1. D - F \in Nat
      BY <1>15
  <2> QED
      BY <2>1
<1>17. whole \o fraction \o Zeros(k) = digits
  <2>1. PICK z : z = Zeros(k)
      OBVIOUS
  <2>2. z \in Seq(Digit) /\ Len(z) = k /\ \A n \in 1..k : z[n] = "0"
      BY <2>1, ZerosAreDigits
  <2>3. PICK s : s = whole \o fraction
      OBVIOUS
  <2>4. /\ s \in Seq(Digit) /\ Len(s) = point + F
        /\ \A n \in 1..point + F : s[n] = IF n <= point THEN whole[n] ELSE fraction[n - point]
    <3>1. /\ whole \o fraction \in Seq(Digit)
          /\ Len(whole \o fraction) = Len(whole) + Len(fraction)
          /\ \A n \in 1..Len(whole) + Len(fraction) : (whole \o fraction)[n] =
                IF n <= Len(whole) THEN whole[n] ELSE fraction[n - Len(whole)]
        BY <1>14, ConcatProperties
    <3>2. Len(whole) = point /\ Len(fraction) = F
        BY <1>13
    <3> QED
        BY <2>3, <3>1, <3>2
  <2>5. /\ s \o z \in Seq(Digit) /\ Len(s \o z) = point + F + k
        /\ \A n \in 1..point + F + k : (s \o z)[n] =
              IF n <= point + F THEN s[n] ELSE z[n - (point + F)]
    <3>1. /\ s \o z \in Seq(Digit) /\ Len(s \o z) = Len(s) + Len(z)
          /\ \A n \in 1..Len(s) + Len(z) : (s \o z)[n] =
                IF n <= Len(s) THEN s[n] ELSE z[n - Len(s)]
        BY <2>2, <2>4, ConcatProperties
    <3>2. Len(s) = point + F /\ Len(z) = k
        BY <2>2, <2>4
    <3> QED
        BY <3>1, <3>2
  <2>6. point + F + k = point + D /\ point + F = last
      BY <1>3, <1>12, <1>16
  <2>7. ASSUME NEW n \in 1..point + D PROVE (s \o z)[n] = digits[n]
    <3>1. CASE n <= point
      <4>1. n \in 1..point /\ n \in 1..point + F /\ n <= point + F
          BY <1>3, <3>1
      <4>2. (s \o z)[n] = s[n] /\ s[n] = whole[n]
          BY <2>4, <2>5, <2>6, <4>1
      <4> QED
          BY <1>13, <4>1, <4>2
    <3>2. CASE point < n /\ n <= last
      <4>1. n \in 1..point + F /\ ~(n <= point) /\ n - point \in 1..F /\ point + (n - point) = n
          BY <1>3, <1>12, <3>2
      <4>2. (s \o z)[n] = s[n]
          BY <2>5, <2>6, <4>1
      <4>3. s[n] = fraction[n - point]
          BY <2>4, <4>1
      <4>4. fraction[n - point] = digits[n]
          BY <1>13, <4>1
      <4> QED
          BY <4>2, <4>3, <4>4
    <3>3. CASE n > last
      <4>1. n \in last + 1..point + D /\ ~(n <= last) /\ n - last \in 1..k
          BY <1>3, <2>6, <3>3
      <4>2. (s \o z)[n] = z[n - last] /\ z[n - last] = "0"
          BY <2>2, <2>5, <2>6, <4>1
      <4> QED
          BY <1>3, <4>1, <4>2
    <3>4. n <= point \/ (point < n /\ n <= last) \/ n > last
        BY <1>3
    <3> QED
        BY <3>1, <3>2, <3>3, <3>4
  <2>8. Len(s \o z) = Len(digits)
      BY <1>3, <2>5, <2>6
  <2>9. s \o z = digits
      BY <1>3, <2>5, <2>6, <2>7, <2>8, SeqEqual
  <2> QED
      BY <2>1, <2>3, <2>9
<1>18. parseTokenAmount(shown, Decimals) = amount
  <2>1. parseTokenAmount(shown, Decimals) =
          BigIntOf(whole \o fraction \o Zeros(Decimals - Len(fraction)))
      BY <1>1, <1>4, <1>8, <1>9, <1>10, <1>11, <1>13, <1>15 DEF parseTokenAmount
  <2> QED
      BY <1>1, <1>2, <1>13, <1>16, <1>17, <2>1
<1>19. IsDecimal(shown)
    BY <1>3, <1>8, <1>18, ParseIsExact DEF NoAmount
<1>20. Point(shown) < Len(shown) => shown[Len(shown)] # "0"
  <2> SUFFICES ASSUME Point(shown) < L PROVE shown[L] # "0"
      BY <1>4
  <2>1. Point(shown) = point + 1
      BY <1>3, <1>9, <1>19, MatchesDecimals
  <2>2. last # point /\ L = last + 1 /\ L \in point + 2..L /\ L - 1 = last
      BY <1>3, <1>4, <2>1
  <2> QED
      BY <1>3, <1>4, <2>2
<1> QED
    BY <1>18, <1>19, <1>20

-----------------------------------------------------------------------------

LEMMA TypedText == FieldSpec => [](typed \in Seq(Character))
<1>1. Empty => typed \in Seq(Character)
    BY EmptySeq DEF Empty
<1>2. typed \in Seq(Character) /\ [Keystroke]_typed => (typed \in Seq(Character))'
  <2> SUFFICES ASSUME typed \in Seq(Character), [Keystroke]_typed
               PROVE  typed' \in Seq(Character)
      OBVIOUS
  <2>1. ASSUME NEW c \in Keyboard, typed' = Append(typed, c) PROVE typed' \in Seq(Character)
      BY <2>1, AmountFieldAssumption, AppendProperties
  <2>2. CASE Clear
      BY <2>2, EmptySeq DEF Clear
  <2>3. CASE UNCHANGED typed
      BY <2>3
  <2> QED
      BY <2>1, <2>2, <2>3 DEF Keystroke, Type
<1> QED
    BY <1>1, <1>2, PTL DEF FieldSpec

\* Of any text of any length, for a token of any number of decimals: it is accepted
\* just when it is a decimal that the token can represent, and stored exactly.
THEOREM AmountsAreExact == FieldSpec => []ParsesExactly
<1>1. typed \in Seq(Character) => ParsesExactly
    BY ParseIsExact DEF ParsesExactly, Parsed
<1> QED
    BY TypedText, <1>1, PTL

\* What the preview shows for an amount is a decimal that is read back as it, with
\* no idle zero, whatever the amount and the number of decimals.
THEOREM PreviewsReadBack == FieldSpec => []FormatsExactly
<1>1. typed \in Seq(Character) => FormatsExactly
  <2> SUFFICES ASSUME typed \in Seq(Character), Parsed # NoAmount PROVE FormatsExactly
      BY DEF FormatsExactly
  <2>1. Parsed \in Nat \ {0}
      BY AmountIsNatural, AmountFieldAssumption DEF Parsed, NoAmount
  <2> QED
      BY <2>1, FormatIsExact DEF FormatsExactly
<1> QED
    BY TypedText, <1>1, PTL

-----------------------------------------------------------------------------
(* Drafts, saves and the goals table.                                      *)

\* A draft whose plan can be carried out by a server that accepted it at time t.
CanRun(draft, t) ==
    /\ draft \in Draft /\ draft.checkpointAt = checkpointAt(draft.deadline)
    /\ t < draft.checkpointAt /\ draft.checkpointAt < draft.deadline
    /\ draft.minimumBuyAmount \in 1..draft.preferredBuyAmount

\* The checkpoint is ahead because the lead is shorter than the least duration,
\* and before the deadline because the lead is not nothing.
LEMMA ValidDraftsCanRun ==
    ASSUME NEW input \in Input, NEW t \in Nat, NEW zone \in Int,
           NEW market \in Market,
           validateGoalDraft(input, t, zone, market) # Rejected
    PROVE  CanRun(validateGoalDraft(input, t, zone, market), t)
<1>1. PICK sell \in Nat : sell = parseTokenAmount(input.sellAmount, market.sellDecimals)
    BY AmountIsNatural DEF Input, Market
<1>2. PICK preferred \in Nat : preferred = parseTokenAmount(input.preferredBuyAmount, market.buyDecimals)
    BY AmountIsNatural DEF Input, Market
<1>3. PICK minimum \in Nat : minimum = parseTokenAmount(input.minimumBuyAmount, market.buyDecimals)
    BY AmountIsNatural DEF Input, Market
<1>4. PICK deadline \in Int : deadline = DateParse(input.deadline, zone)
    BY DEF Input, DateParse
<1>5. /\ 0 \notin {sell, preferred, minimum} /\ ~(minimum > preferred)
      /\ ~(deadline < t + MINIMUM_GOAL_DURATION_MS)
      /\ validateGoalDraft(input, t, zone, market) =
            [sellAmount |-> sell, preferredBuyAmount |-> preferred,
             minimumBuyAmount |-> minimum, deadline |-> deadline,
             checkpointAt |-> checkpointAt(deadline)]
    BY <1>1, <1>2, <1>3, <1>4 DEF validateGoalDraft, NoAmount
<1>6. /\ minimum \in 1..preferred
      /\ deadline \in Nat /\ checkpointAt(deadline) \in Nat
      /\ t < checkpointAt(deadline) /\ checkpointAt(deadline) < deadline
    BY <1>5, GoalDraftAssumption DEF checkpointAt
<1> QED
    BY <1>5, <1>6 DEF CanRun, Draft

-----------------------------------------------------------------------------
(* The page, its saves and the goals.                                      *)

\* A checked draft can run; a save that tells of a goal tells of its own; and
\* unless the form was edited under it, a page waits for what is in its form.
SaveSound(s) ==
    /\ saves[s].stage = "checked" =>
         CanRun(saves[s].draft, saves[s].checkedAt) /\ saves[s].market \in Markets
    /\ saves[s].id # 0 =>
         saves[s].id \in DOMAIN goals /\ goals[saves[s].id].input = saves[s].input
    /\ saves[s].waiting => edited \/ saves[s].input = page.input

SavesSound == \A s \in Saves : SaveSound(s)

GoalRuns(goal) ==
    /\ goal.checkedAt < checkpointAt(goal.deadline)
    /\ checkpointAt(goal.deadline) < goal.deadline
    /\ goal.minimumBuyAmount \in 1..goal.preferredBuyAmount

GoalsCanRun == \A n \in DOMAIN goals : GoalRuns(goals[n])

Inv == TypeOK /\ SavesSound /\ GoalsCanRun /\ LinkOpensThisGoal

LEMMA NoSaveType == NoSave \in Save
BY ComposerAssumption DEF NoSave, Save

LEMMA PageStep ==
    ASSUME Inv, (\E input \in Inputs : Update(input)) \/ Submit \/ Reload
    PROVE  Inv'
<1>1. ASSUME NEW input \in Inputs, Update(input) PROVE Inv'
  <2> USE <1>1
  <2>1. page' \in Page /\ page'.savedGoalId = 0 /\ edited' \in BOOLEAN
      BY ComposerAssumption DEF Update, Waiting, Inv, TypeOK, Page
  <2>2. TypeOK'
      BY <2>1 DEF Update, Inv, TypeOK
  <2>3. \A s \in Saves : saves[s].waiting => edited'
      BY DEF Update, Waiting
  <2>4. SavesSound'
      BY <2>3 DEF Update, Inv, SavesSound, SaveSound, CanRun
  <2> QED
      BY <2>1, <2>2, <2>4 DEF Update, Inv, GoalsCanRun, LinkOpensThisGoal, GoalRuns
<1>2. CASE Submit
  <2>1. page' \in Page /\ page'.savedGoalId = page.savedGoalId /\ page'.input = page.input
      BY <1>2 DEF Submit, Inv, TypeOK, Page
  <2>2. UNCHANGED <<browserZone, connected, now, edited, saves, goals>>
      BY <1>2 DEF Submit
  <2> QED
      BY <2>1, <2>2 DEF Inv, TypeOK, SavesSound, SaveSound, GoalsCanRun,
                        LinkOpensThisGoal, CanRun, GoalRuns
<1>3. CASE Reload
  <2>1. page' \in Page /\ page'.savedGoalId = 0
      BY <1>3, ComposerAssumption DEF Reload, Opened, Inv, TypeOK, Page
  <2>2. /\ saves' \in [Saves -> Save]
        /\ \A s \in Saves :
             /\ ~saves'[s].waiting /\ saves'[s].stage = saves[s].stage
             /\ saves'[s].draft = saves[s].draft /\ saves'[s].checkedAt = saves[s].checkedAt
             /\ saves'[s].id = saves[s].id /\ saves'[s].input = saves[s].input
             /\ saves'[s].market = saves[s].market
      BY <1>3 DEF Reload, Inv, TypeOK, Save
  <2>3. UNCHANGED <<browserZone, connected, now, goals>> /\ edited' = FALSE
      BY <1>3 DEF Reload
  <2>4. SavesSound'
      BY <2>2, <2>3 DEF Inv, SavesSound, SaveSound, CanRun
  <2> QED
      BY <2>1, <2>2, <2>3, <2>4 DEF Inv, TypeOK, GoalsCanRun, LinkOpensThisGoal, GoalRuns
<1> QED
    BY <1>1, <1>2, <1>3

\* A step of one save that leaves the form's text and the goals as they are.
LEMMA OneSaveKeeps ==
    ASSUME Inv, NEW s \in Saves, NEW save \in Save,
           saves' = [saves EXCEPT ![s] = save],
           page' \in Page, page'.input = page.input,
           UNCHANGED <<browserZone, connected, now, edited, goals>>,
           save.stage = "checked" =>
              CanRun(save.draft, save.checkedAt) /\ save.market \in Markets,
           save.id # 0 => save.id \in DOMAIN goals /\ goals[save.id].input = save.input,
           save.waiting => edited \/ save.input = page.input,
           LinkOpensThisGoal'
    PROVE  Inv'
<1>1. saves' \in [Saves -> Save] /\ saves'[s] = save
      /\ \A r \in Saves : r # s => saves'[r] = saves[r]
    BY DEF Inv, TypeOK
<1>2. TypeOK'
    BY <1>1 DEF Inv, TypeOK
<1>3. ASSUME NEW r \in Saves PROVE SaveSound(r)'
    BY <1>1 DEF Inv, SavesSound, SaveSound, CanRun
<1> QED
    BY <1>2, <1>3 DEF Inv, SavesSound, GoalsCanRun, GoalRuns

LEMMA SaveMoves ==
    ASSUME Inv, NEW s \in Saves,
           SaveDraft(s) \/ SaveStep(s)
    PROVE  Inv'
<1>1. saves[s] \in Save /\ SaveSound(s) /\ page \in Page /\ now \in Nat
    BY DEF Inv, TypeOK, SavesSound
<1>2. CASE SaveDraft(s)
  <2>1. PICK save : save = [NoSave EXCEPT !.stage = "sent", !.waiting = TRUE,
                                          !.input = page.input]
      OBVIOUS
  <2>2. save \in Save /\ save.stage = "sent" /\ save.id = 0 /\ save.input = page.input
      BY <1>1, <2>1, NoSaveType DEF Save, Page, NoSave
  <2>3. saves' = [saves EXCEPT ![s] = save]
      BY <1>2, <2>1 DEF SaveDraft
  <2>4. /\ page' \in Page /\ page'.input = page.input
        /\ page'.savedGoalId = page.savedGoalId
        /\ UNCHANGED <<browserZone, connected, now, edited, goals>>
      BY <1>1, <1>2 DEF SaveDraft, Page
  <2>5. LinkOpensThisGoal'
      BY <2>4 DEF Inv, LinkOpensThisGoal
  <2> QED
      BY <2>2, <2>3, <2>4, <2>5, OneSaveKeeps
<1>9. CASE Authorize(s)
  <2>1. PICK save : save = [saves[s] EXCEPT !.stage = "authorized"]
      OBVIOUS
  <2>2. /\ save \in Save /\ save.stage = "authorized" /\ save.id = saves[s].id
        /\ save.input = saves[s].input /\ save.waiting = saves[s].waiting
      BY <1>1, <2>1 DEF Save
  <2>3. /\ saves' = [saves EXCEPT ![s] = save]
        /\ UNCHANGED <<browserZone, connected, now, page, edited, goals>>
      BY <1>9, <2>1 DEF Authorize, Inv, TypeOK
  <2>4. LinkOpensThisGoal'
      BY <2>3 DEF Inv, LinkOpensThisGoal
  <2> QED
      BY <1>1, <2>2, <2>3, <2>4, OneSaveKeeps DEF SaveSound
<1>3. CASE Check(s)
  <2>0. PICK market \in Markets :
          LET draft == validateGoalDraft(saves[s].input, now, ServerZone, market)
          IN  /\ draft # Rejected
              /\ saves' = [saves EXCEPT ![s].stage = "checked", ![s].market = market,
                                        ![s].draft = draft, ![s].checkedAt = now]
      BY <1>3 DEF Check, ServerNow, DraftMarket
  <2>1. PICK draft : draft = validateGoalDraft(saves[s].input, now, ServerZone, market)
      OBVIOUS
  <2>2. CanRun(draft, now)
    <3>1. market \in Market /\ saves[s].input \in Input /\ ServerZone \in Int
        BY <1>1, ComposerAssumption DEF Save
    <3> QED
        BY <1>1, <2>0, <2>1, <3>1, ValidDraftsCanRun
  <2>3. PICK save : save = [saves[s] EXCEPT !.stage = "checked", !.market = market,
                                            !.draft = draft, !.checkedAt = now]
      OBVIOUS
  <2>4. /\ save \in Save /\ save.draft = draft /\ save.checkedAt = now
        /\ save.id = saves[s].id /\ save.input = saves[s].input
        /\ save.waiting = saves[s].waiting /\ save.market = market
      BY <1>1, <2>2, <2>3 DEF Save, CanRun
  <2>5. saves' = [saves EXCEPT ![s] = save]
      BY <2>0, <2>1, <2>3 DEF Inv, TypeOK
  <2>6. UNCHANGED <<browserZone, connected, now, page, edited, goals>>
      BY <1>3 DEF Check
  <2>7. LinkOpensThisGoal'
      BY <2>6 DEF Inv, LinkOpensThisGoal
  <2> QED
      BY <1>1, <2>2, <2>4, <2>5, <2>6, <2>7, OneSaveKeeps DEF SaveSound
<1>4. CASE Insert(s)
  <2>1. PICK row : row = Row(s)
      OBVIOUS
  <2>2. row \in Goal /\ row.input = saves[s].input /\ GoalRuns(row)
      BY <1>1, <1>4, <2>1 DEF Insert, Row, Goal, SaveSound, CanRun, GoalRuns, Save, Draft
  <2>3. goals \in Seq(Goal) /\ goals' = Append(goals, row)
      BY <1>4, <2>1 DEF Insert, Inv, TypeOK
  <2>4. /\ goals' \in Seq(Goal) /\ Len(goals') = Len(goals) + 1 /\ Len(goals) \in Nat
        /\ DOMAIN goals = 1..Len(goals) /\ DOMAIN goals' = 1..Len(goals')
        /\ goals'[Len(goals')] = row
        /\ \A n \in DOMAIN goals : goals'[n] = goals[n]
      BY <2>2, <2>3
  <2>5. PICK id \in {0, Len(goals')} :
            saves' = [saves EXCEPT ![s].stage = "answered", ![s].id = id]
      BY <1>4 DEF Insert
  <2>6. /\ saves' \in [Saves -> Save]
        /\ saves'[s].stage = "answered" /\ saves'[s].id = id
        /\ saves'[s].input = saves[s].input /\ saves'[s].waiting = saves[s].waiting
        /\ \A r \in Saves : r # s => saves'[r] = saves[r]
    <3>1. PICK save : save = [saves[s] EXCEPT !.stage = "answered", !.id = id]
        OBVIOUS
    <3>2. id \in Nat
        BY <2>4, <2>5
    <3>3. /\ save \in Save /\ save.stage = "answered" /\ save.id = id
          /\ save.input = saves[s].input /\ save.waiting = saves[s].waiting
        BY <1>1, <3>1, <3>2 DEF Save
    <3>4. saves \in [Saves -> Save] /\ saves' = [saves EXCEPT ![s] = save]
        BY <2>5, <3>1 DEF Inv, TypeOK
    <3> QED
        BY <3>3, <3>4
  <2>7. UNCHANGED <<browserZone, connected, now, page, edited>>
      BY <1>4 DEF Insert
  <2>8. TypeOK'
      BY <2>4, <2>6, <2>7 DEF Inv, TypeOK
  <2>9. \A n \in DOMAIN goals : n \in DOMAIN goals' /\ goals'[n] = goals[n]
      BY <2>4
  <2>10. SavesSound'
    <3>1. SaveSound(s)'
        BY <1>1, <2>2, <2>4, <2>6, <2>7 DEF SaveSound
    <3>2. ASSUME NEW r \in Saves, r # s PROVE SaveSound(r)'
        BY <2>6, <2>7, <2>9, <3>2 DEF Inv, SavesSound, SaveSound, CanRun
    <3> QED
        BY <3>1, <3>2 DEF SavesSound
  <2>11. GoalsCanRun'
    <3>1. ASSUME NEW n \in DOMAIN goals' PROVE GoalRuns(goals'[n])
      <4>1. CASE n = Len(goals')
          BY <2>2, <2>4, <4>1
      <4>2. CASE n # Len(goals')
        <5>1. n \in DOMAIN goals
            BY <2>4, <4>2
        <5> QED
            BY <2>9, <5>1 DEF Inv, GoalsCanRun
      <4> QED
          BY <4>1, <4>2
    <3> QED
        BY <3>1 DEF GoalsCanRun, GoalRuns
  <2>12. LinkOpensThisGoal'
      BY <2>7, <2>9 DEF Inv, LinkOpensThisGoal
  <2> QED
      BY <2>8, <2>10, <2>11, <2>12 DEF Inv
<1>5. CASE Refuse(s)
  <2>1. PICK save : save = [saves[s] EXCEPT !.stage = "answered"]
      OBVIOUS
  <2>2. /\ save \in Save /\ save.stage = "answered" /\ save.id = saves[s].id
        /\ save.input = saves[s].input /\ save.waiting = saves[s].waiting
      BY <1>1, <2>1 DEF Save
  <2>3. /\ saves' = [saves EXCEPT ![s] = save]
        /\ UNCHANGED <<browserZone, connected, now, page, edited, goals>>
      BY <1>5, <2>1 DEF Refuse, Inv, TypeOK
  <2>4. LinkOpensThisGoal'
      BY <2>3 DEF Inv, LinkOpensThisGoal
  <2> QED
      BY <1>1, <2>2, <2>3, <2>4, OneSaveKeeps DEF SaveSound
<1>6. CASE Deliver(s)
  <2>1. /\ saves[s].waiting /\ saves' = [saves EXCEPT ![s] = NoSave]
        /\ UNCHANGED <<browserZone, connected, now, edited, goals>>
      BY <1>6 DEF Deliver
  <2>2. NoSave.stage = "idle" /\ NoSave.id = 0 /\ ~NoSave.waiting
      BY DEF NoSave
  <2>3. CASE saves[s].id # 0
    <3>1. page' = [page EXCEPT !.saveStatus = "saved", !.savedGoalId = saves[s].id]
        BY <1>6, <2>3 DEF Deliver
    <3>2. page' \in Page /\ page'.input = page.input /\ page'.savedGoalId = saves[s].id
        BY <1>1, <3>1 DEF Page, Save
    <3>3. LinkOpensThisGoal'
        BY <1>1, <2>1, <2>3, <3>2 DEF SaveSound, LinkOpensThisGoal
    <3> QED
        BY <2>1, <2>2, <3>2, <3>3, NoSaveType, OneSaveKeeps
  <2>4. CASE saves[s].id = 0
    <3>1. page' = [page EXCEPT !.saveStatus = "error"]
        BY <1>6, <2>4 DEF Deliver
    <3>2. /\ page' \in Page /\ page'.input = page.input
          /\ page'.savedGoalId = page.savedGoalId
        BY <1>1, <3>1 DEF Page
    <3>3. LinkOpensThisGoal'
        BY <2>1, <3>2 DEF Inv, LinkOpensThisGoal
    <3> QED
        BY <2>1, <2>2, <3>2, <3>3, NoSaveType, OneSaveKeeps
  <2> QED
      BY <2>3, <2>4
<1>7. CASE Unreached(s)
  <2>1. PICK save : save = [saves[s] EXCEPT !.waiting = FALSE]
      OBVIOUS
  <2>2. /\ save \in Save /\ save.stage = saves[s].stage /\ save.id = saves[s].id
        /\ save.input = saves[s].input /\ ~save.waiting
        /\ save.draft = saves[s].draft /\ save.checkedAt = saves[s].checkedAt
        /\ save.market = saves[s].market
      BY <1>1, <2>1 DEF Save
  <2>3. /\ saves' = [saves EXCEPT ![s] = save]
        /\ UNCHANGED <<browserZone, connected, now, edited, goals>>
      BY <1>7, <2>1 DEF Unreached, Inv, TypeOK
  <2>4. /\ page' \in Page /\ page'.input = page.input
        /\ page'.savedGoalId = page.savedGoalId
      BY <1>1, <1>7 DEF Unreached, Page
  <2>5. LinkOpensThisGoal'
      BY <2>3, <2>4 DEF Inv, LinkOpensThisGoal
  <2> QED
      BY <1>1, <2>2, <2>3, <2>4, <2>5, OneSaveKeeps DEF SaveSound
<1>8. CASE Forget(s)
  <2>1. /\ saves' = [saves EXCEPT ![s] = NoSave]
        /\ UNCHANGED <<browserZone, connected, now, page, edited, goals>>
      BY <1>8 DEF Forget
  <2>2. NoSave.stage = "idle" /\ NoSave.id = 0 /\ ~NoSave.waiting
      BY DEF NoSave
  <2>3. LinkOpensThisGoal'
      BY <2>1 DEF Inv, LinkOpensThisGoal
  <2> QED
      BY <1>1, <2>1, <2>2, <2>3, NoSaveType, OneSaveKeeps
<1> QED
    BY <1>2, <1>3, <1>4, <1>5, <1>6, <1>7, <1>8, <1>9 DEF SaveStep

LEMMA InitInv == Init => Inv
<1> SUFFICES ASSUME Init PROVE Inv
    OBVIOUS
<1>1. /\ NoSave.stage = "idle" /\ NoSave.id = 0 /\ ~NoSave.waiting
      /\ page.savedGoalId = 0
    BY DEF NoSave, Init, Opened
<1>2. page \in Page
    BY ComposerAssumption DEF Init, Opened, Page
<1>3. saves \in [Saves -> Save] /\ \A s \in Saves : saves[s] = NoSave
    BY NoSaveType DEF Init
<1>4. goals \in Seq(Goal) /\ DOMAIN goals = {}
    BY DEF Init
<1>5. TypeOK
    BY <1>2, <1>3, <1>4 DEF Init, TypeOK
<1>6. SavesSound
    BY <1>1, <1>3 DEF SavesSound, SaveSound
<1>7. GoalsCanRun /\ LinkOpensThisGoal
    BY <1>1, <1>4 DEF Init, GoalsCanRun, LinkOpensThisGoal
<1> QED
    BY <1>5, <1>6, <1>7 DEF Inv

LEMMA NextInv == ASSUME Inv, [Next]_vars PROVE Inv'
<1>1. ASSUME (\E input \in Inputs : Update(input)) \/ Submit \/ Reload PROVE Inv'
    BY <1>1, PageStep
<1>2. ASSUME NEW s \in Saves, SaveDraft(s) \/ SaveStep(s) PROVE Inv'
    BY <1>2, SaveMoves
<1>3. CASE Tick \/ ConnectionChanges \/ UNCHANGED vars
  <2>1. UNCHANGED <<browserZone, page, edited, saves, goals>>
      BY <1>3 DEF Tick, ConnectionChanges, vars
  <2>2. now \in Nat /\ connected \in BOOLEAN
      BY DEF Inv, TypeOK
  <2>3. now' = now + 1 \/ now' = now
      BY <1>3 DEF Tick, ConnectionChanges, vars
  <2>4. connected' = ~connected \/ connected' = connected
      BY <1>3, Zenon DEF Tick, ConnectionChanges, vars
  <2>5. now' \in Nat
      BY <2>2, <2>3
  <2>6. connected' \in BOOLEAN
      BY <2>2, <2>4, Zenon
  <2>7. TypeOK'
      BY <2>1, <2>5, <2>6 DEF Inv, TypeOK
  <2>8. SavesSound' /\ GoalsCanRun' /\ LinkOpensThisGoal'
      BY <2>1 DEF Inv, SavesSound, SaveSound, GoalsCanRun, LinkOpensThisGoal,
                  CanRun, GoalRuns
  <2> QED
      BY <2>7, <2>8 DEF Inv
<1> QED
    BY <1>1, <1>2, <1>3 DEF Next

LEMMA Invariance == Spec => []Inv
<1>1. Inv /\ [Next]_vars => Inv'
    BY NextInv
<1> QED
    BY InitInv, <1>1, PTL DEF Spec

-----------------------------------------------------------------------------

\* The form, the saves and the goals table keep their types: whatever is typed,
\* every amount in the table is a number.
THEOREM ComposerTypeCorrect == Spec => []TypeOK
<1>1. Inv => TypeOK
    BY DEF Inv
<1> QED
    BY Invariance, <1>1, PTL

\* Whatever is typed, however late and in whatever zones, a goal in the table had
\* its checkpoint ahead of it when it was accepted, and a floor it can honour.
THEOREM SavedGoalsRun == Spec => []SavedGoalsCanRun
<1>1. Inv => SavedGoalsCanRun
    BY DEF Inv, GoalsCanRun, GoalRuns, SavedGoalsCanRun
<1> QED
    BY Invariance, <1>1, PTL

\* The link opens a saved goal, that of the form's text unless it was edited late.
THEOREM LinkOpensIt == Spec => []LinkOpensThisGoal
<1>1. Inv => LinkOpensThisGoal
    BY DEF Inv
<1> QED
    BY Invariance, <1>1, PTL

LEMMA AwaitedKept == ASSUME Inv, SavingIsAwaited, [Next]_vars PROVE SavingIsAwaited'
<1> USE DEF Inv, TypeOK, SavingIsAwaited, Waiting
<1>1. ASSUME \/ \E input \in Inputs : Update(input)
             \/ Submit \/ Reload \/ Tick \/ ConnectionChanges \/ UNCHANGED vars
      PROVE  SavingIsAwaited'
  <2>1. ASSUME NEW input \in Inputs, Update(input) PROVE page'.saveStatus # "saving"
      BY <2>1 DEF Update, Page
  <2>2. ASSUME Reload PROVE page'.saveStatus # "saving"
      BY <2>2 DEF Reload, Opened
  <2>3. ASSUME Submit \/ Tick \/ ConnectionChanges \/ UNCHANGED vars
        PROVE  UNCHANGED saves /\ page'.saveStatus = page.saveStatus
      BY <2>3 DEF Submit, Tick, ConnectionChanges, vars, Page
  <2> QED
      BY <1>1, <2>1, <2>2, <2>3
<1>2. ASSUME NEW s \in Saves, SaveDraft(s) PROVE SavingIsAwaited'
  <2>1. saves'[s].waiting
      BY <1>2 DEF SaveDraft, NoSave
  <2> QED
      BY <2>1
<1>3. ASSUME NEW s \in Saves, Deliver(s) \/ Unreached(s) PROVE page'.saveStatus # "saving"
    BY <1>3 DEF Deliver, Unreached, Page
<1>4. ASSUME NEW s \in Saves,
             Authorize(s) \/ Check(s) \/ Insert(s) \/ Refuse(s) \/ Forget(s)
      PROVE  SavingIsAwaited'
  <2>1. UNCHANGED page
      BY <1>4 DEF Authorize, Check, Insert, Refuse, Forget
  <2>2. ASSUME NEW t \in Saves, saves[t].waiting PROVE saves'[t].waiting
    <3>1. CASE t = s
      <4>1. ASSUME Check(s) PROVE saves'[s].waiting = saves[s].waiting
          BY <4>1 DEF Check, Save
      <4>2. ASSUME Authorize(s) \/ Insert(s) \/ Refuse(s) \/ Forget(s)
            PROVE  Forget(s) \/ saves'[s].waiting = saves[s].waiting
          BY <4>2 DEF Authorize, Insert, Refuse, Save
      <4>3. Forget(s) => ~saves[s].waiting
          BY DEF Forget
      <4> QED
          BY <1>4, <2>2, <3>1, <4>1, <4>2, <4>3
    <3>2. CASE t # s
        BY <1>4, <2>2, <3>2 DEF Authorize, Check, Insert, Refuse, Forget
    <3> QED
        BY <3>1, <3>2
  <2> QED
      BY <2>1, <2>2
<1> QED
    BY <1>1, <1>2, <1>3, <1>4 DEF Next, SaveStep

\* A form that says it is saving waits for a save, also of two under way.
THEOREM SavingNeverStuck == Spec => []SavingIsAwaited
<1>1. Init => SavingIsAwaited
    BY DEF Init, Opened, SavingIsAwaited
<1>2. Inv /\ SavingIsAwaited /\ [Next]_vars => SavingIsAwaited'
    BY AwaitedKept
<1> QED
    BY Invariance, <1>1, <1>2, PTL DEF Spec

-----------------------------------------------------------------------------
(* What the link opens was previewed.                                      *)

\* The page accepts a text as it is now.
Accepts(input) ==
    validateGoalDraft(input, page.validationNow, browserZone, page.market) # Rejected

\* What the server made of a text, when it checked it, for the market it had then.
Checked(save) ==
    validateGoalDraft(save.input, save.checkedAt, ServerZone, save.market)

\* A row holds what a draft says.
Holds(goal, draft) ==
    /\ draft # Rejected
    /\ goal.sellAmount = draft.sellAmount /\ goal.deadline = draft.deadline
    /\ goal.preferredBuyAmount = draft.preferredBuyAmount
    /\ goal.minimumBuyAmount = draft.minimumBuyAmount

\* What is checked, and what is saved, is what its own text makes in the server's
\* zone; what the page waits for, and what it links to, is text that it accepted.
Previewed ==
    /\ \A s \in Saves :
         /\ saves[s].stage = "checked" => saves[s].draft = Checked(saves[s])
         /\ saves[s].waiting => Accepts(saves[s].input)
    /\ \A n \in DOMAIN goals : Holds(goals[n], Checked(goals[n]))
    /\ page.savedGoalId # 0 => Accepts(goals[page.savedGoalId].input)

\* One text read twice: by the page at time t in zone y for market m, and by the
\* server at time u in zone z for market n.  When both accept it, the page would
\* also accept it for n, with the server's amounts, and the instants differ by
\* the zones alone.
LEMMA ReadTwice ==
    ASSUME NEW input \in Input, NEW t \in Nat, NEW u \in Nat, NEW y \in Int, NEW z \in Int,
           NEW m \in Market, NEW n \in Market,
           NEW shown, shown = validateGoalDraft(input, t, y, m), shown # Rejected,
           NEW saved, saved = validateGoalDraft(input, u, z, n), saved # Rejected,
           NEW read, read = validateGoalDraft(input, t, y, n)
    PROVE  /\ read # Rejected
           /\ saved.sellAmount = read.sellAmount
           /\ saved.preferredBuyAmount = read.preferredBuyAmount
           /\ saved.minimumBuyAmount = read.minimumBuyAmount
           /\ saved.deadline = shown.deadline + (y - z)
           /\ checkpointAt(saved.deadline) = shown.checkpointAt + (y - z)
<1>1. PICK sell : sell = parseTokenAmount(input.sellAmount, n.sellDecimals)
    OBVIOUS
<1>2. PICK preferred : preferred = parseTokenAmount(input.preferredBuyAmount, n.buyDecimals)
    OBVIOUS
<1>3. PICK minimum : minimum = parseTokenAmount(input.minimumBuyAmount, n.buyDecimals)
    OBVIOUS
<1>4. /\ ~(input.deadline - y < t + MINIMUM_GOAL_DURATION_MS)
      /\ shown.deadline = input.deadline - y
      /\ shown.checkpointAt = checkpointAt(input.deadline - y)
    BY DEF validateGoalDraft, DateParse
<1>5. /\ NoAmount \notin {sell, preferred, minimum} /\ ~(minimum > preferred)
      /\ saved = [sellAmount |-> sell, preferredBuyAmount |-> preferred,
                  minimumBuyAmount |-> minimum, deadline |-> input.deadline - z,
                  checkpointAt |-> checkpointAt(input.deadline - z)]
    BY <1>1, <1>2, <1>3 DEF validateGoalDraft, DateParse
<1>6. read = [sellAmount |-> sell, preferredBuyAmount |-> preferred,
              minimumBuyAmount |-> minimum, deadline |-> input.deadline - y,
              checkpointAt |-> checkpointAt(input.deadline - y)]
    BY <1>1, <1>2, <1>3, <1>4, <1>5 DEF validateGoalDraft, DateParse
<1>7. read # Rejected
    BY <1>6 DEF Rejected
<1>8. /\ saved.sellAmount = read.sellAmount
      /\ saved.preferredBuyAmount = read.preferredBuyAmount
      /\ saved.minimumBuyAmount = read.minimumBuyAmount
      /\ saved.deadline = input.deadline - z
    BY <1>5, <1>6
<1>9. input.deadline \in Int /\ CHECKPOINT_LEAD_TIME_MS \in Int
    BY GoalDraftAssumption DEF Input
<1>10. input.deadline - z = input.deadline - y + (y - z)
    BY <1>9
<1>11. checkpointAt(input.deadline - z) = checkpointAt(input.deadline - y) + (y - z)
    BY <1>9 DEF checkpointAt
<1> QED
    BY <1>4, <1>7, <1>8, <1>10, <1>11

LEMMA PreviewedKept == ASSUME Inv, Previewed, [Next]_vars PROVE Previewed'
<1> USE DEF Inv, Previewed, Accepts, Checked, Holds
<1>0. saves \in [Saves -> Save] /\ page \in Page
    BY DEF TypeOK
<1>1. ASSUME NEW input \in Inputs, Update(input) PROVE Previewed'
  <2>1. page'.savedGoalId = 0 /\ page'.validationNow = page.validationNow
        /\ page'.market = page.market /\ UNCHANGED <<browserZone, saves, goals>>
      BY <1>0, <1>1 DEF Update, Page
  <2> QED
      BY <2>1
<1>2. CASE Reload
  <2>1. page'.savedGoalId = 0 /\ UNCHANGED goals
      BY <1>2 DEF Reload, Opened
  <2>2. \A s \in Saves :
           /\ ~saves'[s].waiting /\ saves'[s].stage = saves[s].stage
           /\ saves'[s].draft = saves[s].draft /\ saves'[s].input = saves[s].input
           /\ saves'[s].checkedAt = saves[s].checkedAt
           /\ saves'[s].market = saves[s].market
      BY <1>0, <1>2 DEF Reload, Save
  <2> QED
      BY <2>1, <2>2
<1>3. CASE Submit \/ Tick \/ ConnectionChanges \/ UNCHANGED vars
  <2>1. /\ page'.savedGoalId = page.savedGoalId
        /\ page'.validationNow = page.validationNow /\ page'.market = page.market
        /\ UNCHANGED <<browserZone, saves, goals>>
      BY <1>0, <1>3 DEF Submit, Tick, ConnectionChanges, vars, Page
  <2> QED
      BY <2>1
<1>4. ASSUME NEW s \in Saves, SaveDraft(s) PROVE Previewed'
  <2>1. /\ page'.savedGoalId = page.savedGoalId
        /\ page'.validationNow = page.validationNow /\ page'.market = page.market
        /\ UNCHANGED <<browserZone, goals>> /\ Accepts(page.input)
      BY <1>0, <1>4 DEF SaveDraft, Page, Preview, ReadIn
  <2>2. /\ saves'[s].stage = "sent" /\ saves'[s].input = page.input
        /\ \A r \in Saves : r # s => saves'[r] = saves[r]
      BY <1>0, <1>4 DEF SaveDraft, NoSave
  <2> QED
      BY <2>1, <2>2
<1>5. ASSUME NEW s \in Saves, Check(s) PROVE Previewed'
  <2>1. PICK market \in Markets :
          saves' = [saves EXCEPT
            ![s].stage = "checked", ![s].market = market,
            ![s].draft = validateGoalDraft(saves[s].input, now, ServerZone, market),
            ![s].checkedAt = now]
      BY <1>5 DEF Check, ServerNow, DraftMarket
  <2>2. PICK draft : draft = validateGoalDraft(saves[s].input, now, ServerZone, market)
      OBVIOUS
  <2>3. /\ saves'[s].draft = draft /\ saves'[s].market = market
        /\ saves'[s].checkedAt = now /\ saves'[s].input = saves[s].input
        /\ saves'[s].waiting = saves[s].waiting
        /\ \A r \in Saves : r # s => saves'[r] = saves[r]
      BY <1>0, <2>1, <2>2 DEF Save
  <2>4. UNCHANGED <<browserZone, page, goals>>
      BY <1>5 DEF Check
  <2> QED
      BY <2>2, <2>3, <2>4
<1>6. ASSUME NEW s \in Saves, Insert(s) PROVE Previewed'
  <2>1. /\ saves'[s].stage = "answered" /\ saves'[s].input = saves[s].input
        /\ saves'[s].waiting = saves[s].waiting
        /\ \A r \in Saves : r # s => saves'[r] = saves[r]
        /\ UNCHANGED <<browserZone, page>>
      BY <1>0, <1>6 DEF Insert, Save
  <2>2. PICK row : row = Row(s)
      OBVIOUS
  <2>3. row \in Goal /\ Holds(row, Checked(row))
    <3>1. PICK save \in Save : /\ save = saves[s] /\ save.draft = Checked(save)
                              /\ save.draft \in Draft /\ save.market \in Markets
        BY <1>0, <1>6 DEF Insert, SavesSound, SaveSound, CanRun
    <3>2. /\ row.input = save.input /\ row.checkedAt = save.checkedAt
          /\ row.market = save.market /\ row.sellAmount = save.draft.sellAmount
          /\ row.preferredBuyAmount = save.draft.preferredBuyAmount
          /\ row.minimumBuyAmount = save.draft.minimumBuyAmount
          /\ row.deadline = save.draft.deadline /\ row \in Goal
        BY <2>2, <3>1 DEF Row, Goal, Save, Draft
    <3>3. Checked(row) = save.draft /\ save.draft # Rejected
        BY <3>1, <3>2 DEF Draft, Rejected
    <3> QED
        BY <3>2, <3>3
  <2>4. goals \in Seq(Goal) /\ goals' = Append(goals, row)
      BY <1>6, <2>2 DEF Insert, TypeOK
  <2>5. /\ DOMAIN goals = 1..Len(goals) /\ DOMAIN goals' = 1..(Len(goals) + 1)
        /\ Len(goals) \in Nat /\ goals'[Len(goals) + 1] = row
        /\ \A n \in 1..Len(goals) : goals'[n] = goals[n]
      BY <2>3, <2>4
  <2>6. \A n \in DOMAIN goals' : Holds(goals'[n], Checked(goals'[n]))
    <3>1. \A n \in DOMAIN goals' : n \in DOMAIN goals \/ n = Len(goals) + 1
        BY <2>5
    <3> QED
        BY <2>3, <2>5, <3>1
  <2>7. page.savedGoalId # 0 => goals'[page.savedGoalId] = goals[page.savedGoalId]
      BY <2>5 DEF LinkOpensThisGoal
  <2> QED
      BY <2>1, <2>6, <2>7
<1>7. ASSUME NEW s \in Saves, Authorize(s) \/ Refuse(s) \/ Forget(s)
      PROVE  Previewed'
  <2>1. /\ saves'[s].stage \in {"authorized", "answered", "idle"}
        /\ saves'[s].waiting => saves[s].waiting /\ saves'[s].input = saves[s].input
        /\ \A r \in Saves : r # s => saves'[r] = saves[r]
        /\ UNCHANGED <<browserZone, page, goals>>
      BY <1>0, <1>7 DEF Authorize, Refuse, Forget, Save, NoSave
  <2> QED
      BY <2>1
<1>8. ASSUME NEW s \in Saves, Unreached(s) PROVE Previewed'
  <2>1. /\ saves'[s].stage = saves[s].stage /\ ~saves'[s].waiting
        /\ saves'[s].draft = saves[s].draft /\ saves'[s].input = saves[s].input
        /\ saves'[s].checkedAt = saves[s].checkedAt /\ saves'[s].market = saves[s].market
        /\ \A r \in Saves : r # s => saves'[r] = saves[r]
      BY <1>0, <1>8 DEF Unreached, Save
  <2>2. /\ page'.savedGoalId = page.savedGoalId
        /\ page'.validationNow = page.validationNow /\ page'.market = page.market
        /\ UNCHANGED <<browserZone, goals>>
      BY <1>0, <1>8 DEF Unreached, Page
  <2> QED
      BY <2>1, <2>2
<1>9. ASSUME NEW s \in Saves, Deliver(s) PROVE Previewed'
  <2>1. /\ saves'[s].stage = "idle" /\ ~saves'[s].waiting /\ saves[s].waiting
        /\ \A r \in Saves : r # s => saves'[r] = saves[r]
        /\ UNCHANGED <<browserZone, goals>>
      BY <1>0, <1>9 DEF Deliver, NoSave
  <2>2. /\ page'.validationNow = page.validationNow /\ page'.market = page.market
        /\ \/ page'.savedGoalId = page.savedGoalId
           \/ page'.savedGoalId = saves[s].id /\ saves[s].id # 0
      BY <1>0, <1>9 DEF Deliver, Page
  <2>3. saves[s].id # 0 => goals[saves[s].id].input = saves[s].input
      BY DEF SavesSound, SaveSound
  <2> QED
      BY <2>1, <2>2, <2>3
<1> QED
    BY <1>1, <1>2, <1>3, <1>4, <1>5, <1>6, <1>7, <1>8, <1>9 DEF Next, SaveStep

\* What a saved goal holds is what the form's text says, in the units of the goal's
\* market, with the previewed instants moved by the difference of the zones: for any
\* texts, markets, durations and zones.
THEOREM SavedIsPreviewed == Spec => []SavedAsPreviewed
<1>1. Init => Previewed
    BY DEF Init, Previewed, Opened, NoSave
<1>2. Inv /\ Previewed /\ [Next]_vars => Previewed'
    BY PreviewedKept
<1>3. Inv /\ Previewed => SavedAsPreviewed
  <2> SUFFICES ASSUME Inv, Previewed, page.savedGoalId # 0,
                      goals[page.savedGoalId].input = page.input
               PROVE  LET goal == goals[page.savedGoalId]
                          read == ReadIn(goal.market)
                          apart == browserZone - ServerZone
                      IN  /\ Preview # Rejected /\ read # Rejected
                          /\ goal.sellAmount = read.sellAmount
                          /\ goal.preferredBuyAmount = read.preferredBuyAmount
                          /\ goal.minimumBuyAmount = read.minimumBuyAmount
                          /\ goal.deadline = Preview.deadline + apart
                          /\ checkpointAt(goal.deadline) = Preview.checkpointAt + apart
      BY DEF SavedAsPreviewed
  <2>1. PICK goal \in Goal : /\ goal = goals[page.savedGoalId] /\ goal.input = page.input
                             /\ Holds(goal, Checked(goal))
      BY DEF Inv, TypeOK, LinkOpensThisGoal, Previewed
  <2>2. PICK saved : /\ Holds(goal, saved)
                     /\ saved = validateGoalDraft(page.input, goal.checkedAt, ServerZone,
                                                  goal.market)
      BY <2>1 DEF Checked
  <2>3. Preview # Rejected
      BY DEF Previewed, Accepts, Preview, ReadIn
  <2>4. /\ page.input \in Input /\ page.validationNow \in Nat /\ goal.checkedAt \in Nat
        /\ browserZone \in Int /\ ServerZone \in Int
        /\ page.market \in Market /\ goal.market \in Market
      BY ComposerAssumption DEF Inv, TypeOK, Page, Goal
  <2>5. PICK shown : /\ shown = Preview
                     /\ shown = validateGoalDraft(page.input, page.validationNow,
                                                  browserZone, page.market)
      BY DEF Preview, ReadIn
  <2>6. PICK read : /\ read = ReadIn(goal.market)
                    /\ read = validateGoalDraft(page.input, page.validationNow,
                                                browserZone, goal.market)
      BY DEF ReadIn
  <2>7. shown # Rejected /\ saved # Rejected
      BY <2>2, <2>3, <2>5 DEF Holds
  <2>8. /\ read # Rejected
        /\ saved.sellAmount = read.sellAmount
        /\ saved.preferredBuyAmount = read.preferredBuyAmount
        /\ saved.minimumBuyAmount = read.minimumBuyAmount
        /\ saved.deadline = shown.deadline + (browserZone - ServerZone)
        /\ checkpointAt(saved.deadline) =
              shown.checkpointAt + (browserZone - ServerZone)
      BY <2>2, <2>4, <2>5, <2>6, <2>7, ReadTwice
  <2> QED
      BY <2>1, <2>2, <2>3, <2>5, <2>6, <2>8 DEF Holds
<1> QED
    BY Invariance, <1>1, <1>2, <1>3, PTL DEF Spec
=============================================================================

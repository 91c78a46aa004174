--------------------------- MODULE Parachain_proofs ---------------------------
(***************************************************************************)
(* Proofs about Parachain, for every chain, window, lag and number of      *)
(* restarts. The type invariant and KeepsLatestOfAWidth hold for all block *)
(* numbers. The rest is under SameWidth: while the block numbers have the  *)
(* same number of digits (SameDigitsSameWidth) the string arithmetic of    *)
(* window_parachain agrees with the integers.                              *)
(***************************************************************************)
EXTENDS Parachain, FiniteSetTheorems, WellFoundedInduction, TLAPS

\* The boot turn works on the empty document spawn_parachains has left.
BootIsClean ==
  pc = "boot" => DOMAIN doc = {} /\ want = {} /\ DOMAIN batch = {}

\* Between two turns the document is not empty and nothing is in flight.
SleepIsQuiet ==
  pc = "sleep" => DOMAIN doc # {} /\ want = {} /\ DOMAIN batch = {}

\* The blocks fetched and to be fetched continue the document without a gap, and
\* stay below the tip.
FetchContinuesDoc ==
  pc \in {"fetch", "dead"} =>
    \E lo, p, q \in Height :
      /\ lo <= p /\ p <= q /\ q < tip
      /\ p - lo <= Window
      /\ DOMAIN doc = lo .. (p - 1)
      /\ want \cup DOMAIN batch = p .. q

\* The inductive invariant.
PInv ==
  /\ PTypeOK
  /\ DocIsRecentRun
  /\ BootIsClean
  /\ SleepIsQuiet
  /\ FetchContinuesDoc

-----------------------------------------------------------------------------
(* Block numbers as strings.                                               *)

\* Induction over the numbers below.
LEMMA StrongInduction ==
  ASSUME NEW S, \A n \in Nat : (\A m \in Nat : m < n => m \in S) => n \in S
  PROVE  Nat \subseteq S
<1> DEFINE R == OpToRel(<, Nat)
           T == Nat \ S
<1>1. SUFFICES ASSUME T # {} PROVE FALSE
  OBVIOUS
<1>2. PICK a \in T : \A b \in T : <<b, a>> \notin R
  <2>1. T \subseteq Nat
    OBVIOUS
  <2> HIDE DEF T, R
  <2>2. IsWellFoundedOn(R, Nat)
    BY NatLessThanWellFounded DEF R
  <2> QED BY <1>1, <2>1, <2>2, WFMin
<1>3. \A b \in T : <<b, a>> \in R <=> b < a
  BY DEF OpToRel
<1>4. \A m \in Nat : m < a => m \in S
  BY <1>2, <1>3
<1> QED BY <1>4

\* The numeral of i from those of smaller numbers.
Digits(f, i) == IF i < 10 THEN <<i>> ELSE Append(f[i \div 10], i % 10)

NumeralsTo(f, n) == f \in [0 .. n -> Seq(Nat)] /\ \A i \in 0 .. n : f[i] = Digits(f, i)

LEMMA Tenth == \A i \in Nat : i \div 10 \in Nat /\ i % 10 \in Nat /\ i = 10 * (i \div 10) + (i % 10)
                              /\ i % 10 < 10 /\ (i > 0 => i \div 10 < i)
  OBVIOUS

LEMMA NumeralsExist == \A n \in Nat : \E f : NumeralsTo(f, n)
<1> DEFINE S == {n \in Nat : \E f : NumeralsTo(f, n)}
<1>1. ASSUME NEW n \in Nat, \A m \in Nat : m < n => m \in S PROVE n \in S
  <2>1. CASE n = 0
    <3>1. NumeralsTo([i \in 0 .. 0 |-> <<0>>], 0)
      BY DEF NumeralsTo, Digits
    <3> QED BY <2>1, <3>1
  <2>2. CASE n > 0
    <3>1. n - 1 \in Nat /\ n - 1 < n
      BY <2>2
    <3>2. PICK f : NumeralsTo(f, n - 1)
      BY <1>1, <3>1
    <3> DEFINE g == [i \in 0 .. n |-> IF i = n THEN Digits(f, n) ELSE f[i]]
    <3>3. f \in [0 .. n - 1 -> Seq(Nat)] /\ \A i \in 0 .. n - 1 : f[i] = Digits(f, i)
      BY <3>2 DEF NumeralsTo
    <3>4. Digits(f, n) \in Seq(Nat)
      <4>1. CASE n < 10
        BY <4>1 DEF Digits
      <4>2. CASE ~(n < 10)
        <5>1. n \div 10 \in 0 .. n - 1 /\ n % 10 \in Nat
          BY <4>2, Tenth
        <5> QED BY <3>3, <4>2, <5>1 DEF Digits
      <4> QED BY <4>1, <4>2
    <3>5. g \in [0 .. n -> Seq(Nat)] /\ \A i \in 0 .. n : g[i] = IF i = n THEN Digits(f, n) ELSE f[i]
      BY <3>3, <3>4
    <3> HIDE DEF g
    <3>6. ASSUME NEW i \in 0 .. n PROVE g[i] = Digits(g, i)
      <4>1. g[i] = Digits(f, i)
        BY <3>3, <3>5
      <4>2. i >= 10 => i \div 10 \in 0 .. n /\ i \div 10 # n
        BY Tenth
      <4>3. i >= 10 => g[i \div 10] = f[i \div 10]
        BY <3>5, <4>2
      <4> QED BY <4>1, <4>3 DEF Digits
    <3>7. NumeralsTo(g, n)
      BY <3>5, <3>6 DEF NumeralsTo
    <3> QED BY <3>7
  <2> QED BY <2>1, <2>2
<1> HIDE DEF S
<1>2. Nat \subseteq S
  BY <1>1, StrongInduction
<1> QED BY <1>2 DEF S

LEMMA NumeralsAgree ==
  ASSUME NEW m \in Nat, NEW n \in Nat, NEW f, NEW g, NumeralsTo(f, m), NumeralsTo(g, n)
  PROVE  \A i \in Nat : i <= m /\ i <= n => f[i] = g[i]
<1> DEFINE S == {i \in Nat : i <= m /\ i <= n => f[i] = g[i]}
<1>1. ASSUME NEW i \in Nat, \A j \in Nat : j < i => j \in S PROVE i \in S
  <2> SUFFICES ASSUME i <= m, i <= n PROVE f[i] = g[i]
    OBVIOUS
  <2>1. f[i] = Digits(f, i) /\ g[i] = Digits(g, i)
    BY DEF NumeralsTo
  <2>2. i >= 10 => i \div 10 \in Nat /\ i \div 10 < i
    BY Tenth
  <2>3. i >= 10 => f[i \div 10] = g[i \div 10]
    BY <1>1, <2>2
  <2> QED BY <2>1, <2>3 DEF Digits
<1> HIDE DEF S
<1>2. Nat \subseteq S
  BY <1>1, StrongInduction
<1> QED BY <1>2 DEF S

\* What the recursion of Numeral defines.
LEMMA NumeralStep ==
  \A n \in Nat : Numeral[n] \in Seq(Nat) /\ Numeral[n] = Digits(Numeral, n)
<1> DEFINE F(n) == CHOOSE f : NumeralsTo(f, n)
           h == [n \in Nat |-> F(n)[n]]
           Rec(k) == k = [n \in Nat |-> IF n < 10 THEN <<n>> ELSE Append(k[n \div 10], n % 10)]
<1>1. \A n \in Nat : NumeralsTo(F(n), n)
  BY NumeralsExist
<1> HIDE DEF F
<1>2. \A n \in Nat : h[n] = F(n)[n] /\ h[n] \in Seq(Nat)
  BY <1>1 DEF NumeralsTo
<1>3. ASSUME NEW n \in Nat PROVE h[n] = Digits(h, n)
  <2>1. h[n] = Digits(F(n), n)
    BY <1>1, <1>2 DEF NumeralsTo
  <2>2. ASSUME n >= 10 PROVE h[n \div 10] = F(n)[n \div 10]
    <3>1. n \div 10 \in Nat /\ n \div 10 <= n
      BY <2>2, Tenth
    <3>2. F(n \div 10)[n \div 10] = F(n)[n \div 10]
      BY <1>1, <3>1, NumeralsAgree
    <3> QED BY <1>2, <3>1, <3>2
  <2> QED BY <2>1, <2>2 DEF Digits
<1>4. Rec(h)
  <2>1. h = [n \in Nat |-> h[n]]
    OBVIOUS
  <2> HIDE DEF h
  <2> QED BY <1>3, <2>1 DEF Digits
<1>5. Rec(Numeral)
  <2>1. Numeral = CHOOSE k : Rec(k)
    BY DEF Numeral
  <2>2. \E k : Rec(k)
    BY <1>4
  <2> HIDE DEF Rec, h
  <2> QED BY <2>1, <2>2
<1>6. \A n \in Nat : Numeral[n] = Digits(Numeral, n)
  BY <1>5 DEF Digits
<1> DEFINE S == {n \in Nat : Numeral[n] \in Seq(Nat)}
<1>7. ASSUME NEW n \in Nat, \A m \in Nat : m < n => m \in S PROVE n \in S
  <2>1. CASE n < 10
    <3>1. Digits(Numeral, n) = <<n>>
      BY <2>1 DEF Digits
    <3>2. <<n>> \in Seq(Nat)
      OBVIOUS
    <3> QED BY <1>6, <3>1, <3>2
  <2>2. CASE ~(n < 10)
    <3>1. Numeral[n \div 10] \in Seq(Nat) /\ n % 10 \in Nat
      BY <1>7, <2>2, Tenth
    <3>2. Digits(Numeral, n) = Append(Numeral[n \div 10], n % 10)
      BY <2>2 DEF Digits
    <3>3. Append(Numeral[n \div 10], n % 10) \in Seq(Nat)
      BY <3>1
    <3> QED BY <1>6, <3>2, <3>3
  <2> QED BY <2>1, <2>2
<1> HIDE DEF S
<1>8. Nat \subseteq S
  BY <1>7, StrongInduction
<1> QED BY <1>6, <1>8 DEF S

LEMMA NumeralFacts ==
  \A n \in Nat : /\ Numeral[n] \in Seq(Nat)
                 /\ n < 10 => Numeral[n] = <<n>>
                 /\ n >= 10 => Numeral[n] = Append(Numeral[n \div 10], n % 10)
<1> SUFFICES ASSUME NEW n \in Nat
             PROVE  /\ Numeral[n] \in Seq(Nat)
                    /\ n < 10 => Numeral[n] = <<n>>
                    /\ n >= 10 => Numeral[n] = Append(Numeral[n \div 10], n % 10)
  OBVIOUS
<1>1. Numeral[n] \in Seq(Nat) /\ Numeral[n] = Digits(Numeral, n)
  BY NumeralStep
<1>2. n < 10 => Digits(Numeral, n) = <<n>>
  BY DEF Digits
<1>3. n >= 10 => Digits(Numeral, n) = Append(Numeral[n \div 10], n % 10)
  BY DEF Digits
<1> QED BY <1>1, <1>2, <1>3

LEMMA NumeralLen ==
  \A n \in Nat : /\ Len(Numeral[n]) \in Nat
                 /\ n < 10 => Len(Numeral[n]) = 1
                 /\ n >= 10 => Len(Numeral[n]) = Len(Numeral[n \div 10]) + 1
                 /\ Len(Numeral[n]) >= 1
<1> SUFFICES ASSUME NEW n \in Nat
             PROVE  /\ Len(Numeral[n]) \in Nat
                    /\ n < 10 => Len(Numeral[n]) = 1
                    /\ n >= 10 => Len(Numeral[n]) = Len(Numeral[n \div 10]) + 1
                    /\ Len(Numeral[n]) >= 1
  OBVIOUS
<1>1. CASE n < 10
  <2>1. Numeral[n] = <<n>>
    BY <1>1, NumeralFacts
  <2> QED BY <1>1, <2>1
<1>2. CASE n >= 10
  <2>1. Numeral[n] = Append(Numeral[n \div 10], n % 10) /\ n \div 10 \in Nat /\ n % 10 \in Nat
    BY <1>2, NumeralFacts, Tenth
  <2>2. Numeral[n \div 10] \in Seq(Nat)
    BY <2>1, NumeralFacts
  <2>3. Len(Numeral[n \div 10]) \in Nat
    BY <2>2
  <2>4. Len(Numeral[n]) = Len(Numeral[n \div 10]) + 1
    BY <2>1, <2>2
  <2> QED BY <1>2, <2>3, <2>4
<1> QED BY <1>1, <1>2

\* A greater number has as many digits or more.
LEMMA LongerIsGreater ==
  \A b \in Nat : \A a \in Nat : a <= b => Len(Numeral[a]) <= Len(Numeral[b])
<1> DEFINE S == {b \in Nat : \A a \in Nat : a <= b => Len(Numeral[a]) <= Len(Numeral[b])}
<1>1. ASSUME NEW b \in Nat, \A m \in Nat : m < b => m \in S PROVE b \in S
  <2> SUFFICES ASSUME NEW a \in Nat, a <= b PROVE Len(Numeral[a]) <= Len(Numeral[b])
    OBVIOUS
  <2>1. CASE a < 10
    BY <2>1, NumeralLen
  <2>2. CASE a >= 10
    <3>1. /\ a \div 10 \in Nat /\ b \div 10 \in Nat /\ b >= 10
          /\ a \div 10 <= b \div 10 /\ b \div 10 < b
      BY <2>2, Tenth
    <3>2. Len(Numeral[a \div 10]) <= Len(Numeral[b \div 10])
      BY <1>1, <3>1
    <3>3. /\ Len(Numeral[a]) = Len(Numeral[a \div 10]) + 1
          /\ Len(Numeral[b]) = Len(Numeral[b \div 10]) + 1
          /\ Len(Numeral[a \div 10]) \in Nat /\ Len(Numeral[b \div 10]) \in Nat
      BY <2>2, <3>1, NumeralLen
    <3> QED BY <3>2, <3>3
  <2> QED BY <2>1, <2>2
<1> HIDE DEF S
<1>2. Nat \subseteq S
  BY <1>1, StrongInduction
<1> QED BY <1>2 DEF S

\* The order of strings of one length, digit by digit.
LEMMA StrBeforeAppend ==
  ASSUME NEW s \in Seq(Nat), NEW t \in Seq(Nat), Len(s) = Len(t), NEW x \in Nat, NEW y \in Nat
  PROVE  StrBefore(Append(s, x), Append(t, y)) <=> StrBefore(s, t) \/ (s = t /\ x < y)
<1> DEFINE L == Len(s)
           u == Append(s, x)
           v == Append(t, y)
<1>1. /\ L \in Nat /\ Len(t) = L /\ Len(u) = L + 1 /\ Len(v) = L + 1
      /\ \A i \in 1 .. L : u[i] = s[i] /\ v[i] = t[i]
      /\ u[L + 1] = x /\ v[L + 1] = y
  OBVIOUS
<1>2. s = t <=> \A i \in 1 .. L : s[i] = t[i]
  OBVIOUS
<1>3. StrBefore(s, t) <=> \E k \in 1 .. L : (\A i \in 1 .. k - 1 : s[i] = t[i]) /\ s[k] < t[k]
  <2> HIDE DEF u, v
  <2>1. \A k \in 1 .. L : ~(k > L) /\ \A i \in 1 .. k - 1 : i <= L
    BY <1>1
  <2> QED BY <1>1, <2>1 DEF StrBefore
<1> HIDE DEF L, u, v
<1>4. StrBefore(u, v) <=> \E k \in 1 .. L + 1 : (\A i \in 1 .. k - 1 : u[i] = v[i]) /\ u[k] < v[k]
  <2>1. L \in Nat /\ Len(u) = L + 1 /\ Len(v) = L + 1
    BY <1>1
  <2>2. \A k \in 1 .. L + 1 : ~(k > L + 1) /\ \A i \in 1 .. k - 1 : i <= L + 1
    BY <2>1
  <2> QED BY <2>1, <2>2 DEF StrBefore
<1>5. ASSUME NEW k \in 1 .. L
      PROVE  (\A i \in 1 .. k - 1 : u[i] = v[i]) /\ u[k] < v[k]
               <=> (\A i \in 1 .. k - 1 : s[i] = t[i]) /\ s[k] < t[k]
  BY <1>1
<1>6. (\A i \in 1 .. (L + 1) - 1 : u[i] = v[i]) /\ u[L + 1] < v[L + 1] <=> s = t /\ x < y
  BY <1>1, <1>2
<1> QED
  <2>1. \A k : k \in 1 .. L + 1 <=> k \in 1 .. L \/ k = L + 1
    BY <1>1
  <2> QED BY <1>3, <1>4, <1>5, <1>6, <2>1 DEF u, v

LEMMA StrIrreflexive == \A s \in Seq(Nat) : ~StrBefore(s, s)
<1> SUFFICES ASSUME NEW s \in Seq(Nat), StrBefore(s, s) PROVE FALSE
  OBVIOUS
<1>1. PICK k \in 1 .. Len(s) : k > Len(s) \/ s[k] < s[k]
  BY DEF StrBefore
<1>2. s[k] \in Nat /\ k <= Len(s) /\ Len(s) \in Nat
  OBVIOUS
<1> QED BY <1>1, <1>2

\* Numerals of one length are ordered as their numbers.
LEMMA NumeralOrder ==
  \A b \in Nat : \A a, c \in Nat :
    a <= b /\ c <= b /\ Len(Numeral[a]) = Len(Numeral[c]) =>
      (StrBefore(Numeral[a], Numeral[c]) <=> a < c)
<1> DEFINE Ordered(a, c) ==
             Len(Numeral[a]) = Len(Numeral[c]) => (StrBefore(Numeral[a], Numeral[c]) <=> a < c)
           S == {b \in Nat : \A a, c \in Nat : a <= b /\ c <= b => Ordered(a, c)}
<1>1. ASSUME NEW b \in Nat, \A m \in Nat : m < b => m \in S PROVE b \in S
  <2> SUFFICES ASSUME NEW a \in Nat, NEW c \in Nat, a <= b, c <= b,
                      Len(Numeral[a]) = Len(Numeral[c])
               PROVE  StrBefore(Numeral[a], Numeral[c]) <=> a < c
    OBVIOUS
  <2>1. CASE a < 10
    <3>1. c < 10
      <4>1. c >= 10 => Len(Numeral[c]) = Len(Numeral[c \div 10]) + 1 /\ c \div 10 \in Nat
        BY NumeralLen, Tenth
      <4>2. c >= 10 => Len(Numeral[c \div 10]) \in Nat /\ Len(Numeral[c \div 10]) >= 1
        BY <4>1, NumeralLen
      <4>3. Len(Numeral[a]) = 1
        BY <2>1, NumeralLen
      <4> QED BY <4>1, <4>2, <4>3
    <3>2. Numeral[a] = <<a>> /\ Numeral[c] = <<c>>
      BY <2>1, <3>1, NumeralFacts
    <3> QED BY <3>2 DEF StrBefore
  <2>2. CASE a >= 10
    <3>1. c >= 10
      <4>1. Len(Numeral[a]) = Len(Numeral[a \div 10]) + 1 /\ a \div 10 \in Nat
        BY <2>2, NumeralLen, Tenth
      <4>2. Len(Numeral[a \div 10]) \in Nat /\ Len(Numeral[a \div 10]) >= 1
        BY <4>1, NumeralLen
      <4>3. c < 10 => Len(Numeral[c]) = 1
        BY NumeralLen
      <4> QED BY <4>1, <4>2, <4>3
    <3> DEFINE p == a \div 10
               q == c \div 10
               m == b - 1
    <3>2. /\ p \in Nat /\ q \in Nat /\ m \in Nat /\ m < b /\ p <= m /\ q <= m
          /\ a % 10 \in Nat /\ c % 10 \in Nat
          /\ a = 10 * p + (a % 10) /\ c = 10 * q + (c % 10) /\ a % 10 < 10 /\ c % 10 < 10
      BY <2>2, <3>1, Tenth
    <3>3. /\ Numeral[a] = Append(Numeral[p], a % 10)
          /\ Numeral[c] = Append(Numeral[q], c % 10)
      BY <2>2, <3>1, NumeralFacts
    <3>4. Len(Numeral[p]) = Len(Numeral[q])
      <4> DEFINE W(n) == Len(Numeral[n])
      <4>1. W(a) = W(p) + 1 /\ W(c) = W(q) + 1 /\ W(p) \in Nat /\ W(q) \in Nat
        BY <2>2, <3>1, <3>2, NumeralLen
      <4>2. W(a) = W(c)
        OBVIOUS
      <4> HIDE DEF p, q, m, W
      <4>3. W(p) = W(q)
        BY <4>1, <4>2
      <4> QED BY <4>3 DEF W
    <3> HIDE DEF p, q, m
    <3>5. /\ StrBefore(Numeral[p], Numeral[q]) <=> p < q
          /\ StrBefore(Numeral[q], Numeral[p]) <=> q < p
      BY <1>1, <3>2, <3>4
    <3>6. Numeral[p] \in Seq(Nat) /\ Numeral[q] \in Seq(Nat)
      BY <3>2, NumeralFacts
    <3>7. Numeral[p] = Numeral[q] <=> p = q
      BY <3>2, <3>5, <3>6, StrIrreflexive
    <3>8. StrBefore(Numeral[a], Numeral[c]) <=> p < q \/ (p = q /\ a % 10 < c % 10)
      <4>1. StrBefore(Append(Numeral[p], a % 10), Append(Numeral[q], c % 10))
              <=> StrBefore(Numeral[p], Numeral[q]) \/ (Numeral[p] = Numeral[q] /\ a % 10 < c % 10)
        BY <3>2, <3>4, <3>6, StrBeforeAppend
      <4> QED BY <3>3, <3>5, <3>7, <4>1
    <3>9. a < c <=> p < q \/ (p = q /\ a % 10 < c % 10)
      BY <3>2
    <3> QED BY <3>8, <3>9
  <2> QED BY <2>1, <2>2
<1> HIDE DEF S
<1>2. Nat \subseteq S
  BY <1>1, StrongInduction
<1> QED BY <1>2 DEF S

LEMMA LessTransitive ==
  \A a \in Nat, b \in Nat, c \in Nat : a < b /\ b < c => a < c
OBVIOUS

\* The order of strings is a strict total order, whatever the lengths.
LEMMA StrTransitive ==
  ASSUME NEW s \in Seq(Nat), NEW t \in Seq(Nat), NEW u \in Seq(Nat),
         StrBefore(s, t), StrBefore(t, u)
  PROVE  StrBefore(s, u)
<1>1. PICK j \in 1 .. Len(t) : /\ \A i \in 1 .. (j - 1) : i <= Len(s) /\ s[i] = t[i]
                               /\ j > Len(s) \/ s[j] < t[j]
  BY DEF StrBefore
<1>2. PICK k \in 1 .. Len(u) : /\ \A i \in 1 .. (k - 1) : i <= Len(t) /\ t[i] = u[i]
                               /\ k > Len(t) \/ t[k] < u[k]
  BY DEF StrBefore
<1>3. /\ Len(s) \in Nat /\ Len(t) \in Nat /\ Len(u) \in Nat /\ j \in Nat /\ k \in Nat
      /\ \A i \in 1 .. Len(s) : s[i] \in Nat
      /\ \A i \in 1 .. Len(t) : t[i] \in Nat
      /\ \A i \in 1 .. Len(u) : u[i] \in Nat
  OBVIOUS
<1>4. CASE j < k
  <2>1. j \in 1 .. Len(u) /\ t[j] = u[j] /\ \A i \in 1 .. (j - 1) : i <= Len(s) /\ s[i] = u[i]
    BY <1>1, <1>2, <1>3, <1>4
  <2>2. j > Len(s) \/ s[j] < u[j]
    BY <1>1, <2>1
  <2> QED BY <2>1, <2>2 DEF StrBefore
<1>5. CASE j = k
  <2>1. \A i \in 1 .. (k - 1) : i <= Len(s) /\ s[i] = u[i]
    BY <1>1, <1>2, <1>3, <1>5
  <2>2. t[k] < u[k] /\ (k > Len(s) \/ s[k] < t[k]) /\ k \in 1 .. Len(t)
    BY <1>1, <1>2, <1>3, <1>5
  <2>3. k > Len(s) \/ s[k] < u[k]
    <3>1. k <= Len(s) => s[k] \in Nat
      BY <1>3
    <3>2. t[k] \in Nat /\ u[k] \in Nat
      BY <1>3, <2>2
    <3>3. Len(s) \in Nat /\ k \in Nat
      BY <1>3
    <3>4. CASE k <= Len(s)
      <4>1. s[k] < t[k] /\ t[k] < u[k]
        BY <2>2, <3>3, <3>4
      <4>2. s[k] \in Nat
        BY <3>1, <3>4
      <4> QED BY <4>1, <4>2, <3>2, LessTransitive
    <3> QED BY <3>3, <3>4
  <2> QED BY <2>1, <2>3 DEF StrBefore
<1>6. CASE k < j
  <2>0. k \in 1 .. (j - 1) /\ k \in 1 .. Len(t) /\ 1 .. (k - 1) \subseteq 1 .. (j - 1)
    BY <1>3, <1>6
  <2>1. /\ k <= Len(s) /\ s[k] = t[k]
        /\ \A i \in 1 .. (k - 1) : i <= Len(s) /\ s[i] = u[i]
    BY <1>1, <1>2, <2>0
  <2>2. t[k] < u[k]
    <3>1. k <= Len(t)
      BY <1>3, <2>0
    <3>2. Len(t) \in Nat /\ k \in Nat
      BY <1>3
    <3> QED BY <1>2, <3>1, <3>2
  <2>3. s[k] < u[k]
    BY <2>1, <2>2
  <2> QED BY <2>1, <2>3 DEF StrBefore
<1> QED BY <1>3, <1>4, <1>5, <1>6

LEMMA StrTotal ==
  ASSUME NEW s \in Seq(Nat), NEW t \in Seq(Nat), s # t
  PROVE  StrBefore(s, t) \/ StrBefore(t, s)
<1>1. /\ Len(s) \in Nat /\ Len(t) \in Nat
      /\ \A i \in 1 .. Len(s) : s[i] \in Nat
      /\ \A i \in 1 .. Len(t) : t[i] \in Nat
  OBVIOUS
<1> DEFINE Same == {i \in Nat : i \in 1 .. Len(s) /\ i \in 1 .. Len(t) => s[i] = t[i]}
<1>2. CASE Nat \subseteq Same
  <2>1. \A i : i \in 1 .. Len(s) /\ i \in 1 .. Len(t) => s[i] = t[i]
    BY <1>1, <1>2
  <2>2. CASE Len(s) = Len(t)
    <3>1. \A i \in 1 .. Len(s) : s[i] = t[i]
      BY <2>1, <2>2
    <3>2. s = t
      BY <2>2, <3>1
    <3> QED BY <3>2
  <2>3. CASE Len(s) < Len(t)
    <3> DEFINE k == Len(s) + 1
    <3>1. k \in 1 .. Len(t) /\ k > Len(s)
      BY <1>1, <2>3
    <3>2. ASSUME NEW i \in 1 .. (k - 1) PROVE i <= Len(s) /\ s[i] = t[i]
      <4>1. i \in 1 .. Len(s) /\ i \in 1 .. Len(t) /\ i <= Len(s)
        BY <1>1, <2>3
      <4> QED BY <2>1, <4>1
    <3> HIDE DEF k
    <3> QED BY <3>1, <3>2 DEF StrBefore
  <2>4. CASE Len(t) < Len(s)
    <3> DEFINE k == Len(t) + 1
    <3>1. k \in 1 .. Len(s) /\ k > Len(t)
      BY <1>1, <2>4
    <3>2. ASSUME NEW i \in 1 .. (k - 1) PROVE i <= Len(t) /\ t[i] = s[i]
      <4>1. i \in 1 .. Len(t) /\ i \in 1 .. Len(s) /\ i <= Len(t)
        BY <1>1, <2>4
      <4> QED BY <2>1, <4>1
    <3> HIDE DEF k
    <3> QED BY <3>1, <3>2 DEF StrBefore
  <2> QED BY <1>1, <2>2, <2>3, <2>4
<1>3. CASE ~(Nat \subseteq Same)
  <2>1. PICK k \in Nat : k \notin Same /\ \A m \in Nat : m < k => m \in Same
    <3> HIDE DEF Same
    <3> QED BY <1>3, StrongInduction
  <2>2. k \in 1 .. Len(s) /\ k \in 1 .. Len(t) /\ s[k] # t[k]
    BY <2>1
  <2>3. \A i \in 1 .. (k - 1) : i <= Len(s) /\ i <= Len(t) /\ s[i] = t[i]
    BY <1>1, <2>1, <2>2
  <2>4. s[k] < t[k] \/ t[k] < s[k]
    BY <1>1, <2>2
  <2>5. CASE s[k] < t[k]
    BY <2>2, <2>3, <2>5 DEF StrBefore
  <2>6. CASE t[k] < s[k]
    BY <2>2, <2>3, <2>6 DEF StrBefore
  <2> QED BY <2>4, <2>5, <2>6
<1> QED BY <1>2, <1>3

\* No two numbers have one numeral.
LEMMA NumeralInjective == \A a, c \in Nat : Numeral[a] = Numeral[c] => a = c
<1> SUFFICES ASSUME NEW a \in Nat, NEW c \in Nat, Numeral[a] = Numeral[c], a < c PROVE FALSE
  OBVIOUS
<1>1. StrBefore(Numeral[a], Numeral[c])
  <2>1. Len(Numeral[a]) = Len(Numeral[c]) /\ a <= c /\ c <= c
    OBVIOUS
  <2> QED BY <2>1, NumeralOrder
<1>2. Numeral[c] \in Seq(Nat) /\ ~StrBefore(Numeral[c], Numeral[c])
  BY NumeralFacts, StrIrreflexive
<1> QED BY <1>1, <1>2

\* The hypothesis of the theorems below in terms of digits: SameWidth holds if the
\* first and the last height have the same number of them.
THEOREM SameDigitsSameWidth == Len(Numeral[First]) = Len(Numeral[Last]) => SameWidth
<1> SUFFICES ASSUME Len(Numeral[First]) = Len(Numeral[Last]), NEW a \in Height, NEW b \in Height
             PROVE  StrLess(a, b) <=> a < b
  BY DEF SameWidth
<1>1. /\ a \in Nat /\ b \in Nat /\ First \in Nat /\ Last \in Nat
      /\ First <= a /\ a <= Last /\ First <= b /\ b <= Last
  BY ParachainAssumption DEF Height
<1>2. \A c \in {a, b} : Len(Numeral[c]) = Len(Numeral[First])
  <2>1. /\ Len(Numeral[First]) <= Len(Numeral[a]) /\ Len(Numeral[a]) <= Len(Numeral[Last])
        /\ Len(Numeral[First]) <= Len(Numeral[b]) /\ Len(Numeral[b]) <= Len(Numeral[Last])
    BY <1>1, LongerIsGreater
  <2> QED BY <1>1, <2>1, NumeralLen
<1>3. StrBefore(Numeral[a], Numeral[b]) <=> a < b
  BY <1>1, <1>2, NumeralOrder
<1>4. StrLess(a, b) <=> StrBefore(Numeral[a], Numeral[b])
  BY DEF StrLess, StrOrder
<1> QED BY <1>3, <1>4

-----------------------------------------------------------------------------
(* The string operators on an interval of heights.                         *)

LEMMA HeightIsNat == Height \subseteq Nat /\ First \in Height /\ Last \in Height
  BY ParachainAssumption DEF Height

\* Block numbers are totally ordered as strings.
LEMMA StrLessOrder ==
  /\ \A a, b \in Height : StrLess(a, b) <=> StrBefore(Numeral[a], Numeral[b])
  /\ \A a \in Height : ~StrLess(a, a)
  /\ \A a, b, c \in Height : StrLess(a, b) /\ StrLess(b, c) => StrLess(a, c)
  /\ \A a, b \in Height : a # b => StrLess(a, b) \/ StrLess(b, a)
<1>1. \A a, b \in Height : StrLess(a, b) <=> StrBefore(Numeral[a], Numeral[b])
  BY DEF StrLess, StrOrder
<1>2. \A a \in Height : Numeral[a] \in Seq(Nat)
  BY HeightIsNat, NumeralFacts
<1>3. \A a \in Height : ~StrLess(a, a)
  BY <1>1, <1>2, StrIrreflexive
<1>4. ASSUME NEW a \in Height, NEW b \in Height, NEW c \in Height, StrLess(a, b), StrLess(b, c)
      PROVE  StrLess(a, c)
  <2>1. StrBefore(Numeral[a], Numeral[b]) /\ StrBefore(Numeral[b], Numeral[c])
    BY <1>1, <1>4
  <2>2. StrBefore(Numeral[a], Numeral[c])
    BY <1>2, <2>1, StrTransitive
  <2> QED BY <1>1, <2>2
<1>5. ASSUME NEW a \in Height, NEW b \in Height, a # b
      PROVE  StrLess(a, b) \/ StrLess(b, a)
  <2>1. Numeral[a] # Numeral[b]
    BY <1>5, HeightIsNat, NumeralInjective
  <2>2. StrBefore(Numeral[a], Numeral[b]) \/ StrBefore(Numeral[b], Numeral[a])
    BY <1>2, <2>1, StrTotal
  <2> QED BY <1>1, <2>2
<1> QED BY <1>1, <1>3, <1>4, <1>5

\* The keys of K above b as strings, whose number the slice goes by.
Above(K, b) == {c \in K : StrLess(b, c)}

LEMMA AboveIsFinite ==
  ASSUME NEW K \in SUBSET Height, NEW b \in Height
  PROVE  IsFiniteSet(Above(K, b)) /\ Cardinality(Above(K, b)) \in Nat
<1>1. IsFiniteSet(Height)
  BY ParachainAssumption, FS_Interval DEF Height
<1>2. Above(K, b) \in SUBSET Height
  BY DEF Above
<1> QED BY <1>1, <1>2, FS_Subset, FS_CardinalityType

\* Fewer keys are above a later one.
LEMMA AboveShrinks ==
  ASSUME NEW K \in SUBSET Height, NEW a \in Height, NEW b \in K, StrLess(a, b)
  PROVE  Cardinality(Above(K, b)) < Cardinality(Above(K, a))
<1>1. Above(K, b) \subseteq Above(K, a)
  BY StrLessOrder DEF Above
<1>2. b \in Above(K, a) /\ b \notin Above(K, b)
  BY StrLessOrder DEF Above
<1>3. /\ IsFiniteSet(Above(K, a))
      /\ Cardinality(Above(K, a)) \in Nat /\ Cardinality(Above(K, b)) \in Nat
  BY AboveIsFinite
<1>4. /\ Cardinality(Above(K, b)) <= Cardinality(Above(K, a))
      /\ Cardinality(Above(K, b)) # Cardinality(Above(K, a))
  BY <1>1, <1>2, <1>3, FS_Subset
<1> QED BY <1>3, <1>4

\* Some key is the greatest: max() of the keys is defined.
LEMMA MaxStrExists ==
  ASSUME NEW K \in SUBSET Height, K # {}
  PROVE  MaxStr(K) \in K /\ \A c \in K : c = MaxStr(K) \/ StrLess(c, MaxStr(K))
<1> DEFINE S == {n \in Nat : \A b \in K : Cardinality(Above(K, b)) # n}
<1>1. ~(Nat \subseteq S)
  BY AboveIsFinite
<1>2. PICK n \in Nat : n \notin S /\ \A m \in Nat : m < n => m \in S
  <2> HIDE DEF S
  <2> QED BY <1>1, StrongInduction
<1>3. PICK b \in K : Cardinality(Above(K, b)) = n
  BY <1>2
<1>4. ASSUME NEW c \in K PROVE c = b \/ StrLess(c, b)
  <2> SUFFICES ASSUME c # b, ~StrLess(c, b) PROVE FALSE
    OBVIOUS
  <2>1. StrLess(b, c)
    BY StrLessOrder
  <2>2. Cardinality(Above(K, c)) < n /\ Cardinality(Above(K, c)) \in Nat
    BY <1>3, <2>1, AboveShrinks, AboveIsFinite
  <2> QED BY <1>2, <2>2
<1>5. \E x \in K : \A c \in K : c = x \/ StrLess(c, x)
  BY <1>4
<1> HIDE DEF StrLess
<1> QED BY <1>5 DEF MaxStr

\* The slice keeps the greatest key, and with a key every greater one.
LEMMA LastOfKeeps ==
  ASSUME NEW K \in SUBSET Height
  PROVE  /\ LastOf(K) \subseteq K
         /\ K # {} => LastOf(K) # {}
         /\ \A k \in LastOf(K), b \in K : StrLess(k, b) => b \in LastOf(K)
<1>1. \A b \in K : b \in LastOf(K) <=> Cardinality(Above(K, b)) < Window
  BY DEF LastOf, Above
<1>2. LastOf(K) \subseteq K
  BY DEF LastOf
<1>3. ASSUME K # {} PROVE LastOf(K) # {}
  <2>1. Above(K, MaxStr(K)) = {} /\ MaxStr(K) \in K
    <3>1. MaxStr(K) \in K /\ \A c \in K : c = MaxStr(K) \/ StrLess(c, MaxStr(K))
      BY <1>3, MaxStrExists
    <3>2. \A c \in K : ~StrLess(MaxStr(K), c)
      BY <3>1, StrLessOrder
    <3> QED BY <3>1, <3>2 DEF Above
  <2>2. Cardinality(Above(K, MaxStr(K))) = 0
    BY <2>1, FS_EmptySet
  <2> QED BY <1>1, <2>1, <2>2, ParachainAssumption
<1>4. ASSUME NEW k \in LastOf(K), NEW b \in K, StrLess(k, b) PROVE b \in LastOf(K)
  <2>1. k \in K /\ Cardinality(Above(K, k)) < Window
    BY <1>1, <1>2
  <2>2. Cardinality(Above(K, b)) < Cardinality(Above(K, k))
    BY <1>4, <2>1, AboveShrinks
  <2>3. Cardinality(Above(K, b)) \in Nat /\ Cardinality(Above(K, k)) \in Nat
    BY <2>1, AboveIsFinite
  <2> QED BY <1>1, <2>1, <2>2, <2>3, ParachainAssumption
<1> QED BY <1>2, <1>3, <1>4

\* The greatest key as a string is the greatest number.
LEMMA MaxStrOfRun ==
  ASSUME SameWidth, NEW lo \in Height, NEW hi \in Height, lo <= hi
  PROVE  MaxStr(lo .. hi) = hi
<1>1. lo .. hi \subseteq Height /\ lo \in Nat /\ hi \in Nat
  BY ParachainAssumption DEF Height
<1>2. \A a, b \in lo .. hi : StrLess(a, b) <=> a < b
  BY <1>1 DEF SameWidth
<1> HIDE DEF StrLess
<1>3. hi \in lo .. hi /\ \A c \in lo .. hi : c = hi \/ StrLess(c, hi)
  BY <1>1, <1>2
<1>4. \A b \in lo .. hi : (\A c \in lo .. hi : c = b \/ StrLess(c, b)) => b = hi
  BY <1>1, <1>2
<1> QED
  BY <1>3, <1>4 DEF MaxStr

\* The slice keeps the last Window blocks of a run.
LEMMA LastOfRun ==
  ASSUME SameWidth, NEW lo \in Height, NEW q \in Height, lo <= q
  PROVE  LastOf(lo .. q) = {b \in lo .. q : q - b < Window}
<1>1. lo .. q \subseteq Height /\ lo \in Nat /\ q \in Nat
  BY ParachainAssumption DEF Height
<1>2. ASSUME NEW b \in lo .. q
      PROVE  Cardinality({c \in lo .. q : StrLess(b, c)}) = q - b
  <2>1. {c \in lo .. q : StrLess(b, c)} = {c \in lo .. q : b < c}
    BY <1>1 DEF SameWidth
  <2>2. {c \in lo .. q : b < c} = (b + 1) .. q
    BY <1>1
  <2>3. Cardinality((b + 1) .. q) = q - b
    <3>1. b + 1 \in Int /\ q \in Int /\ b <= q
      BY <1>1
    <3>2. Cardinality((b + 1) .. q) = IF b + 1 > q THEN 0 ELSE q - (b + 1) + 1
      BY <3>1, FS_Interval
    <3> QED
      BY <3>1, <3>2
  <2> QED
    BY <2>1, <2>2, <2>3
<1> QED
  BY <1>2 DEF LastOf

\* So the slice of a run is a run that ends where the run ended.
LEMMA SliceOfRun ==
  ASSUME SameWidth, NEW lo \in Height, NEW q \in Height, lo <= q
  PROVE  \E m \in Height : /\ lo <= m /\ m <= q /\ q - m < Window
                           /\ LastOf(lo .. q) = m .. q
<1>1. lo \in Nat /\ q \in Nat /\ Window \in Nat \ {0} /\ First \in Nat /\ Last \in Nat
  BY ParachainAssumption DEF Height
<1>2. LastOf(lo .. q) = {b \in lo .. q : q - b < Window}
  BY LastOfRun
<1>3. CASE q - lo < Window
  <2>1. {b \in lo .. q : q - b < Window} = lo .. q
    BY <1>1, <1>3
  <2>2. LastOf(lo .. q) = lo .. q
    BY <1>2, <2>1
  <2>3. lo <= lo
    BY <1>1
  <2> QED
    BY <1>3, <2>2, <2>3
<1>4. CASE ~(q - lo < Window)
  <2> DEFINE m == q - Window + 1
  <2>1. m \in Height /\ lo <= m /\ m <= q /\ q - m < Window
    BY <1>1, <1>4 DEF Height
  <2>2. {b \in lo .. q : q - b < Window} = m .. q
    BY <1>1, <1>4, <2>1
  <2> QED
    BY <1>2, <2>1, <2>2
<1> QED
  BY <1>3, <1>4

-----------------------------------------------------------------------------
(* The initial states and the steps.                                       *)

LEMMA PInitInv == PInit => PInv
<1> SUFFICES ASSUME PInit PROVE PInv
  OBVIOUS
<1>1. DOMAIN doc = {} /\ DOMAIN batch = {}
  BY DEF PInit
<1> QED
  BY <1>1, ParachainAssumption
     DEF PInit, PInv, PTypeOK, DocIsRecentRun, BootIsClean, SleepIsQuiet, FetchContinuesDoc

\* The chain grows at its end only.
LEMMA MineInv ==
  ASSUME PInv, Mine
  PROVE  PInv'
<1> USE DEF PInv
<1>1. /\ tip' = tip + 1 /\ tip < Last
      /\ doc' = doc /\ pc' = pc /\ want' = want /\ batch' = batch /\ restarts' = restarts
      /\ \E S \in SUBSET Transfer : chain' = [chain EXCEPT ![tip + 1] = S]
  BY DEF Mine
<1>2. tip' \in Height /\ tip < tip' /\ tip \in Nat
  BY <1>1, ParachainAssumption DEF PTypeOK, Height
<1>3. PTypeOK'
  BY <1>1, <1>2 DEF PTypeOK
<1>4. DocIsRecentRun'
  <2> SUFFICES ASSUME DOMAIN doc # {} PROVE DocIsRecentRun'
    BY <1>1 DEF DocIsRecentRun
  <2>1. PICK lo, hi \in Height : DOMAIN doc = lo .. hi /\ hi - lo < Window /\ hi < tip
    BY DEF DocIsRecentRun
  <2>2. hi < tip'
    BY <1>2, <2>1, HeightIsNat
  <2> QED
    BY <1>1, <2>1, <2>2 DEF DocIsRecentRun
<1>5. FetchContinuesDoc'
  <2> SUFFICES ASSUME pc \in {"fetch", "dead"} PROVE FetchContinuesDoc'
    BY <1>1 DEF FetchContinuesDoc
  <2>1. PICK lo, p, q \in Height :
          /\ lo <= p /\ p <= q /\ q < tip
          /\ p - lo <= Window
          /\ DOMAIN doc = lo .. (p - 1)
          /\ want \cup DOMAIN batch = p .. q
    BY DEF FetchContinuesDoc
  <2>2. q < tip'
    BY <1>2, <2>1, HeightIsNat
  <2> QED
    BY <1>1, <2>1, <2>2 DEF FetchContinuesDoc
<1> QED
  BY <1>1, <1>3, <1>4, <1>5 DEF BootIsClean, SleepIsQuiet

LEMMA BootInv ==
  ASSUME PInv, Boot
  PROVE  PInv'
<1> USE DEF PInv
<1>1. PICK h \in Reported : want' = {h - 1}
  BY DEF Boot
<1>2. /\ pc = "boot" /\ pc' = "fetch"
      /\ tip' = tip /\ chain' = chain /\ doc' = doc /\ batch' = batch /\ restarts' = restarts
  BY DEF Boot, chainVars
<1>3. h - 1 \in Height /\ h - 1 < tip /\ h - 1 \in Nat
  BY ParachainAssumption DEF Reported, Height, PTypeOK
<1>4. PTypeOK'
  BY <1>1, <1>2, <1>3 DEF PTypeOK
<1>5. DOMAIN doc = {} /\ DOMAIN batch = {}
  BY <1>2 DEF BootIsClean
<1>6. FetchContinuesDoc'
  <2> DEFINE p == h - 1
  <2>1. DOMAIN doc' = p .. (p - 1) /\ want' \cup DOMAIN batch' = p .. p
    BY <1>1, <1>2, <1>3, <1>5
  <2>2. p - p <= Window
    BY <1>3, ParachainAssumption
  <2> QED
    BY <1>2, <1>3, <2>1, <2>2 DEF FetchContinuesDoc
<1> QED
  BY <1>2, <1>4, <1>5, <1>6 DEF DocIsRecentRun, BootIsClean, SleepIsQuiet

LEMMA PollInv ==
  ASSUME PInv, SameWidth, Poll
  PROVE  PInv'
<1> USE DEF PInv
<1>1. PICK h \in Reported : /\ h > MaxStr(DOMAIN doc) + 1
                            /\ want' = (MaxStr(DOMAIN doc) + 1) .. (h - 1)
  BY DEF Poll
<1>2. /\ pc = "sleep" /\ pc' = "fetch"
      /\ tip' = tip /\ chain' = chain /\ doc' = doc /\ batch' = batch /\ restarts' = restarts
  BY DEF Poll, chainVars
<1>3. PICK lo, hi \in Height : DOMAIN doc = lo .. hi /\ hi - lo < Window /\ hi < tip
  BY <1>2 DEF DocIsRecentRun, SleepIsQuiet
<1>4. lo <= hi /\ DOMAIN batch = {}
  BY <1>2, <1>3, HeightIsNat DEF SleepIsQuiet
<1>5. MaxStr(DOMAIN doc) = hi
  BY <1>3, <1>4, MaxStrOfRun
<1> DEFINE p == hi + 1
           q == h - 1
<1>6. /\ p \in Height /\ q \in Height /\ lo <= p /\ p <= q /\ q < tip
      /\ p - lo <= Window /\ p - 1 = hi
  BY <1>1, <1>3, <1>4, <1>5, ParachainAssumption DEF Reported, Height, PTypeOK
<1>7. want' = p .. q
  BY <1>1, <1>5
<1> HIDE DEF p, q
<1>8. p .. q \subseteq Height
  BY <1>6, ParachainAssumption DEF Height
<1>9. PTypeOK'
  BY <1>2, <1>7, <1>8 DEF PTypeOK
<1>10. FetchContinuesDoc'
  BY <1>2, <1>3, <1>4, <1>6, <1>7 DEF FetchContinuesDoc
<1> QED
  BY <1>2, <1>3, <1>9, <1>10 DEF DocIsRecentRun, BootIsClean, SleepIsQuiet

\* Whatever a node answers, it is a set of transfers.
LEMMA AnswersType ==
  ASSUME PTypeOK, NEW b \in Height, NEW answer \in Answers(b)
  PROVE  answer \subseteq Transfer
  BY ParachainAssumption
     DEF PTypeOK, Answers, LedgerAnswers, EosAnswers, FileAnswers, TipAnswers

LEMMA FetchBlockInv ==
  ASSUME PInv, FetchBlock
  PROVE  PInv'
<1> USE DEF PInv
<1>1. PICK b \in want : \E answer \in Answers(b) :
         /\ want' = want \ {b}
         /\ batch' = [k \in DOMAIN batch \cup {b} |-> IF k = b THEN answer ELSE batch[k]]
  BY DEF FetchBlock
<1>2. PICK answer \in Answers(b) :
         /\ want' = want \ {b}
         /\ batch' = [k \in DOMAIN batch \cup {b} |-> IF k = b THEN answer ELSE batch[k]]
  BY <1>1
<1>3. /\ pc = "fetch" /\ pc' = "fetch"
      /\ tip' = tip /\ chain' = chain /\ doc' = doc /\ restarts' = restarts
  BY DEF FetchBlock, chainVars
<1>4. b \in Height /\ answer \subseteq Transfer
  BY AnswersType DEF PTypeOK
<1>5. DOMAIN batch' = DOMAIN batch \cup {b}
  BY <1>2
<1>6. \A k \in DOMAIN batch' : batch'[k] \subseteq Transfer
  BY <1>2, <1>4, <1>5 DEF PTypeOK
<1>7. PTypeOK'
  BY <1>2, <1>3, <1>4, <1>5, <1>6 DEF PTypeOK
<1>8. want' \cup DOMAIN batch' = want \cup DOMAIN batch
  BY <1>2, <1>5
<1>9. FetchContinuesDoc'
  BY <1>3, <1>8 DEF FetchContinuesDoc
<1> QED
  BY <1>3, <1>7, <1>9 DEF DocIsRecentRun, BootIsClean, SleepIsQuiet

LEMMA FetchDiesInv ==
  ASSUME PInv, FetchDies
  PROVE  PInv'
<1> USE DEF PInv
<1>1. /\ pc = "fetch" /\ pc' = "dead"
      /\ tip' = tip /\ chain' = chain /\ doc' = doc /\ want' = want /\ batch' = batch
      /\ restarts' = restarts
  BY DEF FetchDies, chainVars
<1> QED
  BY <1>1 DEF PTypeOK, DocIsRecentRun, BootIsClean, SleepIsQuiet, FetchContinuesDoc

\* What a write leaves in the document: the last Window blocks of the run made of
\* the old document and the batch.
LEMMA WriteDocEffect ==
  ASSUME PInv, SameWidth, WriteDoc
  PROVE  \E lo, m, q \in Height :
           /\ lo <= m /\ m <= q /\ q < tip /\ q - m < Window
           /\ DOMAIN doc \cup DOMAIN batch = lo .. q
           /\ DOMAIN doc' = m .. q
<1> USE DEF PInv
<1>1. PICK lo, p, q \in Height :
        /\ lo <= p /\ p <= q /\ q < tip
        /\ p - lo <= Window
        /\ DOMAIN doc = lo .. (p - 1)
        /\ want \cup DOMAIN batch = p .. q
  BY DEF WriteDoc, FetchContinuesDoc
<1>2. DOMAIN batch = p .. q
  BY <1>1 DEF WriteDoc
<1>3. DOMAIN doc \cup DOMAIN batch = lo .. q /\ lo <= q
  BY <1>1, <1>2, HeightIsNat
<1>4. PICK m \in Height : /\ lo <= m /\ m <= q /\ q - m < Window
                          /\ LastOf(lo .. q) = m .. q
  BY <1>3, SliceOfRun
<1>5. DOMAIN doc' = m .. q
  BY <1>3, <1>4 DEF WriteDoc
<1> QED
  BY <1>1, <1>3, <1>4, <1>5

LEMMA WriteDocInv ==
  ASSUME PInv, SameWidth, WriteDoc
  PROVE  PInv'
<1> USE DEF PInv
<1>1. /\ pc' = "sleep" /\ want' = {} /\ want = {}
      /\ tip' = tip /\ chain' = chain /\ restarts' = restarts
      /\ DOMAIN batch' = {}
  BY DEF WriteDoc, chainVars
<1>2. PICK lo, m, q \in Height :
        /\ lo <= m /\ m <= q /\ q < tip /\ q - m < Window
        /\ DOMAIN doc \cup DOMAIN batch = lo .. q
        /\ DOMAIN doc' = m .. q
  BY WriteDocEffect
<1>3. m .. q \subseteq Height /\ m .. q \subseteq lo .. q /\ m .. q # {}
  BY <1>2, ParachainAssumption DEF Height
<1>4. \A k \in DOMAIN doc' : doc'[k] = IF k \in DOMAIN batch THEN batch[k] ELSE doc[k]
  BY DEF WriteDoc
<1>5. \A k \in DOMAIN doc' : doc'[k] \subseteq Transfer
  BY <1>2, <1>3, <1>4 DEF PTypeOK
<1>6. PTypeOK'
  BY <1>1, <1>2, <1>3, <1>5 DEF PTypeOK
<1>7. DocIsRecentRun'
  BY <1>1, <1>2 DEF DocIsRecentRun
<1> QED
  BY <1>1, <1>2, <1>3, <1>6, <1>7 DEF BootIsClean, SleepIsQuiet, FetchContinuesDoc

LEMMA RestartInv ==
  ASSUME PInv, Restart
  PROVE  PInv'
<1> USE DEF PInv
<1>1. /\ restarts < MaxRestarts /\ restarts' = restarts + 1
      /\ pc' = "boot" /\ want' = {}
      /\ tip' = tip /\ chain' = chain
      /\ DOMAIN doc' = {} /\ DOMAIN batch' = {}
  BY DEF Restart, chainVars
<1>2. PTypeOK'
  BY <1>1, ParachainAssumption DEF PTypeOK
<1> QED
  BY <1>1, <1>2 DEF DocIsRecentRun, BootIsClean, SleepIsQuiet, FetchContinuesDoc

LEMMA PNextInv == PInv /\ SameWidth /\ [PNext]_pVars => PInv'
<1> SUFFICES ASSUME PInv, SameWidth, [PNext]_pVars PROVE PInv'
  OBVIOUS
<1>1. CASE Mine
  BY <1>1, MineInv
<1>2. CASE Boot
  BY <1>2, BootInv
<1>3. CASE Poll
  BY <1>3, PollInv
<1>4. CASE FetchBlock
  BY <1>4, FetchBlockInv
<1>5. CASE FetchDies
  BY <1>5, FetchDiesInv
<1>6. CASE WriteDoc
  BY <1>6, WriteDocInv
<1>7. CASE Restart
  BY <1>7, RestartInv
<1>8. CASE UNCHANGED pVars
  BY <1>8 DEF pVars, PInv, PTypeOK, DocIsRecentRun, BootIsClean, SleepIsQuiet,
              FetchContinuesDoc
<1> QED
  BY <1>1, <1>2, <1>3, <1>4, <1>5, <1>6, <1>7, <1>8 DEF PNext, Writer

LEMMA PInvariant == SameWidth /\ PSpec => []PInv
<1>1. ASSUME SameWidth PROVE PSpec => []PInv
  <2>1. PInv /\ [PNext]_pVars => PInv'
    BY <1>1, PNextInv
  <2> QED
    BY <2>1, PInitInv, PTL DEF PSpec
<1> QED
  BY <1>1

-----------------------------------------------------------------------------
\* No gap in the document, never more than Window blocks, never the tip: for
\* every network, lag, window and restart, while no digit boundary is crossed.
THEOREM DocIsRecentRunThm == SameWidth /\ PSpec => []DocIsRecentRun
  BY PInvariant, PTL DEF PInv

-----------------------------------------------------------------------------
(* Across digit boundaries                                                 *)

\* The type invariant, with what makes max() of the document's keys defined.
PTypeInv ==
  /\ PTypeOK
  /\ pc = "sleep" => DOMAIN doc # {}
  /\ pc = "fetch" => DOMAIN doc \cup want \cup DOMAIN batch # {}

LEMMA PTypeInvStep == PTypeInv /\ [PNext]_pVars => PTypeInv'
<1> SUFFICES ASSUME PTypeInv, [PNext]_pVars PROVE PTypeInv'
  OBVIOUS
<1> USE DEF PTypeInv
<1>1. CASE Mine
  <2>1. /\ tip' = tip + 1 /\ tip < Last
        /\ doc' = doc /\ pc' = pc /\ want' = want /\ batch' = batch /\ restarts' = restarts
        /\ \E S \in SUBSET Transfer : chain' = [chain EXCEPT ![tip + 1] = S]
    BY <1>1 DEF Mine
  <2>2. tip' \in Height
    BY <2>1, ParachainAssumption DEF PTypeOK, Height
  <2> QED BY <2>1, <2>2 DEF PTypeOK
<1>2. CASE Boot
  <2>1. PICK h \in Reported : want' = {h - 1}
    BY <1>2 DEF Boot
  <2>2. h - 1 \in Height
    BY <2>1, ParachainAssumption DEF Reported, Height
  <2> QED BY <1>2, <2>1, <2>2 DEF Boot, chainVars, PTypeOK
<1>3. CASE Poll
  <2>1. /\ pc = "sleep" /\ pc' = "fetch"
        /\ tip' = tip /\ chain' = chain /\ doc' = doc /\ batch' = batch /\ restarts' = restarts
    BY <1>3 DEF Poll, chainVars
  <2>2. PICK h \in Reported : want' = (MaxStr(DOMAIN doc) + 1) .. (h - 1)
    BY <1>3 DEF Poll
  <2>3. MaxStr(DOMAIN doc) \in Height
    BY <2>1, MaxStrExists DEF PTypeOK
  <2>4. want' \subseteq Height
    BY <2>2, <2>3, ParachainAssumption DEF Reported, Height
  <2> QED BY <2>1, <2>4 DEF PTypeOK
<1>4. CASE FetchBlock
  <2>1. PICK b \in want : \E answer \in Answers(b) :
           /\ want' = want \ {b}
           /\ batch' = [k \in DOMAIN batch \cup {b} |-> IF k = b THEN answer ELSE batch[k]]
    BY <1>4 DEF FetchBlock
  <2>2. PICK answer \in Answers(b) :
           /\ want' = want \ {b}
           /\ batch' = [k \in DOMAIN batch \cup {b} |-> IF k = b THEN answer ELSE batch[k]]
    BY <2>1
  <2>3. b \in Height /\ answer \subseteq Transfer
    BY AnswersType DEF PTypeOK
  <2>4. /\ DOMAIN batch' = DOMAIN batch \cup {b}
        /\ \A k \in DOMAIN batch' : batch'[k] = IF k = b THEN answer ELSE batch[k]
    BY <2>2
  <2>5. DOMAIN batch' \subseteq Height /\ \A k \in DOMAIN batch' : batch'[k] \subseteq Transfer
    BY <2>3, <2>4 DEF PTypeOK
  <2> QED BY <1>4, <2>2, <2>4, <2>5 DEF FetchBlock, chainVars, PTypeOK
<1>5. CASE FetchDies
  BY <1>5 DEF FetchDies, chainVars, PTypeOK
<1>6. CASE WriteDoc
  <2> DEFINE K == DOMAIN doc \cup DOMAIN batch
  <2>1. K \in SUBSET Height /\ K # {}
    BY <1>6 DEF WriteDoc, PTypeOK
  <2>2. /\ DOMAIN doc' = LastOf(K)
        /\ \A k \in DOMAIN doc' : doc'[k] = IF k \in DOMAIN batch THEN batch[k] ELSE doc[k]
    BY <1>6 DEF WriteDoc
  <2> HIDE DEF K
  <2>3. LastOf(K) \subseteq K /\ LastOf(K) # {}
    BY <2>1, LastOfKeeps
  <2>4. \A k \in DOMAIN doc' : doc'[k] \subseteq Transfer
    BY <2>2, <2>3 DEF K, PTypeOK
  <2>5. DOMAIN batch' = {} /\ pc' = "sleep" /\ want' = want /\ tip' = tip /\ chain' = chain
        /\ restarts' = restarts
    BY <1>6 DEF WriteDoc, chainVars
  <2> QED BY <2>1, <2>2, <2>3, <2>4, <2>5 DEF PTypeOK
<1>7. CASE Restart
  <2>1. /\ restarts < MaxRestarts /\ restarts' = restarts + 1 /\ pc' = "boot" /\ want' = {}
        /\ tip' = tip /\ chain' = chain /\ DOMAIN doc' = {} /\ DOMAIN batch' = {}
    BY <1>7 DEF Restart, chainVars
  <2> QED BY <2>1, ParachainAssumption DEF PTypeOK
<1>8. CASE UNCHANGED pVars
  BY <1>8 DEF pVars, PTypeOK
<1> QED
  BY <1>1, <1>2, <1>3, <1>4, <1>5, <1>6, <1>7, <1>8 DEF PNext, Writer

LEMMA PTypeInvariant == PSpec => []PTypeInv
<1>1. PInit => PTypeInv
  BY PInitInv DEF PInit, PInv, PTypeInv
<1> QED
  BY <1>1, PTypeInvStep, PTL DEF PSpec

\* The type invariant, for every chain, window and digit boundary.
THEOREM PTypeOKThm == PSpec => []PTypeOK
  BY PTypeInvariant, PTL DEF PTypeInv

\* Of two blocks whose numbers have as many digits a write of window_parachain
\* never drops the later and keeps the earlier, whatever other numbers the
\* document holds.
THEOREM KeepsLatestOfAWidthThm == PSpec => KeepsLatestOfAWidth
<1> DEFINE Slides ==
      \A b \in (DOMAIN doc \cup DOMAIN batch) \ DOMAIN doc' :
        \A k \in DOMAIN doc' : Len(Numeral[b]) = Len(Numeral[k]) => b < k
<1>1. PTypeInv /\ [PNext]_pVars => [Slides]_doc
  <2> SUFFICES ASSUME PTypeInv, [PNext]_pVars, doc' # doc PROVE Slides
    OBVIOUS
  <2>1. CASE WriteDoc
    <3> DEFINE K == DOMAIN doc \cup DOMAIN batch
    <3>1. K \in SUBSET Height /\ DOMAIN doc' = LastOf(K)
      BY <2>1 DEF WriteDoc, PTypeInv, PTypeOK
    <3> SUFFICES ASSUME NEW b \in K \ DOMAIN doc', NEW k \in DOMAIN doc',
                        Len(Numeral[b]) = Len(Numeral[k])
                 PROVE  b < k
      OBVIOUS
    <3> HIDE DEF K
    <3>2. b \in K /\ b \notin LastOf(K) /\ k \in LastOf(K)
      BY <3>1
    <3>3. k \in K /\ ~StrLess(k, b) /\ b # k
      BY <3>1, <3>2, LastOfKeeps
    <3>4. b \in Height /\ k \in Height
      BY <3>1, <3>2, <3>3
    <3>5. StrLess(b, k)
      BY <3>3, <3>4, StrLessOrder
    <3>6. StrBefore(Numeral[b], Numeral[k])
      BY <3>4, <3>5, StrLessOrder
    <3>7. b \in Nat /\ k \in Nat
      BY <3>4, HeightIsNat
    <3>8. PICK m \in Nat : b <= m /\ k <= m
      BY <3>7
    <3> QED BY <3>6, <3>7, <3>8, NumeralOrder
  <2>2. CASE Restart
    <3>1. DOMAIN doc' = {}
      BY <2>2 DEF Restart
    <3> QED BY <3>1
  <2> QED
    BY <2>1, <2>2 DEF PNext, Writer, Mine, Boot, Poll, FetchBlock, FetchDies, pVars
<1> QED
  BY <1>1, PTypeInvariant, PTL DEF PSpec, KeepsLatestOfAWidth

-----------------------------------------------------------------------------
(* What the blocks hold                                                    *)

\* The networks whose nodes are asked for a block by its number: litecoin's and
\* bitcoin's answer with the block at the tip instead.
Numbered == Network \notin {"ltc", "btc"}

\* A block of the document may lack transfers (eos takes an error for an empty
\* block, xyz reads a file that may be gone) but holds none of another block.
NothingInvented ==
  /\ \A b \in DOMAIN doc : doc[b] \subseteq chain[b]
  /\ \A b \in DOMAIN batch : batch[b] \subseteq chain[b]

\* A block that is mined leaves the blocks of the document and of the batch alone.
LEMMA MineKeepsBlocks ==
  ASSUME PInv, Mine, NEW b \in DOMAIN doc \cup DOMAIN batch
  PROVE  chain'[b] = chain[b]
<1> USE DEF PInv
<1>1. b \in Height /\ b < tip
  <2>1. CASE b \in DOMAIN doc
    BY <2>1, HeightIsNat DEF DocIsRecentRun, PTypeOK
  <2>2. CASE b \in DOMAIN batch
    <3>1. pc \in {"fetch", "dead"}
      BY <2>2 DEF BootIsClean, SleepIsQuiet, PTypeOK
    <3>2. PICK lo, p, q \in Height : q < tip /\ want \cup DOMAIN batch = p .. q
      BY <3>1 DEF FetchContinuesDoc
    <3>3. b \in p .. q /\ b \in Height
      BY <2>2, <3>2 DEF PTypeOK
    <3>4. b <= q
      BY <3>3, HeightIsNat
    <3>5. tip \in Height
      BY DEF PTypeOK
    <3> QED
      BY <3>2, <3>3, <3>4, <3>5, HeightIsNat
  <2> QED
    BY <2>1, <2>2
<1>2. b # tip + 1
  BY <1>1, HeightIsNat DEF PTypeOK
<1> QED
  BY <1>1, <1>2 DEF Mine, PTypeOK

LEMMA NothingInventedStep ==
  ASSUME PInv, NothingInvented, Numbered, [PNext]_pVars
  PROVE  NothingInvented'
<1>1. CASE Mine
  BY <1>1, MineKeepsBlocks DEF NothingInvented, Mine
<1>2. CASE Boot \/ Poll \/ FetchDies \/ UNCHANGED pVars
  BY <1>2 DEF Boot, Poll, FetchDies, chainVars, pVars, NothingInvented
<1>3. CASE FetchBlock
  <2>1. PICK b \in want : \E answer \in Answers(b) :
           batch' = [k \in DOMAIN batch \cup {b} |-> IF k = b THEN answer ELSE batch[k]]
    BY <1>3 DEF FetchBlock
  <2>2. \A answer \in Answers(b) : answer \subseteq chain[b]
    BY ParachainAssumption DEF Answers, LedgerAnswers, EosAnswers, FileAnswers, Numbered
  <2>3. doc' = doc /\ chain' = chain
    BY <1>3 DEF FetchBlock, chainVars
  <2> QED BY <2>1, <2>2, <2>3 DEF NothingInvented
<1>4. CASE WriteDoc
  <2>1. /\ DOMAIN doc' \subseteq DOMAIN doc \cup DOMAIN batch
        /\ \A k \in DOMAIN doc' :
             doc'[k] = IF k \in DOMAIN batch THEN batch[k] ELSE doc[k]
    BY <1>4 DEF WriteDoc, LastOf
  <2>2. chain' = chain /\ DOMAIN batch' = {}
    BY <1>4 DEF WriteDoc, chainVars
  <2> QED BY <2>1, <2>2 DEF NothingInvented
<1>5. CASE Restart
  BY <1>5 DEF Restart, NothingInvented
<1> QED BY <1>1, <1>2, <1>3, <1>4, <1>5 DEF PNext, Writer

\* Wherever blocks are asked for by number, no transfer stands in the document
\* under a block it is not in.
THEOREM NothingInventedThm == SameWidth /\ Numbered /\ PSpec => []NothingInvented
<1>1. PInit => NothingInvented
  BY DEF PInit, NothingInvented
<1>2. ASSUME SameWidth, Numbered PROVE PSpec => []NothingInvented
  <2>1. PSpec => []PInv
    BY <1>2, PInvariant
  <2>2. PInv /\ NothingInvented /\ [PNext]_pVars => NothingInvented'
    BY <1>2, NothingInventedStep
  <2> QED
    BY <1>1, <2>1, <2>2, PTL DEF PSpec
<1> QED
  BY <1>2

\* On ripple, whose nodes are asked until one answers with the ledger.
BatchIsFaithful == \A b \in DOMAIN batch : batch[b] = chain[b] \cap Kept

LEMMA FaithfulStep ==
  ASSUME PInv, DocIsFaithful, BatchIsFaithful, Network = "xrp", [PNext]_pVars
  PROVE  DocIsFaithful' /\ BatchIsFaithful'
<1>1. CASE Mine
  BY <1>1, MineKeepsBlocks DEF DocIsFaithful, BatchIsFaithful, Mine
<1>2. CASE Boot
  BY <1>2 DEF Boot, chainVars, DocIsFaithful, BatchIsFaithful
<1>3. CASE Poll
  BY <1>3 DEF Poll, chainVars, DocIsFaithful, BatchIsFaithful
<1>4. CASE FetchBlock
  <2>1. PICK b \in want : \E answer \in Answers(b) :
           batch' = [k \in DOMAIN batch \cup {b} |-> IF k = b THEN answer ELSE batch[k]]
    BY <1>4 DEF FetchBlock
  <2>2. Answers(b) = {chain[b] \cap Kept}
    BY DEF Answers, LedgerAnswers
  <2>3. batch' = [k \in DOMAIN batch \cup {b} |->
                    IF k = b THEN chain[b] \cap Kept ELSE batch[k]]
    BY <2>1, <2>2
  <2>4. doc' = doc /\ chain' = chain
    BY <1>4 DEF FetchBlock, chainVars
  <2>5. BatchIsFaithful'
    BY <2>3, <2>4 DEF BatchIsFaithful
  <2> QED
    BY <2>4, <2>5 DEF DocIsFaithful
<1>5. CASE FetchDies
  BY <1>5 DEF FetchDies
<1>6. CASE WriteDoc
  <2>1. /\ DOMAIN doc' \subseteq DOMAIN doc \cup DOMAIN batch
        /\ \A k \in DOMAIN doc' :
             doc'[k] = IF k \in DOMAIN batch THEN batch[k] ELSE doc[k]
    BY <1>6 DEF WriteDoc, LastOf
  <2>2. chain' = chain /\ DOMAIN batch' = {}
    BY <1>6 DEF WriteDoc, chainVars
  <2> QED
    BY <2>1, <2>2 DEF DocIsFaithful, BatchIsFaithful
<1>7. CASE Restart
  BY <1>7 DEF Restart, DocIsFaithful, BatchIsFaithful
<1>8. CASE UNCHANGED pVars
  BY <1>8 DEF pVars, DocIsFaithful, BatchIsFaithful
<1> QED
  BY <1>1, <1>2, <1>3, <1>4, <1>5, <1>6, <1>7, <1>8 DEF PNext, Writer

\* On xrp every block of the document holds what the ledger of that number holds,
\* however far the chain has moved between the poll and the write.
THEOREM DocIsFaithfulThm ==
  SameWidth /\ Network = "xrp" /\ PSpec => []DocIsFaithful
<1>1. PInit => DocIsFaithful /\ BatchIsFaithful
  BY DEF PInit, DocIsFaithful, BatchIsFaithful
<1>2. ASSUME SameWidth, Network = "xrp" PROVE PSpec => []DocIsFaithful
  <2>1. PSpec => []PInv
    BY <1>2, PInvariant
  <2>2. PInv /\ (DocIsFaithful /\ BatchIsFaithful) /\ [PNext]_pVars
          => (DocIsFaithful /\ BatchIsFaithful)'
    BY <1>2, FaithfulStep
  <2> QED
    BY <1>1, <2>1, <2>2, PTL DEF PSpec
<1> QED
  BY <1>2

-----------------------------------------------------------------------------
(* What the blocks hold on every network and across digit boundaries       *)

\* The blocks to come are empty.
FutureIsEmpty == \A b \in Height : b > tip => chain[b] = {}

\* What is stored, under whatever number, is a transfer of the chain.
StoredIsMined ==
  /\ \A b \in DOMAIN doc : doc[b] \subseteq Mined
  /\ \A b \in DOMAIN batch : batch[b] \subseteq Mined

StoredInv == PTypeInv /\ FutureIsEmpty /\ StoredIsMined

\* No transfer that was mined is forgotten.
LEMMA MinedStays ==
  ASSUME PTypeInv, FutureIsEmpty, [PNext]_pVars
  PROVE  Mined \subseteq Mined' /\ FutureIsEmpty'
<1>1. CASE Mine
  <2>1. PICK S : tip' = tip + 1 /\ tip < Last /\ chain' = [chain EXCEPT ![tip + 1] = S]
    BY <1>1 DEF Mine
  <2>2. tip \in Nat /\ chain[tip + 1] = {}
    BY <2>1, ParachainAssumption DEF PTypeInv, PTypeOK, FutureIsEmpty, Height
  <2>3. \A b \in Height : chain'[b] = IF b = tip + 1 THEN S ELSE chain[b]
    BY <2>1 DEF PTypeInv, PTypeOK
  <2>4. \A b \in Height : chain[b] \subseteq chain'[b]
    BY <2>2, <2>3
  <2>5. FutureIsEmpty'
    BY <2>1, <2>2, <2>3, HeightIsNat DEF FutureIsEmpty
  <2> QED
    BY <2>4, <2>5 DEF Mined
<1>2. CASE ~Mine
  <2>1. tip' = tip /\ chain' = chain
    BY <1>2 DEF PNext, Writer, Boot, Poll, FetchBlock, FetchDies, WriteDoc, Restart,
                pVars, chainVars
  <2> QED
    BY <2>1 DEF Mined, FutureIsEmpty
<1> QED
  BY <1>1, <1>2

LEMMA AnswersAreMined ==
  ASSUME NEW b \in Height, NEW answer \in Answers(b)
  PROVE  answer \subseteq Mined
<1>1. \A h \in Height : chain[h] \subseteq Mined
  BY DEF Mined
<1>2. CASE Network \in {"ltc", "btc"}
  <2>1. answer \in {chain[h] \cap Kept : h \in Reported}
    BY <1>2 DEF Answers, TipAnswers
  <2>2. PICK h \in Reported : answer = chain[h] \cap Kept
    BY <2>1
  <2> QED
    BY <1>1, <2>2 DEF Reported
<1>3. CASE Network \notin {"ltc", "btc"}
  BY <1>1, <1>3, ParachainAssumption
     DEF Answers, LedgerAnswers, EosAnswers, FileAnswers
<1> QED
  BY <1>2, <1>3

LEMMA StoredStep == StoredInv /\ [PNext]_pVars => StoredInv'
<1> SUFFICES ASSUME StoredInv, [PNext]_pVars PROVE StoredInv'
  OBVIOUS
<1>1. PTypeInv'
  BY PTypeInvStep DEF StoredInv
<1>2. Mined \subseteq Mined' /\ FutureIsEmpty'
  BY MinedStays DEF StoredInv
<1>3. /\ \A b \in DOMAIN doc : doc[b] \subseteq Mined'
      /\ \A b \in DOMAIN batch : batch[b] \subseteq Mined'
  BY <1>2 DEF StoredInv, StoredIsMined
<1>4. CASE FetchBlock
  <2>1. PICK b \in want : \E answer \in Answers(b) :
           batch' = [k \in DOMAIN batch \cup {b} |-> IF k = b THEN answer ELSE batch[k]]
    BY <1>4 DEF FetchBlock
  <2>2. PICK answer \in Answers(b) :
           batch' = [k \in DOMAIN batch \cup {b} |-> IF k = b THEN answer ELSE batch[k]]
    BY <2>1
  <2>3. answer \subseteq Mined'
    BY <1>2, <2>1, AnswersAreMined DEF StoredInv, PTypeInv, PTypeOK
  <2>4. doc' = doc
    BY <1>4 DEF FetchBlock
  <2>5. StoredIsMined'
    BY <1>3, <2>2, <2>3, <2>4 DEF StoredIsMined
  <2> QED
    BY <1>1, <1>2, <2>5 DEF StoredInv
<1>5. CASE WriteDoc
  <2>1. /\ DOMAIN doc' \subseteq DOMAIN doc \cup DOMAIN batch
        /\ \A k \in DOMAIN doc' :
             doc'[k] = IF k \in DOMAIN batch THEN batch[k] ELSE doc[k]
    BY <1>5 DEF WriteDoc, LastOf
  <2>2. DOMAIN batch' = {}
    BY <1>5 DEF WriteDoc
  <2>3. StoredIsMined'
    BY <1>3, <2>1, <2>2 DEF StoredIsMined
  <2> QED
    BY <1>1, <1>2, <2>3 DEF StoredInv
<1>6. CASE Restart
  <2>1. DOMAIN doc' = {} /\ DOMAIN batch' = {}
    BY <1>6 DEF Restart
  <2> QED
    BY <1>1, <1>2, <2>1 DEF StoredInv, StoredIsMined
<1>7. CASE Mine \/ Boot \/ Poll \/ FetchDies \/ UNCHANGED pVars
  <2>1. doc' = doc /\ batch' = batch
    BY <1>7 DEF Mine, Boot, Poll, FetchDies, pVars
  <2>2. StoredIsMined'
    BY <1>3, <2>1 DEF StoredIsMined
  <2> QED
    BY <1>1, <1>2, <2>2 DEF StoredInv
<1> QED
  BY <1>4, <1>5, <1>6, <1>7 DEF PNext, Writer

LEMMA StoredInvariant == PSpec => []StoredInv
<1>1. PInit => PTypeInv
  BY PInitInv DEF PInit, PInv, PTypeInv
<1>2. PInit => FutureIsEmpty /\ StoredIsMined
  BY DEF PInit, FutureIsEmpty, StoredIsMined
<1> QED
  BY <1>1, <1>2, StoredStep, PTL DEF PSpec, StoredInv

\* Nothing is stored that is not on the chain, on any network and across digit
\* boundaries: litecoin's and bitcoin's answers of another block included.
THEOREM StoredIsMinedThm == PSpec => []StoredIsMined
  BY StoredInvariant, PTL DEF StoredInv
=============================================================================

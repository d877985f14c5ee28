-------------------------- MODULE ToolTimeoutProofs --------------------------
(***************************************************************************)
(* The parser never leaves the machine's integers, whatever the width, the *)
(* units and the text: each guard is checked before the operation it       *)
(* guards, so no wrap-around takes place.  And what it accepts is what the *)
(* grammar accepts, with the duration that was written.                    *)
(***************************************************************************)
EXTENDS ToolTimeout, WellFoundedInduction, TLAPS

USE TimeoutAssumption

\* What fits is left alone by two's complement.
LEMMA WrapIdentity ==
  ASSUME NEW x \in 0..maxDuration
  PROVE  Wrap(x) = x
<1>1. /\ x + maxDuration + 1 >= 0
      /\ x + maxDuration + 1 < 2 * (maxDuration + 1)
  OBVIOUS
<1>2. (x + maxDuration + 1) % (2 * (maxDuration + 1)) = x + maxDuration + 1
  <2> DEFINE a == x + maxDuration + 1
             b == 2 * (maxDuration + 1)
  <2>1. a \in Nat /\ b \in Nat \ {0} /\ a < b
    BY <1>1
  <2> HIDE DEF a, b
  <2>2. a % b = a
    BY <2>1
  <2> QED
    BY <2>2 DEF a, b
<1> QED
  BY <1>2 DEF Wrap

\* The guard of parseTimeoutDuration against an overflow of the product: the
\* division is sound for every unit.
LEMMA ProductFits ==
  ASSUME NEW n \in Nat, NEW unit \in Nat \ {0}, NEW max \in Nat,
         n <= max \div unit
  PROVE  n * unit \in 0..max
<1> DEFINE q == max \div unit
<1>1. q \in Nat /\ unit * q <= max
  OBVIOUS
<1>2. n * unit \in Nat /\ n * unit = unit * n
  OBVIOUS
<1>3. unit * n <= unit * q
  <2>1. PICK d \in Nat : q = n + d
    <3>1. q - n \in Nat /\ q = n + (q - n)
      BY <1>1
    <3> QED
      BY <3>1
  <2>2. unit * (n + d) = unit * n + unit * d /\ unit * d \in Nat
    OBVIOUS
  <2> QED
    BY <2>1, <2>2
<1> QED
  BY <1>1, <1>2, <1>3

\* The guard refuses no product that fits.
LEMMA DivisionFits ==
  ASSUME NEW n \in Nat, NEW unit \in Nat \ {0}, NEW max \in Nat,
         n * unit <= max
  PROVE  n <= max \div unit /\ n <= max
<1> DEFINE q == max \div unit
<1>1. q \in Nat /\ max < unit * q + unit
  OBVIOUS
<1> HIDE DEF q
<1>2. n <= q
  <2>1. SUFFICES ASSUME ~ (n <= q) PROVE FALSE
    OBVIOUS
  <2>2. PICK d \in Nat : n = (q + 1) + d
    <3>1. n - (q + 1) \in Nat /\ n = (q + 1) + (n - (q + 1))
      BY <1>1, <2>1
    <3> QED
      BY <3>1
  <2>3. ((q + 1) + d) * unit = (unit * q + unit) + d * unit /\ d * unit \in Nat /\ unit * q \in Nat
    BY <1>1
  <2> QED
    BY <1>1, <2>2, <2>3
<1>3. n <= max
  <2>1. PICK u \in Nat : unit = u + 1
    <3>1. unit - 1 \in Nat /\ unit = (unit - 1) + 1
      OBVIOUS
    <3> QED
      BY <3>1
  <2>2. n * (u + 1) = n * u + n /\ n * u \in Nat
    OBVIOUS
  <2> QED
    BY <2>1, <2>2
<1> QED
  BY <1>2, <1>3 DEF q

\* The guards let through exactly what fits, and then nothing wraps.
LEMMA GuardsAreExact ==
  ASSUME NEW n \in Nat, NEW unit \in Nat \ {0}, total \in 0..maxDuration
  PROVE  /\ Fits(n, unit) <=> total + n * unit <= maxDuration
         /\ Fits(n, unit) => Wrap(total + Wrap(n * unit)) = total + n * unit
         /\ n * unit \in Nat
<1> DEFINE w == n * unit
<1>1. w \in Nat
  OBVIOUS
<1>2. ASSUME Fits(n, unit)
      PROVE  total + w <= maxDuration /\ Wrap(total + Wrap(w)) = total + w
  <2>1. w \in 0..maxDuration
    BY <1>2, ProductFits DEF Fits
  <2> HIDE DEF w
  <2>2. Wrap(w) = w
    BY <2>1, WrapIdentity
  <2>3. total <= maxDuration - w
    BY <1>2, <2>2 DEF Fits, w
  <2>4. total + w \in 0..maxDuration
    BY <2>1, <2>3
  <2> QED
    BY <2>2, <2>4, WrapIdentity
<1>3. ASSUME total + w <= maxDuration
      PROVE  Fits(n, unit)
  <2>1. w <= maxDuration
    <3> HIDE DEF w
    <3> QED
      BY <1>1, <1>3
  <2>2. n <= maxDuration \div unit /\ n <= maxDuration
    BY <2>1, DivisionFits
  <2>3. Wrap(w) = w
    <3> HIDE DEF w
    <3> QED
      BY <1>1, <2>1, WrapIdentity
  <2>4. total <= maxDuration - w
    <3> HIDE DEF w
    <3> QED
      BY <1>1, <1>3
  <2> QED
    BY <2>2, <2>3, <2>4 DEF Fits
<1> QED
  BY <1>1, <1>2, <1>3

\* A lexeme, by its kind.
LEMMA LexemeValues ==
  ASSUME NEW l \in Lexemes
  PROVE  /\ Kind(l) = "amount" => l.value \in Nat
         /\ Kind(l) = "unit" => timeoutUnits[l.value] \in Nat \ {0}
<1>1. Kind(l) = "amount" => l.value \in Amounts
  BY DEF Lexemes, Kind
<1>2. Kind(l) = "unit" => l.value \in {"s", "m", "h"}
  BY DEF Lexemes, Kind, Units
<1> QED
  BY <1>1, <1>2

\* No text makes the parser's total negative or wrap it around.
THEOREM NoWraparound == Spec => []TypeOK
<1>1. Init => TypeOK
  <2> SUFFICES ASSUME Init PROVE TypeOK
    OBVIOUS
  <2>1. raw \in Seq(Lexemes)
    BY DEF Init, Texts
  <2>2. 0 \in 0..maxDuration
    OBVIOUS
  <2>3. /\ raw \in Texts /\ rest \in Seq(Lexemes) /\ total \in 0..maxDuration
        /\ seen \in BOOLEAN /\ outcome = "scanning"
    BY <2>1, <2>2, Zenon DEF Init
  <2> QED
    BY <2>3 DEF TypeOK
<1>2. TypeOK /\ [Next]_vars => TypeOK'
  <2> SUFFICES ASSUME TypeOK, [Next]_vars
               PROVE  TypeOK'
    OBVIOUS
  <2>1. CASE ReadNone \/ Overflow \/ Malformed \/ Finish
    BY <2>1 DEF ReadNone, Overflow, Malformed, Finish, TypeOK
  <2>2. CASE SkipBlank
    BY <2>2 DEF SkipBlank, TypeOK
  <2>3. CASE AddTerm
    <3> DEFINE unit == timeoutUnits[rest[2].value]
               n == rest[1].value
    <3>1. rest[1] \in Lexemes /\ rest[2] \in Lexemes /\ Len(rest) >= 2
      BY <2>3 DEF AddTerm, TermNext, TypeOK
    <3>2. n \in Nat /\ unit \in Nat \ {0}
      BY <2>3, <3>1, LexemeValues DEF AddTerm, TermNext
    <3>3. Fits(n, unit) /\ total' = Wrap(total + Wrap(n * unit)) /\ total \in 0..maxDuration
      BY <2>3 DEF AddTerm, TypeOK
    <3>4. total' = total + n * unit /\ n * unit \in Nat /\ total + n * unit <= maxDuration
      BY <3>2, <3>3, GuardsAreExact
    <3>5. total' \in 0..maxDuration
      <4> DEFINE w == n * unit
      <4>1. w \in Nat /\ total' = total + w /\ total + w <= maxDuration
        BY <3>4
      <4> HIDE DEF w
      <4> QED
        BY <3>3, <4>1
    <3>6. rest' \in Seq(Lexemes)
      BY <2>3, <3>1 DEF AddTerm, TypeOK
    <3>7. raw' = raw /\ outcome' = outcome /\ seen' = TRUE
      BY <2>3 DEF AddTerm
    <3> QED
      BY <3>5, <3>6, <3>7 DEF TypeOK
  <2>4. CASE Parsed \/ UNCHANGED vars
    BY <2>4 DEF Parsed, vars, TypeOK
  <2> QED
    BY <2>1, <2>2, <2>3, <2>4 DEF Next
<1> QED
  BY <1>1, <1>2, PTL DEF Spec
-----------------------------------------------------------------------------
(* Naturals and recursive functions. *)

\* Induction, for a set: what holds of zero and of the next one holds of all.
LEMMA AllNaturals ==
  ASSUME NEW S, 0 \in S, \A n \in Nat : n \in S => n + 1 \in S
  PROVE  \A n \in Nat : n \in S
<1> DEFINE T == Nat \ S
<1> SUFFICES ASSUME T # {} PROVE FALSE
  OBVIOUS
<1>1. PICK x \in T : \A y \in T : ~ (<<y, x>> \in OpToRel(<, Nat))
  <2>1. T \in SUBSET Nat
    OBVIOUS
  <2> HIDE DEF T
  <2> QED
    BY <2>1, NatLessThanWellFounded, WFMin
<1>2. x \in Nat /\ x \notin S /\ x # 0
  OBVIOUS
<1>3. x - 1 \in Nat /\ (x - 1) + 1 = x /\ x - 1 < x
  BY <1>2
<1>4. x - 1 \in T
  <2>1. CASE x - 1 \in S
    BY <1>2, <1>3, <2>1
  <2> QED
    BY <1>3, <2>1
<1>5. <<x - 1, x>> \in OpToRel(<, Nat)
  <2>1. <<x - 1, x>> \in Nat \X Nat /\ <<x - 1, x>>[1] = x - 1 /\ <<x - 1, x>>[2] = x
    BY <1>2, <1>3
  <2> QED
    BY <1>3, <2>1 DEF OpToRel
<1> QED
  BY <1>1, <1>4, <1>5

\* Steps from S into S, and the function of their first n iterates.
StaysIn(S, n, step) == \A x \in S : \A k \in 1..n : step[<<x, k>>] \in S
Iterated(f, S, e, n, step) ==
  /\ f \in [0..n -> S]
  /\ f[0] = e
  /\ \A k \in 1..n : f[k] = step[<<f[k - 1], k>>]

\* Steps can be iterated.
LEMMA Iterates ==
  ASSUME NEW S, NEW e \in S, NEW n \in Nat, NEW step, StaysIn(S, n, step)
  PROVE  \E f : Iterated(f, S, e, n, step)
<1>0. \A x \in S : \A k \in 1..n : step[<<x, k>>] \in S
  BY DEF StaysIn
<1> DEFINE Good(m, f) == f[0] = e /\ \A k \in 1..m : f[k] = step[<<f[k - 1], k>>]
           G == {m \in Nat : m <= n => \E f \in [0..m -> S] : Good(m, f)}
<1>1. 0 \in G
  <2> DEFINE f == [k \in 0..0 |-> e]
  <2>1. f \in [0..0 -> S] /\ f[0] = e /\ 1..0 = {}
    OBVIOUS
  <2>2. Good(0, f)
    BY <2>1
  <2> QED
    BY <2>1, <2>2
<1>2. ASSUME NEW m \in Nat, m \in G PROVE m + 1 \in G
  <2> SUFFICES ASSUME m + 1 <= n PROVE \E f \in [0..(m + 1) -> S] : Good(m + 1, f)
    OBVIOUS
  <2>1. PICK g \in [0..m -> S] : Good(m, g)
    BY <1>2
  <2> DEFINE f == [k \in 0..(m + 1) |-> IF k <= m THEN g[k] ELSE step[<<g[m], m + 1>>]]
  <2>2. g[m] \in S /\ step[<<g[m], m + 1>>] \in S
    BY <1>0
  <2>3. f \in [0..(m + 1) -> S]
    BY <2>2
  <2>4. f[m + 1] = step[<<g[m], m + 1>>] /\ \A k \in 0..m : f[k] = g[k]
    OBVIOUS
  <2> HIDE DEF f
  <2>5. ASSUME NEW k \in 1..(m + 1) PROVE f[k] = step[<<f[k - 1], k>>]
    <3>1. CASE k = m + 1
      <4>1. k - 1 = m /\ f[m] = g[m]
        BY <2>4, <3>1
      <4> QED
        BY <2>4, <3>1, <4>1
    <3>2. CASE k # m + 1
      <4>1. k \in 1..m /\ k - 1 \in 0..m /\ k \in 0..m
        BY <3>2
      <4> QED
        BY <2>1, <2>4, <4>1
    <3> QED
      BY <3>1, <3>2
  <2>6. f[0] = e
    BY <2>1, <2>4
  <2> QED
    BY <2>3, <2>5, <2>6
<1>3. \A m \in Nat : m \in G
  <2> HIDE DEF G
  <2> QED
    BY <1>1, <1>2, AllNaturals
<1>4. n \in G
  BY <1>3
<1>5. \E f \in [0..n -> S] : Good(n, f)
  BY <1>4
<1> QED
  BY <1>5 DEF Iterated

-----------------------------------------------------------------------------
(* What a text is worth. *)

\* What a lexeme is worth is not negative.
LEMMA WorthIsNatural ==
  ASSUME NEW t \in Seq(Lexemes), NEW i \in 1..Len(t)
  PROVE  Worth(t, i) \in Nat
<1>1. CASE Kind(t[i]) = "amount" /\ i < Len(t) /\ Kind(t[i + 1]) = "unit"
  <2>1. t[i] \in Lexemes /\ t[i + 1] \in Lexemes
    BY <1>1
  <2>2. t[i].value \in Nat /\ timeoutUnits[t[i + 1].value] \in Nat
    BY <1>1, <2>1, LexemeValues
  <2>3. \A a, b \in Nat : a * b \in Nat
    OBVIOUS
  <2> QED
    BY <1>1, <2>2, <2>3 DEF Worth
<1> QED
  BY <1>1 DEF Worth

\* The sum grows lexeme by lexeme.
LEMMA SumSteps ==
  ASSUME NEW t \in Seq(Lexemes)
  PROVE  /\ \A k \in 0..Len(t) : upTo(t)[k] \in Nat
         /\ upTo(t)[0] = 0
         /\ \A k \in 1..Len(t) : upTo(t)[k] = upTo(t)[k - 1] + Worth(t, k)
<1> DEFINE n == Len(t)
           w(k) == Worth(t, k)
           step == [x \in Nat \X (1..n) |-> x[1] + w(x[2])]
           Body(f) == [k \in 0..n |-> IF k = 0 THEN 0 ELSE f[k - 1] + Worth(t, k)]
           h == upTo(t)
<1>1. n \in Nat /\ \A k \in 1..n : w(k) \in Nat
  BY WorthIsNatural
<1>2. \A x \in Nat : \A k \in 1..n : step[<<x, k>>] = x + w(k)
  <2> HIDE DEF w, n
  <2> QED
    OBVIOUS
<1>3. StaysIn(Nat, n, step)
  <2> HIDE DEF step, w, n
  <2>1. \A x \in Nat : \A k \in 1..n : x + w(k) \in Nat
    BY <1>1
  <2> QED
    BY <1>2, <2>1 DEF StaysIn
<1>4. PICK g : Iterated(g, Nat, 0, n, step)
  <2> HIDE DEF step, n
  <2> QED
    BY <1>1, <1>3, Iterates
<1>5. g \in [0..n -> Nat] /\ g[0] = 0 /\ \A k \in 1..n : k - 1 \in 0..n /\ g[k - 1] \in Nat
  <2> HIDE DEF step, n
  <2> QED
    BY <1>1, <1>4 DEF Iterated
<1>6. \A k \in 1..n : g[k] = g[k - 1] + w(k)
  <2> HIDE DEF step, w, n
  <2> QED
    BY <1>2, <1>4, <1>5 DEF Iterated
<1>7. g = Body(g)
  <2>1. \A k \in 0..n : g[k] = Body(g)[k]
    BY <1>1, <1>5, <1>6
  <2>2. g = [k \in 0..n |-> g[k]]
    BY <1>5
  <2> QED
    BY <2>1, <2>2
<1>8. h = CHOOSE f : f = Body(f)
  BY DEF upTo
<1>9. h = Body(h)
  BY <1>7, <1>8
<1> HIDE DEF h, n, w
<1>10. h[0] = 0 /\ \A k \in 1..n : h[k] = h[k - 1] + w(k)
  <2>1. \A k \in 0..n : h[k] = Body(h)[k]
    BY <1>9
  <2> QED
    BY <1>1, <2>1 DEF w
<1>11. \A k \in 0..n : h[k] \in Nat
  <2> DEFINE G == {k \in Nat : k <= n => h[k] \in Nat}
  <2>1. 0 \in G
    BY <1>1, <1>10
  <2>2. ASSUME NEW k \in Nat, k \in G PROVE k + 1 \in G
    <3> SUFFICES ASSUME k + 1 <= n PROVE h[k + 1] \in Nat
      OBVIOUS
    <3>1. k + 1 \in 1..n /\ (k + 1) - 1 = k /\ h[k] \in Nat
      BY <1>1, <2>2
    <3> QED
      BY <1>1, <1>10, <3>1
  <2>3. \A k \in Nat : k \in G
    <3> HIDE DEF G
    <3> QED
      BY <2>1, <2>2, AllNaturals
  <2> QED
    BY <1>1, <2>3
<1> QED
  BY <1>10, <1>11 DEF n, h, w

\* No part of a text is worth more than the whole.
LEMMA SumGrows ==
  ASSUME NEW t \in Seq(Lexemes), NEW i \in 0..Len(t)
  PROVE  upTo(t)[i] <= upTo(t)[Len(t)]
<1> DEFINE n == Len(t)
           h == upTo(t)
           G == {k \in Nat : i + k <= n => h[i] <= h[i + k]}
<1>1. /\ n \in Nat /\ \A k \in 0..n : h[k] \in Nat
      /\ \A k \in 1..n : h[k - 1] <= h[k]
  <2>1. \A k \in 1..n : /\ h[k] = h[k - 1] + Worth(t, k) /\ h[k - 1] \in Nat /\ h[k] \in Nat
                         /\ Worth(t, k) \in Nat
    BY SumSteps, WorthIsNatural
  <2> HIDE DEF h
  <2>2. \A k \in 1..n : h[k - 1] <= h[k]
    BY <2>1
  <2> QED
    BY <2>2, SumSteps DEF h
<1>2. i \in 0..n
  OBVIOUS
<1> HIDE DEF h, n
<1>3. 0 \in G
  BY <1>1, <1>2
<1>4. ASSUME NEW k \in Nat, k \in G PROVE k + 1 \in G
  <2> SUFFICES ASSUME i + (k + 1) <= n PROVE h[i] <= h[i + (k + 1)]
    OBVIOUS
  <2>1. /\ i + (k + 1) \in 1..n /\ (i + (k + 1)) - 1 = i + k /\ i + k \in 0..n
        /\ h[i] <= h[i + k] /\ i + (k + 1) \in 0..n
    BY <1>1, <1>2, <1>4
  <2>2. h[i + k] <= h[i + (k + 1)]
    BY <1>1, <2>1
  <2> QED
    BY <1>1, <1>2, <2>1, <2>2
<1>5. \A k \in Nat : k \in G
  <2> HIDE DEF G
  <2> QED
    BY <1>3, <1>4, AllNaturals
<1>6. n - i \in Nat /\ i + (n - i) = n
  BY <1>1, <1>2
<1>7. h[i] <= h[n]
  <2>1. n - i \in G
    BY <1>5, <1>6
  <2>2. i + (n - i) <= n
    BY <1>1, <1>6
  <2>3. h[i] <= h[i + (n - i)]
    BY <2>1, <2>2
  <2> QED
    BY <1>6, <2>3
<1> QED
  BY <1>7 DEF h, n

-----------------------------------------------------------------------------
(* The inductive invariant: what has been read and what it is worth. *)

At == Len(raw) - Len(rest)

\* What is left is the end of the text.
PlaceInv == Len(rest) <= Len(raw) /\ \A i \in 1..Len(rest) : rest[i] = raw[At + i]

\* What was read is amounts with their units, and blanks.
ReadInv ==
    \A i \in 1..At :
      /\ Kind(raw[i]) \in {"amount", "unit", "blank"}
      /\ Kind(raw[i]) = "amount" => i < At /\ Kind(raw[i + 1]) = "unit"
      /\ Kind(raw[i]) = "unit" => i > 1 /\ Kind(raw[i - 1]) = "amount"

SumInv ==
    /\ total = upTo(raw)[At]
    /\ seen <=> \E i \in 1..At : Kind(raw[i]) = "amount"

OutcomeInv ==
    /\ outcome = "ok" => IsNone(raw) \/ (rest = <<>> /\ seen)
    /\ outcome = "error" => ~ IsNone(raw) /\ ~ (Grammatical(raw) /\ Denoted(raw) <= maxDuration)
    /\ IsNone(raw) => total = 0

ParseInv == PlaceInv /\ ReadInv /\ SumInv /\ OutcomeInv

\* A text is a sequence, and so is what is left of it.
LEMMA Sequences ==
  ASSUME TypeOK
  PROVE  /\ raw \in Seq(Lexemes) /\ rest \in Seq(Lexemes)
         /\ Len(raw) \in Nat /\ Len(rest) \in Nat
         /\ total \in Nat /\ total <= maxDuration
BY DEF TypeOK, Texts

\* Nothing has been read.
LEMMA ParseBegins == ASSUME Init, TypeOK PROVE ParseInv
<1>1. /\ rest = raw /\ total = 0 /\ seen = FALSE /\ outcome = "scanning"
      /\ raw \in Seq(Lexemes) /\ Len(raw) \in Nat
  BY Sequences DEF Init
<1>2. At = 0
  BY <1>1 DEF At
<1>3. PlaceInv /\ ReadInv
  BY <1>1, <1>2 DEF PlaceInv, ReadInv
<1>4. SumInv
  BY <1>1, <1>2, SumSteps DEF SumInv
<1>5. OutcomeInv
  BY <1>1 DEF OutcomeInv
<1> QED
  BY <1>3, <1>4, <1>5 DEF ParseInv

\* A blank is worth nothing.
LEMMA SkipKeeps == ASSUME TypeOK, ParseInv, SkipBlank PROVE ParseInv'
<1> DEFINE k == At
           n == Len(raw)
           m == Len(rest)
           h == upTo(raw)
<1>1. /\ raw \in Seq(Lexemes) /\ rest \in Seq(Lexemes) /\ n \in Nat /\ m \in Nat
      /\ k = n - m /\ m <= n
  BY Sequences DEF At, ParseInv, PlaceInv
<1>2. /\ rest # <<>> /\ Kind(rest[1]) = "blank" /\ rest' = Tail(rest)
      /\ raw' = raw /\ total' = total /\ seen' = seen /\ outcome' = outcome
      /\ outcome = "scanning" /\ ~ IsNone(raw)
  BY <1>1 DEF SkipBlank, Scanning
<1>3. /\ m >= 1 /\ Len(rest') = m - 1
      /\ \A i \in 1..(m - 1) : rest'[i] = rest[i + 1]
  BY <1>1, <1>2
<1>4. At' = k + 1 /\ k + 1 \in 1..n /\ k \in 0..n /\ (k + 1) - 1 = k
  BY <1>1, <1>2, <1>3 DEF At
<1>5. \A i \in 1..m : rest[i] = raw[k + i]
  BY DEF ParseInv, PlaceInv
<1>6. Kind(raw[k + 1]) = "blank"
  BY <1>2, <1>3, <1>5
<1> HIDE DEF k, n, m, h
<1>7. PlaceInv'
  <2>1. \A i \in 1..(m - 1) : i + 1 \in 1..m /\ k + (i + 1) = (k + 1) + i
    BY <1>1
  <2>2. \A i \in 1..(m - 1) : rest'[i] = raw[(k + 1) + i]
    BY <1>3, <1>5, <2>1
  <2>3. m - 1 <= n
    BY <1>1
  <2> QED
    BY <1>2, <1>3, <1>4, <2>2, <2>3 DEF PlaceInv, n
<1>8. \A i \in 1..(k + 1) : i \in 1..k \/ i = k + 1
  BY <1>1
<1>9. ReadInv'
  <2>1. \A i \in 1..k : /\ Kind(raw[i]) \in {"amount", "unit", "blank"}
                        /\ Kind(raw[i]) = "amount" => i < k /\ Kind(raw[i + 1]) = "unit"
                        /\ Kind(raw[i]) = "unit" => i > 1 /\ Kind(raw[i - 1]) = "amount"
    BY DEF ParseInv, ReadInv, k
  <2>2. \A i \in 1..k : i < k => i < k + 1
    BY <1>1
  <2> QED
    BY <1>2, <1>4, <1>6, <1>8, <2>1, <2>2 DEF ReadInv
<1>10. SumInv'
  <2>1. h[k + 1] = h[k]
    <3>1. h[k + 1] = h[k] + Worth(raw, k + 1) /\ h[k] \in Nat
      BY <1>1, <1>4, SumSteps DEF h, n
    <3>2. Worth(raw, k + 1) = 0
      BY <1>6 DEF Worth
    <3> QED
      BY <3>1, <3>2
  <2>2. total = h[k] /\ (seen <=> \E i \in 1..k : Kind(raw[i]) = "amount")
    BY DEF ParseInv, SumInv, k, h
  <2>3. (\E i \in 1..(k + 1) : Kind(raw[i]) = "amount") <=> \E i \in 1..k : Kind(raw[i]) = "amount"
    <3>1. \A i \in 1..k : i \in 1..(k + 1)
      BY <1>1
    <3> QED
      BY <1>6, <1>8, <3>1
  <2> QED
    BY <1>2, <1>4, <2>1, <2>2, <2>3 DEF SumInv, h
<1>11. OutcomeInv'
  BY <1>2 DEF OutcomeInv
<1> QED
  BY <1>7, <1>9, <1>10, <1>11 DEF ParseInv

\* The term that comes next, and where it stands in the text.
LEMMA NextTerm ==
  ASSUME TypeOK, ParseInv, TermNext
  PROVE  /\ At \in Nat /\ At + 2 <= Len(raw) /\ Len(rest) = Len(raw) - At
         /\ rest[1] = raw[At + 1] /\ rest[2] = raw[At + 2]
         /\ Kind(raw[At + 1]) = "amount" /\ Kind(raw[At + 2]) = "unit"
         /\ rest[1].value \in Nat /\ timeoutUnits[rest[2].value] \in Nat \ {0}
         /\ rest[1].value * timeoutUnits[rest[2].value] \in Nat
         /\ total \in Nat /\ total = upTo(raw)[At]
         /\ upTo(raw)[At + 2] = total + rest[1].value * timeoutUnits[rest[2].value]
<1> DEFINE k == At
           n == Len(raw)
           m == Len(rest)
           h == upTo(raw)
           worth == rest[1].value * timeoutUnits[rest[2].value]
<1>1. /\ raw \in Seq(Lexemes) /\ rest \in Seq(Lexemes) /\ n \in Nat /\ m \in Nat
      /\ k = n - m /\ m <= n
  BY Sequences DEF At, ParseInv, PlaceInv
<1>2. m >= 2 /\ Kind(rest[1]) = "amount" /\ Kind(rest[2]) = "unit"
  BY DEF TermNext
<1>3. rest[1] \in Lexemes /\ rest[2] \in Lexemes
  BY <1>1, <1>2
<1>4. rest[1].value \in Nat /\ timeoutUnits[rest[2].value] \in Nat \ {0}
  BY <1>2, <1>3, LexemeValues
<1>5. worth \in Nat
  <2>1. \A a, b \in Nat : a * b \in Nat
    OBVIOUS
  <2> QED
    BY <1>4, <2>1
<1>6. rest[1] = raw[k + 1] /\ rest[2] = raw[k + 2]
  <2>1. \A i \in 1..m : rest[i] = raw[k + i]
    BY DEF ParseInv, PlaceInv
  <2> HIDE DEF n, m, k
  <2>2. 1 \in 1..m /\ 2 \in 1..m
    BY <1>1, <1>2
  <2> QED
    BY <2>1, <2>2
<1> HIDE DEF n, m, k
<1>7. /\ k \in Nat /\ k + 2 <= n /\ m = n - k /\ k \in 0..n /\ k + 1 \in 1..n /\ k + 2 \in 1..n
      /\ (k + 1) - 1 = k /\ (k + 2) - 1 = k + 1 /\ k + 1 < n /\ (k + 1) + 1 = k + 2
  BY <1>1, <1>2
<1>8. Worth(raw, k + 1) = worth
  BY <1>2, <1>6, <1>7 DEF Worth, n
<1>9. Worth(raw, k + 2) = 0
  BY <1>2, <1>6 DEF Worth
<1>10. /\ h[k + 1] = h[k] + Worth(raw, k + 1)
       /\ h[k + 2] = h[k + 1] + Worth(raw, k + 2) /\ h[k] \in Nat
  BY <1>1, <1>7, SumSteps DEF n
<1>11. total = h[k]
  BY DEF ParseInv, SumInv, k
<1> HIDE DEF h, worth
<1>12. h[k + 2] = total + worth /\ total \in Nat
  BY <1>5, <1>8, <1>9, <1>10, <1>11
<1> QED
  BY <1>2, <1>4, <1>5, <1>6, <1>7, <1>11, <1>12 DEF n, m, k, h, worth

\* A term adds what it is worth.
LEMMA TermKeeps == ASSUME TypeOK, ParseInv, AddTerm PROVE ParseInv'
<1> DEFINE k == At
           n == Len(raw)
           m == Len(rest)
           h == upTo(raw)
           worth == rest[1].value * timeoutUnits[rest[2].value]
<1>1. TermNext
  BY DEF AddTerm
<1>2. /\ raw \in Seq(Lexemes) /\ rest \in Seq(Lexemes) /\ n \in Nat /\ m \in Nat
      /\ k \in Nat /\ k + 2 <= n /\ m = n - k
      /\ Kind(raw[k + 1]) = "amount" /\ Kind(raw[k + 2]) = "unit"
      /\ h[k + 2] = total + worth
  BY <1>1, Sequences, NextTerm
<1>3. total' = total + worth
  BY <1>1, NextTerm, GuardsAreExact DEF AddTerm, TypeOK
<1>4. /\ rest' = SubSeq(rest, 3, m) /\ raw' = raw /\ seen' = TRUE /\ outcome' = outcome
      /\ outcome = "scanning" /\ ~ IsNone(raw)
  BY DEF AddTerm, Scanning
<1>5. \A i \in 1..m : rest[i] = raw[k + i]
  BY DEF ParseInv, PlaceInv
<1>6. Len(rest') = m - 2 /\ \A i \in 1..(m - 2) : rest'[i] = rest[i + 2]
  <2>1. m >= 2
    BY <1>2
  <2>2. Len(SubSeq(rest, 3, m)) = m - 2
    BY <1>2, <2>1
  <2>3. \A i \in 1..(m - 2) : SubSeq(rest, 3, m)[i] = rest[i + 2]
    <3>1. rest \in Seq(Lexemes) /\ m \in Nat /\ m = Len(rest)
      BY <1>2
    <3> HIDE DEF m
    <3> QED
      BY <2>1, <3>1
  <2> QED
    BY <1>4, <2>2, <2>3
<1>7. At' = k + 2
  <2>1. At' = n - (m - 2)
    BY <1>4, <1>6 DEF At
  <2>2. n \in Nat /\ m \in Nat /\ k \in Nat /\ m = n - k
    BY <1>2
  <2> HIDE DEF k, n, m
  <2> QED
    BY <2>1, <2>2
<1> HIDE DEF k, n, m, h, worth
<1>8. PlaceInv'
  <2>1. \A i \in 1..(m - 2) : i + 2 \in 1..m /\ k + (i + 2) = (k + 2) + i
    BY <1>2
  <2>2. \A i \in 1..(m - 2) : rest'[i] = raw[(k + 2) + i]
    BY <1>5, <1>6, <2>1
  <2>3. m - 2 <= n
    BY <1>2
  <2> QED
    BY <1>4, <1>6, <1>7, <2>2, <2>3 DEF PlaceInv, n
<1>9. \A i \in 1..(k + 2) : i \in 1..k \/ i = k + 1 \/ i = k + 2
  BY <1>2
<1>10. ReadInv'
  <2>1. \A i \in 1..k : /\ Kind(raw[i]) \in {"amount", "unit", "blank"}
                        /\ Kind(raw[i]) = "amount" => i < k /\ Kind(raw[i + 1]) = "unit"
                        /\ Kind(raw[i]) = "unit" => i > 1 /\ Kind(raw[i - 1]) = "amount"
    BY DEF ParseInv, ReadInv, k
  <2>2. /\ \A i \in 1..k : i < k => i < k + 2
        /\ k + 1 < k + 2 /\ (k + 1) + 1 = k + 2 /\ k + 2 > 1 /\ (k + 2) - 1 = k + 1
    BY <1>2
  <2> QED
    BY <1>2, <1>4, <1>7, <1>9, <2>1, <2>2 DEF ReadInv
<1>11. SumInv'
  <2>1. k + 1 \in 1..(k + 2)
    BY <1>2
  <2> QED
    BY <1>2, <1>3, <1>4, <1>7, <2>1 DEF SumInv, h
<1>12. OutcomeInv'
  BY <1>4 DEF OutcomeInv
<1> QED
  BY <1>8, <1>10, <1>11, <1>12 DEF ParseInv

\* A term that does not fit makes the whole text one that does not.
LEMMA OverflowIsRight ==
  ASSUME TypeOK, ParseInv, Overflow
  PROVE  ~ (Denoted(raw) <= maxDuration)
<1> DEFINE worth == rest[1].value * timeoutUnits[rest[2].value]
           h == upTo(raw)
           n == Len(raw)
<1>1. TermNext /\ ~ Fits(rest[1].value, timeoutUnits[rest[2].value])
  BY DEF Overflow
<1>2. ~ (total + worth <= maxDuration)
  BY <1>1, NextTerm, GuardsAreExact DEF TypeOK
<1>3. h[At + 2] = total + worth /\ worth \in Nat /\ total \in Nat /\ At + 2 \in 0..n
  <2>1. /\ At \in Nat /\ At + 2 <= n /\ h[At + 2] = total + worth
        /\ worth \in Nat /\ total \in Nat
    BY <1>1, NextTerm
  <2>2. n \in Nat
    BY Sequences
  <2> HIDE DEF worth, h, n
  <2> QED
    BY <2>1, <2>2
<1>4. h[At + 2] <= h[n] /\ h[n] \in Nat
  <2>1. raw \in Seq(Lexemes) /\ n \in 0..n
    BY Sequences
  <2> QED
    BY <1>3, <2>1, SumGrows, SumSteps
<1> HIDE DEF worth, h, n
<1>5. ~ (h[n] <= maxDuration)
  BY <1>2, <1>3, <1>4
<1> QED
  BY <1>5 DEF Denoted, h, n

\* Where no term can begin, the text is none of the grammar.
LEMMA MalformedIsRight ==
  ASSUME TypeOK, ParseInv, Malformed
  PROVE  ~ Grammatical(raw)
<1> DEFINE k == At
           n == Len(raw)
           m == Len(rest)
<1>1. /\ raw \in Seq(Lexemes) /\ rest \in Seq(Lexemes) /\ n \in Nat /\ m \in Nat
      /\ k = n - m /\ m <= n /\ DOMAIN raw = 1..n
  BY Sequences DEF At, ParseInv, PlaceInv
<1>2. rest # <<>> /\ Kind(rest[1]) # "blank" /\ ~ TermNext
  BY <1>1 DEF Malformed
<1>3. m >= 1
  BY <1>1, <1>2
<1>4. rest[1] = raw[k + 1] /\ (m >= 2 => rest[2] = raw[k + 2])
  BY <1>1, <1>3 DEF ParseInv, PlaceInv
<1>5. k + 1 \in 1..n /\ (k + 1 < n => m >= 2) /\ (k + 1) + 1 = k + 2 /\ (k + 1) - 1 = k
      /\ (k + 1 > 1 => k \in 1..k) /\ ~ (k < k)
  BY <1>1, <1>3
<1>6. SUFFICES ASSUME Grammatical(raw) PROVE FALSE
  OBVIOUS
<1>7. Kind(raw[k + 1]) \in {"amount", "unit", "blank"}
  BY <1>1, <1>5, <1>6 DEF Grammatical
<1>8. CASE Kind(raw[k + 1]) = "amount"
  <2>1. k + 1 < n /\ Kind(raw[k + 2]) = "unit"
    BY <1>1, <1>5, <1>6, <1>8 DEF Grammatical
  <2> QED
    BY <1>2, <1>4, <1>5, <1>8, <2>1 DEF TermNext
<1>9. CASE Kind(raw[k + 1]) = "unit"
  <2>1. k + 1 > 1 /\ Kind(raw[k]) = "amount"
    BY <1>1, <1>5, <1>6, <1>9 DEF Grammatical
  <2>2. k < k
    BY <1>5, <2>1 DEF ParseInv, ReadInv
  <2> QED
    BY <1>5, <2>2
<1> QED
  BY <1>2, <1>4, <1>7, <1>8, <1>9

\* Every step of the parser preserves the invariant.
LEMMA ParseStep == ASSUME TypeOK, ParseInv, [Next]_vars PROVE ParseInv'
<1>1. ASSUME UNCHANGED <<raw, rest, total, seen>>, OutcomeInv' PROVE ParseInv'
  BY <1>1 DEF ParseInv, PlaceInv, ReadInv, SumInv, At
<1>2. CASE ReadNone
  BY <1>1, <1>2 DEF ReadNone, ParseInv, OutcomeInv
<1>3. CASE Overflow
  BY <1>1, <1>3, OverflowIsRight DEF Overflow, Scanning, ParseInv, OutcomeInv
<1>4. CASE Malformed
  BY <1>1, <1>4, MalformedIsRight DEF Malformed, Scanning, ParseInv, OutcomeInv
<1>5. CASE Finish
  <2>1. /\ UNCHANGED <<raw, rest, total, seen>> /\ rest = <<>> /\ ~ IsNone(raw)
        /\ outcome' = IF seen THEN "ok" ELSE "error"
    BY <1>5 DEF Finish, Scanning
  <2>2. CASE seen
    BY <1>1, <2>1, <2>2 DEF OutcomeInv
  <2>3. CASE ~ seen
    <3>1. At = Len(raw) /\ DOMAIN raw = 1..Len(raw)
      BY <2>1, Sequences DEF At
    <3>2. ~ \E i \in DOMAIN raw : Kind(raw[i]) = "amount"
      BY <2>3, <3>1 DEF ParseInv, SumInv
    <3>3. ~ Grammatical(raw)
      BY <3>2 DEF Grammatical
    <3> QED
      BY <1>1, <2>1, <2>3, <3>3 DEF OutcomeInv
  <2> QED
    BY <2>2, <2>3
<1>6. CASE Parsed \/ UNCHANGED vars
  BY <1>1, <1>6 DEF Parsed, vars, ParseInv, OutcomeInv
<1> QED
  BY <1>2, <1>3, <1>4, <1>5, <1>6, SkipKeeps, TermKeeps DEF Next

\* The invariant says that the parser is exact.
LEMMA InvariantIsExact == ASSUME TypeOK, ParseInv PROVE ParsesExactly
<1> SUFFICES ASSUME outcome # "scanning" PROVE ParsesExactly
  BY DEF ParsesExactly
<1>1. outcome \in {"ok", "error"}
  BY DEF TypeOK
<1>2. CASE outcome = "error"
  BY <1>2 DEF ParseInv, OutcomeInv, ParsesExactly
<1>3. CASE outcome = "ok" /\ IsNone(raw)
  BY <1>3 DEF ParseInv, OutcomeInv, ParsesExactly
<1>4. CASE outcome = "ok" /\ ~ IsNone(raw)
  <2>1. rest = <<>> /\ seen
    BY <1>4 DEF ParseInv, OutcomeInv
  <2>2. At = Len(raw) /\ DOMAIN raw = 1..Len(raw)
    BY <2>1, Sequences DEF At
  <2>3. total = Denoted(raw) /\ \E i \in DOMAIN raw : Kind(raw[i]) = "amount"
    BY <2>1, <2>2 DEF ParseInv, SumInv, Denoted
  <2>4. Grammatical(raw)
    BY <2>2, <2>3 DEF ParseInv, ReadInv, Grammatical
  <2>5. Denoted(raw) <= maxDuration
    BY <2>3, Sequences
  <2> QED
    BY <1>4, <2>3, <2>4, <2>5 DEF ParsesExactly
<1> QED
  BY <1>1, <1>2, <1>3, <1>4

\* Whatever the width of the integers, the units and the text: the grammar's
\* texts that fit are accepted, no other is, and the duration is the one that
\* was written.
THEOREM ParserIsExact == Spec => []ParsesExactly
<1>1. Init /\ TypeOK => ParseInv
  BY ParseBegins
<1>2. TypeOK /\ ParseInv /\ [Next]_vars => ParseInv'
  BY ParseStep
<1>3. TypeOK /\ ParseInv => ParsesExactly
  BY InvariantIsExact
<1> QED
  BY <1>1, <1>2, <1>3, NoWraparound, PTL DEF Spec

==============================================================================

--------------------------- MODULE ToolOutputProofs ---------------------------
(***************************************************************************)
(* The captures and the result, for every pair of limits, every text and   *)
(* every way it is chunked.  The argument is that a cut capture is at      *)
(* least as long as the limit, so that the result's cut falls into what    *)
(* the captures have in common with the whole texts: the result is a       *)
(* prefix of the text that would have been sent without any limit, and a   *)
(* cut of a valid text is at most three bytes from a valid one.            *)
(***************************************************************************)
EXTENDS ToolOutput, WellFoundedInduction, TLAPS

USE SizesAssumption

-----------------------------------------------------------------------------
(* Minima, maxima and prefixes. *)

\* Min of a pair.
LEMMA MinOfPair ==
  ASSUME NEW a \in Int, NEW b \in Int
  PROVE  Min({a, b}) = IF a <= b THEN a ELSE b
<1> DEFINE m == IF a <= b THEN a ELSE b
<1>1. m \in {a, b} /\ m \in Int /\ \A y \in {a, b} : m <= y
  OBVIOUS
<1>2. \A x \in {a, b} : (\A y \in {a, b} : x <= y) => x = m
  OBVIOUS
<1> HIDE DEF m
<1>3. Min({a, b}) = m
  BY <1>1, <1>2 DEF Min
<1> QED
  BY <1>3 DEF m

\* A set of naturals has its minimum.
LEMMA LeastIndex ==
  ASSUME NEW S \in SUBSET Nat, S # {}
  PROVE  Min(S) \in S /\ \A y \in S : Min(S) <= y
<1>1. PICK x \in S : \A y \in S : ~ (<<y, x>> \in OpToRel(<, Nat))
  BY NatLessThanWellFounded, WFMin
<1>2. \A y \in S : x <= y
  <2> TAKE y \in S
  <2>1. x \in Nat /\ y \in Nat /\ <<y, x>> \in Nat \X Nat
    OBVIOUS
  <2>2. <<y, x>>[1] = y /\ <<y, x>>[2] = x
    OBVIOUS
  <2>3. ~ (<<y, x>>[1] < <<y, x>>[2])
    BY <1>1, <2>1 DEF OpToRel
  <2> QED
    BY <2>1, <2>2, <2>3
<1> QED
  BY <1>1, <1>2 DEF Min

\* A set of naturals with an upper bound has its maximum: the bound less the
\* least distance from it.
LEMMA GreatestIndex ==
  ASSUME NEW n \in Nat, NEW S \in SUBSET (0..n), S # {}
  PROVE  Max(S) \in S /\ \A y \in S : y <= Max(S)
<1> DEFINE D == {d \in 0..n : n - d \in S}
           x == n - Min(D)
<1>1. \A y \in S : y \in 0..n /\ n - y \in D
  OBVIOUS
<1>2. D \in SUBSET Nat /\ D # {}
  <2>1. PICK y \in S : TRUE
    OBVIOUS
  <2>2. n - y \in D
    BY <1>1, <2>1
  <2>3. D \in SUBSET Nat
    OBVIOUS
  <2> HIDE DEF D
  <2> QED
    BY <2>2, <2>3
<1>3. Min(D) \in D /\ \A d \in D : Min(D) <= d
  BY <1>2, LeastIndex
<1>4. x \in S /\ Min(D) \in Nat
  BY <1>3
<1>5. \A y \in S : x >= y
  BY <1>1, <1>3
<1> HIDE DEF x, D
<1> QED
  BY <1>4, <1>5 DEF Max

\* What Prefix returns.
LEMMA PrefixProperties ==
  ASSUME NEW S, NEW s \in Seq(S), NEW n \in Nat
  PROVE  /\ Prefix(s, n) \in Seq(S)
         /\ Len(Prefix(s, n)) = IF n <= Len(s) THEN n ELSE Len(s)
         /\ \A i \in 1..Len(Prefix(s, n)) : Prefix(s, n)[i] = s[i]
         /\ n >= Len(s) => Prefix(s, n) = s
<1>1. Len(s) \in Nat
  OBVIOUS
<1>2. Min({n, Len(s)}) = IF n <= Len(s) THEN n ELSE Len(s)
  BY <1>1, MinOfPair
<1>3. Min({n, Len(s)}) \in 0..Len(s)
  BY <1>1, <1>2
<1> DEFINE m == Min({n, Len(s)})
<1>4. /\ Prefix(s, n) = SubSeq(s, 1, m)
      /\ m \in 0..Len(s)
      /\ m = IF n <= Len(s) THEN n ELSE Len(s)
  BY <1>2, <1>3 DEF Prefix
<1> HIDE DEF m
<1>5. /\ SubSeq(s, 1, m) \in Seq(S) /\ Len(SubSeq(s, 1, m)) = m
      /\ \A i \in 1..m : SubSeq(s, 1, m)[i] = s[i]
  BY <1>1, <1>4
<1>6. m = Len(s) => SubSeq(s, 1, m) = s
  BY <1>1, <1>4
<1>7. n >= Len(s) => m = Len(s)
  BY <1>1, <1>4
<1> QED
  BY <1>4, <1>5, <1>6, <1>7

\* Two sequences are equal that agree in length and in every element.
LEMMA SameElements ==
  ASSUME NEW S, NEW s \in Seq(S), NEW t \in Seq(S), Len(s) = Len(t),
         \A i \in 1..Len(s) : s[i] = t[i]
  PROVE  s = t
  OBVIOUS

-----------------------------------------------------------------------------
(* Tags. *)

\* A tag is as long as the constant says.
LEMMA TagProperties ==
  /\ Tag \in Seq(Bytes) /\ Len(Tag) = TagLength
  /\ \A i \in 1..TagLength : Tag[i] = "t"
BY DEF Tag, Bytes

\* Between its tags a stream is unchanged.
LEMMA TaggedProperties ==
  ASSUME NEW s \in Seq(Bytes)
  PROVE  /\ Tagged(s) \in Seq(Bytes)
         /\ s = <<>> => Tagged(s) = <<>>
         /\ s # <<>> => /\ Len(Tagged(s)) > Len(s) + TagLength
                        /\ \A i \in 1..TagLength : Tagged(s)[i] = "t"
                        /\ \A i \in 1..Len(s) : Tagged(s)[TagLength + i] = s[i]
<1> DEFINE nl == IF s[Len(s)] = "n" THEN <<>> ELSE <<"n">>
           end == nl \o Tag
           front == Tag \o s
<1>1. CASE s = <<>>
  BY <1>1 DEF Tagged
<1>2. CASE s # <<>>
  <2>1. nl \in Seq(Bytes) /\ Len(nl) \in Nat
    <3>1. "n" \in Bytes
      BY DEF Bytes
    <3>2. <<>> \in Seq(Bytes) /\ <<"n">> \in Seq(Bytes)
      BY <3>1
    <3>3. nl \in Seq(Bytes)
      BY <3>2
    <3> HIDE DEF nl
    <3> QED
      BY <3>3
  <2>2. Tag \in Seq(Bytes) /\ Len(Tag) = TagLength /\ \A i \in 1..TagLength : Tag[i] = "t"
    BY TagProperties
  <2>3. Tagged(s) = front \o nl \o Tag
    BY <1>2 DEF Tagged
  <2> HIDE DEF nl
  <2>4. end \in Seq(Bytes) /\ Len(end) >= TagLength
    BY <2>1, <2>2
  <2>5. /\ front \in Seq(Bytes) /\ Len(front) = TagLength + Len(s)
        /\ \A i \in 1..TagLength : front[i] = Tag[i]
        /\ \A i \in 1..Len(s) : front[TagLength + i] = s[i]
    BY <2>2
  <2> HIDE DEF front
  <2>6. /\ front \o nl \o Tag \in Seq(Bytes)
        /\ Len(front \o nl \o Tag) >= Len(front) + TagLength
        /\ \A i \in 1..Len(front) : (front \o nl \o Tag)[i] = front[i]
    <3>1. /\ front \o nl \in Seq(Bytes) /\ Len(front \o nl) >= Len(front)
          /\ \A i \in 1..Len(front) : (front \o nl)[i] = front[i]
      BY <2>1, <2>5
    <3> DEFINE f == front \o nl
    <3>0. /\ f \in Seq(Bytes) /\ Len(f) >= Len(front)
          /\ \A i \in 1..Len(front) : f[i] = front[i]
      BY <3>1
    <3> HIDE DEF f
    <3>2. /\ f \o Tag \in Seq(Bytes) /\ Len(f \o Tag) = Len(f) + TagLength
          /\ \A i \in 1..Len(f) : (f \o Tag)[i] = f[i]
      BY <2>2, <3>0
    <3>3. \A i \in 1..Len(front) : i \in 1..Len(f)
      BY <2>5, <3>0
    <3> QED
      BY <2>5, <3>0, <3>2, <3>3 DEF f
  <2> DEFINE all == front \o nl \o Tag
  <2>7. /\ all \in Seq(Bytes) /\ Len(all) > Len(s) + TagLength
        /\ \A i \in 1..TagLength : all[i] = "t"
        /\ \A i \in 1..Len(s) : all[TagLength + i] = s[i]
    <3> HIDE DEF all
    <3>1. Len(all) >= Len(front) + TagLength /\ \A i \in 1..Len(front) : all[i] = front[i]
      BY <2>6 DEF all
    <3>2. Len(all) > Len(s) + TagLength
      BY <2>5, <3>1
    <3>3. \A i \in 1..TagLength : all[i] = "t"
      BY <2>2, <2>5, <3>1
    <3>4. \A i \in 1..Len(s) : all[TagLength + i] = s[i]
      <4> TAKE i \in 1..Len(s)
      <4>1. TagLength + i \in 1..Len(front)
        BY <2>5
      <4> QED
        BY <2>5, <3>1, <4>1
    <3> QED
      BY <2>6, <3>2, <3>3, <3>4 DEF all
  <2> QED
    BY <1>2, <2>3, <2>7
<1> QED
  BY <1>1, <1>2

\* A stream that is longer than the limit and its capture look the same in
\* the first bytes, up to the limit.
LEMMA TaggedAgree ==
  ASSUME NEW s \in Seq(Bytes), Len(s) > maxToolOutputBytes
  PROVE  /\ Len(Tagged(s)) > maxToolOutputBytes
         /\ Len(Tagged(Prefix(s, maxToolOutputBytes))) > maxToolOutputBytes
         /\ \A i \in 1..maxToolOutputBytes :
              Tagged(Prefix(s, maxToolOutputBytes))[i] = Tagged(s)[i]
<1> DEFINE L == maxToolOutputBytes
           b == Prefix(s, L)
<1>1. L \in Nat \ {0}
  OBVIOUS
<1>2. b \in Seq(Bytes) /\ Len(b) = L /\ \A i \in 1..L : b[i] = s[i]
  BY <1>1, PrefixProperties
<1>3. b # <<>> /\ s # <<>>
  BY <1>1, <1>2
<1> HIDE DEF b
<1>4. /\ Len(Tagged(b)) > L + TagLength
      /\ \A i \in 1..TagLength : Tagged(b)[i] = "t"
      /\ \A i \in 1..L : Tagged(b)[TagLength + i] = b[i]
  BY <1>2, <1>3, TaggedProperties
<1>5. /\ Len(Tagged(s)) > Len(s) + TagLength
      /\ \A i \in 1..TagLength : Tagged(s)[i] = "t"
      /\ \A i \in 1..Len(s) : Tagged(s)[TagLength + i] = s[i]
  BY <1>3, TaggedProperties
<1>6. ASSUME NEW i \in 1..L PROVE Tagged(b)[i] = Tagged(s)[i]
  <2>1. CASE i <= TagLength
    BY <1>4, <1>5, <2>1
  <2>2. CASE i > TagLength
    <3> DEFINE k == i - TagLength
    <3>1. k \in 1..L /\ k \in 1..Len(s) /\ i = TagLength + k
      BY <1>1, <2>2
    <3> QED
      BY <1>2, <1>4, <1>5, <3>1
  <2> QED
    BY <2>1, <2>2
<1>7. Len(Tagged(s)) > L /\ Len(Tagged(b)) > L
  BY <1>1, <1>4, <1>5
<1> QED
  BY <1>6, <1>7 DEF b

\* The elements of a concatenation.
LEMMA ConcatElements ==
  ASSUME NEW s \in Seq(Bytes), NEW t \in Seq(Bytes)
  PROVE  /\ s \o t \in Seq(Bytes) /\ Len(s \o t) = Len(s) + Len(t)
         /\ Len(s) \in Nat /\ Len(t) \in Nat
         /\ \A i \in 1..Len(s) : (s \o t)[i] = s[i]
         /\ \A i \in 1..Len(t) : (s \o t)[Len(s) + i] = t[i]
OBVIOUS

\* The newline between two streams.
Between(x, y) == IF x # <<>> /\ y # <<>> THEN <<"n">> ELSE <<>>

\* What is between two streams is a sequence of bytes.
LEMMA BetweenIsBytes ==
  ASSUME NEW x, NEW y
  PROVE  Between(x, y) \in Seq(Bytes)
<1>1. "n" \in Bytes
  BY DEF Bytes
<1>2. <<>> \in Seq(Bytes) /\ <<"n">> \in Seq(Bytes)
  BY <1>1
<1> QED
  BY <1>2 DEF Between

\* What combineToolOutput cuts, and what it would join without the captures'
\* limit: they are equal, or both are longer than the limit and agree up to it.
LEMMA JoinedAgree ==
  ASSUME NEW x \in Seq(Bytes), NEW y \in Seq(Bytes),
         NEW a, a = Prefix(x, maxToolOutputBytes),
         NEW b, b = Prefix(y, maxToolOutputBytes)
  PROVE  /\ Joined(a, b) \in Seq(Bytes) /\ Joined(x, y) \in Seq(Bytes)
         /\ \/ a = x /\ b = y
            \/ /\ Len(Joined(a, b)) > maxToolOutputBytes
               /\ Len(Joined(x, y)) > maxToolOutputBytes
               /\ \A i \in 1..maxToolOutputBytes : Joined(a, b)[i] = Joined(x, y)[i]
<1> DEFINE L == maxToolOutputBytes
           P == Tagged(a)
           Q == Tagged(b)
           X == Tagged(x)
           Y == Tagged(y)
           sep == Between(a, b)
<1>1. L \in Nat \ {0} /\ Len(x) \in Nat /\ Len(y) \in Nat
  OBVIOUS
<1>2. /\ a \in Seq(Bytes) /\ (Len(x) <= L => a = x) /\ (Len(x) > L => Len(a) = L)
      /\ b \in Seq(Bytes) /\ (Len(y) <= L => b = y) /\ (Len(y) > L => Len(b) = L)
  <2>1. /\ a \in Seq(Bytes) /\ (L >= Len(x) => a = x)
        /\ Len(a) = IF L <= Len(x) THEN L ELSE Len(x)
    BY <1>1, PrefixProperties
  <2>2. /\ b \in Seq(Bytes) /\ (L >= Len(y) => b = y)
        /\ Len(b) = IF L <= Len(y) THEN L ELSE Len(y)
    BY <1>1, PrefixProperties
  <2> QED
    BY <1>1, <2>1, <2>2
<1>3. /\ P \in Seq(Bytes) /\ Q \in Seq(Bytes) /\ X \in Seq(Bytes) /\ Y \in Seq(Bytes)
      /\ sep \in Seq(Bytes) /\ Between(x, y) \in Seq(Bytes)
  BY <1>2, TaggedProperties, BetweenIsBytes
<1>4. (a = <<>>) = (x = <<>>) /\ (b = <<>>) = (y = <<>>)
  <2>1. Len(a) = 0 <=> Len(x) = 0
    BY <1>1, <1>2
  <2>2. Len(b) = 0 <=> Len(y) = 0
    BY <1>1, <1>2
  <2> QED
    BY <1>2, <2>1, <2>2
<1>5. Between(x, y) = sep
  BY <1>4, Zenon DEF Between
<1>6. Joined(a, b) = (P \o sep) \o Q /\ Joined(x, y) = (X \o sep) \o Y
  <2>1. Joined(a, b) = (P \o Between(a, b)) \o Q
    BY Zenon DEF Joined, Between
  <2>2. Joined(x, y) = (X \o Between(x, y)) \o Y
    BY Zenon DEF Joined, Between
  <2> QED
    BY <1>5, <2>1, <2>2
<1>7. /\ Len(x) > L => Len(X) > L /\ Len(P) > L /\ \A i \in 1..L : P[i] = X[i]
      /\ Len(y) > L => Len(Y) > L /\ Len(Q) > L /\ \A i \in 1..L : Q[i] = Y[i]
  BY TaggedAgree
<1> HIDE DEF P, Q, X, Y, sep
<1>8. /\ P \o sep \in Seq(Bytes) /\ X \o sep \in Seq(Bytes)
      /\ Len(P \o sep) = Len(P) + Len(sep) /\ Len(X \o sep) = Len(X) + Len(sep)
      /\ \A i \in 1..Len(P) : (P \o sep)[i] = P[i]
      /\ \A i \in 1..Len(X) : (X \o sep)[i] = X[i]
  BY <1>3, ConcatElements
<1> DEFINE H == P \o sep
           K == X \o sep
<1> HIDE DEF H, K
<1>9. /\ H \o Q \in Seq(Bytes) /\ K \o Y \in Seq(Bytes)
      /\ Len(H \o Q) = Len(H) + Len(Q) /\ Len(K \o Y) = Len(K) + Len(Y)
      /\ \A i \in 1..Len(H) : (H \o Q)[i] = H[i]
      /\ \A i \in 1..Len(K) : (K \o Y)[i] = K[i]
      /\ \A i \in 1..Len(Q) : (H \o Q)[Len(H) + i] = Q[i]
      /\ \A i \in 1..Len(Y) : (K \o Y)[Len(K) + i] = Y[i]
  BY <1>3, <1>8, ConcatElements DEF H, K
<1>10. Joined(a, b) \in Seq(Bytes) /\ Joined(x, y) \in Seq(Bytes)
  BY <1>6, <1>9 DEF H, K
<1>11. CASE Len(x) <= L /\ Len(y) <= L
  BY <1>2, <1>10, <1>11
<1>12. CASE Len(x) > L
  <2>1. Len(H) > L /\ Len(K) > L /\ \A i \in 1..L : H[i] = K[i]
    BY <1>1, <1>3, <1>7, <1>8, <1>12 DEF H, K
  <2>2. Len(H \o Q) > L /\ Len(K \o Y) > L
    BY <1>1, <1>3, <1>9, <2>1
  <2>3. \A i \in 1..L : (H \o Q)[i] = (K \o Y)[i]
    <3> TAKE i \in 1..L
    <3>1. i \in 1..Len(H) /\ i \in 1..Len(K)
      BY <1>8, <2>1 DEF H, K
    <3> QED
      BY <1>9, <2>1, <3>1
  <2> QED
    BY <1>6, <1>10, <2>2, <2>3 DEF H, K
<1>13. CASE Len(x) <= L /\ Len(y) > L
  <2>1. H = K
    BY <1>2, <1>13 DEF H, K, P, X
  <2>2. Len(H) \in Nat
    BY <1>8 DEF H
  <2>3. Len(H \o Q) > L /\ Len(K \o Y) > L
    BY <1>1, <1>3, <1>7, <1>9, <1>13, <2>1, <2>2
  <2>4. \A i \in 1..L : (H \o Q)[i] = (K \o Y)[i]
    <3> TAKE i \in 1..L
    <3>1. CASE i <= Len(H)
      <4>1. i \in 1..Len(H)
        BY <2>2, <3>1
      <4> QED
        BY <1>9, <2>1, <4>1
    <3>2. CASE i > Len(H)
      <4> DEFINE k == i - Len(H)
      <4>1. k \in 1..L /\ i = Len(H) + k
        BY <2>2, <3>2
      <4> HIDE DEF k
      <4>2. k \in 1..Len(Q) /\ k \in 1..Len(Y)
        BY <1>1, <1>3, <1>7, <1>13, <4>1
      <4> QED
        BY <1>7, <1>9, <1>13, <2>1, <4>1, <4>2
    <3>3. i <= Len(H) \/ i > Len(H)
      BY <2>2
    <3> QED
      BY <3>1, <3>2, <3>3
  <2> QED
    BY <1>6, <1>10, <2>3, <2>4 DEF H, K
<1> QED
  BY <1>1, <1>11, <1>12, <1>13

-----------------------------------------------------------------------------
(* Characters. *)

\* A character has one byte at least and four at most.
LEMMA SizeRange ==
  ASSUME NEW b
  PROVE  Size(b) \in 1..4
BY DEF Size

\* A valid text that is cut where a character starts is valid.
LEMMA CutAtStart ==
  ASSUME NEW s \in Seq(Bytes), Valid(s), NEW p \in 0..(Len(s) - 1), RuneStart(s[p + 1])
  PROVE  Valid(Prefix(s, p))
<1> DEFINE c == Prefix(s, p)
<1>1. Len(s) \in Nat /\ p \in Nat /\ p < Len(s)
  OBVIOUS
<1>2. c \in Seq(Bytes) /\ Len(c) = p /\ \A i \in 1..p : c[i] = s[i]
  BY <1>1, PrefixProperties
<1> HIDE DEF c
<1>3. DOMAIN c = 1..p /\ DOMAIN s = 1..Len(s)
  BY <1>2
<1>4. ASSUME NEW i \in 1..p, RuneStart(c[i])
      PROVE  /\ i + Size(c[i]) - 1 <= p
             /\ \A j \in (i + 1)..(i + Size(c[i]) - 1) : c[j] = "c"
  <2> DEFINE k == Size(s[i])
  <2>1. k \in 1..4
    BY SizeRange
  <2>2. c[i] = s[i] /\ i \in 1..Len(s)
    BY <1>1, <1>2
  <2>3. /\ i + k - 1 <= Len(s)
        /\ \A j \in (i + 1)..(i + k - 1) : s[j] = "c"
    BY <1>3, <1>4, <2>2 DEF Valid
  <2> HIDE DEF k
  <2>4. ~ (p + 1 \in (i + 1)..(i + k - 1))
    BY <2>3 DEF RuneStart
  <2>5. i + k - 1 <= p
    BY <1>1, <2>1, <2>4
  <2>6. \A j \in (i + 1)..(i + k - 1) : c[j] = "c"
    <3> TAKE j \in (i + 1)..(i + k - 1)
    <3>1. j \in 1..p
      BY <1>1, <2>1, <2>5
    <3> QED
      BY <1>2, <2>3, <3>1
  <2> QED
    BY <2>2, <2>5, <2>6 DEF k
<1>5. ASSUME NEW i \in 1..p, ~ RuneStart(c[i])
      PROVE  \E j \in 1..(i - 1) : RuneStart(c[j]) /\ i - j < Size(c[j])
  <2>1. c[i] = s[i] /\ i \in 1..Len(s)
    BY <1>1, <1>2
  <2>2. PICK j \in 1..(i - 1) : RuneStart(s[j]) /\ i - j < Size(s[j])
    BY <1>3, <1>5, <2>1 DEF Valid
  <2>3. j \in 1..p
    BY <1>1
  <2>4. c[j] = s[j]
    BY <1>2, <2>3
  <2> QED
    BY <2>2, <2>4
<1>6. /\ \A i \in DOMAIN c : RuneStart(c[i]) =>
           /\ i + Size(c[i]) - 1 <= Len(c)
           /\ \A j \in (i + 1)..(i + Size(c[i]) - 1) : c[j] = "c"
      /\ \A i \in DOMAIN c : ~ RuneStart(c[i]) =>
           \E j \in 1..(i - 1) : RuneStart(c[j]) /\ i - j < Size(c[j])
  BY <1>2, <1>3, <1>4, <1>5, Zenon
<1>7. Valid(c)
  BY <1>6, Zenon DEF Valid
<1> QED
  BY <1>7 DEF c

\* A cut of a valid text is at most three bytes from one that is valid.
LEMMA CutIsNear ==
  ASSUME NEW s \in Seq(Bytes), Valid(s), NEW n \in 0..Len(s)
  PROVE  \E i \in 0..3 : i <= n /\ Valid(Prefix(s, n - i))
<1>1. Len(s) \in Nat /\ n \in Nat /\ n <= Len(s) /\ DOMAIN s = 1..Len(s)
  OBVIOUS
<1>2. CASE n = Len(s)
  <2>1. Prefix(s, n) = s /\ n - 0 = n
    BY <1>1, <1>2, PrefixProperties
  <2> QED
    BY <1>1, <2>1
<1>3. CASE n < Len(s) /\ RuneStart(s[n + 1])
  <2>1. n \in 0..(Len(s) - 1) /\ n - 0 = n
    BY <1>1, <1>3
  <2>2. Valid(Prefix(s, n - 0))
    BY <1>3, <2>1, CutAtStart
  <2> QED
    BY <1>1, <2>2
<1>4. CASE n < Len(s) /\ ~ RuneStart(s[n + 1])
  <2>1. n + 1 \in 1..Len(s)
    BY <1>1, <1>4
  <2>2. PICK j \in 1..((n + 1) - 1) : RuneStart(s[j]) /\ (n + 1) - j < Size(s[j])
    BY <1>1, <1>4, <2>1 DEF Valid
  <2>3. Size(s[j]) \in 1..4
    BY SizeRange
  <2> DEFINE i == (n + 1) - j
             p == j - 1
  <2>4. i \in 0..3 /\ i <= n /\ n - i = p /\ p \in 0..(Len(s) - 1) /\ p + 1 = j
    BY <1>1, <1>4, <2>2, <2>3
  <2> HIDE DEF i, p
  <2>5. Valid(Prefix(s, p))
    BY <2>2, <2>4, CutAtStart
  <2> QED
    BY <2>4, <2>5
<1>5. n = Len(s) \/ (n < Len(s) /\ RuneStart(s[n + 1])) \/ (n < Len(s) /\ ~ RuneStart(s[n + 1]))
  <2> DEFINE m == Len(s)
  <2>0. m \in Nat /\ n \in Nat /\ n <= m
    BY <1>1
  <2> HIDE DEF m
  <2>2. n = m \/ n < m
    BY <2>0
  <2>3. n = Len(s) \/ n < Len(s)
    BY <2>2 DEF m
  <2> QED
    BY <2>3, Zenon
<1> QED
  BY <1>2, <1>3, <1>4, <1>5

\* Valid texts in a row are a valid text.
LEMMA ConcatIsValid ==
  ASSUME NEW s \in Seq(Bytes), NEW t \in Seq(Bytes), Valid(s), Valid(t)
  PROVE  Valid(s \o t)
<1> DEFINE u == s \o t
           m == Len(s)
<1>1. /\ u \in Seq(Bytes) /\ Len(u) = m + Len(t) /\ m \in Nat /\ Len(t) \in Nat
      /\ \A i \in 1..m : u[i] = s[i]
      /\ \A i \in 1..Len(t) : u[m + i] = t[i]
  BY ConcatElements
<1>2. DOMAIN u = 1..(m + Len(t)) /\ DOMAIN s = 1..m /\ DOMAIN t = 1..Len(t)
  BY <1>1
<1> HIDE DEF u, m
<1>3. ASSUME NEW i \in 1..(m + Len(t)), RuneStart(u[i])
      PROVE  /\ i + Size(u[i]) - 1 <= m + Len(t)
             /\ \A j \in (i + 1)..(i + Size(u[i]) - 1) : u[j] = "c"
  <2>1. CASE i <= m
    <3> DEFINE k == Size(s[i])
    <3>1. i \in 1..m /\ u[i] = s[i] /\ k \in 1..4
      BY <1>1, <2>1, SizeRange
    <3>2. i + k - 1 <= m /\ \A j \in (i + 1)..(i + k - 1) : s[j] = "c"
      BY <1>2, <1>3, <3>1 DEF Valid, m
    <3> HIDE DEF k
    <3>3. \A j \in (i + 1)..(i + k - 1) : j \in 1..m
      BY <1>1, <3>1, <3>2
    <3>4. \A j \in (i + 1)..(i + k - 1) : u[j] = "c"
      BY <1>1, <3>2, <3>3
    <3>5. i + k - 1 <= m + Len(t)
      BY <1>1, <3>1, <3>2
    <3> QED
      BY <3>1, <3>4, <3>5 DEF k
  <2>2. CASE i > m
    <3> DEFINE h == i - m
               k == Size(t[h])
    <3>1. h \in 1..Len(t) /\ i = m + h
      BY <1>1, <2>2
    <3>2. u[i] = t[h] /\ k \in 1..4
      BY <1>1, <3>1, SizeRange
    <3> HIDE DEF h
    <3>3. h + k - 1 <= Len(t) /\ \A j \in (h + 1)..(h + k - 1) : t[j] = "c"
      BY <1>2, <1>3, <3>1, <3>2 DEF Valid
    <3> HIDE DEF k
    <3>4. \A j \in (i + 1)..(i + k - 1) : u[j] = "c"
      <4> TAKE j \in (i + 1)..(i + k - 1)
      <4> DEFINE g == j - m
      <4>1. g \in (h + 1)..(h + k - 1) /\ g \in 1..Len(t) /\ j = m + g
        BY <1>1, <3>1, <3>2, <3>3
      <4> HIDE DEF g
      <4> QED
        BY <1>1, <3>3, <4>1
    <3>5. i + k - 1 <= m + Len(t)
      BY <1>1, <3>1, <3>2, <3>3
    <3> QED
      BY <3>2, <3>4, <3>5 DEF k
  <2> QED
    BY <1>1, <2>1, <2>2
<1>4. ASSUME NEW i \in 1..(m + Len(t)), ~ RuneStart(u[i])
      PROVE  \E j \in 1..(i - 1) : RuneStart(u[j]) /\ i - j < Size(u[j])
  <2>1. CASE i <= m
    <3>1. i \in 1..m /\ u[i] = s[i]
      BY <1>1, <2>1
    <3>2. PICK j \in 1..(i - 1) : RuneStart(s[j]) /\ i - j < Size(s[j])
      BY <1>2, <1>4, <3>1 DEF Valid, m
    <3>3. u[j] = s[j]
      BY <1>1, <3>1
    <3> QED
      BY <3>2, <3>3
  <2>2. CASE i > m
    <3> DEFINE h == i - m
    <3>1. h \in 1..Len(t) /\ i = m + h
      BY <1>1, <2>2
    <3> HIDE DEF h
    <3>2. u[i] = t[h]
      BY <1>1, <3>1
    <3>3. PICK j \in 1..(h - 1) : RuneStart(t[j]) /\ h - j < Size(t[j])
      BY <1>2, <1>4, <3>1, <3>2 DEF Valid
    <3>4. u[m + j] = t[j] /\ m + j \in 1..(i - 1) /\ i - (m + j) = h - j
      BY <1>1, <3>1
    <3> QED
      BY <3>3, <3>4
  <2> QED
    BY <1>1, <2>1, <2>2
<1>5. /\ \A i \in DOMAIN u : RuneStart(u[i]) =>
           /\ i + Size(u[i]) - 1 <= Len(u)
           /\ \A j \in (i + 1)..(i + Size(u[i]) - 1) : u[j] = "c"
      /\ \A i \in DOMAIN u : ~ RuneStart(u[i]) =>
           \E j \in 1..(i - 1) : RuneStart(u[j]) /\ i - j < Size(u[j])
  BY <1>1, <1>2, <1>3, <1>4, Zenon
<1>6. Valid(u)
  BY <1>5, Zenon DEF Valid
<1> QED
  BY <1>6 DEF u

\* Tags and newlines keep a text valid.
LEMMA JoinedIsValid ==
  ASSUME NEW x \in Seq(Bytes), NEW y \in Seq(Bytes), Valid(x), Valid(y)
  PROVE  Valid(Joined(x, y))
<1>1. Valid(<<>>)
  BY DEF Valid
<1>2. ASSUME NEW u \in Seq(Bytes), \A i \in 1..Len(u) : u[i] \in {"t", "n"}
      PROVE  Valid(u)
  <2>1. DOMAIN u = 1..Len(u) /\ Len(u) \in Nat
    OBVIOUS
  <2>2. \A i \in DOMAIN u : RuneStart(u[i]) /\ Size(u[i]) = 1
    BY <1>2, <2>1 DEF RuneStart, Size
  <2>3. \A i \in DOMAIN u : i + 1 - 1 <= Len(u) /\ \A j \in (i + 1)..(i + 1 - 1) : FALSE
    BY <2>1
  <2> QED
    BY <2>2, <2>3 DEF Valid
<1>3. /\ <<>> \in Seq(Bytes) /\ <<"n">> \in Seq(Bytes) /\ Tag \in Seq(Bytes)
      /\ Len(<<"n">>) = 1 /\ <<"n">>[1] = "n"
  BY TagProperties DEF Bytes
<1>4. Valid(Tag) /\ Valid(<<"n">>)
  <2>1. \A i \in 1..Len(Tag) : Tag[i] \in {"t", "n"}
    BY TagProperties
  <2>2. \A i \in 1..Len(<<"n">>) : <<"n">>[i] \in {"t", "n"}
    BY <1>3
  <2>3. Valid(Tag)
    BY <1>2, <1>3, <2>1
  <2>4. Valid(<<"n">>)
    BY <1>2, <1>3, <2>2, Zenon
  <2> QED
    BY <2>3, <2>4
<1>5. ASSUME NEW s \in Seq(Bytes), Valid(s)
      PROVE  Valid(Tagged(s)) /\ Tagged(s) \in Seq(Bytes)
  <2>1. CASE s = <<>>
    BY <1>1, <1>3, <2>1 DEF Tagged
  <2>2. CASE s # <<>>
    <3> DEFINE nl == IF s[Len(s)] = "n" THEN <<>> ELSE <<"n">>
    <3>1. nl \in Seq(Bytes) /\ Valid(nl)
      BY <1>1, <1>3, <1>4
    <3>2. Tagged(s) = Tag \o s \o nl \o Tag
      BY <2>2 DEF Tagged
    <3> HIDE DEF nl
    <3>3. Tag \o s \in Seq(Bytes) /\ Valid(Tag \o s)
      BY <1>3, <1>4, <1>5, ConcatIsValid
    <3> DEFINE f == Tag \o s
               g == f \o nl
    <3>4. f \in Seq(Bytes) /\ Valid(f)
      BY <3>3
    <3> HIDE DEF f
    <3>5. g \in Seq(Bytes) /\ Valid(g)
      BY <3>1, <3>4, ConcatIsValid
    <3> HIDE DEF g
    <3>6. Valid(g \o Tag)
      BY <1>3, <1>4, <3>5, ConcatIsValid
    <3> QED
      BY <3>2, <3>6, TaggedProperties DEF f, g
  <2> QED
    BY <2>1, <2>2
<1> DEFINE sep == Between(x, y)
<1>6. sep \in Seq(Bytes) /\ Valid(sep)
  BY <1>1, <1>4, BetweenIsBytes DEF Between
<1>7. Joined(x, y) = Tagged(x) \o sep \o Tagged(y)
  BY Zenon DEF Joined, Between
<1> HIDE DEF sep
<1>8. Tagged(x) \o sep \in Seq(Bytes) /\ Valid(Tagged(x) \o sep)
  BY <1>5, <1>6, ConcatIsValid
<1>9. Tagged(y) \in Seq(Bytes) /\ Valid(Tagged(y))
  BY <1>5
<1> DEFINE f == Tagged(x) \o sep
           g == Tagged(y)
<1>10. f \in Seq(Bytes) /\ Valid(f) /\ g \in Seq(Bytes) /\ Valid(g)
  BY <1>8, <1>9
<1> HIDE DEF f, g
<1>11. Valid(f \o g)
  BY <1>10, ConcatIsValid
<1> QED
  BY <1>7, <1>11 DEF f, g

-----------------------------------------------------------------------------
(* The result. *)

\* What combineToolOutput makes of the captures of two whole texts: a result
\* without a mark is all of both, and every result is a valid text within the
\* limit.
LEMMA ResultOfCaptures ==
  ASSUME NEW x \in Seq(Bytes), NEW y \in Seq(Bytes), Valid(x), Valid(y),
         NEW r, r = combineToolOutput(Prefix(x, maxToolOutputBytes), Prefix(y, maxToolOutputBytes))
  PROVE  /\ ~ r.marked => r.text = Joined(x, y)
         /\ Valid(r.text) /\ Len(r.text) <= maxToolOutputBytes
         /\ r.text \in Seq(Bytes) /\ r.marked \in BOOLEAN
<1> DEFINE L == maxToolOutputBytes
           a == Prefix(x, L)
           b == Prefix(y, L)
           J == Joined(a, b)
           V == Joined(x, y)
           B == BackOff(J)
<1>0. L \in Nat \ {0}
  OBVIOUS
<1>1. /\ J \in Seq(Bytes) /\ V \in Seq(Bytes)
      /\ \/ J = V
         \/ /\ Len(J) > L /\ Len(V) > L
            /\ \A i \in 1..L : J[i] = V[i]
  <2>1. /\ J \in Seq(Bytes) /\ V \in Seq(Bytes)
        /\ \/ a = x /\ b = y
           \/ Len(J) > L /\ Len(V) > L /\ \A i \in 1..L : J[i] = V[i]
    BY JoinedAgree
  <2> QED
    BY <2>1
<1>2. Valid(V)
  BY JoinedIsValid
<1>3. r = IF Len(J) <= L THEN [text |-> J, marked |-> FALSE]
          ELSE [text |-> Prefix(J, L - B), marked |-> TRUE]
  BY DEF combineToolOutput
<1> HIDE DEF J, V
<1>4. CASE Len(J) <= L
  <2>1. J = V
    BY <1>0, <1>1, <1>4
  <2>2. r.text = J /\ r.marked = FALSE
    BY <1>3, <1>4
  <2>3. Len(V) <= L /\ V \in Seq(Bytes)
    BY <1>1, <1>4, <2>1
  <2> QED
    BY <1>2, <2>1, <2>2, <2>3 DEF V
<1>5. CASE ~ (Len(J) <= L)
  <2>1. Len(J) \in Nat /\ Len(V) \in Nat /\ Len(J) > L /\ Len(V) > L
    BY <1>0, <1>1, <1>5
  <2>2. \A i \in 1..L : J[i] = V[i]
    BY <1>1
  <2>3. ASSUME NEW n \in 0..L
        PROVE  Prefix(J, n) = Prefix(V, n)
    <3>1. /\ Prefix(J, n) \in Seq(Bytes) /\ Len(Prefix(J, n)) = n
          /\ \A i \in 1..n : Prefix(J, n)[i] = J[i]
      BY <1>0, <1>1, <2>1, PrefixProperties
    <3>2. /\ Prefix(V, n) \in Seq(Bytes) /\ Len(Prefix(V, n)) = n
          /\ \A i \in 1..n : Prefix(V, n)[i] = V[i]
      BY <1>0, <1>1, <2>1, PrefixProperties
    <3>3. \A i \in 1..n : Prefix(J, n)[i] = Prefix(V, n)[i]
      BY <1>0, <2>2, <3>1, <3>2
    <3> QED
      BY <3>1, <3>2, <3>3, SameElements
  <2> DEFINE I == {i \in 0..3 : i <= L /\ Valid(Prefix(J, L - i))}
             C == {3, L} \cup I
  <2>4. PICK k \in 0..3 : k <= L /\ Valid(Prefix(V, L - k))
    BY <1>0, <1>1, <1>2, <2>1, CutIsNear
  <2>5. k \in I
    BY <1>0, <2>3, <2>4
  <2>6. B = Min(C)
    BY DEF BackOff
  <2>7. C \in SUBSET Nat /\ C # {} /\ {3, L} \subseteq C
    BY <1>0
  <2>8. B \in C /\ \A i \in C : B <= i
    <3> HIDE DEF C, B
    <3> QED
      BY <2>6, <2>7, LeastIndex
  <2>9. \A i \in I : i \in 0..3 /\ i <= L /\ Valid(Prefix(J, L - i))
    OBVIOUS
  <2>10. B \in I
    <3>1. B <= k /\ B <= 3 /\ B <= L /\ B \in Nat
      BY <2>5, <2>7, <2>8
    <3>2. CASE B = 3 \/ B = L
      <4>1. k = B
        BY <1>0, <2>4, <3>1, <3>2
      <4> QED
        BY <2>5, <4>1
    <3>3. CASE B \notin {3, L}
      BY <2>8, <3>3
    <3> QED
      BY <3>2, <3>3
  <2> HIDE DEF I, C, B
  <2>11. B \in 0..3 /\ B <= L /\ Valid(Prefix(J, L - B))
    BY <2>9, <2>10
  <2>12. /\ L - B \in 0..L
         /\ Prefix(J, L - B) \in Seq(Bytes) /\ Len(Prefix(J, L - B)) = L - B
    BY <1>0, <1>1, <2>1, <2>11, PrefixProperties
  <2>13. r.text = Prefix(J, L - B) /\ r.marked = TRUE
    BY <1>3, <1>5
  <2>14. Len(r.text) <= L
    BY <1>0, <2>12, <2>13
  <2> QED
    BY <2>11, <2>12, <2>13, <2>14
<1> QED
  BY <1>4, <1>5

\* The indicator is a whole character.
LEMMA EllipsisIsValid == Ellipsis \in Seq(Bytes) /\ Valid(Ellipsis)
<1>1. /\ Ellipsis \in Seq(Bytes) /\ Len(Ellipsis) = 3 /\ DOMAIN Ellipsis = 1..3
      /\ Ellipsis[1] = "3" /\ Ellipsis[2] = "c" /\ Ellipsis[3] = "c"
  BY DEF Ellipsis, Bytes
<1>2. RuneStart(Ellipsis[1]) /\ ~ RuneStart(Ellipsis[2]) /\ ~ RuneStart(Ellipsis[3])
  BY <1>1 DEF RuneStart
<1>3. Size(Ellipsis[1]) = 3
  BY <1>1 DEF Size
<1>4. \A i \in 1..3 : i = 1 \/ i = 2 \/ i = 3
  OBVIOUS
<1>5. \A i \in DOMAIN Ellipsis : RuneStart(Ellipsis[i]) =>
        /\ i + Size(Ellipsis[i]) - 1 <= Len(Ellipsis)
        /\ \A j \in (i + 1)..(i + Size(Ellipsis[i]) - 1) : Ellipsis[j] = "c"
  <2> SUFFICES ASSUME NEW i \in DOMAIN Ellipsis, RuneStart(Ellipsis[i])
               PROVE  /\ i + Size(Ellipsis[i]) - 1 <= Len(Ellipsis)
                      /\ \A j \in (i + 1)..(i + Size(Ellipsis[i]) - 1) : Ellipsis[j] = "c"
    OBVIOUS
  <2>1. i = 1
    BY <1>1, <1>2, <1>4
  <2>2. \A j \in 2..3 : j = 2 \/ j = 3
    OBVIOUS
  <2> QED
    BY <1>1, <1>3, <2>1, <2>2
<1>6. \A i \in DOMAIN Ellipsis : ~ RuneStart(Ellipsis[i]) =>
        \E j \in 1..(i - 1) : RuneStart(Ellipsis[j]) /\ i - j < Size(Ellipsis[j])
  <2> SUFFICES ASSUME NEW i \in DOMAIN Ellipsis, ~ RuneStart(Ellipsis[i])
               PROVE  \E j \in 1..(i - 1) : RuneStart(Ellipsis[j]) /\ i - j < Size(Ellipsis[j])
    OBVIOUS
  <2>1. i = 2 \/ i = 3
    BY <1>1, <1>2, <1>4
  <2>2. 1 \in 1..(i - 1) /\ i - 1 < 3
    BY <2>1
  <2> QED
    BY <1>2, <1>3, <2>2
<1> QED
  BY <1>1, <1>5, <1>6 DEF Valid

\* The log's bound on a value cuts where a character starts, or keeps nothing
\* but the indicator.
LEMMA LogValueIsValid ==
  ASSUME NEW s \in Seq(Bytes), Valid(s), NEW max \in 0..Len(s)
  PROVE  Valid(boundLogValue(s, max))
<1> DEFINE I == {cut \in 0..max : RuneStart(s[cut + 1])}
           C == {0} \cup I
<1>1. Len(s) \in Nat /\ max \in Nat
  OBVIOUS
<1>2. CASE Len(s) <= max
  BY <1>2 DEF boundLogValue
<1>3. CASE ~ (Len(s) <= max)
  <2> DEFINE p == Max(C)
             kept == Prefix(s, p)
  <2>1. boundLogValue(s, max) = kept \o Ellipsis
    BY <1>3 DEF boundLogValue
  <2>2. C \in SUBSET (0..max) /\ C # {}
    BY <1>1
  <2>3. p \in C
    BY <1>1, <2>2, GreatestIndex
  <2>4. p \in 0..Len(s)
    BY <1>1, <1>3, <2>2, <2>3
  <2>5. p = 0 \/ RuneStart(s[p + 1])
    BY <2>3
  <2> HIDE DEF p
  <2>6. kept \in Seq(Bytes) /\ Len(kept) = p
    BY <1>1, <2>4, PrefixProperties
  <2>7. Valid(kept)
    <3>1. CASE p = 0
      <4>1. kept = <<>>
        BY <2>6, <3>1
      <4>2. Valid(<<>>)
        BY DEF Valid
      <4> QED
        BY <4>1, <4>2
    <3>2. CASE p # 0
      <4>1. p \in 0..(Len(s) - 1) /\ RuneStart(s[p + 1])
        BY <1>1, <1>3, <2>2, <2>3, <2>4, <2>5, <3>2 DEF p
      <4> QED
        BY <4>1, CutAtStart
    <3> QED
      BY <3>1, <3>2
  <2> HIDE DEF kept
  <2> QED
    BY <2>1, <2>6, <2>7, EllipsisIsValid, ConcatIsValid
<1> QED
  BY <1>2, <1>3

-----------------------------------------------------------------------------
(* The inductive invariant: a writer has consumed the first bytes of its   *)
(* stream and kept as many of them as fit, and a result is the one of      *)
(* complete streams.                                                       *)

Kept(s) == IF written[s] <= maxToolOutputBytes THEN written[s] ELSE maxToolOutputBytes

CaptureInv ==
  /\ text \in [Streams -> Texts]
  /\ written \in [Streams -> Nat] /\ buf \in [Streams -> Seq(Bytes)]
  /\ remaining \in [Streams -> Nat] /\ truncated \in [Streams -> BOOLEAN]
  /\ \A s \in Streams :
       /\ written[s] <= Len(text[s])
       /\ buf[s] = Prefix(text[s], Kept(s))
       /\ remaining[s] = maxToolOutputBytes - Kept(s)
       /\ truncated[s] <=> written[s] > maxToolOutputBytes

ResultInv ==
  result # <<>> => /\ \A s \in Streams : written[s] = Len(text[s])
                   /\ result = combineToolOutput(buf["stdout"], buf["stderr"])

\* What a script writes is whole characters.
LEMMA TextIsValid ==
  ASSUME CaptureInv, NEW s \in Streams
  PROVE  text[s] \in Seq(Bytes) /\ Valid(text[s]) /\ Len(text[s]) \in Nat
<1>1. text[s] \in Texts
  BY DEF CaptureInv
<1>2. text[s] \in Seq(Bytes) /\ Valid(text[s])
  BY <1>1, TextsAssumption
<1> QED
  BY <1>2

\* The chunk that a Write gets, and the part of it that it keeps, continue the
\* prefix that was captured before.
LEMMA PrefixGrows ==
  ASSUME NEW t \in Seq(Bytes), NEW w \in Nat, NEW n \in Nat, w + n <= Len(t),
         NEW k \in 0..n
  PROVE  Prefix(t, w) \o Prefix(SubSeq(t, w + 1, w + n), k) = Prefix(t, w + k)
<1> DEFINE c == SubSeq(t, w + 1, w + n)
           p == Prefix(t, w)
           q == Prefix(c, k)
           r == Prefix(t, w + k)
<1>1. Len(t) \in Nat /\ k \in Nat /\ k <= n
  OBVIOUS
<1>2. c \in Seq(Bytes) /\ Len(c) = n /\ \A i \in 1..n : c[i] = t[w + i]
  <2>1. w + 1 \in 1..(Len(t) + 1) /\ w + n \in 0..Len(t) /\ w + n + 1 - (w + 1) = n
    BY <1>1
  <2>2. Len(c) = n /\ c \in Seq(Bytes)
    BY <1>1, <2>1
  <2>3. ASSUME NEW i \in 1..n PROVE c[i] = t[w + i]
    <3>1. i \in 1..((w + n) + 1 - (w + 1)) /\ (w + 1) + i - 1 = w + i
      BY <1>1, <2>1
    <3>2. c[i] = t[(w + 1) + i - 1]
      BY <1>1, <2>1, <3>1
    <3> QED
      BY <3>1, <3>2
  <2> QED
    BY <2>2, <2>3
<1>3. p \in Seq(Bytes) /\ Len(p) = w /\ \A i \in 1..w : p[i] = t[i]
  BY <1>1, PrefixProperties
<1>4. r \in Seq(Bytes) /\ Len(r) = w + k /\ \A i \in 1..(w + k) : r[i] = t[i]
  BY <1>1, PrefixProperties
<1> HIDE DEF c, p, r
<1>5. q \in Seq(Bytes) /\ Len(q) = k /\ \A i \in 1..k : q[i] = c[i]
  BY <1>1, <1>2, PrefixProperties
<1> HIDE DEF q
<1>6. /\ p \o q \in Seq(Bytes) /\ Len(p \o q) = w + k
      /\ \A i \in 1..w : (p \o q)[i] = p[i]
      /\ \A i \in 1..k : (p \o q)[w + i] = q[i]
  BY <1>3, <1>5, ConcatElements
<1>7. \A i \in 1..(w + k) : (p \o q)[i] = r[i]
  <2> TAKE i \in 1..(w + k)
  <2>1. CASE i <= w
    <3>1. i \in 1..w
      BY <2>1
    <3> QED
      BY <1>3, <1>4, <1>6, <3>1
  <2>2. CASE i > w
    <3> DEFINE h == i - w
    <3>1. h \in 1..k /\ i = w + h /\ h \in 1..n
      BY <1>1, <2>2
    <3> HIDE DEF h
    <3> QED
      BY <1>2, <1>4, <1>5, <1>6, <3>1
  <2>3. i <= w \/ i > w
    BY <1>1
  <2> QED
    BY <2>1, <2>2, <2>3
<1>8. p \o q = r
  BY <1>4, <1>6, <1>7, SameElements
<1> QED
  BY <1>8 DEF c, p, q, r

\* Nothing is captured at first.
LEMMA CaptureInit == Init => CaptureInv /\ ResultInv
<1> SUFFICES ASSUME Init PROVE CaptureInv /\ ResultInv
  OBVIOUS
<1>1. ASSUME NEW s \in Streams
      PROVE  /\ written[s] = 0 /\ buf[s] = <<>> /\ remaining[s] = maxToolOutputBytes
             /\ text[s] \in Seq(Bytes)
  BY TextsAssumption DEF Init
<1>2. ASSUME NEW s \in Streams
      PROVE  /\ written[s] <= Len(text[s]) /\ buf[s] = Prefix(text[s], Kept(s))
             /\ remaining[s] = maxToolOutputBytes - Kept(s)
  <2>1. Kept(s) = 0 /\ Len(text[s]) \in Nat
    BY <1>1 DEF Kept
  <2>2. Prefix(text[s], 0) \in Seq(Bytes) /\ Len(Prefix(text[s], 0)) = 0
    BY <1>1, <2>1, PrefixProperties
  <2>3. Prefix(text[s], 0) = <<>>
    BY <2>2
  <2> QED
    BY <1>1, <2>1, <2>3
<1>3. ASSUME NEW s \in Streams PROVE truncated[s] <=> written[s] > maxToolOutputBytes
  <2>1. ~ (written[s] > maxToolOutputBytes)
    BY <1>1
  <2>2. ~ truncated[s]
    BY DEF Init
  <2> QED
    BY <2>1, <2>2, Zenon
<1>4. /\ text \in [Streams -> Texts] /\ written \in [Streams -> Nat]
      /\ buf \in [Streams -> Seq(Bytes)] /\ remaining \in [Streams -> Nat]
      /\ truncated \in [Streams -> BOOLEAN]
  BY DEF Init
<1>5. ResultInv
  BY DEF Init, ResultInv
<1> QED
  BY <1>2, <1>3, <1>4, <1>5 DEF CaptureInv

\* A Write of n bytes keeps the invariant of its stream, whichever of the three
\* branches it takes.
LEMMA WriteStep ==
  ASSUME CaptureInv, NEW s \in Streams, NEW n,
         WriteNothing(s, n) \/ WriteSome(s, n) \/ WriteAll(s, n)
  PROVE  CaptureInv'
<1> DEFINE L == maxToolOutputBytes
           w == written[s]
<1>1. /\ n \in Nat \ {0} /\ w \in Nat /\ w + n <= Len(text[s])
      /\ text' = text
      /\ written' = [written EXCEPT ![s] = w + n]
  <2>1. Copied(s, n)
    BY DEF WriteNothing, WriteSome, WriteAll
  <2>2. w \in Nat /\ Len(text[s]) \in Nat /\ n \in 1..(Len(text[s]) - w)
    BY <2>1, TextIsValid DEF CaptureInv, Copied
  <2> QED
    BY <2>1, <2>2 DEF Copied
<1>2. written' \in [Streams -> Nat] /\ written'[s] = w + n
      /\ \A o \in Streams \ {s} : written'[o] = written[o]
  BY <1>1 DEF CaptureInv
<1>3. /\ buf[s] = Prefix(text[s], Kept(s)) /\ Kept(s) \in 0..L
      /\ remaining[s] = L - Kept(s) /\ remaining[s] \in Nat
      /\ truncated[s] \in BOOLEAN /\ (truncated[s] <=> w > L)
      /\ text[s] \in Seq(Bytes) /\ Len(text[s]) \in Nat
      /\ Kept(s) = IF w <= L THEN w ELSE L
  BY <1>1, TextIsValid DEF CaptureInv, Kept
<1>4. Kept(s)' = IF w + n <= L THEN w + n ELSE L
  BY <1>2 DEF Kept
<1>5. /\ buf' \in [Streams -> Seq(Bytes)] /\ remaining' \in [Streams -> Nat]
      /\ truncated' \in [Streams -> BOOLEAN]
      /\ buf'[s] = Prefix(text[s], Kept(s)') /\ remaining'[s] = L - Kept(s)'
      /\ truncated'[s] <=> w + n > L
      /\ \A o \in Streams \ {s} : /\ buf'[o] = buf[o] /\ remaining'[o] = remaining[o]
                                  /\ truncated'[o] = truncated[o]
  <2>1. CASE WriteNothing(s, n)
    <3>1. /\ remaining[s] <= 0 /\ buf' = buf /\ remaining' = remaining
          /\ truncated' = [truncated EXCEPT ![s] = TRUE]
      BY <2>1 DEF WriteNothing
    <3>2. w >= L /\ Kept(s) = L /\ Kept(s)' = L /\ w + n > L
      BY <1>1, <1>3, <1>4, <3>1
    <3> QED
      BY <1>3, <3>1, <3>2 DEF CaptureInv
  <2>2. CASE WriteSome(s, n)
    <3> DEFINE r == remaining[s]
    <3>1. /\ r > 0 /\ n > r
          /\ buf' = [buf EXCEPT ![s] = buf[s] \o Prefix(Chunk(s, n), r)]
          /\ remaining' = [remaining EXCEPT ![s] = 0]
          /\ truncated' = [truncated EXCEPT ![s] = TRUE]
      BY <2>2 DEF WriteSome
    <3>2. w <= L /\ Kept(s) = w /\ r = L - w /\ w + n > L /\ Kept(s)' = L /\ r \in 0..n
      BY <1>1, <1>3, <1>4, <3>1
    <3>3. buf[s] \o Prefix(Chunk(s, n), r) = Prefix(text[s], w + r) /\ w + r = L
      <4>1. /\ text[s] \in Seq(Bytes) /\ w \in Nat /\ n \in Nat /\ w + n <= Len(text[s])
            /\ r \in 0..n /\ buf[s] = Prefix(text[s], w) /\ w + r = L
        BY <1>1, <1>3, <3>2
      <4>2. Chunk(s, n) = SubSeq(text[s], w + 1, w + n)
        BY DEF Chunk
      <4> HIDE DEF w, r
      <4>3. Prefix(text[s], w) \o Prefix(SubSeq(text[s], w + 1, w + n), r) = Prefix(text[s], w + r)
        BY <4>1, PrefixGrows
      <4> QED
        BY <4>1, <4>2, <4>3
    <3>4. Prefix(text[s], L) \in Seq(Bytes)
      BY <1>3, PrefixProperties
    <3>5. buf' = [buf EXCEPT ![s] = Prefix(text[s], L)]
      BY <3>1, <3>3
    <3>6. remaining'[s] = 0 /\ L - Kept(s)' = 0 /\ buf'[s] = Prefix(text[s], L)
      BY <3>1, <3>2, <3>5 DEF CaptureInv
    <3>7. truncated'[s] <=> w + n > L
      BY <3>1, <3>2 DEF CaptureInv
    <3>8. /\ buf' \in [Streams -> Seq(Bytes)] /\ remaining' \in [Streams -> Nat]
          /\ truncated' \in [Streams -> BOOLEAN]
      <4>1. /\ buf \in [Streams -> Seq(Bytes)] /\ remaining \in [Streams -> Nat]
            /\ truncated \in [Streams -> BOOLEAN]
        BY DEF CaptureInv
      <4>2. buf' \in [Streams -> Seq(Bytes)]
        BY <4>1, <3>4, <3>5
      <4>3. remaining' \in [Streams -> Nat] /\ truncated' \in [Streams -> BOOLEAN]
        BY <4>1, <3>1
      <4> QED
        BY <4>2, <4>3
    <3>9. \A o \in Streams \ {s} : /\ buf'[o] = buf[o] /\ remaining'[o] = remaining[o]
                                    /\ truncated'[o] = truncated[o]
      BY <3>1, <3>5 DEF CaptureInv
    <3>10. Kept(s)' = L
      BY <3>2
    <3>11. buf'[s] = Prefix(text[s], Kept(s)') /\ remaining'[s] = L - Kept(s)'
      BY <3>6, <3>10
    <3> QED
      BY <3>7, <3>8, <3>9, <3>11
  <2>3. CASE WriteAll(s, n)
    <3> DEFINE r == remaining[s]
               c == Chunk(s, n)
    <3>1. /\ r > 0 /\ n <= r /\ truncated' = truncated
          /\ buf' = [buf EXCEPT ![s] = buf[s] \o c]
          /\ remaining' = [remaining EXCEPT ![s] = r - n]
      BY <2>3 DEF WriteAll
    <3>2. /\ w <= L /\ Kept(s) = w /\ r = L - w /\ w + n <= L /\ Kept(s)' = w + n
          /\ r - n \in Nat /\ r - n = L - (w + n)
      BY <1>1, <1>3, <1>4, <3>1
    <3>3. c \in Seq(Bytes) /\ Len(c) = n
      <4>1. /\ text[s] \in Seq(Bytes) /\ w \in Nat /\ n \in Nat \ {0} /\ Len(text[s]) \in Nat
            /\ w + n <= Len(text[s])
        BY <1>1, <1>3
      <4>2. c = SubSeq(text[s], w + 1, w + n)
        BY DEF Chunk
      <4> HIDE DEF c, w
      <4> QED
        BY <4>1, <4>2
    <3>4. Prefix(c, n) = c
      BY <1>1, <3>3, PrefixProperties
    <3>5. buf[s] \o Prefix(c, n) = Prefix(text[s], w + n)
      <4>1. /\ text[s] \in Seq(Bytes) /\ w \in Nat /\ n \in Nat /\ w + n <= Len(text[s])
            /\ n \in 0..n /\ buf[s] = Prefix(text[s], w)
        BY <1>1, <1>3, <3>2
      <4>2. c = SubSeq(text[s], w + 1, w + n)
        BY DEF Chunk
      <4> HIDE DEF c, w
      <4>3. Prefix(text[s], w) \o Prefix(c, n) = Prefix(text[s], w + n)
        BY <4>1, <4>2, PrefixGrows
      <4> QED
        BY <4>1, <4>3
    <3>6. Prefix(text[s], w + n) \in Seq(Bytes)
      BY <1>1, <1>3, PrefixProperties
    <3>7. buf' = [buf EXCEPT ![s] = Prefix(text[s], w + n)]
      BY <3>1, <3>4, <3>5
    <3>8. truncated[s] = FALSE /\ ~ (w + n > L)
      BY <1>1, <1>3, <3>2
    <3>9. remaining'[s] = r - n /\ buf'[s] = Prefix(text[s], w + n)
      BY <3>1, <3>7 DEF CaptureInv
    <3>10. /\ buf' \in [Streams -> Seq(Bytes)] /\ remaining' \in [Streams -> Nat]
           /\ truncated' \in [Streams -> BOOLEAN]
      <4>1. /\ buf \in [Streams -> Seq(Bytes)] /\ remaining \in [Streams -> Nat]
            /\ truncated \in [Streams -> BOOLEAN]
        BY DEF CaptureInv
      <4>2. buf' \in [Streams -> Seq(Bytes)]
        BY <4>1, <3>6, <3>7
      <4>3. remaining' \in [Streams -> Nat] /\ truncated' \in [Streams -> BOOLEAN]
        BY <4>1, <3>1, <3>2
      <4> QED
        BY <4>2, <4>3
    <3>11. \A o \in Streams \ {s} : /\ buf'[o] = buf[o] /\ remaining'[o] = remaining[o]
                                     /\ truncated'[o] = truncated[o]
      BY <3>1, <3>7 DEF CaptureInv
    <3>12. buf'[s] = Prefix(text[s], Kept(s)') /\ remaining'[s] = L - Kept(s)'
      BY <3>2, <3>9
    <3>13. truncated'[s] <=> w + n > L
      BY <3>1, <3>8
    <3> QED
      BY <3>10, <3>11, <3>12, <3>13
  <2> QED
    BY <2>1, <2>2, <2>3
<1>6. ASSUME NEW o \in Streams
      PROVE  /\ written'[o] <= Len(text'[o]) /\ buf'[o] = Prefix(text'[o], Kept(o)')
             /\ remaining'[o] = L - Kept(o)'
             /\ truncated'[o] <=> written'[o] > L
  <2>1. CASE o = s
    BY <1>1, <1>2, <1>5, <2>1
  <2>2. CASE o # s
    <3>1. /\ written'[o] = written[o] /\ buf'[o] = buf[o] /\ remaining'[o] = remaining[o]
          /\ truncated'[o] = truncated[o]
      BY <1>2, <1>5, <2>2
    <3>2. Kept(o)' = Kept(o)
      BY <3>1 DEF Kept
    <3> QED
      BY <1>1, <3>1, <3>2 DEF CaptureInv
  <2> QED
    BY <2>1, <2>2
<1>7. text' \in [Streams -> Texts]
  BY <1>1 DEF CaptureInv
<1> QED
  BY <1>2, <1>5, <1>6, <1>7 DEF CaptureInv

\* For every limit and every text, what a stream's buffer holds is the part of
\* the bytes written that the limit admits, and the result is built from it.
THEOREM CaptureInvariant == Spec => [](CaptureInv /\ ResultInv)
<1>1. Init => CaptureInv /\ ResultInv
  BY CaptureInit
<1>2. CaptureInv /\ ResultInv /\ [Next]_vars => (CaptureInv /\ ResultInv)'
  <2> SUFFICES ASSUME CaptureInv, ResultInv, [Next]_vars
               PROVE  CaptureInv' /\ ResultInv'
    OBVIOUS
  <2>1. ASSUME NEW s \in Streams, NEW n,
               WriteNothing(s, n) \/ WriteSome(s, n) \/ WriteAll(s, n)
        PROVE  CaptureInv' /\ ResultInv'
    <3>1. result = <<>> /\ result' = result
      BY <2>1 DEF WriteNothing, WriteSome, WriteAll, Copied
    <3> QED
      BY <2>1, <3>1, WriteStep DEF ResultInv
  <2>2. CASE Combine
    <3>1. /\ UNCHANGED <<text, written, buf, remaining, truncated>>
          /\ \A s \in Streams : written[s] = Len(text[s])
          /\ result' = combineToolOutput(buf["stdout"], buf["stderr"])
      BY <2>2 DEF Combine
    <3>2. CaptureInv'
      BY <3>1 DEF CaptureInv, Kept
    <3>3. ResultInv'
      BY <3>1 DEF ResultInv
    <3> QED
      BY <3>2, <3>3
  <2>3. CASE Combined \/ UNCHANGED vars
    <3>1. UNCHANGED vars
      BY <2>3 DEF Combined
    <3>2. CaptureInv'
      BY <3>1 DEF CaptureInv, Kept, vars
    <3>3. ResultInv'
      BY <3>1 DEF ResultInv, vars
    <3> QED
      BY <3>2, <3>3
  <2> QED
    BY <2>1, <2>2, <2>3 DEF Next
<1> QED
  BY <1>1, <1>2, PTL DEF Spec

\* A capture is exactly the first bytes of its stream, for any limit and any
\* chunks, and the flag of the log record says exactly that bytes were dropped.
THEOREM CapturesAreExact == Spec => []CaptureIsExact
<1>1. CaptureInv => CaptureIsExact
  <2> SUFFICES ASSUME CaptureInv, NEW s \in Streams
               PROVE  /\ buf[s] = Prefix(text[s], Min({written[s], maxToolOutputBytes}))
                      /\ truncated[s] <=> written[s] > maxToolOutputBytes
    BY DEF CaptureIsExact
  <2>1. written[s] \in Int /\ maxToolOutputBytes \in Int
    BY DEF CaptureInv
  <2>2. Min({written[s], maxToolOutputBytes}) = Kept(s)
    BY <2>1, MinOfPair DEF Kept
  <2> QED
    BY <2>2 DEF CaptureInv
<1> QED
  BY <1>1, CaptureInvariant, PTL

\* A complete stream's capture is its prefix of the limit's length.
LEMMA CompleteCapture ==
  ASSUME CaptureInv, ResultInv, result # <<>>, NEW s \in Streams
  PROVE  buf[s] = Prefix(text[s], maxToolOutputBytes)
<1>1. text[s] \in Seq(Bytes) /\ Len(text[s]) \in Nat /\ written[s] = Len(text[s])
  BY TextIsValid DEF ResultInv
<1>2. buf[s] = Prefix(text[s], Kept(s))
  BY DEF CaptureInv
<1>3. CASE written[s] <= maxToolOutputBytes
  <2>1. Kept(s) = Len(text[s])
    BY <1>1, <1>3 DEF Kept
  <2>2. Prefix(text[s], Len(text[s])) = text[s] /\ Prefix(text[s], maxToolOutputBytes) = text[s]
    BY <1>1, <1>3, PrefixProperties
  <2> QED
    BY <1>2, <2>1, <2>2
<1>4. CASE ~ (written[s] <= maxToolOutputBytes)
  BY <1>2, <1>4 DEF Kept
<1> QED
  BY <1>3, <1>4

\* What the client gets, from the whole streams.
LEMMA ClientSees ==
  ASSUME CaptureInv, ResultInv, result # <<>>
  PROVE  /\ ~ result.marked => result.text = Joined(text["stdout"], text["stderr"])
         /\ Valid(result.text) /\ Len(result.text) <= maxToolOutputBytes
         /\ result.text \in Seq(Bytes) /\ result.marked \in BOOLEAN
<1>1. "stdout" \in Streams /\ "stderr" \in Streams
  BY DEF Streams
<1>2. /\ text["stdout"] \in Seq(Bytes) /\ Valid(text["stdout"])
      /\ text["stderr"] \in Seq(Bytes) /\ Valid(text["stderr"])
  BY <1>1, TextIsValid
<1>3. result = combineToolOutput(Prefix(text["stdout"], maxToolOutputBytes),
                                 Prefix(text["stderr"], maxToolOutputBytes))
  BY <1>1, CompleteCapture DEF ResultInv
<1> QED
  BY <1>2, <1>3, ResultOfCaptures

\* A result without a truncation mark holds both streams whole.
THEOREM LossesAreMarked == Spec => []NoSilentLoss
<1>1. CaptureInv /\ ResultInv => NoSilentLoss
  BY ClientSees DEF NoSilentLoss
<1> QED
  BY <1>1, CaptureInvariant, PTL

\* No cut of a result or of a logged value leaves a broken character, and no
\* result is longer than the limit.
THEOREM TextStaysWhole == Spec => []TextStaysText
<1>1. CaptureInv /\ ResultInv => TextStaysText
  <2> SUFFICES ASSUME CaptureInv, ResultInv PROVE TextStaysText
    OBVIOUS
  <2>1. result # <<>> => Valid(result.text) /\ Len(result.text) <= maxToolOutputBytes
    BY ClientSees
  <2>2. \A s \in Streams : \A max \in 0..Len(text[s]) : Valid(boundLogValue(text[s], max))
    BY TextIsValid, LogValueIsValid
  <2> QED
    BY <2>1, <2>2 DEF TextStaysText
<1> QED
  BY <1>1, CaptureInvariant, PTL

\* For every limit and every text, all variables have their types: no capture
\* grows past the limit, and a result is bytes and a mark.
THEOREM TypeCorrect == Spec => []TypeOK
<1>1. CaptureInv /\ ResultInv => TypeOK
  <2> SUFFICES ASSUME CaptureInv, ResultInv PROVE TypeOK
    OBVIOUS
  <2>1. ASSUME NEW s \in Streams
        PROVE  /\ written[s] \in 0..Len(text[s])
               /\ buf[s] \in Seq(Bytes) /\ Len(buf[s]) <= maxToolOutputBytes
               /\ remaining[s] \in 0..maxToolOutputBytes
    <3>1. /\ text[s] \in Seq(Bytes) /\ Len(text[s]) \in Nat
          /\ written[s] \in Nat /\ written[s] <= Len(text[s])
          /\ buf[s] = Prefix(text[s], Kept(s))
          /\ remaining[s] = maxToolOutputBytes - Kept(s)
      BY TextIsValid DEF CaptureInv
    <3>2. Kept(s) \in 0..maxToolOutputBytes
      BY <3>1, SizesAssumption DEF Kept
    <3>3. /\ buf[s] \in Seq(Bytes)
          /\ Len(buf[s]) = IF Kept(s) <= Len(text[s]) THEN Kept(s) ELSE Len(text[s])
      BY <3>1, <3>2, PrefixProperties
    <3> QED
      BY <3>1, <3>2, <3>3, SizesAssumption
  <2>2. result = <<>> \/ (result.text \in Seq(Bytes) /\ result.marked \in BOOLEAN)
    <3> SUFFICES ASSUME result # <<>>
                 PROVE  result.text \in Seq(Bytes) /\ result.marked \in BOOLEAN
      OBVIOUS
    <3>1. \A s \in Streams : buf[s] = Prefix(text[s], maxToolOutputBytes)
      BY CompleteCapture DEF ResultInv
    <3>2. result = combineToolOutput(Prefix(text["stdout"], maxToolOutputBytes),
                                     Prefix(text["stderr"], maxToolOutputBytes))
      BY <3>1 DEF ResultInv, Streams
    <3>3. \A s \in Streams : text[s] \in Seq(Bytes) /\ Valid(text[s])
      BY TextIsValid
    <3> QED
      BY <3>2, <3>3, ResultOfCaptures DEF Streams
  <2> QED
    BY <2>1, <2>2 DEF TypeOK, CaptureInv
<1> QED
  BY <1>1, CaptureInvariant, PTL
=============================================================================

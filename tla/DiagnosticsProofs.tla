-------------------------- MODULE DiagnosticsProofs --------------------------
(***************************************************************************)
(* Discovery, schema and the diagnostic modes, for every file, directory,  *)
(* request and argument.                                                   *)
(***************************************************************************)
EXTENDS Diagnostics, FiniteSetTheorems, WellFoundedInduction, TLAPS

-----------------------------------------------------------------------------
(* Naturals and recursive functions. *)

\* A set of naturals has its minimum.
LEMMA LeastIndex ==
  ASSUME NEW S \in SUBSET Nat, S # {}
  PROVE  Min(S) \in S /\ \A y \in S : Min(S) <= y
<1>1. PICK x \in S : \A y \in S : ~ (<<y, x>> \in OpToRel(<, Nat))
  BY NatLessThanWellFounded, WFMin
<1>2. \A y \in S : x <= y
  <2> TAKE y \in S
  <2>1. x \in Nat /\ y \in Nat /\ <<y, x>> \in Nat \X Nat
    OBVIOUS
  <2>2. <<y, x>>[1] = y /\ <<y, x>>[2] = x
    OBVIOUS
  <2>3. ~ (<<y, x>>[1] < <<y, x>>[2])
    BY <1>1, <2>1 DEF OpToRel
  <2> QED
    BY <2>1, <2>2, <2>3
<1> QED
  BY <1>1, <1>2 DEF Min

\* A set of naturals with an upper bound has its maximum.
LEMMA GreatestIndex ==
  ASSUME NEW n \in Nat, NEW S \in SUBSET (0..n), S # {}
  PROVE  Max(S) \in S /\ \A y \in S : y <= Max(S)
<1> DEFINE D == {d \in 0..n : n - d \in S}
           x == n - Min(D)
<1>1. \A y \in S : y \in 0..n /\ n - y \in D
  OBVIOUS
<1>2. D \in SUBSET Nat /\ D # {}
  <2>1. PICK y \in S : TRUE
    OBVIOUS
  <2>2. n - y \in D
    BY <1>1, <2>1
  <2>3. D \in SUBSET Nat
    OBVIOUS
  <2> HIDE DEF D
  <2> QED
    BY <2>2, <2>3
<1>3. Min(D) \in D /\ \A d \in D : Min(D) <= d
  BY <1>2, LeastIndex
<1>4. x \in S /\ Min(D) \in Nat
  BY <1>3
<1>5. \A y \in S : x >= y
  BY <1>1, <1>3
<1> HIDE DEF x, D
<1> QED
  BY <1>4, <1>5 DEF Max

\* Induction, for a set: what holds of zero and of the next one holds of all.
LEMMA AllNaturals ==
  ASSUME NEW S, 0 \in S, \A n \in Nat : n \in S => n + 1 \in S
  PROVE  \A n \in Nat : n \in S
<1> DEFINE T == Nat \ S
<1> SUFFICES ASSUME T # {} PROVE FALSE
  OBVIOUS
<1> DEFINE m == Min(T)
<1>1. T \in SUBSET Nat
  OBVIOUS
<1>2. m \in T /\ \A y \in T : m <= y
  BY <1>1, LeastIndex
<1> HIDE DEF m
<1>3. m \in Nat /\ m \notin S /\ m # 0
  BY <1>2
<1>4. m - 1 \in Nat /\ m - 1 \notin T
  BY <1>2, <1>3
<1>5. (m - 1) + 1 \in S /\ (m - 1) + 1 = m
  BY <1>3, <1>4
<1> QED
  BY <1>3, <1>5

\* Steps from S into S, and the function of their first n iterates.
StaysIn(S, n, step) == \A x \in S : \A k \in 1..n : step[<<x, k>>] \in S
Iterated(f, S, e, n, step) ==
  /\ f \in [0..n -> S]
  /\ f[0] = e
  /\ \A k \in 1..n : f[k] = step[<<f[k - 1], k>>]

\* Steps can be iterated.
LEMMA Iterates ==
  ASSUME NEW S, NEW e \in S, NEW n \in Nat, NEW step, StaysIn(S, n, step)
  PROVE  \E f : Iterated(f, S, e, n, step)
<1>0. \A x \in S : \A k \in 1..n : step[<<x, k>>] \in S
  BY DEF StaysIn
<1> DEFINE Good(m, f) == f[0] = e /\ \A k \in 1..m : f[k] = step[<<f[k - 1], k>>]
           G == {m \in Nat : m <= n => \E f \in [0..m -> S] : Good(m, f)}
<1>1. 0 \in G
  <2> DEFINE f == [k \in 0..0 |-> e]
  <2>1. f \in [0..0 -> S] /\ f[0] = e /\ 1..0 = {}
    OBVIOUS
  <2>2. Good(0, f)
    BY <2>1
  <2> QED
    BY <2>1, <2>2
<1>2. ASSUME NEW m \in Nat, m \in G PROVE m + 1 \in G
  <2> SUFFICES ASSUME m + 1 <= n PROVE \E f \in [0..(m + 1) -> S] : Good(m + 1, f)
    OBVIOUS
  <2>1. PICK g \in [0..m -> S] : Good(m, g)
    BY <1>2
  <2> DEFINE f == [k \in 0..(m + 1) |-> IF k <= m THEN g[k] ELSE step[<<g[m], m + 1>>]]
  <2>2. g[m] \in S /\ step[<<g[m], m + 1>>] \in S
    BY <1>0
  <2>3. f \in [0..(m + 1) -> S]
    BY <2>2
  <2>4. f[m + 1] = step[<<g[m], m + 1>>] /\ \A k \in 0..m : f[k] = g[k]
    OBVIOUS
  <2> HIDE DEF f
  <2>5. ASSUME NEW k \in 1..(m + 1) PROVE f[k] = step[<<f[k - 1], k>>]
    <3>1. CASE k = m + 1
      <4>1. k - 1 = m /\ f[m] = g[m]
        BY <2>4, <3>1
      <4> QED
        BY <2>4, <3>1, <4>1
    <3>2. CASE k # m + 1
      <4>1. k \in 1..m /\ k - 1 \in 0..m /\ k \in 0..m
        BY <3>2
      <4> QED
        BY <2>1, <2>4, <4>1
    <3> QED
      BY <3>1, <3>2
  <2>6. f[0] = e
    BY <2>1, <2>4
  <2> QED
    BY <2>3, <2>5, <2>6
<1>3. \A m \in Nat : m \in G
  <2> HIDE DEF G
  <2> QED
    BY <1>1, <1>2, AllNaturals
<1>4. n \in G
  BY <1>3
<1>5. \E f \in [0..n -> S] : Good(n, f)
  BY <1>4
<1> QED
  BY <1>5 DEF Iterated

\* normalizeParams' loop, one declaration after the other.
LEMMA NormalizedSteps ==
  ASSUME NEW P, NEW list \in Seq(P)
  PROVE  /\ normalized(list) \in [0..Len(list) -> Seq(P)]
         /\ normalized(list)[0] = <<>>
         /\ \A k \in 1..Len(list) :
              normalized(list)[k] = Declare(normalized(list)[k - 1], list[k])
<1> DEFINE n == Len(list)
           step == [x \in Seq(P) \X (1..n) |-> Declare(x[1], list[x[2]])]
           Body(f) == [k \in 0..n |-> IF k = 0 THEN <<>> ELSE Declare(f[k - 1], list[k])]
<1>1. n \in Nat /\ <<>> \in Seq(P) /\ \A k \in 1..n : list[k] \in P
  OBVIOUS
<1>2. ASSUME NEW x \in Seq(P), NEW p \in P PROVE Declare(x, p) \in Seq(P)
  <2>1. Append(x, p) \in Seq(P)
    OBVIOUS
  <2>2. [i \in DOMAIN x |-> IF x[i].name = p.name THEN p ELSE x[i]] \in [1..Len(x) -> P]
    OBVIOUS
  <2>3. [i \in DOMAIN x |-> IF x[i].name = p.name THEN p ELSE x[i]] \in Seq(P)
    BY <2>2
  <2> QED
    BY <2>1, <2>3 DEF Declare
<1>3. \A x \in Seq(P) : \A k \in 1..n : step[<<x, k>>] = Declare(x, list[k])
  OBVIOUS
<1>4. \A x \in Seq(P) : \A k \in 1..n : step[<<x, k>>] \in Seq(P)
  BY <1>1, <1>2, <1>3
<1> HIDE DEF step, n
<1>5. PICK g : Iterated(g, Seq(P), <<>>, n, step)
  <2>1. StaysIn(Seq(P), n, step)
    BY <1>4 DEF StaysIn
  <2> QED
    BY <1>1, <2>1, Iterates
<1>6. g[0] = <<>> /\ \A k \in 1..n : k - 1 \in 0..n /\ g[k - 1] \in Seq(P)
  <2>1. g[0] = <<>> /\ g \in [0..n -> Seq(P)]
    BY <1>5 DEF Iterated
  <2>2. \A k \in 1..n : k - 1 \in 0..n
    BY <1>1
  <2> QED
    BY <2>1, <2>2
<1>7. \A k \in 1..n : g[k] = Declare(g[k - 1], list[k])
  BY <1>3, <1>5, <1>6 DEF Iterated
<1>8. g = Body(g)
  <2>1. \A k \in 0..n : g[k] = IF k = 0 THEN <<>> ELSE Declare(g[k - 1], list[k])
    BY <1>1, <1>6, <1>7
  <2>2. g = [k \in 0..n |-> g[k]]
    BY <1>5 DEF Iterated
  <2> QED
    BY <2>1, <2>2
<1>9. normalized(list) = CHOOSE f : f = Body(f)
  BY DEF normalized, n
<1> DEFINE h == normalized(list)
<1>10. h = Body(h)
  BY <1>8, <1>9
<1>11. h[0] = <<>> /\ \A k \in 1..n : h[k] = Declare(h[k - 1], list[k])
  <2> HIDE DEF h
  <2>1. \A k \in 0..n : h[k] = IF k = 0 THEN <<>> ELSE Declare(h[k - 1], list[k])
    BY <1>10
  <2> QED
    BY <1>1, <2>1
<1>12. h \in [0..n -> Seq(P)]
  <2> HIDE DEF h
  <2> DEFINE G == {k \in Nat : k <= n => h[k] \in Seq(P)}
  <2>1. 0 \in G
    BY <1>1, <1>11
  <2>2. ASSUME NEW k \in Nat, k \in G PROVE k + 1 \in G
    <3> SUFFICES ASSUME k + 1 <= n PROVE h[k + 1] \in Seq(P)
      OBVIOUS
    <3>1. k + 1 \in 1..n /\ (k + 1) - 1 = k /\ h[k] \in Seq(P)
      BY <1>1, <2>2
    <3>2. h[k + 1] = Declare(h[k], list[k + 1])
      BY <1>11, <3>1
    <3> QED
      BY <1>1, <1>2, <3>1, <3>2
  <2>3. \A k \in Nat : k \in G
    <3> HIDE DEF G
    <3> QED
      BY <2>1, <2>2, AllNaturals
  <2>4. \A k \in 0..n : h[k] \in Seq(P)
    BY <1>1, <2>3
  <2>5. h = [k \in 0..n |-> h[k]]
    BY <1>10
  <2> QED
    BY <2>4, <2>5
<1> QED
  BY <1>11, <1>12 DEF n

\* The elements that are kept, one after the other.
LEMMA KeptSteps ==
  ASSUME NEW E, NEW list \in Seq(E), NEW S
  PROVE  /\ kept(list, S) \in [0..Len(list) -> Seq(E)]
         /\ kept(list, S)[0] = <<>>
         /\ \A k \in 1..Len(list) :
              kept(list, S)[k] = IF list[k] \in S THEN Append(kept(list, S)[k - 1], list[k])
                                 ELSE kept(list, S)[k - 1]
<1> DEFINE n == Len(list)
           Next1(x, k) == IF list[k] \in S THEN Append(x, list[k]) ELSE x
           step == [x \in Seq(E) \X (1..n) |-> Next1(x[1], x[2])]
           Body(f) == [k \in 0..n |-> IF k = 0 THEN <<>>
                                      ELSE IF list[k] \in S THEN Append(f[k - 1], list[k])
                                      ELSE f[k - 1]]
           h == kept(list, S)
<1>1. n \in Nat /\ <<>> \in Seq(E) /\ \A k \in 1..n : list[k] \in E
  OBVIOUS
<1>2. \A x \in Seq(E) : \A k \in 1..n : Next1(x, k) \in Seq(E)
  OBVIOUS
<1>3. \A x \in Seq(E) : \A k \in 1..n : step[<<x, k>>] = Next1(x, k)
  OBVIOUS
<1>4. StaysIn(Seq(E), n, step)
  <2> HIDE DEF step, Next1
  <2> QED
    BY <1>2, <1>3 DEF StaysIn
<1>5. PICK g : Iterated(g, Seq(E), <<>>, n, step)
  <2> HIDE DEF step, n
  <2> QED
    BY <1>1, <1>4, Iterates
<1>6. g[0] = <<>> /\ \A k \in 1..n : k - 1 \in 0..n /\ g[k - 1] \in Seq(E)
  <2>1. g[0] = <<>> /\ g \in [0..n -> Seq(E)]
    BY <1>5 DEF Iterated
  <2>2. \A k \in 1..n : k - 1 \in 0..n
    BY <1>1
  <2> QED
    BY <2>1, <2>2
<1>7. \A k \in 1..n : g[k] = Next1(g[k - 1], k)
  <2> HIDE DEF step, Next1
  <2> QED
    BY <1>3, <1>5, <1>6 DEF Iterated
<1>8. g = Body(g)
  <2>1. \A k \in 0..n : g[k] = Body(g)[k]
    BY <1>1, <1>6, <1>7
  <2>2. g = [k \in 0..n |-> g[k]]
    BY <1>5 DEF Iterated
  <2> QED
    BY <2>1, <2>2
<1>9. h = CHOOSE f : f = Body(f)
  BY DEF kept
<1>10. h = Body(h)
  BY <1>8, <1>9
<1> HIDE DEF h, n
<1>11. h[0] = <<>> /\ \A k \in 1..n : h[k] = Next1(h[k - 1], k)
  <2>1. \A k \in 0..n : h[k] = Body(h)[k]
    BY <1>10
  <2> QED
    BY <1>1, <2>1
<1>12. h \in [0..n -> Seq(E)]
  <2> DEFINE G == {k \in Nat : k <= n => h[k] \in Seq(E)}
  <2>1. 0 \in G
    BY <1>1, <1>11
  <2>2. ASSUME NEW k \in Nat, k \in G PROVE k + 1 \in G
    <3> SUFFICES ASSUME k + 1 <= n PROVE h[k + 1] \in Seq(E)
      OBVIOUS
    <3>1. k + 1 \in 1..n /\ (k + 1) - 1 = k /\ h[k] \in Seq(E)
      BY <1>1, <2>2
    <3> HIDE DEF Next1
    <3>2. h[k + 1] = Next1(h[k], k + 1)
      BY <1>11, <3>1
    <3> QED
      BY <1>2, <3>1, <3>2
  <2>3. \A k \in Nat : k \in G
    <3> HIDE DEF G
    <3> QED
      BY <2>1, <2>2, AllNaturals
  <2>4. \A k \in 0..n : h[k] \in Seq(E)
    BY <1>1, <2>3
  <2>5. h = [k \in 0..n |-> h[k]]
    BY <1>10
  <2> QED
    BY <2>4, <2>5
<1> QED
  BY <1>11, <1>12 DEF n, h

\* The places of the elements of r in the first n of a list.
Places(r, list, S, n, at) ==
  /\ at \in [1..Len(r) -> 1..n]
  /\ \A i \in 1..Len(r) : r[i] = list[at[i]] /\ list[at[i]] \in S
  /\ \A i, j \in 1..Len(r) : i < j => at[i] < at[j]
  /\ \A m \in 1..n : list[m] \in S => \E i \in 1..Len(r) : at[i] = m

\* Only keeps exactly the elements of the set, in their order.
LEMMA OnlyPlaces ==
  ASSUME NEW E, NEW list \in Seq(E), NEW S
  PROVE  /\ Only(list, S) \in Seq(E)
         /\ \E at : Places(Only(list, S), list, S, Len(list), at)
<1> DEFINE h == kept(list, S)
           n == Len(list)
           G == {m \in Nat : m <= n => \E at : Places(h[m], list, S, m, at)}
<1>0. n \in Nat
  OBVIOUS
<1>1. /\ h \in [0..n -> Seq(E)]
      /\ h[0] = <<>>
      /\ \A k \in 1..n : h[k] = IF list[k] \in S THEN Append(h[k - 1], list[k]) ELSE h[k - 1]
  BY KeptSteps
<1> HIDE DEF h, n
<1>2. 0 \in G
  <2> DEFINE at == [i \in {} |-> 1]
  <2>1. Len(h[0]) = 0 /\ 1..0 = {}
    BY <1>1
  <2>2. at \in [{} -> 1..0]
    OBVIOUS
  <2> HIDE DEF at
  <2>3. Places(h[0], list, S, 0, at)
    BY <2>1, <2>2 DEF Places
  <2> QED
    BY <2>3
<1>3. ASSUME NEW m \in Nat, m \in G PROVE m + 1 \in G
  <2> SUFFICES ASSUME m + 1 <= n PROVE \E at : Places(h[m + 1], list, S, m + 1, at)
    OBVIOUS
  <2>1. m + 1 \in 1..n /\ (m + 1) - 1 = m /\ m \in 0..n /\ m <= n
    BY <1>0
  <2>2. PICK at : Places(h[m], list, S, m, at)
    BY <1>3, <2>1
  <2> DEFINE r == h[m]
             q == h[m + 1]
  <2>3. r \in Seq(E) /\ Len(r) \in Nat
    BY <1>1, <2>1
  <2>4. q = IF list[m + 1] \in S THEN Append(r, list[m + 1]) ELSE r
    BY <1>1, <2>1
  <2>5. /\ at \in [1..Len(r) -> 1..m]
        /\ \A i \in 1..Len(r) : r[i] = list[at[i]] /\ list[at[i]] \in S
        /\ \A i, j \in 1..Len(r) : i < j => at[i] < at[j]
        /\ \A k \in 1..m : list[k] \in S => \E i \in 1..Len(r) : at[i] = k
    BY <2>2 DEF Places
  <2> HIDE DEF r, q
  <2>6. CASE list[m + 1] \in S
    <3> DEFINE len == Len(r)
               to == [i \in 1..(len + 1) |-> IF i <= len THEN at[i] ELSE m + 1]
    <3>1. q = Append(r, list[m + 1])
      BY <2>4, <2>6
    <3>2. /\ Len(q) = len + 1 /\ q[len + 1] = list[m + 1]
          /\ \A i \in 1..len : q[i] = r[i]
      BY <2>3, <3>1
    <3>3. /\ to[len + 1] = m + 1 /\ \A i \in 1..len : to[i] = at[i]
      BY <2>3
    <3>4. \A i \in 1..(len + 1) : i \in 1..len \/ i = len + 1
      BY <2>3
    <3>5. to \in [1..(len + 1) -> 1..(m + 1)]
      BY <2>3, <2>5
    <3> HIDE DEF to
    <3>6. \A i \in 1..(len + 1) : q[i] = list[to[i]] /\ list[to[i]] \in S
      BY <2>5, <2>6, <3>2, <3>3, <3>4
    <3>7. \A i, j \in 1..(len + 1) : i < j => to[i] < to[j]
      <4> SUFFICES ASSUME NEW i \in 1..(len + 1), NEW j \in 1..(len + 1), i < j
                   PROVE  to[i] < to[j]
        OBVIOUS
      <4>1. i \in 1..len /\ to[i] = at[i] /\ at[i] \in 1..m
        BY <2>3, <2>5, <3>3
      <4>2. CASE j = len + 1
        BY <3>3, <4>1, <4>2
      <4>3. CASE j \in 1..len
        BY <2>5, <3>3, <4>1, <4>3
      <4> QED
        BY <3>4, <4>2, <4>3
    <3>8. ASSUME NEW k \in 1..(m + 1), list[k] \in S
          PROVE  \E i \in 1..(len + 1) : to[i] = k
      <4>1. CASE k = m + 1
        <5>1. len + 1 \in 1..(len + 1)
          BY <2>3
        <5> QED
          BY <3>3, <4>1, <5>1
      <4>2. CASE k # m + 1
        <5>1. k \in 1..m
          BY <4>2
        <5>2. PICK i \in 1..len : at[i] = k
          BY <2>5, <3>8, <5>1
        <5>3. i \in 1..(len + 1)
          BY <2>3
        <5> QED
          BY <3>3, <5>2, <5>3
      <4> QED
        BY <4>1, <4>2
    <3> HIDE DEF len
    <3>9. Places(q, list, S, m + 1, to)
      BY <3>2, <3>5, <3>6, <3>7, <3>8 DEF Places
    <3> QED
      BY <3>9 DEF q
  <2>7. CASE list[m + 1] \notin S
    <3>1. q = r
      BY <2>4, <2>7
    <3>2. at \in [1..Len(r) -> 1..(m + 1)]
      BY <2>5
    <3>3. ASSUME NEW k \in 1..(m + 1), list[k] \in S
          PROVE  \E i \in 1..Len(r) : at[i] = k
      <4>1. k # m + 1
        BY <2>7, <3>3
      <4>2. k \in 1..m
        BY <4>1
      <4> QED
        BY <2>5, <3>3, <4>2
    <3>4. Places(q, list, S, m + 1, at)
      BY <2>5, <3>1, <3>2, <3>3 DEF Places
    <3> QED
      BY <3>4 DEF q
  <2> QED
    BY <2>6, <2>7
<1>4. \A m \in Nat : m \in G
  <2> HIDE DEF G
  <2> QED
    BY <1>2, <1>3, AllNaturals
<1>5. \E at : Places(h[n], list, S, n, at)
  BY <1>0, <1>4
<1>6. Only(list, S) = h[n] /\ h[n] \in Seq(E)
  BY <1>0, <1>1 DEF Only, h, n
<1> QED
  BY <1>5, <1>6 DEF n

\* What normalizeParams has made of the first n declarations: each name with
\* its last declaration, in the order of the first ones.
Merged(out1, list, n) ==
  /\ \A i \in 1..Len(out1) : \E k \in 1..n :
       out1[i] = list[k] /\ \A m \in (k + 1)..n : list[m].name # list[k].name
  /\ \A k \in 1..n : \E i \in 1..Len(out1) : out1[i].name = list[k].name
  /\ \A i, j \in 1..Len(out1) : i < j =>
       \E k \in 1..n : list[k].name = out1[i].name /\ \A m \in 1..k : list[m].name # out1[j].name

\* One more declaration is merged into the ones before it.
LEMMA MergedStep ==
  ASSUME NEW P, NEW list \in Seq(P), NEW n \in Nat, n + 1 <= Len(list),
         NEW r \in Seq(P), Merged(r, list, n)
  PROVE  Merged(Declare(r, list[n + 1]), list, n + 1)
<1> DEFINE p == list[n + 1]
           q == Declare(r, p)
           len == Len(r)
           Known == \E i \in DOMAIN r : r[i].name = p.name
<1>1. len \in Nat /\ DOMAIN r = 1..len /\ n + 1 \in 1..Len(list) /\ p \in P
  OBVIOUS
<1>2. /\ \A i \in 1..len : \E k \in 1..n :
           r[i] = list[k] /\ \A m \in (k + 1)..n : list[m].name # list[k].name
      /\ \A k \in 1..n : \E i \in 1..len : r[i].name = list[k].name
      /\ \A i, j \in 1..len : i < j =>
           \E k \in 1..n : list[k].name = r[i].name /\ \A m \in 1..k : list[m].name # r[j].name
  BY DEF Merged
<1>3. \A k \in 1..n : k \in 1..(n + 1)
  OBVIOUS
<1>4. \A k \in 1..(n + 1) : k \in 1..n \/ k = n + 1
  OBVIOUS
<1>5. n + 1 \in 1..(n + 1) /\ \A m : ~ (m \in ((n + 1) + 1)..(n + 1))
  OBVIOUS
<1> HIDE DEF p, q
<1>6. CASE Known
  <2>1. q = [i \in 1..len |-> IF r[i].name = p.name THEN p ELSE r[i]]
    BY <1>1, <1>6 DEF Declare, q
  <2>2. Len(q) = len /\ \A i \in 1..len : q[i] = IF r[i].name = p.name THEN p ELSE r[i]
    BY <1>1, <2>1
  <2>3. \A i \in 1..len : q[i].name = r[i].name
    BY <2>2
  <2> HIDE DEF len
  <2>4. ASSUME NEW i \in 1..len
        PROVE  \E k \in 1..(n + 1) :
                 q[i] = list[k] /\ \A m \in (k + 1)..(n + 1) : list[m].name # list[k].name
    <3>1. CASE r[i].name = p.name
      BY <1>5, <2>2, <3>1 DEF p
    <3>2. CASE r[i].name # p.name
      <4>1. PICK k \in 1..n : r[i] = list[k] /\ \A m \in (k + 1)..n : list[m].name # list[k].name
        BY <1>2
      <4>2. \A m \in (k + 1)..(n + 1) : list[m].name # list[k].name
        <5> TAKE m \in (k + 1)..(n + 1)
        <5>1. CASE m = n + 1
          BY <3>2, <4>1, <5>1 DEF p
        <5>2. CASE m # n + 1
          <6>1. m \in (k + 1)..n
            BY <5>2
          <6> QED
            BY <4>1, <6>1
        <5> QED
          BY <5>1, <5>2
      <4> QED
        BY <1>3, <2>2, <3>2, <4>1, <4>2
    <3> QED
      BY <3>1, <3>2
  <2>5. ASSUME NEW k \in 1..(n + 1)
        PROVE  \E i \in 1..len : q[i].name = list[k].name
    <3>1. CASE k \in 1..n
      BY <1>2, <2>3, <3>1
    <3>2. CASE k = n + 1
      <4>1. PICK i \in 1..len : r[i].name = p.name
        BY <1>1, <1>6 DEF len
      <4> QED
        BY <2>3, <3>2, <4>1 DEF p
    <3> QED
      BY <1>4, <3>1, <3>2
  <2>6. ASSUME NEW i \in 1..len, NEW j \in 1..len, i < j
        PROVE  \E k \in 1..(n + 1) :
                 list[k].name = q[i].name /\ \A m \in 1..k : list[m].name # q[j].name
    <3>1. PICK k \in 1..n : list[k].name = r[i].name /\ \A m \in 1..k : list[m].name # r[j].name
      BY <1>2, <2>6
    <3> QED
      BY <1>3, <2>3, <3>1
  <2> QED
    BY <2>2, <2>4, <2>5, <2>6 DEF Merged, q, p
<1>7. CASE ~ Known
  <2>1. q = Append(r, p) /\ \A i \in 1..len : r[i].name # p.name
    BY <1>1, <1>7 DEF Declare, q
  <2>2. Len(q) = len + 1 /\ q[len + 1] = p /\ \A i \in 1..len : q[i] = r[i]
    BY <1>1, <2>1
  <2>3. /\ \A i \in 1..(len + 1) : i \in 1..len \/ i = len + 1
        /\ \A i \in 1..len : i \in 1..(len + 1)
        /\ len + 1 \in 1..(len + 1)
    BY <1>1
  <2>4. \A k \in 1..n : list[k].name # p.name
    <3> TAKE k \in 1..n
    <3>1. PICK i \in 1..len : r[i].name = list[k].name
      BY <1>2
    <3>2. r[i].name # p.name
      BY <2>1
    <3> QED
      BY <3>1, <3>2
  <2>5. ASSUME NEW i \in 1..(len + 1)
        PROVE  \E k \in 1..(n + 1) :
                 q[i] = list[k] /\ \A m \in (k + 1)..(n + 1) : list[m].name # list[k].name
    <3>1. CASE i = len + 1
      BY <1>5, <2>2, <3>1 DEF p
    <3>2. CASE i \in 1..len
      <4>1. PICK k \in 1..n : r[i] = list[k] /\ \A m \in (k + 1)..n : list[m].name # list[k].name
        BY <1>2, <3>2
      <4>2. \A m \in (k + 1)..(n + 1) : list[m].name # list[k].name
        <5> TAKE m \in (k + 1)..(n + 1)
        <5>1. CASE m = n + 1
          BY <2>4, <5>1 DEF p
        <5>2. CASE m # n + 1
          <6>1. m \in (k + 1)..n
            BY <5>2
          <6> QED
            BY <4>1, <6>1
        <5> QED
          BY <5>1, <5>2
      <4> QED
        BY <1>3, <2>2, <3>2, <4>1, <4>2
    <3> QED
      BY <2>3, <3>1, <3>2
  <2>6. ASSUME NEW k \in 1..(n + 1)
        PROVE  \E i \in 1..(len + 1) : q[i].name = list[k].name
    <3>1. CASE k \in 1..n
      <4>1. PICK i \in 1..len : r[i].name = list[k].name
        BY <1>2, <3>1
      <4> QED
        BY <2>2, <2>3, <4>1
    <3>2. CASE k = n + 1
      BY <2>2, <2>3, <3>2 DEF p
    <3> QED
      BY <1>4, <3>1, <3>2
  <2>7. ASSUME NEW i \in 1..(len + 1), NEW j \in 1..(len + 1), i < j
        PROVE  \E k \in 1..(n + 1) :
                 list[k].name = q[i].name /\ \A m \in 1..k : list[m].name # q[j].name
    <3>1. i \in 1..len /\ q[i] = r[i]
      BY <1>1, <2>2, <2>7
    <3>2. CASE j \in 1..len
      <4>1. PICK k \in 1..n : list[k].name = r[i].name /\ \A m \in 1..k : list[m].name # r[j].name
        BY <1>2, <2>7, <3>1, <3>2
      <4> QED
        BY <1>3, <2>2, <3>1, <3>2, <4>1
    <3>3. CASE j = len + 1
      <4>1. PICK k \in 1..n : r[i] = list[k]
        BY <1>2, <3>1
      <4>2. \A m \in 1..k : m \in 1..n
        OBVIOUS
      <4>3. \A m \in 1..k : list[m].name # q[j].name
        BY <2>2, <2>4, <3>3, <4>2
      <4> QED
        BY <1>3, <3>1, <4>1, <4>3
    <3> QED
      BY <2>3, <3>2, <3>3
  <2> HIDE DEF len
  <2> QED
    BY <2>2, <2>5, <2>6, <2>7 DEF Merged, q, p
<1> QED
  BY <1>6, <1>7

\* normalizeParams keeps each name at its first position with its last
\* declaration.
LEMMA NormalizedMerges ==
  ASSUME NEW P, NEW list \in Seq(P)
  PROVE  /\ normalizeParams(list) \in Seq(P)
         /\ Merged(normalizeParams(list), list, Len(list))
<1> DEFINE h == normalized(list)
           n == Len(list)
           G == {m \in Nat : m <= n => Merged(h[m], list, m)}
<1>0. n \in Nat
  OBVIOUS
<1>1. /\ h \in [0..n -> Seq(P)]
      /\ h[0] = <<>>
      /\ \A k \in 1..n : h[k] = Declare(h[k - 1], list[k])
  BY NormalizedSteps
<1> HIDE DEF h, n
<1>2. 0 \in G
  <2>1. Len(h[0]) = 0 /\ 1..0 = {}
    BY <1>1
  <2>2. Merged(h[0], list, 0)
    BY <2>1 DEF Merged
  <2> QED
    BY <2>2
<1>3. ASSUME NEW m \in Nat, m \in G PROVE m + 1 \in G
  <2> SUFFICES ASSUME m + 1 <= n PROVE Merged(h[m + 1], list, m + 1)
    OBVIOUS
  <2>1. m + 1 \in 1..n /\ (m + 1) - 1 = m /\ m \in 0..n /\ m <= n
    BY <1>0
  <2>2. Merged(h[m], list, m) /\ h[m] \in Seq(P) /\ h[m + 1] = Declare(h[m], list[m + 1])
    BY <1>1, <1>3, <2>1
  <2> QED
    BY <2>2, MergedStep DEF n
<1>4. \A m \in Nat : m \in G
  <2> HIDE DEF G
  <2> QED
    BY <1>2, <1>3, AllNaturals
<1>5. Merged(h[n], list, n)
  BY <1>0, <1>4
<1>6. normalizeParams(list) = h[n] /\ h[n] \in Seq(P)
  BY <1>0, <1>1 DEF normalizeParams, h, n
<1> QED
  BY <1>5, <1>6 DEF n

\* A declaration that no later one follows is the last of its name.
LEMMA LastIsLast ==
  ASSUME NEW P, NEW list \in Seq(P), NEW k \in 1..Len(list),
         \A m \in (k + 1)..Len(list) : list[m].name # list[k].name
  PROVE  LastDeclared(list, list[k].name) = k
<1> DEFINE I == {i \in DOMAIN list : list[i].name = list[k].name}
<1>1. Len(list) \in Nat /\ DOMAIN list = 1..Len(list)
  OBVIOUS
<1>2. k \in I /\ I \in SUBSET (0..Len(list))
  BY <1>1
<1>3. \A i \in I : i <= k
  <2> TAKE i \in I
  <2>1. i \in 1..Len(list) /\ list[i].name = list[k].name
    BY <1>1
  <2>2. ~ (i \in (k + 1)..Len(list))
    BY <2>1
  <2> QED
    BY <1>1, <2>1, <2>2
<1>4. LastDeclared(list, list[k].name) = Max(I)
  BY DEF LastDeclared
<1> HIDE DEF I
<1>5. Max(I) \in I /\ \A i \in I : i <= Max(I)
  BY <1>1, <1>2, GreatestIndex
<1>6. Max(I) \in 0..Len(list) /\ k \in 0..Len(list) /\ Max(I) <= k /\ k <= Max(I)
  BY <1>1, <1>2, <1>3, <1>5
<1>7. Max(I) = k
  BY <1>1, <1>6
<1> QED
  BY <1>4, <1>7

\* The declarations after normalizeParams: their names are distinct, and they
\* are the last declarations of the declared names.
LEMMA NormalizedNames ==
  ASSUME NEW P, NEW list \in Seq(P), NEW normal, normal = normalizeParams(list)
  PROVE  /\ normal \in Seq(P)
         /\ \A i, j \in DOMAIN normal : normal[i].name = normal[j].name => i = j
         /\ \A i \in DOMAIN normal : /\ normal[i].name \in Declared(list)
                                     /\ normal[i] = list[LastDeclared(list, normal[i].name)]
         /\ \A key \in Declared(list) : \E i \in DOMAIN normal : normal[i].name = key
<1> DEFINE n == Len(list)
           len == Len(normal)
<1>1. normal \in Seq(P) /\ Merged(normal, list, n)
  BY NormalizedMerges
<1>2. /\ \A i \in 1..len : \E k \in 1..n :
           normal[i] = list[k] /\ \A m \in (k + 1)..n : list[m].name # list[k].name
      /\ \A k \in 1..n : \E i \in 1..len : normal[i].name = list[k].name
      /\ \A i, j \in 1..len : i < j =>
           \E k \in 1..n : list[k].name = normal[i].name
                           /\ \A m \in 1..k : list[m].name # normal[j].name
  BY <1>1 DEF Merged
<1>3. DOMAIN normal = 1..len /\ DOMAIN list = 1..n /\ n \in Nat /\ len \in Nat
  BY <1>1
<1>4. ASSUME NEW i \in 1..len, NEW j \in 1..len, i < j
      PROVE  normal[i].name # normal[j].name
  <2>1. PICK k \in 1..n : list[k].name = normal[i].name
                          /\ \A m \in 1..k : list[m].name # normal[j].name
    BY <1>2, <1>4
  <2>2. k \in 1..k
    OBVIOUS
  <2> QED
    BY <2>1, <2>2
<1>5. ASSUME NEW i \in 1..len, NEW j \in 1..len, normal[i].name = normal[j].name
      PROVE  i = j
  <2>1. ~ (i < j) /\ ~ (j < i)
    BY <1>4, <1>5
  <2> QED
    BY <2>1
<1>6. ASSUME NEW i \in 1..len
      PROVE  normal[i].name \in Declared(list)
             /\ normal[i] = list[LastDeclared(list, normal[i].name)]
  <2>1. PICK k \in 1..n :
           normal[i] = list[k] /\ \A m \in (k + 1)..n : list[m].name # list[k].name
    BY <1>2
  <2>2. LastDeclared(list, list[k].name) = k
    BY <2>1, LastIsLast
  <2>3. list[k].name \in Declared(list)
    BY <1>3 DEF Declared
  <2> QED
    BY <2>1, <2>2, <2>3
<1>7. ASSUME NEW key \in Declared(list) PROVE \E i \in 1..len : normal[i].name = key
  <2>1. PICK k \in 1..n : list[k].name = key
    BY <1>3 DEF Declared
  <2> QED
    BY <1>2, <2>1
<1> QED
  BY <1>1, <1>3, <1>5, <1>6, <1>7

\* The published schema, from the declarations: the last one of each name.
LEMMA SchemaProperties ==
  ASSUME NEW P, NEW list \in Seq(P), NEW schema, schema = buildInputSchema(list)
  PROVE  /\ DOMAIN schema.properties = Declared(list)
         /\ \A key \in Declared(list) :
              LET last == list[LastDeclared(list, key)]
              IN /\ schema.properties[key] = [type |-> last.type, description |-> last.description]
                 /\ key \in ToSet(schema.required) <=> last.required
         /\ ToSet(schema.required) \subseteq Declared(list)
         /\ IsInjective(schema.required)
<1> DEFINE normal == normalizeParams(list)
           R == {p \in ToSet(normal) : p.required}
           required == Only(normal, R)
           Named1(n) == CHOOSE p \in ToSet(normal) : p.name = n
           last(key) == list[LastDeclared(list, key)]
<1>1. /\ normal \in Seq(P)
      /\ \A i, j \in DOMAIN normal : normal[i].name = normal[j].name => i = j
      /\ \A i \in DOMAIN normal : normal[i].name \in Declared(list)
                                  /\ normal[i] = last(normal[i].name)
      /\ \A key \in Declared(list) : \E i \in DOMAIN normal : normal[i].name = key
  BY NormalizedNames
<1>2. /\ schema.properties = [n \in {p.name : p \in ToSet(normal)} |->
            [type |-> Named1(n).type, description |-> Named1(n).description]]
      /\ schema.required = [i \in DOMAIN required |-> required[i].name]
  BY DEF buildInputSchema
<1> HIDE DEF normal, last
<1>3. \A p : p \in ToSet(normal) <=> \E i \in DOMAIN normal : p = normal[i]
  BY DEF ToSet
<1>4. {p.name : p \in ToSet(normal)} = Declared(list)
  <2>1. ASSUME NEW p \in ToSet(normal) PROVE p.name \in Declared(list)
    BY <1>1, <1>3
  <2>2. ASSUME NEW key \in Declared(list) PROVE \E p \in ToSet(normal) : p.name = key
    BY <1>1, <1>3
  <2> QED
    BY <2>1, <2>2
<1>5. ASSUME NEW key \in Declared(list)
      PROVE  /\ last(key) \in ToSet(normal) /\ last(key).name = key
             /\ \A p \in ToSet(normal) : p.name = key => p = last(key)
  <2>1. PICK i \in DOMAIN normal : normal[i].name = key
    BY <1>1
  <2>2. normal[i] = last(key)
    BY <1>1, <2>1
  <2>3. ASSUME NEW p \in ToSet(normal), p.name = key PROVE p = last(key)
    <3>1. PICK j \in DOMAIN normal : p = normal[j]
      BY <1>3
    <3> QED
      BY <1>1, <2>3, <3>1
  <2> QED
    BY <1>3, <2>1, <2>2, <2>3
<1>6. \A key \in Declared(list) : Named1(key) = last(key)
  BY <1>5
<1>7. /\ required \in Seq(P)
      /\ \E at : Places(required, normal, R, Len(normal), at)
  <2> HIDE DEF R
  <2> QED
    BY <1>1, OnlyPlaces
<1>8. PICK at : Places(required, normal, R, Len(normal), at)
  BY <1>7
<1>0. \A p : p \in R <=> p \in ToSet(normal) /\ p.required
  OBVIOUS
<1> HIDE DEF R
<1> DEFINE len == Len(required)
<1>9. /\ at \in [1..len -> 1..Len(normal)] /\ len \in Nat
      /\ DOMAIN required = 1..len /\ DOMAIN normal = 1..Len(normal)
      /\ \A i \in 1..len : required[i] = normal[at[i]] /\ normal[at[i]] \in R
      /\ \A i, j \in 1..len : i < j => at[i] < at[j]
      /\ \A m \in 1..Len(normal) : normal[m] \in R => \E i \in 1..len : at[i] = m
  BY <1>1, <1>7, <1>8 DEF Places
<1> HIDE DEF required, Named1
<1>10. /\ DOMAIN schema.required = 1..len
       /\ \A i \in 1..len : schema.required[i] = normal[at[i]].name
  BY <1>2, <1>9
<1>11. ASSUME NEW key \in Declared(list), key \in ToSet(schema.required)
       PROVE  last(key).required
  <2>1. PICK i \in 1..len : key = normal[at[i]].name
    BY <1>10, <1>11 DEF ToSet
  <2>2. normal[at[i]] \in R
    BY <1>9
  <2>3. normal[at[i]] \in ToSet(normal) /\ normal[at[i]].required
    BY <1>0, <2>2
  <2>4. normal[at[i]] = last(key)
    BY <1>5, <2>1, <2>3
  <2> QED
    BY <2>3, <2>4
<1>12. ASSUME NEW key \in Declared(list), last(key).required
       PROVE  key \in ToSet(schema.required)
  <2>1. last(key) \in ToSet(normal) /\ last(key).name = key
    BY <1>5
  <2>2. PICK m \in 1..Len(normal) : last(key) = normal[m]
    BY <1>3, <1>9, <2>1
  <2>3. normal[m] \in R
    BY <1>0, <1>12, <2>1, <2>2
  <2>4. PICK i \in 1..len : at[i] = m
    BY <1>9, <2>3
  <2>5. schema.required[i] = key
    BY <1>10, <2>1, <2>2, <2>4
  <2> QED
    BY <1>10, <2>5 DEF ToSet
<1>13. ToSet(schema.required) \subseteq Declared(list)
  <2>1. ASSUME NEW key \in ToSet(schema.required) PROVE key \in Declared(list)
    <3>1. PICK i \in 1..len : key = normal[at[i]].name
      BY <1>10 DEF ToSet
    <3>2. at[i] \in DOMAIN normal
      BY <1>9
    <3> QED
      BY <1>1, <3>1, <3>2
  <2> QED
    BY <2>1
<1>14. IsInjective(schema.required)
  <2> SUFFICES ASSUME NEW i \in 1..len, NEW j \in 1..len,
                      normal[at[i]].name = normal[at[j]].name
               PROVE  i = j
    BY <1>10 DEF IsInjective
  <2>1. at[i] \in 1..Len(normal) /\ at[j] \in 1..Len(normal)
    BY <1>9
  <2>2. at[i] = at[j]
    BY <1>1, <1>9, <2>1
  <2>3. ~ (i < j) /\ ~ (j < i)
    BY <1>9, <2>1, <2>2
  <2> QED
    BY <1>9, <2>3
<1>15. \A key \in Declared(list) :
          schema.properties[key] = [type |-> last(key).type, description |-> last(key).description]
  BY <1>2, <1>4, <1>6
<1>16. DOMAIN schema.properties = Declared(list)
  BY <1>2, <1>4
<1>17. \A key \in Declared(list) : key \in ToSet(schema.required) <=> last(key).required
  BY <1>11, <1>12
<1> QED
  BY <1>13, <1>14, <1>15, <1>16, <1>17, Zenon DEF last

-----------------------------------------------------------------------------
(* The scan of a frontmatter: what has been collected from the lines that  *)
(* were read.                                                              *)

ReadDescriptions == {i \in 1..lineCount : file[i].description # None}
ReadTimeouts == {i \in 1..lineCount : file[i].description = None /\ file[i].timeout # None}
ReadParams == {i \in 1..lineCount : /\ file[i].description = None /\ file[i].timeout = None
                                    /\ file[i].param # None}
ReadDeclarations == {i \in ReadParams : ValidAnnotation(file[i].param)}

\* The parameters that the lines can declare.
Specs == {parseParamAnnotation(line.param) : line \in {l \in Lines : ValidAnnotation(l.param)}}

\* The scan is within the window, and has all of it when it ends by itself.
PlaceInv ==
    /\ file \in Seq(Lines) /\ scanning \in BOOLEAN
    /\ lineCount \in Nat /\ lineCount <= scanHeaderLines /\ lineCount <= Len(file)
    /\ \A j \in 1..lineCount : ~ file[j].long
    /\ ~ scanning => Window \subseteq 1..lineCount

\* The first lines of their kind have decided.
FirstInv ==
    /\ descriptionSeen <=> ReadDescriptions # {}
    /\ description = IF ReadDescriptions = {} THEN None
                     ELSE file[Min(ReadDescriptions)].description
    /\ timeoutSeen <=> ReadTimeouts # {}
    /\ timeout = IF ReadTimeouts = {} \/ file[Min(ReadTimeouts)].timeout = Invalid THEN None
                 ELSE file[Min(ReadTimeouts)].timeout

\* The warnings are for the lines that were refused and, at the end, for the one
\* that cut the scan short.
ReadRefused ==
    (ReadParams \ ReadDeclarations) \cup {i \in Firsts(ReadTimeouts) : file[i].timeout = Invalid}

WarnedInv ==
    /\ scanning => warned = ReadRefused
    /\ ~ scanning => warned = ReadRefused \cup Firsts(Overlong)

\* The lines that the parameters come from.
Collected(at) ==
    /\ at \in [1..Len(params) -> ReadDeclarations]
    /\ \A k \in 1..Len(params) : params[k] = parseParamAnnotation(file[at[k]].param)
    /\ \A k, m \in 1..Len(params) : k < m => at[k] < at[m]
    /\ \A i \in ReadDeclarations : \E k \in 1..Len(params) : at[k] = i

ParamsInv ==
    /\ params \in Seq(Specs)
    /\ \E at : Collected(at)
    /\ IsFiniteSet(ReadDeclarations) /\ Cardinality(ReadDeclarations) = Len(params)

ScanInv == PlaceInv /\ FirstInv /\ WarnedInv /\ ParamsInv

\* Nothing has been read.
LEMMA ScanBegins ==
  ASSUME file \in Seq(Lines), scanning \in BOOLEAN, ~ scanning => file = <<>>,
         lineCount = 0, description = None, descriptionSeen = FALSE,
         timeout = None, timeoutSeen = FALSE, params = <<>>, warned = {}
  PROVE  ScanInv
<1>1. 1..lineCount = {} /\ Len(params) = 0 /\ 1..Len(params) = {}
  OBVIOUS
<1>2. ReadDescriptions = {} /\ ReadTimeouts = {} /\ ReadParams = {} /\ ReadDeclarations = {}
  BY <1>1 DEF ReadDescriptions, ReadTimeouts, ReadParams, ReadDeclarations
<1>3. ~ scanning => Window = {} /\ Overlong = {}
  BY DEF Window, Overlong
<1>4. PlaceInv
  BY <1>1, <1>3, ScanAssumption DEF PlaceInv
<1>5. FirstInv /\ WarnedInv
  BY <1>2, <1>3 DEF FirstInv, WarnedInv, ReadRefused, Firsts
<1>6. ParamsInv
  <2> DEFINE at == [k \in {} |-> 0]
  <2>1. at \in [{} -> {}]
    OBVIOUS
  <2> HIDE DEF at
  <2>2. Collected(at)
    BY <1>1, <1>2, <2>1 DEF Collected
  <2>3. IsFiniteSet({}) /\ Cardinality({}) = 0
    BY FS_EmptySet
  <2> QED
    BY <1>1, <1>2, <2>2, <2>3 DEF ParamsInv
<1> QED
  BY <1>4, <1>5, <1>6 DEF ScanInv

\* One more line is read.
LEMMA OneMoreLine ==
  ASSUME PlaceInv, CanRead, file' = file, scanning' = scanning, lineCount' = number
  PROVE  /\ PlaceInv'
         /\ number \in Nat /\ number = lineCount + 1 /\ number \in 1..Len(file)
         /\ \A i \in 1..lineCount : i < number
         /\ ReadDescriptions' = IF here.description # None
                                THEN ReadDescriptions \cup {number} ELSE ReadDescriptions
         /\ ReadTimeouts' = IF here.description = None /\ here.timeout # None
                            THEN ReadTimeouts \cup {number} ELSE ReadTimeouts
         /\ ReadParams' = IF here.description = None /\ here.timeout = None /\ here.param # None
                          THEN ReadParams \cup {number} ELSE ReadParams
         /\ ReadDeclarations' = IF /\ here.description = None /\ here.timeout = None
                                   /\ here.param # None /\ ValidAnnotation(here.param)
                                THEN ReadDeclarations \cup {number} ELSE ReadDeclarations
<1>1. /\ file \in Seq(Lines) /\ lineCount \in Nat /\ Len(file) \in Nat
      /\ scanning = TRUE /\ lineCount < scanHeaderLines /\ lineCount + 1 <= Len(file)
      /\ ~ file[lineCount + 1].long /\ scanHeaderLines \in Nat
  BY ScanAssumption DEF PlaceInv, CanRead, number
<1>2. number = lineCount + 1 /\ number \in Nat /\ number \in 1..Len(file)
  BY <1>1 DEF number
<1>3. 1..lineCount' = (1..lineCount) \cup {number} /\ \A i \in 1..lineCount : i < number
  BY <1>1, <1>2
<1>4. here = file[number]
  BY DEF here
<1> HIDE DEF number
<1>5. PlaceInv'
  <2>1. \A j \in 1..lineCount' : ~ file[j].long
    BY <1>1, <1>2, <1>3 DEF PlaceInv
  <2> QED
    BY <1>1, <1>2, <2>1 DEF PlaceInv
<1>6. ReadDescriptions' = IF here.description # None
                          THEN ReadDescriptions \cup {number} ELSE ReadDescriptions
  BY <1>3, <1>4 DEF ReadDescriptions
<1>7. ReadTimeouts' = IF here.description = None /\ here.timeout # None
                      THEN ReadTimeouts \cup {number} ELSE ReadTimeouts
  BY <1>3, <1>4 DEF ReadTimeouts
<1>8. ReadParams' = IF here.description = None /\ here.timeout = None /\ here.param # None
                    THEN ReadParams \cup {number} ELSE ReadParams
  BY <1>3, <1>4 DEF ReadParams
<1>9. ReadDeclarations' = IF /\ here.description = None /\ here.timeout = None
                             /\ here.param # None /\ ValidAnnotation(here.param)
                          THEN ReadDeclarations \cup {number} ELSE ReadDeclarations
  <2>1. ReadDeclarations' = {i \in ReadParams' : ValidAnnotation(file[i].param)}
    BY DEF ReadDeclarations
  <2> QED
    BY <1>4, <1>8, <2>1 DEF ReadDeclarations
<1> QED
  BY <1>2, <1>3, <1>5, <1>6, <1>7, <1>8, <1>9

\* A later line is not the first one, unless there is no other.
LEMMA MinAppended ==
  ASSUME NEW S \in SUBSET Nat, NEW n \in Nat, \A i \in S : i < n
  PROVE  Min(S \cup {n}) = IF S = {} THEN n ELSE Min(S)
<1> DEFINE U == S \cup {n}
<1>1. U \in SUBSET Nat /\ U # {} /\ n \in U
  OBVIOUS
<1> HIDE DEF U
<1>2. Min(U) \in U /\ \A y \in U : Min(U) <= y
  BY <1>1, LeastIndex
<1>3. CASE S = {}
  <2>1. U = {n}
    BY <1>3 DEF U
  <2>2. Min(U) = n
    BY <1>2, <2>1
  <2> QED
    BY <1>3, <2>2 DEF U
<1>4. CASE S # {}
  <2>1. Min(S) \in S /\ (\A y \in S : Min(S) <= y) /\ Min(S) \in Nat /\ Min(S) < n
    BY <1>4, LeastIndex
  <2>2. Min(S) \in U /\ Min(U) \in Nat
    BY <1>1, <1>2, <2>1 DEF U
  <2>3. Min(U) # n
    BY <1>2, <2>1, <2>2
  <2>4. Min(U) \in S
    BY <1>2, <2>3 DEF U
  <2>5. Min(U) = Min(S)
    BY <1>2, <2>1, <2>2, <2>4
  <2> QED
    BY <1>4, <2>5 DEF U
<1> QED
  BY <1>3, <1>4

\* Reading a line that is no annotation leaves the parameters.
LEMMA ParamsStay ==
  ASSUME ParamsInv, params' = params, file' = file, ReadDeclarations' = ReadDeclarations
  PROVE  ParamsInv'
<1>1. PICK at : Collected(at)
  BY DEF ParamsInv
<1>2. Collected(at)'
  BY <1>1 DEF Collected
<1> QED
  BY <1>2 DEF ParamsInv

\* The sets of lines are sets of numbers up to lineCount.
LEMMA ReadSets ==
  ASSUME PlaceInv
  PROVE  /\ ReadDescriptions \in SUBSET Nat /\ ReadTimeouts \in SUBSET Nat
         /\ ReadDescriptions \subseteq 1..lineCount /\ ReadTimeouts \subseteq 1..lineCount
         /\ ReadParams \subseteq 1..lineCount /\ ReadDeclarations \subseteq ReadParams
BY DEF PlaceInv, ReadDescriptions, ReadTimeouts, ReadParams, ReadDeclarations

\* A line that is not refused leaves the warnings.
LEMMA WarningsStay ==
  ASSUME WarnedInv, CanRead, UNCHANGED <<file, scanning, warned>>,
         ReadTimeouts' = ReadTimeouts, ReadParams' = ReadParams,
         ReadDeclarations' = ReadDeclarations
  PROVE  WarnedInv'
<1>1. ReadRefused' = ReadRefused
  BY DEF ReadRefused, Firsts
<1> QED
  BY <1>1 DEF WarnedInv, CanRead

\* A description line keeps what the scan knows: the first one has decided.
LEMMA DescriptionLineKeeps ==
  ASSUME ScanInv, DescriptionLine
  PROVE  ScanInv'
<1> DEFINE D == ReadDescriptions
<1>1. /\ PlaceInv /\ FirstInv /\ WarnedInv /\ ParamsInv
      /\ CanRead /\ here.description # None
      /\ description' = IF descriptionSeen THEN description ELSE here.description
      /\ descriptionSeen' = TRUE /\ lineCount' = number
      /\ file' = file /\ scanning' = scanning /\ timeout' = timeout
      /\ timeoutSeen' = timeoutSeen /\ params' = params /\ warned' = warned
  BY DEF ScanInv, DescriptionLine
<1>2. /\ PlaceInv' /\ number \in Nat /\ number = lineCount + 1
      /\ \A i \in 1..lineCount : i < number
      /\ ReadDescriptions' = D \cup {number} /\ ReadTimeouts' = ReadTimeouts
      /\ ReadParams' = ReadParams /\ ReadDeclarations' = ReadDeclarations
  BY <1>1, OneMoreLine
<1>3. D \in SUBSET Nat /\ \A i \in D : i < number
  BY <1>1, <1>2, ReadSets
<1>4. Min(D \cup {number}) = IF D = {} THEN number ELSE Min(D)
  BY <1>2, <1>3, MinAppended
<1>5. FirstInv'
  <2> DEFINE E == ReadDescriptions'
  <2>1. E # {} /\ Min(E) = IF D = {} THEN number ELSE Min(D)
    BY <1>2, <1>4
  <2>2. description' = file[Min(E)].description
    BY <1>1, <2>1 DEF FirstInv, here
  <2>3. descriptionSeen' <=> E # {}
    BY <1>1, <2>1
  <2>4. timeoutSeen' <=> ReadTimeouts' # {}
    BY <1>1, <1>2 DEF FirstInv
  <2>5. timeout' = IF ReadTimeouts' = {} \/ file[Min(ReadTimeouts')].timeout = Invalid THEN None
                   ELSE file[Min(ReadTimeouts')].timeout
    BY <1>1, <1>2 DEF FirstInv
  <2> QED
    BY <1>1, <2>1, <2>2, <2>3, <2>4, <2>5 DEF FirstInv
<1>6. WarnedInv'
  BY <1>1, <1>2, WarningsStay
<1>7. ParamsInv'
  BY <1>1, <1>2, ParamsStay
<1> QED
  BY <1>2, <1>5, <1>6, <1>7 DEF ScanInv

\* A timeout line keeps it too: the first one has decided, valid or not.
LEMMA TimeoutLineKeeps ==
  ASSUME ScanInv, TimeoutLine
  PROVE  ScanInv'
<1> DEFINE T == ReadTimeouts
           refused == ~ timeoutSeen /\ here.timeout = Invalid
<1>1. /\ PlaceInv /\ FirstInv /\ WarnedInv /\ ParamsInv
      /\ CanRead /\ here.description = None /\ here.timeout # None
      /\ timeout' = IF timeoutSeen \/ here.timeout = Invalid THEN timeout ELSE here.timeout
      /\ timeoutSeen' = TRUE /\ lineCount' = number
      /\ warned' = IF refused THEN warned \cup {number} ELSE warned
      /\ file' = file /\ scanning' = scanning /\ description' = description
      /\ descriptionSeen' = descriptionSeen /\ params' = params
  BY DEF ScanInv, TimeoutLine
<1>2. /\ PlaceInv' /\ number \in Nat /\ number = lineCount + 1
      /\ \A i \in 1..lineCount : i < number
      /\ ReadDescriptions' = ReadDescriptions /\ ReadTimeouts' = T \cup {number}
      /\ ReadParams' = ReadParams /\ ReadDeclarations' = ReadDeclarations
  BY <1>1, OneMoreLine
<1>3. T \in SUBSET Nat /\ (\A i \in T : i < number) /\ \A i \in ReadParams : i # number
  BY <1>1, <1>2, ReadSets
<1>4. Min(T \cup {number}) = IF T = {} THEN number ELSE Min(T)
  BY <1>2, <1>3, MinAppended
<1> DEFINE E == ReadTimeouts'
<1>5. E # {} /\ Min(E) = IF T = {} THEN number ELSE Min(T)
  BY <1>2, <1>4
<1>6. timeout' = IF file[Min(E)].timeout = Invalid THEN None ELSE file[Min(E)].timeout
  <2>1. CASE T = {}
    <3>1. ~ timeoutSeen /\ timeout = None /\ file[Min(E)] = here
      BY <1>1, <1>5, <2>1 DEF FirstInv, here
    <3> QED
      BY <1>1, <3>1
  <2>2. CASE T # {}
    <3>1. timeoutSeen /\ Min(E) = Min(T)
      BY <1>1, <1>5, <2>2 DEF FirstInv
    <3>2. timeout' = timeout
      BY <1>1, <3>1
    <3> QED
      BY <1>1, <2>2, <3>1, <3>2 DEF FirstInv
  <2> QED
    BY <2>1, <2>2
<1>7. FirstInv'
  <2>1. timeoutSeen' <=> E # {}
    BY <1>1, <1>5
  <2>2. descriptionSeen' <=> ReadDescriptions' # {}
    BY <1>1, <1>2 DEF FirstInv
  <2>3. description' = IF ReadDescriptions' = {} THEN None
                       ELSE file[Min(ReadDescriptions')].description
    BY <1>1, <1>2 DEF FirstInv
  <2> QED
    BY <1>1, <1>5, <1>6, <2>1, <2>2, <2>3 DEF FirstInv
<1>8. WarnedInv'
  <2>1. scanning = TRUE /\ warned = ReadRefused
    BY <1>1 DEF WarnedInv, CanRead, PlaceInv
  <2>2. Firsts(E) = IF T = {} THEN {number} ELSE Firsts(T)
    <3>1. E = T \cup {number}
      BY <1>2
    <3> HIDE DEF T, E
    <3>2. CASE T = {}
      BY <1>2, <3>1, <3>2 DEF Firsts
    <3>3. CASE T # {}
      <4>1. \A i \in T : i \in Nat /\ i <= number /\ ~ (number <= i)
        BY <1>2, <1>3
      <4> QED
        BY <3>1, <3>3, <4>1 DEF Firsts
    <3> QED
      BY <3>2, <3>3
  <2>3. refused <=> T = {} /\ file[number].timeout = Invalid
    BY <1>1 DEF FirstInv, here
  <2>4. /\ ReadRefused = (ReadParams \ ReadDeclarations)
                         \cup {i \in Firsts(T) : file[i].timeout = Invalid}
        /\ ReadRefused' = (ReadParams \ ReadDeclarations)
                          \cup {i \in Firsts(E) : file[i].timeout = Invalid}
    BY <1>1, <1>2 DEF ReadRefused, Firsts
  <2>5. Firsts({}) = {}
    BY DEF Firsts
  <2>6. warned' = ReadRefused'
    <3>1. CASE T = {}
      BY <1>1, <2>1, <2>2, <2>3, <2>4, <2>5, <3>1
    <3>2. CASE T # {}
      BY <1>1, <2>1, <2>2, <2>3, <2>4, <3>2
    <3> QED
      BY <3>1, <3>2
  <2> QED
    BY <1>1, <2>1, <2>6 DEF WarnedInv
<1>9. ParamsInv'
  BY <1>1, <1>2, ParamsStay
<1> QED
  BY <1>2, <1>7, <1>8, <1>9 DEF ScanInv

\* The first lines stay the first ones when others are read.
LEMMA FirstStays ==
  ASSUME FirstInv, file' = file, UNCHANGED <<description, descriptionSeen, timeout, timeoutSeen>>,
         ReadDescriptions' = ReadDescriptions, ReadTimeouts' = ReadTimeouts
  PROVE  FirstInv'
<1>1. /\ descriptionSeen' <=> ReadDescriptions' # {}
      /\ description' = IF ReadDescriptions' = {} THEN None
                        ELSE file[Min(ReadDescriptions')].description
  BY DEF FirstInv
<1>2. /\ timeoutSeen' <=> ReadTimeouts' # {}
      /\ timeout' = IF ReadTimeouts' = {} \/ file[Min(ReadTimeouts')].timeout = Invalid THEN None
                    ELSE file[Min(ReadTimeouts')].timeout
  BY DEF FirstInv
<1> QED
  BY <1>1, <1>2 DEF FirstInv

\* An annotation is collected or warned about, and nothing else is known of it.
LEMMA ParamLineKeeps ==
  ASSUME ScanInv, ParamLine
  PROVE  ScanInv'
<1> DEFINE Q == ReadParams
           V == ReadDeclarations
           valid == ValidAnnotation(here.param)
           new == parseParamAnnotation(here.param)
<1>1. /\ PlaceInv /\ FirstInv /\ WarnedInv /\ ParamsInv
      /\ CanRead /\ here.description = None /\ here.timeout = None /\ here.param # None
      /\ lineCount' = number
      /\ file' = file /\ scanning' = scanning /\ description' = description
      /\ descriptionSeen' = descriptionSeen /\ timeout' = timeout /\ timeoutSeen' = timeoutSeen
      /\ \/ valid /\ params' = Append(params, new) /\ warned' = warned
         \/ ~ valid /\ params' = params /\ warned' = warned \cup {number}
  BY DEF ScanInv, ParamLine
<1>2. /\ PlaceInv' /\ number \in Nat /\ number = lineCount + 1 /\ number \in 1..Len(file)
      /\ \A i \in 1..lineCount : i < number
      /\ ReadDescriptions' = ReadDescriptions /\ ReadTimeouts' = ReadTimeouts
      /\ Q' = Q \cup {number}
      /\ V' = IF valid THEN V \cup {number} ELSE V
  BY <1>1, OneMoreLine
<1>3. FirstInv'
  BY <1>1, <1>2, FirstStays
<1>4. /\ \A i \in Q : i \in 1..lineCount /\ i # number
      /\ \A i \in V : i \in Q
  BY <1>1, <1>2, ReadSets
<1> HIDE DEF valid
<1>5. WarnedInv'
  <2>1. scanning = TRUE /\ warned = ReadRefused
    BY <1>1 DEF WarnedInv, CanRead, PlaceInv
  <2>2. Q' \ V' = IF valid THEN Q \ V ELSE (Q \ V) \cup {number}
    BY <1>2, <1>4
  <2>3. ReadRefused' = (Q' \ V') \cup {i \in Firsts(ReadTimeouts) : file[i].timeout = Invalid}
    BY <1>1, <1>2 DEF ReadRefused, Firsts
  <2>4. warned' = ReadRefused'
    BY <1>1, <2>1, <2>2, <2>3 DEF ReadRefused
  <2> QED
    BY <1>1, <2>1, <2>4 DEF WarnedInv
<1>6. ParamsInv'
  <2>1. CASE ~ valid
    BY <1>1, <1>2, <2>1, ParamsStay
  <2>2. CASE valid
    <3>1. params' = Append(params, new)
      BY <1>1, <2>2
    <3>2. new \in Specs
      BY <1>1, <1>2, <2>2 DEF Specs, here, PlaceInv, valid, new
    <3> DEFINE len == Len(params)
    <3>3. /\ params \in Seq(Specs) /\ len \in Nat
          /\ IsFiniteSet(V) /\ Cardinality(V) = len
      BY <1>1 DEF ParamsInv
    <3>4. PICK at : Collected(at)
      BY <1>1 DEF ParamsInv
    <3>5. /\ at \in [1..len -> V]
          /\ \A k \in 1..len : params[k] = parseParamAnnotation(file[at[k]].param)
          /\ \A k, m \in 1..len : k < m => at[k] < at[m]
          /\ \A i \in V : \E k \in 1..len : at[k] = i
      BY <3>4 DEF Collected
    <3> HIDE DEF new
    <3>6. /\ params' \in Seq(Specs) /\ Len(params') = len + 1
          /\ params'[len + 1] = new /\ \A k \in 1..len : params'[k] = params[k]
      BY <3>1, <3>2, <3>3
    <3>7. /\ \A k \in 1..(len + 1) : k \in 1..len \/ k = len + 1
          /\ \A k \in 1..len : k \in 1..(len + 1)
          /\ len + 1 \in 1..(len + 1)
      BY <3>3
    <3> DEFINE to == [k \in 1..(len + 1) |-> IF k <= len THEN at[k] ELSE number]
    <3>8. to[len + 1] = number /\ \A k \in 1..len : to[k] = at[k]
      BY <3>3
    <3>9. V' = V \cup {number}
      BY <1>2, <2>2
    <3>10. to \in [1..(len + 1) -> V \cup {number}]
      BY <3>3, <3>5
    <3> HIDE DEF to
    <3>11. \A k \in 1..(len + 1) : params'[k] = parseParamAnnotation(file[to[k]].param)
      BY <3>5, <3>6, <3>7, <3>8 DEF new, here
    <3>12. \A k, m \in 1..(len + 1) : k < m => to[k] < to[m]
      <4> SUFFICES ASSUME NEW k \in 1..(len + 1), NEW m \in 1..(len + 1), k < m
                   PROVE  to[k] < to[m]
        OBVIOUS
      <4>1. k \in 1..len
        BY <3>3
      <4>2. to[k] = at[k] /\ at[k] \in V /\ at[k] < number
        BY <1>2, <1>4, <3>5, <3>8, <4>1
      <4>3. CASE m = len + 1
        BY <3>8, <4>2, <4>3
      <4>4. CASE m \in 1..len
        BY <3>5, <3>8, <4>1, <4>4
      <4> QED
        BY <3>7, <4>3, <4>4
    <3>13. \A i \in V \cup {number} : \E k \in 1..(len + 1) : to[k] = i
      BY <3>5, <3>7, <3>8
    <3>14. PICK f : f = to
      OBVIOUS
    <3>15. Collected(f)'
      <4>1. file' = file /\ Len(params') = len + 1 /\ V' = V \cup {number}
        BY <1>1, <3>6, <3>9
      <4>2. f \in [1..Len(params') -> V']
        BY <3>10, <3>14, <4>1
      <4>3. \A k \in 1..Len(params') : params'[k] = parseParamAnnotation(file'[f[k]].param)
        BY <3>11, <3>14, <4>1
      <4>4. \A k, m \in 1..Len(params') : k < m => f[k] < f[m]
        BY <3>12, <3>14, <4>1
      <4>5. \A i \in V' : \E k \in 1..Len(params') : f[k] = i
        BY <3>13, <3>14, <4>1
      <4> QED
        BY <4>2, <4>3, <4>4, <4>5 DEF Collected
    <3>16. number \notin V
      BY <1>4
    <3>17. IsFiniteSet(V \cup {number}) /\ Cardinality(V \cup {number}) = len + 1
      BY <3>3, <3>16, FS_AddElement
    <3> QED
      BY <3>6, <3>9, <3>15, <3>17 DEF ParamsInv
  <2> QED
    BY <2>1, <2>2
<1> QED
  BY <1>2, <1>3, <1>5, <1>6 DEF ScanInv

\* A line without a marker adds nothing.
LEMMA PlainLineKeeps ==
  ASSUME ScanInv, PlainLine
  PROVE  ScanInv'
<1>1. /\ PlaceInv /\ FirstInv /\ WarnedInv /\ ParamsInv
      /\ CanRead /\ here.description = None /\ here.timeout = None /\ here.param = None
      /\ lineCount' = number
      /\ file' = file /\ scanning' = scanning /\ description' = description
      /\ descriptionSeen' = descriptionSeen /\ timeout' = timeout /\ timeoutSeen' = timeoutSeen
      /\ params' = params /\ warned' = warned
  BY DEF ScanInv, PlainLine
<1>2. /\ PlaceInv' /\ number \in Nat /\ number = lineCount + 1
      /\ ReadDescriptions' = ReadDescriptions /\ ReadTimeouts' = ReadTimeouts
      /\ ReadParams' = ReadParams /\ ReadDeclarations' = ReadDeclarations
  BY <1>1, OneMoreLine
<1>3. FirstInv'
  BY <1>1, <1>2, FirstStays
<1>4. WarnedInv'
  BY <1>1, <1>2, WarningsStay
<1>5. ParamsInv'
  BY <1>1, <1>2, ParamsStay
<1> QED
  BY <1>2, <1>3, <1>4, <1>5 DEF ScanInv

\* At its end a scan has read the window, and has warned about a line that is
\* too long to be read.
LEMMA ScanEndKeeps ==
  ASSUME ScanInv, ScanEnds
  PROVE  ScanInv'
<1>1. /\ PlaceInv /\ FirstInv /\ WarnedInv /\ ParamsInv
      /\ scanning = TRUE /\ scanning' = FALSE /\ ~ CanRead
      /\ lineCount' = lineCount /\ file' = file /\ description' = description
      /\ descriptionSeen' = descriptionSeen /\ timeout' = timeout /\ timeoutSeen' = timeoutSeen
      /\ params' = params
      /\ warned' = IF lineCount < scanHeaderLines /\ number <= Len(file)
                   THEN warned \cup {number} ELSE warned
  BY DEF ScanInv, ScanEnds, PlaceInv
<1>2. /\ ReadDescriptions' = ReadDescriptions /\ ReadTimeouts' = ReadTimeouts
      /\ ReadParams' = ReadParams /\ ReadDeclarations' = ReadDeclarations
      /\ Window' = Window /\ Firsts(Overlong)' = Firsts(Overlong)
      /\ ReadRefused' = ReadRefused
  BY <1>1 DEF ReadDescriptions, ReadTimeouts, ReadParams, ReadDeclarations, Window, Overlong,
              Firsts, ReadRefused
<1>3. number = lineCount + 1 /\ lineCount \in Nat /\ Len(file) \in Nat /\ scanHeaderLines \in Nat
  BY <1>1, ScanAssumption DEF number, PlaceInv
<1>4. lineCount < scanHeaderLines /\ number <= Len(file) => file[number].long
  BY <1>1 DEF CanRead
<1>5. PlaceInv'
  <2>1. ASSUME NEW i \in Window PROVE i <= lineCount
    <3>1. i \in 1..Len(file) /\ i <= scanHeaderLines /\ \A j \in 1..i : ~ file[j].long
      BY DEF Window
    <3>2. CASE lineCount >= scanHeaderLines
      BY <1>3, <3>1, <3>2
    <3>3. CASE number > Len(file)
      BY <1>3, <3>1, <3>3
    <3>4. CASE lineCount < scanHeaderLines /\ number <= Len(file)
      <4>1. ~ (number \in 1..i)
        BY <1>4, <3>1, <3>4
      <4> QED
        BY <1>3, <3>1, <4>1
    <3> QED
      BY <1>3, <3>2, <3>3, <3>4
  <2>2. Window \subseteq 1..lineCount
    BY <1>3, <2>1 DEF Window
  <2> QED
    BY <1>1, <1>2, <2>2 DEF PlaceInv
<1>6. FirstInv'
  BY <1>1, <1>2, FirstStays
<1>7. WarnedInv'
  <2>1. /\ \A j \in 1..lineCount : ~ file[j].long
        /\ lineCount <= scanHeaderLines /\ lineCount <= Len(file)
    BY <1>1 DEF PlaceInv
  <2>2. \A i \in Overlong : i \in Nat /\ i >= number /\ i <= Len(file) /\ i <= scanHeaderLines
    BY <1>3, <2>1 DEF Overlong
  <2>3. Firsts(Overlong) = IF lineCount < scanHeaderLines /\ number <= Len(file)
                           THEN {number} ELSE {}
    <3>1. CASE lineCount < scanHeaderLines /\ number <= Len(file)
      <4>1. number \in Overlong
        BY <1>3, <1>4, <3>1 DEF Overlong
      <4>2. \A i \in Overlong : i <= number => i = number
        BY <1>3, <2>2
      <4> QED
        BY <2>2, <3>1, <4>1, <4>2 DEF Firsts
    <3>2. CASE ~ (lineCount < scanHeaderLines /\ number <= Len(file))
      <4>1. Overlong = {}
        BY <1>3, <2>2, <3>2
      <4> QED
        BY <3>2, <4>1 DEF Firsts
    <3> QED
      BY <3>1, <3>2
  <2> QED
    BY <1>1, <1>2, <2>3 DEF WarnedInv
<1>8. ParamsInv'
  BY <1>1, <1>2, ParamsStay
<1> QED
  BY <1>5, <1>6, <1>7, <1>8 DEF ScanInv

\* A file that cannot be opened is an empty one.
LEMMA OpenFailsKeeps ==
  ASSUME ScanInv, OpenFails
  PROVE  ScanInv'
<1>1. /\ PlaceInv /\ FirstInv /\ WarnedInv /\ ParamsInv
      /\ scanning = TRUE /\ scanning' = FALSE /\ file' = <<>>
      /\ lineCount = 0 /\ lineCount' = 0 /\ description' = description
      /\ descriptionSeen' = descriptionSeen /\ timeout' = timeout /\ timeoutSeen' = timeoutSeen
      /\ params' = params /\ warned' = warned
  BY DEF ScanInv, OpenFails, PlaceInv
<1>2. 1..lineCount = {} /\ 1..lineCount' = {}
  BY <1>1
<1>3. /\ ReadDescriptions = {} /\ ReadTimeouts = {} /\ ReadParams = {} /\ ReadDeclarations = {}
      /\ ReadDescriptions' = {} /\ ReadTimeouts' = {}
      /\ ReadParams' = {} /\ ReadDeclarations' = {}
  BY <1>2 DEF ReadDescriptions, ReadTimeouts, ReadParams, ReadDeclarations
<1>4. Window' = {} /\ Overlong' = {}
  BY <1>1 DEF Window, Overlong
<1>5. PlaceInv'
  <2>1. file' \in Seq(Lines) /\ Len(file') = 0
    BY <1>1
  <2>2. \A j \in 1..lineCount' : ~ file'[j].long
    BY <1>2
  <2>3. /\ lineCount' \in Nat /\ lineCount' <= scanHeaderLines /\ lineCount' <= Len(file')
        /\ scanning' \in BOOLEAN
    <3>1. lineCount' = 0 /\ scanning' = FALSE
      BY <1>1
    <3>2. 0 <= scanHeaderLines
      BY ScanAssumption
    <3>3. lineCount' <= Len(file')
      BY <2>1, <3>1
    <3>4. lineCount' \in Nat /\ lineCount' <= scanHeaderLines
      BY <3>1, <3>2
    <3>5. scanning' \in BOOLEAN
      BY <3>1
    <3> QED
      BY <3>3, <3>4, <3>5
  <2>4. Window' \subseteq 1..lineCount'
    BY <1>4
  <2> QED
    BY <2>1, <2>2, <2>3, <2>4 DEF PlaceInv
<1>6. FirstInv'
  BY <1>1, <1>3 DEF FirstInv
<1>7. WarnedInv'
  BY <1>1, <1>3, <1>4 DEF WarnedInv, ReadRefused, Firsts
<1>8. ParamsInv'
  <2>1. PICK at : Collected(at)
    BY <1>1 DEF ParamsInv
  <2>2. params \in Seq(Specs) /\ Cardinality({}) = Len(params) /\ IsFiniteSet({})
    BY <1>1, <1>3 DEF ParamsInv
  <2>3. Len(params) = 0 /\ 1..Len(params) = {}
    BY <2>2, FS_EmptySet
  <2>4. Collected(at)'
    BY <1>1, <1>3, <2>1, <2>3 DEF Collected
  <2> QED
    BY <1>1, <1>3, <2>2, <2>4 DEF ParamsInv
<1> QED
  BY <1>5, <1>6, <1>7, <1>8 DEF ScanInv

\* Every step of a scan keeps what the scan knows.
LEMMA ScanStepKeeps ==
  ASSUME ScanInv, ScanStep
  PROVE  ScanInv'
BY DescriptionLineKeeps, TimeoutLineKeeps, ParamLineKeeps, PlainLineKeeps, ScanEndKeeps,
   OpenFailsKeeps DEF ScanStep

-----------------------------------------------------------------------------
(* A process of diagnostic.go. *)

Descriptions == {line.description : line \in Lines} \cup {None}
Timeouts == {line.timeout : line \in Lines} \cup {None}

\* What discoverTools can return.
Tools == [name : {ToolName[name] : name \in ToSet(FileNames)}, path : ToSet(FileNames),
          description : Descriptions, params : Seq(Specs), timeout : Timeouts]

DiagType ==
    /\ request \in Requests
    /\ dir \in Directories /\ readable \in BOOLEAN /\ pending \in BOOLEAN
    /\ entries \in Seq(ToSet(FileNames))
    /\ tools \in Seq(Tools)
    /\ \A i \in DOMAIN tools : tools[i].name = ToolName[tools[i].path]
    /\ stage \in {"start", "readdir", "entries", "extract", "lookup", "arguments", "validate",
                  "execute", "print", "watching", "exited"}

\* What each stage has behind it.
StageInv ==
    /\ stage # "exited" => err = None /\ out = None /\ launch.path = None
    /\ stage # "exited" /\ calling => printed = None
    /\ stage \in {"lookup", "arguments", "validate", "execute"} => calling
    /\ stage \in {"print", "watching"} => ~ calling
    /\ stage \in {"arguments", "validate", "execute"} => Named # {}
    /\ stage = "execute" => Fits(args, theTool.params)
    /\ stage = "extract" => entries # <<>>
    /\ stage = "print" => entries = <<>>

\* The tool files that have been looked at.
Visited == {name \in ToSet(FileNames) : IsToolFile(name) /\ name \notin ToSet(entries)}

\* What has been found in them.
Found ==
    /\ \A i, j \in DOMAIN entries : i < j => Before(entries[i], entries[j])
    /\ \A name \in Visited : \A i \in DOMAIN entries : Before(name, entries[i])
    /\ {tools[i].path : i \in DOMAIN tools} = {name \in Visited : Winner(name)}
    /\ \A i, j \in DOMAIN tools : i < j => Before(tools[i].path, tools[j].path)
    /\ shadowed = {name \in Visited : ~ Winner(name)}

\* A directory that has not changed since it was read.
FoundInv ==
    ~ pending /\ readable =>
        /\ stage \in {"entries", "extract", "print", "watching"} => Found
        /\ stage = "extract" => IsToolFile(Head(entries))
        /\ stage = "watching" => printed = tools /\ entries = <<>>

DiagInv == ScanInv /\ DiagType /\ StageInv /\ ExitTellsOutcome /\ FoundInv

\* extractFrontmatter begins, and what is over is forgotten.
LEMMA LocalsKeep ==
  ASSUME NEW lines \in Seq(Lines), NEW begun \in BOOLEAN, begun \/ lines = <<>>,
         Locals(lines, begun)
  PROVE  ScanInv'
<1>1. /\ file' \in Seq(Lines) /\ scanning' \in BOOLEAN /\ (~ scanning' => file' = <<>>)
      /\ lineCount' = 0 /\ description' = None /\ descriptionSeen' = FALSE
      /\ timeout' = None /\ timeoutSeen' = FALSE /\ params' = <<>> /\ warned' = {}
  BY DEF Locals
<1>2. 1..lineCount' = {} /\ Len(params') = 0 /\ 1..Len(params') = {}
  BY <1>1
<1>3. /\ ReadDescriptions' = {} /\ ReadTimeouts' = {}
      /\ ReadParams' = {} /\ ReadDeclarations' = {}
  BY <1>2 DEF ReadDescriptions, ReadTimeouts, ReadParams, ReadDeclarations
<1>4. ~ scanning' => Window' = {} /\ Overlong' = {}
  BY <1>1 DEF Window, Overlong
<1>5. PlaceInv'
  BY <1>1, <1>2, <1>4, ScanAssumption DEF PlaceInv
<1>6. FirstInv' /\ WarnedInv'
  BY <1>1, <1>3, <1>4 DEF FirstInv, WarnedInv, ReadRefused, Firsts
<1>7. ParamsInv'
  <2> DEFINE at == [k \in {} |-> 0]
  <2>1. PICK f : f = at
    OBVIOUS
  <2>2. f \in [{} -> {}]
    BY <2>1
  <2>3. Collected(f)'
    BY <1>2, <1>3, <2>2 DEF Collected
  <2>4. IsFiniteSet({}) /\ Cardinality({}) = 0
    BY FS_EmptySet
  <2> QED
    BY <1>1, <1>2, <1>3, <2>3, <2>4 DEF ParamsInv
<1> QED
  BY <1>5, <1>6, <1>7 DEF ScanInv

\* A step that leaves the scan alone.
LEMMA ScanStays ==
  ASSUME ScanInv, UNCHANGED vars
  PROVE  ScanInv'
<1>1. /\ PlaceInv /\ FirstInv /\ WarnedInv /\ ParamsInv
      /\ file' = file /\ scanning' = scanning /\ lineCount' = lineCount
      /\ description' = description /\ descriptionSeen' = descriptionSeen
      /\ timeout' = timeout /\ timeoutSeen' = timeoutSeen /\ params' = params /\ warned' = warned
  BY DEF ScanInv, vars
<1>2. /\ ReadDescriptions' = ReadDescriptions /\ ReadTimeouts' = ReadTimeouts
      /\ ReadParams' = ReadParams /\ ReadDeclarations' = ReadDeclarations
      /\ Window' = Window /\ Firsts(Overlong)' = Firsts(Overlong) /\ ReadRefused' = ReadRefused
  BY <1>1 DEF ReadDescriptions, ReadTimeouts, ReadParams, ReadDeclarations, Window, Overlong,
              Firsts, ReadRefused
<1>3. PlaceInv'
  BY <1>1, <1>2 DEF PlaceInv
<1>4. FirstInv'
  BY <1>1, <1>2, FirstStays
<1>5. WarnedInv'
  BY <1>1, <1>2 DEF WarnedInv
<1>6. ParamsInv'
  BY <1>1, <1>2, ParamsStay
<1> QED
  BY <1>3, <1>4, <1>5, <1>6 DEF ScanInv

\* What a scan has found is of the type of a tool.
LEMMA ScanTypes ==
  ASSUME ScanInv
  PROVE  description \in Descriptions /\ timeout \in Timeouts /\ params \in Seq(Specs)
<1>1. /\ file \in Seq(Lines) /\ lineCount \in Nat /\ lineCount <= Len(file)
      /\ ReadDescriptions \in SUBSET Nat /\ ReadTimeouts \in SUBSET Nat
      /\ ReadDescriptions \subseteq 1..lineCount /\ ReadTimeouts \subseteq 1..lineCount
  BY ReadSets DEF ScanInv, PlaceInv
<1>2. \A i \in 1..lineCount : file[i] \in Lines
  BY <1>1
<1>3. description \in Descriptions
  <2>1. CASE ReadDescriptions = {}
    BY <2>1 DEF ScanInv, FirstInv, Descriptions
  <2>2. CASE ReadDescriptions # {}
    <3>1. Min(ReadDescriptions) \in 1..lineCount
      BY <1>1, <2>2, LeastIndex
    <3> QED
      BY <1>2, <2>2, <3>1 DEF ScanInv, FirstInv, Descriptions
  <2> QED
    BY <2>1, <2>2
<1>4. timeout \in Timeouts
  <2>1. CASE ReadTimeouts = {}
    BY <2>1 DEF ScanInv, FirstInv, Timeouts
  <2>2. CASE ReadTimeouts # {}
    <3>1. Min(ReadTimeouts) \in 1..lineCount
      BY <1>1, <2>2, LeastIndex
    <3> QED
      BY <1>2, <2>2, <3>1 DEF ScanInv, FirstInv, Timeouts
  <2> QED
    BY <2>1, <2>2
<1> QED
  BY <1>3, <1>4 DEF ScanInv, ParamsInv

\* Types are kept: the only steps that change a type are the ones of the
\* discovery.
LEMMA DiagTypeKept ==
  ASSUME DiagType, StageInv, ScanInv, [DiagNext]_diagVars
  PROVE  DiagType'
<1> DEFINE names == ToSet(FileNames)
<1>1. /\ request \in Requests /\ dir \in Directories
      /\ readable \in BOOLEAN /\ pending \in BOOLEAN
      /\ entries \in Seq(names) /\ tools \in Seq(Tools)
      /\ \A i \in DOMAIN tools : tools[i].name = ToolName[tools[i].path]
  BY DEF DiagType
<1> HIDE DEF names
<1> USE DEF DiagType, GoOn, Exit, surroundings, discovery, call, ending
<1>2. CASE UNCHANGED diagVars
  BY <1>2 DEF diagVars
<1>3. CASE Start
  BY <1>3 DEF Start
<1>4. CASE ReadDir
  <2>1. /\ request' = request /\ dir' = dir /\ readable' = readable /\ pending' = pending
        /\ stage' \in {"entries", "exited", "watching"}
    BY <1>4 DEF ReadDir
  <2>2. \/ /\ entries' = Only(FileNames, {name \in ToSet(FileNames) : dir[name] # "absent"})
           /\ tools' = <<>>
        \/ entries' = entries /\ tools' = tools
    BY <1>4 DEF ReadDir
  <2>3. entries' \in Seq(names)
    BY <1>1, <2>2, OnlyPlaces, FilesAssumption DEF names
  <2>4. tools' \in Seq(Tools) /\ \A i \in DOMAIN tools' : tools'[i].name = ToolName[tools'[i].path]
    <3>1. CASE tools' = <<>>
      <4>1. DOMAIN tools' = {}
        BY <3>1
      <4> QED
        BY <3>1, <4>1
    <3>2. CASE tools' = tools
      BY <1>1, <3>2
    <3> QED
      BY <2>2, <3>1, <3>2
  <2> QED
    BY <1>1, <2>1, <2>3, <2>4 DEF names
<1>5. CASE SkipEntry
  <2>1. entries' \in Seq(names)
    BY <1>1, <1>5 DEF SkipEntry
  <2> QED
    BY <1>1, <1>5, <2>1 DEF SkipEntry, names
<1>6. CASE OpenEntry
  BY <1>6 DEF OpenEntry
<1>7. CASE Scan
  BY <1>7 DEF Scan
<1>8. CASE Register
  <2> DEFINE entry == Head(entries)
  <2>1. /\ request' = request /\ dir' = dir /\ readable' = readable /\ pending' = pending
        /\ stage' = "entries" /\ entries' = Tail(entries)
        /\ tools' = tools \/ tools' = Append(tools, Tool(entry))
    BY <1>8 DEF Register
  <2>2. entries # <<>>
    BY <1>8 DEF Register, StageInv
  <2>3. entry \in names /\ entries' \in Seq(names)
    BY <1>1, <2>1, <2>2
  <2>4. Tool(entry) \in Tools /\ Tool(entry).name = ToolName[Tool(entry).path]
    BY <2>3, ScanTypes DEF Tool, Tools, names
  <2> HIDE DEF entry
  <2>5. tools' \in Seq(Tools) /\ \A i \in DOMAIN tools' : tools'[i].name = ToolName[tools'[i].path]
    <3>1. CASE tools' = tools
      BY <1>1, <3>1
    <3>2. CASE tools' = Append(tools, Tool(entry))
      BY <1>1, <2>4, <3>2
    <3> QED
      BY <2>1, <3>1, <3>2
  <2> QED
    BY <1>1, <2>1, <2>3, <2>5 DEF names
<1>9. CASE Discovered
  BY <1>9 DEF Discovered
<1>10. CASE CallTool
  BY <1>10 DEF CallTool, Lookup, ParseArguments, Validate, StartFails, Runs
<1>11. CASE ShowList \/ Rescan \/ WatchEnds
  BY <1>11 DEF ShowList, Rescan, WatchEnds
<1>12. CASE DirectoryChanges
  BY <1>12, FilesAssumption DEF DirectoryChanges
<1>13. CASE Exited
  BY <1>13 DEF Exited, diagVars
<1> QED
  BY <1>2, <1>3, <1>4, <1>5, <1>6, <1>7, <1>8, <1>9, <1>10, <1>11, <1>12, <1>13
     DEF DiagNext, Discovery, ListTools

\* The scan keeps its invariant in every step of the process.
LEMMA ScanInvKept ==
  ASSUME DiagType, StageInv, ScanInv, [DiagNext]_diagVars
  PROVE  ScanInv'
<1>1. CASE OpenEntry
  <2>1. PICK lines \in Contents[dir[Head(entries)]] : Locals(lines, TRUE)
    BY <1>1 DEF OpenEntry
  <2>2. Head(entries) \in ToSet(FileNames) /\ dir[Head(entries)] \notin NoTool
    BY <1>1 DEF OpenEntry, DiagType
  <2>3. lines \in Seq(Lines)
    BY <2>1, <2>2, FilesAssumption DEF DiagType
  <2> QED
    BY <2>1, <2>3, LocalsKeep
<1>2. CASE Register
  <2>1. Locals(<<>>, FALSE)
    BY <1>2 DEF Register
  <2>2. <<>> \in Seq(Lines) /\ FALSE \in BOOLEAN
    OBVIOUS
  <2> QED
    BY <2>1, <2>2, LocalsKeep, Zenon
<1>3. CASE Scan
  BY <1>3, ScanStepKeeps DEF Scan
<1>4. CASE Start \/ ReadDir \/ SkipEntry \/ Discovered
  BY <1>4, ScanStays DEF Start, ReadDir, SkipEntry, Discovered, scan
<1>5. CASE CallTool
  BY <1>5, ScanStays DEF CallTool, Lookup, ParseArguments, Validate, StartFails, Runs, scan
<1>6. CASE ListTools \/ Exited \/ UNCHANGED diagVars
  BY <1>6, ScanStays DEF ListTools, ShowList, DirectoryChanges, Rescan, WatchEnds, Exited,
                         diagVars, scan
<1> QED
  BY <1>1, <1>2, <1>3, <1>4, <1>5, <1>6 DEF DiagNext, Discovery

\* Validation against the schema built from declarations means fitting them.
LEMMA ValidMeansFits ==
  ASSUME NEW P, NEW declared \in Seq(P), NEW arguments
  PROVE  validateToolArguments(arguments, buildInputSchema(declared)) <=> Fits(arguments, declared)
<1> DEFINE schema == buildInputSchema(declared)
           last(key) == declared[LastDeclared(declared, key)]
<1>1. /\ DOMAIN schema.properties = Declared(declared)
      /\ \A key \in Declared(declared) :
           /\ schema.properties[key] =
                [type |-> last(key).type, description |-> last(key).description]
           /\ key \in ToSet(schema.required) <=> last(key).required
      /\ ToSet(schema.required) \subseteq Declared(declared)
  BY SchemaProperties
<1>2. Fits(arguments, declared) <=>
        /\ DOMAIN arguments \subseteq Declared(declared)
        /\ \A key \in Declared(declared) :
             IF key \in DOMAIN arguments THEN arguments[key].type = last(key).type
             ELSE ~ last(key).required
  BY DEF Fits
<1>3. validateToolArguments(arguments, schema) <=>
        /\ DOMAIN arguments \subseteq DOMAIN schema.properties
        /\ ToSet(schema.required) \subseteq DOMAIN arguments
        /\ \A key \in DOMAIN arguments : arguments[key].type = schema.properties[key].type
  BY DEF validateToolArguments
<1> HIDE DEF schema, last
<1>4. \A key \in Declared(declared) : schema.properties[key].type = last(key).type
  <2> SUFFICES ASSUME NEW key \in Declared(declared)
               PROVE  schema.properties[key].type = last(key).type
    OBVIOUS
  <2>1. schema.properties[key] = [type |-> last(key).type, description |-> last(key).description]
    BY <1>1
  <2> QED
    BY <2>1
<1>5. validateToolArguments(arguments, schema) <=> Fits(arguments, declared)
  BY <1>1, <1>2, <1>3, <1>4
<1> QED
  BY <1>5 DEF schema

\* Nothing that a call is about changes.
LEMMA SameCall ==
  ASSUME request' = request, tools' = tools
  PROVE  calling' = calling /\ Named' = Named /\ theTool' = theTool
BY DEF calling, Named, theTool

\* A tool that is named has declarations.
LEMMA NamedTool ==
  ASSUME DiagType, Named # {}
  PROVE  theTool.params \in Seq(Specs) /\ theTool \in Tools
<1>1. \A i \in Named : i \in DOMAIN tools
  BY DEF Named
<1>2. (CHOOSE i \in Named : TRUE) \in Named
  OBVIOUS
<1>3. theTool \in Tools
  BY <1>1, <1>2 DEF theTool, DiagType
<1> QED
  BY <1>3 DEF Tools

\* A process that goes on has told nothing yet.
LEMMA GoingOn ==
  ASSUME stage' # "exited"
  PROVE  ExitTellsOutcome'
BY DEF ExitTellsOutcome

\* A stage that is over asks nothing.
LEMMA Ending ==
  ASSUME stage' = "exited"
  PROVE  StageInv'
BY DEF StageInv

\* An exit with an error before the script is started.
LEMMA ErrorExit ==
  ASSUME StageInv, stage # "exited", status' = 1, err' # None, out' = out, launch' = launch
  PROVE  ExitTellsOutcome'
<1>1. out' = None /\ launch'.path = None
  BY DEF StageInv
<1>2. None # "invalid" /\ None # "failed" /\ None # "result"
  BY NoneAssumption
<1>3. /\ status' # 0 /\ out' # "result" /\ ~ (err' = None) /\ out' = None /\ ~ (launch'.path # None)
      /\ out' \notin {"failed", "result"} /\ out' # "invalid"
  BY <1>1, <1>2
<1> QED
  BY <1>3, Zenon DEF ExitTellsOutcome

\* The exits of a call: with the result of the validation, and of the script.
LEMMA CallExit ==
  ASSUME calling', err' = None, status' \in {0, 1}, out' \in {"invalid", "failed", "result"},
         status' = 0 <=> out' = "result",
         launch'.path # None <=> out' \in {"failed", "result"},
         launch'.path # None => Fits(args, theTool.params)',
         out' = "invalid" => ~ Fits(args, theTool.params)'
  PROVE  ExitTellsOutcome'
<1>1. ~ (out' = None)
  BY NoneAssumption
<1> QED
  BY <1>1, Zenon DEF ExitTellsOutcome

\* What every stage has behind it, and what an exit tells, are kept.
LEMMA StageKept ==
  ASSUME DiagType, StageInv, ExitTellsOutcome, [DiagNext]_diagVars
  PROVE  StageInv' /\ ExitTellsOutcome'
<1> USE DEF GoOn, Exit, surroundings, discovery, call, ending
<1>0. None \notin {"no tool name", "paths", "scripts directory", "unknown tool", "params",
                    "start", "watch", "invalid", "failed", "result"}
  BY NoneAssumption
<1>1. CASE UNCHANGED diagVars
  <2>1. /\ request' = request /\ tools' = tools /\ stage' = stage /\ entries' = entries
        /\ args' = args /\ launch' = launch /\ out' = out /\ err' = err /\ status' = status
        /\ printed' = printed
    BY <1>1 DEF diagVars
  <2>2. (calling' <=> calling) /\ Named' = Named /\ theTool' = theTool
    BY <2>1, SameCall
  <2>3. Fits(args, theTool.params)' <=> Fits(args, theTool.params)
    BY <2>1, <2>2
  <2>4. StageInv'
    BY <2>1, <2>2, <2>3 DEF StageInv
  <2>5. ExitTellsOutcome'
    BY <2>1, <2>2, <2>3 DEF ExitTellsOutcome
  <2> QED
    BY <2>4, <2>5
<1>2. CASE Start
  <2>1. /\ launch' = launch /\ out' = out /\ stage = "start"
        /\ printed' = printed /\ (calling' <=> calling)
        /\ \/ stage' = "exited" /\ status' = 1 /\ err' \in {"no tool name", "paths"}
           \/ stage' = "readdir" /\ err' = err
    BY <1>2 DEF Start, calling
  <2>2. CASE stage' = "exited"
    BY <1>0, <2>1, <2>2, Ending, ErrorExit
  <2>3. CASE stage' = "readdir"
    BY <2>1, <2>3, GoingOn DEF StageInv
  <2> QED
    BY <2>1, <2>2, <2>3
<1>3. CASE ReadDir
  <2>1. /\ launch' = launch /\ out' = out /\ stage = "readdir"
        /\ printed' = printed /\ (calling' <=> calling)
        /\ \/ stage' = "entries" /\ err' = err
           \/ stage' = "exited" /\ status' = 1 /\ err' = "scripts directory"
           \/ stage' = "watching" /\ err' = err /\ printed # None
    BY <1>3 DEF ReadDir, calling
  <2>2. CASE stage' = "exited"
    BY <1>0, <2>1, <2>2, Ending, ErrorExit
  <2>3. CASE stage' = "entries"
    BY <2>1, <2>3, GoingOn DEF StageInv
  <2>4. CASE stage' = "watching"
    <3>1. ~ calling'
      BY <2>1, <2>4 DEF StageInv
    <3> QED
      BY <2>1, <2>4, <3>1, GoingOn DEF StageInv
  <2> QED
    BY <2>1, <2>2, <2>3, <2>4
<1>4. CASE SkipEntry \/ OpenEntry \/ Scan \/ Register
  <2>1. /\ launch' = launch /\ out' = out /\ err' = err
        /\ printed' = printed /\ (calling' <=> calling)
        /\ stage' \in {"entries", "extract"} /\ stage \in {"entries", "extract"}
        /\ stage' = "extract" => entries' = entries /\ entries # <<>>
    BY <1>4 DEF SkipEntry, OpenEntry, Scan, Register, StageInv, calling
  <2> QED
    BY <2>1, GoingOn DEF StageInv
<1>5. CASE Discovered
  <2>1. /\ launch' = launch /\ out' = out  /\ err' = err /\ request' = request
        /\ printed' = printed /\ stage = "entries" /\ entries = <<>> /\ entries' = entries
        /\ stage' = IF calling THEN "lookup" ELSE "print"
    BY <1>5 DEF Discovered
  <2>2. calling' <=> calling
    BY <2>1 DEF calling
  <2>3. CASE calling
    BY <2>1, <2>2, <2>3, GoingOn DEF StageInv
  <2>4. CASE ~ calling
    BY <2>1, <2>2, <2>4, GoingOn DEF StageInv
  <2> QED
    BY <2>3, <2>4
<1>6. CASE CallTool
  <2>1. /\ request' = request /\ tools' = tools /\ entries' = entries
        /\ stage \in {"lookup", "arguments", "validate", "execute"} /\ calling
        /\ err = None /\ out = None /\ launch.path = None
        /\ printed = None /\ printed' = printed
    BY <1>6 DEF CallTool, Lookup, ParseArguments, Validate, StartFails, Runs, StageInv
  <2>2. calling' /\ Named' = Named /\ theTool' = theTool
    BY <2>1, SameCall
  <2>3. CASE Lookup
    <3>1. /\ args' = args /\ launch' = launch /\ out' = out
          /\ \/ stage' = "exited" /\ status' = 1 /\ err' = "unknown tool"
             \/ stage' = "arguments" /\ err' = err /\ Named # {}
      BY <2>3 DEF Lookup
    <3>2. CASE stage' = "exited"
      BY <1>0, <2>1, <3>1, <3>2, Ending, ErrorExit
    <3>3. CASE stage' = "arguments"
      BY <2>1, <2>2, <3>1, <3>3, GoingOn DEF StageInv
    <3> QED
      BY <3>1, <3>2, <3>3
  <2>4. CASE \E raw \in RawArguments : ParseArguments(raw)
    <3>1. /\ launch' = launch /\ out' = out /\ stage = "arguments"
          /\ \/ stage' = "exited" /\ status' = 1 /\ err' = "params"
             \/ stage' = "validate" /\ err' = err
      BY <2>4 DEF ParseArguments
    <3>2. CASE stage' = "exited"
      BY <1>0, <2>1, <3>1, <3>2, Ending, ErrorExit
    <3>3. CASE stage' = "validate"
      BY <2>1, <2>2, <3>1, <3>3, GoingOn DEF StageInv
    <3> QED
      BY <3>1, <3>2, <3>3
  <2>5. CASE Validate
    <3>1. Named # {} /\ args' = args /\ launch' = launch
      BY <2>5 DEF Validate, StageInv
    <3>2. validateToolArguments(args, buildInputSchema(theTool.params))
            <=> Fits(args, theTool.params)
      BY <3>1, NamedTool, ValidMeansFits
    <3>3. \/ /\ stage' = "execute" /\ err' = err /\ out' = out
             /\ validateToolArguments(args, buildInputSchema(theTool.params))
          \/ /\ stage' = "exited" /\ status' = 1 /\ err' = None /\ out' = "invalid"
             /\ ~ validateToolArguments(args, buildInputSchema(theTool.params))
      BY <2>5 DEF Validate
    <3>4. Fits(args, theTool.params)' <=> Fits(args, theTool.params)
      BY <2>2, <3>1
    <3>5. CASE stage' = "execute"
      BY <2>1, <2>2, <3>1, <3>2, <3>3, <3>4, <3>5, GoingOn DEF StageInv
    <3>6. CASE stage' = "exited"
      <4>1. /\ status' = 1 /\ err' = None /\ out' = "invalid" /\ ~ Fits(args, theTool.params)'
            /\ ~ (launch'.path # None)
        BY <2>1, <3>1, <3>2, <3>3, <3>4, <3>6
      <4>2. ExitTellsOutcome'
        BY <2>2, <4>1, CallExit
      <4> QED
        BY <3>6, <4>2, Ending
    <3> QED
      BY <3>3, <3>5, <3>6
  <2>6. CASE StartFails
    <3>1. /\ launch' = launch /\ out' = out
          /\ stage' = "exited" /\ status' = 1 /\ err' = "start"
      BY <2>6 DEF StartFails
    <3> QED
      BY <1>0, <2>1, <3>1, Ending, ErrorExit
  <2>7. ASSUME NEW outcome \in {"failed", "result"}, Runs(outcome)
        PROVE  StageInv' /\ ExitTellsOutcome'
    <3>1. /\ args' = args /\ launch'.path = theTool.path /\ out' = outcome
          /\ stage' = "exited" /\ err' = None
          /\ status' = IF outcome = "failed" THEN 1 ELSE 0
          /\ Named # {} /\ Fits(args, theTool.params)
      BY <2>7 DEF Runs, StageInv
    <3>2. theTool.path \in ToSet(FileNames)
      BY <3>1, NamedTool DEF Tools
    <3>3. launch'.path # None
      BY <3>1, <3>2, NoneAssumption
    <3>4. Fits(args, theTool.params)'
      BY <2>2, <3>1
    <3>5. ExitTellsOutcome'
      BY <2>2, <3>1, <3>3, <3>4, CallExit
    <3> QED
      BY <3>1, <3>5, Ending
  <2> QED
    BY <1>6, <2>3, <2>4, <2>5, <2>6, <2>7 DEF CallTool
<1>7. CASE DirectoryChanges
  <2>1. /\ request' = request /\ tools' = tools /\ stage' = stage /\ entries' = entries
        /\ args' = args /\ launch' = launch /\ out' = out /\ err' = err /\ stage # "exited"
        /\ printed' = printed
    BY <1>7 DEF DirectoryChanges
  <2>2. (calling' <=> calling) /\ Named' = Named /\ theTool' = theTool
    BY <2>1, SameCall
  <2>3. Fits(args, theTool.params)' <=> Fits(args, theTool.params)
    BY <2>1, <2>2
  <2> QED
    BY <2>1, <2>2, <2>3, GoingOn DEF StageInv
<1>8. CASE ShowList \/ Rescan \/ WatchEnds
  <2>1. /\ request' = request /\ out' = out /\ launch' = launch
        /\ stage \in {"print", "watching"} /\ ~ calling
        /\ \/ stage' = "watching" /\ err' = err
           \/ stage' = "readdir" /\ err' = err
           \/ stage' = "exited" /\ status' = 0 /\ err' = None
           \/ stage' = "exited" /\ status' = 1 /\ err' = "watch"
    BY <1>8 DEF ShowList, Rescan, WatchEnds, StageInv
  <2>2. ~ calling'
    BY <2>1 DEF calling
  <2>3. CASE stage' # "exited"
    BY <2>1, <2>2, <2>3, GoingOn DEF StageInv
  <2>4. CASE stage' = "exited" /\ status' = 0
    <3>1. err' = None
      BY <2>1, <2>4
    <3> QED
      BY <2>2, <2>4, <3>1, Ending DEF ExitTellsOutcome
  <2>5. CASE stage' = "exited" /\ status' = 1 /\ err' = "watch"
    BY <1>0, <2>1, <2>5, Ending, ErrorExit
  <2> QED
    BY <2>1, <2>3, <2>4, <2>5
<1>9. CASE Exited
  BY <1>1, <1>9 DEF Exited
<1> QED
  BY <1>1, <1>2, <1>3, <1>4, <1>5, <1>6, <1>7, <1>8, <1>9 DEF DiagNext, Discovery, ListTools

-----------------------------------------------------------------------------
(* Which files stand for their names. *)

\* The order of the directory is a strict order.
LEMMA BeforeOrder ==
  ASSUME NEW x, NEW y, NEW z
  PROVE  /\ ~ Before(x, x)
         /\ ~ (Before(x, y) /\ Before(y, x))
         /\ Before(x, y) /\ Before(y, z) => Before(x, z)
         /\ Before(x, y) => x \in ToSet(FileNames) /\ y \in ToSet(FileNames)
<1>1. /\ \A i, j \in DOMAIN FileNames : FileNames[i] = FileNames[j] => i = j
      /\ DOMAIN FileNames \subseteq Nat
  BY FilesAssumption
<1>2. ASSUME NEW a, NEW b, Before(a, b), Before(b, a) PROVE FALSE
  <2>1. PICK i, j \in DOMAIN FileNames : i < j /\ FileNames[i] = a /\ FileNames[j] = b
    BY <1>2 DEF Before
  <2>2. PICK k, m \in DOMAIN FileNames : k < m /\ FileNames[k] = b /\ FileNames[m] = a
    BY <1>2 DEF Before
  <2>3. j = k /\ i = m
    BY <1>1, <2>1, <2>2
  <2>4. i \in Nat /\ j \in Nat
    BY <1>1
  <2> QED
    BY <2>1, <2>2, <2>3, <2>4
<1>3. ASSUME Before(x, y), Before(y, z) PROVE Before(x, z)
  <2>1. PICK i, j \in DOMAIN FileNames : i < j /\ FileNames[i] = x /\ FileNames[j] = y
    BY <1>3 DEF Before
  <2>2. PICK k, m \in DOMAIN FileNames : k < m /\ FileNames[k] = y /\ FileNames[m] = z
    BY <1>3 DEF Before
  <2>3. j = k
    BY <1>1, <2>1, <2>2
  <2>4. i \in Nat /\ j \in Nat /\ m \in Nat
    BY <1>1
  <2>5. i < m
    BY <2>1, <2>2, <2>3, <2>4
  <2> QED
    BY <2>1, <2>2, <2>5 DEF Before
<1>4. Before(x, y) => x \in ToSet(FileNames) /\ y \in ToSet(FileNames)
  BY DEF Before, ToSet
<1> QED
  BY <1>2, <1>3, <1>4

\* A tool file that does not stand for its name comes after the one that does.
LEMMA FirstToolFile ==
  ASSUME NEW name, IsToolFile(name), ~ Winner(name)
  PROVE  \E first \in ToSet(FileNames) :
           Before(first, name) /\ Winner(first) /\ ToolName[first] = ToolName[name]
<1> DEFINE S == {i \in DOMAIN FileNames : IsToolFile(FileNames[i])
                                          /\ ToolName[FileNames[i]] = ToolName[name]}
           least == Min(S)
           first == FileNames[least]
<1>1. /\ \A i, j \in DOMAIN FileNames : FileNames[i] = FileNames[j] => i = j
      /\ DOMAIN FileNames \subseteq Nat
  BY FilesAssumption
<1>2. PICK other \in ToSet(FileNames) :
         Before(other, name) /\ IsToolFile(other) /\ ToolName[other] = ToolName[name]
  BY DEF Winner
<1>3. PICK i, j \in DOMAIN FileNames : i < j /\ FileNames[i] = other /\ FileNames[j] = name
  BY <1>2 DEF Before
<1>4. i \in S /\ S \in SUBSET Nat
  BY <1>1, <1>2, <1>3
<1>5. least \in S /\ \A k \in S : least <= k
  BY <1>4, LeastIndex
<1>6. /\ least \in DOMAIN FileNames /\ IsToolFile(first) /\ ToolName[first] = ToolName[name]
      /\ least \in Nat /\ i \in Nat /\ j \in Nat
  BY <1>1, <1>5
<1>7. \A k \in DOMAIN FileNames : IsToolFile(FileNames[k])
                                  /\ ToolName[FileNames[k]] = ToolName[name] => k \in S
  OBVIOUS
<1> HIDE DEF S, least
<1>8. least < j
  BY <1>3, <1>4, <1>5, <1>6
<1>9. Before(first, name)
  BY <1>3, <1>6, <1>8 DEF Before
<1>10. Winner(first)
  <2>1. ASSUME NEW earlier \in ToSet(FileNames), Before(earlier, first), IsToolFile(earlier),
               ToolName[earlier] = ToolName[first]
        PROVE  FALSE
    <3>1. PICK k, m \in DOMAIN FileNames : k < m /\ FileNames[k] = earlier /\ FileNames[m] = first
      BY <2>1 DEF Before
    <3>2. m = least /\ k \in Nat
      BY <1>1, <1>6, <3>1
    <3>3. k \in S
      BY <1>6, <1>7, <2>1, <3>1
    <3> QED
      BY <1>5, <1>6, <3>1, <3>2, <3>3
  <2> QED
    BY <1>6, <2>1 DEF Winner
<1>11. first \in ToSet(FileNames)
  BY <1>6 DEF ToSet
<1> QED
  BY <1>6, <1>9, <1>10, <1>11

\* A directory that is the same has the same files.
LEMMA SameFiles ==
  ASSUME dir' = dir
  PROVE  \A name : /\ IsToolFile(name)' <=> IsToolFile(name)
                   /\ Winner(name)' <=> Winner(name)
BY DEF IsToolFile, Winner

\* A sequence is its first element and the others.
LEMMA HeadAndTail ==
  ASSUME NEW E, NEW list \in Seq(E), list # <<>>
  PROVE  /\ Tail(list) \in Seq(E) /\ Head(list) = list[1] /\ 1 \in DOMAIN list
         /\ ToSet(list) = {Head(list)} \cup ToSet(Tail(list))
         /\ \A i \in DOMAIN Tail(list) : i + 1 \in DOMAIN list /\ Tail(list)[i] = list[i + 1]
<1>1. /\ Tail(list) \in Seq(E) /\ Head(list) = list[1] /\ Len(list) \in Nat /\ Len(list) >= 1
      /\ Len(Tail(list)) = Len(list) - 1
      /\ \A i \in 1..Len(Tail(list)) : Tail(list)[i] = list[i + 1]
  OBVIOUS
<1>2. DOMAIN list = 1..Len(list) /\ DOMAIN Tail(list) = 1..Len(Tail(list))
  BY <1>1
<1>3. ASSUME NEW x \in ToSet(list) PROVE x \in {Head(list)} \cup ToSet(Tail(list))
  <2>1. PICK i \in 1..Len(list) : x = list[i]
    BY <1>2 DEF ToSet
  <2>2. CASE i = 1
    BY <1>1, <2>1, <2>2
  <2>3. CASE i # 1
    <3>1. i - 1 \in 1..Len(Tail(list)) /\ (i - 1) + 1 = i
      BY <1>1, <2>3
    <3>2. Tail(list)[i - 1] = x
      BY <1>1, <2>1, <3>1
    <3> QED
      BY <1>2, <3>1, <3>2 DEF ToSet
  <2> QED
    BY <2>2, <2>3
<1>4. ASSUME NEW x \in {Head(list)} \cup ToSet(Tail(list)) PROVE x \in ToSet(list)
  <2>1. CASE x = Head(list)
    <3>1. 1 \in DOMAIN list
      BY <1>1, <1>2
    <3> QED
      BY <1>1, <2>1, <3>1 DEF ToSet
  <2>2. CASE x \in ToSet(Tail(list))
    <3>1. PICK i \in 1..Len(Tail(list)) : x = Tail(list)[i]
      BY <1>2, <2>2 DEF ToSet
    <3>2. i + 1 \in DOMAIN list /\ x = list[i + 1]
      BY <1>1, <1>2, <3>1
    <3> QED
      BY <3>2 DEF ToSet
  <2> QED
    BY <2>1, <2>2
<1>5. 1 \in DOMAIN list /\ \A i \in DOMAIN Tail(list) : i + 1 \in DOMAIN list
  BY <1>1, <1>2
<1> QED
  BY <1>1, <1>2, <1>3, <1>4, <1>5

\* The next entry is behind: it is a tool file that has been visited now, or none.
LEMMA NextEntry ==
  ASSUME DiagType, Found, entries # <<>>, entries' = Tail(entries), dir' = dir
  PROVE  /\ \A i, j \in DOMAIN entries' : i < j => Before(entries'[i], entries'[j])
         /\ \A name \in Visited' : \A i \in DOMAIN entries' : Before(name, entries'[i])
         /\ Visited' = IF IsToolFile(Head(entries)) THEN Visited \cup {Head(entries)} ELSE Visited
         /\ Head(entries) \notin Visited
<1> DEFINE entry == Head(entries)
           rest == Tail(entries)
<1>1. /\ entries \in Seq(ToSet(FileNames))
      /\ \A i, j \in DOMAIN entries : i < j => Before(entries[i], entries[j])
      /\ \A name \in Visited : \A i \in DOMAIN entries : Before(name, entries[i])
  BY DEF DiagType, Found
<1>2. /\ rest \in Seq(ToSet(FileNames)) /\ entry = entries[1] /\ 1 \in DOMAIN entries
      /\ ToSet(entries) = {entry} \cup ToSet(rest)
      /\ \A i \in DOMAIN rest : i + 1 \in DOMAIN entries /\ rest[i] = entries[i + 1]
  BY <1>1, HeadAndTail
<1>3. \A i \in DOMAIN rest : i \in Nat /\ 1 < i + 1
  BY <1>2
<1> HIDE DEF entry, rest
<1>4. \A i \in DOMAIN rest : Before(entry, rest[i])
  BY <1>1, <1>2, <1>3
<1>5. entry \notin ToSet(rest)
  BY <1>4, BeforeOrder DEF ToSet
<1>6. entry \in ToSet(FileNames)
  BY <1>1, <1>2
<1>7. Visited' = {name \in ToSet(FileNames) : IsToolFile(name) /\ name \notin ToSet(rest)}
  BY DEF Visited, IsToolFile, rest
<1>8. Visited' = IF IsToolFile(entry) THEN Visited \cup {entry} ELSE Visited
  <2>1. \A name \in ToSet(FileNames) : name \in Visited' <=>
          name \in Visited \/ (name = entry /\ IsToolFile(entry))
    BY <1>2, <1>5, <1>7 DEF Visited
  <2>2. \A name \in Visited \cup Visited' : name \in ToSet(FileNames)
    BY <1>7 DEF Visited
  <2> QED
    BY <1>6, <2>1, <2>2
<1>9. \A i, j \in DOMAIN rest : i < j => Before(rest[i], rest[j])
  <2> SUFFICES ASSUME NEW i \in DOMAIN rest, NEW j \in DOMAIN rest, i < j
               PROVE  Before(rest[i], rest[j])
    OBVIOUS
  <2>1. i + 1 < j + 1
    BY <1>3
  <2> QED
    BY <1>1, <1>2, <2>1
<1>10. \A name \in Visited' : \A i \in DOMAIN rest : Before(name, rest[i])
  BY <1>1, <1>2, <1>4, <1>8
<1>11. entry \notin Visited
  BY <1>2 DEF Visited
<1> QED
  BY <1>8, <1>9, <1>10, <1>11 DEF entry, rest

\* A name is taken exactly when the file does not stand for it.
LEMMA TakenOrFirst ==
  ASSUME DiagType, Found, entries # <<>>, IsToolFile(Head(entries))
  PROVE  Taken(ToolName[Head(entries)]) <=> ~ Winner(Head(entries))
<1> DEFINE entry == Head(entries)
<1>1. /\ \A i, j \in DOMAIN entries : i < j => Before(entries[i], entries[j])
      /\ \A name \in Visited : \A i \in DOMAIN entries : Before(name, entries[i])
      /\ {tools[i].path : i \in DOMAIN tools} = {name \in Visited : Winner(name)}
      /\ \A i \in DOMAIN tools : tools[i].name = ToolName[tools[i].path]
      /\ entries \in Seq(ToSet(FileNames))
  BY DEF DiagType, Found
<1>2. entry = entries[1] /\ 1 \in DOMAIN entries
  BY <1>1, HeadAndTail
<1>3. \A i \in DOMAIN entries : i \in Nat /\ i >= 1
  BY <1>1
<1> HIDE DEF entry
<1>4. ASSUME Taken(ToolName[entry]) PROVE ~ Winner(entry)
  <2>1. PICK i \in DOMAIN tools : tools[i].name = ToolName[entry]
    BY <1>4 DEF Taken
  <2>2. tools[i].path \in Visited /\ ToolName[tools[i].path] = ToolName[entry]
    BY <1>1, <2>1
  <2>3. Before(tools[i].path, entry) /\ IsToolFile(tools[i].path)
    BY <1>1, <1>2, <2>2 DEF Visited
  <2>4. tools[i].path \in ToSet(FileNames)
    BY <2>2 DEF Visited
  <2> QED
    BY <2>2, <2>3, <2>4 DEF Winner
<1>5. ASSUME ~ Winner(entry) PROVE Taken(ToolName[entry])
  <2>1. PICK first \in ToSet(FileNames) :
           Before(first, entry) /\ Winner(first) /\ ToolName[first] = ToolName[entry]
    BY <1>5, FirstToolFile DEF entry
  <2>2. first \notin ToSet(entries)
    <3> SUFFICES ASSUME NEW i \in DOMAIN entries, first = entries[i] PROVE FALSE
      BY DEF ToSet
    <3>1. CASE i = 1
      BY <1>2, <2>1, <3>1, BeforeOrder
    <3>2. CASE i # 1
      <4>1. Before(entry, first)
        BY <1>1, <1>2, <1>3, <3>2
      <4> QED
        BY <2>1, <4>1, BeforeOrder
    <3> QED
      BY <3>1, <3>2
  <2>3. first \in Visited
    BY <2>1, <2>2 DEF Visited, Winner
  <2>4. PICK i \in DOMAIN tools : tools[i].path = first
    BY <1>1, <2>1, <2>3
  <2> QED
    BY <1>1, <2>1, <2>4 DEF Taken
<1> QED
  BY <1>4, <1>5 DEF entry

\* The same files and findings are the same.
LEMMA FoundStays ==
  ASSUME Found, dir' = dir, entries' = entries, tools' = tools, shadowed' = shadowed
  PROVE  Found'
<1>1. Visited' = Visited
  BY DEF Visited, IsToolFile
<1>2. \A name : Winner(name)' <=> Winner(name)
  BY SameFiles
<1>3. /\ \A i, j \in DOMAIN entries' : i < j => Before(entries'[i], entries'[j])
      /\ \A name \in Visited' : \A i \in DOMAIN entries' : Before(name, entries'[i])
      /\ {tools'[i].path : i \in DOMAIN tools'} = {name \in Visited' : Winner(name)}
      /\ \A i, j \in DOMAIN tools' : i < j => Before(tools'[i].path, tools'[j].path)
      /\ shadowed' = {name \in Visited' : ~ Winner(name)}
  BY <1>1 DEF Found
<1>4. /\ {name \in Visited' : Winner(name)} = {name \in Visited' : Winner(name)'}
      /\ {name \in Visited' : ~ Winner(name)} = {name \in Visited' : ~ Winner(name)'}
  BY <1>2
<1> QED
  BY <1>3, <1>4 DEF Found, Before

\* The order, the winners and the others, put together for the next state.
LEMMA FoundNext ==
  ASSUME dir' = dir,
         \A i, j \in DOMAIN entries' : i < j => Before(entries'[i], entries'[j]),
         \A name \in Visited' : \A i \in DOMAIN entries' : Before(name, entries'[i]),
         {tools'[i].path : i \in DOMAIN tools'} = {name \in Visited' : Winner(name)},
         \A i, j \in DOMAIN tools' : i < j => Before(tools'[i].path, tools'[j].path),
         shadowed' = {name \in Visited' : ~ Winner(name)}
  PROVE  Found'
<1>1. \A name : Winner(name)' <=> Winner(name)
  BY SameFiles
<1>2. /\ {name \in Visited' : Winner(name)} = {name \in Visited' : Winner(name)'}
      /\ {name \in Visited' : ~ Winner(name)} = {name \in Visited' : ~ Winner(name)'}
  BY <1>1
<1> QED
  BY <1>2 DEF Found, Before

\* A directory is read: nothing has been visited.
LEMMA FoundBegins ==
  ASSUME dir' = dir, tools' = <<>>, shadowed' = {},
         entries' = Only(FileNames, {name \in ToSet(FileNames) : dir[name] # "absent"})
  PROVE  Found'
<1> DEFINE S == {name \in ToSet(FileNames) : dir[name] # "absent"}
           list == Only(FileNames, S)
<1>1. /\ list \in Seq(ToSet(FileNames))
      /\ \E at : Places(list, FileNames, S, Len(FileNames), at)
  <2> HIDE DEF S
  <2> QED
    BY FilesAssumption, OnlyPlaces
<1>2. PICK at : Places(list, FileNames, S, Len(FileNames), at)
  BY <1>1
<1>3. \A name \in ToSet(FileNames) : IsToolFile(name) => name \in S
  BY DEF IsToolFile, NoTool
<1> HIDE DEF S, list
<1>4. /\ at \in [1..Len(list) -> 1..Len(FileNames)]
      /\ \A i \in 1..Len(list) : list[i] = FileNames[at[i]]
      /\ \A i, j \in 1..Len(list) : i < j => at[i] < at[j]
      /\ \A m \in 1..Len(FileNames) : FileNames[m] \in S => \E i \in 1..Len(list) : at[i] = m
      /\ DOMAIN list = 1..Len(list) /\ DOMAIN FileNames = 1..Len(FileNames)
  BY <1>1, <1>2, FilesAssumption DEF Places
<1>5. entries' = list
  BY DEF list, S
<1>6. \A i, j \in DOMAIN list : i < j => Before(list[i], list[j])
  BY <1>4 DEF Before
<1>7. Visited' = {}
  <2> SUFFICES ASSUME NEW name \in ToSet(FileNames), IsToolFile(name), name \notin ToSet(list)
               PROVE  FALSE
    BY <1>5 DEF Visited, IsToolFile
  <2>1. name \in S
    BY <1>3
  <2>2. PICK m \in 1..Len(FileNames) : name = FileNames[m]
    BY <1>4 DEF ToSet
  <2>3. PICK i \in 1..Len(list) : at[i] = m
    BY <1>4, <2>1, <2>2
  <2>4. list[i] = name
    BY <1>4, <2>2, <2>3
  <2> QED
    BY <1>4, <2>4 DEF ToSet
<1>8. DOMAIN tools' = {}
  OBVIOUS
<1> QED
  BY <1>5, <1>6, <1>7, <1>8, FoundNext

\* A file becomes the tool of its name, or is shadowed.
LEMMA FoundRegisters ==
  ASSUME DiagType, StageInv, Found, Register, IsToolFile(Head(entries))
  PROVE  Found'
<1> DEFINE entry == Head(entries)
           next == Visited'
<1>1. /\ entries # <<>> /\ entries' = Tail(entries) /\ dir' = dir
      /\ IF Taken(ToolName[entry]) THEN shadowed' = shadowed \cup {entry} /\ tools' = tools
         ELSE tools' = Append(tools, Tool(entry)) /\ shadowed' = shadowed
  BY DEF Register, StageInv, surroundings
<1>2. Taken(ToolName[entry]) <=> ~ Winner(entry)
  BY <1>1, TakenOrFirst
<1>3. /\ \A i, j \in DOMAIN entries' : i < j => Before(entries'[i], entries'[j])
      /\ \A name \in next : \A i \in DOMAIN entries' : Before(name, entries'[i])
      /\ next = Visited \cup {entry} /\ entry \notin Visited
  BY <1>1, NextEntry
<1>4. /\ {tools[i].path : i \in DOMAIN tools} = {name \in Visited : Winner(name)}
      /\ \A i, j \in DOMAIN tools : i < j => Before(tools[i].path, tools[j].path)
      /\ shadowed = {name \in Visited : ~ Winner(name)}
      /\ tools \in Seq(Tools)
      /\ \A name \in Visited : \A i \in DOMAIN entries : Before(name, entries[i])
      /\ entry = entries[1] /\ 1 \in DOMAIN entries
  BY <1>1, HeadAndTail DEF Found, DiagType
<1> HIDE DEF entry, next
<1>5. CASE Winner(entry)
  <2> DEFINE len == Len(tools)
  <2>1. tools' = Append(tools, Tool(entry)) /\ shadowed' = shadowed
    BY <1>1, <1>2, <1>5
  <2>2. Tool(entry).path = entry
    BY DEF Tool
  <2>3. /\ len \in Nat /\ DOMAIN tools = 1..len /\ DOMAIN tools' = 1..(len + 1)
        /\ tools'[len + 1] = Tool(entry) /\ \A i \in 1..len : tools'[i] = tools[i]
    BY <1>4, <2>1
  <2>4. /\ \A i \in 1..(len + 1) : i \in 1..len \/ i = len + 1
        /\ \A i \in 1..len : i \in 1..(len + 1) /\ i # len + 1
        /\ len + 1 \in 1..(len + 1)
    BY <2>3
  <2> HIDE DEF len
  <2>5. {tools'[i].path : i \in DOMAIN tools'} = {tools[i].path : i \in DOMAIN tools} \cup {entry}
    BY <2>2, <2>3, <2>4
  <2>6. {name \in next : Winner(name)} = {name \in Visited : Winner(name)} \cup {entry}
    BY <1>3, <1>5
  <2>7. {name \in next : ~ Winner(name)} = {name \in Visited : ~ Winner(name)}
    BY <1>3, <1>5
  <2>8. \A i, j \in DOMAIN tools' : i < j => Before(tools'[i].path, tools'[j].path)
    <3> SUFFICES ASSUME NEW i \in 1..(len + 1), NEW j \in 1..(len + 1), i < j
                 PROVE  Before(tools'[i].path, tools'[j].path)
      BY <2>3
    <3>1. i \in 1..len
      BY <2>3
    <3>2. CASE j \in 1..len
      BY <1>4, <2>3, <3>1, <3>2
    <3>3. CASE j = len + 1
      <4>1. tools[i].path \in Visited
        BY <1>4, <2>3, <3>1
      <4>2. Before(tools[i].path, entry)
        BY <1>4, <4>1
      <4> QED
        BY <2>2, <2>3, <3>1, <3>3, <4>2
    <3> QED
      BY <2>4, <3>2, <3>3
  <2>9. /\ {tools'[i].path : i \in DOMAIN tools'} = {name \in next : Winner(name)}
        /\ shadowed' = {name \in next : ~ Winner(name)}
    BY <1>4, <2>1, <2>5, <2>6, <2>7
  <2> QED
    BY <1>1, <1>3, <2>8, <2>9, FoundNext DEF next
<1>6. CASE ~ Winner(entry)
  <2>1. tools' = tools /\ shadowed' = shadowed \cup {entry}
    BY <1>1, <1>2, <1>6
  <2>2. {name \in next : Winner(name)} = {name \in Visited : Winner(name)}
    BY <1>3, <1>6
  <2>3. {name \in next : ~ Winner(name)} = {name \in Visited : ~ Winner(name)} \cup {entry}
    BY <1>3, <1>6
  <2>4. /\ {tools'[i].path : i \in DOMAIN tools'} = {name \in next : Winner(name)}
        /\ shadowed' = {name \in next : ~ Winner(name)}
        /\ \A i, j \in DOMAIN tools' : i < j => Before(tools'[i].path, tools'[j].path)
    BY <1>4, <2>1, <2>2, <2>3
  <2> QED
    BY <1>1, <1>3, <2>4, FoundNext DEF next
<1> QED
  BY <1>5, <1>6

\* What has been found in a directory that has not changed is kept.
LEMMA FoundKept ==
  ASSUME DiagType, StageInv, FoundInv, [DiagNext]_diagVars
  PROVE  FoundInv'
<1> USE DEF GoOn, Exit, surroundings, discovery, call, ending
<1> SUFFICES ASSUME ~ pending', readable'
             PROVE  /\ stage' \in {"entries", "extract", "print", "watching"} => Found'
                    /\ stage' = "extract" => IsToolFile(Head(entries))'
                    /\ stage' = "watching" => printed' = tools' /\ entries' = <<>>
  BY DEF FoundInv
<1>0. ~ pending /\ readable =>
        /\ stage \in {"entries", "extract", "print", "watching"} => Found
        /\ stage = "extract" => IsToolFile(Head(entries))
        /\ stage = "watching" => printed = tools /\ entries = <<>>
  BY DEF FoundInv
<1>1. CASE UNCHANGED diagVars
  <2>1. /\ stage' = stage /\ pending' = pending /\ readable' = readable /\ printed' = printed
        /\ dir' = dir /\ entries' = entries /\ tools' = tools /\ shadowed' = shadowed
    BY <1>1 DEF diagVars
  <2> QED
    BY <1>0, <2>1, FoundStays DEF IsToolFile
<1>2. CASE Start
  BY <1>2 DEF Start
<1>3. CASE ReadDir
  <2>1. CASE readable
    <3>1. /\ dir' = dir /\ tools' = <<>> /\ shadowed' = {} /\ stage' = "entries"
          /\ entries' = Only(FileNames, {name \in ToSet(FileNames) : dir[name] # "absent"})
      BY <1>3, <2>1 DEF ReadDir
    <3> QED
      BY <3>1, FoundBegins
  <2>2. CASE ~ readable
    BY <1>3, <2>2 DEF ReadDir
  <2> QED
    BY <2>1, <2>2
<1>4. CASE SkipEntry
  <2>1. /\ stage' = "entries" /\ stage = "entries" /\ entries # <<>> /\ entries' = Tail(entries)
        /\ dir' = dir /\ readable' = readable /\ pending' = pending
        /\ tools' = tools /\ shadowed' = shadowed
        /\ dir[Head(entries)] \in NoTool \/ ~ readable
    BY <1>4 DEF SkipEntry
  <2>2. Found /\ ~ IsToolFile(Head(entries))
    BY <1>0, <2>1 DEF IsToolFile
  <2>3. /\ \A i, j \in DOMAIN entries' : i < j => Before(entries'[i], entries'[j])
        /\ \A name \in Visited' : \A i \in DOMAIN entries' : Before(name, entries'[i])
        /\ Visited' = Visited
    BY <2>1, <2>2, NextEntry
  <2>4. /\ {tools'[i].path : i \in DOMAIN tools'} = {name \in Visited' : Winner(name)}
        /\ \A i, j \in DOMAIN tools' : i < j => Before(tools'[i].path, tools'[j].path)
        /\ shadowed' = {name \in Visited' : ~ Winner(name)}
    BY <2>1, <2>2, <2>3 DEF Found
  <2>5. Found'
    BY <2>1, <2>3, <2>4, FoundNext
  <2> QED
    BY <2>1, <2>5
<1>5. CASE OpenEntry
  <2>1. /\ stage' = "extract" /\ stage = "entries"
        /\ dir' = dir /\ readable' = readable /\ pending' = pending
        /\ entries' = entries /\ tools' = tools /\ shadowed' = shadowed
        /\ dir[Head(entries)] \notin NoTool
    BY <1>5 DEF OpenEntry
  <2> QED
    BY <1>0, <2>1, FoundStays DEF IsToolFile
<1>6. CASE Scan
  <2>1. /\ stage' = "extract" /\ stage = "extract"
        /\ dir' = dir /\ readable' = readable /\ pending' = pending
        /\ entries' = entries /\ tools' = tools /\ shadowed' = shadowed
    BY <1>6 DEF Scan
  <2> QED
    BY <1>0, <2>1, FoundStays DEF IsToolFile
<1>7. CASE Register
  <2>1. stage' = "entries" /\ stage = "extract" /\ readable' = readable /\ pending' = pending
    BY <1>7 DEF Register
  <2>2. Found'
    BY <1>0, <1>7, <2>1, FoundRegisters
  <2> QED
    BY <2>1, <2>2
<1>8. CASE Discovered
  <2>1. /\ stage' \in {"lookup", "print"} /\ stage = "entries"
        /\ dir' = dir /\ readable' = readable /\ pending' = pending
        /\ entries' = entries /\ tools' = tools /\ shadowed' = shadowed
    BY <1>8 DEF Discovered
  <2> QED
    BY <1>0, <2>1, FoundStays
<1>9. CASE CallTool
  <2>1. stage' \in {"exited", "arguments", "validate", "execute"}
    BY <1>9 DEF CallTool, Lookup, ParseArguments, Validate, StartFails, Runs
  <2> QED
    BY <2>1
<1>10. CASE ShowList
  <2>1. /\ stage' \in {"watching", "exited"} /\ stage = "print"
        /\ stage' = "watching" => request.watch
        /\ dir' = dir /\ readable' = readable /\ printed' = tools
        /\ pending' = (request.watch /\ (printed = None \/ pending))
        /\ entries' = entries /\ tools' = tools /\ shadowed' = shadowed
    BY <1>10 DEF ShowList
  <2>2. CASE stage' = "watching"
    <3>1. ~ pending /\ readable /\ entries = <<>>
      BY <2>1, <2>2 DEF StageInv
    <3> QED
      BY <1>0, <2>1, <3>1, FoundStays
  <2> QED
    BY <2>1, <2>2
<1>11. CASE DirectoryChanges
  BY <1>11 DEF DirectoryChanges
<1>12. CASE Rescan \/ WatchEnds
  BY <1>12 DEF Rescan, WatchEnds
<1>13. CASE Exited
  BY <1>1, <1>13 DEF Exited
<1> QED
  BY <1>1, <1>2, <1>3, <1>4, <1>5, <1>6, <1>7, <1>8, <1>9, <1>10, <1>11, <1>12, <1>13
     DEF DiagNext, Discovery, ListTools

-----------------------------------------------------------------------------
(* What the invariants say of a scan that is over. *)

\* A scan that is over has read the lines that count.
LEMMA AllIsRead ==
  ASSUME ScanInv, ~ scanning
  PROVE  /\ DescriptionLines = ReadDescriptions /\ TimeoutLines = ReadTimeouts
         /\ ParamLines = ReadParams /\ Declarations = ReadDeclarations
<1>1. /\ file \in Seq(Lines) /\ lineCount \in Nat /\ Len(file) \in Nat /\ scanHeaderLines \in Nat
      /\ lineCount <= scanHeaderLines /\ lineCount <= Len(file)
      /\ \A j \in 1..lineCount : ~ file[j].long
      /\ Window \subseteq 1..lineCount
  BY ScanAssumption DEF ScanInv, PlaceInv
<1>2. ASSUME NEW i \in 1..lineCount PROVE i \in Window
  <2>1. i \in 1..Len(file) /\ i <= scanHeaderLines
    BY <1>1
  <2>2. \A j \in 1..i : j \in 1..lineCount
    BY <1>1
  <2> QED
    BY <1>1, <2>1, <2>2 DEF Window
<1>3. Window = 1..lineCount
  BY <1>1, <1>2
<1> HIDE DEF Window
<1>4. DescriptionLines = ReadDescriptions
  BY <1>3 DEF DescriptionLines, ReadDescriptions
<1>5. TimeoutLines = ReadTimeouts
  BY <1>3 DEF TimeoutLines, ReadTimeouts, DescriptionLines
<1>6. ParamLines = ReadParams
  BY <1>3 DEF ParamLines, ReadParams, TimeoutLines, DescriptionLines
<1>7. Declarations = ReadDeclarations
  BY <1>6 DEF Declarations, ReadDeclarations
<1> QED
  BY <1>4, <1>5, <1>6, <1>7

\* The first description and the first timeout decide.
LEMMA FirstsDecide ==
  ASSUME ScanInv
  PROVE  FirstOccurrenceWins
<1> SUFFICES ASSUME ~ scanning
             PROVE  /\ description = First(DescriptionLines, LAMBDA i : file[i].description, None)
                    /\ timeout = First(TimeoutLines,
                         LAMBDA i : IF file[i].timeout = Invalid THEN None ELSE file[i].timeout,
                         None)
  BY DEF FirstOccurrenceWins
<1>1. DescriptionLines = ReadDescriptions /\ TimeoutLines = ReadTimeouts
  BY AllIsRead
<1>2. /\ description = IF ReadDescriptions = {} THEN None
                       ELSE file[Min(ReadDescriptions)].description
      /\ timeout = IF ReadTimeouts = {} \/ file[Min(ReadTimeouts)].timeout = Invalid THEN None
                   ELSE file[Min(ReadTimeouts)].timeout
  BY DEF ScanInv, FirstInv
<1>3. description = First(DescriptionLines, LAMBDA i : file[i].description, None)
  BY <1>1, <1>2 DEF First, Min
<1>4. timeout = First(TimeoutLines,
                  LAMBDA i : IF file[i].timeout = Invalid THEN None ELSE file[i].timeout, None)
  BY <1>1, <1>2 DEF First, Min
<1> QED
  BY <1>3, <1>4

\* The lines that are warned about are the refused ones.
LEMMA RefusalsAreWarned ==
  ASSUME ScanInv
  PROVE  RefusedIsWarned
<1> SUFFICES ASSUME ~ scanning
             PROVE  warned = RefusedLines /\ Len(params) = Cardinality(ParamLines \ warned)
  BY DEF RefusedIsWarned
<1>1. TimeoutLines = ReadTimeouts /\ ParamLines = ReadParams /\ Declarations = ReadDeclarations
  BY AllIsRead
<1>2. /\ warned = ReadRefused \cup Firsts(Overlong)
      /\ Cardinality(ReadDeclarations) = Len(params)
      /\ lineCount \in Nat /\ \A j \in 1..lineCount : ~ file[j].long
  BY DEF ScanInv, WarnedInv, ParamsInv, PlaceInv
<1>3. warned = RefusedLines
  BY <1>1, <1>2 DEF ReadRefused, RefusedLines
<1>4. ReadParams \subseteq 1..lineCount /\ ReadDeclarations \subseteq ReadParams
  BY ReadSets DEF ScanInv
<1>5. \A i \in ReadParams : i \notin Firsts(Overlong) /\ i \notin Firsts(ReadTimeouts)
  <2>1. \A i \in ReadParams : file[i].timeout = None /\ ~ file[i].long
    BY <1>2, <1>4 DEF ReadParams
  <2>2. \A i \in Firsts(Overlong) : file[i].long
    BY DEF Firsts, Overlong
  <2>3. \A i \in Firsts(ReadTimeouts) : file[i].timeout # None
    BY DEF Firsts, ReadTimeouts
  <2> QED
    BY <2>1, <2>2, <2>3
<1>6. ReadParams \ warned = ReadDeclarations
  BY <1>2, <1>4, <1>5 DEF ReadRefused
<1> QED
  BY <1>1, <1>2, <1>3, <1>6

\* The schema is that of the last declarations, in the order of the first ones.
LEMMA LastsDecide ==
  ASSUME ScanInv
  PROVE  LastDeclarationWins
<1> DEFINE Name(i) == file[i].param.fields[1]
           Same(i) == {j \in Declarations : Name(j) = Name(i)}
           schema == buildInputSchema(params)
           normal == normalizeParams(params)
           Of(n) == {i \in Declarations : Name(i) = n}
           FirstAt(n) == Min(Of(n))
           spec(i) == parseParamAnnotation(file[i].param)
           len == Len(params)
<1> SUFFICES ASSUME ~ scanning
             PROVE  /\ DOMAIN schema.properties = {Name(i) : i \in Declarations}
                    /\ \A i \in Declarations :
                         /\ schema.properties[Name(i)] =
                              [type |-> spec(Max(Same(i))).type,
                               description |-> spec(Max(Same(i))).description]
                         /\ Name(i) \in ToSet(schema.required) <=> spec(Max(Same(i))).required
                    /\ IsInjective(schema.required)
                    /\ \A i, j \in DOMAIN normal :
                         i < j => FirstAt(normal[i].name) < FirstAt(normal[j].name)
  BY DEF LastDeclarationWins
<1>1. /\ Declarations = ReadDeclarations /\ params \in Seq(Specs) /\ lineCount \in Nat
      /\ ReadDeclarations \subseteq 1..lineCount
  BY AllIsRead, ReadSets DEF ScanInv, ParamsInv, PlaceInv
<1>2. PICK at : Collected(at)
  BY DEF ScanInv, ParamsInv
<1>3. /\ at \in [1..len -> Declarations] /\ len \in Nat /\ DOMAIN params = 1..len
      /\ \A k \in 1..len : params[k] = spec(at[k])
      /\ \A k, m \in 1..len : k < m => at[k] < at[m]
      /\ \A i \in Declarations : \E k \in 1..len : at[k] = i
  BY <1>1, <1>2 DEF Collected
<1>4. \A i \in Declarations : i \in Nat /\ i \in 0..lineCount
  BY <1>1
<1>5. \A i : spec(i).name = Name(i)
  BY DEF parseParamAnnotation
<1>6. Declared(params) = {Name(i) : i \in Declarations}
  BY <1>3, <1>5 DEF Declared
<1>7. ASSUME NEW i \in Declarations
      PROVE  params[LastDeclared(params, Name(i))] = spec(Max(Same(i)))
  <2> DEFINE K == {k \in 1..len : params[k].name = Name(i)}
             m == Max(K)
             J == Same(i)
             last == Max(J)
  <2>1. LastDeclared(params, Name(i)) = m
    BY <1>3 DEF LastDeclared
  <2>2. PICK k \in 1..len : at[k] = i
    BY <1>3
  <2>3. k \in K /\ K \in SUBSET (0..len) /\ i \in J /\ J \in SUBSET (0..lineCount)
    BY <1>3, <1>4, <1>5, <2>2
  <2>4. \A c \in 1..len : c \in K <=> at[c] \in J
    BY <1>3, <1>5
  <2>5. \A j \in J : j \in Declarations
    OBVIOUS
  <2>6. \A c \in K : c \in 1..len
    OBVIOUS
  <2> HIDE DEF K, J
  <2>7. m \in K /\ \A c \in K : c <= m
    BY <1>3, <2>3, GreatestIndex
  <2>8. last \in J /\ \A j \in J : j <= last
    BY <1>1, <2>3, GreatestIndex
  <2>9. PICK c \in 1..len : at[c] = last
    BY <1>3, <2>5, <2>8
  <2>10. c \in K /\ c <= m /\ m \in 1..len /\ at[m] \in J /\ at[m] <= last
    BY <2>4, <2>6, <2>7, <2>8, <2>9
  <2>11. c = m
    <3>1. ~ (c < m)
      <4>1. c < m => at[c] < at[m]
        BY <1>3, <2>10
      <4>2. at[c] \in Nat /\ at[m] \in Nat
        BY <1>3, <1>4, <2>10
      <4> QED
        BY <2>9, <2>10, <4>1, <4>2
    <3>2. c \in Nat /\ m \in Nat
      BY <1>3, <2>10
    <3> QED
      BY <2>10, <3>1, <3>2
  <2>12. params[m] = spec(last)
    BY <1>3, <2>9, <2>11
  <2> HIDE DEF m, spec
  <2> QED
    BY <2>1, <2>12 DEF J
<1>8. /\ DOMAIN schema.properties = Declared(params)
      /\ \A key \in Declared(params) :
           LET last == params[LastDeclared(params, key)]
           IN /\ schema.properties[key] = [type |-> last.type, description |-> last.description]
              /\ key \in ToSet(schema.required) <=> last.required
      /\ IsInjective(schema.required)
  BY <1>1, SchemaProperties
<1> HIDE DEF schema, normal, Same, spec
<1>9. ASSUME NEW i \in Declarations
      PROVE  /\ schema.properties[Name(i)] = [type |-> spec(Max(Same(i))).type,
                                              description |-> spec(Max(Same(i))).description]
             /\ Name(i) \in ToSet(schema.required) <=> spec(Max(Same(i))).required
  <2>1. Name(i) \in Declared(params)
    BY <1>6
  <2> QED
    BY <1>7, <1>8, <2>1
<1>10. ASSUME NEW i \in DOMAIN normal, NEW j \in DOMAIN normal, i < j
       PROVE  FirstAt(normal[i].name) < FirstAt(normal[j].name)
  <2>1. normal \in Seq(Specs) /\ Merged(normal, params, len)
    BY <1>1, NormalizedMerges DEF normal
  <2>2. i \in 1..Len(normal) /\ j \in 1..Len(normal)
    BY <2>1
  <2>3. PICK k \in 1..len : params[k].name = normal[i].name
                            /\ \A m \in 1..k : params[m].name # normal[j].name
    BY <1>10, <2>1, <2>2 DEF Merged
  <2>4. PICK m \in 1..len : normal[j] = params[m]
    BY <2>1, <2>2 DEF Merged
  <2> DEFINE A == Of(normal[i].name)
             B == Of(normal[j].name)
  <2>5. A \in SUBSET Nat /\ at[k] \in A
    BY <1>3, <1>4, <1>5, <2>3
  <2>6. B \in SUBSET Nat /\ at[m] \in B
    BY <1>3, <1>4, <1>5, <2>4
  <2>7. \A b \in B : b \in Declarations /\ spec(b).name = normal[j].name
    BY <1>5
  <2> HIDE DEF A, B
  <2>8. Min(A) \in Nat /\ Min(A) <= at[k]
    BY <2>5, LeastIndex
  <2>9. Min(B) \in B /\ Min(B) \in Nat
    BY <2>6, LeastIndex
  <2>10. PICK c \in 1..len : at[c] = Min(B)
    BY <1>3, <2>7, <2>9
  <2>11. params[c].name = normal[j].name
    BY <1>3, <2>7, <2>9, <2>10
  <2>12. ~ (c \in 1..k)
    BY <2>3, <2>11
  <2>13. k < c
    BY <1>3, <2>12
  <2>14. at[k] < at[c] /\ at[k] \in Nat
    BY <1>3, <1>4, <2>13
  <2>15. Min(A) < Min(B)
    BY <2>8, <2>9, <2>10, <2>14
  <2> QED
    BY <2>15 DEF A, B
<1>11. DOMAIN schema.properties = {Name(i) : i \in Declarations}
  BY <1>6, <1>8
<1> QED
  BY <1>8, <1>9, <1>10, <1>11

-----------------------------------------------------------------------------
(* The command line of a call, and a script's reading of it. *)

\* One sequence begins another one.
Begins(u, v) == Len(u) <= Len(v) /\ \A i \in 1..Len(u) : u[i] = v[i]

\* The names the arguments can have, and the words they become.
Words(arguments) == {arguments[key].text : key \in DOMAIN arguments}
                    \cup {FlagOf[key] : key \in DOMAIN arguments}

\* Arguments of declared names and types, none of them an array or null.
Suitable(arguments, types) ==
    /\ DOMAIN types \subseteq ParamNames
    /\ \A key \in DOMAIN arguments :
         /\ key \in DOMAIN types
         /\ arguments[key].type = types[key] /\ types[key] \in paramTypes
         /\ arguments[key].type = "boolean" => arguments[key].text \in {"true", "false"}

\* A suitable argument is a flag, nothing, or a flag with a value.
LEMMA ArgumentWords ==
  ASSUME NEW arguments, NEW types, Suitable(arguments, types), NEW key \in DOMAIN arguments
  PROVE  /\ CLIArgument(key, arguments[key]) \in Seq(Words(arguments))
         /\ Unsaid(arguments[key]) => CLIArgument(key, arguments[key]) = <<>>
         /\ ~ Unsaid(arguments[key]) /\ types[key] = "boolean" =>
              CLIArgument(key, arguments[key]) = <<FlagOf[key]>> /\ arguments[key].text = "true"
         /\ types[key] # "boolean" =>
              /\ ~ Unsaid(arguments[key])
              /\ CLIArgument(key, arguments[key]) = <<FlagOf[key], arguments[key].text>>
<1>1. /\ arguments[key].type = types[key] /\ types[key] \in {"string", "number", "boolean"}
      /\ arguments[key].type = "boolean" => arguments[key].text \in {"true", "false"}
  BY DEF Suitable, paramTypes
<1>2. FlagOf[key] \in Words(arguments) /\ arguments[key].text \in Words(arguments)
  BY DEF Words
<1>3. CASE types[key] = "boolean" /\ arguments[key].text = "true"
  <2>1. CLIArgument(key, arguments[key]) = <<FlagOf[key]>> /\ ~ Unsaid(arguments[key])
    BY <1>1, <1>3 DEF CLIArgument, Unsaid
  <2> QED
    BY <1>2, <1>3, <2>1
<1>4. CASE types[key] = "boolean" /\ arguments[key].text = "false"
  <2>1. CLIArgument(key, arguments[key]) = <<>> /\ Unsaid(arguments[key])
    BY <1>1, <1>4 DEF CLIArgument, Unsaid
  <2> QED
    BY <1>2, <1>4, <2>1
<1>5. CASE types[key] # "boolean"
  <2>1. /\ CLIArgument(key, arguments[key]) = <<FlagOf[key], arguments[key].text>>
        /\ ~ Unsaid(arguments[key])
    BY <1>1, <1>5 DEF CLIArgument, Unsaid
  <2> QED
    BY <1>2, <1>5, <2>1
<1> QED
  BY <1>1, <1>3, <1>4, <1>5

\* What the n-th name adds to a command line.
Adds(arguments, x, n) ==
    IF Alphabetical[n] \notin DOMAIN arguments THEN x
    ELSE x \o CLIArgument(Alphabetical[n], arguments[Alphabetical[n]])

\* The command line, one name after the other.
LEMMA CLISteps ==
  ASSUME NEW arguments, NEW types, Suitable(arguments, types)
  PROVE  /\ cliArgs(arguments) \in [0..Len(Alphabetical) -> Seq(Words(arguments))]
         /\ cliArgs(arguments)[0] = <<>>
         /\ \A k \in 1..Len(Alphabetical) :
              cliArgs(arguments)[k] = Adds(arguments, cliArgs(arguments)[k - 1], k)
<1> DEFINE n == Len(Alphabetical)
           X == Seq(Words(arguments))
           step == [x \in X \X (1..n) |-> Adds(arguments, x[1], x[2])]
           Body(f) == [k \in 0..n |-> IF k = 0 THEN <<>>
                         ELSE IF Alphabetical[k] \notin DOMAIN arguments THEN f[k - 1]
                         ELSE f[k - 1] \o CLIArgument(Alphabetical[k], arguments[Alphabetical[k]])]
           h == cliArgs(arguments)
<1>1. n \in Nat /\ <<>> \in X
  BY ArgumentsAssumption
<1>2. ASSUME NEW x \in X, NEW k \in 1..n PROVE Adds(arguments, x, k) \in X
  <2>1. CASE Alphabetical[k] \notin DOMAIN arguments
    BY <2>1 DEF Adds
  <2>2. CASE Alphabetical[k] \in DOMAIN arguments
    <3>1. CLIArgument(Alphabetical[k], arguments[Alphabetical[k]]) \in X
      BY <2>2, ArgumentWords
    <3>2. \A c \in X : x \o c \in X
      OBVIOUS
    <3> HIDE DEF X
    <3> QED
      BY <2>2, <3>1, <3>2 DEF Adds
  <2> QED
    BY <2>1, <2>2
<1>3. \A x \in X : \A k \in 1..n : step[<<x, k>>] = Adds(arguments, x, k)
  OBVIOUS
<1> HIDE DEF X
<1>4. StaysIn(X, n, step)
  <2> HIDE DEF step
  <2> QED
    BY <1>2, <1>3 DEF StaysIn
<1>5. PICK g : Iterated(g, X, <<>>, n, step)
  <2> HIDE DEF step, n
  <2> QED
    BY <1>1, <1>4, Iterates
<1>6. g[0] = <<>> /\ \A k \in 1..n : k - 1 \in 0..n /\ g[k - 1] \in X
  BY <1>1, <1>5 DEF Iterated
<1>7. \A k \in 1..n : g[k] = Adds(arguments, g[k - 1], k)
  <2> HIDE DEF step
  <2> QED
    BY <1>3, <1>5, <1>6 DEF Iterated
<1>8. g = Body(g)
  <2>1. \A k \in 0..n : g[k] = Body(g)[k]
    BY <1>1, <1>6, <1>7 DEF Adds
  <2>2. g = [k \in 0..n |-> g[k]]
    BY <1>5 DEF Iterated
  <2> QED
    BY <2>1, <2>2
<1>9. h = CHOOSE f : f = Body(f)
  BY DEF cliArgs
<1>10. h = Body(h)
  BY <1>8, <1>9
<1> HIDE DEF h, n
<1>11. h[0] = <<>> /\ \A k \in 1..n : h[k] = Adds(arguments, h[k - 1], k)
  <2>1. \A k \in 0..n : h[k] = Body(h)[k]
    BY <1>10
  <2> QED
    BY <1>1, <2>1 DEF Adds
<1>12. h \in [0..n -> X]
  <2> DEFINE G == {k \in Nat : k <= n => h[k] \in X}
  <2>1. 0 \in G
    BY <1>1, <1>11
  <2>2. ASSUME NEW k \in Nat, k \in G PROVE k + 1 \in G
    <3> SUFFICES ASSUME k + 1 <= n PROVE h[k + 1] \in X
      OBVIOUS
    <3>1. k + 1 \in 1..n /\ (k + 1) - 1 = k /\ h[k] \in X
      BY <1>1, <2>2
    <3>2. h[k + 1] = Adds(arguments, h[k], k + 1)
      BY <1>11, <3>1
    <3> QED
      BY <1>2, <3>1, <3>2
  <2>3. \A k \in Nat : k \in G
    <3> HIDE DEF G
    <3> QED
      BY <2>1, <2>2, AllNaturals
  <2>4. \A k \in 0..n : h[k] \in X
    BY <1>1, <2>3
  <2>5. h = [k \in 0..n |-> h[k]]
    BY <1>10
  <2> QED
    BY <2>4, <2>5
<1> QED
  BY <1>11, <1>12 DEF n, h, X

\* A command line begins with the words of its first names.
LEMMA CLIBegins ==
  ASSUME NEW arguments, NEW types, Suitable(arguments, types), NEW i \in 0..Len(Alphabetical)
  PROVE  Begins(cliArgs(arguments)[i], argumentsToCLIArgs(arguments))
<1> DEFINE n == Len(Alphabetical)
           h == cliArgs(arguments)
           W == Words(arguments)
           G == {k \in Nat : i + k <= n => Begins(h[i], h[i + k])}
<1>1. /\ n \in Nat /\ \A k \in 0..n : h[k] \in Seq(W)
      /\ \A k \in 1..n : h[k] = Adds(arguments, h[k - 1], k)
  BY CLISteps, ArgumentsAssumption
<1>2. \A k \in 1..n : Alphabetical[k] \in DOMAIN arguments =>
         CLIArgument(Alphabetical[k], arguments[Alphabetical[k]]) \in Seq(W)
  BY ArgumentWords
<1>3. i \in 0..n
  OBVIOUS
<1> HIDE DEF h, n, W
<1>4. ASSUME NEW x \in Seq(W), NEW y \in Seq(W), NEW k \in 1..n, Begins(x, y)
      PROVE  Begins(x, Adds(arguments, y, k))
  <2>1. CASE Alphabetical[k] \notin DOMAIN arguments
    BY <1>4, <2>1 DEF Adds
  <2>2. CASE Alphabetical[k] \in DOMAIN arguments
    <3>1. PICK c \in Seq(W) : c = CLIArgument(Alphabetical[k], arguments[Alphabetical[k]])
      BY <1>2, <2>2
    <3>2. Adds(arguments, y, k) = y \o c
      BY <2>2, <3>1 DEF Adds
    <3>3. /\ Len(y \o c) = Len(y) + Len(c) /\ Len(y) \in Nat /\ Len(c) \in Nat /\ Len(x) \in Nat
          /\ \A m \in 1..Len(y) : (y \o c)[m] = y[m]
      OBVIOUS
    <3>4. Len(x) <= Len(y) /\ \A m \in 1..Len(x) : x[m] = y[m]
      BY <1>4 DEF Begins
    <3>5. Begins(x, y \o c)
      BY <3>3, <3>4 DEF Begins
    <3> QED
      BY <3>2, <3>5
  <2> QED
    BY <2>1, <2>2
<1>5. 0 \in G
  <2>1. h[i] \in Seq(W) /\ i + 0 = i
    BY <1>1, <1>3
  <2> QED
    BY <2>1 DEF Begins
<1>6. ASSUME NEW k \in Nat, k \in G PROVE k + 1 \in G
  <2> SUFFICES ASSUME i + (k + 1) <= n PROVE Begins(h[i], h[i + (k + 1)])
    OBVIOUS
  <2>1. /\ i + (k + 1) \in 1..n /\ (i + (k + 1)) - 1 = i + k /\ i + k \in 0..n
        /\ Begins(h[i], h[i + k])
    BY <1>1, <1>3, <1>6
  <2>2. /\ h[i + (k + 1)] = Adds(arguments, h[i + k], i + (k + 1))
        /\ h[i] \in Seq(W) /\ h[i + k] \in Seq(W)
    BY <1>1, <1>3, <2>1
  <2> QED
    BY <1>4, <2>1, <2>2
<1>7. \A k \in Nat : k \in G
  <2> HIDE DEF G
  <2> QED
    BY <1>5, <1>6, AllNaturals
<1>8. n - i \in Nat /\ i + (n - i) = n
  BY <1>1, <1>3
<1>9. Begins(h[i], h[n])
  <2>1. n - i \in G
    BY <1>7, <1>8
  <2>2. i + (n - i) <= n
    BY <1>1, <1>8
  <2>3. Begins(h[i], h[i + (n - i)])
    BY <2>1, <2>2
  <2> QED
    BY <1>8, <2>3
<1> QED
  BY <1>9 DEF argumentsToCLIArgs, h, n

\* What a script can have read: what is lost, and values of its parameters.
Readings(types, W) == {None} \cup {[key |-> k, text |-> t] : k \in DOMAIN types, t \in W \cup {"true"}}
ReadingStates(types, W) == [next : Nat \ {0}, got : Seq(Readings(types, W))]

\* A script is at the flag of one of its parameters.
AtFlag(r, argv, types, key) ==
    /\ DOMAIN types \subseteq ParamNames /\ key \in DOMAIN types
    /\ r.next \in Nat /\ Len(argv) \in Nat
    /\ r.next <= Len(argv) /\ argv[r.next] = FlagOf[key]

\* A script at the flag of one of its parameters reads a switch, or takes what
\* follows for the value.
LEMMA ReadsFlag ==
  ASSUME NEW types, NEW argv, NEW r, NEW key, AtFlag(r, argv, types, key)
  PROVE  ReadNext(r, argv, types) =
           IF types[key] = "boolean"
           THEN [next |-> r.next + 1, got |-> Append(r.got, [key |-> key, text |-> "true"])]
           ELSE IF r.next = Len(argv)
           THEN [next |-> Len(argv) + 1, got |-> Append(r.got, None)]
           ELSE [next |-> r.next + 2,
                 got |-> Append(r.got, [key |-> key, text |-> argv[r.next + 1]])]
<1> DEFINE flagged == {k \in DOMAIN types : FlagOf[k] = argv[r.next]}
           it == CHOOSE k \in flagged : TRUE
<1>1. flagged = {key}
  BY ArgumentsAssumption DEF AtFlag
<1>2. it = key /\ flagged # {} /\ ~ (r.next > Len(argv))
  <2>1. ~ (r.next > Len(argv))
    BY DEF AtFlag
  <2> QED
    BY <1>1, <2>1
<1>3. ReadNext(r, argv, types) =
        IF r.next > Len(argv) THEN r
        ELSE IF flagged = {} THEN [next |-> Len(argv) + 1, got |-> Append(r.got, None)]
        ELSE IF types[it] = "boolean"
             THEN [next |-> r.next + 1, got |-> Append(r.got, [key |-> it, text |-> "true"])]
        ELSE IF r.next = Len(argv) THEN [next |-> Len(argv) + 1, got |-> Append(r.got, None)]
        ELSE [next |-> r.next + 2, got |-> Append(r.got, [key |-> it, text |-> argv[r.next + 1]])]
  BY DEF ReadNext
<1> HIDE DEF flagged, it
<1> QED
  BY <1>2, <1>3

\* A script reads on from what it can have read.
LEMMA ReadsOn ==
  ASSUME NEW types, NEW W, NEW argv \in Seq(W), NEW r \in ReadingStates(types, W)
  PROVE  /\ ReadNext(r, argv, types) \in ReadingStates(types, W)
         /\ r.next > Len(argv) => ReadNext(r, argv, types) = r
<1> DEFINE flagged == {k \in DOMAIN types : FlagOf[k] = argv[r.next]}
           it == CHOOSE k \in flagged : TRUE
           E == Readings(types, W)
           len == Len(argv)
<1>1. /\ r.next \in Nat /\ r.next >= 1 /\ r.got \in Seq(E) /\ len \in Nat
      /\ r = [next |-> r.next, got |-> r.got]
  BY DEF ReadingStates
<1>2. ReadNext(r, argv, types) =
        IF r.next > len THEN r
        ELSE IF flagged = {} THEN [next |-> len + 1, got |-> Append(r.got, None)]
        ELSE IF types[it] = "boolean"
             THEN [next |-> r.next + 1, got |-> Append(r.got, [key |-> it, text |-> "true"])]
        ELSE IF r.next = len THEN [next |-> len + 1, got |-> Append(r.got, None)]
        ELSE [next |-> r.next + 2, got |-> Append(r.got, [key |-> it, text |-> argv[r.next + 1]])]
  BY DEF ReadNext
<1>3. flagged # {} => it \in DOMAIN types
  OBVIOUS
<1>4. ~ (r.next > len) /\ r.next # len => argv[r.next + 1] \in W
  BY <1>1
<1>5. \A e \in E : \A m \in Nat \ {0} :
        [next |-> m, got |-> Append(r.got, e)] \in ReadingStates(types, W)
  <2>1. \A e \in E : Append(r.got, e) \in Seq(E)
    BY <1>1
  <2> QED
    BY <2>1 DEF ReadingStates
<1>6. None \in E
  BY DEF Readings
<1>7. \A k \in DOMAIN types : \A t \in W \cup {"true"} : [key |-> k, text |-> t] \in E
  BY DEF Readings
<1>8. len + 1 \in Nat \ {0} /\ r.next + 1 \in Nat \ {0} /\ r.next + 2 \in Nat \ {0}
  BY <1>1
<1> HIDE DEF flagged, it, E, len
<1>9. CASE r.next > len
  BY <1>2, <1>9 DEF len
<1>10. CASE ~ (r.next > len) /\ flagged = {}
  BY <1>2, <1>5, <1>6, <1>8, <1>10 DEF len
<1>11. CASE ~ (r.next > len) /\ flagged # {} /\ types[it] = "boolean"
  <2>1. [key |-> it, text |-> "true"] \in E
    BY <1>3, <1>7, <1>11
  <2> QED
    BY <1>2, <1>5, <1>8, <1>11, <2>1 DEF len
<1>12. CASE ~ (r.next > len) /\ flagged # {} /\ types[it] # "boolean" /\ r.next = len
  BY <1>2, <1>5, <1>6, <1>8, <1>12 DEF len
<1>13. CASE ~ (r.next > len) /\ flagged # {} /\ types[it] # "boolean" /\ r.next # len
  <2>1. [key |-> it, text |-> argv[r.next + 1]] \in E
    BY <1>3, <1>4, <1>7, <1>13
  <2> QED
    BY <1>2, <1>5, <1>8, <1>13, <2>1 DEF len
<1> QED
  BY <1>9, <1>10, <1>11, <1>12, <1>13

\* A script's reading, one argument after the other.
LEMMA ReadSteps ==
  ASSUME NEW types, NEW W, NEW argv \in Seq(W)
  PROVE  /\ read(argv, types) \in [0..Len(argv) -> ReadingStates(types, W)]
         /\ read(argv, types)[0] = [next |-> 1, got |-> <<>>]
         /\ \A k \in 1..Len(argv) :
              read(argv, types)[k] = ReadNext(read(argv, types)[k - 1], argv, types)
<1> DEFINE n == Len(argv)
           X == ReadingStates(types, W)
           first == [next |-> 1, got |-> <<>>]
           step == [x \in X \X (1..n) |-> ReadNext(x[1], argv, types)]
           Body(f) == [k \in 0..n |-> IF k = 0 THEN [next |-> 1, got |-> <<>>]
                                      ELSE ReadNext(f[k - 1], argv, types)]
           h == read(argv, types)
<1>1. n \in Nat /\ first \in X
  BY DEF ReadingStates
<1>2. \A x \in X : ReadNext(x, argv, types) \in X
  BY ReadsOn
<1>3. \A x \in X : \A k \in 1..n : step[<<x, k>>] = ReadNext(x, argv, types)
  OBVIOUS
<1> HIDE DEF X
<1>4. StaysIn(X, n, step)
  <2> HIDE DEF step
  <2> QED
    BY <1>2, <1>3 DEF StaysIn
<1>5. PICK g : Iterated(g, X, first, n, step)
  <2> HIDE DEF step, n, first
  <2> QED
    BY <1>1, <1>4, Iterates
<1>6. g[0] = first /\ \A k \in 1..n : k - 1 \in 0..n /\ g[k - 1] \in X
  <2>1. g[0] = first /\ g \in [0..n -> X]
    BY <1>5 DEF Iterated
  <2>2. \A k \in 1..n : k - 1 \in 0..n
    BY <1>1
  <2> QED
    BY <2>1, <2>2
<1>7. \A k \in 1..n : g[k] = ReadNext(g[k - 1], argv, types)
  <2> HIDE DEF step
  <2> QED
    BY <1>3, <1>5, <1>6 DEF Iterated
<1>8. g = Body(g)
  <2>1. \A k \in 0..n : g[k] = Body(g)[k]
    BY <1>1, <1>6, <1>7
  <2>2. g = [k \in 0..n |-> g[k]]
    BY <1>5 DEF Iterated
  <2> QED
    BY <2>1, <2>2
<1>9. h = CHOOSE f : f = Body(f)
  BY DEF read
<1>10. h = Body(h)
  BY <1>8, <1>9
<1> HIDE DEF h, n
<1>11. h[0] = first /\ \A k \in 1..n : h[k] = ReadNext(h[k - 1], argv, types)
  <2>1. \A k \in 0..n : h[k] = Body(h)[k]
    BY <1>10
  <2> QED
    BY <1>1, <2>1
<1> HIDE DEF first
<1>12. h \in [0..n -> X]
  <2> DEFINE G == {k \in Nat : k <= n => h[k] \in X}
  <2>1. 0 \in G
    BY <1>1, <1>11
  <2>2. ASSUME NEW k \in Nat, k \in G PROVE k + 1 \in G
    <3> SUFFICES ASSUME k + 1 <= n PROVE h[k + 1] \in X
      OBVIOUS
    <3>1. k + 1 \in 1..n /\ (k + 1) - 1 = k /\ h[k] \in X
      BY <1>1, <2>2
    <3>2. h[k + 1] = ReadNext(h[k], argv, types)
      BY <1>11, <3>1
    <3> QED
      BY <1>2, <3>1, <3>2
  <2>3. \A k \in Nat : k \in G
    <3> HIDE DEF G
    <3> QED
      BY <2>1, <2>2, AllNaturals
  <2>4. \A k \in 0..n : h[k] \in X
    BY <1>1, <2>3
  <2>5. h = [k \in 0..n |-> h[k]]
    BY <1>10
  <2> QED
    BY <2>4, <2>5
<1> QED
  BY <1>11, <1>12 DEF n, h, X, first

\* What a script is to read: the named arguments.
Entries(arguments, names) ==
    [i \in DOMAIN names |-> [key |-> names[i], text |-> arguments[names[i]].text]]
Sent(arguments) == {key \in DOMAIN arguments : ~ Unsaid(arguments[key])}

\* The reading of one more name is one more entry.
LEMMA OneMoreEntry ==
  ASSUME NEW arguments, NEW E, NEW names \in Seq(E), NEW key \in E
  PROVE  Entries(arguments, Append(names, key))
           = Append(Entries(arguments, names), [key |-> key, text |-> arguments[key].text])
<1> DEFINE n == Len(names)
           e(k) == [key |-> k, text |-> arguments[k].text]
           X == {e(k) : k \in E}
           old == [i \in 1..n |-> e(names[i])]
           more == Append(names, key)
<1>1. /\ n \in Nat /\ DOMAIN names = 1..n /\ DOMAIN more = 1..(n + 1)
      /\ more[n + 1] = key /\ \A i \in 1..n : more[i] = names[i] /\ names[i] \in E
  OBVIOUS
<1>2. e(key) \in X /\ \A i \in 1..n : e(names[i]) \in X
  BY <1>1
<1>3. Entries(arguments, names) = old /\ Entries(arguments, more) = [i \in 1..(n + 1) |-> e(more[i])]
  BY <1>1 DEF Entries
<1> HIDE DEF X, e, more, n
<1>4. old \in [1..n -> X]
  BY <1>2
<1>5. /\ old \in Seq(X) /\ Len(old) = n /\ \A i \in 1..n : old[i] = e(names[i])
  BY <1>1, <1>4
<1> HIDE DEF old
<1>6. Append(old, e(key)) = [i \in 1..(n + 1) |-> IF i <= n THEN old[i] ELSE e(key)]
  <2>1. PICK v \in X : v = e(key)
    BY <1>2
  <2>2. PICK f \in Seq(X) : f = Append(old, v)
    <3>1. \A u \in Seq(X) : Append(u, v) \in Seq(X)
      BY <2>1
    <3> QED
      BY <1>5, <3>1
  <2>3. Len(f) = n + 1 /\ f[n + 1] = v /\ \A i \in 1..n : f[i] = old[i]
    BY <1>1, <1>5, <2>2
  <2>4. f = [i \in 1..(n + 1) |-> f[i]]
    BY <1>1, <2>3
  <2>5. \A i \in 1..(n + 1) : f[i] = IF i <= n THEN old[i] ELSE v
    BY <1>1, <2>3
  <2> QED
    BY <2>1, <2>2, <2>4, <2>5
<1>7. \A i \in 1..(n + 1) : e(more[i]) = IF i <= n THEN old[i] ELSE e(key)
  <2> SUFFICES ASSUME NEW i \in 1..(n + 1)
               PROVE  e(more[i]) = IF i <= n THEN old[i] ELSE e(key)
    OBVIOUS
  <2>1. CASE i <= n
    <3>1. i \in 1..n
      BY <1>1, <2>1
    <3> QED
      BY <1>1, <1>5, <2>1, <3>1
  <2>2. CASE ~ (i <= n)
    <3>1. i = n + 1
      BY <1>1, <2>2
    <3> QED
      BY <1>1, <2>2, <3>1
  <2> QED
    BY <2>1, <2>2
<1>8. Append(old, e(key)) = [i \in 1..(n + 1) |-> e(more[i])]
  BY <1>6, <1>7
<1> QED
  BY <1>3, <1>8 DEF e, more

\* A script has read the arguments of some names, and comes to the next one.
Continues(r, arguments, argv, E, names, a, key) ==
    /\ argv \in Seq(Words(arguments)) /\ a \in Seq(Words(arguments))
    /\ names \in Seq(E) /\ key \in E /\ key \in Sent(arguments)
    /\ Begins(a \o CLIArgument(key, arguments[key]), argv)
    /\ r = [next |-> Len(a) + 1, got |-> Entries(arguments, names)]

\* It has read that one too after one more step.
LEMMA ReadsArgument ==
  ASSUME NEW arguments, NEW types, Suitable(arguments, types),
         NEW argv, NEW E, NEW names, NEW key, NEW a, NEW r,
         Continues(r, arguments, argv, E, names, a, key)
  PROVE  /\ Len(a \o CLIArgument(key, arguments[key])) >= Len(a) + 1
         /\ ReadNext(r, argv, types) =
              [next |-> Len(a \o CLIArgument(key, arguments[key])) + 1,
               got |-> Entries(arguments, Append(names, key))]
<1> DEFINE W == Words(arguments)
           c == CLIArgument(key, arguments[key])
           text == arguments[key].text
<1>0. argv \in Seq(W) /\ a \in Seq(W) /\ names \in Seq(E) /\ key \in E
  BY DEF Continues
<1>1. /\ key \in DOMAIN arguments /\ ~ Unsaid(arguments[key]) /\ key \in DOMAIN types
      /\ DOMAIN types \subseteq ParamNames
      /\ FlagOf[key] \in W /\ text \in W
  BY DEF Continues, Sent, Suitable, Words
<1>2. /\ c \in Seq(W)
      /\ types[key] = "boolean" => c = <<FlagOf[key]>> /\ text = "true"
      /\ types[key] # "boolean" => c = <<FlagOf[key], text>>
  BY <1>1, ArgumentWords
<1>3. Entries(arguments, Append(names, key))
      = Append(Entries(arguments, names), [key |-> key, text |-> text])
  BY <1>0, OneMoreEntry
<1>4. r.next = Len(a) + 1 /\ r.got = Entries(arguments, names)
  BY DEF Continues
<1>5. Begins(a \o c, argv)
  BY DEF Continues
<1> HIDE DEF c, W
<1>6. /\ Len(a) \in Nat /\ Len(c) \in Nat /\ Len(argv) \in Nat
      /\ Len(a \o c) = Len(a) + Len(c)
      /\ \A i \in 1..Len(c) : (a \o c)[Len(a) + i] = c[i]
  BY <1>0, <1>2
<1>7. /\ Len(a) + Len(c) <= Len(argv)
      /\ \A i \in 1..Len(c) : argv[Len(a) + i] = c[i]
  <2>1. /\ Len(a \o c) <= Len(argv)
        /\ \A i \in 1..Len(a \o c) : argv[i] = (a \o c)[i]
    BY <1>5 DEF Begins
  <2>2. \A i \in 1..Len(c) : Len(a) + i \in 1..Len(a \o c)
    BY <1>6
  <2> QED
    BY <1>6, <2>1, <2>2
<1>8. CASE types[key] = "boolean"
  <2>1. Len(c) = 1 /\ c[1] = FlagOf[key] /\ 1 \in 1..Len(c)
    <3>1. c = <<FlagOf[key]>>
      BY <1>2, <1>8
    <3> QED
      BY <1>1, <3>1
  <2>2. argv[Len(a) + 1] = FlagOf[key]
    BY <1>7, <2>1
  <2>3. ReadNext(r, argv, types) =
          [next |-> r.next + 1, got |-> Append(r.got, [key |-> key, text |-> "true"])]
    <3>1. r.next \in Nat /\ r.next <= Len(argv) /\ argv[r.next] = FlagOf[key]
      BY <1>4, <1>6, <1>7, <2>1, <2>2
    <3>2. AtFlag(r, argv, types, key)
      BY <1>1, <1>6, <3>1 DEF AtFlag
    <3>3. types[key] = "boolean" =>
            ReadNext(r, argv, types) =
              [next |-> r.next + 1, got |-> Append(r.got, [key |-> key, text |-> "true"])]
      BY <3>2, ReadsFlag
    <3> QED
      BY <1>8, <3>3
  <2>4. r.next + 1 = Len(a \o c) + 1 /\ Len(a \o c) >= Len(a) + 1
    BY <1>4, <1>6, <2>1
  <2> QED
    BY <1>2, <1>3, <1>4, <1>8, <2>3, <2>4 DEF c
<1>9. CASE types[key] # "boolean"
  <2>1. Len(c) = 2 /\ c[1] = FlagOf[key] /\ c[2] = text /\ 1 \in 1..Len(c) /\ 2 \in 1..Len(c)
    <3>1. c = <<FlagOf[key], text>>
      BY <1>2, <1>9
    <3> QED
      BY <1>1, <3>1
  <2>2. argv[Len(a) + 1] = FlagOf[key] /\ argv[Len(a) + 2] = text
    BY <1>7, <2>1
  <2>3. /\ r.next \in Nat /\ r.next <= Len(argv) /\ argv[r.next] = FlagOf[key]
        /\ r.next # Len(argv) /\ r.next + 1 = Len(a) + 2
    BY <1>4, <1>6, <1>7, <2>1, <2>2
  <2>4. ReadNext(r, argv, types) =
          [next |-> r.next + 2, got |-> Append(r.got, [key |-> key, text |-> argv[r.next + 1]])]
    <3>1. AtFlag(r, argv, types, key)
      BY <1>1, <1>6, <2>3 DEF AtFlag
    <3>2. r.next # Len(argv)
      BY <2>3
    <3> QED
      BY <1>9, <3>1, <3>2, ReadsFlag
  <2>5. r.next + 2 = Len(a \o c) + 1 /\ Len(a \o c) >= Len(a) + 1
    BY <1>4, <1>6, <2>1
  <2> QED
    BY <1>3, <1>4, <2>2, <2>3, <2>4, <2>5 DEF c
<1> QED
  BY <1>8, <1>9

\* A script that takes its arguments from the command line gets the ones that
\* are sent, in alphabetical order.
LEMMA ReadsWhatIsSent ==
  ASSUME NEW arguments, NEW types, Suitable(arguments, types)
  PROVE  Reading(argumentsToCLIArgs(arguments), types)
           = Entries(arguments, Only(Alphabetical, Sent(arguments)))
<1> DEFINE n == Len(Alphabetical)
           E == ToSet(Alphabetical)
           S == Sent(arguments)
           W == Words(arguments)
           argv == argumentsToCLIArgs(arguments)
           A == cliArgs(arguments)
           T == kept(Alphabetical, S)
           R == read(argv, types)
           X == ReadingStates(types, W)
           Has(m) == /\ Len(T[m]) <= Len(A[m])
                     /\ R[Len(T[m])] = [next |-> Len(A[m]) + 1, got |-> Entries(arguments, T[m])]
           G == {m \in Nat : m <= n => Has(m)}
<1>1. n \in Nat /\ Alphabetical \in Seq(E) /\ \A k \in 1..n : Alphabetical[k] \in E
  BY ArgumentsAssumption
<1>2. /\ A[0] = <<>> /\ \A k \in 0..n : A[k] \in Seq(W)
      /\ \A k \in 1..n : A[k] = Adds(arguments, A[k - 1], k)
  BY CLISteps
<1>3. /\ T[0] = <<>> /\ \A k \in 0..n : T[k] \in Seq(E)
      /\ \A k \in 1..n :
           T[k] = IF Alphabetical[k] \in S THEN Append(T[k - 1], Alphabetical[k]) ELSE T[k - 1]
  BY <1>1, KeptSteps
<1>4. argv = A[n] /\ \A k \in 0..n : Begins(A[k], argv)
  BY CLIBegins DEF argumentsToCLIArgs
<1>5. argv \in Seq(W)
  BY <1>1, <1>2, <1>4
<1>6. /\ R[0] = [next |-> 1, got |-> <<>>] /\ \A k \in 0..Len(argv) : R[k] \in X
      /\ \A k \in 1..Len(argv) : R[k] = ReadNext(R[k - 1], argv, types)
  <2> HIDE DEF n, E, S, W, argv, A, T
  <2>1. R \in [0..Len(argv) -> X]
    BY <1>5, ReadSteps
  <2>2. R[0] = [next |-> 1, got |-> <<>>]
    BY <1>5, ReadSteps
  <2>3. \A k \in 1..Len(argv) : R[k] = ReadNext(R[k - 1], argv, types)
    BY <1>5, ReadSteps
  <2> QED
    BY <2>1, <2>2, <2>3
<1>7. \A key \in DOMAIN arguments \ S : CLIArgument(key, arguments[key]) = <<>>
  BY ArgumentWords DEF Sent
<1>8. S \subseteq DOMAIN arguments
  BY DEF Sent
<1> HIDE DEF n, E, S, W, argv, A, T, R, X
<1>9. 0 \in G
  <2>1. Len(T[0]) = 0 /\ Len(A[0]) = 0
    BY <1>2, <1>3
  <2>2. Entries(arguments, T[0]) = <<>>
    BY <1>3 DEF Entries
  <2> QED
    BY <1>6, <2>1, <2>2
<1>10. ASSUME NEW m \in Nat, m \in G PROVE m + 1 \in G
  <2> SUFFICES ASSUME m + 1 <= n PROVE Has(m + 1)
    OBVIOUS
  <2> DEFINE key == Alphabetical[m + 1]
  <2>1. m + 1 \in 1..n /\ (m + 1) - 1 = m /\ m \in 0..n /\ m + 1 \in 0..n /\ Has(m)
    BY <1>1, <1>10
  <2>2. /\ A[m + 1] = Adds(arguments, A[m], m + 1)
        /\ T[m + 1] = IF key \in S THEN Append(T[m], key) ELSE T[m]
        /\ A[m] \in Seq(W) /\ T[m] \in Seq(E) /\ key \in E /\ Begins(A[m + 1], argv)
    BY <1>1, <1>2, <1>3, <1>4, <2>1
  <2>3. CASE key \notin S
    <3>1. A[m + 1] = A[m]
      <4>1. CASE key \notin DOMAIN arguments
        BY <2>2, <4>1 DEF Adds
      <4>2. CASE key \in DOMAIN arguments
        <5>1. A[m + 1] = A[m] \o <<>>
          BY <1>7, <2>2, <2>3, <4>2 DEF Adds
        <5> QED
          BY <2>2, <5>1
      <4> QED
        BY <4>1, <4>2
    <3>2. T[m + 1] = T[m]
      BY <2>2, <2>3
    <3> QED
      BY <2>1, <3>1, <3>2
  <2>4. CASE key \in S
    <3> DEFINE c == CLIArgument(key, arguments[key])
               t == Len(T[m])
    <3>1. A[m + 1] = A[m] \o c
      BY <1>8, <2>2, <2>4 DEF Adds
    <3>2. T[m + 1] = Append(T[m], key)
      BY <2>2, <2>4
    <3>3. /\ R[t] = [next |-> Len(A[m]) + 1, got |-> Entries(arguments, T[m])]
          /\ t <= Len(A[m])
      BY <2>1
    <3>4. Begins(A[m] \o c, argv)
      BY <2>2, <3>1
    <3> HIDE DEF key
    <3>5. /\ Len(A[m] \o c) >= Len(A[m]) + 1
          /\ ReadNext(R[t], argv, types) =
               [next |-> Len(A[m] \o c) + 1, got |-> Entries(arguments, Append(T[m], key))]
      <4> HIDE DEF t
      <4>1. Continues(R[t], arguments, argv, E, T[m], A[m], key)
        BY <1>5, <2>2, <2>4, <3>3, <3>4 DEF Continues, S, W
      <4> QED
        <5>1. \A k : \A a, r : Continues(r, arguments, argv, E, T[m], a, k) =>
                /\ Len(a \o CLIArgument(k, arguments[k])) >= Len(a) + 1
                /\ ReadNext(r, argv, types) =
                     [next |-> Len(a \o CLIArgument(k, arguments[k])) + 1,
                      got |-> Entries(arguments, Append(T[m], k))]
          BY ReadsArgument
        <5> QED
          BY <4>1, <5>1
    <3> HIDE DEF c
    <3>6. t \in Nat /\ Len(T[m + 1]) = t + 1 /\ Len(A[m]) \in Nat
      BY <2>2, <3>2
    <3>7. Len(A[m + 1]) \in Nat /\ Len(A[m + 1]) <= Len(argv) /\ Len(argv) \in Nat
      BY <1>2, <1>5, <2>1, <2>2 DEF Begins
    <3> HIDE DEF t
    <3>8. t + 1 \in 1..Len(argv) /\ (t + 1) - 1 = t /\ t + 1 <= Len(A[m + 1])
      BY <3>1, <3>3, <3>5, <3>6, <3>7
    <3>9. R[t + 1] = ReadNext(R[t], argv, types)
      BY <1>6, <3>8
    <3> QED
      BY <3>1, <3>2, <3>5, <3>6, <3>8, <3>9
  <2> QED
    BY <2>3, <2>4
<1>11. \A m \in Nat : m \in G
  <2> HIDE DEF G
  <2> QED
    BY <1>9, <1>10, AllNaturals
<1> DEFINE t == Len(T[n])
           len == Len(argv)
           end == R[t]
           K == {k \in Nat : t + k <= len => R[t + k] = end}
<1>12. Has(n)
  BY <1>1, <1>11
<1>13. /\ t \in Nat /\ len \in Nat /\ t <= len
       /\ end = [next |-> len + 1, got |-> Entries(arguments, T[n])]
  BY <1>1, <1>3, <1>4, <1>5, <1>12
<1>14. end \in X /\ end.next > len
  BY <1>6, <1>13
<1>15. ReadNext(end, argv, types) = end
  BY <1>5, <1>14, ReadsOn DEF X
<1> HIDE DEF t, len, end
<1>16. 0 \in K
  BY <1>13 DEF end
<1>17. ASSUME NEW k \in Nat, k \in K PROVE k + 1 \in K
  <2> SUFFICES ASSUME t + (k + 1) <= len PROVE R[t + (k + 1)] = end
    OBVIOUS
  <2>1. t + (k + 1) \in 1..len /\ (t + (k + 1)) - 1 = t + k /\ R[t + k] = end
    BY <1>13, <1>17
  <2>2. R[t + (k + 1)] = ReadNext(R[t + k], argv, types)
    BY <1>6, <2>1 DEF len
  <2> QED
    BY <1>15, <2>1, <2>2
<1>18. \A k \in Nat : k \in K
  <2> HIDE DEF K
  <2> QED
    BY <1>16, <1>17, AllNaturals
<1>19. len - t \in Nat /\ t + (len - t) = len
  BY <1>13
<1>20. R[len] = end
  <2>1. len - t \in K
    BY <1>18, <1>19
  <2>2. t + (len - t) <= len
    BY <1>13, <1>19
  <2>3. R[t + (len - t)] = end
    BY <2>1, <2>2
  <2> QED
    BY <1>19, <2>3
<1>21. Reading(argv, types) = Entries(arguments, T[n])
  BY <1>13, <1>20 DEF Reading, R, len
<1> QED
  BY <1>21 DEF argv, T, n, S, Only

\* Arguments that fit the declarations of a tool are suitable for its script.
LEMMA FittingIsSuitable ==
  ASSUME NEW declared \in Seq(Specs), NEW arguments, Fits(arguments, declared),
         \A key \in DOMAIN arguments :
           arguments[key].type = "boolean" => arguments[key].text \in {"true", "false"}
  PROVE  Suitable(arguments, [key \in Declared(declared) |->
                            declared[LastDeclared(declared, key)].type])
<1> DEFINE last(key) == LastDeclared(declared, key)
           types == [key \in Declared(declared) |-> declared[last(key)].type]
<1>1. Len(declared) \in Nat /\ DOMAIN declared = 1..Len(declared)
  OBVIOUS
<1>2. ASSUME NEW key \in Declared(declared)
      PROVE  last(key) \in DOMAIN declared /\ declared[last(key)].name = key
  <2> DEFINE I == {i \in DOMAIN declared : declared[i].name = key}
  <2>1. I # {} /\ I \in SUBSET (0..Len(declared))
    BY <1>1 DEF Declared
  <2>2. last(key) = Max(I)
    BY DEF LastDeclared
  <2> HIDE DEF I
  <2>3. Max(I) \in I
    BY <1>1, <2>1, GreatestIndex
  <2> QED
    BY <2>2, <2>3 DEF I
<1>3. \A spec \in Specs : spec.name \in ParamNames /\ spec.type \in paramTypes
  BY DEF Specs, parseParamAnnotation, ValidAnnotation
<1>4. \A i \in DOMAIN declared : declared[i] \in Specs
  OBVIOUS
<1>5. /\ DOMAIN arguments \subseteq Declared(declared)
      /\ \A key \in DOMAIN arguments : arguments[key].type = declared[last(key)].type
  BY DEF Fits
<1> HIDE DEF last
<1>6. DOMAIN types = Declared(declared)
  OBVIOUS
<1>7. \A key \in Declared(declared) :
        types[key] = declared[last(key)].type /\ types[key] \in paramTypes /\ key \in ParamNames
  BY <1>2, <1>3, <1>4
<1> HIDE DEF types
<1>8. Suitable(arguments, types)
  BY <1>5, <1>6, <1>7 DEF Suitable
<1> QED
  BY <1>8 DEF types, last

\* The booleans of a call are true or false, and a script has been started with
\* the command line of arguments that fit.
ArgvInv ==
    /\ \A key \in DOMAIN args : args[key].type = "boolean" => args[key].text \in {"true", "false"}
    /\ launch.path # None =>
         /\ stage = "exited" /\ Named # {}
         /\ launch.argv = argumentsToCLIArgs(args) /\ Fits(args, theTool.params)

\* The arguments are parsed before a script is started, and nothing follows that.
LEMMA ArgvKept ==
  ASSUME StageInv, ArgvInv, [DiagNext]_diagVars
  PROVE  ArgvInv'
<1> USE DEF GoOn, Exit, surroundings, discovery, call, ending
<1> DEFINE Booleans(a) ==
             \A key \in DOMAIN a : a[key].type = "boolean" => a[key].text \in {"true", "false"}
<1>1. CASE UNCHANGED diagVars \/ Exited
  <2>1. /\ request' = request /\ tools' = tools /\ stage' = stage /\ args' = args /\ launch' = launch
    BY <1>1 DEF Exited, diagVars
  <2>2. Named' = Named /\ theTool' = theTool
    BY <2>1, SameCall
  <2>3. Fits(args, theTool.params)' <=> Fits(args, theTool.params)
    BY <2>1, <2>2
  <2>4. argumentsToCLIArgs(args)' = argumentsToCLIArgs(args)
    BY <2>1
  <2> QED
    BY <2>1, <2>2, <2>3, <2>4 DEF ArgvInv
<1>2. CASE Discovery \/ Lookup \/ Validate \/ StartFails \/ ListTools
  <2>1. args' = args /\ launch' = launch /\ stage # "exited"
    BY <1>2 DEF Discovery, Start, ReadDir, SkipEntry, OpenEntry, Scan, Register, Discovered,
                Lookup, Validate, StartFails, ListTools, ShowList, DirectoryChanges, Rescan, WatchEnds
  <2>2. launch'.path = None
    BY <2>1 DEF StageInv
  <2> QED
    BY <2>1, <2>2 DEF ArgvInv
<1>3. ASSUME NEW raw \in RawArguments, ParseArguments(raw) PROVE ArgvInv'
  <2>1. launch'.path = None
    BY <1>3 DEF ParseArguments, StageInv
  <2>2. args' = args \/ (~ Refused(raw) /\ args' = parseToolArguments(raw))
    BY <1>3, Zenon DEF ParseArguments
  <2>3. CASE args' = args
    BY <2>1, <2>3 DEF ArgvInv
  <2>4. CASE args' = NoArguments
    <3>1. DOMAIN args' = {}
      BY <2>4 DEF NoArguments
    <3> QED
      BY <2>1, <3>1 DEF ArgvInv
  <2>5. CASE raw.kind = "object" /\ args' = raw.args
    <3>1. Booleans(raw.args)
      BY <2>5, ArgumentsAssumption
    <3>2. Booleans(args')
      BY <2>5, <3>1
    <3> QED
      BY <2>1, <3>2 DEF ArgvInv
  <2> QED
    BY <2>2, <2>3, <2>4, <2>5 DEF Refused, parseToolArguments
<1>4. ASSUME NEW outcome, Runs(outcome) PROVE ArgvInv'
  <2>1. /\ request' = request /\ tools' = tools /\ args' = args /\ stage' = "exited"
        /\ launch'.argv = argumentsToCLIArgs(args)
        /\ Named # {} /\ Fits(args, theTool.params)
    BY <1>4 DEF Runs, StageInv
  <2>2. Named' = Named /\ theTool' = theTool
    BY <2>1, SameCall
  <2>3. Fits(args, theTool.params)' <=> Fits(args, theTool.params)
    BY <2>1, <2>2
  <2>4. argumentsToCLIArgs(args)' = argumentsToCLIArgs(args)
    BY <2>1
  <2> QED
    BY <2>1, <2>2, <2>3, <2>4 DEF ArgvInv
<1> QED
  BY <1>1, <1>2, <1>3, <1>4 DEF DiagNext, CallTool

\* A script that is started reads exactly the arguments of the call.
LEMMA ArgvIsRead ==
  ASSUME DiagType, ArgvInv
  PROVE  ArgvIsFaithful
<1> SUFFICES ASSUME launch.path # None PROVE ArgvIsFaithful
  BY DEF ArgvIsFaithful
<1> DEFINE declared == theTool.params
           types == [key \in Declared(declared) |-> declared[LastDeclared(declared, key)].type]
           sent == Only(Alphabetical, {key \in DOMAIN args : ~ Unsaid(args[key])})
<1>1. declared \in Seq(Specs) /\ Fits(args, declared) /\ launch.argv = argumentsToCLIArgs(args)
  BY NamedTool DEF ArgvInv
<1>2. Suitable(args, types)
  BY <1>1, FittingIsSuitable DEF ArgvInv
<1> HIDE DEF declared, types
<1>3. Reading(argumentsToCLIArgs(args), types) = Entries(args, sent)
  BY <1>2, ReadsWhatIsSent DEF Sent
<1>4. Reading(launch.argv, types) =
        [i \in DOMAIN sent |-> [key |-> sent[i], text |-> args[sent[i]].text]]
  BY <1>1, <1>3 DEF Entries
<1> QED
  BY <1>4 DEF ArgvIsFaithful, declared, types

-----------------------------------------------------------------------------
(* The invariant of the process, and the theorems. *)

\* The invariant holds when the process starts.
LEMMA DiagBegins ==
  ASSUME DiagInit
  PROVE  DiagInv
<1>1. ScanInv
  <2>1. <<>> \in Seq(Lines)
    OBVIOUS
  <2> QED
    BY <2>1, ScanBegins DEF DiagInit, Idle
<1>2. DiagType
  <2>1. <<>> \in Seq(ToSet(FileNames)) /\ <<>> \in Seq(Tools) /\ DOMAIN <<>> = {}
    OBVIOUS
  <2> QED
    BY <2>1, FilesAssumption DEF DiagInit, DiagType
<1>3. StageInv
  BY DEF DiagInit, StageInv
<1>4. ExitTellsOutcome
  BY DEF DiagInit, ExitTellsOutcome
<1>5. FoundInv
  BY DEF DiagInit, FoundInv
<1> QED
  BY <1>1, <1>2, <1>3, <1>4, <1>5 DEF DiagInv

\* Every state of a process of diagnostic.go is typed, has what its stage
\* stands for behind it, and knows of an unchanged directory exactly what the
\* entries it has looked at say.
THEOREM DiagInvariant == DiagSpec => []DiagInv
<1>1. ASSUME DiagInv, [DiagNext]_diagVars PROVE DiagInv'
  <2>1. DiagType /\ StageInv /\ ScanInv /\ ExitTellsOutcome /\ FoundInv
    BY <1>1 DEF DiagInv
  <2>2. DiagType' /\ ScanInv'
    BY <1>1, <2>1, DiagTypeKept, ScanInvKept
  <2>3. StageInv' /\ ExitTellsOutcome'
    BY <1>1, <2>1, StageKept
  <2>4. FoundInv'
    BY <1>1, <2>1, FoundKept
  <2> QED
    BY <2>2, <2>3, <2>4 DEF DiagInv
<1> QED
  BY <1>1, DiagBegins, PTL DEF DiagSpec

\* For every script and every number of scanned lines, the first description
\* and the first timeout of extractFrontmatter's window decide.
THEOREM FirstOccurrenceDecides == DiagSpec => []FirstOccurrenceWins
<1>1. DiagInv => FirstOccurrenceWins
  BY FirstsDecide DEF DiagInv
<1> QED
  BY <1>1, DiagInvariant, PTL

\* For every script, what buildInputSchema publishes is exactly the declared
\* names, each with its last declaration, in the order of the first ones.
THEOREM LastDeclarationDecides == DiagSpec => []LastDeclarationWins
<1>1. DiagInv => LastDeclarationWins
  BY LastsDecide DEF DiagInv
<1> QED
  BY <1>1, DiagInvariant, PTL

\* For every script, the lines that are warned about are exactly the annotations
\* that are wrong, the first timeout if it is invalid and the first line that is
\* too long; every other annotation that was looked at is a parameter.
THEOREM RefusalsWarn == DiagSpec => []RefusedIsWarned
<1>1. DiagInv => RefusedIsWarned
  BY RefusalsAreWarned DEF DiagInv
<1> QED
  BY <1>1, DiagInvariant, PTL

\* For every request, directory and argument, the exit status and the streams
\* tell whether the script ran, and it runs only with arguments that fit.
THEOREM ExitsTell == DiagSpec => []ExitTellsOutcome
<1>1. DiagInv => ExitTellsOutcome
  BY DEF DiagInv
<1> QED
  BY <1>1, DiagInvariant, PTL

\* For every directory and every history of changes, a live list that owes no
\* rescan shows the first file of every name, in the order of the directory.
THEOREM FirstFilesWin == DiagSpec => []FirstFileWins
<1>1. DiagInv => FirstFileWins
  <2> SUFFICES ASSUME DiagInv, stage = "watching", ~ pending, readable
               PROVE  /\ {printed[i].path : i \in DOMAIN printed}
                           = {name \in ToSet(FileNames) : Winner(name)}
                      /\ \A i, j \in DOMAIN printed : i < j =>
                           Before(printed[i].path, printed[j].path)
                      /\ shadowed = {name \in ToSet(FileNames) : IsToolFile(name) /\ ~ Winner(name)}
    BY DEF FirstFileWins
  <2>1. Found /\ printed = tools /\ entries = <<>>
    BY DEF DiagInv, FoundInv
  <2>2. ToSet(entries) = {}
    BY <2>1 DEF ToSet
  <2>3. \A name : name \in Visited <=> name \in ToSet(FileNames) /\ IsToolFile(name)
    BY <2>2 DEF Visited
  <2>4. {name \in Visited : Winner(name)} = {name \in ToSet(FileNames) : Winner(name)}
    BY <2>3 DEF Winner
  <2>5. {name \in Visited : ~ Winner(name)}
          = {name \in ToSet(FileNames) : IsToolFile(name) /\ ~ Winner(name)}
    BY <2>3
  <2> QED
    BY <2>1, <2>4, <2>5 DEF Found
<1> QED
  BY <1>1, DiagInvariant, PTL

\* For every tool and every call of it, the script is started with a command
\* line from which it reads exactly the arguments of the call.
THEOREM ArgumentsArrive == DiagSpec => []ArgvIsFaithful
<1>1. DiagInit => ArgvInv
  <2>1. DOMAIN NoArguments = {}
    BY DEF NoArguments
  <2> QED
    BY <2>1 DEF DiagInit, ArgvInv
<1>2. DiagInv /\ ArgvInv /\ [DiagNext]_diagVars => ArgvInv'
  BY ArgvKept DEF DiagInv
<1>3. DiagInv /\ ArgvInv => ArgvIsFaithful
  BY ArgvIsRead DEF DiagInv
<1> QED
  BY <1>1, <1>2, <1>3, DiagInvariant, PTL DEF DiagSpec

-----------------------------------------------------------------------------
(* What the registry relies on. *)

\* A list of tools has every name once.
NamesOnce(list) == \A i, j \in DOMAIN list : list[i].name = list[j].name => i = j

\* Neither the list being made nor the one on the screen repeats a name.
Unrepeated == NamesOnce(tools) /\ (printed # None => NamesOnce(printed))

\* A tool whose name is new keeps the names apart.
LEMMA OneMoreName ==
  ASSUME NEW S, NEW list \in Seq(S), NEW tool, NamesOnce(list),
         \A i \in DOMAIN list : list[i].name # tool.name
  PROVE  NamesOnce(Append(list, tool))
<1> SUFFICES ASSUME NEW i \in DOMAIN Append(list, tool), NEW j \in DOMAIN Append(list, tool),
                    Append(list, tool)[i].name = Append(list, tool)[j].name
             PROVE  i = j
  BY DEF NamesOnce
<1>1. /\ DOMAIN Append(list, tool) = 1..(Len(list) + 1) /\ DOMAIN list = 1..Len(list)
      /\ Len(list) \in Nat
      /\ \A k \in 1..Len(list) : Append(list, tool)[k] = list[k]
      /\ Append(list, tool)[Len(list) + 1] = tool
  OBVIOUS
<1>2. CASE i \in 1..Len(list) /\ j \in 1..Len(list)
  BY <1>1, <1>2 DEF NamesOnce
<1>3. CASE i = Len(list) + 1 /\ j = Len(list) + 1
  BY <1>3
<1>4. CASE i \in 1..Len(list) /\ j = Len(list) + 1
  BY <1>1, <1>4
<1>5. CASE i = Len(list) + 1 /\ j \in 1..Len(list)
  BY <1>1, <1>5
<1> QED
  BY <1>1, <1>2, <1>3, <1>4, <1>5

\* Only Register adds a tool, and only ReadDir forgets them.
LEMMA NamesKept ==
  ASSUME DiagType, Unrepeated, [DiagNext]_diagVars
  PROVE  Unrepeated'
<1> SUFFICES NamesOnce(tools') /\ (printed' # None => NamesOnce(printed'))
  BY DEF Unrepeated, NamesOnce
<1> USE DEF GoOn, Exit, surroundings, discovery, call, ending
<1>0. NamesOnce(tools) /\ (printed # None => NamesOnce(printed)) /\ NamesOnce(<<>>)
  BY DEF Unrepeated, NamesOnce
<1>1. CASE ReadDir
  <2>1. printed' = printed /\ tools' \in {tools, <<>>}
    BY <1>1 DEF ReadDir
  <2> QED
    BY <1>0, <2>1
<1>2. CASE Register
  <2> DEFINE tool == Tool(Head(entries))
  <2>1. printed' = printed
    BY <1>2 DEF Register
  <2>2. CASE Taken(ToolName[Head(entries)])
    <3>1. tools' = tools
      BY <1>2, <2>2 DEF Register
    <3> QED
      BY <1>0, <2>1, <3>1
  <2>3. CASE ~ Taken(ToolName[Head(entries)])
    <3>1. tools' = Append(tools, tool)
      BY <1>2, <2>3 DEF Register
    <3>2. tool.name = ToolName[Head(entries)]
      BY DEF Tool
    <3>3. \A i \in DOMAIN tools : tools[i].name # tool.name
      BY <2>3, <3>2 DEF Taken
    <3>4. tools \in Seq(Tools)
      BY DEF DiagType
    <3> HIDE DEF tool
    <3>5. NamesOnce(Append(tools, tool))
      BY <1>0, <3>3, <3>4, OneMoreName
    <3> QED
      BY <1>0, <2>1, <3>1, <3>5
  <2> QED
    BY <2>2, <2>3
<1>3. CASE ShowList
  <2>1. printed' = tools /\ tools' = tools
    BY <1>3 DEF ShowList
  <2> QED
    BY <1>0, <2>1
<1>4. CASE tools' = tools /\ printed' = printed
  BY <1>0, <1>4
<1>5. CASE Start \/ SkipEntry \/ OpenEntry \/ Scan \/ Discovered
  BY <1>4, <1>5 DEF Start, SkipEntry, OpenEntry, Scan, Discovered
<1>6. CASE CallTool
  BY <1>4, <1>6 DEF CallTool, Lookup, ParseArguments, Validate, StartFails, Runs
<1>7. CASE DirectoryChanges \/ Rescan \/ WatchEnds
  BY <1>4, <1>7 DEF DirectoryChanges, Rescan, WatchEnds
<1>8. CASE Exited \/ UNCHANGED diagVars
  BY <1>4, <1>8 DEF Exited, diagVars
<1> QED
  BY <1>1, <1>2, <1>3, <1>5, <1>6, <1>7, <1>8 DEF DiagNext, Discovery, ListTools

\* No scan of discoverTools lists a name twice, however the directory changes
\* under it: the condition under which replaceLocked's sets and maps by name
\* (module ToolRegistry) stand for the lists they are made of.
THEOREM NamesAreUnique == DiagSpec => []Unrepeated
<1>1. DiagInit => Unrepeated
  BY DEF DiagInit, NamesOnce, Unrepeated
<1>2. DiagInv /\ Unrepeated /\ [DiagNext]_diagVars => Unrepeated'
  BY NamesKept DEF DiagInv
<1> QED
  BY <1>1, <1>2, DiagInvariant, PTL DEF DiagSpec
=============================================================================

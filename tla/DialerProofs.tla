---------------------------- MODULE DialerProofs ----------------------------
(***************************************************************************)
(* The bounds of Dialer, for any finite set of tasks, number of workers,   *)
(* timeout, and lists of addresses.                                        *)
(***************************************************************************)
EXTENDS Dialer, FiniteSetTheorems, SequenceTheorems, WellFoundedInduction, TLAPS

-----------------------------------------------------------------------------
(* Sums over finite sets                                                   *)

\* Induction over the naturals, for a set instead of a predicate.
LEMMA NatSetInduction ==
    ASSUME NEW T \in SUBSET Nat, 0 \in T, \A n \in T : n + 1 \in T
    PROVE  T = Nat
<1>. DEFINE R == {s \in Nat \X Nat : s[1] < s[2]}
<1>1. IsWellFoundedOn(R, Nat)
    BY NatLessThanWellFounded DEF OpToRel
<1>2. \A m, n \in Nat : m < n => <<m, n>> \in R
    OBVIOUS
<1>. HIDE DEF R
<1>. SUFFICES ASSUME Nat \ T # {} PROVE FALSE
    OBVIOUS
<1>3. PICK x \in Nat \ T : \A y \in Nat \ T : ~(<<y, x>> \in R)
    BY <1>1, WFMin
<1>4. x # 0 /\ x - 1 \in Nat /\ x - 1 < x
    BY <1>3
<1>5. x - 1 \in T
    BY <1>2, <1>3, <1>4
<1>. QED  BY <1>3, <1>5

\* The element a fold takes first.
First(s) == CHOOSE x \in s : TRUE

\* A set that is not empty has a first element.
LEMMA FirstIn == \A s : s # {} => First(s) \in s
BY DEF First

\* it is the function with which a fold adds up f over the subsets of S.
Adds(it, f, S) ==
    it = [s \in SUBSET S |-> IF s = {} THEN 0 ELSE f[First(s)] + it[s \ {First(s)}]]

SumOf(f, S) == (CHOOSE it : Adds(it, f, S))[S]

\* A set without one of its elements is smaller by one.
LEMMA Without ==
    ASSUME NEW s, NEW x, IsFiniteSet(s), x \in s
    PROVE  /\ IsFiniteSet(s \ {x}) /\ Cardinality(s) \in Nat /\ Cardinality(s) > 0
           /\ Cardinality(s \ {x}) = Cardinality(s) - 1
<1>1. Cardinality(s) \in Nat /\ IsFiniteSet(s \ {x}) /\ Cardinality(s \ {x}) = Cardinality(s) - 1
    BY FS_CardinalityType, FS_RemoveElement
<1>2. Cardinality(s) # 0
    BY FS_EmptySet
<1>. QED  BY <1>1, <1>2

\* There is such a function: the fold over a finite set is well defined.
LEMMA AddsExists ==
    ASSUME NEW f, NEW S, IsFiniteSet(S)
    PROVE  \E it : Adds(it, f, S)
<1>. DEFINE Part(it, s) == IF s = {} THEN 0 ELSE f[First(s)] + it[s \ {First(s)}]
            Upto(it, n) == \A s \in SUBSET S : Cardinality(s) <= n => it[s] = Part(it, s)
            T == {n \in Nat : \E it : it = [s \in SUBSET S |-> it[s]] /\ Upto(it, n)}
<1>1. \A s \in SUBSET S : /\ IsFiniteSet(s) /\ Cardinality(s) \in Nat
                          /\ Cardinality(s) <= Cardinality(S)
    BY FS_Subset, FS_CardinalityType
<1>2. 0 \in T
  <2>. DEFINE it == [s \in SUBSET S |-> 0]
  <2>1. ASSUME NEW s \in SUBSET S, Cardinality(s) <= 0 PROVE s = {}
    <3>1. Cardinality(s) = 0
        BY <1>1, <2>1
    <3>. QED  BY <1>1, <3>1, FS_EmptySet
  <2>2. it = [s \in SUBSET S |-> it[s]] /\ Upto(it, 0)
      BY <2>1
  <2>. QED  BY <2>2
<1>3. ASSUME NEW n \in T PROVE n + 1 \in T
  <2>1. PICK it : it = [s \in SUBSET S |-> it[s]] /\ Upto(it, n)
      BY <1>3
  <2>. DEFINE jt == [s \in SUBSET S |-> IF Cardinality(s) <= n THEN it[s] ELSE Part(it, s)]
  <2>2. ASSUME NEW s \in SUBSET S, Cardinality(s) <= n + 1 PROVE jt[s] = Part(jt, s)
    <3>0. jt[s] = Part(it, s)
        BY <2>1
    <3>1. CASE s = {}
        BY <3>0, <3>1
    <3>2. CASE s # {}
      <4>. DEFINE x == First(s)
      <4>1. x \in s
          BY <3>2, FirstIn
      <4>. HIDE DEF x
      <4>2. /\ s \ {x} \in SUBSET S /\ Cardinality(s) \in Nat /\ n \in Nat
            /\ Cardinality(s \ {x}) = Cardinality(s) - 1
          BY <1>1, <1>3, <4>1, Without
      <4>3. Cardinality(s \ {x}) <= n
          BY <2>2, <4>2
      <4>4. jt[s \ {x}] = it[s \ {x}]
          BY <4>2, <4>3
      <4>5. f[x] + jt[s \ {x}] = f[x] + it[s \ {x}]
          BY <4>4
      <4>. QED  BY <3>0, <3>2, <4>5 DEF x
    <3>. QED  BY <3>1, <3>2
  <2>3. jt = [s \in SUBSET S |-> jt[s]] /\ Upto(jt, n + 1)
      BY <2>2
  <2>. HIDE DEF jt, Upto
  <2>. QED  BY <1>3, <2>3
<1>. HIDE DEF T
<1>4. T = Nat
    BY <1>2, <1>3, NatSetInduction DEF T
<1>5. Cardinality(S) \in T
    BY <1>4, FS_CardinalityType
<1>6. PICK it : it = [s \in SUBSET S |-> it[s]] /\ Upto(it, Cardinality(S))
    BY <1>5 DEF T
<1>7. \A s \in SUBSET S : it[s] = Part(it, s)
    BY <1>1, <1>6
<1>8. it = [s \in SUBSET S |-> Part(it, s)]
    BY <1>6, <1>7
<1>9. Adds(it, f, S)
    BY <1>8 DEF Adds
<1>. QED  BY <1>9

\* Folds over sets that overlap agree where they add the same numbers.
LEMMA AddsAgree ==
    ASSUME NEW f, NEW g, NEW S, NEW U, NEW it, NEW jt, IsFiniteSet(S),
           Adds(it, f, S), Adds(jt, g, U)
    PROVE  \A s : s \subseteq S /\ s \subseteq U /\ (\A x \in s : f[x] = g[x]) => it[s] = jt[s]
<1>. DEFINE Same(s) == s \subseteq S /\ s \subseteq U /\ \A x \in s : f[x] = g[x]
            T == {n \in Nat : \A s : Same(s) /\ Cardinality(s) = n => it[s] = jt[s]}
<1>1. \A s : s \subseteq S => IsFiniteSet(s) /\ Cardinality(s) \in Nat
    BY FS_Subset, FS_CardinalityType
<1>2. \A s : s \subseteq S => it[s] = IF s = {} THEN 0 ELSE f[First(s)] + it[s \ {First(s)}]
    BY DEF Adds
<1>3. \A s : s \subseteq U => jt[s] = IF s = {} THEN 0 ELSE g[First(s)] + jt[s \ {First(s)}]
    BY DEF Adds
<1>4. 0 \in T
  <2>. SUFFICES ASSUME NEW s, Same(s), Cardinality(s) = 0 PROVE it[s] = jt[s]
      OBVIOUS
  <2>1. s = {}
      BY <1>1, FS_EmptySet
  <2>. QED  BY <1>2, <1>3, <2>1
<1>5. ASSUME NEW n \in T PROVE n + 1 \in T
  <2>. SUFFICES ASSUME NEW s, Same(s), Cardinality(s) = n + 1 PROVE it[s] = jt[s]
      BY <1>5
  <2>1. s # {} /\ n \in Nat
      BY <1>5, FS_EmptySet
  <2>. DEFINE x == First(s)
  <2>2. x \in s
      BY <2>1, FirstIn
  <2>3. it[s] = f[x] + it[s \ {x}] /\ jt[s] = g[x] + jt[s \ {x}]
      BY <1>2, <1>3, <2>1
  <2>. HIDE DEF x
  <2>4. Cardinality(s \ {x}) = n
      BY <1>1, <2>1, <2>2, Without
  <2>5. Same(s \ {x})
      OBVIOUS
  <2>6. it[s \ {x}] = jt[s \ {x}]
      BY <1>5, <2>4, <2>5
  <2>. QED  BY <2>2, <2>3, <2>6
<1>. HIDE DEF T
<1>6. T = Nat
    BY <1>4, <1>5, NatSetInduction DEF T
<1>. QED  BY <1>1, <1>6 DEF T

\* It does not matter which element is taken first.
LEMMA AddsAny ==
    ASSUME NEW f, NEW S, NEW it, IsFiniteSet(S), Adds(it, f, S), \A x \in S : f[x] \in Nat
    PROVE  \A s \in SUBSET S : it[s] \in Nat /\ \A x \in s : it[s] = f[x] + it[s \ {x}]
<1>. DEFINE Good(s) == it[s] \in Nat /\ \A x \in s : it[s] = f[x] + it[s \ {x}]
            T == {n \in Nat : \A s \in SUBSET S : Cardinality(s) <= n => Good(s)}
<1>1. \A s \in SUBSET S : IsFiniteSet(s) /\ Cardinality(s) \in Nat
    BY FS_Subset, FS_CardinalityType
<1>2. \A s \in SUBSET S : it[s] = IF s = {} THEN 0 ELSE f[First(s)] + it[s \ {First(s)}]
    BY DEF Adds
<1>3. 0 \in T
  <2>. SUFFICES ASSUME NEW s \in SUBSET S, Cardinality(s) <= 0 PROVE Good(s)
      OBVIOUS
  <2>0. Cardinality(s) = 0
      BY <1>1
  <2>1. s = {}
      BY <1>1, <2>0, FS_EmptySet
  <2>2. it[s] = 0
      BY <1>2, <2>1
  <2>. QED  BY <2>1, <2>2
<1>4. ASSUME NEW n \in T PROVE n + 1 \in T
  <2>0. ASSUME NEW s \in SUBSET S, Cardinality(s) <= n PROVE Good(s)
      BY <1>4, <2>0
  <2>. SUFFICES ASSUME NEW s \in SUBSET S, Cardinality(s) = n + 1 PROVE Good(s)
    <3>1. \A s \in SUBSET S : Cardinality(s) <= n + 1 => Cardinality(s) <= n \/ Cardinality(s) = n + 1
        BY <1>1, <1>4
    <3>. QED  BY <1>4, <2>0, <3>1
  <2>1. s # {} /\ n \in Nat
      BY <1>4, FS_EmptySet
  <2>. DEFINE p == First(s)
  <2>2. p \in s
      BY <2>1, FirstIn
  <2>3. it[s] = f[p] + it[s \ {p}]
      BY <1>2, <2>1
  <2>. HIDE DEF p
  <2>4. ASSUME NEW x \in s PROVE s \ {x} \in SUBSET S /\ Good(s \ {x})
    <3>1. s \ {x} \in SUBSET S /\ Cardinality(s \ {x}) = n
      <4>1. IsFiniteSet(s) /\ s \ {x} \in SUBSET S
          BY <1>1
      <4>2. Cardinality(s \ {x}) = Cardinality(s) - 1
          BY <4>1, Without
      <4>. QED  BY <2>1, <4>1, <4>2
    <3>2. Cardinality(s \ {x}) <= n
        BY <2>1, <3>1
    <3>. QED  BY <2>0, <3>1, <3>2
  <2>5. it[s] \in Nat
      BY <2>2, <2>3, <2>4
  <2>6. ASSUME NEW x \in s PROVE it[s] = f[x] + it[s \ {x}]
    <3>1. CASE x = p
        BY <2>3, <3>1
    <3>2. CASE x # p
      <4>. DEFINE w == (s \ {p}) \ {x}
      <4>1. x \in s \ {p} /\ p \in s \ {x} /\ (s \ {x}) \ {p} = w
          BY <2>2, <3>2
      <4>2. it[s \ {p}] = f[x] + it[w]
          BY <2>2, <2>4, <4>1
      <4>3. it[s \ {x}] = f[p] + it[w]
        <5>1. it[s \ {x}] = f[p] + it[(s \ {x}) \ {p}]
            BY <2>4, <4>1
        <5>. QED  BY <4>1, <5>1
      <4>4. it[w] \in Nat
        <5>1. s \ {p} \in SUBSET S /\ Cardinality(s \ {p}) = n /\ IsFiniteSet(s \ {p})
            BY <1>1, <2>1, <2>2, Without
        <5>2. w \in SUBSET S /\ Cardinality(w) = n - 1 /\ n > 0
            BY <4>1, <5>1, Without
        <5>. HIDE DEF w
        <5>3. Cardinality(w) <= n
            BY <2>1, <5>2
        <5>. QED  BY <2>0, <5>2, <5>3
      <4>. HIDE DEF w
      <4>5. f[x] \in Nat /\ f[p] \in Nat
          BY <2>2
      <4>. QED  BY <2>3, <4>2, <4>3, <4>4, <4>5
    <3>. QED  BY <3>1, <3>2
  <2>. QED  BY <2>5, <2>6
<1>. HIDE DEF T
<1>5. T = Nat
    BY <1>3, <1>4, NatSetInduction DEF T
<1>. QED  BY <1>1, <1>5 DEF T

\* The sum over a finite set, with any of its elements taken first.
LEMMA SumFacts ==
    ASSUME NEW f, NEW S, IsFiniteSet(S), \A x \in S : f[x] \in Nat
    PROVE  /\ SumOf(f, S) \in Nat
           /\ S = {} => SumOf(f, S) = 0
           /\ \A x \in S : SumOf(f, S) = f[x] + SumOf(f, S \ {x})
<1>. DEFINE it == CHOOSE it : Adds(it, f, S)
<1>1. Adds(it, f, S)
    BY AddsExists
<1>. HIDE DEF it
<1>2. it[S] \in Nat /\ \A x \in S : it[S] = f[x] + it[S \ {x}]
    BY <1>1, AddsAny
<1>3. S = {} => it[S] = 0
    BY <1>1 DEF Adds
<1>4. ASSUME NEW x \in S PROVE SumOf(f, S \ {x}) = it[S \ {x}]
  <2>. DEFINE R == S \ {x}
              jt == CHOOSE jt : Adds(jt, f, R)
  <2>1. IsFiniteSet(R)
      BY FS_RemoveElement
  <2>2. Adds(jt, f, R)
      BY <2>1, AddsExists
  <2>. HIDE DEF jt
  <2>3. R \subseteq S
      OBVIOUS
  <2>. HIDE DEF R
  <2>4. it[R] = jt[R]
      BY <1>1, <2>2, <2>3, AddsAgree
  <2>. QED  BY <2>4 DEF SumOf, R, jt
<1>5. SumOf(f, S) = it[S]
    BY DEF SumOf, it
<1>. QED  BY <1>2, <1>3, <1>4, <1>5

\* Sums of the same numbers are equal.
LEMMA SumSame ==
    ASSUME NEW f, NEW g, NEW S, NEW it, IsFiniteSet(S), \A x \in S : f[x] = g[x], Adds(it, g, S)
    PROVE  SumOf(f, S) = it[S]
<1>. DEFINE jt == CHOOSE jt : Adds(jt, f, S)
<1>1. Adds(jt, f, S)
    BY AddsExists
<1>. HIDE DEF jt
<1>2. jt[S] = it[S]
    BY <1>1, AddsAgree
<1>. QED  BY <1>2 DEF SumOf, jt

\* Where g is less than f on every element of R, so is its sum, by the size of R.
LEMMA SumLess ==
    ASSUME NEW f, NEW g, NEW S, NEW R, IsFiniteSet(S), R \subseteq S,
           \A x \in S : f[x] \in Nat /\ g[x] \in Nat /\ g[x] <= f[x],
           \A x \in R : g[x] + 1 <= f[x]
    PROVE  SumOf(g, S) + Cardinality(R) <= SumOf(f, S)
<1>. DEFINE T == {n \in Nat : \A s \in SUBSET S : Cardinality(s) = n =>
                        SumOf(g, s) + Cardinality(R \cap s) <= SumOf(f, s)}
<1>1. \A s \in SUBSET S : /\ IsFiniteSet(s) /\ Cardinality(s) \in Nat
                          /\ IsFiniteSet(R \cap s) /\ Cardinality(R \cap s) \in Nat
    BY FS_Subset, FS_CardinalityType, FS_Intersection
<1>2. ASSUME NEW s \in SUBSET S
      PROVE  /\ SumOf(f, s) \in Nat /\ SumOf(g, s) \in Nat
             /\ s = {} => SumOf(f, s) = 0 /\ SumOf(g, s) = 0
             /\ \A x \in s : /\ SumOf(f, s) = f[x] + SumOf(f, s \ {x})
                             /\ SumOf(g, s) = g[x] + SumOf(g, s \ {x})
  <2>1. IsFiniteSet(s) /\ (\A x \in s : f[x] \in Nat) /\ (\A x \in s : g[x] \in Nat)
      BY <1>1
  <2>. QED  BY <2>1, SumFacts
<1>3. 0 \in T
  <2>. SUFFICES ASSUME NEW s \in SUBSET S, Cardinality(s) = 0
                PROVE  SumOf(g, s) + Cardinality(R \cap s) <= SumOf(f, s)
      OBVIOUS
  <2>1. s = {}
      BY <1>1, FS_EmptySet
  <2>2. Cardinality(R \cap s) = 0
      BY <2>1, FS_EmptySet
  <2>3. SumOf(f, s) = 0 /\ SumOf(g, s) = 0
      BY <1>2, <2>1
  <2>. QED  BY <2>2, <2>3
<1>4. ASSUME NEW n \in T PROVE n + 1 \in T
  <2>. SUFFICES ASSUME NEW s \in SUBSET S, Cardinality(s) = n + 1
                PROVE  SumOf(g, s) + Cardinality(R \cap s) <= SumOf(f, s)
      BY <1>4
  <2>1. s # {} /\ n \in Nat
      BY <1>4, FS_EmptySet
  <2>2. PICK x \in s : TRUE
      BY <2>1
  <2>. DEFINE w == s \ {x}
  <2>3. w \in SUBSET S /\ Cardinality(w) = n
    <3>1. IsFiniteSet(s) /\ w \in SUBSET S
        BY <1>1
    <3>2. Cardinality(w) = Cardinality(s) - 1
        BY <2>2, <3>1, Without
    <3>. QED  BY <2>1, <3>1, <3>2
  <2>4. /\ SumOf(f, s) = f[x] + SumOf(f, w) /\ SumOf(g, s) = g[x] + SumOf(g, w)
        /\ f[x] \in Nat /\ g[x] \in Nat /\ g[x] <= f[x] /\ (x \in R => g[x] + 1 <= f[x])
      BY <1>2, <2>2
  <2>5. SumOf(g, w) + Cardinality(R \cap w) <= SumOf(f, w)
      BY <1>4, <2>3
  <2>6. SumOf(f, w) \in Nat /\ SumOf(g, w) \in Nat /\ Cardinality(R \cap w) \in Nat
      BY <1>1, <1>2, <2>3
  <2>7. CASE x \in R
    <3>1. R \cap w = (R \cap s) \ {x} /\ x \in R \cap s /\ IsFiniteSet(R \cap s)
        BY <1>1, <2>2, <2>7
    <3>2. Cardinality(R \cap w) = Cardinality(R \cap s) - 1 /\ Cardinality(R \cap s) \in Nat
        BY <3>1, Without
    <3>. HIDE DEF w
    <3>. QED  BY <2>4, <2>5, <2>6, <2>7, <3>2
  <2>8. CASE x \notin R
    <3>1. R \cap w = R \cap s
        BY <2>8
    <3>. HIDE DEF w
    <3>2. SumOf(g, w) + Cardinality(R \cap s) <= SumOf(f, w) /\ Cardinality(R \cap s) \in Nat
        BY <2>5, <2>6, <3>1
    <3>. QED  BY <2>4, <2>6, <3>2
  <2>. QED  BY <2>7, <2>8
<1>. HIDE DEF T
<1>5. T = Nat
    BY <1>3, <1>4, NatSetInduction DEF T
<1>6. S \in SUBSET S /\ R \cap S = R /\ Cardinality(S) \in T
    BY <1>1, <1>5
<1>7. SumOf(g, S) + Cardinality(R \cap S) <= SumOf(f, S)
    BY <1>6 DEF T
<1>. QED  BY <1>6, <1>7

-----------------------------------------------------------------------------
(* Arithmetic                                                              *)

\* Shares of W workers: a ticks that o ticks and s blocked worker ticks account for.
Covers(W, a, o, s) == W * a <= W * o + s

\* Fewer ticks are covered, and more ticks or more blocked worker ticks cover.
LEMMA CoversMore ==
    ASSUME NEW W \in Nat, NEW a \in Nat, NEW o \in Nat, NEW s \in Nat, NEW b \in Nat,
           NEW p \in Nat, NEW q \in Nat, Covers(W, a, o, s), o <= p, s <= q
    PROVE  b <= a => Covers(W, b, p, q)
<1>1. W * o <= W * p /\ W * a \in Nat /\ W * o \in Nat /\ W * p \in Nat
    OBVIOUS
<1>2. b <= a => W * b <= W * a /\ W * b \in Nat
    OBVIOUS
<1>. QED  BY <1>1, <1>2 DEF Covers

\* A tick more, and a tick more to account for it, or W blocked workers.
LEMMA CoversTick ==
    ASSUME NEW W \in Nat, NEW a \in Nat, NEW o \in Nat, NEW s \in Nat,
           NEW p \in Nat, NEW q \in Nat, Covers(W, a, o, s),
           (p = o + 1 /\ s <= q) \/ (o <= p /\ s + W <= q)
    PROVE  Covers(W, a + 1, p, q)
<1>1. W * (a + 1) = W * a + W /\ W * (o + 1) = W * o + W /\ W * a \in Nat /\ W * o \in Nat
    OBVIOUS
<1>2. o <= p => W * o <= W * p /\ W * p \in Nat
    OBVIOUS
<1>. QED  BY <1>1, <1>2 DEF Covers

\* Ticks added on both sides.
LEMMA CoversShift ==
    ASSUME NEW W \in Nat, NEW a \in Nat, NEW o \in Nat, NEW s \in Nat, NEW c \in Nat,
           Covers(W, a, o, s)
    PROVE  Covers(W, a + c, o + c, s)
<1>1. W * (a + c) = W * a + W * c /\ W * (o + c) = W * o + W * c
    OBVIOUS
<1>2. W * a \in Nat /\ W * o \in Nat /\ W * c \in Nat
    OBVIOUS
<1>. QED  BY <1>1, <1>2 DEF Covers

\* What all of s covers at most.
LEMMA CoversAtMost ==
    ASSUME NEW W \in Nat \ {0}, NEW a \in Nat, NEW o \in Nat, NEW s \in Nat, Covers(W, a, o, s)
    PROVE  a <= o + (s \div W)
<1>. DEFINE d == s \div W
<1>1. d \in Nat /\ s < W * d + W
    OBVIOUS
<1>. HIDE DEF d
<1>2. W * (o + d + 1) = W * o + W * d + W /\ W * o \in Nat /\ W * d \in Nat /\ W * a \in Nat
    BY <1>1
<1>3. W * a < W * (o + d + 1)
    BY <1>1, <1>2 DEF Covers
<1>4. ASSUME a >= o + d + 1 PROVE FALSE
  <2>1. W * a >= W * (o + d + 1)
      BY <1>1, <1>4
  <2>. QED  BY <1>1, <1>2, <1>3, <2>1
<1>5. a <= o + d
    BY <1>1, <1>4
<1>. QED  BY <1>5 DEF d
-----------------------------------------------------------------------------
(* The sums of the model                                                   *)

Resolves == [u \in Tasks |-> plan[u].resolve]

Waits(addrs) == [i \in 1..Len(addrs) |-> addrs[i].delay]

\* The fold in Blocked is the sum of the resolving times of the others.
LEMMA BlockedIsSum ==
    ASSUME NEW t \in Tasks
    PROVE  Blocked(t) = SumOf(Resolves, Tasks \ {t}) \div Workers
<1>. DEFINE S == Tasks \ {t}
            P(it) == it = [s \in SUBSET S |->
                              IF s = {} THEN 0
                              ELSE plan[CHOOSE x \in s : TRUE].resolve
                                     + it[s \ {CHOOSE x \in s : TRUE}]]
            jt == CHOOSE it : P(it)
<1>1. MapThenSumSet(LAMBDA u : plan[u].resolve, S) = jt[S]
    BY DEF MapThenSumSet, MapThenFoldSet
<1>2. IsFiniteSet(S)
    BY TasksAssumption, FS_RemoveElement, FS_Subset
<1>3. ASSUME NEW it PROVE P(it) <=> Adds(it, Resolves, S)
  <2>1. ASSUME NEW s \in SUBSET S
        PROVE  (IF s = {} THEN 0 ELSE plan[First(s)].resolve + it[s \ {First(s)}])
                 = (IF s = {} THEN 0 ELSE Resolves[First(s)] + it[s \ {First(s)}])
    <3>1. s # {} => First(s) \in Tasks
        BY FirstIn
    <3>. QED  BY <3>1 DEF Resolves
  <2>. DEFINE A == [s \in SUBSET S |-> IF s = {} THEN 0 ELSE plan[First(s)].resolve + it[s \ {First(s)}]]
              B == [s \in SUBSET S |-> IF s = {} THEN 0 ELSE Resolves[First(s)] + it[s \ {First(s)}]]
  <2>2. A = B
      BY <2>1
  <2>3. P(it) <=> it = A
      BY DEF First
  <2>. QED  BY <2>2, <2>3 DEF Adds
<1>. HIDE DEF P, S
<1>4. P(jt)
  <2>1. PICK it : Adds(it, Resolves, S)
      BY <1>2, AddsExists
  <2>2. P(it)
      BY <1>3, <2>1
  <2>. QED  BY <2>2
<1>. HIDE DEF jt
<1>5. Adds(jt, Resolves, S)
    BY <1>3, <1>4
<1>6. SumOf(Resolves, S) = jt[S]
    BY <1>2, <1>5, SumSame
<1>. QED  BY <1>1, <1>6 DEF Blocked, S

\* The delays of the first n addresses.
LEMMA DelaysIsSum ==
    ASSUME NEW addrs, NEW n \in Nat, n <= Len(addrs), Len(addrs) \in Nat
    PROVE  Delays(addrs, n) = SumOf(Waits(addrs), 1..n)
<1>. DEFINE S == 1..n
            P(it) == it = [s \in SUBSET S |->
                              IF s = {} THEN 0
                              ELSE addrs[CHOOSE x \in s : TRUE].delay
                                     + it[s \ {CHOOSE x \in s : TRUE}]]
            jt == CHOOSE it : P(it)
<1>1. MapThenSumSet(LAMBDA i : addrs[i].delay, S) = jt[S]
    BY DEF MapThenSumSet, MapThenFoldSet
<1>2. IsFiniteSet(S) /\ S \subseteq 1..Len(addrs)
    BY FS_Interval
<1>3. ASSUME NEW it PROVE P(it) <=> Adds(it, Waits(addrs), S)
  <2>1. ASSUME NEW s \in SUBSET S
        PROVE  (IF s = {} THEN 0 ELSE addrs[First(s)].delay + it[s \ {First(s)}])
                 = (IF s = {} THEN 0 ELSE Waits(addrs)[First(s)] + it[s \ {First(s)}])
    <3>1. s # {} => First(s) \in 1..Len(addrs)
        BY <1>2, FirstIn
    <3>. QED  BY <3>1 DEF Waits
  <2>. DEFINE A == [s \in SUBSET S |-> IF s = {} THEN 0 ELSE addrs[First(s)].delay + it[s \ {First(s)}]]
              B == [s \in SUBSET S |-> IF s = {} THEN 0 ELSE Waits(addrs)[First(s)] + it[s \ {First(s)}]]
  <2>2. A = B
      BY <2>1
  <2>3. P(it) <=> it = A
      BY DEF First
  <2>. QED  BY <2>2, <2>3 DEF Adds
<1>. HIDE DEF P, S
<1>4. P(jt)
  <2>1. PICK it : Adds(it, Waits(addrs), S)
      BY <1>2, AddsExists
  <2>2. P(it)
      BY <1>3, <2>1
  <2>. QED  BY <2>2
<1>. HIDE DEF jt
<1>5. Adds(jt, Waits(addrs), S)
    BY <1>3, <1>4
<1>6. SumOf(Waits(addrs), S) = jt[S]
    BY <1>2, <1>5, SumSame
<1>. QED  BY <1>1, <1>6 DEF Delays, S

\* The next address adds its delay.
LEMMA DelaysNext ==
    ASSUME NEW addrs, addrs \in Seq(Dialable)
    PROVE  /\ Delays(addrs, 0) = 0
           /\ \A n \in 0..Len(addrs) : Delays(addrs, n) \in Nat
           /\ \A n \in 1..Len(addrs) : Delays(addrs, n) = Delays(addrs, n - 1) + addrs[n].delay
<1>. DEFINE w == Waits(addrs)
<1>1. Len(addrs) \in Nat /\ \A i \in 1..Len(addrs) : addrs[i] \in Dialable
    BY LenProperties, ElementOfSeq
<1>2. \A i \in 1..Len(addrs) : w[i] = addrs[i].delay /\ w[i] \in Nat
    BY <1>1 DEF Waits, Dialable
<1>. HIDE DEF w
<1>3. ASSUME NEW n \in 0..Len(addrs)
      PROVE  /\ Delays(addrs, n) = SumOf(w, 1..n) /\ SumOf(w, 1..n) \in Nat
             /\ n = 0 => SumOf(w, 1..n) = 0
             /\ \A x \in 1..n : SumOf(w, 1..n) = w[x] + SumOf(w, (1..n) \ {x})
  <2>1. n \in Nat /\ n <= Len(addrs)
      BY <1>1
  <2>2. Delays(addrs, n) = SumOf(w, 1..n)
      BY <1>1, <2>1, DelaysIsSum DEF w
  <2>3. IsFiniteSet(1..n) /\ (\A x \in 1..n : w[x] \in Nat) /\ (n = 0 => 1..n = {})
    <3>1. \A x \in 1..n : x \in 1..Len(addrs)
        BY <1>1, <2>1
    <3>2. \A x \in 1..n : w[x] \in Nat
        BY <1>2, <3>1
    <3>3. n = 0 => 1..n = {}
        BY <2>1
    <3>4. IsFiniteSet(1..n)
        BY <2>1, FS_Interval
    <3>. QED  BY <3>2, <3>3, <3>4
  <2>. DEFINE I == 1..n
  <2>. HIDE DEF I
  <2>4. /\ SumOf(w, I) \in Nat /\ (I = {} => SumOf(w, I) = 0)
        /\ \A x \in I : SumOf(w, I) = w[x] + SumOf(w, I \ {x})
    <3>1. IsFiniteSet(I) /\ \A x \in I : w[x] \in Nat
        BY <2>3 DEF I
    <3>. QED  BY <3>1, SumFacts
  <2>. QED  BY <2>2, <2>3, <2>4 DEF I
<1>4. ASSUME NEW n \in 1..Len(addrs) PROVE Delays(addrs, n) = Delays(addrs, n - 1) + addrs[n].delay
  <2>1. n \in 0..Len(addrs) /\ n - 1 \in 0..Len(addrs) /\ n \in 1..n
      BY <1>1
  <2>2. (1..n) \ {n} = 1..(n - 1)
      BY <1>1
  <2>3. SumOf(w, 1..n) = w[n] + SumOf(w, (1..n) \ {n})
      BY <1>3, <2>1
  <2>4. SumOf(w, 1..n) = w[n] + SumOf(w, 1..(n - 1))
      BY <2>2, <2>3
  <2>5. SumOf(w, 1..(n - 1)) \in Nat /\ Delays(addrs, n - 1) = SumOf(w, 1..(n - 1))
      BY <1>3, <2>1
  <2>6. Delays(addrs, n) = SumOf(w, 1..n)
      BY <1>3, <2>1
  <2>. QED  BY <1>2, <2>4, <2>5, <2>6
<1>5. 0 \in 0..Len(addrs)
    BY <1>1
<1>. QED  BY <1>3, <1>4, <1>5

\* More addresses do not answer sooner.
LEMMA DelaysMonotone ==
    ASSUME NEW addrs, addrs \in Seq(Dialable), NEW m \in 0..Len(addrs), NEW n \in 0..Len(addrs), m <= n
    PROVE  Delays(addrs, m) <= Delays(addrs, n)
<1>. DEFINE T == {k \in Nat : m + k <= Len(addrs) => Delays(addrs, m) <= Delays(addrs, m + k)}
<1>1. Len(addrs) \in Nat /\ \A i \in 1..Len(addrs) : addrs[i].delay \in Nat
  <2>1. Len(addrs) \in Nat /\ \A i \in 1..Len(addrs) : addrs[i] \in Dialable
      BY LenProperties, ElementOfSeq
  <2>. QED  BY <2>1 DEF Dialable
<1>2. 0 \in T
  <2>1. m + 0 = m /\ Delays(addrs, m) \in Nat
      BY <1>1, DelaysNext
  <2>. QED  BY <2>1
<1>3. ASSUME NEW k \in T PROVE k + 1 \in T
  <2>. SUFFICES ASSUME m + (k + 1) <= Len(addrs)
                PROVE  Delays(addrs, m) <= Delays(addrs, m + (k + 1))
      OBVIOUS
  <2>. DEFINE j == m + (k + 1)
  <2>1. /\ j \in 1..Len(addrs) /\ j - 1 = m + k /\ j - 1 \in 0..Len(addrs) /\ m + k <= Len(addrs)
        /\ j \in 0..Len(addrs)
      BY <1>1
  <2>2. Delays(addrs, m) <= Delays(addrs, j - 1)
      BY <2>1
  <2>. HIDE DEF j
  <2>3. Delays(addrs, j) = Delays(addrs, j - 1) + addrs[j].delay
      BY <2>1, DelaysNext
  <2>4. /\ Delays(addrs, j) \in Nat /\ Delays(addrs, j - 1) \in Nat /\ Delays(addrs, m) \in Nat
        /\ addrs[j].delay \in Nat
      BY <1>1, <2>1, DelaysNext
  <2>5. Delays(addrs, m) <= Delays(addrs, j)
      BY <2>2, <2>3, <2>4
  <2>. QED  BY <2>5 DEF j
<1>. HIDE DEF T
<1>4. T = Nat
    BY <1>2, <1>3, NatSetInduction DEF T
<1>5. n - m \in Nat /\ m + (n - m) = n /\ n <= Len(addrs)
    BY <1>1
<1>6. m + (n - m) <= Len(addrs) => Delays(addrs, m) <= Delays(addrs, m + (n - m))
    BY <1>4, <1>5 DEF T
<1>. QED  BY <1>5, <1>6

-----------------------------------------------------------------------------
(* The configured addresses                                                *)

\* What Parsable keeps are addresses.
LEMMA ParsableDialable ==
    ASSUME NEW config, config \in Seq(Entry)
    PROVE  Parsable(config) \in Seq(Dialable)
<1>. DEFINE Put(x, n) == IF config[n].kind = "invalid" THEN x ELSE Append(x, config[n])
            P(f, k) == f = [n \in 0..k |-> IF n = 0 THEN <<>> ELSE Put(f[n - 1], n)]
            T == {k \in Nat : \E f : P(f, k)}
<1>0. Len(config) \in Nat /\ \A n \in 1..Len(config) : config[n] \in Entry
    BY LenProperties, ElementOfSeq
<1>1. Parsable(config) = (CHOOSE f : P(f, Len(config)))[Len(config)]
    BY DEF Parsable
<1>2. ASSUME NEW x, x \in Seq(Dialable), NEW n \in 1..Len(config)
      PROVE  Put(x, n) \in Seq(Dialable)
  <2>1. config[n] \in Entry
      BY <1>0
  <2>2. config[n].kind # "invalid" => config[n] \in Dialable
      BY <2>1 DEF Entry, Dialable
  <2>. QED  BY <1>2, <2>2, AppendProperties
<1>. HIDE DEF Put
<1>3. 0 \in T
  <2>. DEFINE f == [n \in 0..0 |-> <<>>]
  <2>1. P(f, 0)
      OBVIOUS
  <2>. QED  BY <2>1
<1>4. ASSUME NEW k \in T PROVE k + 1 \in T
  <2>1. PICK f : P(f, k)
      OBVIOUS
  <2>. DEFINE g == [n \in 0..(k + 1) |-> IF n = k + 1 THEN Put(f[k], k + 1) ELSE f[n]]
  <2>2. \A n \in 0..k : g[n] = f[n]
      BY <1>4
  <2>3. \A n \in 0..k : f[n] = IF n = 0 THEN <<>> ELSE Put(f[n - 1], n)
      BY <2>1
  <2>4. ASSUME NEW n \in 0..(k + 1) PROVE g[n] = IF n = 0 THEN <<>> ELSE Put(g[n - 1], n)
    <3>1. CASE n = k + 1
      <4>1. n # 0 /\ n - 1 = k /\ k \in 0..k
          BY <1>4, <3>1
      <4>2. g[n] = Put(f[k], n)
          BY <3>1
      <4>3. g[n - 1] = f[k]
          BY <2>2, <4>1
      <4>. QED  BY <4>1, <4>2, <4>3
    <3>2. CASE n # k + 1
      <4>1. n \in 0..k /\ (n # 0 => n - 1 \in 0..k)
          BY <1>4, <3>2
      <4>2. n # 0 => g[n - 1] = f[n - 1]
          BY <2>2, <4>1
      <4>. QED  BY <2>2, <2>3, <4>1, <4>2
    <3>. QED  BY <3>1, <3>2
  <2>5. P(g, k + 1)
      BY <2>4
  <2>. HIDE DEF g, P
  <2>. QED  BY <1>4, <2>5
<1>. HIDE DEF P
<1>5. T = Nat
    BY <1>3, <1>4, NatSetInduction
<1>6. PICK f : P(f, Len(config)) /\ f = CHOOSE g : P(g, Len(config))
    BY <1>0, <1>5
<1>7. \A n \in 0..Len(config) : f[n] = IF n = 0 THEN <<>> ELSE Put(f[n - 1], n)
    BY <1>6 DEF P
<1>. DEFINE U == {n \in Nat : n <= Len(config) => f[n] \in Seq(Dialable)}
<1>8. 0 \in U
  <2>1. 0 \in 0..Len(config)
      BY <1>0
  <2>2. f[0] = <<>>
      BY <1>7, <2>1
  <2>. QED  BY <2>2, EmptySeq
<1>9. ASSUME NEW n \in U PROVE n + 1 \in U
  <2>. SUFFICES ASSUME n + 1 <= Len(config) PROVE f[n + 1] \in Seq(Dialable)
      OBVIOUS
  <2>1. n + 1 \in 0..Len(config) /\ n + 1 \in 1..Len(config) /\ n + 1 # 0 /\ (n + 1) - 1 = n /\ n <= Len(config)
      BY <1>0
  <2>2. f[n + 1] = Put(f[n], n + 1)
      BY <1>7, <2>1
  <2>. QED  BY <1>2, <2>1, <2>2
<1>. HIDE DEF U
<1>10. U = Nat
    BY <1>8, <1>9, NatSetInduction DEF U
<1>11. Len(config) <= Len(config)
    BY <1>0
<1>12. f[Len(config)] \in Seq(Dialable)
    BY <1>0, <1>10, <1>11 DEF U
<1>. QED  BY <1>1, <1>6, <1>12

-----------------------------------------------------------------------------
(* The inductive invariant                                                 *)

Plans == plan \in [Tasks -> [resolve : Nat, addrs : Seq(Dialable)]] /\ attempt \in [Tasks -> Nat]

Bounds == \A t \in Tasks : pc[t] = "resolving" => left[t] <= plan[t].resolve

\* The part of its resolving that a task has done: it held a worker that long.
Spends == [u \in Tasks |->
              CASE pc[u] \in {"idle", "ready"} -> 0
                [] pc[u] = "resolving"         -> plan[u].resolve - left[u]
                [] OTHER                       -> plan[u].resolve]

Spent(t) == SumOf(Spends, Tasks \ {t})

\* The ticks that t itself accounts for.
Own(t) == CASE pc[t] \in {"idle", "ready", "resolving"} -> Spends[t]
            [] pc[t] = "connecting" -> plan[t].resolve + (Timeout - remain[t])
            [] OTHER                -> plan[t].resolve + Timeout

\* Every tick of a dial is its own, or one in which others blocked every worker.
Clock == \A t \in Tasks : Covers(Workers, age[t], Own(t), Spent(t))

\* So is every tick of a connect: a connect is late only by what others blocked.
Progress ==
    \A t \in Tasks : pc[t] = "connecting" =>
        /\ \A i \in 1..(attempt[t] - 1) : plan[t].addrs[i].kind # "accept"
        /\ Covers(Workers, (Timeout - remain[t]) + left[t],
                  Delays(plan[t].addrs, attempt[t]), Spent(t))

Typed == TypeOK /\ Plans /\ Bounds

IInv == Typed /\ Clock /\ Progress /\ ReachesFirstLive

\* What a task dials is a list of addresses and a time.
LEMMA PlanFacts ==
    ASSUME Plans, NEW t \in Tasks
    PROVE  /\ plan[t].resolve \in Nat /\ plan[t].addrs \in Seq(Dialable)
           /\ Len(plan[t].addrs) \in Nat /\ DOMAIN plan[t].addrs = 1..Len(plan[t].addrs)
           /\ plan[t].addrs # <<>> => 1 \in 1..Len(plan[t].addrs)
           /\ \A i \in 1..Len(plan[t].addrs) :
                 plan[t].addrs[i].kind \in {"accept", "refuse"} /\ plan[t].addrs[i].delay \in Nat
<1>1. plan[t].resolve \in Nat /\ plan[t].addrs \in Seq(Dialable)
    BY DEF Plans
<1>. DEFINE a == plan[t].addrs
<1>. HIDE DEF a
<1>2. a \in Seq(Dialable)
    BY <1>1 DEF a
<1>3. Len(a) \in Nat /\ DOMAIN a = 1..Len(a)
    BY <1>2, LenProperties
<1>4. a # <<>> => Len(a) # 0
    BY <1>2, EmptySeq
<1>5. \A i \in 1..Len(a) : a[i].kind \in {"accept", "refuse"} /\ a[i].delay \in Nat
  <2>1. \A i \in 1..Len(a) : a[i] \in Dialable
      BY <1>2, ElementOfSeq
  <2>. QED  BY <2>1 DEF Dialable
<1>6. a # <<>> => 1 \in 1..Len(a)
    BY <1>3, <1>4
<1>. QED  BY <1>1, <1>3, <1>5, <1>6 DEF a

\* The initial states are well formed: the configured entries are filtered, the destinations as resolved.
LEMMA InitTyped == Init => Typed
<1>. SUFFICES ASSUME Init PROVE Typed
    OBVIOUS
<1>1. plan \in [Tasks -> [resolve : Nat, addrs : Seq(Dialable)]]
  <2>1. CASE side = "agent"
    <3>1. PICK config \in AgentConfigs :
              plan = [t \in Tasks |-> [resolve |-> 0, addrs |-> Parsable(config)]]
        BY <2>1 DEF Init
    <3>2. Parsable(config) \in Seq(Dialable)
        BY ConfigsAssumption, ParsableDialable
    <3>. QED  BY <3>1, <3>2
  <2>2. CASE side = "proxy"
    <3>1. plan \in [Tasks -> Destinations]
        BY <2>2 DEF Init
    <3>. QED  BY <3>1, DestinationsAssumption
  <2>. QED  BY <2>1, <2>2 DEF Init
<1>2. TypeOK
    BY DialerAssumption DEF Init, TypeOK, Done
<1>. QED  BY <1>1, <1>2 DEF Init, Typed, Plans, Bounds

-----------------------------------------------------------------------------
(* The step of one task                                                    *)

\* Nothing of another task changes, and no time passes.
OnlyOf(t) ==
    /\ side' = side /\ plan' = plan /\ age' = age
    /\ \A u \in Tasks \ {t} : /\ pc'[u] = pc[u] /\ attempt'[u] = attempt[u]
                              /\ left'[u] = left[u] /\ remain'[u] = remain[u]

Becomes(t, p, a, l, r) ==
    /\ pc' = [pc EXCEPT ![t] = p] /\ attempt' = [attempt EXCEPT ![t] = a]
    /\ left' = [left EXCEPT ![t] = l] /\ remain' = [remain EXCEPT ![t] = r]

Begins(t) ==
    \/ pc[t] = "idle" /\ Becomes(t, "ready", attempt[t], left[t], remain[t])
    \/ pc[t] = "ready" /\ Becomes(t, "resolving", attempt[t], plan[t].resolve, remain[t])
    \/ /\ pc[t] = "ready" \/ (pc[t] = "resolving" /\ left[t] = 0)
       /\ plan[t].addrs # <<>>
       /\ Becomes(t, "connecting", 1, plan[t].addrs[1].delay, Timeout)

GoesOn(t) ==
    /\ pc[t] = "connecting" /\ left[t] = 0
    /\ AddressOf(t).kind # "accept" /\ attempt[t] # Len(plan[t].addrs)
    /\ Becomes(t, "connecting", attempt[t] + 1, plan[t].addrs[attempt[t] + 1].delay, remain[t])

Ends(t) ==
    \E p \in Done :
        /\ Becomes(t, p, attempt[t], 0, 0)
        /\ \/ pc[t] = "ready" /\ p = "panicked"
           \/ pc[t] = "resolving" /\ p = "unresolved" /\ plan[t].addrs = <<>>
           \/ pc[t] = "connecting" /\ p \in {"connected", "unusable"}
           \/ /\ pc[t] = "connecting" /\ p = "refused"
              /\ AddressOf(t).kind # "accept" /\ attempt[t] = Len(plan[t].addrs)
           \/ pc[t] = "connecting" /\ p = "timeout" /\ remain[t] = 0 /\ left[t] > 0

\* What the actions of a task do, in three kinds.
LEMMA TaskStep ==
    ASSUME Typed, NEW t \in Tasks, Arrive(t) \/ Step(t)
    PROVE  OnlyOf(t) /\ (Begins(t) \/ GoesOn(t) \/ Ends(t))
<1>0. /\ pc = [u \in Tasks |-> pc[u]] /\ attempt = [u \in Tasks |-> attempt[u]]
      /\ left = [u \in Tasks |-> left[u]] /\ remain = [u \in Tasks |-> remain[u]]
    BY DEF Typed, TypeOK, Plans
<1>1. \A f : f = [u \in Tasks |-> f[u]] => f = [f EXCEPT ![t] = f[t]]
    OBVIOUS
<1>2. /\ attempt = [attempt EXCEPT ![t] = attempt[t]] /\ left = [left EXCEPT ![t] = left[t]]
      /\ remain = [remain EXCEPT ![t] = remain[t]] /\ pc = [pc EXCEPT ![t] = pc[t]]
    BY <1>0, <1>1
<1>3. ASSUME NEW p, NEW a, NEW l, NEW r, Becomes(t, p, a, l, r),
             side' = side, plan' = plan, age' = age
      PROVE  OnlyOf(t)
    BY <1>0, <1>3 DEF Becomes, OnlyOf
<1>4. ASSUME NEW p \in Done, Finish(t, p)
      PROVE  Becomes(t, p, attempt[t], 0, 0) /\ OnlyOf(t)
  <2>1. Becomes(t, p, attempt[t], 0, 0)
      BY <1>2, <1>4 DEF Finish, Becomes
  <2>. QED  BY <1>3, <1>4, <2>1 DEF Finish
<1>5. ASSUME StartConnect(t), plan[t].addrs # <<>>, pc[t] = "ready" \/ (pc[t] = "resolving" /\ left[t] = 0)
      PROVE  Begins(t) /\ OnlyOf(t)
  <2>1. Becomes(t, "connecting", 1, plan[t].addrs[1].delay, Timeout)
      BY <1>5 DEF StartConnect, Becomes
  <2>. QED  BY <1>3, <1>5, <2>1 DEF StartConnect, Begins
<1>6. CASE Arrive(t)
  <2>1. Becomes(t, "ready", attempt[t], left[t], remain[t])
      BY <1>2, <1>6 DEF Arrive, Becomes
  <2>. QED  BY <1>3, <1>6, <2>1 DEF Arrive, Begins
<1>7. CASE CreateConnection(t)
  <2>1. CASE plan[t].addrs = <<>>
    <3>1. Finish(t, "panicked") /\ pc[t] = "ready" /\ "panicked" \in Done
        BY <1>7, <2>1 DEF CreateConnection, Done
    <3>2. Becomes(t, "panicked", attempt[t], 0, 0) /\ OnlyOf(t)
        BY <1>4, <3>1
    <3>. QED  BY <3>1, <3>2 DEF Ends
  <2>2. CASE plan[t].addrs # <<>>
      BY <1>5, <1>7, <2>2 DEF CreateConnection
  <2>. QED  BY <2>1, <2>2
<1>8. CASE Resolve(t)
  <2>1. Becomes(t, "resolving", attempt[t], plan[t].resolve, remain[t])
      BY <1>2, <1>8 DEF Resolve, Becomes
  <2>. QED  BY <1>3, <1>8, <2>1 DEF Resolve, Begins
<1>9. CASE Resolved(t)
  <2>1. CASE plan[t].addrs = <<>>
    <3>1. Finish(t, "unresolved") /\ pc[t] = "resolving" /\ "unresolved" \in Done
        BY <1>9, <2>1 DEF Resolved, Done
    <3>2. Becomes(t, "unresolved", attempt[t], 0, 0) /\ OnlyOf(t)
        BY <1>4, <3>1
    <3>. QED  BY <2>1, <3>1, <3>2 DEF Ends
  <2>2. CASE plan[t].addrs # <<>>
      BY <1>5, <1>9, <2>2 DEF Resolved
  <2>. QED  BY <2>1, <2>2
<1>10. CASE Answer(t)
  <2>0. pc[t] = "connecting" /\ left[t] = 0 /\ {"connected", "unusable"} \subseteq Done
        /\ "refused" \in Done
      BY <1>10 DEF Answer, Done
  <2>1. CASE AddressOf(t).kind = "accept"
    <3>1. PICK outcome \in {"connected", "unusable"} : Finish(t, outcome)
        BY <1>10, <2>1 DEF Answer
    <3>2. Becomes(t, outcome, attempt[t], 0, 0) /\ OnlyOf(t)
        BY <1>4, <2>0, <3>1
    <3>. QED  BY <2>0, <3>2 DEF Ends
  <2>2. CASE AddressOf(t).kind # "accept" /\ attempt[t] = Len(plan[t].addrs)
    <3>1. Finish(t, "refused")
        BY <1>10, <2>2 DEF Answer
    <3>2. Becomes(t, "refused", attempt[t], 0, 0) /\ OnlyOf(t)
        BY <1>4, <2>0, <3>1
    <3>. QED  BY <2>0, <2>2, <3>2 DEF Ends
  <2>3. CASE AddressOf(t).kind # "accept" /\ attempt[t] # Len(plan[t].addrs)
    <3>1. /\ attempt' = [attempt EXCEPT ![t] = attempt[t] + 1]
          /\ left' = [left EXCEPT ![t] = plan[t].addrs[attempt'[t]].delay]
          /\ side' = side /\ plan' = plan /\ pc' = pc /\ remain' = remain /\ age' = age
        BY <1>10, <2>3 DEF Answer
    <3>2. attempt'[t] = attempt[t] + 1
        BY <1>0, <3>1
    <3>3. pc' = [pc EXCEPT ![t] = "connecting"] /\ remain' = [remain EXCEPT ![t] = remain[t]]
        BY <1>2, <2>0, <3>1
    <3>4. left' = [left EXCEPT ![t] = plan[t].addrs[attempt[t] + 1].delay]
        BY <3>1, <3>2
    <3>5. Becomes(t, "connecting", attempt[t] + 1, plan[t].addrs[attempt[t] + 1].delay, remain[t])
        BY <3>1, <3>3, <3>4 DEF Becomes
    <3>. QED  BY <1>3, <2>0, <2>3, <3>1, <3>5 DEF GoesOn
  <2>. QED  BY <2>1, <2>2, <2>3
<1>11. CASE Elapsed(t)
  <2>1. /\ Finish(t, "timeout") /\ pc[t] = "connecting" /\ remain[t] = 0 /\ left[t] > 0
        /\ "timeout" \in Done
      BY <1>11 DEF Elapsed, Done
  <2>2. Becomes(t, "timeout", attempt[t], 0, 0) /\ OnlyOf(t)
      BY <1>4, <2>1
  <2>. QED  BY <2>1, <2>2 DEF Ends
<1>. QED  BY <1>6, <1>7, <1>8, <1>9, <1>10, <1>11 DEF Step

PCs == {"idle", "ready", "resolving", "connecting"} \cup Done

Shape(t) ==
    /\ pc[t] \in {"connecting", "connected", "unusable", "timeout"} => attempt[t] \in 1..Len(plan[t].addrs)
    /\ pc[t] = "resolving" => left[t] <= plan[t].resolve

\* Typed, task by task.
LEMMA TypedIs ==
    ASSUME Plans
    PROVE  Typed <=> /\ side \in {"agent", "proxy"} /\ pc \in [Tasks -> PCs]
                     /\ left \in [Tasks -> Nat] /\ remain \in [Tasks -> 0..Timeout]
                     /\ age \in [Tasks -> Nat] /\ \A t \in Tasks : Shape(t)
<1>. DEFINE Tried(t) == pc[t] \in {"connecting", "connected", "unusable", "timeout"} =>
                          /\ attempt[t] \in DOMAIN plan[t].addrs
                          /\ plan[t].addrs[attempt[t]].kind # "invalid"
<1>1. ASSUME NEW t \in Tasks
      PROVE  Shape(t) <=> Tried(t) /\ (pc[t] = "resolving" => left[t] <= plan[t].resolve)
    BY PlanFacts DEF Shape
<1>2. TypeOK <=> /\ side \in {"agent", "proxy"} /\ pc \in [Tasks -> PCs]
                 /\ left \in [Tasks -> Nat] /\ remain \in [Tasks -> 0..Timeout]
                 /\ age \in [Tasks -> Nat] /\ \A t \in Tasks : Tried(t)
    BY DEF TypeOK, PCs
<1>. HIDE DEF Tried
<1>. QED  BY <1>1, <1>2 DEF Typed, Bounds

\* Typed after a step, task by task.
LEMMA TypedNext ==
    ASSUME Plans, plan' = plan, attempt' \in [Tasks -> Nat],
           side' \in {"agent", "proxy"}, pc' \in [Tasks -> PCs],
           left' \in [Tasks -> Nat], remain' \in [Tasks -> 0..Timeout],
           age' \in [Tasks -> Nat], \A t \in Tasks : Shape(t)'
    PROVE  Typed'
<1>1. ASSUME NEW t \in Tasks
      PROVE  /\ pc'[t] \in {"connecting", "connected", "unusable", "timeout"} =>
                  /\ attempt'[t] \in DOMAIN plan'[t].addrs
                  /\ plan'[t].addrs[attempt'[t]].kind # "invalid"
             /\ pc'[t] = "resolving" => left'[t] <= plan'[t].resolve
  <2>1. Shape(t)'
      OBVIOUS
  <2>. QED  BY <2>1, PlanFacts DEF Shape
<1>2. TypeOK'
    BY <1>1 DEF TypeOK, PCs, Done
<1>3. Plans'
    BY DEF Plans
<1>4. Bounds'
    BY <1>1 DEF Bounds
<1>. QED  BY <1>2, <1>3, <1>4 DEF Typed

\* The step of a task keeps the state well formed.
LEMMA TypedTask ==
    ASSUME Typed, NEW t \in Tasks, OnlyOf(t), Begins(t) \/ GoesOn(t) \/ Ends(t)
    PROVE  Typed'
<1>0. Plans
    BY DEF Typed
<1>1. /\ side \in {"agent", "proxy"} /\ pc \in [Tasks -> PCs]
      /\ left \in [Tasks -> Nat] /\ remain \in [Tasks -> 0..Timeout]
      /\ age \in [Tasks -> Nat] /\ (\A u \in Tasks : Shape(u)) /\ attempt \in [Tasks -> Nat]
    BY <1>0, TypedIs DEF Plans
<1>2. /\ plan[t].resolve \in Nat /\ Len(plan[t].addrs) \in Nat
      /\ plan[t].addrs # <<>> => 1 \in 1..Len(plan[t].addrs)
      /\ \A i \in 1..Len(plan[t].addrs) : plan[t].addrs[i].delay \in Nat
    BY <1>0, PlanFacts
<1>3. Timeout \in Nat
    BY DialerAssumption
<1>4. PICK p, a, l, r :
        /\ Becomes(t, p, a, l, r) /\ p \in PCs /\ a \in Nat /\ l \in Nat /\ r \in 0..Timeout
        /\ p \in {"connecting", "connected", "unusable", "timeout"} => a \in 1..Len(plan[t].addrs)
        /\ p = "resolving" => l <= plan[t].resolve
  <2>0. /\ attempt[t] \in Nat /\ left[t] \in Nat /\ remain[t] \in 0..Timeout
        /\ pc[t] = "connecting" => attempt[t] \in 1..Len(plan[t].addrs)
        /\ {"ready", "resolving", "connecting"} \subseteq PCs /\ Done \subseteq PCs
        /\ 0 \in 0..Timeout /\ Timeout \in 0..Timeout
      BY <1>1, <1>3 DEF Shape, PCs
  <2>1. CASE Begins(t)
    <3>1. CASE Becomes(t, "ready", attempt[t], left[t], remain[t])
        BY <2>0, <3>1
    <3>2. CASE Becomes(t, "resolving", attempt[t], plan[t].resolve, remain[t])
        BY <1>2, <2>0, <3>2
    <3>3. CASE plan[t].addrs # <<>> /\ Becomes(t, "connecting", 1, plan[t].addrs[1].delay, Timeout)
      <4>1. 1 \in 1..Len(plan[t].addrs) /\ plan[t].addrs[1].delay \in Nat
          BY <1>2, <3>3
      <4>. QED  BY <2>0, <3>3, <4>1
    <3>. QED  BY <2>1, <3>1, <3>2, <3>3 DEF Begins
  <2>2. CASE GoesOn(t)
    <3>1. attempt[t] + 1 \in 1..Len(plan[t].addrs)
        BY <1>2, <2>0, <2>2 DEF GoesOn
    <3>2. plan[t].addrs[attempt[t] + 1].delay \in Nat /\ attempt[t] + 1 \in Nat
        BY <1>2, <2>0, <3>1
    <3>. QED  BY <2>0, <2>2, <3>1, <3>2 DEF GoesOn
  <2>3. CASE Ends(t)
    <3>1. PICK p \in Done :
            /\ Becomes(t, p, attempt[t], 0, 0)
            /\ p \in {"connecting", "connected", "unusable", "timeout"} => pc[t] = "connecting"
        BY <2>3 DEF Ends, Done
    <3>2. p # "resolving" /\ p \in PCs
        BY DEF PCs, Done
    <3>. QED  BY <2>0, <3>1, <3>2
  <2>. QED  BY <2>1, <2>2, <2>3
<1>5. /\ pc' \in [Tasks -> PCs] /\ attempt' \in [Tasks -> Nat]
      /\ left' \in [Tasks -> Nat] /\ remain' \in [Tasks -> 0..Timeout]
      /\ pc'[t] = p /\ attempt'[t] = a /\ left'[t] = l
    BY <1>1, <1>4 DEF Becomes
<1>6. side' = side /\ age' = age /\ plan' = plan
    BY DEF OnlyOf
<1>7. ASSUME NEW u \in Tasks PROVE Shape(u)'
  <2>1. CASE u = t
      BY <1>4, <1>5, <1>6, <2>1 DEF Shape
  <2>2. CASE u # t
    <3>1. pc'[u] = pc[u] /\ attempt'[u] = attempt[u] /\ left'[u] = left[u]
        BY <2>2 DEF OnlyOf
    <3>2. Shape(u)
        BY <1>1
    <3>. QED  BY <1>6, <3>1, <3>2 DEF Shape
  <2>. QED  BY <2>1, <2>2
<1>. QED  BY <1>0, <1>1, <1>5, <1>6, <1>7, TypedNext

\* So does a tick.
LEMMA TypedTick ==
    ASSUME Typed, Tick
    PROVE  Typed'
<1>0. Plans
    BY DEF Typed
<1>1. /\ side \in {"agent", "proxy"} /\ pc \in [Tasks -> PCs]
      /\ left \in [Tasks -> Nat] /\ remain \in [Tasks -> 0..Timeout]
      /\ age \in [Tasks -> Nat] /\ (\A u \in Tasks : Shape(u)) /\ attempt \in [Tasks -> Nat]
    BY <1>0, TypedIs DEF Plans
<1>2. side' = side /\ plan' = plan /\ pc' = pc /\ attempt' = attempt
    BY DEF Tick
<1>3. ASSUME NEW t \in Tasks
      PROVE  /\ left'[t] \in Nat /\ left'[t] <= left[t] /\ remain'[t] \in 0..Timeout
             /\ age'[t] \in Nat
  <2>1. left[t] \in Nat /\ remain[t] \in 0..Timeout /\ age[t] \in Nat /\ Timeout \in Nat
      BY <1>1, DialerAssumption
  <2>2. left'[t] = Minus1(left[t]) /\ remain'[t] = Minus1(remain[t]) /\ age'[t] \in {age[t], age[t] + 1}
      BY DEF Tick
  <2>. QED  BY <2>1, <2>2 DEF Minus1
<1>4. left' \in [Tasks -> Nat] /\ remain' \in [Tasks -> 0..Timeout] /\ age' \in [Tasks -> Nat]
  <2>1. /\ left' = [t \in Tasks |-> left'[t]] /\ remain' = [t \in Tasks |-> remain'[t]]
        /\ age' = [t \in Tasks |-> age'[t]]
      BY DEF Tick
  <2>. QED  BY <1>3, <2>1
<1>5. ASSUME NEW t \in Tasks PROVE Shape(t)'
  <2>1. Shape(t) /\ left[t] \in Nat /\ plan[t].resolve \in Nat
      BY <1>0, <1>1, PlanFacts
  <2>. QED  BY <1>2, <1>3, <2>1 DEF Shape
<1>. QED  BY <1>0, <1>1, <1>2, <1>4, <1>5, TypedNext

-----------------------------------------------------------------------------
(* What the tasks account for                                              *)

\* A task has done at most all of its resolving.
LEMMA SpendsFacts ==
    ASSUME Typed, NEW t \in Tasks
    PROVE  Spends[t] \in Nat /\ Spends[t] <= plan[t].resolve /\ Own(t) \in Nat
<1>0. Plans
    BY DEF Typed
<1>1. /\ plan[t].resolve \in Nat /\ left[t] \in Nat /\ remain[t] \in 0..Timeout /\ Timeout \in Nat
      /\ pc[t] \in PCs /\ (pc[t] = "resolving" => left[t] <= plan[t].resolve)
    BY <1>0, TypedIs, PlanFacts, DialerAssumption DEF Shape
<1>2. Spends[t] \in Nat /\ Spends[t] <= plan[t].resolve
    BY <1>1 DEF Spends
<1>3. Timeout - remain[t] \in Nat
    BY <1>1
<1>. QED  BY <1>1, <1>2, <1>3 DEF Own

\* All that the others can spend.
LEMMA SpentFacts ==
    ASSUME Typed, NEW t \in Tasks
    PROVE  /\ Spent(t) \in Nat /\ SumOf(Resolves, Tasks \ {t}) \in Nat
           /\ Spent(t) <= SumOf(Resolves, Tasks \ {t})
<1>. DEFINE S == Tasks \ {t}
<1>1. IsFiniteSet(S) /\ {} \subseteq S /\ Cardinality({}) = 0
    BY TasksAssumption, FS_RemoveElement, FS_EmptySet
<1>2. ASSUME NEW u \in S PROVE Spends[u] \in Nat /\ Resolves[u] \in Nat /\ Spends[u] <= Resolves[u]
    BY SpendsFacts, PlanFacts DEF Resolves, Typed
<1>. HIDE DEF S
<1>3. (\A u \in S : Spends[u] \in Nat) /\ (\A u \in S : Resolves[u] \in Nat)
    BY <1>2
<1>4. SumOf(Spends, S) \in Nat /\ SumOf(Resolves, S) \in Nat
    BY <1>1, <1>3, SumFacts
<1>5. SumOf(Spends, S) + Cardinality({}) <= SumOf(Resolves, S)
    BY <1>1, <1>2, SumLess
<1>6. SumOf(Spends, S) <= SumOf(Resolves, S)
    BY <1>1, <1>4, <1>5
<1>. QED  BY <1>4, <1>6 DEF Spent, S

\* The others spend more where each of R does.
LEMMA SpentStep ==
    ASSUME Typed, NEW t \in Tasks, NEW R, R \subseteq Tasks \ {t},
           \A u \in Tasks : Spends'[u] \in Nat /\ Spends[u] <= Spends'[u],
           \A u \in R : Spends[u] + 1 <= Spends'[u]
    PROVE  Spent(t)' \in Nat /\ Spent(t) + Cardinality(R) <= Spent(t)'
<1>. DEFINE S == Tasks \ {t}
            g == Spends'
<1>1. IsFiniteSet(S)
    BY TasksAssumption, FS_RemoveElement
<1>2. Spent(t)' = SumOf(g, S)
    BY DEF Spent, SumOf, Adds
<1>3. \A u \in S : g[u] \in Nat /\ Spends[u] \in Nat /\ Spends[u] <= g[u]
    BY SpendsFacts
<1>4. R \subseteq S /\ \A u \in R : Spends[u] + 1 <= g[u]
    OBVIOUS
<1>. HIDE DEF S, g
<1>5. SumOf(g, S) \in Nat
    BY <1>1, <1>3, SumFacts
<1>6. SumOf(Spends, S) + Cardinality(R) <= SumOf(g, S)
    BY <1>1, <1>3, <1>4, SumLess
<1>. QED  BY <1>2, <1>5, <1>6 DEF Spent, S

\* The step of a task takes nothing back.
LEMMA TaskSpends ==
    ASSUME Typed, NEW t \in Tasks, OnlyOf(t), Begins(t) \/ GoesOn(t) \/ Ends(t), NEW u \in Tasks
    PROVE  /\ Spends'[u] \in Nat /\ Spends[u] <= Spends'[u]
           /\ Own(u)' \in Nat /\ Own(u) <= Own(u)'
<1>0. Plans /\ plan' = plan
    BY DEF Typed, OnlyOf
<1>1. Spends[u] \in Nat /\ Spends[u] <= plan[u].resolve /\ Own(u) \in Nat
    BY SpendsFacts
<1>2. /\ plan[u].resolve \in Nat /\ left[u] \in Nat /\ remain[u] \in 0..Timeout /\ Timeout \in Nat
      /\ pc[u] \in PCs /\ (pc[u] = "resolving" => left[u] <= plan[u].resolve)
      /\ Timeout - remain[u] \in Nat /\ Timeout - remain[u] <= Timeout
    BY <1>0, TypedIs, PlanFacts, DialerAssumption DEF Shape
<1>3. CASE u # t
  <2>1. pc'[u] = pc[u] /\ left'[u] = left[u] /\ remain'[u] = remain[u]
      BY <1>3 DEF OnlyOf
  <2>2. Spends'[u] = Spends[u]
      BY <1>0, <2>1 DEF Spends
  <2>3. Own(u)' = Own(u)
      BY <1>0, <2>1, <2>2 DEF Own
  <2>. QED  BY <1>1, <2>2, <2>3
<1>4. CASE u = t
  <2>0. /\ pc \in [Tasks -> PCs] /\ left \in [Tasks -> Nat] /\ remain \in [Tasks -> 0..Timeout]
      BY <1>0, TypedIs
  <2>1. ASSUME NEW p, NEW a, NEW l, NEW r, Becomes(u, p, a, l, r)
        PROVE  pc'[u] = p /\ left'[u] = l /\ remain'[u] = r
      BY <2>0, <2>1 DEF Becomes
  <2>2. CASE pc[u] = "idle" /\ Becomes(u, "ready", attempt[u], left[u], remain[u])
    <3>1. pc'[u] = "ready"
        BY <2>1, <2>2
    <3>2. Spends'[u] = 0 /\ Spends[u] = 0
        BY <2>2, <3>1 DEF Spends
    <3>3. Own(u)' = 0 /\ Own(u) = 0
        BY <2>2, <3>1, <3>2 DEF Own
    <3>. QED  BY <3>2, <3>3
  <2>3. CASE pc[u] = "ready" /\ Becomes(u, "resolving", attempt[u], plan[u].resolve, remain[u])
    <3>1. pc'[u] = "resolving" /\ left'[u] = plan[u].resolve
        BY <2>1, <2>3
    <3>2. Spends'[u] = 0 /\ Spends[u] = 0
        BY <1>0, <1>2, <2>3, <3>1 DEF Spends
    <3>3. Own(u)' = 0 /\ Own(u) = 0
        BY <2>3, <3>1, <3>2 DEF Own
    <3>. QED  BY <3>2, <3>3
  <2>4. CASE /\ pc[u] \in {"ready", "resolving"}
             /\ Becomes(u, "connecting", 1, plan[u].addrs[1].delay, Timeout)
    <3>1. pc'[u] = "connecting" /\ remain'[u] = Timeout
        BY <2>1, <2>4
    <3>2. Spends'[u] = plan[u].resolve
        BY <1>0, <3>1 DEF Spends
    <3>3. Own(u)' = plan[u].resolve
        BY <1>0, <1>2, <3>1 DEF Own
    <3>4. Own(u) = Spends[u]
        BY <2>4 DEF Own
    <3>. QED  BY <1>1, <1>2, <3>2, <3>3, <3>4
  <2>5. CASE /\ pc[u] = "connecting"
             /\ Becomes(u, "connecting", attempt[u] + 1, plan[u].addrs[attempt[u] + 1].delay, remain[u])
    <3>1. pc'[u] = "connecting" /\ remain'[u] = remain[u]
        BY <2>1, <2>5
    <3>2. Spends'[u] = plan[u].resolve
        BY <1>0, <3>1 DEF Spends
    <3>3. Own(u)' = Own(u)
        BY <1>0, <2>5, <3>1 DEF Own
    <3>. QED  BY <1>1, <1>2, <3>2, <3>3
  <2>6. ASSUME NEW p \in Done, Becomes(u, p, attempt[u], 0, 0)
        PROVE  /\ Spends'[u] \in Nat /\ Spends[u] <= Spends'[u]
               /\ Own(u)' \in Nat /\ Own(u) <= Own(u)'
    <3>1. pc'[u] = p /\ p \notin {"idle", "ready", "resolving", "connecting"}
        BY <2>1, <2>6 DEF Done
    <3>2. Spends'[u] = plan[u].resolve
        BY <1>0, <3>1 DEF Spends
    <3>3. Own(u)' = plan[u].resolve + Timeout
        BY <1>0, <3>1 DEF Own
    <3>4. Own(u) <= plan[u].resolve + Timeout
        BY <1>1, <1>2 DEF Own
    <3>. QED  BY <1>1, <1>2, <3>2, <3>3, <3>4
  <2>7. CASE Begins(t)
      BY <1>4, <2>2, <2>3, <2>4, <2>7 DEF Begins
  <2>8. CASE GoesOn(t)
      BY <1>4, <2>5, <2>8 DEF GoesOn
  <2>9. CASE Ends(t)
      BY <1>4, <2>6, <2>9 DEF Ends
  <2>. QED  BY <2>7, <2>8, <2>9
<1>. QED  BY <1>3, <1>4

\* A tick moves every resolving on, since none of them is due.
LEMMA TickSpends ==
    ASSUME Typed, Tick, NEW u \in Tasks
    PROVE  /\ Spends'[u] \in Nat /\ Spends[u] <= Spends'[u]
           /\ pc[u] = "resolving" => Spends'[u] = Spends[u] + 1
<1>0. Plans /\ plan' = plan /\ pc' = pc
    BY DEF Typed, Tick
<1>1. Spends[u] \in Nat
    BY SpendsFacts
<1>2. CASE pc[u] = "resolving"
  <2>1. left[u] \in Nat /\ plan[u].resolve \in Nat /\ left[u] <= plan[u].resolve
      BY <1>0, <1>2, TypedIs, PlanFacts DEF Shape
  <2>2. left[u] # 0
      BY <1>2 DEF Tick, Due
  <2>3. left'[u] = left[u] - 1
      BY <2>2 DEF Tick, Minus1
  <2>4. Spends'[u] = plan[u].resolve - left'[u] /\ Spends[u] = plan[u].resolve - left[u]
      BY <1>0, <1>2 DEF Spends
  <2>. QED  BY <2>1, <2>2, <2>3, <2>4
<1>3. CASE pc[u] # "resolving"
  <2>1. Spends'[u] = Spends[u]
      BY <1>0, <1>3 DEF Spends
  <2>. QED  BY <1>1, <1>3, <2>1
<1>. QED  BY <1>2, <1>3

\* A tick in which no worker is free is one of each worker.
LEMMA TickSpent ==
    ASSUME Typed, Tick, NEW t \in Tasks
    PROVE  /\ Spent(t)' \in Nat /\ Spent(t) <= Spent(t)'
           /\ ~FreeWorker /\ pc[t] # "resolving" => Spent(t) + Workers <= Spent(t)'
<1>1. \A u \in Tasks : Spends'[u] \in Nat /\ Spends[u] <= Spends'[u]
    BY TickSpends
<1>2. Spent(t) \in Nat
    BY SpentFacts
<1>3. Spent(t)' \in Nat /\ Spent(t) + Cardinality({}) <= Spent(t)'
    BY <1>1, SpentStep
<1>4. Spent(t) <= Spent(t)'
    BY <1>2, <1>3, FS_EmptySet
<1>5. ASSUME ~FreeWorker, pc[t] # "resolving" PROVE Spent(t) + Workers <= Spent(t)'
  <2>. DEFINE R == {u \in Tasks : pc[u] = "resolving"}
  <2>1. R \subseteq Tasks \ {t}
      BY <1>5
  <2>2. IsFiniteSet(R) /\ Cardinality(R) \in Nat /\ Workers \in Nat
      BY TasksAssumption, DialerAssumption, FS_Subset, FS_CardinalityType
  <2>3. Cardinality(R) >= Workers
      BY <1>5, <2>2 DEF FreeWorker
  <2>4. \A u \in R : Spends[u] + 1 <= Spends'[u]
    <3>. TAKE u \in R
    <3>1. Spends'[u] = Spends[u] + 1 /\ Spends[u] \in Nat
        BY TickSpends, SpendsFacts
    <3>. QED  BY <3>1
  <2>. HIDE DEF R
  <2>5. Spent(t) + Cardinality(R) <= Spent(t)'
      BY <1>1, <2>1, <2>4, SpentStep
  <2>. QED  BY <1>2, <1>3, <2>2, <2>3, <2>5
<1>. QED  BY <1>3, <1>4, <1>5

-----------------------------------------------------------------------------
(* Clock                                                                   *)

\* No time has passed at the start.
LEMMA InitClock == Init => Clock
<1>. SUFFICES ASSUME Init, NEW t \in Tasks PROVE Covers(Workers, age[t], Own(t), Spent(t))
    BY DEF Clock
<1>1. Typed
    BY InitTyped
<1>2. age[t] = 0 /\ Own(t) \in Nat /\ Spent(t) \in Nat /\ Workers \in Nat
    BY <1>1, SpendsFacts, SpentFacts, DialerAssumption DEF Init
<1>3. Workers * age[t] = 0 /\ Workers * Own(t) \in Nat
    BY <1>2
<1>. QED  BY <1>2, <1>3 DEF Covers

\* The step of a task takes no time and takes nothing back.
LEMMA ClockTask ==
    ASSUME Typed, Clock, NEW t \in Tasks, OnlyOf(t), Begins(t) \/ GoesOn(t) \/ Ends(t)
    PROVE  Clock'
<1>. SUFFICES ASSUME NEW u \in Tasks PROVE Covers(Workers, age[u], Own(u), Spent(u))'
    BY DEF Clock
<1>1. /\ \A v \in Tasks : Spends'[v] \in Nat /\ Spends[v] <= Spends'[v]
      /\ Own(u)' \in Nat /\ Own(u) <= Own(u)'
    BY TaskSpends
<1>2. Spent(u)' \in Nat /\ Spent(u) + Cardinality({}) <= Spent(u)'
    BY <1>1, SpentStep
<1>3. /\ Own(u) \in Nat /\ Spent(u) \in Nat /\ Workers \in Nat /\ age[u] \in Nat /\ age' = age
      /\ Covers(Workers, age[u], Own(u), Spent(u)) /\ Cardinality({}) = 0
  <2>1. age[u] \in Nat
      BY DEF Typed, TypeOK
  <2>. QED  BY <2>1, SpendsFacts, SpentFacts, DialerAssumption, FS_EmptySet DEF OnlyOf, Clock
<1>4. Spent(u) <= Spent(u)' /\ age[u] <= age[u]
    BY <1>2, <1>3
<1>5. Covers(Workers, age[u], Own(u)', Spent(u)')
    BY <1>1, <1>2, <1>3, <1>4, CoversMore
<1>. QED  BY <1>3, <1>5 DEF Covers

\* A tick is one of the task itself, or of all workers.
LEMMA ClockTick ==
    ASSUME Typed, Clock, Tick
    PROVE  Clock'
<1>. SUFFICES ASSUME NEW t \in Tasks PROVE Covers(Workers, age[t], Own(t), Spent(t))'
    BY DEF Clock
<1>0. Plans /\ plan' = plan /\ pc' = pc
    BY DEF Typed, Tick
<1>1. /\ Own(t) \in Nat /\ Spent(t) \in Nat /\ Workers \in Nat /\ Timeout \in Nat
      /\ age[t] \in Nat /\ remain[t] \in 0..Timeout /\ pc[t] \in PCs /\ plan[t].resolve \in Nat
      /\ Covers(Workers, age[t], Own(t), Spent(t))
  <2>1. age[t] \in Nat /\ remain[t] \in 0..Timeout /\ pc[t] \in PCs
      BY <1>0, TypedIs
  <2>. QED  BY <1>0, <2>1, SpendsFacts, SpentFacts, PlanFacts, DialerAssumption DEF Clock
<1>2. /\ Spent(t)' \in Nat /\ Spent(t) <= Spent(t)'
      /\ ~FreeWorker /\ pc[t] # "resolving" => Spent(t) + Workers <= Spent(t)'
    BY TickSpent
<1>3. /\ Spends'[t] \in Nat /\ Spends[t] <= Spends'[t] /\ Spends[t] \in Nat
      /\ pc[t] = "resolving" => Spends'[t] = Spends[t] + 1
    BY TickSpends, SpendsFacts
<1>. DEFINE o == Own(t)'
            q == Spent(t)'
<1>4. CASE pc[t] \in Done \cup {"idle"}
  <2>1. age'[t] = age[t]
      BY <1>4 DEF Tick
  <2>2. o \in Nat /\ Own(t) <= o
      BY <1>0, <1>1, <1>3, <1>4 DEF Own, Done
  <2>3. age[t] <= age[t] /\ q \in Nat /\ Spent(t) <= q
      BY <1>1, <1>2
  <2>. HIDE DEF o, q
  <2>4. Covers(Workers, age[t], o, q)
      BY <1>1, <2>2, <2>3, CoversMore
  <2>. QED  BY <2>1, <2>4 DEF Covers, o, q
<1>5. CASE pc[t] \in {"ready", "resolving", "connecting"}
  <2>1. age'[t] = age[t] + 1
      BY <1>5 DEF Tick, Done
  <2>2. o \in Nat /\ ((o = Own(t) + 1 /\ Spent(t) <= q) \/ (Own(t) <= o /\ Spent(t) + Workers <= q))
    <3>1. CASE pc[t] = "ready"
      <4>1. ~FreeWorker
          BY <3>1 DEF Tick, Due
      <4>2. o = Spends'[t] /\ Own(t) = Spends[t]
          BY <1>0, <3>1 DEF Own
      <4>. QED  BY <1>2, <1>3, <3>1, <4>1, <4>2
    <3>2. CASE pc[t] = "resolving"
      <4>1. o = Spends'[t] /\ Own(t) = Spends[t]
          BY <1>0, <3>2 DEF Own
      <4>. QED  BY <1>2, <1>3, <3>2, <4>1
    <3>3. CASE pc[t] = "connecting"
      <4>1. /\ o = plan[t].resolve + (Timeout - remain'[t])
            /\ Own(t) = plan[t].resolve + (Timeout - remain[t])
          BY <1>0, <3>3 DEF Own
      <4>2. remain'[t] = Minus1(remain[t])
          BY DEF Tick
      <4>3. CASE remain[t] = 0
        <5>1. ~FreeWorker /\ remain'[t] = 0
            BY <3>3, <4>2, <4>3 DEF Tick, Due, Minus1
        <5>2. o = Own(t)
            BY <4>1, <4>3, <5>1
        <5>. QED  BY <1>1, <1>2, <3>3, <5>1, <5>2
      <4>4. CASE remain[t] # 0
        <5>1. remain'[t] = remain[t] - 1
            BY <4>2, <4>4 DEF Minus1
        <5>2. o = Own(t) + 1
            BY <1>1, <4>1, <4>4, <5>1
        <5>. QED  BY <1>1, <1>2, <5>2
      <4>. QED  BY <4>3, <4>4
    <3>. QED  BY <1>5, <3>1, <3>2, <3>3
  <2>3. q \in Nat
      BY <1>2
  <2>. HIDE DEF o, q
  <2>4. Covers(Workers, age[t] + 1, o, q)
      BY <1>1, <2>2, <2>3, CoversTick
  <2>. QED  BY <2>1, <2>4 DEF Covers, o, q
<1>. QED  BY <1>1, <1>4, <1>5 DEF PCs

-----------------------------------------------------------------------------
(* Progress                                                                *)

\* The sums after a step.
LEMMA SumsNext ==
    ASSUME plan' = plan, NEW t \in Tasks
    PROVE  /\ Delays(plan[t].addrs, attempt[t])' = Delays(plan[t].addrs, attempt'[t])
           /\ Blocked(t)' = Blocked(t)
           /\ \A k : Delays(plan[t].addrs, k)' = Delays(plan[t].addrs, k)
<1>1. Delays(plan[t].addrs, attempt[t])' = Delays(plan[t].addrs, attempt'[t])
    BY DEF Delays, MapThenSumSet, MapThenFoldSet
<1>2. Blocked(t)' = Blocked(t)
    BY DEF Blocked, MapThenSumSet, MapThenFoldSet
<1>3. ASSUME NEW k PROVE Delays(plan[t].addrs, k)' = Delays(plan[t].addrs, k)
    BY DEF Delays, MapThenSumSet, MapThenFoldSet
<1>. QED  BY <1>1, <1>2, <1>3

\* Progress of a task after a step, in terms of what the step does to it.
LEMMA ProgressNext ==
    ASSUME plan' = plan, NEW t \in Tasks, NEW a, NEW c, NEW s,
           attempt'[t] = a, (Timeout - remain'[t]) + left'[t] = c, Spent(t)' = s,
           \A i \in 1..(a - 1) : plan[t].addrs[i].kind # "accept",
           Covers(Workers, c, Delays(plan[t].addrs, a), s)
    PROVE  (/\ \A i \in 1..(attempt[t] - 1) : plan[t].addrs[i].kind # "accept"
            /\ Covers(Workers, (Timeout - remain[t]) + left[t],
                      Delays(plan[t].addrs, attempt[t]), Spent(t)))'
<1>1. Delays(plan[t].addrs, attempt[t])' = Delays(plan[t].addrs, a)
    BY SumsNext
<1>2. Covers(Workers, (Timeout - remain[t]) + left[t], Delays(plan[t].addrs, attempt[t]), Spent(t))'
    BY <1>1 DEF Covers
<1>3. (\A i \in 1..(attempt[t] - 1) : plan[t].addrs[i].kind # "accept")'
    OBVIOUS
<1>. QED  BY <1>2, <1>3

\* The numbers of a task that is connecting.
LEMMA Connecting ==
    ASSUME Typed, NEW t \in Tasks, pc[t] = "connecting"
    PROVE  /\ attempt[t] \in 1..Len(plan[t].addrs) /\ Len(plan[t].addrs) \in Nat
           /\ left[t] \in Nat /\ remain[t] \in 0..Timeout /\ Timeout \in Nat
           /\ Timeout - remain[t] \in Nat /\ (Timeout - remain[t]) + left[t] \in Nat
           /\ Delays(plan[t].addrs, attempt[t]) \in Nat
           /\ Workers \in Nat /\ Spent(t) \in Nat /\ plan[t].addrs \in Seq(Dialable)
<1>0. Plans
    BY DEF Typed
<1>1. /\ attempt[t] \in 1..Len(plan[t].addrs) /\ left[t] \in Nat /\ remain[t] \in 0..Timeout
    BY <1>0, TypedIs DEF Shape
<1>2. /\ Len(plan[t].addrs) \in Nat /\ Workers \in Nat /\ Timeout \in Nat /\ Spent(t) \in Nat
      /\ plan[t].addrs \in Seq(Dialable)
    BY <1>0, PlanFacts, SpentFacts, DialerAssumption
<1>3. attempt[t] \in 0..Len(plan[t].addrs) /\ Timeout - remain[t] \in Nat
    BY <1>1, <1>2
<1>4. Delays(plan[t].addrs, attempt[t]) \in Nat
    BY <1>2, <1>3, DelaysNext
<1>. QED  BY <1>1, <1>2, <1>3, <1>4

\* A connect that starts, or goes on to the next address, has the time of that address before it.
LEMMA ProgressTask ==
    ASSUME Typed, Progress, NEW t \in Tasks, OnlyOf(t), Begins(t) \/ GoesOn(t) \/ Ends(t)
    PROVE  Progress'
<1>0. Plans /\ plan' = plan
    BY DEF Typed, OnlyOf
<1>. SUFFICES ASSUME NEW u \in Tasks, pc'[u] = "connecting"
     PROVE  (/\ \A i \in 1..(attempt[u] - 1) : plan[u].addrs[i].kind # "accept"
             /\ Covers(Workers, (Timeout - remain[u]) + left[u],
                       Delays(plan[u].addrs, attempt[u]), Spent(u)))'
    BY DEF Progress
<1>1. Spent(u)' \in Nat /\ Spent(u) <= Spent(u)' /\ Spent(u) \in Nat /\ Workers \in Nat
  <2>1. \A v \in Tasks : Spends'[v] \in Nat /\ Spends[v] <= Spends'[v]
      BY TaskSpends
  <2>2. Spent(u)' \in Nat /\ Spent(u) + Cardinality({}) <= Spent(u)'
      BY <2>1, SpentStep
  <2>3. Spent(u) \in Nat /\ Cardinality({}) = 0 /\ Workers \in Nat
      BY SpentFacts, FS_EmptySet, DialerAssumption
  <2>. QED  BY <2>2, <2>3
<1>. DEFINE q == Spent(u)'
            A == plan[u].addrs
<1>2. CASE u # t
  <2>1. /\ pc[u] = "connecting" /\ attempt'[u] = attempt[u] /\ left'[u] = left[u]
        /\ remain'[u] = remain[u]
      BY <1>2 DEF OnlyOf
  <2>. DEFINE c == (Timeout - remain[u]) + left[u]
              d == Delays(A, attempt[u])
  <2>2. c \in Nat /\ d \in Nat /\ Covers(Workers, c, d, Spent(u)) /\ c <= c /\ d <= d
      BY <2>1, Connecting DEF Progress
  <2>. HIDE DEF c, d, q
  <2>3. Covers(Workers, c, d, q)
      BY <1>1, <2>2, CoversMore DEF q
  <2>4. \A i \in 1..(attempt[u] - 1) : plan[u].addrs[i].kind # "accept"
      BY <2>1 DEF Progress
  <2>. QED  BY <1>0, <2>1, <2>3, <2>4, ProgressNext DEF c, d, q
<1>3. CASE u = t
  <2>0. /\ pc \in [Tasks -> PCs] /\ left \in [Tasks -> Nat] /\ remain \in [Tasks -> 0..Timeout]
        /\ attempt \in [Tasks -> Nat]
      BY <1>0, TypedIs DEF Plans
  <2>1. ASSUME NEW p, NEW a, NEW l, NEW r, Becomes(u, p, a, l, r)
        PROVE  pc'[u] = p /\ left'[u] = l /\ remain'[u] = r /\ attempt'[u] = a
      BY <2>0, <2>1 DEF Becomes
  <2>2. /\ A \in Seq(Dialable) /\ Len(A) \in Nat /\ (A # <<>> => 1 \in 1..Len(A))
        /\ \A i \in 1..Len(A) : A[i].kind \in {"accept", "refuse"} /\ A[i].delay \in Nat
      BY <1>0, PlanFacts
  <2>3. CASE A # <<>> /\ Becomes(u, "connecting", 1, A[1].delay, Timeout)
    <3>1. attempt'[u] = 1 /\ left'[u] = A[1].delay /\ remain'[u] = Timeout
        BY <2>1, <2>3
    <3>2. 1 \in 1..Len(A) /\ A[1].delay \in Nat /\ Timeout \in Nat
        BY <2>2, <2>3, DialerAssumption
    <3>. DEFINE c == A[1].delay
                d == Delays(A, 1)
    <3>. HIDE DEF A, q
    <3>3. d = Delays(A, 0) + c /\ Delays(A, 0) = 0
      <4>1. d = Delays(A, 1 - 1) + A[1].delay /\ 1 - 1 = 0
          BY <2>2, <3>2, DelaysNext
      <4>. QED  BY <2>2, <4>1, DelaysNext
    <3>4. (Timeout - remain'[u]) + left'[u] = c /\ d = c /\ c \in Nat
        BY <3>1, <3>2, <3>3
    <3>. HIDE DEF c, d
    <3>5. Covers(Workers, c, d, q)
      <4>1. Workers * c \in Nat /\ q \in Nat
          BY <1>1, <3>4 DEF q
      <4>. QED  BY <3>4, <4>1 DEF Covers
    <3>6. \A i \in 1..(1 - 1) : A[i].kind # "accept"
        OBVIOUS
    <3>. QED  BY <1>0, <3>1, <3>4, <3>5, <3>6, ProgressNext DEF c, d, q, A
  <2>4. CASE GoesOn(u)
    <3>. DEFINE n == attempt[u] + 1
                e == A[n].delay
                c == (Timeout - remain[u]) + left[u]
                d == Delays(A, attempt[u])
    <3>1. /\ attempt'[u] = n /\ left'[u] = e /\ remain'[u] = remain[u]
          /\ pc[u] = "connecting" /\ left[u] = 0 /\ A[attempt[u]].kind # "accept"
          /\ attempt[u] # Len(A)
        BY <2>1, <2>4 DEF GoesOn, AddressOf
    <3>2. /\ attempt[u] \in 1..Len(A) /\ Timeout - remain[u] \in Nat
          /\ c \in Nat /\ d \in Nat /\ Covers(Workers, c, d, Spent(u))
          /\ \A i \in 1..(attempt[u] - 1) : A[i].kind # "accept"
        BY <3>1, Connecting DEF Progress
    <3>. HIDE DEF A, q
    <3>3. n \in 1..Len(A) /\ n - 1 = attempt[u] /\ n - 1 \in Nat
        BY <2>2, <3>1, <3>2
    <3>4. Delays(A, n) = d + e
        BY <2>2, <3>3, DelaysNext
    <3>5. e \in Nat
        BY <2>2, <3>3
    <3>6. (Timeout - remain'[u]) + left'[u] = c + e
        BY <3>1, <3>2, <3>5
    <3>7. \A i \in 1..(n - 1) : A[i].kind # "accept"
      <4>. TAKE i \in 1..(n - 1)
      <4>1. i \in 1..(attempt[u] - 1) \/ i = attempt[u]
          BY <3>2, <3>3
      <4>. QED  BY <3>1, <3>2, <4>1
    <3>. HIDE DEF c, d, e, n
    <3>8. Covers(Workers, c + e, d + e, q)
      <4>1. Covers(Workers, c + e, d + e, Spent(u))
          BY <1>1, <3>2, <3>5, CoversShift
      <4>2. /\ c + e \in Nat /\ d + e \in Nat /\ c + e <= c + e /\ d + e <= d + e
            /\ q \in Nat /\ Spent(u) <= q
          BY <1>1, <3>2, <3>5 DEF q
      <4>. QED  BY <1>1, <4>1, <4>2, CoversMore
    <3>9. Covers(Workers, c + e, Delays(A, n), q)
        BY <3>4, <3>8
    <3>. QED  BY <1>0, <3>1, <3>6, <3>7, <3>9, ProgressNext DEF q, A
  <2>5. CASE Begins(u)
    <3>1. ~Becomes(u, "ready", attempt[u], left[u], remain[u])
        BY <2>1
    <3>2. ~Becomes(u, "resolving", attempt[u], plan[u].resolve, remain[u])
        BY <2>1
    <3>. QED  BY <2>3, <2>5, <3>1, <3>2 DEF Begins
  <2>6. CASE Ends(u)
    <3>1. PICK p \in Done : Becomes(u, p, attempt[u], 0, 0)
        BY <2>6 DEF Ends
    <3>. QED  BY <2>1, <3>1 DEF Done
  <2>. QED  BY <1>3, <2>4, <2>5, <2>6
<1>. QED  BY <1>2, <1>3

\* A tick is one of the attempt, or of all workers.
LEMMA ProgressTick ==
    ASSUME Typed, Progress, Tick
    PROVE  Progress'
<1>0. Plans /\ plan' = plan /\ pc' = pc /\ attempt' = attempt
    BY DEF Typed, Tick
<1>. SUFFICES ASSUME NEW u \in Tasks, pc[u] = "connecting"
     PROVE  (/\ \A i \in 1..(attempt[u] - 1) : plan[u].addrs[i].kind # "accept"
             /\ Covers(Workers, (Timeout - remain[u]) + left[u],
                       Delays(plan[u].addrs, attempt[u]), Spent(u)))'
    BY <1>0 DEF Progress
<1>. DEFINE q == Spent(u)'
            c == (Timeout - remain[u]) + left[u]
            e == (Timeout - remain'[u]) + left'[u]
            d == Delays(plan[u].addrs, attempt[u])
<1>1. /\ left[u] \in Nat /\ remain[u] \in 0..Timeout /\ Timeout \in Nat
      /\ c \in Nat /\ d \in Nat /\ Workers \in Nat /\ Spent(u) \in Nat
      /\ Covers(Workers, c, d, Spent(u))
      /\ \A i \in 1..(attempt[u] - 1) : plan[u].addrs[i].kind # "accept"
    BY Connecting DEF Progress
<1>2. /\ q \in Nat /\ Spent(u) <= q
      /\ ~FreeWorker => Spent(u) + Workers <= q
    BY TickSpent
<1>3. left'[u] = Minus1(left[u]) /\ remain'[u] = Minus1(remain[u])
    BY DEF Tick
<1>4. e \in Nat /\ e <= c + 1 /\ (left[u] # 0 => e <= c)
    BY <1>1, <1>3 DEF Minus1
<1>5. left[u] = 0 => ~FreeWorker
    BY DEF Tick, Due
<1>6. d <= d
    BY <1>1
<1>. HIDE DEF q, c, e, d
<1>7. Covers(Workers, e, d, q)
  <2>1. CASE left[u] # 0
      BY <1>1, <1>2, <1>4, <1>6, <2>1, CoversMore
  <2>2. CASE left[u] = 0
    <3>1. Spent(u) + Workers <= q
        BY <1>2, <1>5, <2>2
    <3>2. Covers(Workers, c + 1, d, q)
        BY <1>1, <1>2, <1>6, <3>1, CoversTick
    <3>3. c + 1 \in Nat /\ q <= q
        BY <1>1, <1>2
    <3>. QED  BY <1>1, <1>2, <1>4, <1>6, <3>2, <3>3, CoversMore
  <2>. QED  BY <2>1, <2>2
<1>. QED  BY <1>0, <1>1, <1>7, ProgressNext DEF e, d, q

-----------------------------------------------------------------------------
(* ReachesFirstLive                                                        *)

\* Some address would have accepted in time.
Live(t) ==
    \E k \in DOMAIN plan[t].addrs :
        /\ plan[t].addrs[k].kind = "accept"
        /\ Delays(plan[t].addrs, k) + Blocked(t) <= Timeout

\* Whether an address would have accepted in time does not change.
LEMMA LiveNext ==
    ASSUME plan' = plan, NEW t \in Tasks
    PROVE  Live(t)' <=> Live(t)
<1>. DEFINE A == plan[t].addrs
<1>1. Blocked(t)' = Blocked(t) /\ \A k : Delays(A, k)' = Delays(A, k)
    BY SumsNext
<1>2. Live(t)' <=> \E k \in DOMAIN A : A[k].kind = "accept" /\ Delays(A, k)' + Blocked(t)' <= Timeout
    BY DEF Live
<1>. QED  BY <1>1, <1>2 DEF Live

\* Blocked is a number of ticks.
LEMMA BlockedType ==
    ASSUME Typed, NEW t \in Tasks
    PROVE  Blocked(t) \in Nat
<1>. DEFINE s == SumOf(Resolves, Tasks \ {t})
<1>1. s \in Nat /\ Workers \in Nat \ {0} /\ Blocked(t) = s \div Workers
    BY SpentFacts, BlockedIsSum, DialerAssumption
<1>. HIDE DEF s
<1>2. s \div Workers \in Nat
    BY <1>1
<1>. QED  BY <1>1, <1>2

\* A timeout leaves no address behind that would have accepted in time.
LEMMA TimeoutNotLive ==
    ASSUME Typed, Progress, NEW t \in Tasks, pc[t] = "connecting", remain[t] = 0, left[t] > 0
    PROVE  ~Live(t)
<1>. SUFFICES ASSUME NEW k \in DOMAIN plan[t].addrs, plan[t].addrs[k].kind = "accept",
                     Delays(plan[t].addrs, k) + Blocked(t) <= Timeout
              PROVE  FALSE
    BY DEF Live
<1>. DEFINE A == plan[t].addrs
            c == (Timeout - remain[t]) + left[t]
            d == Delays(A, attempt[t])
            s == SumOf(Resolves, Tasks \ {t})
<1>1. /\ attempt[t] \in 1..Len(A) /\ Len(A) \in Nat /\ left[t] \in Nat /\ Timeout \in Nat
      /\ c \in Nat /\ d \in Nat /\ Spent(t) \in Nat /\ A \in Seq(Dialable)
      /\ Covers(Workers, c, d, Spent(t))
      /\ \A i \in 1..(attempt[t] - 1) : A[i].kind # "accept"
    BY Connecting DEF Progress
<1>2. DOMAIN A = 1..Len(A)
    BY PlanFacts DEF Typed
<1>3. s \in Nat /\ Spent(t) <= s /\ Workers \in Nat \ {0} /\ Workers \in Nat /\ Blocked(t) = s \div Workers
    BY SpentFacts, BlockedIsSum, DialerAssumption
<1>4. c = Timeout + left[t]
    BY <1>1
<1>5. k \in 1..Len(A) /\ attempt[t] <= k /\ attempt[t] \in 0..Len(A) /\ k \in 0..Len(A)
  <2>1. k \in 1..Len(A)
      BY <1>2
  <2>2. k \notin 1..(attempt[t] - 1)
      BY <1>1
  <2>3. attempt[t] \in 1..Len(A) /\ Len(A) \in Nat
      BY <1>1
  <2>. HIDE DEF A
  <2>. QED  BY <2>1, <2>2, <2>3
<1>. HIDE DEF A
<1>6. d <= Delays(A, k) /\ Delays(A, k) \in Nat
    BY <1>1, <1>5, DelaysMonotone, DelaysNext
<1>7. c <= c /\ d <= d
    BY <1>1
<1>8. Delays(A, k) + Blocked(t) <= Timeout
    BY DEF A
<1>. HIDE DEF c, d, s
<1>9. Covers(Workers, c, d, s)
    BY <1>1, <1>3, <1>7, CoversMore
<1>10. c <= d + (s \div Workers)
    BY <1>1, <1>3, <1>9, CoversAtMost
<1>11. Blocked(t) \in Nat
    BY BlockedType
<1>12. c <= d + Blocked(t)
    BY <1>3, <1>10
<1>. QED  BY <1>1, <1>4, <1>6, <1>8, <1>11, <1>12

\* Neither does the refusal of the last address, nor an empty list.
LEMMA RefusedNotLive ==
    ASSUME Typed, Progress, NEW t \in Tasks,
           \/ /\ pc[t] = "connecting" /\ AddressOf(t).kind # "accept"
              /\ attempt[t] = Len(plan[t].addrs)
           \/ plan[t].addrs = <<>>
    PROVE  ~Live(t)
<1>. DEFINE A == plan[t].addrs
<1>1. DOMAIN A = 1..Len(A) /\ Len(A) \in Nat
    BY PlanFacts DEF Typed
<1>2. CASE A = <<>>
  <2>1. DOMAIN A = {}
      BY <1>2
  <2>. QED  BY <2>1 DEF Live
<1>3. CASE pc[t] = "connecting" /\ AddressOf(t).kind # "accept" /\ attempt[t] = Len(A)
  <2>1. \A i \in 1..(attempt[t] - 1) : A[i].kind # "accept"
      BY <1>3 DEF Progress
  <2>2. A[attempt[t]].kind # "accept"
      BY <1>3 DEF AddressOf
  <2>3. \A i \in DOMAIN A : i \in 1..(attempt[t] - 1) \/ i = attempt[t]
      BY <1>1, <1>3
  <2>. QED  BY <2>1, <2>2, <2>3 DEF Live
<1>. QED  BY <1>2, <1>3

\* A dial that fails in this step leaves no such address behind.
LEMMA FirstLiveTask ==
    ASSUME Typed, Progress, ReachesFirstLive, NEW t \in Tasks, OnlyOf(t),
           Begins(t) \/ GoesOn(t) \/ Ends(t)
    PROVE  ReachesFirstLive'
<1>. SUFFICES ASSUME NEW u \in Tasks, pc'[u] \in {"refused", "timeout", "unresolved"}
              PROVE  ~Live(u)'
    BY DEF ReachesFirstLive, Live
<1>0. Plans /\ plan' = plan
    BY DEF Typed, OnlyOf
<1>. SUFFICES ~Live(u)
    BY <1>0, LiveNext
<1>1. CASE u # t
  <2>1. pc[u] \in {"refused", "timeout", "unresolved"}
      BY <1>1 DEF OnlyOf
  <2>. QED  BY <2>1 DEF ReachesFirstLive, Live
<1>2. CASE u = t
  <2>0. pc \in [Tasks -> PCs]
      BY <1>0, TypedIs
  <2>1. ASSUME NEW p, NEW a, NEW l, NEW r, Becomes(u, p, a, l, r) PROVE pc'[u] = p
      BY <2>0, <2>1 DEF Becomes
  <2>2. ~Begins(u)
      BY <2>1 DEF Begins
  <2>3. ~GoesOn(u)
      BY <2>1 DEF GoesOn
  <2>4. /\ pc'[u] = "refused" => /\ pc[u] = "connecting" /\ AddressOf(u).kind # "accept"
                                 /\ attempt[u] = Len(plan[u].addrs)
        /\ pc'[u] = "unresolved" => plan[u].addrs = <<>>
        /\ pc'[u] = "timeout" => pc[u] = "connecting" /\ remain[u] = 0 /\ left[u] > 0
    <3>1. Ends(u)
        BY <1>2, <2>2, <2>3
    <3>. QED  BY <2>1, <3>1 DEF Ends
  <2>5. CASE pc'[u] = "timeout"
      BY <2>4, <2>5, TimeoutNotLive
  <2>6. CASE pc'[u] \in {"refused", "unresolved"}
      BY <2>4, <2>6, RefusedNotLive
  <2>. QED  BY <2>5, <2>6
<1>. QED  BY <1>1, <1>2

\* No dial fails in a tick.
LEMMA FirstLiveTick ==
    ASSUME ReachesFirstLive, Tick
    PROVE  ReachesFirstLive'
<1>. SUFFICES ASSUME NEW u \in Tasks, pc'[u] \in {"refused", "timeout", "unresolved"}
              PROVE  ~Live(u)'
    BY DEF ReachesFirstLive, Live
<1>1. plan' = plan /\ pc' = pc
    BY DEF Tick
<1>2. ~Live(u)
    BY <1>1 DEF ReachesFirstLive, Live
<1>. QED  BY <1>1, <1>2, LiveNext

-----------------------------------------------------------------------------
(* The theorems                                                            *)

\* The inductive invariant holds.
THEOREM Invariance == Spec => []IInv
<1>1. Init => IInv
  <2>. SUFFICES ASSUME Init PROVE IInv
      OBVIOUS
  <2>1. \A t \in Tasks : pc[t] = "idle"
      BY DEF Init
  <2>2. Progress
      BY <2>1 DEF Progress
  <2>3. ReachesFirstLive
      BY <2>1 DEF ReachesFirstLive
  <2>. QED  BY <2>2, <2>3, InitTyped, InitClock DEF IInv
<1>2. IInv /\ [Next]_vars => IInv'
  <2>. SUFFICES ASSUME IInv, [Next]_vars PROVE IInv'
      OBVIOUS
  <2>0. Typed /\ Clock /\ Progress /\ ReachesFirstLive
      BY DEF IInv
  <2>1. CASE Tick
      BY <2>0, <2>1, TypedTick, ClockTick, ProgressTick, FirstLiveTick DEF IInv
  <2>2. ASSUME NEW t \in Tasks, Arrive(t) \/ Step(t) PROVE IInv'
    <3>1. OnlyOf(t) /\ (Begins(t) \/ GoesOn(t) \/ Ends(t))
        BY <2>0, <2>2, TaskStep
    <3>2. Typed'
        BY <2>0, <3>1, TypedTask
    <3>3. Clock'
        BY <2>0, <3>1, ClockTask
    <3>4. Progress'
        BY <2>0, <3>1, ProgressTask
    <3>5. ReachesFirstLive'
        BY <2>0, <3>1, FirstLiveTask
    <3>. QED  BY <3>2, <3>3, <3>4, <3>5 DEF IInv
  <2>3. CASE UNCHANGED vars
    <3>1. /\ side' = side /\ plan' = plan /\ pc' = pc /\ attempt' = attempt
          /\ left' = left /\ remain' = remain /\ age' = age
        BY <2>3 DEF vars
    <3>2. Typed'
        BY <2>0, <3>1 DEF Typed, TypeOK, Plans, Bounds
    <3>3. Spends' = Spends
        BY <3>1 DEF Spends
    <3>4. \A t \in Tasks : Spent(t)' = Spent(t)
        BY <3>3 DEF Spent, SumOf, Adds
    <3>5. \A t \in Tasks : Own(t)' = Own(t)
        BY <3>1, <3>3 DEF Own
    <3>6. Clock'
        BY <2>0, <3>1, <3>4, <3>5 DEF Clock, Covers
    <3>7. Progress'
      <4>1. \A t \in Tasks : Delays(plan[t].addrs, attempt[t])' = Delays(plan[t].addrs, attempt[t])
          BY <3>1, SumsNext
      <4>. QED  BY <2>0, <3>1, <3>4, <4>1 DEF Progress, Covers
    <3>8. ReachesFirstLive'
      <4>1. \A t \in Tasks : Live(t)' <=> Live(t)
          BY <3>1, LiveNext
      <4>. QED  BY <2>0, <3>1, <4>1 DEF ReachesFirstLive, Live
    <3>. QED  BY <3>2, <3>6, <3>7, <3>8 DEF IInv
  <2>. QED  BY <2>1, <2>2, <2>3 DEF Next
<1>. QED  BY <1>1, <1>2, PTL DEF Spec

\* What connect and the timeout work on is well formed, whatever the addresses.
THEOREM TypeCorrect == Spec => []TypeOK
<1>1. IInv => TypeOK
    BY DEF IInv, Typed
<1>. QED  BY <1>1, Invariance, PTL

\* No dial lasts longer than the timeout, its own resolving, and what the resolving
\* of the others blocks all workers.
THEOREM Bounded == Spec => []DialBounded
<1>1. IInv => DialBounded
  <2>. SUFFICES ASSUME IInv, NEW t \in Tasks
                PROVE  age[t] <= plan[t].resolve + Timeout + Blocked(t)
      BY DEF DialBounded
  <2>. DEFINE s == SumOf(Resolves, Tasks \ {t})
              m == plan[t].resolve + Timeout
  <2>1. Typed /\ Covers(Workers, age[t], Own(t), Spent(t))
      BY DEF IInv, Clock
  <2>2. /\ s \in Nat /\ Spent(t) \in Nat /\ Spent(t) <= s /\ Workers \in Nat \ {0} /\ Workers \in Nat
        /\ Blocked(t) = s \div Workers
      BY <2>1, SpentFacts, BlockedIsSum, DialerAssumption
  <2>3. /\ age[t] \in Nat /\ remain[t] \in 0..Timeout /\ plan[t].resolve \in Nat /\ Timeout \in Nat
        /\ Spends[t] \in Nat /\ Spends[t] <= plan[t].resolve /\ Own(t) \in Nat
      BY <2>1, TypedIs, PlanFacts, SpendsFacts, DialerAssumption DEF Typed
  <2>4. Own(t) <= m /\ m \in Nat /\ age[t] <= age[t]
      BY <2>3 DEF Own
  <2>. HIDE DEF s, m
  <2>5. Covers(Workers, age[t], m, s)
      BY <2>1, <2>2, <2>3, <2>4, CoversMore
  <2>6. age[t] <= m + (s \div Workers)
      BY <2>2, <2>3, <2>4, <2>5, CoversAtMost
  <2>. QED  BY <2>2, <2>6 DEF m
<1>. QED  BY <1>1, Invariance, PTL

\* A dial that fails had no address that would have accepted in the time it had.
THEOREM FirstLive == Spec => []ReachesFirstLive
<1>1. IInv => ReachesFirstLive
    BY DEF IInv
<1>. QED  BY <1>1, Invariance, PTL
=============================================================================

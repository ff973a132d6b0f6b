---------------------------- MODULE SetRecursion ----------------------------
(***************************************************************************)
(* Recursion over the subsets of a finite set, which is how the library    *)
(* defines its folds: an element is chosen, the rest is folded, and the    *)
(* element is added by one step.  What is proved of such a recursion rests *)
(* on the principle that a set of subsets of a finite set has a smallest   *)
(* member: a smallest set for which a claim fails has none below it for    *)
(* which it fails.                                                         *)
(*                                                                         *)
(* A module that folds instantiates this one with its step and its choice. *)
(***************************************************************************)
EXTENDS Integers, Sequences, FiniteSets, FiniteSetTheorems, WellFoundedInduction, TLAPS

CONSTANTS
  Step(_, _, _),  \* Step(ctx, x, v): v with x added, ctx being what is folded
  Choose(_)       \* the element of a set that is added last

\* A non-empty set of subsets of a finite set has a member that contains no
\* other.
LEMMA SmallestSet ==
  ASSUME NEW S, IsFiniteSet(S), NEW C \in SUBSET (SUBSET S), C # {}
  PROVE  \E T \in C : \A U \in C : ~(U \subseteq T /\ U # T)
<1>1. IsWellFoundedOn(StrictSubsetOrdering(S), FiniteSubsetsOf(S))
  BY FS_StrictSubsetOrderingWellFounded
<1>2. C \subseteq FiniteSubsetsOf(S)
  BY FS_FiniteSubsetsOfFinite
<1>3. PICK T \in C : \A U \in C : ~(<<U, T>> \in StrictSubsetOrdering(S))
  BY <1>1, <1>2, WFMin
<1>. QED  BY <1>3 DEF StrictSubsetOrdering

\* A non-empty set of naturals has a least one.
LEMMA LeastNatural ==
  ASSUME NEW N \in SUBSET Nat, N # {}
  PROVE  \E n \in N : \A m \in N : n <= m
<1>1. PICK top \in N : TRUE
  OBVIOUS
<1>. DEFINE C == {0..n : n \in {m \in N : m <= top}}
            S == 0..top
<1>2. IsFiniteSet(S) /\ C \in SUBSET (SUBSET S) /\ C # {}
  <2>1. IsFiniteSet(S)
    BY FS_Interval
  <2>2. 0..top \in C
    OBVIOUS
  <2>. QED  BY <2>1, <2>2
<1>3. PICK T \in C : \A U \in C : ~(U \subseteq T /\ U # T)
  <2>. HIDE DEF C, S
  <2>. QED  BY <1>2, SmallestSet
<1>4. PICK n \in N : n <= top /\ T = 0..n
  OBVIOUS
<1>5. ASSUME NEW m \in N, m < n PROVE FALSE
  <2>1. 0..m \in C /\ 0..m \subseteq T /\ n \in T /\ n \notin 0..m
    BY <1>4, <1>5
  <2>. QED  BY <1>3, <2>1
<1>. QED  BY <1>4, <1>5

-----------------------------------------------------------------------------
\* The recursion is well defined.

Chooses(D) == \A s \in SUBSET D : s # {} => Choose(s) \in s

\* g holds the fold of every subset of D.
Folding(g, ctx, base, D) ==
  g = [s \in SUBSET D |-> IF s = {} THEN base
                          ELSE Step(ctx, Choose(s), g[s \ {Choose(s)}])]

Folded(ctx, base, D) == (CHOOSE g : Folding(g, ctx, base, D))[D]

LEMMA FoldingsAgree ==
  ASSUME NEW ctx, NEW base, NEW D, IsFiniteSet(D), Chooses(D), NEW E \in SUBSET D,
         NEW g, Folding(g, ctx, base, D), NEW h, Folding(h, ctx, base, E)
  PROVE  \A s \in SUBSET E : g[s] = h[s]
<1>. DEFINE C == {s \in SUBSET E : g[s] # h[s]}
<1>. SUFFICES ASSUME C # {} PROVE FALSE
  OBVIOUS
<1>1. IsFiniteSet(E)
  BY FS_Subset
<1>2. PICK T \in C : \A U \in C : ~(U \subseteq T /\ U # T)
  <2>1. C \in SUBSET (SUBSET E)
    OBVIOUS
  <2>. HIDE DEF C
  <2>. QED  BY <1>1, <2>1, SmallestSet
<1>3. T \in SUBSET E /\ T \in SUBSET D /\ g[T] # h[T]
  BY <1>2
<1>4. g[T] = IF T = {} THEN base ELSE Step(ctx, Choose(T), g[T \ {Choose(T)}])
  BY <1>3 DEF Folding
<1>5. h[T] = IF T = {} THEN base ELSE Step(ctx, Choose(T), h[T \ {Choose(T)}])
  BY <1>3 DEF Folding
<1>6. CASE T = {}
  BY <1>3, <1>4, <1>5, <1>6
<1>7. CASE T # {}
  <2>1. T \ {Choose(T)} \subseteq T /\ T \ {Choose(T)} # T
    BY <1>3, <1>7 DEF Chooses
  <2>2. g[T \ {Choose(T)}] = h[T \ {Choose(T)}]
    BY <1>2, <1>3, <2>1
  <2>. QED  BY <1>3, <1>4, <1>5, <1>7, <2>2
<1>. QED  BY <1>6, <1>7

LEMMA FoldingExists ==
  ASSUME NEW ctx, NEW base, NEW D, IsFiniteSet(D), Chooses(D)
  PROVE  \E g : Folding(g, ctx, base, D)
<1>. DEFINE C == {s \in SUBSET D : ~\E g : Folding(g, ctx, base, s)}
<1>. SUFFICES ASSUME C # {} PROVE FALSE
  OBVIOUS
<1>2. PICK T \in C : \A U \in C : ~(U \subseteq T /\ U # T)
  <2>1. C \in SUBSET (SUBSET D)
    OBVIOUS
  <2>. HIDE DEF C
  <2>. QED  BY <2>1, SmallestSet
<1>3. T \in SUBSET D /\ ~\E g : Folding(g, ctx, base, T)
  BY <1>2
<1>. DEFINE of(s) == CHOOSE g : Folding(g, ctx, base, s)
            below == T \ {Choose(T)}
            whole == [s \in SUBSET T |->
                        IF s # T THEN of(s)[s]
                        ELSE IF T = {} THEN base ELSE Step(ctx, Choose(T), of(below)[below])]
<1>4. ASSUME NEW s \in SUBSET T, s # T
      PROVE  Folding(of(s), ctx, base, s)
  <2>1. s \notin C
    BY <1>2, <1>4
  <2>2. s \in SUBSET D
    BY <1>3
  <2>. QED  BY <2>1, <2>2
<1>. HIDE DEF of, C
<1>5. ASSUME NEW s \in SUBSET T
      PROVE  whole[s] = IF s = {} THEN base ELSE Step(ctx, Choose(s), whole[s \ {Choose(s)}])
  <2>. DEFINE rest == s \ {Choose(s)}
  <2>1. CASE s = {}
    <3>1. CASE T = {}
      BY <2>1, <3>1
    <3>2. CASE T # {}
      <4>1. Folding(of({}), ctx, base, {})
        BY <1>4, <3>2
      <4>2. of({})[{}] = base
        BY <4>1 DEF Folding
      <4>. QED  BY <2>1, <3>2, <4>2
    <3>. QED  BY <3>1, <3>2
  <2>2. CASE s # {}
    <3>1. rest \in SUBSET s /\ rest # s /\ rest \in SUBSET T /\ rest # T
      BY <1>3, <2>2 DEF Chooses
    <3>2. whole[rest] = of(rest)[rest]
      BY <3>1
    <3>3. Folding(of(rest), ctx, base, rest)
      BY <1>4, <3>1
    <3>4. CASE s = T
      <4>1. whole[s] = Step(ctx, Choose(T), of(below)[below])
        BY <2>2, <3>4
      <4>. QED  BY <2>2, <3>2, <3>4, <4>1
    <3>5. CASE s # T
      <4>1. Folding(of(s), ctx, base, s)
        BY <1>4, <3>5
      <4>2. whole[s] = of(s)[s]
        BY <3>5
      <4>3. of(s)[s] = Step(ctx, Choose(s), of(s)[rest])
        BY <2>2, <4>1 DEF Folding
      <4>4. of(s)[rest] = of(rest)[rest]
        <5>1. s \in SUBSET D
          BY <1>3
        <5>2. IsFiniteSet(s)
          BY <5>1, FS_Subset
        <5>3. Chooses(s)
          BY <5>1 DEF Chooses
        <5>. HIDE DEF rest
        <5>. QED  BY <3>1, <3>3, <4>1, <5>2, <5>3, FoldingsAgree
      <4>. QED  BY <2>2, <3>2, <4>2, <4>3, <4>4
    <3>. QED  BY <3>4, <3>5
  <2>. QED  BY <2>1, <2>2
<1>6. Folding(whole, ctx, base, T)
  <2>1. whole = [s \in SUBSET T |-> whole[s]]
    OBVIOUS
  <2>. HIDE DEF whole
  <2>. QED  BY <1>5, <2>1 DEF Folding
<1>. QED  BY <1>3, <1>6

\* A fold over nothing is its base.
LEMMA FoldedEmpty ==
  ASSUME NEW ctx, NEW base
  PROVE  Folded(ctx, base, {}) = base
<1>1. IsFiniteSet({}) /\ Chooses({})
  BY FS_EmptySet DEF Chooses
<1>2. Folding(CHOOSE g : Folding(g, ctx, base, {}), ctx, base, {})
  BY <1>1, FoldingExists
<1>. QED  BY <1>2 DEF Folding, Folded

\* A fold over more is one step from the fold over the rest.
LEMMA FoldedStep ==
  ASSUME NEW ctx, NEW base, NEW D, IsFiniteSet(D), Chooses(D), D # {}
  PROVE  Folded(ctx, base, D) = Step(ctx, Choose(D), Folded(ctx, base, D \ {Choose(D)}))
<1>. DEFINE rest == D \ {Choose(D)}
            g == CHOOSE q : Folding(q, ctx, base, D)
            h == CHOOSE q : Folding(q, ctx, base, rest)
<1>1. IsFiniteSet(rest) /\ rest \in SUBSET D /\ Chooses(rest)
  BY FS_Subset DEF Chooses
<1>. HIDE DEF rest
<1>2. Folding(g, ctx, base, D)
  BY FoldingExists
<1>3. Folding(h, ctx, base, rest)
  BY <1>1, FoldingExists
<1>4. Folded(ctx, base, D) = g[D] /\ Folded(ctx, base, rest) = h[rest]
  BY DEF Folded
<1>. HIDE DEF g, h
<1>5. g[rest] = h[rest]
  BY <1>1, <1>2, <1>3, FoldingsAgree
<1>6. g[D] = Step(ctx, Choose(D), g[rest])
  BY <1>2 DEF Folding, rest
<1>. QED  BY <1>4, <1>5, <1>6 DEF rest

-----------------------------------------------------------------------------
\* Recursion over a sequence, whose last element is added last: what the
\* library's folds over sequences are.

ChoosesLast == \A S : Choose(S) = CHOOSE x \in S : \A y \in S : x >= y

LEMMA LastOfInterval ==
  ASSUME ChoosesLast, NEW n \in Nat, NEW S \in SUBSET (1..n), S # {}
  PROVE  Choose(S) \in S /\ \A x \in S : x <= Choose(S)
<1>. DEFINE below == {n - x : x \in S}
<1>1. below \in SUBSET Nat /\ below # {}
  <2>1. \A x \in S : n - x \in Nat
    OBVIOUS
  <2>. QED  BY <2>1
<1>2. PICK least \in below : \A m \in below : least <= m
  <2>. HIDE DEF below
  <2>. QED  BY <1>1, LeastNatural
<1>3. PICK x \in S : least = n - x
  BY <1>2
<1>4. \A y \in S : x >= y
  <2>1. \A y \in S : least <= n - y
    BY <1>2
  <2>. QED  BY <1>3, <2>1
<1>5. Choose(S) = CHOOSE z \in S : \A y \in S : z >= y
  BY DEF ChoosesLast
<1>6. Choose(S) \in S /\ \A y \in S : Choose(S) >= y
  BY <1>4, <1>5
<1>7. \A y \in S : y \in Nat
  OBVIOUS
<1>. QED  BY <1>6, <1>7

LEMMA FoldedInterval ==
  ASSUME ChoosesLast, NEW ctx, NEW base, NEW n \in Nat, n # 0
  PROVE  Folded(ctx, base, 1..n) = Step(ctx, n, Folded(ctx, base, 1..(n - 1)))
<1>. DEFINE S == 1..n
<1>1. S # {} /\ Choose(S) = n
  <2>1. n \in S /\ S \in SUBSET (1..n)
    OBVIOUS
  <2>. HIDE DEF S
  <2>2. Choose(S) \in S /\ n <= Choose(S)
    BY <2>1, LastOfInterval
  <2>. QED  BY <2>1, <2>2 DEF S
<1>2. S \ {n} = 1..(n - 1)
  OBVIOUS
<1>3. IsFiniteSet(S)
  BY FS_Interval
<1>4. Chooses(S)
  BY LastOfInterval DEF Chooses
<1>. HIDE DEF S
<1>5. Folded(ctx, base, S) = Step(ctx, Choose(S), Folded(ctx, base, S \ {Choose(S)}))
  BY <1>1, <1>3, <1>4, FoldedStep
<1>. QED  BY <1>1, <1>2, <1>5 DEF S

\* What is folded later does not change what was folded before.
StepsAgree(c, d, n) == \A i \in 1..n : \A v : Step(c, i, v) = Step(d, i, v)

LEMMA FoldedSame ==
  ASSUME ChoosesLast, NEW c, NEW d, NEW base, NEW n \in Nat, StepsAgree(c, d, n)
  PROVE  Folded(c, base, 1..n) = Folded(d, base, 1..n)
<1>. DEFINE wrong == {k \in 0..n : Folded(c, base, 1..k) # Folded(d, base, 1..k)}
<1>. SUFFICES ASSUME wrong # {} PROVE FALSE
  <2>1. n \in 0..n
    OBVIOUS
  <2>2. wrong = {} => n \notin wrong
    OBVIOUS
  <2>. QED  BY <2>1, <2>2
<1>1. PICK k \in wrong : \A m \in wrong : k <= m
  <2>1. wrong \in SUBSET Nat
    OBVIOUS
  <2>. HIDE DEF wrong
  <2>. QED  BY <2>1, LeastNatural
<1>2. k \in 0..n /\ Folded(c, base, 1..k) # Folded(d, base, 1..k)
  BY <1>1
<1>3. k # 0
  <2>1. 1..0 = {}
    OBVIOUS
  <2>2. Folded(c, base, {}) = base /\ Folded(d, base, {}) = base
    BY FoldedEmpty
  <2>. QED  BY <1>2, <2>1, <2>2
<1>4. k - 1 \in 0..n /\ k - 1 \notin wrong
  BY <1>1, <1>2, <1>3
<1>5. Folded(c, base, 1..(k - 1)) = Folded(d, base, 1..(k - 1))
  BY <1>4
<1>. HIDE DEF wrong
<1>6. Folded(c, base, 1..k) = Step(c, k, Folded(c, base, 1..(k - 1)))
  BY <1>2, <1>3, FoldedInterval
<1>7. Folded(d, base, 1..k) = Step(d, k, Folded(d, base, 1..(k - 1)))
  BY <1>2, <1>3, FoldedInterval
<1>8. k \in 1..n
  BY <1>2, <1>3
<1>. QED  BY <1>2, <1>5, <1>6, <1>7, <1>8 DEF StepsAgree

\* A fold over a sequence that one element is appended to is one step from the
\* fold over the sequence.
LEMMA FoldedMore ==
  ASSUME ChoosesLast, NEW S, NEW s \in Seq(S), NEW x, NEW base,
         StepsAgree(Append(s, x), s, Len(s))
  PROVE  Folded(Append(s, x), base, 1..Len(Append(s, x)))
           = Step(Append(s, x), Len(s) + 1, Folded(s, base, 1..Len(s)))
<1>. DEFINE n == Len(s)
            more == Append(s, x)
<1>1. n \in Nat /\ n + 1 \in Nat /\ n + 1 # 0 /\ (n + 1) - 1 = n /\ Len(more) = n + 1
  OBVIOUS
<1>. HIDE DEF more, n
<1>2. Folded(more, base, 1..(n + 1)) = Step(more, n + 1, Folded(more, base, 1..n))
  BY <1>1, FoldedInterval
<1>3. Folded(more, base, 1..n) = Folded(s, base, 1..n)
  BY <1>1, FoldedSame DEF more, n
<1>. QED  BY <1>1, <1>2, <1>3 DEF more, n
=============================================================================

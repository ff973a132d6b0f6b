-------------------------- MODULE AccountingProofs --------------------------
(***************************************************************************)
(* What TLAPS proves about usage accounting, for any number of concurrent  *)
(* runs, agents, models and completions.  The argument is that a run's     *)
(* scope is the active one in its context exactly while it runs, so that   *)
(* its Usage object holds its own completions and nothing is added to them *)
(* once they are written down.                                             *)
(***************************************************************************)
EXTENDS Accounting, FiniteSetTheorems, TLAPS

-----------------------------------------------------------------------------
\* Sums over finite sets, as the report makes them.  The library defines a sum
\* as a fold, whose recursion module SetRecursion is about.

\* The element a sum takes first.
First(S) == CHOOSE x \in S : TRUE

AddTo(f, x, sum) == f[x] + sum

SumFold == INSTANCE SetRecursion WITH Step <- AddTo, Choose <- First

LEMMA FirstIn == ASSUME NEW S, S # {} PROVE First(S) \in S
BY DEF First

LEMMA SameFinite == ASSUME NEW S PROVE IsFiniteSet(S) <=> SumFold!IsFiniteSet(S)
BY DEF IsFiniteSet, SumFold!IsFiniteSet

\* A non-empty set of subsets of a finite set has a member that contains no
\* other.
LEMMA SmallestSet ==
  ASSUME NEW S, IsFiniteSet(S), NEW C \in SUBSET (SUBSET S), C # {}
  PROVE  \E T \in C : \A U \in C : ~(U \subseteq T /\ U # T)
BY SameFinite, SumFold!SmallestSet

LEMMA SumIsFold ==
  ASSUME NEW f, NEW S
  PROVE  SumFunctionOnSet(f, S) = SumFold!Folded(f, 0, S)
BY DEF SumFunctionOnSet, FoldFunctionOnSet, MapThenFoldSet, SumFold!Folded,
       SumFold!Folding, AddTo, First

-----------------------------------------------------------------------------
\* What a sum is.

LEMMA SumEmpty == ASSUME NEW f PROVE SumFunctionOnSet(f, {}) = 0
BY SumIsFold, SumFold!FoldedEmpty

LEMMA SumFirst ==
  ASSUME NEW f, NEW S, IsFiniteSet(S), S # {}
  PROVE  SumFunctionOnSet(f, S) = f[First(S)] + SumFunctionOnSet(f, S \ {First(S)})
<1>1. SumFold!IsFiniteSet(S) /\ SumFold!Chooses(S)
  BY SameFinite, FirstIn DEF SumFold!Chooses
<1>2. SumFold!Folded(f, 0, S) = AddTo(f, First(S), SumFold!Folded(f, 0, S \ {First(S)}))
  BY <1>1, SumFold!FoldedStep
<1>. QED  BY <1>2, SumIsFold DEF AddTo

\* A sum of naturals is a natural.
LEMMA SumNat ==
  ASSUME NEW f, NEW S, IsFiniteSet(S), \A x \in S : f[x] \in Nat
  PROVE  SumFunctionOnSet(f, S) \in Nat
<1>. DEFINE C == {s \in SUBSET S : SumFunctionOnSet(f, s) \notin Nat}
<1>. SUFFICES ASSUME C # {} PROVE FALSE
  OBVIOUS
<1>1. PICK T \in C : \A U \in C : ~(U \subseteq T /\ U # T)
  <2>1. C \in SUBSET (SUBSET S)
    OBVIOUS
  <2>. HIDE DEF C
  <2>. QED  BY <2>1, SmallestSet
<1>2. T \in SUBSET S /\ SumFunctionOnSet(f, T) \notin Nat
  BY <1>1
<1>3. T # {}
  BY <1>2, SumEmpty
<1>4. First(T) \in T
  BY <1>3, FirstIn
<1>5. T \ {First(T)} \notin C /\ T \ {First(T)} \in SUBSET S
  BY <1>1, <1>2, <1>4
<1>6. SumFunctionOnSet(f, T \ {First(T)}) \in Nat
  BY <1>5
<1>7. IsFiniteSet(T)
  BY <1>2, FS_Subset
<1>8. SumFunctionOnSet(f, T) = f[First(T)] + SumFunctionOnSet(f, T \ {First(T)})
  BY <1>3, <1>7, SumFirst
<1>9. f[First(T)] \in Nat
  BY <1>2, <1>4
<1>. QED  BY <1>2, <1>6, <1>8, <1>9

\* It does not matter which element is taken first.
LEMMA SumTake ==
  ASSUME NEW f, NEW S, IsFiniteSet(S), \A x \in S : f[x] \in Nat, NEW e \in S
  PROVE  SumFunctionOnSet(f, S) = f[e] + SumFunctionOnSet(f, S \ {e})
<1>. DEFINE Sum(s) == SumFunctionOnSet(f, s)
            C == {s \in SUBSET S : \E x \in s : Sum(s) # f[x] + Sum(s \ {x})}
<1>. SUFFICES ASSUME C # {} PROVE FALSE
  OBVIOUS
<1>. HIDE DEF Sum
<1>1. PICK T \in C : \A U \in C : ~(U \subseteq T /\ U # T)
  <2>1. C \in SUBSET (SUBSET S)
    OBVIOUS
  <2>. HIDE DEF C
  <2>. QED  BY <2>1, SmallestSet
<1>2. PICK x \in T : Sum(T) # f[x] + Sum(T \ {x})
  BY <1>1
<1>. DEFINE a == First(T)
<1>3. T \in SUBSET S /\ a \in T
  BY <1>1, <1>2, FirstIn
<1>4. \A s \in SUBSET S : IsFiniteSet(s) /\ Sum(s) \in Nat
  BY FS_Subset, SumNat DEF Sum
<1>5. Sum(T) = f[a] + Sum(T \ {a})
  BY <1>3, <1>4, SumFirst DEF Sum
<1>. HIDE DEF a
<1>6. a # x
  BY <1>2, <1>5
<1>7. Sum(T \ {a}) = f[x] + Sum((T \ {a}) \ {x})
  <2>1. T \ {a} \notin C /\ T \ {a} \in SUBSET S /\ x \in T \ {a}
    BY <1>1, <1>3, <1>6
  <2>. QED  BY <2>1
<1>8. Sum(T \ {x}) = f[a] + Sum((T \ {x}) \ {a})
  <2>1. T \ {x} \notin C /\ T \ {x} \in SUBSET S /\ a \in T \ {x}
    BY <1>1, <1>3, <1>6
  <2>. QED  BY <2>1
<1>9. (T \ {x}) \ {a} = (T \ {a}) \ {x} /\ (T \ {x}) \ {a} \in SUBSET S
  BY <1>3
<1>10. f[a] \in Nat /\ f[x] \in Nat /\ Sum((T \ {x}) \ {a}) \in Nat
  BY <1>3, <1>4, <1>9
<1>. QED  BY <1>2, <1>5, <1>7, <1>8, <1>9, <1>10

LEMMA SumAdd ==
  ASSUME NEW f, NEW S, IsFiniteSet(S), NEW e, e \notin S,
         \A x \in S \cup {e} : f[x] \in Nat
  PROVE  SumFunctionOnSet(f, S \cup {e}) = f[e] + SumFunctionOnSet(f, S)
<1>1. IsFiniteSet(S \cup {e})
  BY FS_AddElement
<1>2. (S \cup {e}) \ {e} = S
  OBVIOUS
<1>. QED  BY <1>1, <1>2, SumTake

\* Summands that are equal have equal sums.
LEMMA SumSame ==
  ASSUME NEW f, NEW g, NEW S, IsFiniteSet(S), \A x \in S : f[x] \in Nat /\ f[x] = g[x]
  PROVE  SumFunctionOnSet(f, S) = SumFunctionOnSet(g, S)
<1>. DEFINE C == {s \in SUBSET S : SumFunctionOnSet(f, s) # SumFunctionOnSet(g, s)}
<1>. SUFFICES ASSUME C # {} PROVE FALSE
  OBVIOUS
<1>1. PICK T \in C : \A U \in C : ~(U \subseteq T /\ U # T)
  <2>1. C \in SUBSET (SUBSET S)
    OBVIOUS
  <2>. HIDE DEF C
  <2>. QED  BY <2>1, SmallestSet
<1>2. T \in SUBSET S /\ SumFunctionOnSet(f, T) # SumFunctionOnSet(g, T)
  BY <1>1
<1>3. T # {}
  BY <1>2, SumEmpty
<1>4. First(T) \in T
  BY <1>3, FirstIn
<1>5. T \ {First(T)} \notin C /\ T \ {First(T)} \in SUBSET S
  BY <1>1, <1>2, <1>4
<1>6. SumFunctionOnSet(f, T \ {First(T)}) = SumFunctionOnSet(g, T \ {First(T)})
  BY <1>5
<1>7. IsFiniteSet(T)
  BY <1>2, FS_Subset
<1>8. f[First(T)] = g[First(T)]
  BY <1>2, <1>4
<1>9. /\ SumFunctionOnSet(f, T) = f[First(T)] + SumFunctionOnSet(f, T \ {First(T)})
      /\ SumFunctionOnSet(g, T) = g[First(T)] + SumFunctionOnSet(g, T \ {First(T)})
  BY <1>3, <1>7, SumFirst
<1>. QED  BY <1>2, <1>6, <1>8, <1>9

\* The sum over two sets that share nothing is the sum of their sums.
LEMMA SumUnion ==
  ASSUME NEW f, NEW S, IsFiniteSet(S), NEW R, IsFiniteSet(R), S \cap R = {},
         \A x \in S \cup R : f[x] \in Nat
  PROVE  SumFunctionOnSet(f, S \cup R) = SumFunctionOnSet(f, S) + SumFunctionOnSet(f, R)
<1>. DEFINE Sum(s) == SumFunctionOnSet(f, s)
            C == {s \in SUBSET S : Sum(s \cup R) # Sum(s) + Sum(R)}
<1>. SUFFICES ASSUME C # {} PROVE FALSE
  OBVIOUS
<1>1. PICK T \in C : \A U \in C : ~(U \subseteq T /\ U # T)
  <2>1. C \in SUBSET (SUBSET S)
    OBVIOUS
  <2>. HIDE DEF C
  <2>. QED  BY <2>1, SmallestSet
<1>2. T \in SUBSET S /\ Sum(T \cup R) # Sum(T) + Sum(R)
  BY <1>1
<1>3. \A s \in SUBSET S : IsFiniteSet(s) /\ IsFiniteSet(s \cup R) /\ Sum(s) \in Nat
  BY FS_Subset, FS_Union, SumNat
<1>4. Sum(R) \in Nat
  BY SumNat
<1>5. CASE T = {}
  <2>1. Sum({}) = 0 /\ {} \cup R = R
    BY SumEmpty
  <2>. HIDE DEF Sum
  <2>. QED  BY <1>2, <1>4, <1>5, <2>1
<1>6. CASE T # {}
  <2>1. PICK a \in T : TRUE
    BY <1>6
  <2>. DEFINE rest == T \ {a}
  <2>2. rest \in SUBSET S /\ rest \notin C /\ a \notin rest /\ a \notin R
    BY <1>1, <1>2, <2>1
  <2>3. Sum(rest \cup R) = Sum(rest) + Sum(R)
    BY <2>2
  <2>4. T = rest \cup {a} /\ T \cup R = (rest \cup R) \cup {a}
    BY <2>1
  <2>5. a \notin rest \cup R /\ f[a] \in Nat
    BY <1>2, <2>1, <2>2
  <2>. HIDE DEF rest, C
  <2>6. SumFunctionOnSet(f, rest \cup {a}) = f[a] + SumFunctionOnSet(f, rest)
    <3>1. IsFiniteSet(rest)
      BY <1>3, <2>2
    <3>2. \A x \in rest \cup {a} : f[x] \in Nat
      BY <1>2, <2>2, <2>5
    <3>. QED  BY <2>2, <3>1, <3>2, SumAdd
  <2>7. SumFunctionOnSet(f, (rest \cup R) \cup {a}) = f[a] + SumFunctionOnSet(f, rest \cup R)
    <3>1. IsFiniteSet(rest \cup R)
      BY <1>3, <2>2
    <3>2. \A x \in (rest \cup R) \cup {a} : f[x] \in Nat
      BY <1>2, <2>2, <2>5
    <3>. QED  BY <2>5, <3>1, <3>2, SumAdd
  <2>8. Sum(rest) \in Nat
    BY <1>3, <2>2
  <2>9. Sum(T) = f[a] + Sum(rest) /\ Sum(T \cup R) = f[a] + Sum(rest \cup R)
    BY <2>4, <2>6, <2>7
  <2>. HIDE DEF Sum
  <2>. QED  BY <1>2, <1>4, <2>3, <2>5, <2>8, <2>9
<1>. QED  BY <1>5, <1>6

\* What is summed over more is no less.
LEMMA SumGrows ==
  ASSUME NEW f, NEW S, IsFiniteSet(S), NEW R \in SUBSET S, \A x \in S : f[x] \in Nat
  PROVE  SumFunctionOnSet(f, R) <= SumFunctionOnSet(f, S)
<1>1. IsFiniteSet(R) /\ IsFiniteSet(S \ R)
  BY FS_Subset, FS_Difference
<1>2. R \cup (S \ R) = S /\ R \cap (S \ R) = {}
  OBVIOUS
<1>3. SumFunctionOnSet(f, R \cup (S \ R)) = SumFunctionOnSet(f, R) + SumFunctionOnSet(f, S \ R)
  BY <1>1, <1>2, SumUnion
<1>4. SumFunctionOnSet(f, R) \in Nat /\ SumFunctionOnSet(f, S \ R) \in Nat
  BY <1>1, SumNat
<1>5. SumFunctionOnSet(f, S) = SumFunctionOnSet(f, R) + SumFunctionOnSet(f, S \ R)
  BY <1>2, <1>3, Zenon
<1>. QED  BY <1>4, <1>5

-----------------------------------------------------------------------------
\* Sums by group.

Group(S, key, k) == {x \in S : key[x] = k}

\* The sums of the groups add up to the sum of the whole.
LEMMA SumOfGroups ==
  ASSUME NEW f, NEW S, IsFiniteSet(S), \A x \in S : f[x] \in Nat,
         NEW key, NEW K, IsFiniteSet(K), \A x \in S : key[x] \in K,
         NEW g, \A k \in K : g[k] = SumFunctionOnSet(f, Group(S, key, k))
  PROVE  SumFunctionOnSet(g, K) = SumFunctionOnSet(f, S)
<1>. DEFINE In(L) == {x \in S : key[x] \in L}
            C == {L \in SUBSET K : SumFunctionOnSet(g, L) # SumFunctionOnSet(f, In(L))}
<1>1. SUFFICES ASSUME C # {} PROVE FALSE
  <2>1. K \notin C
    BY <1>1
  <2>2. In(K) = S
    OBVIOUS
  <2>. HIDE DEF In
  <2>. QED  BY <2>1, <2>2
<1>2. PICK T \in C : \A U \in C : ~(U \subseteq T /\ U # T)
  <2>1. C \in SUBSET (SUBSET K)
    OBVIOUS
  <2>. HIDE DEF C
  <2>. QED  BY <1>1, <2>1, SmallestSet
<1>3. T \in SUBSET K /\ SumFunctionOnSet(g, T) # SumFunctionOnSet(f, In(T))
  BY <1>2
<1>4. T # {}
  <2>1. In({}) = {}
    OBVIOUS
  <2>. HIDE DEF In
  <2>. QED  BY <1>3, <2>1, SumEmpty
<1>5. PICK k \in T : TRUE
  BY <1>4
<1>. DEFINE rest == T \ {k}
<1>6. rest \in SUBSET K /\ rest \notin C
  BY <1>2, <1>3, <1>5
<1>7. SumFunctionOnSet(g, rest) = SumFunctionOnSet(f, In(rest))
  BY <1>6
<1>8. /\ In(T) = Group(S, key, k) \cup In(rest)
      /\ Group(S, key, k) \cap In(rest) = {}
  BY <1>5 DEF Group
<1>9. \A j \in K : Group(S, key, j) \in SUBSET S /\ IsFiniteSet(Group(S, key, j))
  BY FS_Subset DEF Group
<1>10. \A j \in K : g[j] \in Nat
  BY <1>9, SumNat
<1>11. IsFiniteSet(In(rest)) /\ In(rest) \in SUBSET S
  BY FS_Subset
<1>12. k \in K /\ IsFiniteSet(T)
  BY <1>3, <1>5, FS_Subset
<1>. HIDE DEF In, C
<1>13. SumFunctionOnSet(f, In(T)) =
         SumFunctionOnSet(f, Group(S, key, k)) + SumFunctionOnSet(f, In(rest))
  <2>1. \A x \in Group(S, key, k) \cup In(rest) : f[x] \in Nat
    BY <1>9, <1>11, <1>12
  <2>2. IsFiniteSet(Group(S, key, k))
    BY <1>9, <1>12
  <2>3. SumFunctionOnSet(f, Group(S, key, k) \cup In(rest)) =
          SumFunctionOnSet(f, Group(S, key, k)) + SumFunctionOnSet(f, In(rest))
    BY <1>8, <1>11, <2>1, <2>2, SumUnion
  <2>. QED  BY <1>8, <2>3
<1>14. SumFunctionOnSet(g, T) = g[k] + SumFunctionOnSet(g, rest)
  BY <1>3, <1>5, <1>10, <1>12, SumTake
<1>. QED  BY <1>3, <1>7, <1>12, <1>13, <1>14

\* A cardinality is a sum of ones.
LEMMA SumOfOnes ==
  ASSUME NEW f, NEW S, IsFiniteSet(S), \A x \in S : f[x] = 1
  PROVE  SumFunctionOnSet(f, S) = Cardinality(S)
<1>. DEFINE C == {s \in SUBSET S : SumFunctionOnSet(f, s) # Cardinality(s)}
<1>. SUFFICES ASSUME C # {} PROVE FALSE
  OBVIOUS
<1>1. PICK T \in C : \A U \in C : ~(U \subseteq T /\ U # T)
  <2>1. C \in SUBSET (SUBSET S)
    OBVIOUS
  <2>. HIDE DEF C
  <2>. QED  BY <2>1, SmallestSet
<1>2. T \in SUBSET S /\ SumFunctionOnSet(f, T) # Cardinality(T)
  BY <1>1
<1>3. T # {}
  BY <1>2, SumEmpty, FS_EmptySet
<1>4. First(T) \in T
  BY <1>3, FirstIn
<1>5. T \ {First(T)} \notin C /\ T \ {First(T)} \in SUBSET S
  BY <1>1, <1>2, <1>4
<1>6. SumFunctionOnSet(f, T \ {First(T)}) = Cardinality(T \ {First(T)})
  BY <1>5
<1>7. IsFiniteSet(T)
  BY <1>2, FS_Subset
<1>8. SumFunctionOnSet(f, T) = 1 + SumFunctionOnSet(f, T \ {First(T)})
  BY <1>2, <1>3, <1>4, <1>7, SumFirst
<1>9. Cardinality(T \ {First(T)}) = Cardinality(T) - 1 /\ Cardinality(T) \in Nat
  BY <1>4, <1>7, FS_RemoveElement, FS_CardinalityType
<1>. QED  BY <1>2, <1>6, <1>8, <1>9

-----------------------------------------------------------------------------
\* Shapes.

Places == {"new", "running", "record", "refresh", "rejected", "failed", "responded"}

ByModel == [AllModels -> ModelUsage]

Costs == {Cost(u) : u \in ByModel}

\* The shape of a row; its cost is whatever Cost makes of some usage.
RowShape == [run : Runs, agent : Agents, model : Models \cup {OtherModel},
             byModel : ByModel, cost : Costs]

Typing ==
  /\ pc \in [Runs -> Places]
  /\ request \in [Runs -> [agent : Agents, model : Models \cup {OtherModel}]]
  /\ current \in [Runs -> Runs \cup {NoScope}]
  /\ outer \in [Runs -> Runs \cup {NoScope}]
  /\ usage \in [Runs -> ByModel]
  /\ billed \in [Runs -> ByModel]
  /\ executions \in Seq(RowShape)

\* A run's scope is the active one in its context while it runs, and there
\* is none before and after.
Scoped ==
  \A r \in Runs :
    /\ pc[r] = "running" => current[r] = r /\ outer[r] = NoScope
    /\ pc[r] # "running" => current[r] = NoScope

\* The Usage object of a run holds what the provider charged for it.
Metered ==
  \A r \in Runs : usage[r] = billed[r] /\ (pc[r] = "new" => billed[r] = NoUsage)

\* Each row is true to its run, which makes no more calls.
Booked ==
  \A i \in Rows :
    /\ executions[i].byModel = billed[executions[i].run]
    /\ \A u \in ByModel : executions[i].byModel = u => executions[i].cost = Cost(u)
    /\ pc[executions[i].run] \in {"refresh", "responded", "failed"}

\* No run has two rows, and one that was written down has one.
Unique ==
  /\ \A i, j \in Rows : executions[i].run = executions[j].run => i = j
  /\ \A r \in Runs : pc[r] \in {"refresh", "responded"} => \E i \in Rows : executions[i].run = r

Books == Typing /\ Scoped /\ Metered /\ Booked /\ Unique

-----------------------------------------------------------------------------
LEMMA AddTyped ==
  ASSUME NEW u \in ByModel, NEW m, NEW tokens \in Nat
  PROVE  Add(u, m, tokens) \in ByModel
<1>1. ASSUME NEW n \in AllModels
      PROVE  [calls |-> u[n].calls + 1, tokens |-> u[n].tokens + tokens] \in ModelUsage
  <2>1. u[n] \in ModelUsage
    BY DEF ByModel
  <2>2. u[n].calls \in Nat /\ u[n].tokens \in Nat
    BY <2>1 DEF ModelUsage
  <2>. QED  BY <2>2 DEF ModelUsage
<1>. QED  BY <1>1 DEF Add, ByModel

LEMMA BooksInitial == Init => Books
<1>. SUFFICES ASSUME Init PROVE Books
  OBVIOUS
<1>1. NoUsage \in ByModel
  BY DEF NoUsage, ByModel, ModelUsage
<1>2. Typing
  BY <1>1 DEF Init, Typing, Places
<1>3. Rows = {}
  BY DEF Init, Rows
<1>4. Scoped /\ Metered
  BY DEF Init, Scoped, Metered
<1>. QED  BY <1>2, <1>3, <1>4, <1>1 DEF Init, Books, Booked, Unique

LEMMA RowsOfRuns == Typing => \A i \in Rows : executions[i].run \in Runs
<1>. SUFFICES ASSUME Typing, NEW i \in Rows PROVE executions[i].run \in Runs
  OBVIOUS
<1>1. executions[i] \in RowShape
  BY DEF Typing, Rows
<1>. QED  BY <1>1 DEF RowShape

\* A step that writes no row and changes no bill keeps the rows true, if the
\* runs that have one stay where runs with a row are.
LEMMA RowsUntouched ==
  ASSUME Booked, Unique, Typing, NEW r \in Runs, NEW place,
         pc' = [pc EXCEPT ![r] = place],
         \/ pc[r] = "refresh" /\ place \in {"responded", "failed"}
         \/ /\ pc[r] \notin {"refresh", "responded", "failed"}
            /\ place \notin {"refresh", "responded"},
         UNCHANGED <<executions, billed>>
  PROVE  Booked' /\ Unique'
<1>1. \A i \in Rows : executions[i].run \in Runs
  BY RowsOfRuns
<1>2. \A s \in Runs : pc'[s] = IF s = r THEN place ELSE pc[s]
  BY DEF Typing
<1>3. Booked'
  BY <1>1, <1>2 DEF Booked, Rows
<1>4. Unique'
  <2>1. \A i, j \in Rows' : executions'[i].run = executions'[j].run => i = j
    BY DEF Unique, Rows
  <2>2. ASSUME NEW s \in Runs, pc'[s] \in {"refresh", "responded"}
        PROVE  \E i \in Rows' : executions'[i].run = s
    <3>1. pc[s] \in {"refresh", "responded"}
      BY <1>2, <2>2
    <3>. QED  BY <3>1 DEF Unique, Rows
  <2>. QED  BY <2>1, <2>2 DEF Unique
<1>. QED  BY <1>3, <1>4

-----------------------------------------------------------------------------
\* One lemma per action that changes the books.

LEMMA BeginKeepsBooks ==
  ASSUME Books, NEW r \in Runs, Begin(r)
  PROVE  Books'
<1>1. Typing'
  <2>1. NoUsage \in ByModel
    BY DEF NoUsage, ByModel, ModelUsage
  <2>. QED  BY <2>1 DEF Books, Begin, Typing, Places, Context
<1>2. Scoped'
  BY DEF Books, Begin, Scoped, Typing, Context
<1>3. Metered'
  BY DEF Books, Begin, Metered, Typing
<1>4. Booked' /\ Unique'
  BY RowsUntouched DEF Books, Begin
<1>. QED  BY <1>1, <1>2, <1>3, <1>4 DEF Books

LEMMA CompleteKeepsBooks ==
  ASSUME Books, NEW r \in Runs, NEW m, Complete(r, m)
  PROVE  Books'
<1>1. PICK tokens \in {0, 1} :
        billed' = [billed EXCEPT ![r] = Add(@, m, tokens)] /\ Record(r, m, tokens)
  BY DEF Complete
<1>2. current[r] = r /\ r # NoScope
  BY AccountingAssumption DEF Books, Complete, Scoped, AccountingAssumption
<1>3. usage' = [usage EXCEPT ![r] = Add(@, m, tokens)]
  BY <1>1, <1>2 DEF Record, Context
<1>4. UNCHANGED <<pc, request, outer, current, executions>>
  BY DEF Complete
<1>5. pc[r] = "running"
  BY DEF Complete
<1>6. Typing'
  <2>1. Add(usage[r], m, tokens) \in ByModel /\ Add(billed[r], m, tokens) \in ByModel
    BY AddTyped DEF Books, Typing
  <2>. QED  BY <1>1, <1>3, <1>4, <2>1 DEF Books, Typing
<1>7. Scoped'
  BY <1>4 DEF Books, Scoped
<1>8. Metered'
  BY <1>1, <1>3, <1>4, <1>5 DEF Books, Metered, Typing
<1>9. Booked' /\ Unique'
  <2>1. \A i \in Rows : executions[i].run \in Runs \ {r}
    BY <1>5, RowsOfRuns DEF Books, Booked
  <2>2. \A s \in Runs \ {r} : billed'[s] = billed[s]
    BY <1>1 DEF Books, Typing
  <2>3. Booked'
    BY <1>4, <2>1, <2>2 DEF Books, Booked, Rows
  <2>4. Unique'
    BY <1>4 DEF Books, Unique, Rows
  <2>. QED  BY <2>3, <2>4
<1>. QED  BY <1>6, <1>7, <1>8, <1>9 DEF Books

\* The run ends, with its result or with an exception.
LEMMA CloseKeepsBooks ==
  ASSUME Books, NEW r \in Runs, LoopEnds(r) \/ LoopRaises(r)
  PROVE  Books'
<1>1. PICK place \in {"record", "failed"} : pc' = [pc EXCEPT ![r] = place]
  BY DEF LoopEnds, LoopRaises
<1>2. pc[r] = "running" /\ CloseScope(r) /\ UNCHANGED <<request, outer, billed, usage, executions>>
  BY DEF LoopEnds, LoopRaises
<1>3. current' = [current EXCEPT ![r] = NoScope]
  BY <1>2 DEF Books, Scoped, CloseScope, Context
<1>4. Typing'
  BY <1>1, <1>2, <1>3 DEF Books, Typing, Places
<1>5. Scoped'
  <2>1. \A s \in Runs : /\ current'[s] = IF s = r THEN NoScope ELSE current[s]
                        /\ s # r => pc'[s] = pc[s]
                        /\ pc'[r] # "running"
    BY <1>1, <1>3 DEF Books, Typing
  <2>. QED  BY <2>1, <1>2 DEF Books, Scoped
<1>6. Metered'
  BY <1>1, <1>2 DEF Books, Metered, Typing
<1>7. Booked' /\ Unique'
  BY <1>1, <1>2, RowsUntouched DEF Books
<1>. QED  BY <1>4, <1>5, <1>6, <1>7 DEF Books

LEMMA CommitKeepsBooks ==
  ASSUME Books, NEW r \in Runs, Commit(r)
  PROVE  Books'
<1>1. pc[r] = "record" /\ pc' = [pc EXCEPT ![r] = "refresh"]
  BY DEF Commit
<1>2. executions' = Append(executions, Row(r))
  BY DEF Commit
<1>3. UNCHANGED <<request, outer, billed, current, usage>>
  BY DEF Commit, scopes
<1>4. Row(r) \in RowShape
  <2>1. usage[r] \in ByModel /\ Cost(usage[r]) \in Costs
    BY DEF Costs, Books, Typing
  <2>. QED  BY <2>1 DEF Row, RowShape, Books, Typing
<1>5. executions \in Seq(RowShape)
  BY DEF Books, Typing
<1>6. Rows' = Rows \cup {Len(executions) + 1} /\ Len(executions) + 1 \notin Rows
  BY <1>2, <1>4, <1>5 DEF Rows
<1>7. \A i \in Rows : executions'[i] = executions[i]
  BY <1>2, <1>4, <1>5 DEF Rows
<1>8. executions'[Len(executions) + 1] = Row(r)
  BY <1>2, <1>4, <1>5
<1>9. Row(r).run = r /\ Row(r).byModel = usage[r] /\ Row(r).cost = Cost(usage[r])
  BY DEF Row
<1>10. \A i \in Rows : executions[i].run \in Runs \ {r}
  BY <1>1, RowsOfRuns DEF Books, Booked
<1>11. \A s \in Runs : pc'[s] = IF s = r THEN "refresh" ELSE pc[s]
  BY <1>1 DEF Books, Typing
<1>12. Typing'
  <2>1. executions' \in Seq(RowShape)
    BY <1>2, <1>4, <1>5
  <2>. QED  BY <1>1, <1>3, <2>1 DEF Books, Typing, Places
<1>13. Scoped'
  BY <1>1, <1>3, <1>11 DEF Books, Scoped
<1>14. Metered'
  BY <1>1, <1>3, <1>11 DEF Books, Metered
<1>15. Booked'
  <2>1. ASSUME NEW i \in Rows
        PROVE  /\ executions'[i].byModel = billed'[executions'[i].run]
               /\ \A u \in ByModel : executions'[i].byModel = u => executions'[i].cost = Cost(u)
               /\ pc'[executions'[i].run] \in {"refresh", "responded", "failed"}
    BY <1>3, <1>7, <1>10, <1>11, <2>1 DEF Books, Booked
  <2>2. usage[r] = billed[r]
    BY DEF Books, Metered
  <2>3. /\ executions'[Len(executions) + 1].byModel = billed'[r]
        /\ \A u \in ByModel : usage[r] = u => executions'[Len(executions) + 1].cost = Cost(u)
        /\ pc'[r] = "refresh"
    BY <1>3, <1>8, <1>9, <1>11, <2>2
  <2>. QED  BY <1>3, <1>6, <1>8, <1>9, <2>1, <2>2, <2>3 DEF Booked
<1>16. Unique'
  <2>1. \A i, j \in Rows' : executions'[i].run = executions'[j].run => i = j
    BY <1>6, <1>7, <1>8, <1>9, <1>10 DEF Books, Unique
  <2>2. ASSUME NEW s \in Runs, pc'[s] \in {"refresh", "responded"}
        PROVE  \E i \in Rows' : executions'[i].run = s
    <3>1. CASE s = r
      BY <1>6, <1>8, <1>9, <3>1
    <3>2. CASE s # r
      <4>1. PICK i \in Rows : executions[i].run = s
        BY <1>11, <2>2, <3>2 DEF Books, Unique
      <4>. QED  BY <1>6, <1>7, <4>1
    <3>. QED  BY <3>1, <3>2
  <2>. QED  BY <2>1, <2>2 DEF Unique
<1>. QED  BY <1>12, <1>13, <1>14, <1>15, <1>16 DEF Books

\* The steps that only move a run that is not running.
LEMMA MoveKeepsBooks ==
  ASSUME Books, NEW r \in Runs,
         Reject(r) \/ CommitFails(r) \/ Respond(r) \/ RefreshFails(r)
  PROVE  Books'
<1>1. PICK place \in {"rejected", "failed", "responded"} :
        /\ pc' = [pc EXCEPT ![r] = place]
        /\ \/ pc[r] = "refresh" /\ place \in {"responded", "failed"}
           \/ pc[r] \in {"new", "record"} /\ place \in {"rejected", "failed"}
  BY DEF Reject, CommitFails, Respond, RefreshFails
<1>2. UNCHANGED <<request, outer, billed, current, usage, executions>>
  BY DEF Reject, CommitFails, Respond, RefreshFails, scopes
<1>3. Typing'
  BY <1>1, <1>2 DEF Books, Typing, Places
<1>4. Scoped'
  BY <1>1, <1>2 DEF Books, Scoped, Typing
<1>5. Metered'
  BY <1>1, <1>2 DEF Books, Metered, Typing
<1>6. Booked' /\ Unique'
  BY <1>1, <1>2, RowsUntouched DEF Books
<1>. QED  BY <1>3, <1>4, <1>5, <1>6 DEF Books

LEMMA BooksPreserved == Books /\ [Next]_vars => Books'
<1>. SUFFICES ASSUME Books, [Next]_vars PROVE Books'
  OBVIOUS
<1>1. ASSUME NEW r \in Runs, Run(r) PROVE Books'
  BY <1>1, BeginKeepsBooks, CompleteKeepsBooks, CloseKeepsBooks, CommitKeepsBooks, MoveKeepsBooks
     DEF Run, LoopCall, RagCall
<1>2. CASE DeleteAgent \/ Report \/ UNCHANGED vars
  <2>1. UNCHANGED <<pc, request, outer, billed, current, usage, executions>>
    BY <1>2 DEF DeleteAgent, Report, QueryTotals, QueryByModel, QueryByAgent, vars, runVars, scopes
  <2>. QED  BY <2>1 DEF Books, Typing, Scoped, Metered, Booked, Unique, Rows
<1>. QED  BY <1>1, <1>2 DEF Next

LEMMA BooksInvariant == Spec => []Books
BY BooksInitial, BooksPreserved, PTL DEF Spec

-----------------------------------------------------------------------------
\* The properties.

\* A row holds what the provider charged for its own run.
THEOREM RowsAreTrue == Spec => []RowsMatchBilling
<1>1. Books => RowsMatchBilling
  BY DEF Books, Booked, RowsMatchBilling
<1>. QED  BY <1>1, BooksInvariant, PTL

\* A row's cost is what was charged, or null.
THEOREM CostsAreTrue == Spec => []CostIsWhatWasCharged
<1>1. Books => CostIsWhatWasCharged
  <2>. SUFFICES ASSUME Books, NEW i \in Rows
                PROVE  LET charged == billed[executions[i].run]
                       IN  executions[i].cost =
                             IF \A m \in AllModels : charged[m].calls > 0 => m \in Priced
                             THEN Tokens(charged) ELSE Null
    BY DEF CostIsWhatWasCharged
  <2>. DEFINE charged == billed[executions[i].run]
  <2>1. executions[i] \in RowShape
    BY DEF Books, Typing, Rows
  <2>3. executions[i].cost = Cost(charged)
    BY <2>1 DEF Books, Booked, RowShape
  <2>2. Used(charged) \subseteq Priced <=>
          \A m \in AllModels : charged[m].calls > 0 => m \in Priced
    BY DEF Used
  <2>. QED  BY <2>2, <2>3 DEF Cost
<1>. QED  BY <1>1, BooksInvariant, PTL

\* No run leaves its scope open.
THEOREM NoScopeLeaks == Spec => []ScopesClose
<1>1. Books => ScopesClose
  BY AccountingAssumption DEF Books, Scoped, ScopesClose, Context, AccountingAssumption
<1>. QED  BY <1>1, BooksInvariant, PTL

\* No run is billed twice, and none that was answered goes unbilled.
THEOREM RunsBilledOnce == Spec => []BilledOnce
<1>1. Books => BilledOnce
  <2>. SUFFICES ASSUME Books, NEW r \in Runs
                PROVE  LET rows == {i \in Rows : executions[i].run = r}
                       IN  /\ Cardinality(rows) <= 1
                           /\ pc[r] \in {"refresh", "responded"} => rows # {}
                           /\ pc[r] \in {"new", "rejected", "running", "record"} => rows = {}
    BY DEF BilledOnce
  <2>. DEFINE rows == {i \in Rows : executions[i].run = r}
  <2>1. Cardinality(rows) <= 1
    <3>1. CASE rows = {}
      BY <3>1, FS_EmptySet
    <3>2. CASE rows # {}
      <4>1. PICK i \in rows : TRUE
        BY <3>2
      <4>2. \A j \in rows : j = i
        BY <4>1 DEF Books, Unique
      <4>3. rows = {i}
        BY <4>1, <4>2
      <4>4. Cardinality(rows) = 1
        BY <4>3, FS_Singleton
      <4>. QED  BY <4>4
    <3>. QED  BY <3>1, <3>2
  <2>2. pc[r] \in {"refresh", "responded"} => rows # {}
    BY DEF Books, Unique
  <2>3. pc[r] \in {"new", "rejected", "running", "record"} => rows = {}
    BY DEF Books, Booked
  <2>. QED  BY <2>1, <2>2, <2>3
<1>. QED  BY <1>1, BooksInvariant, PTL

-----------------------------------------------------------------------------
\* Amounts and totals.

Amount == Nat \cup {Null}

Known(amounts) == {x \in DOMAIN amounts : amounts[x] # Null}

LEMMA SumAmountsIs ==
  ASSUME NEW amounts
  PROVE  SumAmounts(amounts) = IF Known(amounts) = {} THEN Null
                               ELSE SumFunctionOnSet(amounts, Known(amounts))
BY DEF SumAmounts, Known

LEMMA AmountTyped ==
  ASSUME NEW S, IsFiniteSet(S), NEW amounts \in [S -> Amount]
  PROVE  /\ SumAmounts(amounts) \in Amount
         /\ SumAmounts(amounts) = Null <=> Known(amounts) = {}
<1>1. Known(amounts) \in SUBSET S /\ \A x \in Known(amounts) : amounts[x] \in Nat
  BY DEF Known, Amount
<1>2. IsFiniteSet(Known(amounts))
  BY <1>1, FS_Subset
<1>3. SumFunctionOnSet(amounts, Known(amounts)) \in Nat
  BY <1>1, <1>2, SumNat
<1>. QED  BY <1>3, SumAmountsIs DEF Amount, Null

\* An amount summed over more is no less, a null one included.
LEMMA AmountsGrow ==
  ASSUME NEW S, IsFiniteSet(S), NEW R \in SUBSET S,
         NEW few \in [R -> Amount], NEW many \in [S -> Amount],
         \A x \in R : few[x] = many[x]
  PROVE  SumAmounts(few) <= SumAmounts(many)
<1>1. Known(few) \in SUBSET Known(many)
  BY DEF Known
<1>2. IsFiniteSet(R) /\ SumAmounts(few) \in Amount /\ SumAmounts(many) \in Amount
  BY FS_Subset, AmountTyped
<1>3. CASE Known(few) = {}
  BY <1>2, <1>3, AmountTyped DEF Amount, Null
<1>4. CASE Known(few) # {}
  <2>1. \A x \in Known(many) : many[x] \in Nat
    BY DEF Known, Amount
  <2>2. IsFiniteSet(Known(many))
    BY FS_Subset DEF Known
  <2>3. IsFiniteSet(Known(few))
    BY <1>1, <2>2, FS_Subset
  <2>4. SumFunctionOnSet(many, Known(few)) <= SumFunctionOnSet(many, Known(many))
    BY <1>1, <2>1, <2>2, SumGrows
  <2>5. \A x \in Known(few) : few[x] \in Nat /\ few[x] = many[x]
    BY DEF Known, Amount
  <2>6. SumFunctionOnSet(few, Known(few)) = SumFunctionOnSet(many, Known(few))
    BY <2>3, <2>5, SumSame
  <2>7. Known(many) # {}
    BY <1>1, <1>4
  <2>. QED  BY <1>4, <2>4, <2>6, <2>7, SumAmountsIs
<1>. QED  BY <1>3, <1>4

\* The amounts of the groups add up to the amount of the whole, null if all
\* of them are.
LEMMA AmountsOfGroups ==
  ASSUME NEW S, IsFiniteSet(S), NEW amounts \in [S -> Amount], NEW key,
         NEW K, IsFiniteSet(K), \A x \in S : key[x] \in K,
         NEW parts, DOMAIN parts = K,
         \A k \in K : parts[k] = SumAmounts([x \in Group(S, key, k) |-> amounts[x]])
  PROVE  SumAmounts(parts) = SumAmounts(amounts)
<1>. DEFINE part(k) == [x \in Group(S, key, k) |-> amounts[x]]
<1>1. ASSUME NEW k \in K
      PROVE  /\ Known(part(k)) = Group(Known(amounts), key, k)
             /\ part(k) \in [Group(S, key, k) -> Amount]
             /\ IsFiniteSet(Group(S, key, k))
             /\ parts[k] = SumAmounts(part(k))
  <2>1. Group(S, key, k) \in SUBSET S
    BY DEF Group
  <2>. QED  BY <2>1, FS_Subset DEF Known, Group
<1>2. \A k \in K : parts[k] = Null <=> Group(Known(amounts), key, k) = {}
  <2>. SUFFICES ASSUME NEW k \in K PROVE parts[k] = Null <=> Known(part(k)) = {}
    BY <1>1
  <2>. HIDE DEF part
  <2>. QED  BY <1>1, AmountTyped
<1>3. Known(parts) = {k \in K : Group(Known(amounts), key, k) # {}}
  BY <1>2 DEF Known
<1>4. Known(amounts) \in SUBSET S
  BY DEF Known
<1>5. CASE Known(amounts) = {}
  <2>1. Known(parts) = {}
    BY <1>3, <1>5 DEF Group
  <2>. QED  BY <1>5, <2>1, SumAmountsIs
<1>6. CASE Known(amounts) # {}
  <2>1. \A x \in Known(amounts) : key[x] \in Known(parts)
    BY <1>3, <1>4 DEF Group
  <2>2. Known(parts) # {}
    BY <1>6, <2>1
  <2>3. IsFiniteSet(Known(amounts)) /\ IsFiniteSet(Known(parts))
    <3>1. Known(parts) \in SUBSET K
      BY <1>3
    <3>. QED  BY <1>4, <3>1, FS_Subset
  <2>4. \A x \in Known(amounts) : amounts[x] \in Nat
    BY DEF Known, Amount
  <2>5. ASSUME NEW k \in Known(parts)
        PROVE  parts[k] = SumFunctionOnSet(amounts, Group(Known(amounts), key, k))
    <3>1. k \in K /\ Group(Known(amounts), key, k) # {}
      BY <1>3
    <3>2. parts[k] = SumFunctionOnSet(part(k), Group(Known(amounts), key, k))
      <4>1. parts[k] = SumAmounts(part(k)) /\ Known(part(k)) = Group(Known(amounts), key, k)
        BY <1>1, <3>1
      <4>. HIDE DEF part
      <4>. QED  BY <3>1, <4>1, SumAmountsIs
    <3>3. \A x \in Group(Known(amounts), key, k) :
            part(k)[x] \in Nat /\ part(k)[x] = amounts[x]
      BY <1>4, <2>4 DEF Group
    <3>4. IsFiniteSet(Group(Known(amounts), key, k))
      BY <2>3, FS_Subset DEF Group
    <3>. HIDE DEF part
    <3>. QED  BY <3>2, <3>3, <3>4, SumSame
  <2>6. SumFunctionOnSet(parts, Known(parts)) = SumFunctionOnSet(amounts, Known(amounts))
    BY <2>1, <2>3, <2>4, <2>5, SumOfGroups
  <2>. QED  BY <1>6, <2>2, <2>6, SumAmountsIs
<1>. QED  BY <1>5, <1>6

-----------------------------------------------------------------------------
\* What a usage and a row are.

LEMMA ModelsFinite == IsFiniteSet(AllModels)
BY AccountingAssumption, FS_AddElement DEF AccountingAssumption, AllModels

LEMMA UsageTyped ==
  ASSUME NEW u \in ByModel
  PROVE  Tokens(u) \in Nat /\ LlmCalls(u) \in Nat /\ Cost(u) \in Amount
<1>1. \A m \in AllModels : u[m].tokens \in Nat /\ u[m].calls \in Nat
  BY DEF ByModel, ModelUsage
<1>2. Tokens(u) \in Nat
  <2>. DEFINE f == [m \in AllModels |-> u[m].tokens]
  <2>1. DOMAIN f = AllModels /\ \A m \in AllModels : f[m] \in Nat
    BY <1>1
  <2>2. Tokens(u) = SumFunctionOnSet(f, DOMAIN f)
    BY DEF Tokens, SumFunction
  <2>. HIDE DEF f
  <2>. QED  BY <2>1, <2>2, ModelsFinite, SumNat
<1>3. LlmCalls(u) \in Nat
  <2>. DEFINE f == [m \in AllModels |-> u[m].calls]
  <2>1. DOMAIN f = AllModels /\ \A m \in AllModels : f[m] \in Nat
    BY <1>1
  <2>2. LlmCalls(u) = SumFunctionOnSet(f, DOMAIN f)
    BY DEF LlmCalls, SumFunction
  <2>. HIDE DEF f
  <2>. QED  BY <2>1, <2>2, ModelsFinite, SumNat
<1>. QED  BY <1>2, <1>3 DEF Cost, Amount

LEMMA RowTyped ==
  ASSUME Typing, NEW i \in Rows
  PROVE  /\ executions[i] \in RowShape
         /\ Tokens(executions[i].byModel) \in Nat
         /\ LlmCalls(executions[i].byModel) \in Nat
         /\ executions[i].cost \in Amount
<1>1. executions[i] \in RowShape
  BY DEF Typing, Rows
<1>2. executions[i].byModel \in ByModel /\ executions[i].cost \in Costs
  BY <1>1 DEF RowShape
<1>. QED  BY <1>1, <1>2, UsageTyped DEF Costs

-----------------------------------------------------------------------------
\* The lines of a report.

TokensOf(rows) == [i \in rows |-> Tokens(executions[i].byModel)]

CostsOf(rows) == [i \in rows |-> executions[i].cost]

LEMMA RowsFinite ==
  ASSUME Typing, NEW rows \in SUBSET Rows
  PROVE  IsFiniteSet(rows)
<1>1. Len(executions) \in Nat
  BY DEF Typing
<1>2. IsFiniteSet(Rows)
  BY <1>1, FS_Interval DEF Rows
<1>. QED  BY <1>2, FS_Subset

LEMMA LineTyped ==
  ASSUME Typing, NEW rows \in SUBSET Rows
  PROVE  /\ TokensOf(rows) \in [rows -> Nat] /\ CostsOf(rows) \in [rows -> Amount]
         /\ Totals(rows).executions = Cardinality(rows)
         /\ Totals(rows).tokens = SumFunctionOnSet(TokensOf(rows), rows)
         /\ Totals(rows).cost = SumAmounts(CostsOf(rows))
         /\ Totals(rows) \in TotalsType
<1>. DEFINE calls == [i \in rows |-> LlmCalls(executions[i].byModel)]
<1>1. \A i \in rows : /\ Tokens(executions[i].byModel) \in Nat
                      /\ LlmCalls(executions[i].byModel) \in Nat
                      /\ executions[i].cost \in Amount
  BY RowTyped
<1>2. TokensOf(rows) \in [rows -> Nat] /\ CostsOf(rows) \in [rows -> Amount]
  BY <1>1 DEF TokensOf, CostsOf
<1>3. calls \in [rows -> Nat]
  BY <1>1
<1>4. Totals(rows) = [executions |-> Cardinality(rows), calls |-> SumFunction(calls),
                      tokens |-> SumFunction(TokensOf(rows)),
                      cost |-> SumAmounts(CostsOf(rows))]
  BY DEF Totals, TokensOf, CostsOf
<1>. HIDE DEF calls
<1>5. IsFiniteSet(rows)
  BY RowsFinite
<1>6. Cardinality(rows) \in Nat
  BY <1>5, FS_CardinalityType
<1>7. SumFunction(calls) \in Nat
  BY <1>3, <1>5, SumNat DEF SumFunction
<1>8. /\ SumFunction(TokensOf(rows)) = SumFunctionOnSet(TokensOf(rows), rows)
      /\ SumFunction(TokensOf(rows)) \in Nat
  BY <1>2, <1>5, SumNat DEF SumFunction
<1>9. SumAmounts(CostsOf(rows)) \in Nat \cup {Null}
  BY <1>2, <1>5, AmountTyped DEF Amount
<1>. QED  BY <1>2, <1>4, <1>6, <1>7, <1>8, <1>9 DEF TotalsType

\* A line over more rows counts no less of anything.
LEMMA LinesGrow ==
  ASSUME Typing, NEW rows \in SUBSET Rows, NEW some \in SUBSET rows
  PROVE  /\ Totals(some).executions <= Totals(rows).executions
         /\ Totals(some).tokens <= Totals(rows).tokens
         /\ Totals(some).cost <= Totals(rows).cost
<1>1. some \in SUBSET Rows /\ IsFiniteSet(rows) /\ IsFiniteSet(some)
  BY RowsFinite
<1>2. Totals(some).executions <= Totals(rows).executions
  BY <1>1, LineTyped, FS_Subset
<1>3. Totals(some).tokens <= Totals(rows).tokens
  <2>1. /\ \A i \in rows : TokensOf(rows)[i] \in Nat
        /\ \A i \in some : TokensOf(some)[i] \in Nat /\ TokensOf(some)[i] = TokensOf(rows)[i]
    BY <1>1, LineTyped DEF TokensOf
  <2>2. SumFunctionOnSet(TokensOf(some), some) = SumFunctionOnSet(TokensOf(rows), some)
    BY <1>1, <2>1, SumSame
  <2>3. SumFunctionOnSet(TokensOf(rows), some) <= SumFunctionOnSet(TokensOf(rows), rows)
    BY <1>1, <2>1, SumGrows
  <2>. QED  BY <1>1, <2>2, <2>3, LineTyped
<1>4. Totals(some).cost <= Totals(rows).cost
  <2>1. \A i \in some : CostsOf(some)[i] = CostsOf(rows)[i]
    BY DEF CostsOf
  <2>2. CostsOf(some) \in [some -> Amount] /\ CostsOf(rows) \in [rows -> Amount]
    BY <1>1, LineTyped
  <2>3. SumAmounts(CostsOf(some)) <= SumAmounts(CostsOf(rows))
    BY <1>1, <2>1, <2>2, AmountsGrow
  <2>. QED  BY <1>1, <2>3, LineTyped
<1>. QED  BY <1>2, <1>3, <1>4

\* The lines of the rows grouped by a key.
IsBreakdown(lines, rows, key, K) ==
  /\ DOMAIN key = rows
  /\ K = {key[i] : i \in rows}
  /\ lines = [k \in K |-> Totals(Group(rows, key, k))]

AddsUpTo(lines, K, total) ==
  /\ SumFunction([k \in K |-> lines[k].executions]) = total.executions
  /\ SumFunction([k \in K |-> lines[k].tokens]) = total.tokens
  /\ SumAmounts([k \in K |-> lines[k].cost]) = total.cost

\* The lines of a breakdown add up to the line over all its rows.
LEMMA BreakdownAddsUp ==
  ASSUME Typing, NEW rows \in SUBSET Rows, NEW key, NEW K, NEW lines,
         IsBreakdown(lines, rows, key, K)
  PROVE  AddsUpTo(lines, K, Totals(rows))
<1>. USE DEF IsBreakdown
<1>1. \A k \in K : Group(rows, key, k) \in SUBSET rows /\ Group(rows, key, k) \in SUBSET Rows
  BY DEF Group
<1>2. IsFiniteSet(rows) /\ \A k \in K : IsFiniteSet(Group(rows, key, k))
  BY <1>1, RowsFinite
<1>3. IsFiniteSet(K)
  <2>1. [i \in rows |-> key[i]] \in Surjection(rows, K)
    BY DEF Surjection
  <2>. QED  BY <1>2, <2>1, FS_Surjection
<1>4. \A i \in rows : key[i] \in K
  OBVIOUS
<1>5. SumFunction([k \in K |-> lines[k].executions]) = Totals(rows).executions
  <2>. DEFINE ones == [i \in rows |-> 1]
              sizes == [k \in K |-> lines[k].executions]
  <2>1. \A i \in rows : ones[i] \in Nat /\ ones[i] = 1
    OBVIOUS
  <2>2. DOMAIN sizes = K /\ \A k \in K : sizes[k] = Cardinality(Group(rows, key, k))
    BY <1>1, LineTyped
  <2>. HIDE DEF ones, sizes
  <2>3. ASSUME NEW k \in K PROVE sizes[k] = SumFunctionOnSet(ones, Group(rows, key, k))
    <3>1. \A i \in Group(rows, key, k) : ones[i] = 1
      BY <1>1, <2>1
    <3>2. SumFunctionOnSet(ones, Group(rows, key, k)) = Cardinality(Group(rows, key, k))
      BY <1>2, <3>1, SumOfOnes
    <3>. QED  BY <2>2, <3>2
  <2>4. SumFunctionOnSet(sizes, K) = SumFunctionOnSet(ones, rows)
    BY <1>2, <1>3, <1>4, <2>1, <2>3, SumOfGroups
  <2>5. SumFunctionOnSet(ones, rows) = Cardinality(rows)
    BY <1>2, <2>1, SumOfOnes
  <2>6. SumFunction(sizes) = Cardinality(rows)
    BY <2>2, <2>4, <2>5 DEF SumFunction
  <2>7. Totals(rows).executions = Cardinality(rows)
    BY LineTyped
  <2>. QED  BY <2>6, <2>7 DEF sizes
<1>6. SumFunction([k \in K |-> lines[k].tokens]) = Totals(rows).tokens
  <2>. DEFINE sums == [k \in K |-> lines[k].tokens]
  <2>1. \A i \in rows : TokensOf(rows)[i] \in Nat
    BY LineTyped
  <2>2. DOMAIN sums = K
    OBVIOUS
  <2>3. ASSUME NEW k \in K
        PROVE  sums[k] = SumFunctionOnSet(TokensOf(rows), Group(rows, key, k))
    <3>. DEFINE group == Group(rows, key, k)
    <3>1. group \in SUBSET Rows /\ group \in SUBSET rows /\ IsFiniteSet(group)
      BY <1>1, <1>2
    <3>2. sums[k] = Totals(group).tokens
      OBVIOUS
    <3>. HIDE DEF group, sums
    <3>3. sums[k] = SumFunctionOnSet(TokensOf(group), group)
      BY <3>1, <3>2, LineTyped
    <3>4. \A i \in group : TokensOf(group)[i] \in Nat /\ TokensOf(group)[i] = TokensOf(rows)[i]
      BY <3>1, LineTyped DEF TokensOf
    <3>5. sums[k] = SumFunctionOnSet(TokensOf(rows), group)
      BY <3>1, <3>3, <3>4, SumSame
    <3>. QED  BY <3>5 DEF group
  <2>. HIDE DEF sums
  <2>4. SumFunctionOnSet(sums, K) = SumFunctionOnSet(TokensOf(rows), rows)
    BY <1>2, <1>3, <1>4, <2>1, <2>3, SumOfGroups
  <2>5. SumFunction(sums) = Totals(rows).tokens
    BY <2>2, <2>4, LineTyped DEF SumFunction
  <2>. QED  BY <2>5 DEF sums
<1>7. SumAmounts([k \in K |-> lines[k].cost]) = Totals(rows).cost
  <2>. DEFINE parts == [k \in K |-> lines[k].cost]
  <2>1. DOMAIN parts = K
    OBVIOUS
  <2>2. ASSUME NEW k \in K
        PROVE  parts[k] = SumAmounts([i \in Group(rows, key, k) |-> CostsOf(rows)[i]])
    <3>. DEFINE group == Group(rows, key, k)
    <3>1. group \in SUBSET Rows /\ group \in SUBSET rows
      BY <1>1
    <3>2. parts[k] = Totals(group).cost
      OBVIOUS
    <3>. HIDE DEF group, parts
    <3>3. parts[k] = SumAmounts(CostsOf(group))
      BY <3>1, <3>2, LineTyped
    <3>4. CostsOf(group) = [i \in group |-> CostsOf(rows)[i]]
      BY <3>1 DEF CostsOf
    <3>5. parts[k] = SumAmounts([i \in group |-> CostsOf(rows)[i]])
      BY <3>3, <3>4
    <3>. QED  BY <3>5 DEF group
  <2>. HIDE DEF parts
  <2>3. CostsOf(rows) \in [rows -> Amount]
    BY LineTyped
  <2>4. SumAmounts(parts) = SumAmounts(CostsOf(rows))
    BY <1>2, <1>3, <1>4, <2>1, <2>2, <2>3, AmountsOfGroups
  <2>5. SumAmounts(parts) = Totals(rows).cost
    BY <2>4, LineTyped
  <2>. QED  BY <2>5 DEF parts
<1>. QED  BY <1>5, <1>6, <1>7 DEF AddsUpTo

-----------------------------------------------------------------------------
\* The report and the models it names.

ByModelOf(n) ==
  [m \in {executions[i].model : i \in 1..n} |->
     Totals({i \in 1..n : executions[i].model = m})]

ByAgentOf(n) ==
  [a \in {executions[i].agent : i \in 1..n} |->
     Totals({i \in 1..n : executions[i].agent = a})]

\* Only a model the deployment serves gets as far as a row.
Served ==
  /\ agents \subseteq Agents
  /\ \A r \in Runs : pc[r] \notin {"new", "rejected"} => request[r].model \in Models
  /\ \A i \in Rows : executions[i].model \in Models

\* The totals are those of the first n rows, the breakdowns those of the
\* first k and of the first l: the table only grows, and if no row came since
\* the totals, they are all of it.
Reported ==
  /\ moved \in BOOLEAN
  /\ report.stage \in {"idle", "totals", "by_model", "done"}
  /\ report.stage # "idle" =>
       \E n, k, l \in 0..Len(executions) :
         /\ n <= k /\ k <= l
         /\ ~moved => n = Len(executions)
         /\ report.totals = Totals(1..n)
         /\ report.stage \in {"by_model", "done"} => report.byModel = ByModelOf(k)
         /\ report.stage = "done" => report.byAgent = ByAgentOf(l)

AllBooks == Books /\ Served /\ Reported

\* A line says the same as long as the rows it is over do.
LEMMA LinesKept ==
  ASSUME NEW n, \A i \in 1..n : executions'[i] = executions[i]
  PROVE  /\ Totals(1..n)' = Totals(1..n)
         /\ ByModelOf(n)' = ByModelOf(n)
         /\ ByAgentOf(n)' = ByAgentOf(n)
<1>1. ASSUME NEW rows \in SUBSET (1..n)
      PROVE  Totals(rows)' = Totals(rows)
  <2>1. /\ [i \in rows |-> LlmCalls(executions'[i].byModel)] = [i \in rows |-> LlmCalls(executions[i].byModel)]
        /\ [i \in rows |-> Tokens(executions'[i].byModel)] = [i \in rows |-> Tokens(executions[i].byModel)]
        /\ [i \in rows |-> executions'[i].cost] = [i \in rows |-> executions[i].cost]
    OBVIOUS
  <2>. QED  BY <2>1 DEF Totals
<1>2. Totals(1..n)' = Totals(1..n)
  BY <1>1
<1>3. ByModelOf(n)' = ByModelOf(n)
  <2>. DEFINE group(m) == {i \in 1..n : executions[i].model = m}
              K == {executions[i].model : i \in 1..n}
  <2>1. /\ {executions'[i].model : i \in 1..n} = K
        /\ \A m : {i \in 1..n : executions'[i].model = m} = group(m)
    OBVIOUS
  <2>2. ASSUME NEW m \in K, NEW rows, rows = group(m)
        PROVE  Totals(rows)' = Totals(rows)
    BY <1>1, <2>2
  <2>3. ByModelOf(n) = [m \in K |-> Totals(group(m))]
    BY DEF ByModelOf
  <2>. QED  BY <2>1, <2>2, <2>3 DEF ByModelOf
<1>4. ByAgentOf(n)' = ByAgentOf(n)
  <2>. DEFINE group(a) == {i \in 1..n : executions[i].agent = a}
              K == {executions[i].agent : i \in 1..n}
  <2>1. /\ {executions'[i].agent : i \in 1..n} = K
        /\ \A a : {i \in 1..n : executions'[i].agent = a} = group(a)
    OBVIOUS
  <2>2. ASSUME NEW a \in K, NEW rows, rows = group(a)
        PROVE  Totals(rows)' = Totals(rows)
    BY <1>1, <2>2
  <2>3. ByAgentOf(n) = [a \in K |-> Totals(group(a))]
    BY DEF ByAgentOf
  <2>. QED  BY <2>1, <2>2, <2>3 DEF ByAgentOf
<1>. QED  BY <1>2, <1>3, <1>4

\* What is reported stays true when rows are added behind it.
LEMMA ReportedKept ==
  ASSUME Reported, Len(executions) \in Nat, Len(executions') \in Nat,
         Len(executions) <= Len(executions'),
         \A i \in Rows : executions'[i] = executions[i],
         UNCHANGED report, moved' \in BOOLEAN,
         ~moved' => ~moved /\ Len(executions') = Len(executions)
  PROVE  Reported'
<1>1. CASE report.stage = "idle"
  BY <1>1 DEF Reported
<1>2. CASE report.stage # "idle"
  <2>1. PICK n, k, l \in 0..Len(executions) :
          /\ n <= k /\ k <= l
          /\ ~moved => n = Len(executions)
          /\ report.totals = Totals(1..n)
          /\ report.stage \in {"by_model", "done"} => report.byModel = ByModelOf(k)
          /\ report.stage = "done" => report.byAgent = ByAgentOf(l)
    BY <1>2 DEF Reported
  <2>2. \A m \in {n, k, l} : \A i \in 1..m : executions'[i] = executions[i]
    BY DEF Rows
  <2>3. Totals(1..n)' = Totals(1..n) /\ ByModelOf(k)' = ByModelOf(k) /\ ByAgentOf(l)' = ByAgentOf(l)
    <3>1. Totals(1..n)' = Totals(1..n)
      BY <2>2, LinesKept
    <3>2. ByModelOf(k)' = ByModelOf(k)
      BY <2>2, LinesKept
    <3>3. ByAgentOf(l)' = ByAgentOf(l)
      BY <2>2, LinesKept
    <3>. QED  BY <3>1, <3>2, <3>3
  <2>4. n \in 0..Len(executions') /\ k \in 0..Len(executions') /\ l \in 0..Len(executions')
    OBVIOUS
  <2>. QED  BY <1>2, <2>1, <2>3, <2>4 DEF Reported
<1>. QED  BY <1>1, <1>2

LEMMA RunKeepsReported ==
  ASSUME AllBooks, NEW r \in Runs, Run(r)
  PROVE  Served' /\ Reported'
<1>1. executions \in Seq(RowShape) /\ Len(executions) \in Nat
  BY DEF AllBooks, Books, Typing
<1>2. CASE Commit(r)
  <2>1. pc[r] = "record" /\ executions' = Append(executions, Row(r)) /\ moved' = TRUE
    BY <1>2 DEF Commit
  <2>2. UNCHANGED <<agents, request, report>> /\ pc' = [pc EXCEPT ![r] = "refresh"]
    BY <1>2 DEF Commit
  <2>3. Row(r) \in RowShape /\ Row(r).model = request[r].model
    <3>1. usage[r] \in ByModel /\ Cost(usage[r]) \in Costs
      BY DEF Costs, AllBooks, Books, Typing
    <3>. QED  BY <3>1 DEF Row, RowShape, AllBooks, Books, Typing
  <2>4. /\ Len(executions') = Len(executions) + 1
        /\ \A i \in Rows : executions'[i] = executions[i]
        /\ executions'[Len(executions) + 1] = Row(r)
    BY <1>1, <2>1, <2>3 DEF Rows
  <2>5. Served'
    <3>1. \A s \in Runs : pc'[s] \notin {"new", "rejected"} => request[s].model \in Models
      BY <2>1, <2>2 DEF AllBooks, Served, Books, Typing
    <3>2. request[r].model \in Models
      BY <2>1 DEF AllBooks, Served
    <3>3. \A i \in Rows' : i \in Rows \/ i = Len(executions) + 1
      BY <1>1, <2>4 DEF Rows
    <3>4. \A i \in Rows' : executions'[i].model \in Models
      BY <2>3, <2>4, <3>2, <3>3 DEF AllBooks, Served
    <3>. QED  BY <2>2, <3>1, <3>4 DEF AllBooks, Served
  <2>6. Reported'
    <3>1. Len(executions') \in Nat /\ Len(executions) <= Len(executions')
      BY <1>1, <2>4
    <3>2. moved' \in BOOLEAN /\ (~moved' => ~moved /\ Len(executions') = Len(executions))
      BY <2>1
    <3>3. Reported /\ UNCHANGED report
      BY <2>2 DEF AllBooks
    <3>. QED  BY <1>1, <2>4, <3>1, <3>2, <3>3, ReportedKept
  <2>. QED  BY <2>5, <2>6
<1>3. CASE ~Commit(r)
  <2>1. UNCHANGED <<agents, request, executions, report, moved>>
    BY <1>3 DEF Run, Reject, Begin, LoopCall, RagCall, Complete, LoopEnds, LoopRaises,
                CommitFails, Respond, RefreshFails, reportVars
  <2>2. Served'
    <3>1. \/ UNCHANGED pc
          \/ pc' = [pc EXCEPT ![r] = "rejected"]
          \/ \E place : /\ pc' = [pc EXCEPT ![r] = place]
                        /\ pc[r] \notin {"new", "rejected"} \/ request[r].model \in Models
      BY <1>3 DEF Run, Reject, Begin, LoopCall, RagCall, Complete, LoopEnds, LoopRaises,
                  CommitFails, Respond, RefreshFails
    <3>2. pc \in [Runs -> Places]
      BY DEF AllBooks, Books, Typing
    <3>3. \A s \in Runs : pc'[s] \notin {"new", "rejected"} => request[s].model \in Models
      BY <3>1, <3>2 DEF AllBooks, Served
    <3>. QED  BY <2>1, <3>3 DEF AllBooks, Served, Rows
  <2>3. Reported'
    <3>1. moved' \in BOOLEAN
      BY <2>1 DEF AllBooks, Reported
    <3>. QED  BY <1>1, <2>1, <3>1, ReportedKept DEF AllBooks
  <2>. QED  BY <2>2, <2>3
<1>. QED  BY <1>2, <1>3

LEMMA QueryKeepsReported ==
  ASSUME AllBooks, Report
  PROVE  Served' /\ Reported'
<1>1. Len(executions) \in Nat
  BY DEF AllBooks, Books, Typing
<1>. DEFINE all == Len(executions)
<1>2. UNCHANGED <<agents, pc, request, executions>>
  BY DEF Report, QueryTotals, QueryByModel, QueryByAgent, runVars
<1>3. Served'
  BY <1>2 DEF AllBooks, Served, Rows
<1>4. /\ Totals(1..all)' = Totals(1..all)
      /\ ByModelOf(all)' = ByModelOf(all)
      /\ ByAgentOf(all)' = ByAgentOf(all)
  BY <1>2 DEF Totals, ByModelOf, ByAgentOf
<1>5. CASE QueryTotals
  <2>1. /\ report'.stage = "totals"
        /\ report'.totals = Totals(1..all)
        /\ moved' = FALSE
    BY <1>5 DEF QueryTotals, Rows
  <2>2. PICK n \in 0..all : n = all /\ report'.totals = Totals(1..n)
    BY <1>1, <2>1
  <2>3. Totals(1..n)' = Totals(1..n)
    BY <1>2 DEF Totals
  <2>4. /\ n \in 0..Len(executions') /\ n <= n /\ n = Len(executions')
        /\ report'.totals = Totals(1..n)'
        /\ report'.stage \notin {"by_model", "done"}
    BY <1>1, <1>2, <2>1, <2>2, <2>3
  <2>. QED  BY <1>3, <2>1, <2>4 DEF Reported
<1>6. CASE QueryByModel
  <2>1. report.stage = "totals" /\ UNCHANGED moved
    BY <1>6 DEF QueryByModel
  <2>2. PICK n \in 0..all : report.totals = Totals(1..n) /\ (~moved => n = all)
    BY <2>1 DEF AllBooks, Reported
  <2>3. report'.stage = "by_model" /\ report'.totals = report.totals
    BY <1>6 DEF QueryByModel
  <2>4. report'.byModel = ByModelOf(all)
    BY <1>6 DEF QueryByModel, ByModelOf, Rows
  <2>5. Totals(1..n)' = Totals(1..n)
    BY <1>2 DEF Totals
  <2>6. moved' \in BOOLEAN
    BY <2>1 DEF AllBooks, Reported
  <2>. QED  BY <1>1, <1>2, <1>3, <1>4, <2>1, <2>2, <2>3, <2>4, <2>5, <2>6 DEF Reported
<1>7. CASE QueryByAgent
  <2>1. report.stage = "by_model" /\ UNCHANGED moved
    BY <1>7 DEF QueryByAgent
  <2>2. PICK n, k \in 0..all :
          n <= k /\ report.totals = Totals(1..n) /\ (~moved => n = all) /\ report.byModel = ByModelOf(k)
    BY <2>1 DEF AllBooks, Reported
  <2>3. report'.stage = "done" /\ report'.totals = report.totals /\ report'.byModel = report.byModel
    BY <1>7 DEF QueryByAgent
  <2>4. report'.byAgent = ByAgentOf(all)
    BY <1>7 DEF QueryByAgent, ByAgentOf, AgentsListed, Rows
  <2>5. Totals(1..n)' = Totals(1..n) /\ ByModelOf(k)' = ByModelOf(k)
    BY <1>2 DEF Totals, ByModelOf
  <2>6. moved' \in BOOLEAN
    BY <2>1 DEF AllBooks, Reported
  <2>. QED  BY <1>1, <1>2, <1>3, <1>4, <2>1, <2>2, <2>3, <2>4, <2>5, <2>6 DEF Reported
<1>. QED  BY <1>5, <1>6, <1>7 DEF Report

LEMMA AllBooksPreserved == AllBooks /\ [Next]_vars => AllBooks'
<1>. SUFFICES ASSUME AllBooks, [Next]_vars PROVE Served' /\ Reported'
  BY BooksPreserved DEF AllBooks
<1>1. Len(executions) \in Nat /\ moved \in BOOLEAN
  BY DEF AllBooks, Books, Typing, Reported
<1>2. ASSUME NEW r \in Runs, Run(r) PROVE Served' /\ Reported'
  BY <1>2, RunKeepsReported
<1>3. CASE DeleteAgent \/ UNCHANGED vars
  <2>1. UNCHANGED <<pc, request, executions, report, moved>> /\ agents' \subseteq agents
    BY <1>3 DEF DeleteAgent, vars, runVars, reportVars
  <2>2. Served'
    BY <2>1 DEF AllBooks, Served, Rows
  <2>. QED  BY <1>1, <2>1, <2>2, ReportedKept DEF AllBooks
<1>4. CASE Report
  BY <1>4, QueryKeepsReported
<1>. QED  BY <1>2, <1>3, <1>4 DEF Next

LEMMA AllBooksInvariant == Spec => []AllBooks
<1>1. Init => AllBooks
  <2>. SUFFICES ASSUME Init PROVE Served /\ Reported
    BY BooksInitial DEF AllBooks
  <2>1. Rows = {}
    BY DEF Init, Rows
  <2>2. Served
    BY <2>1 DEF Init, Served
  <2>3. Reported
    BY DEF Init, Reported
  <2>. QED  BY <2>2, <2>3
<1>. QED  BY <1>1, AllBooksPreserved, PTL DEF Spec

\* Every variable of the platform's books keeps its type; a row's cost is an
\* amount and so is a report's.
THEOREM TypeCorrect == Spec => []TypeOK
<1>1. AllBooks => TypeOK
  <2>. SUFFICES ASSUME AllBooks PROVE TypeOK
    OBVIOUS
  <2>1. executions \in Seq(RowType)
    <3>1. \A i \in Rows : executions[i] \in RowType
      <4>. SUFFICES ASSUME NEW i \in Rows PROVE executions[i] \in RowType
        OBVIOUS
      <4>1. executions[i] \in RowShape /\ executions[i].cost \in Amount
        BY RowTyped DEF AllBooks, Books
      <4>2. executions[i].model \in Models
        BY DEF AllBooks, Served
      <4>. QED  BY <4>1, <4>2 DEF RowShape, RowType, ByModel, Amount
    <3>2. executions \in Seq(RowShape)
      BY DEF AllBooks, Books, Typing
    <3>. QED  BY <3>1, <3>2 DEF Rows
  <2>2. report.stage # "idle" => report.totals \in TotalsType
    <3>. SUFFICES ASSUME report.stage # "idle" PROVE report.totals \in TotalsType
      OBVIOUS
    <3>1. PICK n \in 0..Len(executions) : report.totals = Totals(1..n)
      BY DEF AllBooks, Reported
    <3>2. 1..n \in SUBSET Rows
      BY DEF Rows, AllBooks, Books, Typing
    <3>. QED  BY <3>1, <3>2, LineTyped DEF AllBooks, Books
  <2>. QED  BY <2>1, <2>2 DEF TypeOK, AllBooks, Books, Typing, Served, Reported, ByModel, Places
<1>. QED  BY <1>1, AllBooksInvariant, PTL

\* A report's breakdowns add up to its totals, or to more if a run was
\* recorded between its queries.
THEOREM ReportsAddUp == Spec => []ReportAddsUp
<1>1. AllBooks => ReportAddsUp
  <2>. SUFFICES ASSUME AllBooks, report.stage = "done" PROVE ReportAddsUp
    BY DEF ReportAddsUp
  <2>. DEFINE all == Len(executions)
  <2>1. PICK n, k, l \in 0..all :
          /\ n <= k /\ k <= l
          /\ ~moved => n = all
          /\ report.totals = Totals(1..n)
          /\ report.byModel = ByModelOf(k)
          /\ report.byAgent = ByAgentOf(l)
    BY DEF AllBooks, Reported
  <2>2. Typing /\ all \in Nat
    BY DEF AllBooks, Books, Typing
  <2>3. /\ 1..l \in SUBSET Rows /\ 1..k \in SUBSET (1..l) /\ 1..n \in SUBSET (1..k)
        /\ 1..k \in SUBSET Rows
    BY <2>1, <2>2 DEF Rows
  <2>. DEFINE models == DOMAIN report.byModel
              of == DOMAIN report.byAgent
  <2>4. /\ SumFunction([m \in models |-> report.byModel[m].executions]) = Totals(1..k).executions
        /\ SumFunction([m \in models |-> report.byModel[m].tokens]) = Totals(1..k).tokens
        /\ SumAmounts([m \in models |-> report.byModel[m].cost]) = Totals(1..k).cost
    <3>. DEFINE key == [i \in 1..k |-> executions[i].model]
                K == {key[i] : i \in 1..k}
    <3>1. models = K /\ report.byModel = [m \in K |-> Totals(Group(1..k, key, m))]
      <4>1. K = {executions[i].model : i \in 1..k}
        OBVIOUS
      <4>2. \A m : Group(1..k, key, m) = {i \in 1..k : executions[i].model = m}
        BY DEF Group
      <4>. QED  BY <2>1, <4>1, <4>2 DEF ByModelOf
    <3>2. DOMAIN key = 1..k /\ K = {key[i] : i \in 1..k}
      OBVIOUS
    <3>. HIDE DEF key, K
    <3>3. IsBreakdown(report.byModel, 1..k, key, K)
      BY <3>1, <3>2 DEF IsBreakdown
    <3>4. AddsUpTo(report.byModel, K, Totals(1..k))
      BY <2>2, <2>3, <3>3, BreakdownAddsUp
    <3>. QED  BY <3>1, <3>4 DEF AddsUpTo
  <2>5. /\ SumFunction([a \in of |-> report.byAgent[a].executions]) = Totals(1..l).executions
        /\ SumFunction([a \in of |-> report.byAgent[a].tokens]) = Totals(1..l).tokens
        /\ SumAmounts([a \in of |-> report.byAgent[a].cost]) = Totals(1..l).cost
    <3>. DEFINE key == [i \in 1..l |-> executions[i].agent]
                K == {key[i] : i \in 1..l}
    <3>1. of = K /\ report.byAgent = [a \in K |-> Totals(Group(1..l, key, a))]
      <4>1. K = {executions[i].agent : i \in 1..l}
        OBVIOUS
      <4>2. \A a : Group(1..l, key, a) = {i \in 1..l : executions[i].agent = a}
        BY DEF Group
      <4>. QED  BY <2>1, <4>1, <4>2 DEF ByAgentOf
    <3>2. DOMAIN key = 1..l /\ K = {key[i] : i \in 1..l}
      OBVIOUS
    <3>. HIDE DEF key, K
    <3>3. IsBreakdown(report.byAgent, 1..l, key, K)
      BY <3>1, <3>2 DEF IsBreakdown
    <3>4. AddsUpTo(report.byAgent, K, Totals(1..l))
      BY <2>2, <2>3, <3>3, BreakdownAddsUp
    <3>. QED  BY <3>1, <3>4 DEF AddsUpTo
  <2>6. /\ Totals(1..n).executions <= Totals(1..k).executions
        /\ Totals(1..n).tokens <= Totals(1..k).tokens
        /\ Totals(1..n).cost <= Totals(1..k).cost
    BY <2>2, <2>3, LinesGrow
  <2>7. /\ Totals(1..k).executions <= Totals(1..l).executions
        /\ Totals(1..k).tokens <= Totals(1..l).tokens
        /\ Totals(1..k).cost <= Totals(1..l).cost
    BY <2>2, <2>3, LinesGrow
  <2>8. ~moved => n = l
    BY <2>1, <2>2
  <2>. HIDE DEF models, of
  <2>. QED  BY <2>1, <2>4, <2>5, <2>6, <2>7, <2>8 DEF ReportAddsUp, models, of
<1>. QED  BY <1>1, AllBooksInvariant, PTL

-----------------------------------------------------------------------------
\* The refinement of the ledger.

\* What a run has become, as the ledger has it: billed if it has a row.
LEMMA LifeIs ==
  /\ \A r \in Runs : (\E i \in Rows : executions[i].run = r) => Life[r] = "billed"
  /\ \A r \in Runs : ~(\E i \in Rows : executions[i].run = r) => Life[r] = Unbilled[pc[r]]
BY DEF Life

\* A run that is not over has no row.
LEMMA NoRowYet ==
  ASSUME Books, NEW r \in Runs, pc[r] \in {"new", "running", "record"}
  PROVE  ~(\E i \in Rows : executions[i].run = r)
BY DEF Books, Booked

\* A step that only moves a run without a row, without answering it, changes
\* that run's life and nothing else of what the ledger sees.
LEMMA OneLifeChanges ==
  ASSUME Books, NEW r \in Runs, pc[r] \in {"new", "running", "record"},
         \A s \in Runs : s # r => pc'[s] = pc[s], pc'[r] # "responded",
         executions' = executions
  PROVE  /\ Life[r] = Unbilled[pc[r]]
         /\ Life' = [Life EXCEPT ![r] = Unbilled[pc'[r]]]
         /\ Entries' = Entries /\ Told' = Told
<1>1. \A s \in Runs : (\E i \in Rows' : executions'[i].run = s) <=> (\E i \in Rows : executions[i].run = s)
  BY DEF Rows
<1>2. ~(\E i \in Rows : executions[i].run = r)
  BY NoRowYet
<1>3. Life[r] = Unbilled[pc[r]]
  BY <1>2, LifeIs
<1>4. Life' = [Life EXCEPT ![r] = Unbilled[pc'[r]]]
  <2>1. \A s \in Runs : Life'[s] = IF s = r THEN Unbilled[pc'[r]] ELSE Life[s]
    BY <1>1, <1>2 DEF Life, Unbilled
  <2>2. Life' = [s \in Runs |-> Life'[s]] /\ Life = [s \in Runs |-> Life[s]]
    BY DEF Life
  <2>. QED  BY <2>1, <2>2
<1>5. Told' = Told
  BY DEF Told
<1>6. Entries' = Entries
  BY DEF Entries, Rows
<1>. QED  BY <1>3, <1>4, <1>5, <1>6

\* A completion puts one more charge on the account of a run under way.
LEMMA CompleteIsSpend ==
  ASSUME Books, NEW r \in Runs, NEW m \in AllModels, Complete(r, m)
  PROVE  [TheLedger!LedgerNext]_(TheLedger!ledgerVars)
<1>1. pc[r] = "running" /\ UNCHANGED <<pc, executions>>
  BY DEF Complete
<1>2. PICK tokens \in {0, 1} : billed' = [billed EXCEPT ![r] = Add(billed[r], m, tokens)]
  BY DEF Complete
<1>3. Add(billed[r], m, tokens) \in OneMore(billed[r])
  <2>1. <<m, tokens>> \in AllModels \X {0, 1} /\ <<m, tokens>>[1] = m /\ <<m, tokens>>[2] = tokens
    OBVIOUS
  <2>. QED  BY <2>1 DEF OneMore
<1>4. Life[r] = "underway"
  BY <1>1, NoRowYet, LifeIs DEF Unbilled
<1>5. Life' = Life /\ Entries' = Entries /\ Told' = Told
  BY <1>1 DEF Life, Entries, Told, Rows
<1>6. TheLedger!Spend(r)
  BY <1>2, <1>3, <1>4, <1>5 DEF TheLedger!Spend
<1>. QED  BY <1>6 DEF TheLedger!LedgerNext

\* The commit enters a finished run with its whole account.
LEMMA CommitIsBill ==
  ASSUME Books, NEW r \in Runs, Commit(r)
  PROVE  [TheLedger!LedgerNext]_(TheLedger!ledgerVars)
<1>1. /\ pc[r] = "record" /\ pc' = [pc EXCEPT ![r] = "refresh"]
      /\ executions' = Append(executions, Row(r)) /\ UNCHANGED billed
  BY DEF Commit
<1>2. executions \in Seq(RowShape) /\ Row(r) \in RowShape
  <2>1. usage[r] \in ByModel /\ Cost(usage[r]) \in Costs
    BY DEF Costs, Books, Typing
  <2>. QED  BY <2>1 DEF Row, RowShape, Books, Typing
<1>3. Len(executions) \in Nat /\ Rows' = 1..(Len(executions) + 1)
  BY <1>1, <1>2 DEF Rows
<1>4. \A i \in Rows : executions'[i] = executions[i]
  BY <1>1, <1>2 DEF Rows
<1>5. executions'[Len(executions) + 1] = Row(r)
  BY <1>1, <1>2
<1>6. Row(r).run = r /\ Row(r).byModel = billed[r]
  BY DEF Row, Books, Metered
<1>7. Life[r] = "finished"
  BY <1>1, NoRowYet, LifeIs DEF Unbilled
<1>8. Life' = [Life EXCEPT ![r] = "billed"]
  <2>1. ASSUME NEW t \in Runs
        PROVE  (\E i \in Rows' : executions'[i].run = t) <=> (t = r \/ \E i \in Rows : executions[i].run = t)
    BY <1>3, <1>4, <1>5, <1>6 DEF Rows
  <2>2. ASSUME NEW t \in Runs PROVE Life'[t] = IF t = r THEN "billed" ELSE Life[t]
    <3>1. CASE t = r
      BY <2>1, <3>1 DEF Life
    <3>2. CASE t # r
      <4>1. pc'[t] = pc[t]
        BY <1>1, <3>2 DEF Books, Typing
      <4>. QED  BY <2>1, <3>2, <4>1 DEF Life, Unbilled
    <3>. QED  BY <3>1, <3>2
  <2>. QED  BY <2>2 DEF Life
<1>9. Entries' = Append(Entries, [run |-> r, account |-> billed[r]])
  <2>1. Entries \in Seq([run : Runs, account : ByModel])
    <3>1. ASSUME NEW i \in Rows PROVE Entries[i] \in [run : Runs, account : ByModel]
      <4>1. executions[i] \in RowShape
        BY <1>2, <3>1 DEF Rows
      <4>. QED  BY <4>1 DEF Entries, RowShape
    <3>. QED  BY <1>3, <3>1 DEF Entries, Rows
  <2>2. Len(Entries) = Len(executions)
    BY <1>3, <2>1 DEF Entries, Rows
  <2>3. [run |-> r, account |-> billed[r]] \in [run : Runs, account : ByModel]
    BY DEF Books, Typing
  <2>4. DOMAIN Append(Entries, [run |-> r, account |-> billed[r]]) = 1..(Len(executions) + 1)
    BY <1>3, <2>1, <2>2, <2>3
  <2>5. ASSUME NEW i \in Rows'
        PROVE  Entries'[i] = Append(Entries, [run |-> r, account |-> billed[r]])[i]
    <3>1. Entries'[i] = [run |-> executions'[i].run, account |-> executions'[i].byModel]
      BY <2>5 DEF Entries
    <3>2. CASE i \in Rows
      <4>1. Entries'[i] = Entries[i]
        BY <1>4, <3>1, <3>2 DEF Entries
      <4>. QED  BY <1>3, <2>1, <2>2, <2>3, <3>2, <4>1 DEF Rows
    <3>3. CASE i = Len(executions) + 1
      <4>1. Entries'[i] = [run |-> r, account |-> billed[r]]
        BY <1>5, <1>6, <3>1, <3>3
      <4>. QED  BY <1>3, <2>1, <2>2, <2>3, <3>3, <4>1
    <3>4. i \in Rows \/ i = Len(executions) + 1
      BY <1>3, <2>5 DEF Rows
    <3>. QED  BY <3>2, <3>3, <3>4
  <2>6. Append(Entries, [run |-> r, account |-> billed[r]]) \in Seq([run : Runs, account : ByModel])
    BY <2>1, <2>3
  <2>. DEFINE longer == Append(Entries, [run |-> r, account |-> billed[r]])
  <2>7. longer = [i \in Rows' |-> longer[i]]
    BY <1>3, <2>4, <2>6
  <2>8. Entries' = [i \in Rows' |-> Entries'[i]]
    BY DEF Entries
  <2>. HIDE DEF longer
  <2>9. \A i \in Rows' : Entries'[i] = longer[i]
    BY <2>5 DEF longer
  <2>10. Entries' = longer
    BY <2>7, <2>8, <2>9
  <2>. QED  BY <2>10 DEF longer
<1>10. Told' = Told
  <2>1. \A t \in Runs : t # r => pc'[t] = pc[t]
    BY <1>1 DEF Books, Typing
  <2>2. pc'[r] = "refresh"
    BY <1>1 DEF Books, Typing
  <2>. QED  BY <1>1, <2>1, <2>2 DEF Told
<1>11. TheLedger!Bill(r)
  BY <1>1, <1>7, <1>8, <1>9, <1>10 DEF TheLedger!Bill, TheLedger!Becomes
<1>. QED  BY <1>11 DEF TheLedger!LedgerNext

\* Each action of a run is one of the ledger, or changes nothing in it.
LEMMA RunKeepsLedger ==
  ASSUME Books, Served, NEW r \in Runs, Run(r)
  PROVE  [TheLedger!LedgerNext]_(TheLedger!ledgerVars)
<1>1. CASE Reject(r)
  <2>1. /\ pc[r] = "new" /\ pc'[r] = "rejected" /\ (\A s \in Runs : s # r => pc'[s] = pc[s])
        /\ executions' = executions /\ billed' = billed
    BY <1>1 DEF Reject, Books, Typing
  <2>2. /\ Life[r] = Unbilled[pc[r]]
        /\ Life' = [Life EXCEPT ![r] = Unbilled[pc'[r]]]
        /\ Entries' = Entries /\ Told' = Told
    BY <2>1, OneLifeChanges
  <2>3. Life[r] = "asked" /\ Life' = [Life EXCEPT ![r] = "refused"]
    BY <2>1, <2>2 DEF Unbilled
  <2>. QED  BY <2>1, <2>2, <2>3 DEF TheLedger!LedgerNext, TheLedger!Refuse, TheLedger!Becomes
<1>2. CASE Begin(r)
  <2>1. /\ pc[r] = "new" /\ pc'[r] = "running" /\ (\A s \in Runs : s # r => pc'[s] = pc[s])
        /\ executions' = executions /\ billed' = billed
    BY <1>2 DEF Begin, Books, Typing
  <2>2. /\ Life[r] = Unbilled[pc[r]]
        /\ Life' = [Life EXCEPT ![r] = Unbilled[pc'[r]]]
        /\ Entries' = Entries /\ Told' = Told
    BY <2>1, OneLifeChanges
  <2>3. Life[r] = "asked" /\ Life' = [Life EXCEPT ![r] = "underway"]
    BY <2>1, <2>2 DEF Unbilled
  <2>. QED  BY <2>1, <2>2, <2>3 DEF TheLedger!LedgerNext, TheLedger!Start, TheLedger!Becomes
<1>3. CASE LoopCall(r) \/ RagCall(r)
  <2>1. PICK m \in AllModels : Complete(r, m)
    BY <1>3 DEF LoopCall, RagCall, Complete, Served, AllModels
  <2>. QED  BY <2>1, CompleteIsSpend
<1>4. CASE LoopEnds(r)
  <2>1. /\ pc[r] = "running" /\ pc'[r] = "record" /\ (\A s \in Runs : s # r => pc'[s] = pc[s])
        /\ executions' = executions /\ billed' = billed
    BY <1>4 DEF LoopEnds, Books, Typing
  <2>2. /\ Life[r] = Unbilled[pc[r]]
        /\ Life' = [Life EXCEPT ![r] = Unbilled[pc'[r]]]
        /\ Entries' = Entries /\ Told' = Told
    BY <2>1, OneLifeChanges
  <2>3. Life[r] = "underway" /\ Life' = [Life EXCEPT ![r] = "finished"]
    BY <2>1, <2>2 DEF Unbilled
  <2>. QED  BY <2>1, <2>2, <2>3 DEF TheLedger!LedgerNext, TheLedger!Finish, TheLedger!Becomes
<1>5. CASE LoopRaises(r) \/ CommitFails(r)
  <2>1. /\ pc[r] \in {"running", "record"} /\ pc'[r] = "failed" /\ (\A s \in Runs : s # r => pc'[s] = pc[s])
        /\ executions' = executions /\ billed' = billed
    BY <1>5 DEF LoopRaises, CommitFails, Books, Typing
  <2>2. /\ Life[r] = Unbilled[pc[r]]
        /\ Life' = [Life EXCEPT ![r] = Unbilled[pc'[r]]]
        /\ Entries' = Entries /\ Told' = Told
    BY <2>1, OneLifeChanges
  <2>3. Life[r] \in {"underway", "finished"} /\ Life' = [Life EXCEPT ![r] = "failed"]
    BY <2>1, <2>2 DEF Unbilled
  <2>. QED  BY <2>1, <2>2, <2>3 DEF TheLedger!LedgerNext, TheLedger!Fail, TheLedger!Becomes
<1>6. CASE Commit(r)
  BY <1>6, CommitIsBill
<1>7. CASE Respond(r) \/ RefreshFails(r)
  <2>1. PICK place \in {"responded", "failed"} :
          /\ pc[r] = "refresh" /\ pc'[r] = place /\ (\A s \in Runs : s # r => pc'[s] = pc[s])
          /\ executions' = executions /\ billed' = billed
    BY <1>7 DEF Respond, RefreshFails, Books, Typing
  <2>2. Life[r] = "billed"
    BY <2>1, LifeIs DEF Books, Unique
  <2>3. Life' = Life
    <3>1. \A s \in Runs : Life'[s] = Life[s]
      BY <2>1 DEF Books, Unique, Life, Rows
    <3>. QED  BY <3>1 DEF Life
  <2>4. Entries' = Entries
    BY <2>1 DEF Entries, Rows
  <2>5. Told' = Told \/ Told' = Told \cup {r}
    BY <2>1 DEF Told
  <2>. QED  BY <2>1, <2>2, <2>3, <2>4, <2>5 DEF TheLedger!LedgerNext, TheLedger!Tell, TheLedger!ledgerVars
<1>. QED  BY <1>1, <1>2, <1>3, <1>4, <1>5, <1>6, <1>7 DEF Run

LEMMA StepKeepsLedger ==
  Books /\ Served /\ [Next]_vars => [TheLedger!LedgerNext]_(TheLedger!ledgerVars)
<1>. SUFFICES ASSUME Books, Served, [Next]_vars
              PROVE  [TheLedger!LedgerNext]_(TheLedger!ledgerVars)
  OBVIOUS
<1>1. ASSUME NEW r \in Runs, Run(r) PROVE [TheLedger!LedgerNext]_(TheLedger!ledgerVars)
  BY <1>1, RunKeepsLedger
<1>2. CASE DeleteAgent \/ Report \/ UNCHANGED vars
  <2>1. UNCHANGED <<pc, billed, executions>>
    BY <1>2 DEF DeleteAgent, Report, QueryTotals, QueryByModel, QueryByAgent, vars, runVars
  <2>2. UNCHANGED <<Life, billed, Entries, Told>>
    BY <2>1 DEF Life, Entries, Told, Rows
  <2>. QED  BY <2>2 DEF TheLedger!ledgerVars
<1>. QED  BY <1>1, <1>2 DEF Next

\* Accounting implements the Ledger, for any number of runs and however many
\* completions they make: billed once, for all of it, and answered only then.
THEOREM ImplementsLedger == Spec => KeepsTheLedger
<1>1. Init => TheLedger!LedgerInit
  <2>. SUFFICES ASSUME Init PROVE TheLedger!LedgerInit
    OBVIOUS
  <2>1. Rows = {} /\ Len(executions) = 0
    BY DEF Init, Rows
  <2>2. Life = [r \in Runs |-> "asked"] /\ Told = {}
    BY <2>1 DEF Init, Life, Told, Unbilled
  <2>3. Entries = <<>>
    BY <2>1 DEF Entries
  <2>. QED  BY <2>2, <2>3 DEF Init, TheLedger!LedgerInit
<1>2. AllBooks => Books /\ Served
  BY DEF AllBooks
<1>. QED
  BY <1>1, <1>2, AllBooksInvariant, StepKeepsLedger, PTL DEF Spec, KeepsTheLedger, TheLedger!LedgerSpec
=============================================================================

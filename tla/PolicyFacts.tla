----------------------------- MODULE PolicyFacts -----------------------------
(***************************************************************************)
(* Facts that the other proofs share.  About finite sets: induction by     *)
(* smallest counterexamples, sums, first members, and what is picked in an *)
(* order until it is enough.  MapThenSumSet is defined by a recursive      *)
(* function on the subsets of its argument, which takes the members in the *)
(* order of CHOOSE; the lemmas show what every such sum satisfies.  About  *)
(* the two policies built on such sets, for every queue and every fleet:   *)
(* the order in which the round robin serves the queue (FairOrder), and    *)
(* the devices that the placement policies pick (Placement).               *)
(***************************************************************************)
EXTENDS Placement, FairOrder, FiniteSetTheorems, WellFoundedInduction, TLAPS

\* Zenon is tried first, and SMT on what Zenon does not prove.
USE ZenonT(3), SMTT(20)

\* Induction on finite sets, without a predicate: a non-empty set of subsets of
\* a finite set, such as the counterexamples to a claim, has a smallest member.
LEMMA SmallestSet ==
  ASSUME NEW S, IsFiniteSet(S), NEW B \in SUBSET (SUBSET S), B # {}
  PROVE  \E T \in B : \A U \in B : U \subseteq T => U = T
<1>1. B \subseteq FiniteSubsetsOf(S)
  BY FS_Subset DEF FiniteSubsetsOf
<1>2. \E T \in B : \A U \in B : ~(<<U, T>> \in StrictSubsetOrdering(S))
  BY <1>1, WFMin, FS_StrictSubsetOrderingWellFounded
<1> QED BY <1>1, <1>2 DEF StrictSubsetOrdering, FiniteSubsetsOf

\* The same for natural numbers.
LEMMA SmallestNumber ==
  ASSUME NEW B \in SUBSET Nat, B # {}
  PROVE  \E n \in B : \A m \in B : n <= m
<1>1. \E n \in B : \A m \in B : ~(<<m, n>> \in OpToRel(<, Nat))
  BY WFMin, NatLessThanWellFounded
<1>2. \A m, n \in Nat : <<m, n>> \in OpToRel(<, Nat) <=> m < n
  BY Zenon DEF OpToRel
<1>3. \E n \in B : \A m \in B : ~(m < n)
  BY <1>1, <1>2, Zenon
<1> QED BY <1>3

-----------------------------------------------------------------------------
\* The sum of a function over a set of arguments.
Total(f, T) == MapThenSumSet(LAMBDA x : f[x], T)

AnyOf(s) == CHOOSE x \in s : TRUE

\* R maps every subset of T to its sum.
Solves(R, f, T) ==
  R = [s \in SUBSET T |-> IF s = {} THEN 0 ELSE f[AnyOf(s)] + R[s \ {AnyOf(s)}]]

\* The recursion over the subsets of a finite set has a solution: for every n
\* there is a function that satisfies it on the subsets of up to n members.
LEMMA SolutionExists ==
  ASSUME NEW T, IsFiniteSet(T), NEW f, \A x \in T : f[x] \in Int
  PROVE  \E R \in [SUBSET T -> Int] : Solves(R, f, T)
<1> DEFINE Body(R, s) == IF s = {} THEN 0 ELSE f[AnyOf(s)] + R[s \ {AnyOf(s)}]
           Upto(n) == \E R \in [SUBSET T -> Int] :
                        \A s \in SUBSET T : Cardinality(s) <= n => R[s] = Body(R, s)
           Bad == {n \in Nat : ~Upto(n)}
<1>0. \A s \in SUBSET T : IsFiniteSet(s) /\ Cardinality(s) \in Nat
  BY FS_Subset, FS_CardinalityType
<1>a. \A s \in SUBSET T : s # {} => AnyOf(s) \in s
  BY DEF AnyOf
<1>1. Upto(0)
  <2> DEFINE R == [s \in SUBSET T |-> 0]
  <2>1. R \in [SUBSET T -> Int]
    OBVIOUS
  <2>2. \A s \in SUBSET T : Cardinality(s) <= 0 => s = {}
    BY <1>0, FS_EmptySet
  <2>3. \A s \in SUBSET T : Cardinality(s) <= 0 => R[s] = Body(R, s)
    BY <2>2
  <2> HIDE DEF R, Body
  <2> QED BY <2>1, <2>3
<1>2. ASSUME NEW n \in Nat, Upto(n) PROVE Upto(n + 1)
  <2>1. PICK R \in [SUBSET T -> Int] :
          \A s \in SUBSET T : Cardinality(s) <= n => R[s] = Body(R, s)
    BY <1>2
  <2> DEFINE Q == [s \in SUBSET T |-> Body(R, s)]
  <2>2. \A s \in SUBSET T : Body(R, s) \in Int
    BY <1>a
  <2>3. Q \in [SUBSET T -> Int]
    BY <2>2
  <2>4. ASSUME NEW s \in SUBSET T, Cardinality(s) <= n + 1
        PROVE  Q[s] = Body(Q, s)
    <3>1. CASE s = {}
      BY <3>1
    <3>2. CASE s # {}
      <4>1. AnyOf(s) \in s /\ s \ {AnyOf(s)} \in SUBSET T
        BY <1>a, <3>2
      <4>2. Cardinality(s \ {AnyOf(s)}) <= n
        BY <1>0, <2>4, <4>1, FS_RemoveElement
      <4>3. R[s \ {AnyOf(s)}] = Body(R, s \ {AnyOf(s)})
        BY <2>1, <4>1, <4>2
      <4>4. Q[s \ {AnyOf(s)}] = R[s \ {AnyOf(s)}]
        BY <4>1, <4>3
      <4> QED BY <3>2, <4>4
    <3> QED BY <3>1, <3>2
  <2> HIDE DEF Q, Body
  <2> QED BY <2>3, <2>4
<1>3. Bad = {}
  <2> SUFFICES ASSUME Bad # {} PROVE FALSE
    OBVIOUS
  <2>1. PICK n \in Bad : \A m \in Bad : n <= m
    BY SmallestNumber
  <2>2. n \in Nat /\ ~Upto(n)
    OBVIOUS
  <2> HIDE DEF Upto
  <2>3. n # 0
    BY <1>1, <2>2
  <2>4. n - 1 \in Nat /\ n - 1 \notin Bad
    BY <2>1, <2>2, <2>3
  <2>5. Upto(n - 1)
    BY <2>4
  <2>6. Upto((n - 1) + 1)
    BY <1>2, <2>4, <2>5
  <2> QED BY <2>2, <2>6
<1>4. Upto(Cardinality(T))
  <2> HIDE DEF Upto
  <2> QED BY <1>0, <1>3
<1>5. PICK R \in [SUBSET T -> Int] :
        \A s \in SUBSET T : Cardinality(s) <= Cardinality(T) => R[s] = Body(R, s)
  BY <1>4
<1>6. \A s \in SUBSET T : R[s] = Body(R, s)
  BY <1>5, FS_Subset
<1>7. R = [s \in SUBSET T |-> Body(R, s)]
  BY <1>6
<1> QED BY <1>7 DEF Solves

\* Solutions for a set and for a subset of it agree where both are defined.
LEMMA SolutionsAgree ==
  ASSUME NEW T, IsFiniteSet(T), NEW U \in SUBSET T, NEW f, NEW g, \A x \in U : f[x] = g[x],
         NEW R, NEW Q, Solves(R, f, T), Solves(Q, g, U)
  PROVE  \A s \in SUBSET U : R[s] = Q[s]
<1> DEFINE Bad == {s \in SUBSET U : R[s] # Q[s]}
<1> SUFFICES ASSUME Bad # {} PROVE FALSE
  OBVIOUS
<1>0. IsFiniteSet(U) /\ Bad \in SUBSET (SUBSET U)
  BY FS_Subset
<1> HIDE DEF Bad
<1>1. PICK s \in Bad : \A t \in Bad : t \subseteq s => t = s
  BY <1>0, SmallestSet
<1> USE DEF Bad
<1>2. /\ R[s] = IF s = {} THEN 0 ELSE f[AnyOf(s)] + R[s \ {AnyOf(s)}]
      /\ Q[s] = IF s = {} THEN 0 ELSE g[AnyOf(s)] + Q[s \ {AnyOf(s)}]
  BY DEF Solves
<1>3. s # {}
  BY <1>2
<1>4. AnyOf(s) \in s
  BY <1>3 DEF AnyOf
<1>5. s \ {AnyOf(s)} \notin Bad
  BY <1>1, <1>4
<1>6. R[s \ {AnyOf(s)}] = Q[s \ {AnyOf(s)}]
  BY <1>5
<1>7. f[AnyOf(s)] = g[AnyOf(s)]
  BY <1>4
<1> QED BY <1>2, <1>3, <1>6, <1>7

\* MapThenSumSet chooses a solution; hence it has the properties of one.
LEMMA TotalSolves ==
  ASSUME NEW T, IsFiniteSet(T), NEW f, \A x \in T : f[x] \in Int
  PROVE  \E R \in [SUBSET T -> Int] : Solves(R, f, T) /\ Total(f, T) = R[T]
<1> DEFINE R == CHOOSE R : Solves(R, f, T)
<1>1. Total(f, T) = R[T]
  BY DEF Total, MapThenSumSet, MapThenFoldSet, Solves, AnyOf
<1>2. PICK Q \in [SUBSET T -> Int] : Solves(Q, f, T)
  BY SolutionExists
<1>3. Solves(R, f, T)
  BY <1>2
<1> HIDE DEF R
<1>4. \A s \in SUBSET T : R[s] = Q[s]
  BY <1>2, <1>3, SolutionsAgree
<1> QED BY <1>1, <1>2, <1>4

\* The sum over the empty set.
LEMMA TotalEmpty ==
  ASSUME NEW f
  PROVE  Total(f, {}) = 0
<1>1. \A x \in {} : f[x] \in Int
  OBVIOUS
<1>2. PICK R : Solves(R, f, {}) /\ Total(f, {}) = R[{}]
  BY <1>1, TotalSolves, FS_EmptySet
<1> QED BY <1>2 DEF Solves

\* A sum of integers is an integer.
LEMMA TotalType ==
  ASSUME NEW T, IsFiniteSet(T), NEW f, \A x \in T : f[x] \in Int
  PROVE  Total(f, T) \in Int
<1>1. PICK R \in [SUBSET T -> Int] : Solves(R, f, T) /\ Total(f, T) = R[T]
  BY TotalSolves
<1>2. T \in SUBSET T
  OBVIOUS
<1> QED BY <1>1, <1>2

\* The sum depends on nothing but the summands.
LEMMA TotalCongruence ==
  ASSUME NEW T, IsFiniteSet(T), NEW f, NEW g, \A x \in T : f[x] \in Int /\ g[x] = f[x]
  PROVE  Total(f, T) = Total(g, T)
<1>1. PICK R \in [SUBSET T -> Int] : Solves(R, f, T) /\ Total(f, T) = R[T]
  BY TotalSolves
<1>2. PICK Q \in [SUBSET T -> Int] : Solves(Q, g, T) /\ Total(g, T) = Q[T]
  BY TotalSolves
<1>3. \A s \in SUBSET T : R[s] = Q[s]
  BY <1>1, <1>2, SolutionsAgree
<1> QED BY <1>1, <1>2, <1>3

\* The member that the recursion takes first can be split off.
LEMMA TotalChosen ==
  ASSUME NEW T, IsFiniteSet(T), NEW f, \A x \in T : f[x] \in Int, T # {}
  PROVE  AnyOf(T) \in T /\ Total(f, T) = f[AnyOf(T)] + Total(f, T \ {AnyOf(T)})
<1> DEFINE U == T \ {AnyOf(T)}
<1>0. AnyOf(T) \in T
  BY DEF AnyOf
<1>1. PICK R \in [SUBSET T -> Int] : Solves(R, f, T) /\ Total(f, T) = R[T]
  BY TotalSolves
<1>2. U \in SUBSET T /\ IsFiniteSet(U) /\ \A x \in U : f[x] \in Int
  BY FS_Subset
<1> HIDE DEF U
<1>3. PICK Q \in [SUBSET U -> Int] : Solves(Q, f, U) /\ Total(f, U) = Q[U]
  BY <1>2, TotalSolves
<1>4. \A s \in SUBSET U : R[s] = Q[s]
  BY <1>1, <1>2, <1>3, SolutionsAgree
<1>5. R[T] = f[AnyOf(T)] + R[U]
  BY <1>1 DEF Solves, U
<1> QED BY <1>0, <1>1, <1>3, <1>4, <1>5 DEF U

\* Any member can be split off: the sum does not depend on the order in which
\* CHOOSE takes the members.
LEMMA TotalRemove ==
  ASSUME NEW T, IsFiniteSet(T), NEW f, \A x \in T : f[x] \in Int, NEW e \in T
  PROVE  Total(f, T) = f[e] + Total(f, T \ {e})
<1> DEFINE Bad == {U \in SUBSET T : \E x \in U : Total(f, U) # f[x] + Total(f, U \ {x})}
<1> SUFFICES ASSUME Bad # {} PROVE FALSE
  OBVIOUS
<1>0. Bad \in SUBSET (SUBSET T)
  OBVIOUS
<1> HIDE DEF Bad
<1>1. PICK U \in Bad : \A V \in Bad : V \subseteq U => V = U
  BY <1>0, SmallestSet
<1> USE DEF Bad
<1>2. PICK x \in U : Total(f, U) # f[x] + Total(f, U \ {x})
  OBVIOUS
<1>3. U \in SUBSET T /\ IsFiniteSet(U) /\ U # {}
  BY FS_Subset
<1> DEFINE c == AnyOf(U)
<1>4. c \in U /\ Total(f, U) = f[c] + Total(f, U \ {c})
  BY <1>3, TotalChosen
<1> HIDE DEF c
<1>5. c # x
  BY <1>2, <1>4
<1>6. U \ {c} \notin Bad /\ U \ {x} \notin Bad
  BY <1>1, <1>4
<1>7. Total(f, U \ {c}) = f[x] + Total(f, (U \ {c}) \ {x})
  BY <1>3, <1>5, <1>6
<1>8. Total(f, U \ {x}) = f[c] + Total(f, (U \ {x}) \ {c})
  BY <1>3, <1>4, <1>5, <1>6
<1>9. (U \ {c}) \ {x} = (U \ {x}) \ {c}
  OBVIOUS
<1>10. Total(f, (U \ {c}) \ {x}) \in Int /\ f[x] \in Int /\ f[c] \in Int
  <2>1. IsFiniteSet((U \ {c}) \ {x}) /\ \A y \in (U \ {c}) \ {x} : f[y] \in Int
    BY <1>3, FS_Subset
  <2> QED BY <1>3, <1>4, <2>1, TotalType
<1> HIDE DEF Bad
<1>11. Total(f, U) = f[c] + (f[x] + Total(f, (U \ {c}) \ {x}))
  BY <1>4, <1>7
<1>12. f[x] + Total(f, U \ {x}) = f[x] + (f[c] + Total(f, (U \ {c}) \ {x}))
  BY <1>8, <1>9
<1> QED BY <1>2, <1>10, <1>11, <1>12

\* A new member adds its summand.
LEMMA TotalAdd ==
  ASSUME NEW T, IsFiniteSet(T), NEW f, \A x \in T : f[x] \in Int,
         NEW e, e \notin T, f[e] \in Int
  PROVE  Total(f, T \cup {e}) = f[e] + Total(f, T)
<1>1. IsFiniteSet(T \cup {e}) /\ (T \cup {e}) \ {e} = T
  BY FS_AddElement
<1> QED BY <1>1, TotalRemove

\* A sum is the sum over a part and the sum over the rest.
LEMMA TotalUnion ==
  ASSUME NEW T, IsFiniteSet(T), NEW f, \A x \in T : f[x] \in Int, NEW U \in SUBSET T
  PROVE  Total(f, T) = Total(f, U) + Total(f, T \ U)
<1> DEFINE Bad == {V \in SUBSET U : Total(f, T) # Total(f, V) + Total(f, T \ V)}
<1>0. IsFiniteSet(U)
  BY FS_Subset
<1> SUFFICES ASSUME U \in Bad PROVE FALSE
  OBVIOUS
<1>0a. Bad \in SUBSET (SUBSET U) /\ Bad # {}
  OBVIOUS
<1> HIDE DEF Bad
<1>1. PICK V \in Bad : \A W \in Bad : W \subseteq V => W = V
  BY <1>0, <1>0a, SmallestSet
<1> USE DEF Bad
<1>1a. V \in SUBSET U /\ Total(f, T) # Total(f, V) + Total(f, T \ V)
  OBVIOUS
<1>2. V # {}
  <2> SUFFICES ASSUME V = {} PROVE FALSE
    OBVIOUS
  <2> HIDE DEF Bad
  <2>1. Total(f, T) \in Int
    BY TotalType
  <2>2. T \ V = T
    OBVIOUS
  <2>3. Total(f, V) = 0
    BY TotalEmpty
  <2> QED BY <1>1a, <2>1, <2>2, <2>3
<1>3. PICK x \in V : TRUE
  BY <1>2
<1> DEFINE W == V \ {x}
<1>4. Total(f, T) = Total(f, W) + Total(f, T \ W)
  BY <1>1, <1>1a, <1>3
<1>5. /\ IsFiniteSet(V) /\ IsFiniteSet(T \ V) /\ IsFiniteSet(W) /\ W \subseteq T
      /\ T \ W = (T \ V) \cup {x} /\ x \notin T \ V /\ V \subseteq T /\ x \in T
  BY <1>0, <1>1a, <1>3, FS_Subset
<1>6. Total(f, T \ W) = f[x] + Total(f, T \ V)
  BY <1>5, TotalAdd
<1>7. Total(f, V) = f[x] + Total(f, W)
  BY <1>5, TotalRemove
<1>8. Total(f, W) \in Int /\ Total(f, T \ V) \in Int /\ f[x] \in Int
  BY <1>5, TotalType
<1> QED BY <1>1a, <1>4, <1>6, <1>7, <1>8

\* A sum of natural numbers is one.
LEMMA TotalNat ==
  ASSUME NEW T, IsFiniteSet(T), NEW f, \A x \in T : f[x] \in Nat
  PROVE  Total(f, T) \in Nat
<1> DEFINE Bad == {V \in SUBSET T : Total(f, V) \notin Nat}
<1> SUFFICES ASSUME Bad # {} PROVE FALSE
  OBVIOUS
<1>0. Bad \in SUBSET (SUBSET T)
  OBVIOUS
<1> HIDE DEF Bad
<1>1. PICK V \in Bad : \A W \in Bad : W \subseteq V => W = V
  BY <1>0, SmallestSet
<1> USE DEF Bad
<1>2. V # {}
  BY TotalEmpty
<1>3. PICK x \in V : TRUE
  BY <1>2
<1>4. Total(f, V \ {x}) \in Nat
  BY <1>1, <1>3
<1>5. IsFiniteSet(V)
  BY FS_Subset
<1>6. Total(f, V) = f[x] + Total(f, V \ {x})
  BY <1>5, TotalRemove
<1> QED BY <1>4, <1>6

\* Any solution of the recursion gives the sum: how a MapThenSumSet whose summand
\* is not written as the application of a function is turned into a Total.
LEMMA SolutionIsTotal ==
  ASSUME NEW T, IsFiniteSet(T), NEW f, \A x \in T : f[x] \in Int, NEW R, Solves(R, f, T)
  PROVE  R[T] = Total(f, T)
<1>1. PICK Q \in [SUBSET T -> Int] : Solves(Q, f, T) /\ Total(f, T) = Q[T]
  BY TotalSolves
<1>2. \A s \in SUBSET T : R[s] = Q[s]
  BY <1>1, SolutionsAgree
<1> QED BY <1>1, <1>2

\* A larger set of natural numbers has a larger sum.
LEMMA TotalMonotone ==
  ASSUME NEW T, IsFiniteSet(T), NEW f, \A x \in T : f[x] \in Nat, NEW U \in SUBSET T
  PROVE  Total(f, U) <= Total(f, T)
<1>1. IsFiniteSet(U) /\ IsFiniteSet(T \ U)
  BY FS_Subset
<1>2. Total(f, U) \in Nat /\ Total(f, T \ U) \in Nat
  BY <1>1, TotalNat
<1>3. Total(f, T) = Total(f, U) + Total(f, T \ U)
  BY TotalUnion
<1> QED BY <1>2, <1>3

\* The members of disjoint sets, counted set by set.
LEMMA TotalOfDisjoint ==
  ASSUME NEW W, IsFiniteSet(W), NEW A, \A w \in W : IsFiniteSet(A[w]),
         \A v, w \in W : v # w => A[v] \cap A[w] = {}
  PROVE  LET f == [w \in W |-> Cardinality(A[w])]
             U == UNION {A[w] : w \in W}
         IN  IsFiniteSet(U) /\ Cardinality(U) = Total(f, W)
<1> DEFINE f == [w \in W |-> Cardinality(A[w])]
           Un(V) == UNION {A[w] : w \in V}
           Bad == {V \in SUBSET W : ~(IsFiniteSet(Un(V)) /\ Cardinality(Un(V)) = Total(f, V))}
<1> SUFFICES ASSUME Bad # {} PROVE FALSE
  OBVIOUS
<1>0. Bad \in SUBSET (SUBSET W)
  OBVIOUS
<1> HIDE DEF Bad
<1>1. PICK V \in Bad : \A U \in Bad : U \subseteq V => U = V
  BY <1>0, SmallestSet
<1> USE DEF Bad
<1>2. V \in SUBSET W /\ IsFiniteSet(V)
  BY FS_Subset
<1>3. V # {}
  <2> SUFFICES ASSUME V = {} PROVE FALSE
    OBVIOUS
  <2>1. Un(V) = {}
    OBVIOUS
  <2>2. Total(f, V) = 0
    BY TotalEmpty
  <2> QED BY <2>1, <2>2, FS_EmptySet
<1>4. PICK x \in V : TRUE
  BY <1>3
<1>5. IsFiniteSet(Un(V \ {x})) /\ Cardinality(Un(V \ {x})) = Total(f, V \ {x})
  <2>1. V \ {x} \in SUBSET W /\ V \ {x} \notin Bad
    BY <1>1, <1>2, <1>4
  <2> HIDE DEF Un, f
  <2> QED BY <2>1
<1>6. Un(V) = A[x] \cup Un(V \ {x}) /\ A[x] \cap Un(V \ {x}) = {}
  BY <1>2, <1>4
<1>7. \A w \in W : f[w] \in Nat /\ f[w] = Cardinality(A[w])
  BY FS_CardinalityType
<1>8. Total(f, V) = Cardinality(A[x]) + Total(f, V \ {x})
  <2> HIDE DEF f
  <2> QED BY <1>2, <1>4, <1>7, TotalRemove
<1>9. IsFiniteSet(A[x]) /\ Cardinality(A[x]) \in Nat /\ Cardinality(Un(V \ {x})) \in Nat
  BY <1>2, <1>4, <1>5, FS_CardinalityType
<1>10. IsFiniteSet(Un(V)) /\ Cardinality(Un(V)) = Cardinality(A[x]) + Cardinality(Un(V \ {x}))
  <2> HIDE DEF Un, f, Bad
  <2>1. /\ IsFiniteSet(A[x] \cup Un(V \ {x}))
        /\ Cardinality(A[x] \cup Un(V \ {x})) =
             Cardinality(A[x]) + Cardinality(Un(V \ {x})) - Cardinality(A[x] \cap Un(V \ {x}))
    BY <1>5, <1>9, FS_Union
  <2>2. Cardinality(A[x] \cap Un(V \ {x})) = 0
    BY <1>6, FS_EmptySet
  <2> QED BY <1>6, <1>9, <2>1, <2>2
<1> HIDE DEF Un, f
<1> QED BY <1>5, <1>8, <1>10

\* Two finite sets differ in size by what each has and the other has not.
LEMMA CardinalityGap ==
  ASSUME NEW S, IsFiniteSet(S), NEW T, IsFiniteSet(T)
  PROVE  Cardinality(S) - Cardinality(T) = Cardinality(S \ T) - Cardinality(T \ S)
<1>1. S \cap T = T \cap S
  OBVIOUS
<1>2. /\ Cardinality(S) \in Nat /\ Cardinality(T) \in Nat
      /\ IsFiniteSet(S \cap T) /\ Cardinality(S \cap T) \in Nat
  BY FS_CardinalityType, FS_Intersection
<1>3. /\ Cardinality(S \ T) = Cardinality(S) - Cardinality(S \cap T)
      /\ Cardinality(T \ S) = Cardinality(T) - Cardinality(T \cap S)
  BY FS_Difference
<1> QED BY <1>1, <1>2, <1>3

ImageOf(h, I) == {h[i] : i \in I}

\* Summing over indices is summing over what they stand for, when no two stand
\* for the same.
LEMMA TotalOfImage ==
  ASSUME NEW I, IsFiniteSet(I), NEW h, \A i, j \in I : h[i] = h[j] => i = j,
         NEW f, NEW g, \A i \in I : f[h[i]] \in Int /\ g[i] = f[h[i]]
  PROVE  /\ IsFiniteSet(ImageOf(h, I))
         /\ Cardinality(ImageOf(h, I)) = Cardinality(I)
         /\ Total(f, ImageOf(h, I)) = Total(g, I)
<1> DEFINE H(J) == ImageOf(h, J)
           P(J) == /\ IsFiniteSet(H(J))
                   /\ Cardinality(H(J)) = Cardinality(J)
                   /\ Total(f, H(J)) = Total(g, J)
           Bad == {J \in SUBSET I : ~P(J)}
<1> SUFFICES ASSUME Bad # {} PROVE FALSE
  OBVIOUS
<1>0. Bad \in SUBSET (SUBSET I)
  OBVIOUS
<1> HIDE DEF Bad
<1>1. PICK J \in Bad : \A K \in Bad : K \subseteq J => K = J
  BY <1>0, SmallestSet
<1>2. J \in SUBSET I /\ IsFiniteSet(J) /\ ~P(J)
  BY FS_Subset DEF Bad
<1>3. P({})
  <2>1. H({}) = {}
    BY DEF ImageOf
  <2> HIDE DEF H
  <2> QED BY <2>1, FS_EmptySet, TotalEmpty
<1>4. PICK i \in J : TRUE
  <2> HIDE DEF P
  <2> QED BY <1>2, <1>3
<1> DEFINE K == J \ {i}
<1>5. K \in SUBSET I /\ IsFiniteSet(K) /\ P(K)
  <2>1. K \in SUBSET I /\ K \notin Bad
    BY <1>1, <1>2, <1>4
  <2>2. IsFiniteSet(K)
    BY <1>2, FS_Subset
  <2> HIDE DEF P, K
  <2> QED BY <2>1, <2>2 DEF Bad
<1>6. H(J) = H(K) \cup {h[i]} /\ h[i] \notin H(K) /\ i \in I
  BY <1>2, <1>4 DEF ImageOf
<1>7. \A x \in H(K) : f[x] \in Int
  BY <1>5 DEF ImageOf
<1>8. J = K \cup {i} /\ i \notin K
  BY <1>4
<1> HIDE DEF H, K
<1>9. IsFiniteSet(H(J)) /\ Cardinality(H(J)) = Cardinality(K) + 1
  <2>1. IsFiniteSet(H(K)) /\ Cardinality(H(K)) = Cardinality(K)
    BY <1>5
  <2> HIDE DEF P
  <2>2. IsFiniteSet(H(K) \cup {h[i]})
        /\ Cardinality(H(K) \cup {h[i]}) = Cardinality(H(K)) + 1
    BY <1>6, <2>1, FS_AddElement
  <2> QED BY <1>6, <2>1, <2>2
<1>10. Cardinality(J) = Cardinality(K) + 1
  BY <1>5, <1>8, FS_AddElement
<1>11. Total(f, H(J)) = f[h[i]] + Total(f, H(K))
  BY <1>5, <1>6, <1>7, TotalAdd
<1>12. Total(g, J) = g[i] + Total(g, K)
  BY <1>5, <1>6, <1>8, TotalAdd
<1> QED BY <1>2, <1>5, <1>6, <1>9, <1>10, <1>11, <1>12

\* Bounds on the summands bound the sum.
LEMMA TotalBounds ==
  ASSUME NEW T, IsFiniteSet(T), NEW f, NEW lo \in Int, NEW hi \in Int,
         \A x \in T : f[x] \in Int /\ lo <= f[x] /\ f[x] <= hi
  PROVE  Cardinality(T) * lo <= Total(f, T) /\ Total(f, T) <= Cardinality(T) * hi
<1> DEFINE P(V) == Cardinality(V) * lo <= Total(f, V) /\ Total(f, V) <= Cardinality(V) * hi
           Bad == {V \in SUBSET T : ~P(V)}
<1> SUFFICES ASSUME Bad # {} PROVE FALSE
  OBVIOUS
<1>0. Bad \in SUBSET (SUBSET T)
  OBVIOUS
<1> HIDE DEF Bad
<1>1. PICK V \in Bad : \A W \in Bad : W \subseteq V => W = V
  BY <1>0, SmallestSet
<1>2. V \in SUBSET T /\ IsFiniteSet(V) /\ ~P(V)
  BY FS_Subset DEF Bad
<1>3. P({})
  BY FS_EmptySet, TotalEmpty
<1>4. PICK x \in V : TRUE
  <2> HIDE DEF P
  <2> QED BY <1>2, <1>3
<1> DEFINE W == V \ {x}
<1>5. IsFiniteSet(W) /\ W \in SUBSET T
  BY <1>2, FS_Subset
<1>6. P(W)
  <2>1. W \notin Bad
    BY <1>1, <1>4
  <2> HIDE DEF P, W
  <2> QED BY <1>5, <2>1 DEF Bad
<1>7. Total(f, V) = f[x] + Total(f, W)
  BY <1>2, TotalRemove
<1> HIDE DEF W
<1>8. Total(f, W) \in Int /\ f[x] \in Int /\ lo <= f[x] /\ f[x] <= hi
  BY <1>2, <1>5, TotalType
<1> DEFINE n == Cardinality(W)
<1>9. n \in Nat /\ Cardinality(V) = n + 1
  BY <1>2, <1>4, <1>5, FS_CardinalityType, FS_RemoveElement DEF W
<1>10. (n + 1) * lo = n * lo + lo /\ (n + 1) * hi = n * hi + hi
  <2> HIDE DEF n
  <2> QED BY <1>9
<1>11. n * lo \in Int /\ n * hi \in Int
  <2> HIDE DEF n
  <2> QED BY <1>9
<1> QED BY <1>2, <1>6, <1>7, <1>8, <1>9, <1>10, <1>11

-----------------------------------------------------------------------------
\* A finite set that is totally ordered by a relation, given as a set of pairs,
\* has a first member.
LEMMA FirstExists ==
  ASSUME NEW S, IsFiniteSet(S), S # {}, NEW B,
         \A x, y \in S : x # y => <<x, y>> \in B \/ <<y, x>> \in B,
         \A x, y, z \in S : <<x, y>> \in B /\ <<y, z>> \in B => <<x, z>> \in B
  PROVE  \E x \in S : \A y \in S \ {x} : <<x, y>> \in B
<1> DEFINE First(T, x) == \A y \in T \ {x} : <<x, y>> \in B
           Bad == {T \in SUBSET S : T # {} /\ ~\E x \in T : First(T, x)}
<1> SUFFICES ASSUME Bad # {} PROVE FALSE
  OBVIOUS
<1>0. Bad \in SUBSET (SUBSET S)
  OBVIOUS
<1> HIDE DEF Bad
<1>1. PICK T \in Bad : \A U \in Bad : U \subseteq T => U = T
  BY <1>0, SmallestSet
<1>2. T \in SUBSET S /\ T # {} /\ ~\E x \in T : First(T, x)
  BY DEF Bad
<1>3. PICK x \in T : TRUE
  BY <1>2
<1> DEFINE U == T \ {x}
<1>4. U # {}
  BY <1>2, <1>3
<1>5. PICK y \in U : First(U, y)
  <2>1. U \in SUBSET S /\ U \notin Bad
    BY <1>1, <1>2, <1>3
  <2> HIDE DEF First, U
  <2> QED BY <1>4, <2>1 DEF Bad
<1>6. x \in S /\ y \in S /\ x # y /\ y \in T
  BY <1>2, <1>3, <1>5
<1>7. CASE <<y, x>> \in B
  BY <1>2, <1>5, <1>6, <1>7
<1>8. CASE <<x, y>> \in B
  <2>1. \A z \in T \ {x} : <<x, z>> \in B
    BY <1>2, <1>5, <1>6, <1>8
  <2> QED BY <1>2, <1>3, <2>1
<1> QED BY <1>6, <1>7, <1>8

-----------------------------------------------------------------------------
(* Picking elements in an order until their sum is enough. *)

\* The elements that are picked in the order B until need is reached.
Picked(f, I, need, B) == {i \in I : Total(f, {j \in I : <<j, i>> \in B}) < need}

StrictOrder(B, I) ==
  /\ \A x \in I : <<x, x>> \notin B
  /\ \A x, y \in I : x # y => <<x, y>> \in B \/ <<y, x>> \in B
  /\ \A x, y, z \in I : <<x, y>> \in B /\ <<y, z>> \in B => <<x, z>> \in B

\* l is the last one of V, which comes before the rest of I.
LastOf(l, V, I, B) ==
  /\ l \in V
  /\ \A j \in V \ {l} : <<j, l>> \in B
  /\ \A i \in I \ V : <<l, i>> \in B

\* What is picked reaches need, and does so only with the last one.
LEMMA PickedFacts ==
  ASSUME NEW I, IsFiniteSet(I), NEW f, \A x \in I : f[x] \in Nat,
         NEW B, StrictOrder(B, I), NEW need \in Nat \ {0}, Total(f, I) >= need
  PROVE  LET V == Picked(f, I, need, B)
         IN  /\ V \subseteq I
             /\ Total(f, V) >= need
             /\ \E l \in V : LastOf(l, V, I, B) /\ Total(f, V \ {l}) < need
<1> DEFINE V == Picked(f, I, need, B)
           before(i) == {j \in I : <<j, i>> \in B}
<1>1. V \subseteq I /\ \A i \in I : before(i) \subseteq I
  BY DEF Picked
<1>2. ASSUME NEW T \in SUBSET I PROVE IsFiniteSet(T) /\ Total(f, T) \in Nat
  <2>1. IsFiniteSet(T)
    BY FS_Subset
  <2> QED BY <2>1, TotalNat
<1>3. ASSUME NEW T \in SUBSET I, NEW U \in SUBSET T PROVE Total(f, U) <= Total(f, T)
  BY <1>2, TotalMonotone
<1>4. \A i \in I : i \in V <=> Total(f, before(i)) < need
  BY DEF Picked
<1> HIDE DEF V
<1>5. Total(f, V) >= need
  <2>1. CASE V = I
    BY <2>1
  <2>2. CASE V # I
    <3>1. PICK i \in I \ V : \A j \in (I \ V) \ {i} : <<i, j>> \in B
      <4>1. I \ V # {} /\ IsFiniteSet(I \ V)
        BY <1>1, <1>2, <2>2
      <4>2. /\ \A x, y \in I \ V : x # y => <<x, y>> \in B \/ <<y, x>> \in B
            /\ \A x, y, z \in I \ V : <<x, y>> \in B /\ <<y, z>> \in B => <<x, z>> \in B
        BY DEF StrictOrder
      <4> QED BY <4>1, <4>2, FirstExists
    <3>2. before(i) \subseteq V
      <4> SUFFICES ASSUME NEW j \in I, <<j, i>> \in B, j \notin V PROVE FALSE
        OBVIOUS
      <4>1. j # i /\ <<i, j>> \in B
        BY <3>1 DEF StrictOrder
      <4> QED BY <3>1, <4>1 DEF StrictOrder
    <3> HIDE DEF before
    <3>3. Total(f, before(i)) <= Total(f, V)
      BY <1>1, <1>3, <3>2
    <3>4. ~(Total(f, before(i)) < need)
      BY <1>4, <3>1
    <3>5. Total(f, before(i)) \in Nat /\ Total(f, V) \in Nat
      BY <1>1, <1>2, <3>1
    <3> QED BY <3>3, <3>4, <3>5
  <2> QED BY <2>1, <2>2
<1>6. V # {}
  <2>1. Total(f, {}) = 0
    BY TotalEmpty
  <2> QED BY <1>5, <2>1
<1>7. PICK l \in V : \A j \in V \ {l} : <<j, l>> \in B
  <2>1. PICK R : \A x, y \in V : <<x, y>> \in R <=> <<y, x>> \in B
    <3> DEFINE R == {e \in V \X V : <<e[2], e[1]>> \in B}
    <3>1. \A x, y \in V : <<x, y>> \in R <=> <<y, x>> \in B
      OBVIOUS
    <3> QED BY <3>1
  <2>2. \A x, y \in V : x # y => <<x, y>> \in R \/ <<y, x>> \in R
    BY <1>1, <2>1 DEF StrictOrder
  <2>3. \A x, y, z \in V : <<x, y>> \in R /\ <<y, z>> \in R => <<x, z>> \in R
    BY <1>1, <2>1 DEF StrictOrder
  <2>4. IsFiniteSet(V)
    BY <1>1, <1>2
  <2>5. \E x \in V : \A y \in V \ {x} : <<x, y>> \in R
    BY <1>6, <2>2, <2>3, <2>4, FirstExists
  <2> QED BY <2>1, <2>5
<1>8. ASSUME NEW i \in I \ V PROVE <<l, i>> \in B
  <2> SUFFICES ASSUME <<l, i>> \notin B PROVE FALSE
    OBVIOUS
  <2>1. <<i, l>> \in B
    BY <1>1 DEF StrictOrder
  <2>2. before(i) \subseteq before(l)
    BY <1>1, <2>1 DEF StrictOrder
  <2> HIDE DEF before
  <2>3. Total(f, before(i)) <= Total(f, before(l)) /\ Total(f, before(l)) < need
    BY <1>1, <1>3, <1>4, <2>2
  <2>4. Total(f, before(i)) \in Nat /\ Total(f, before(l)) \in Nat
    BY <1>1, <1>2
  <2>5. Total(f, before(i)) < need
    BY <2>3, <2>4
  <2> QED BY <1>4, <2>5
<1>9. Total(f, V \ {l}) < need
  <2>1. V \ {l} \subseteq before(l)
    BY <1>1, <1>7
  <2> HIDE DEF before
  <2>2. Total(f, V \ {l}) <= Total(f, before(l)) /\ Total(f, before(l)) < need
    BY <1>1, <1>3, <1>4, <2>1
  <2>3. Total(f, V \ {l}) \in Nat /\ Total(f, before(l)) \in Nat
    BY <1>1, <1>2
  <2> QED BY <2>2, <2>3
<1>10. LastOf(l, V, I, B)
  BY <1>7, <1>8 DEF LastOf
<1> QED BY <1>1, <1>5, <1>9, <1>10 DEF V

\* No set of as many elements has a larger sum than the largest ones.
LEMMA LargestSum ==
  ASSUME NEW I, IsFiniteSet(I), NEW f, \A x \in I : f[x] \in Nat, NEW s \in Nat,
         NEW X, X \subseteq I, \A x \in X : f[x] >= s, \A i \in I \ X : f[i] <= s,
         NEW W, W \subseteq I, Cardinality(W) <= Cardinality(X)
  PROVE  Total(f, W) <= Total(f, X)
<1> DEFINE Y == X \ W
           Z == W \ X
           M == X \cap W
<1>1. /\ IsFiniteSet(W) /\ IsFiniteSet(X)
      /\ IsFiniteSet(Y) /\ IsFiniteSet(Z) /\ IsFiniteSet(M)
  BY FS_Subset
<1>2. /\ Cardinality(W) \in Nat /\ Cardinality(X) \in Nat
      /\ Cardinality(Y) \in Nat /\ Cardinality(Z) \in Nat
  BY <1>1, FS_CardinalityType
<1>3. /\ Total(f, X) = Total(f, M) + Total(f, Y)
      /\ Total(f, W) = Total(f, M) + Total(f, Z)
  <2>1. X \ M = Y /\ W \ M = Z /\ M \in SUBSET X /\ M \in SUBSET W
    OBVIOUS
  <2>2. (\A x \in X : f[x] \in Int) /\ (\A x \in W : f[x] \in Int)
    OBVIOUS
  <2> HIDE DEF Y, Z, M
  <2>3. /\ Total(f, X) = Total(f, M) + Total(f, X \ M)
        /\ Total(f, W) = Total(f, M) + Total(f, W \ M)
    BY <1>1, <2>1, <2>2, TotalUnion
  <2> QED BY <2>1, <2>3, Zenon
<1>4. \A x \in Y : f[x] \in Int /\ s <= f[x] /\ f[x] <= Total(f, Y)
  <2> SUFFICES ASSUME NEW x \in Y PROVE f[x] \in Int /\ s <= f[x] /\ f[x] <= Total(f, Y)
    OBVIOUS
  <2>1. f[x] \in Int /\ s <= f[x]
    OBVIOUS
  <2>2. Y \ {x} \subseteq I /\ IsFiniteSet(Y \ {x}) /\ \A y \in Y : f[y] \in Nat
    BY <1>1, FS_Subset
  <2> HIDE DEF Y
  <2>3. Total(f, Y) = f[x] + Total(f, Y \ {x}) /\ Total(f, Y \ {x}) \in Nat
    BY <1>1, <2>2, TotalRemove, TotalNat
  <2> QED BY <2>1, <2>3
<1>5. \A x \in Z : f[x] \in Int /\ 0 <= f[x] /\ f[x] <= s
  OBVIOUS
<1>6. Total(f, M) \in Int /\ Total(f, Y) \in Int /\ Total(f, Z) \in Int
  <2>1. /\ \A x \in M : f[x] \in Int
        /\ \A x \in Y : f[x] \in Int
        /\ \A x \in Z : f[x] \in Int
    OBVIOUS
  <2> HIDE DEF M, Y, Z
  <2> QED BY <1>1, <2>1, TotalType
<1>7. Cardinality(W) - Cardinality(X) = Cardinality(Z) - Cardinality(Y)
  BY <1>1, CardinalityGap
<1> HIDE DEF Y, Z, M
<1>8. Cardinality(Y) * s <= Total(f, Y)
  <2>1. PICK hi \in Int : \A x \in Y : f[x] \in Int /\ s <= f[x] /\ f[x] <= hi
    BY <1>4, <1>6
  <2>2. IsFiniteSet(Y) /\ s \in Int
    BY <1>1
  <2> QED BY ONLY <2>1, <2>2, TotalBounds
<1>9. Total(f, Z) <= Cardinality(Z) * s
  <2>1. PICK lo \in Int : \A x \in Z : f[x] \in Int /\ lo <= f[x] /\ f[x] <= s
    BY <1>5
  <2>2. IsFiniteSet(Z) /\ s \in Int
    BY <1>1
  <2> QED BY ONLY <2>1, <2>2, TotalBounds
<1>10. Cardinality(Z) <= Cardinality(Y)
  BY <1>2, <1>7
<1>11. \A a, b, c \in Nat : a <= b => a * c <= b * c
  OBVIOUS
<1>12. Cardinality(Z) * s <= Cardinality(Y) * s
  BY <1>2, <1>10, <1>11
<1>13. Cardinality(Z) * s \in Int /\ Cardinality(Y) * s \in Int
  BY <1>2
<1>14. Total(f, Z) <= Total(f, Y)
  BY <1>6, <1>8, <1>9, <1>12, <1>13
<1> QED BY <1>3, <1>6, <1>14

\* Nothing that reaches need has fewer elements than the largest ones.
LEMMA LargestAreFewest ==
  ASSUME NEW I, IsFiniteSet(I), NEW f, \A x \in I : f[x] \in Nat, NEW need \in Int,
         NEW V, V \subseteq I, NEW l \in V, Total(f, V \ {l}) < need,
         \A v \in V : f[v] >= f[l], \A i \in I \ V : f[i] <= f[l],
         NEW W, W \subseteq I, Total(f, W) >= need
  PROVE  Cardinality(V) <= Cardinality(W)
<1> DEFINE X == V \ {l}
<1>1. IsFiniteSet(V) /\ IsFiniteSet(W) /\ IsFiniteSet(X)
  BY FS_Subset
<1>2. /\ Cardinality(V) \in Nat /\ Cardinality(W) \in Nat
      /\ Cardinality(X) = Cardinality(V) - 1
  BY <1>1, FS_CardinalityType, FS_RemoveElement
<1>3. PICK s \in Nat : /\ X \subseteq I
                       /\ \A x \in X : f[x] >= s
                       /\ \A i \in I \ X : f[i] <= s
  <2>1. /\ X \subseteq I /\ \A x \in X : f[x] >= f[l] /\ \A i \in I \ X : f[i] <= f[l]
        /\ f[l] \in Nat
    OBVIOUS
  <2> QED BY <2>1
<1>4. Total(f, X) \in Int /\ Total(f, W) \in Int
  <2>1. (\A x \in X : f[x] \in Int) /\ (\A x \in W : f[x] \in Int)
    OBVIOUS
  <2> HIDE DEF X
  <2> QED BY <1>1, <2>1, TotalType
<1>5. Total(f, X) < need /\ Total(f, W) >= need
  OBVIOUS
<1> HIDE DEF X
<1> SUFFICES ASSUME Cardinality(W) < Cardinality(V) PROVE FALSE
  BY <1>2
<1>6. Cardinality(W) <= Cardinality(X)
  BY <1>2
<1>7. Total(f, W) <= Total(f, X)
  BY <1>3, <1>6, LargestSum
<1> QED BY <1>4, <1>5, <1>7

\* A finite set of integers has a least and a greatest element.
LEMMA Extremes ==
  ASSUME NEW S \in SUBSET Int, IsFiniteSet(S), S # {}
  PROVE  /\ Min(S) \in S /\ \A x \in S : Min(S) <= x
         /\ Max(S) \in S /\ \A x \in S : x <= Max(S)
<1>1. \E x \in S : \A y \in S : x <= y
  <2>1. PICK B : \A x, y \in S : <<x, y>> \in B <=> x < y
    <3> DEFINE B == {e \in S \X S : e[1] < e[2]}
    <3>1. \A x, y \in S : <<x, y>> \in B <=> x < y
      OBVIOUS
    <3> QED BY <3>1
  <2>2. /\ \A x, y \in S : x # y => <<x, y>> \in B \/ <<y, x>> \in B
        /\ \A x, y, z \in S : <<x, y>> \in B /\ <<y, z>> \in B => <<x, z>> \in B
    BY <2>1
  <2>3. PICK x \in S : \A y \in S \ {x} : <<x, y>> \in B
    BY <2>2, FirstExists
  <2>4. \A y \in S \ {x} : x < y
    BY <2>1, <2>3, Zenon
  <2>5. ASSUME NEW y \in S PROVE x <= y
    BY <2>4
  <2> QED BY <2>5
<1>2. \E x \in S : \A y \in S : x >= y
  <2>1. PICK B : \A x, y \in S : <<x, y>> \in B <=> x > y
    <3> DEFINE B == {e \in S \X S : e[1] > e[2]}
    <3>1. \A x, y \in S : <<x, y>> \in B <=> x > y
      OBVIOUS
    <3> QED BY <3>1
  <2>2. /\ \A x, y \in S : x # y => <<x, y>> \in B \/ <<y, x>> \in B
        /\ \A x, y, z \in S : <<x, y>> \in B /\ <<y, z>> \in B => <<x, z>> \in B
    BY <2>1
  <2>3. PICK x \in S : \A y \in S \ {x} : <<x, y>> \in B
    BY <2>2, FirstExists
  <2>4. \A y \in S \ {x} : x > y
    BY <2>1, <2>3, Zenon
  <2>5. ASSUME NEW y \in S PROVE x >= y
    BY <2>4
  <2> QED BY <2>5
<1>3. Min(S) \in S /\ \A x \in S : Min(S) <= x
  BY <1>1 DEF Min
<1>4. Max(S) \in S /\ \A x \in S : x <= Max(S)
  BY <1>2 DEF Max
<1> QED BY <1>3, <1>4


-----------------------------------------------------------------------------
(* The first k elements of an order. *)

Foremost(I, k, B) == {i \in I : Cardinality({j \in I : <<j, i>> \in B}) < k}

\* Whatever comes before one of the first k is one of them.
LEMMA ForemostIsPrefix ==
  ASSUME NEW I, IsFiniteSet(I), NEW B, NEW k \in Nat,
         \A x, y, z \in I : <<x, y>> \in B /\ <<y, z>> \in B => <<x, z>> \in B,
         NEW i \in Foremost(I, k, B), NEW j \in I, <<j, i>> \in B
  PROVE  j \in Foremost(I, k, B)
<1> DEFINE before(x) == {y \in I : <<y, x>> \in B}
<1>1. i \in I /\ Cardinality(before(i)) < k
  BY DEF Foremost
<1>2. before(j) \subseteq before(i) /\ before(i) \subseteq I
  BY <1>1
<1>3. j \in Foremost(I, k, B) <=> Cardinality(before(j)) < k
  BY DEF Foremost
<1> HIDE DEF before
<1>4. IsFiniteSet(before(i))
  BY <1>2, FS_Subset
<1>5. /\ Cardinality(before(j)) \in Nat /\ Cardinality(before(i)) \in Nat
      /\ Cardinality(before(j)) <= Cardinality(before(i))
  BY <1>2, <1>4, FS_Subset, FS_CardinalityType
<1> QED BY <1>1, <1>3, <1>5

\* There are k of them, unless there are fewer elements.
LEMMA ForemostCount ==
  ASSUME NEW I, IsFiniteSet(I), NEW B, StrictOrder(B, I), NEW k \in Nat
  PROVE  /\ Foremost(I, k, B) \subseteq I
         /\ Cardinality(Foremost(I, k, B)) <= k
         /\ Cardinality(I) >= k => Cardinality(Foremost(I, k, B)) = k
         /\ Cardinality(I) <= k => Foremost(I, k, B) = I
<1> DEFINE V == Foremost(I, k, B)
           before(x) == {y \in I : <<y, x>> \in B}
<1>1. V \subseteq I /\ \A i \in I : before(i) \subseteq I /\ i \notin before(i)
  BY DEF Foremost, StrictOrder
<1>2. \A i \in I : i \in V <=> Cardinality(before(i)) < k
  BY DEF Foremost
<1>3. ASSUME NEW T \in SUBSET I
      PROVE  IsFiniteSet(T) /\ Cardinality(T) \in Nat /\ Cardinality(T) <= Cardinality(I)
  BY FS_Subset, FS_CardinalityType
<1> HIDE DEF V
<1>4. Cardinality(V) <= k
  <2>1. CASE V = {}
    BY <2>1, FS_EmptySet
  <2>2. CASE V # {}
    <3>1. PICK R : \A x, y \in V : <<x, y>> \in R <=> <<y, x>> \in B
      <4> DEFINE R == {e \in V \X V : <<e[2], e[1]>> \in B}
      <4>1. \A x, y \in V : <<x, y>> \in R <=> <<y, x>> \in B
        OBVIOUS
      <4> QED BY <4>1
    <3>2. /\ \A x, y \in V : x # y => <<x, y>> \in R \/ <<y, x>> \in R
          /\ \A x, y, z \in V : <<x, y>> \in R /\ <<y, z>> \in R => <<x, z>> \in R
      BY <1>1, <3>1 DEF StrictOrder
    <3>3. IsFiniteSet(V)
      BY <1>1, <1>3
    <3>4. PICK l \in V : \A y \in V \ {l} : <<l, y>> \in R
      BY <2>2, <3>2, <3>3, FirstExists
    <3>5. V \ {l} \subseteq before(l) /\ l \in I
      BY <1>1, <3>1, <3>4
    <3>6. before(l) \subseteq I /\ Cardinality(before(l)) < k
      BY <1>1, <1>2, <3>4
    <3> HIDE DEF before
    <3>7. IsFiniteSet(before(l)) /\ Cardinality(before(l)) \in Nat
      BY <1>3, <3>6
    <3>8. Cardinality(V \ {l}) <= Cardinality(before(l))
      BY <3>5, <3>7, FS_Subset
    <3>9. Cardinality(V \ {l}) = Cardinality(V) - 1 /\ Cardinality(V) \in Nat
      BY <3>3, FS_RemoveElement, FS_CardinalityType
    <3> QED BY <3>6, <3>7, <3>8, <3>9
  <2> QED BY <2>1, <2>2
<1>5. ASSUME V # I PROVE Cardinality(V) >= k /\ Cardinality(I) > k
  <2>1. I \ V # {} /\ IsFiniteSet(I \ V)
    BY <1>1, <1>3, <1>5
  <2>2. PICK i \in I \ V : \A j \in (I \ V) \ {i} : <<i, j>> \in B
    <3>1. /\ \A x, y \in I \ V : x # y => <<x, y>> \in B \/ <<y, x>> \in B
          /\ \A x, y, z \in I \ V : <<x, y>> \in B /\ <<y, z>> \in B => <<x, z>> \in B
      BY DEF StrictOrder
    <3> QED BY <2>1, <3>1, FirstExists
  <2>3. before(i) \subseteq V
    <3> SUFFICES ASSUME NEW j \in I, <<j, i>> \in B, j \notin V PROVE FALSE
      OBVIOUS
    <3>1. j # i /\ <<i, j>> \in B
      BY <2>2 DEF StrictOrder
    <3> QED BY <2>2, <3>1 DEF StrictOrder
  <2>4. ~(Cardinality(before(i)) < k) /\ before(i) \subseteq I
    BY <1>1, <1>2, <2>2
  <2> HIDE DEF before
  <2>5. /\ IsFiniteSet(V) /\ Cardinality(V) \in Nat
        /\ Cardinality(before(i)) \in Nat /\ Cardinality(before(i)) <= Cardinality(V)
    BY <1>1, <1>3, <2>3, <2>4, FS_Subset
  <2>6. V \subseteq I \ {i} /\ IsFiniteSet(I \ {i})
    BY <1>1, <1>3, <2>2
  <2>7. Cardinality(V) <= Cardinality(I \ {i})
    BY <2>6, FS_Subset
  <2>8. Cardinality(I \ {i}) = Cardinality(I) - 1 /\ Cardinality(I) \in Nat
    BY <2>2, FS_RemoveElement, FS_CardinalityType
  <2> QED BY <2>4, <2>5, <2>7, <2>8
<1>6. Cardinality(I) \in Nat /\ Cardinality(V) \in Nat
  BY <1>1, <1>3
<1> QED BY <1>1, <1>4, <1>5, <1>6 DEF V

-----------------------------------------------------------------------------
(* The order of the queue: ranks in a finite order. *)

\* How many members of S come before x.
Rank(S, B, x) == Cardinality({y \in S : <<y, x>> \in B})

LEMMA RankType ==
  ASSUME NEW S, IsFiniteSet(S), NEW B, NEW x
  PROVE  Rank(S, B, x) \in Nat
<1>1. {y \in S : <<y, x>> \in B} \subseteq S
  OBVIOUS
<1> QED BY <1>1, FS_Subset, FS_CardinalityType DEF Rank

\* The ranks of n elements are 0 to n - 1, and they order the elements.
LEMMA RankIncreases ==
  ASSUME NEW S, IsFiniteSet(S), NEW B, StrictOrder(B, S), NEW x \in S, NEW y \in S,
         <<x, y>> \in B
  PROVE  Rank(S, B, x) < Rank(S, B, y)
<1> DEFINE before(z) == {u \in S : <<u, z>> \in B}
<1>1. before(x) \cup {x} \subseteq before(y) /\ before(y) \subseteq S /\ x \notin before(x)
  BY DEF StrictOrder
<1>2. before(x) \subseteq S
  OBVIOUS
<1>3. Rank(S, B, x) = Cardinality(before(x)) /\ Rank(S, B, y) = Cardinality(before(y))
  BY DEF Rank
<1> HIDE DEF before
<1>4. IsFiniteSet(before(x)) /\ IsFiniteSet(before(y)) /\ Cardinality(before(x)) \in Nat
  BY <1>1, <1>2, FS_Subset, FS_CardinalityType
<1>5. Cardinality(before(x) \cup {x}) = Cardinality(before(x)) + 1
  BY <1>1, <1>4, FS_AddElement
<1>6. Cardinality(before(x) \cup {x}) <= Cardinality(before(y)) /\ Cardinality(before(y)) \in Nat
  BY <1>1, <1>4, FS_Subset, FS_CardinalityType
<1> QED BY <1>3, <1>4, <1>5, <1>6

LEMMA RankOrders ==
  ASSUME NEW S, IsFiniteSet(S), NEW B, StrictOrder(B, S), NEW x \in S, NEW y \in S
  PROVE  /\ <<x, y>> \in B <=> Rank(S, B, x) < Rank(S, B, y)
         /\ x = y <=> Rank(S, B, x) = Rank(S, B, y)
<1>1. Rank(S, B, x) \in Nat /\ Rank(S, B, y) \in Nat
  BY RankType
<1>2. <<x, y>> \in B => Rank(S, B, x) < Rank(S, B, y)
  BY RankIncreases
<1>3. <<y, x>> \in B => Rank(S, B, y) < Rank(S, B, x)
  BY RankIncreases
<1>4. x = y \/ <<x, y>> \in B \/ <<y, x>> \in B
  BY DEF StrictOrder
<1> QED BY <1>1, <1>2, <1>3, <1>4

LEMMA RankBelow ==
  ASSUME NEW S, IsFiniteSet(S), NEW B, StrictOrder(B, S), NEW x \in S
  PROVE  Rank(S, B, x) < Cardinality(S)
<1> DEFINE P == {y \in S : <<y, x>> \in B}
<1>1. P \subseteq S \ {x} /\ Rank(S, B, x) = Cardinality(P)
  BY DEF StrictOrder, Rank
<1> HIDE DEF P
<1>2. IsFiniteSet(S \ {x}) /\ Cardinality(S \ {x}) = Cardinality(S) - 1 /\ Cardinality(S) \in Nat
  BY FS_RemoveElement, FS_CardinalityType
<1>3. Cardinality(P) <= Cardinality(S \ {x}) /\ Cardinality(P) \in Nat
  BY <1>1, <1>2, FS_Subset, FS_CardinalityType
<1> QED BY <1>1, <1>2, <1>3

LEMMA RankExists ==
  ASSUME NEW S, IsFiniteSet(S), NEW B, StrictOrder(B, S), NEW k \in Nat, k < Cardinality(S)
  PROVE  \E x \in S : Rank(S, B, x) = k
<1> DEFINE V == Foremost(S, k, B)
           W == Foremost(S, k + 1, B)
<1>1. \A x \in S : /\ x \in V <=> Rank(S, B, x) < k
                   /\ x \in W <=> Rank(S, B, x) < k + 1
  BY DEF Foremost, Rank
<1>2. Cardinality(S) \in Nat
  BY FS_CardinalityType
<1>3. Cardinality(S) >= k /\ Cardinality(S) >= k + 1 /\ k + 1 \in Nat
  BY <1>2
<1>4. W \subseteq S /\ Cardinality(V) = k /\ Cardinality(W) = k + 1
  BY <1>3, ForemostCount
<1> HIDE DEF V, W
<1>5. PICK x \in W : x \notin V
  <2> SUFFICES ASSUME W \subseteq V PROVE FALSE
    OBVIOUS
  <2>1. V \subseteq S
    BY <1>3, ForemostCount DEF V
  <2>2. Cardinality(W) <= Cardinality(V)
    BY <2>1, FS_Subset
  <2> QED BY <1>4, <2>2
<1>6. x \in S /\ Rank(S, B, x) \in Nat
  BY <1>4, <1>5, RankType
<1> QED BY <1>1, <1>5, <1>6

\* Without the first m, every rank is m less.
LEMMA RankAfter ==
  ASSUME NEW S, IsFiniteSet(S), NEW B, StrictOrder(B, S), NEW m \in Nat,
         NEW i \in S, Rank(S, B, i) >= m
  PROVE  Rank({x \in S : Rank(S, B, x) >= m}, B, i) = Rank(S, B, i) - m
<1> DEFINE A == Foremost(S, m, B)
           P == {y \in S : <<y, i>> \in B}
           R == {x \in S : Rank(S, B, x) >= m}
<1>1. \A x \in S : x \in A <=> Rank(S, B, x) < m
  BY DEF Foremost, Rank
<1>2. Rank(S, B, i) < Cardinality(S) /\ Cardinality(S) \in Nat /\ Rank(S, B, i) \in Nat
  BY RankBelow, RankType, FS_CardinalityType
<1>3. A \subseteq S /\ Cardinality(A) = m
  BY <1>2, ForemostCount
<1>4. \A x \in S : Rank(S, B, x) \in Nat
  BY RankType
<1>5. A \subseteq P
  <2> SUFFICES ASSUME NEW x \in A PROVE x \in P
    OBVIOUS
  <2> HIDE DEF A
  <2>1. Rank(S, B, x) < Rank(S, B, i) /\ x \in S
    BY <1>1, <1>2, <1>3, <1>4
  <2> QED BY <2>1, RankOrders
<1>6. {y \in R : <<y, i>> \in B} = P \ A
  <2> HIDE DEF A
  <2>1. \A x \in S : x \in R <=> x \notin A
    BY <1>1, <1>4
  <2> QED BY <2>1
<1>7. P \subseteq S /\ IsFiniteSet(P) /\ IsFiniteSet(A)
  <2> HIDE DEF A
  <2> QED BY <1>3, FS_Subset
<1>8. Rank(R, B, i) = Cardinality(P \ A) /\ Rank(S, B, i) = Cardinality(P)
  BY <1>6 DEF Rank
<1> HIDE DEF A, P, R
<1>9. /\ Cardinality(P) - Cardinality(A) = Cardinality(P \ A) - Cardinality(A \ P)
      /\ A \ P = {} /\ Cardinality(A \ P) = 0
  BY <1>5, <1>7, CardinalityGap, FS_EmptySet
<1>10. Cardinality(P \ A) \in Nat
  BY <1>7, FS_Subset, FS_CardinalityType
<1> QED BY <1>2, <1>3, <1>8, <1>9, <1>10 DEF R

-----------------------------------------------------------------------------
(* The order of the queue: the orders of workloads and of tenants. *)

IsQueue(q) ==
  /\ Len(q) \in Nat /\ DOMAIN q = 1 .. Len(q)
  /\ \A i \in DOMAIN q : q[i].priority \in Int /\ q[i].at \in Int

\* OrderQueued and TenantBefore as sets of pairs.
QueueOrder(q) == {e \in (DOMAIN q) \X (DOMAIN q) : OrderQueued(q, e[1], e[2])}
TenantOrder(q) == {e \in TenantsOf(q) \X TenantsOf(q) : TenantBefore(q, e[1], e[2])}

LEMMA Places ==
  ASSUME NEW q, IsQueue(q)
  PROVE  /\ IsFiniteSet(DOMAIN q) /\ Cardinality(DOMAIN q) = Len(q)
         /\ \A I \in SUBSET (DOMAIN q) :
              IsFiniteSet(I) /\ Cardinality(I) \in Nat /\ Cardinality(I) <= Len(q)
<1>1. DOMAIN q = 1 .. Len(q) /\ Len(q) \in Nat /\ 1 \in Int /\ Len(q) \in Int
  BY DEF IsQueue
<1>2. IsFiniteSet(1 .. Len(q)) /\ Cardinality(1 .. Len(q)) = Len(q)
  <2>1. ASSUME NEW n \in Nat PROVE IsFiniteSet(1 .. n) /\ Cardinality(1 .. n) = n
    <3>1. /\ IsFiniteSet(1 .. n)
          /\ Cardinality(1 .. n) = IF 1 > n THEN 0 ELSE n - 1 + 1
      BY FS_Interval
    <3> QED BY <3>1
  <2> QED BY <1>1, <2>1, Zenon
<1>3. ASSUME NEW I \in SUBSET (DOMAIN q)
      PROVE  IsFiniteSet(I) /\ Cardinality(I) \in Nat /\ Cardinality(I) <= Len(q)
  BY <1>1, <1>2, FS_Subset, FS_CardinalityType
<1> QED BY <1>1, <1>2, <1>3

\* OrderQueued is a strict total order on the places of a queue.
LEMMA QueueOrderIsStrict ==
  ASSUME NEW q, IsQueue(q)
  PROVE  /\ \A i, j \in DOMAIN q : <<i, j>> \in QueueOrder(q) <=> OrderQueued(q, i, j)
         /\ \A I \in SUBSET (DOMAIN q) : StrictOrder(QueueOrder(q), I)
<1>1. \A i, j \in DOMAIN q : <<i, j>> \in QueueOrder(q) <=> OrderQueued(q, i, j)
  BY DEF QueueOrder
<1>2. \A i \in DOMAIN q : i \in Int /\ q[i].priority \in Int /\ q[i].at \in Int
  BY DEF IsQueue
<1>3. /\ \A i \in DOMAIN q : ~OrderQueued(q, i, i)
      /\ \A i, j \in DOMAIN q : i # j => OrderQueued(q, i, j) \/ OrderQueued(q, j, i)
      /\ \A i, j, k \in DOMAIN q :
           OrderQueued(q, i, j) /\ OrderQueued(q, j, k) => OrderQueued(q, i, k)
  BY <1>2 DEF OrderQueued
<1>4. ASSUME NEW I \in SUBSET (DOMAIN q) PROVE StrictOrder(QueueOrder(q), I)
  BY <1>1, <1>3 DEF StrictOrder
<1> QED BY <1>1, <1>4

\* A tenant appears in the queue with the first of its workloads.
LEMMA TenantAppears ==
  ASSUME NEW q, IsQueue(q), NEW t \in TenantsOf(q)
  PROVE  \E m \in itemsOf(q, t) : \A j \in itemsOf(q, t) \ {m} : OrderQueued(q, m, j)
<1> DEFINE I == itemsOf(q, t)
<1>1. I # {} /\ I \in SUBSET (DOMAIN q)
  BY DEF TenantsOf, itemsOf
<1> HIDE DEF I
<1>2. IsFiniteSet(I) /\ StrictOrder(QueueOrder(q), I)
  BY <1>1, Places, QueueOrderIsStrict
<1>3. \E x \in I : \A y \in I \ {x} : <<x, y>> \in QueueOrder(q)
  BY <1>1, <1>2, FirstExists DEF StrictOrder
<1> QED BY <1>1, <1>3, QueueOrderIsStrict DEF I

\* TenantBefore is a strict total order on the tenants of a queue.
LEMMA TenantOrderIsStrict ==
  ASSUME NEW q, IsQueue(q)
  PROVE  /\ IsFiniteSet(TenantsOf(q))
         /\ \A s, t \in TenantsOf(q) : <<s, t>> \in TenantOrder(q) <=> TenantBefore(q, s, t)
         /\ StrictOrder(TenantOrder(q), TenantsOf(q))
<1>1. IsFiniteSet(TenantsOf(q))
  <2> DEFINE f == [i \in DOMAIN q |-> q[i].tenant]
  <2>1. f \in Surjection(DOMAIN q, TenantsOf(q))
    BY DEF Surjection, TenantsOf
  <2> HIDE DEF f
  <2> QED BY <2>1, Places, FS_Surjection
<1>2. \A s, t \in TenantsOf(q) : <<s, t>> \in TenantOrder(q) <=> TenantBefore(q, s, t)
  BY DEF TenantOrder
<1> DEFINE First(t, m) == m \in itemsOf(q, t) /\ \A j \in itemsOf(q, t) \ {m} : OrderQueued(q, m, j)
<1>3. \A t \in TenantsOf(q) : \E m : First(t, m)
  BY TenantAppears
<1>4. \A t, m : First(t, m) => m \in DOMAIN q /\ q[m].tenant = t
  BY DEF itemsOf
<1>5. /\ \A i \in DOMAIN q : ~OrderQueued(q, i, i)
      /\ \A i, j \in DOMAIN q : i # j => OrderQueued(q, i, j) \/ OrderQueued(q, j, i)
      /\ \A i, j, k \in DOMAIN q :
           OrderQueued(q, i, j) /\ OrderQueued(q, j, k) => OrderQueued(q, i, k)
  <2>1. StrictOrder(QueueOrder(q), DOMAIN q)
    BY QueueOrderIsStrict
  <2> QED BY <2>1, QueueOrderIsStrict DEF StrictOrder
<1>6. ASSUME NEW s, NEW t, NEW m, NEW n, First(s, m), First(t, n)
      PROVE  TenantBefore(q, s, t) <=> OrderQueued(q, m, n)
  <2>1. ASSUME TenantBefore(q, s, t) PROVE OrderQueued(q, m, n)
    <3>1. PICK i \in DOMAIN q : q[i].tenant = s /\ OrderQueued(q, i, n)
      BY <1>4, <1>6, <2>1 DEF TenantBefore
    <3>2. i = m \/ OrderQueued(q, m, i)
      BY <1>6, <3>1 DEF itemsOf
    <3> HIDE DEF First
    <3> QED BY <1>4, <1>5, <1>6, <3>1, <3>2
  <2>2. ASSUME OrderQueued(q, m, n) PROVE TenantBefore(q, s, t)
    <3>1. \A j \in DOMAIN q : q[j].tenant = t => j = n \/ OrderQueued(q, n, j)
      BY <1>6 DEF itemsOf
    <3>2. m \in DOMAIN q /\ n \in DOMAIN q /\ q[m].tenant = s
      BY <1>4, <1>6
    <3>3. \A j \in DOMAIN q : q[j].tenant = t => OrderQueued(q, m, j)
      BY <1>5, <2>2, <3>1, <3>2
    <3> QED BY <3>2, <3>3 DEF TenantBefore
  <2> QED BY <2>1, <2>2
<1> HIDE DEF First
<1>7. ASSUME NEW s \in TenantsOf(q) PROVE ~TenantBefore(q, s, s)
  <2>1. PICK m : First(s, m)
    BY <1>3
  <2> QED BY <1>4, <1>5, <1>6, <2>1
<1>8. ASSUME NEW s \in TenantsOf(q), NEW t \in TenantsOf(q), s # t
      PROVE  TenantBefore(q, s, t) \/ TenantBefore(q, t, s)
  <2>1. PICK m : First(s, m)
    BY <1>3
  <2>2. PICK n : First(t, n)
    BY <1>3
  <2>3. m \in DOMAIN q /\ n \in DOMAIN q /\ m # n
    BY <1>4, <1>8, <2>1, <2>2
  <2> QED BY <1>5, <1>6, <2>1, <2>2, <2>3
<1>9. ASSUME NEW s \in TenantsOf(q), NEW t \in TenantsOf(q), NEW u \in TenantsOf(q),
             TenantBefore(q, s, t), TenantBefore(q, t, u)
      PROVE  TenantBefore(q, s, u)
  <2>1. PICK m : First(s, m)
    BY <1>3
  <2>2. PICK n : First(t, n)
    BY <1>3
  <2>3. PICK k : First(u, k)
    BY <1>3
  <2>4. m \in DOMAIN q /\ n \in DOMAIN q /\ k \in DOMAIN q
    BY <1>4, <2>1, <2>2, <2>3
  <2>5. OrderQueued(q, m, n) /\ OrderQueued(q, n, k)
    BY <1>6, <1>9, <2>1, <2>2, <2>3
  <2> QED BY <1>5, <1>6, <2>1, <2>3, <2>4, <2>5
<1>10. StrictOrder(TenantOrder(q), TenantsOf(q))
  BY <1>2, <1>7, <1>8, <1>9 DEF StrictOrder
<1> QED BY <1>1, <1>2, <1>10

-----------------------------------------------------------------------------
(* The order of the queue: the loop, turn by turn. *)

\* The tenant of the turn after the first n.
TurnTenant(q, n) == tenantsInOrder(q)[(n % Len(tenantsInOrder(q))) + 1]

\* The recursion over the turns has a solution, which AfterTurns is.
LEMMA TurnByTurn ==
  ASSUME NEW q, NEW quotas
  PROVE  /\ AfterTurns(q, quotas, 0) =
              [rest |-> [t \in TenantsOf(q) |-> itemsOf(q, t)], out |-> << >>]
         /\ \A n \in Nat :
              AfterTurns(q, quotas, n + 1) =
                Turn(q, AfterTurns(q, quotas, n), TurnTenant(q, n),
                     Weight(quotas, TurnTenant(q, n)))
<1> DEFINE start == [rest |-> [t \in TenantsOf(q) |-> itemsOf(q, t)], out |-> << >>]
           who(k) == tenantsInOrder(q)[((k - 1) % Len(tenantsInOrder(q))) + 1]
           step(k, s) == Turn(q, s, who(k), Weight(quotas, who(k)))
           Body(f, k) == IF k = 0 THEN start ELSE step(k, f[k - 1])
           Upto(f, n) == \A k \in 0 .. n : f[k] = Body(f, k)
           loop == CHOOSE f : f = [k \in Nat |-> Body(f, k)]
<1>1. \A n : AfterTurns(q, quotas, n) = loop[n]
  BY DEF AfterTurns
<1>2. \A n \in Nat : TurnTenant(q, n) = who(n + 1)
  <2> SUFFICES ASSUME NEW n \in Nat PROVE TurnTenant(q, n) = who(n + 1)
    OBVIOUS
  <2>1. (n + 1) - 1 = n
    OBVIOUS
  <2> QED BY <2>1, Zenon DEF TurnTenant
<1>3. start = [rest |-> [t \in TenantsOf(q) |-> itemsOf(q, t)], out |-> << >>]
  OBVIOUS
<1>4. \A k, s : step(k, s) = Turn(q, s, who(k), Weight(quotas, who(k)))
  OBVIOUS
<1> HIDE DEF start, step, who
<1>5. \A n \in Nat : \E f : Upto(f, n)
  <2> DEFINE Bad == {n \in Nat : ~\E f : Upto(f, n)}
  <2> SUFFICES ASSUME Bad # {} PROVE FALSE
    OBVIOUS
  <2>1. PICK n \in Bad : \A m \in Bad : n <= m
    BY SmallestNumber
  <2>2. n \in Nat /\ ~\E f : Upto(f, n)
    OBVIOUS
  <2>3. CASE n = 0
    <3> DEFINE g == [k \in 0 .. 0 |-> start]
    <3>1. Upto(g, 0)
      OBVIOUS
    <3> HIDE DEF g
    <3> QED BY <2>2, <2>3, <3>1
  <2>4. CASE n # 0
    <3>1. n - 1 \in Nat /\ n - 1 \notin Bad
      <4> HIDE DEF Bad, Upto
      <4> QED BY <2>1, <2>2, <2>4
    <3>2. PICK f : Upto(f, n - 1)
      BY <3>1
    <3> DEFINE g == [k \in 0 .. n |-> Body(f, k)]
    <3>3. ASSUME NEW k \in 0 .. n PROVE g[k] = Body(g, k)
      <4>1. CASE k = 0
        BY <4>1
      <4>2. CASE k # 0
        <5>1. k - 1 \in 0 .. n - 1 /\ k - 1 \in 0 .. n /\ k - 1 \in Int
          BY <2>2, <4>2
        <5>2. f[k - 1] = Body(f, k - 1)
          BY <3>2, <5>1
        <5>3. g[k - 1] = f[k - 1]
          BY <5>1, <5>2
        <5> QED BY <4>2, <5>3
      <4> QED BY <4>1, <4>2
    <3> HIDE DEF g, Body
    <3> QED BY <2>2, <3>3
  <2> QED BY <2>3, <2>4
<1>6. ASSUME NEW n \in Nat, NEW m \in Nat, NEW f, NEW g, Upto(f, n), Upto(g, m)
      PROVE  \A k \in Nat : k <= n /\ k <= m => f[k] = g[k]
  <2> DEFINE Bad == {k \in Nat : k <= n /\ k <= m /\ f[k] # g[k]}
  <2> SUFFICES ASSUME Bad # {} PROVE FALSE
    OBVIOUS
  <2>1. PICK k \in Bad : \A l \in Bad : k <= l
    BY SmallestNumber
  <2>2. k \in 0 .. n /\ k \in 0 .. m /\ f[k] # g[k]
    OBVIOUS
  <2>3. f[k] = Body(f, k) /\ g[k] = Body(g, k)
    BY <1>6, <2>2
  <2>4. k # 0
    BY <2>2, <2>3
  <2>5. k - 1 \in Nat /\ k - 1 <= n /\ k - 1 <= m /\ k - 1 \notin Bad
    BY <2>1, <2>2, <2>4
  <2>6. f[k - 1] = g[k - 1]
    BY <2>5
  <2> QED BY <2>2, <2>3, <2>4, <2>6
<1> DEFINE pick(n) == CHOOSE f : Upto(f, n)
           F == [k \in Nat |-> pick(k)[k]]
<1>7. \A n \in Nat : Upto(pick(n), n)
  BY <1>5
<1> HIDE DEF pick
<1>8. ASSUME NEW k \in Nat PROVE F[k] = Body(F, k)
  <2>1. pick(k)[k] = Body(pick(k), k)
    <3>1. k \in 0 .. k
      OBVIOUS
    <3> QED BY <1>7, <3>1
  <2>2. CASE k = 0
    BY <2>1, <2>2
  <2>3. CASE k # 0
    <3>1. k - 1 \in Nat /\ k - 1 <= k /\ k - 1 <= k - 1
      BY <2>3
    <3> HIDE DEF Upto
    <3>2. Upto(pick(k), k) /\ Upto(pick(k - 1), k - 1)
      BY <1>7, <3>1
    <3>3. pick(k)[k - 1] = pick(k - 1)[k - 1]
      BY <1>6, <3>1, <3>2
    <3> QED BY <2>1, <2>3, <3>1, <3>3
  <2> QED BY <2>2, <2>3
<1>9. F = [k \in Nat |-> Body(F, k)]
  <2> HIDE DEF Body
  <2> QED BY <1>8
<1> HIDE DEF F, Body
<1>10. loop = [k \in Nat |-> Body(loop, k)]
  BY <1>9
<1> HIDE DEF loop
<1>11. \A k \in Nat : loop[k] = Body(loop, k)
  <2>1. PICK g : g = loop
    OBVIOUS
  <2>2. g = [k \in Nat |-> Body(g, k)]
    BY <1>10, <2>1
  <2>3. \A k \in Nat : g[k] = Body(g, k)
    BY <2>2, Zenon
  <2> QED BY <2>1, <2>3
<1>12. loop[0] = start
  BY <1>11 DEF Body
<1>13. ASSUME NEW n \in Nat PROVE loop[n + 1] = step(n + 1, loop[n])
  <2>1. n + 1 \in Nat /\ n + 1 # 0 /\ (n + 1) - 1 = n
    OBVIOUS
  <2> QED BY <1>11, <2>1, Zenon DEF Body
<1> QED BY <1>1, <1>2, <1>3, <1>4, <1>12, <1>13

-----------------------------------------------------------------------------
(* The order of the queue: the turn in which a workload is taken. *)

LEMMA MultiplesApart ==
  ASSUME NEW w \in Nat
  PROVE  \A u, v \in Nat : u * w \in Nat /\ (u < v => u * w + w <= v * w)
<1> SUFFICES ASSUME NEW u \in Nat, NEW v \in Nat
             PROVE  u * w \in Nat /\ (u < v => u * w + w <= v * w)
  OBVIOUS
<1>1. u * w \in Nat
  BY SMT
<1>2. ASSUME u < v PROVE u * w + w <= v * w
  <2>1. v - u - 1 \in Nat /\ v = u + 1 + (v - u - 1)
    BY <1>2
  <2>2. PICK e \in Nat : v = u + 1 + e
    BY <2>1
  <2>3. v * w = u * w + w + e * w /\ e * w \in Nat
    BY <2>2, SMT
  <2> QED BY <1>1, <2>3
<1> QED BY <1>1, <1>2

LEMMA DivisionBounds ==
  ASSUME NEW p \in Nat, NEW w \in Nat \ {0}, NEW r \in Nat
  PROVE  /\ p \div w \in Nat /\ r * w \in Nat
         /\ p \div w >= r <=> p >= r * w
         /\ p \div w = r <=> p >= r * w /\ p - r * w < w
<1>1. PICK d : d = p \div w
  OBVIOUS
<1>2. d \in Int /\ d * w <= p /\ p < d * w + w
  BY <1>1, SMT
<1>3. d \in Nat
  <2> SUFFICES ASSUME d + 1 <= 0 PROVE FALSE
    BY <1>2
  <2>1. \A u \in Int, v \in Nat : u <= 0 => u * v <= 0 /\ u * v \in Int
    BY SMT
  <2>2. (d + 1) * w <= 0 /\ (d + 1) * w = d * w + w
    BY <1>2, <2>1, SMT
  <2> QED BY <1>2, <2>2, SMT
<1>4. PICK a \in Nat : a = d * w
  BY <1>3, MultiplesApart
<1>5. PICK b \in Nat : b = r * w
  BY MultiplesApart
<1>6. (r < d => b + w <= a) /\ (d < r => a + w <= b)
  BY <1>3, <1>4, <1>5, MultiplesApart
<1>7. a <= p /\ p < a + w /\ (r = d => a = b)
  BY <1>2, <1>4, <1>5
<1>8. (d >= r <=> p >= b) /\ (d = r <=> p >= b /\ p - b < w)
  BY <1>3, <1>6, <1>7
<1> QED BY <1>1, <1>3, <1>5, <1>8

\* Numbers of two digits, of which the second is less than T.
LEMMA Lexicographic ==
  ASSUME NEW T \in Nat \ {0}, NEW a \in Nat, NEW b \in Nat, NEW x \in Nat, NEW y \in Nat,
         x < T, y < T
  PROVE  /\ a * T + x \in Nat /\ b * T + y \in Nat
         /\ a * T + x < b * T + y <=> a < b \/ (a = b /\ x < y)
         /\ a * T + x = b * T + y <=> a = b /\ x = y
<1>1. PICK c \in Nat : c = a * T
  BY MultiplesApart
<1>2. PICK d \in Nat : d = b * T
  BY MultiplesApart
<1>3. (a < b => c + T <= d) /\ (b < a => d + T <= c) /\ (a = b => c = d)
  BY <1>1, <1>2, MultiplesApart
<1>4. /\ c + x < d + y <=> a < b \/ (a = b /\ x < y)
      /\ c + x = d + y <=> a = b /\ x = y
  BY <1>3, SMT
<1> QED BY <1>1, <1>2, <1>4

LEMMA QuotientAndRest ==
  ASSUME NEW n \in Nat, NEW T \in Nat \ {0}
  PROVE  /\ n \div T \in Nat /\ n % T \in Nat /\ n % T < T
         /\ n = (n \div T) * T + (n % T)
  BY SMT

\* The tenants of the queue have a weight each.
HaveWeights(q, quotas) == \A t \in TenantsOf(q) : quotas[t].weight \in Int

\* The turn in which the loop takes q[i], counted from 0.
TurnOf(q, quotas, i) ==
  Round(q, quotas, i) * Cardinality(TenantsOf(q))
    + Rank(TenantsOf(q), TenantOrder(q), q[i].tenant)

LEMMA PositiveWeight ==
  ASSUME NEW q, NEW quotas, HaveWeights(q, quotas), NEW t \in TenantsOf(q)
  PROVE  Weight(quotas, t) \in Nat \ {0}
  BY DEF HaveWeights, Weight

LEMMA ItemsFacts ==
  ASSUME NEW q, IsQueue(q), NEW t
  PROVE  /\ itemsOf(q, t) \in SUBSET (DOMAIN q)
         /\ IsFiniteSet(itemsOf(q, t)) /\ StrictOrder(QueueOrder(q), itemsOf(q, t))
<1>1. itemsOf(q, t) \in SUBSET (DOMAIN q)
  BY DEF itemsOf
<1> QED BY <1>1, Places, QueueOrderIsStrict

LEMMA RoundOfItem ==
  ASSUME NEW q, IsQueue(q), NEW quotas, NEW t, NEW i \in itemsOf(q, t)
  PROVE  Round(q, quotas, i) =
           Rank(itemsOf(q, t), QueueOrder(q), i) \div Weight(quotas, t)
<1>1. i \in DOMAIN q /\ q[i].tenant = t
  BY DEF itemsOf
<1>2. {j \in DOMAIN q : q[j].tenant = q[i].tenant /\ OrderQueued(q, j, i)}
        = {j \in itemsOf(q, t) : <<j, i>> \in QueueOrder(q)}
  BY <1>1, QueueOrderIsStrict DEF itemsOf
<1> QED BY <1>1, <1>2, Zenon DEF Round, Rank

LEMMA RoundType ==
  ASSUME NEW q, IsQueue(q), NEW quotas, HaveWeights(q, quotas), NEW i \in DOMAIN q
  PROVE  /\ Round(q, quotas, i) \in Nat /\ Round(q, quotas, i) < Len(q)
         /\ q[i].tenant \in TenantsOf(q) /\ i \in itemsOf(q, q[i].tenant)
<1> DEFINE t == q[i].tenant
           w == Weight(quotas, t)
           p == Rank(itemsOf(q, t), QueueOrder(q), i)
<1>1. t \in TenantsOf(q) /\ i \in itemsOf(q, t)
  BY DEF TenantsOf, itemsOf
<1>2. Round(q, quotas, i) = p \div w
  BY <1>1, RoundOfItem
<1>3. w \in Nat \ {0}
  BY <1>1, PositiveWeight
<1>4. p \in Nat /\ p < Cardinality(itemsOf(q, t))
  BY <1>1, ItemsFacts, RankType, RankBelow
<1>5. Cardinality(itemsOf(q, t)) \in Nat /\ Cardinality(itemsOf(q, t)) <= Len(q)
  BY ItemsFacts, Places
<1>6. Len(q) \in Nat
  BY DEF IsQueue
<1> HIDE DEF p, w
<1>7. PICK c \in Nat : c = Cardinality(itemsOf(q, t))
  BY <1>5
<1>8. p < Len(q)
  BY <1>4, <1>5, <1>6, <1>7
<1>9. p \div w \in Nat /\ (p \div w >= Len(q) => p >= Len(q) * w)
  BY <1>3, <1>4, <1>6, DivisionBounds
<1>10. Len(q) * w >= Len(q) /\ Len(q) * w \in Nat
  <2>1. \A a \in Nat, b \in Nat \ {0} : a * b >= a /\ a * b \in Nat
    BY SMT
  <2> QED BY <1>3, <1>6, <2>1
<1>11. p \div w < Len(q)
  BY <1>4, <1>6, <1>8, <1>9, <1>10
<1> QED BY <1>1, <1>2, <1>9, <1>11

\* What a turn takes of a tenant's workloads from round r on is round r.
LEMMA SliceIsRound ==
  ASSUME NEW q, IsQueue(q), NEW quotas, HaveWeights(q, quotas), NEW t \in TenantsOf(q),
         NEW r \in Nat
  PROVE  FirstItems(q, {i \in itemsOf(q, t) : Round(q, quotas, i) >= r}, Weight(quotas, t))
           = {i \in itemsOf(q, t) : Round(q, quotas, i) = r}
<1> DEFINE I == itemsOf(q, t)
           B == QueueOrder(q)
           w == Weight(quotas, t)
           left == {i \in I : Round(q, quotas, i) >= r}
<1>1. I \in SUBSET (DOMAIN q) /\ IsFiniteSet(I) /\ StrictOrder(B, I)
  BY ItemsFacts
<1>2. w \in Nat \ {0}
  BY PositiveWeight
<1>3. \A i \in I : Round(q, quotas, i) = Rank(I, B, i) \div w /\ Rank(I, B, i) \in Nat
  BY <1>1, RoundOfItem, RankType
<1>4. \A i, j \in I : <<j, i>> \in B <=> OrderQueued(q, j, i)
  BY <1>1, QueueOrderIsStrict
<1> HIDE DEF I, B, w
<1>5. \A i \in I : /\ Round(q, quotas, i) >= r <=> Rank(I, B, i) >= r * w
                   /\ Round(q, quotas, i) = r <=>
                        Rank(I, B, i) >= r * w /\ Rank(I, B, i) - r * w < w
  BY <1>2, <1>3, DivisionBounds
<1>6. r * w \in Nat
  BY <1>2, DivisionBounds
<1>7. left = {i \in I : Rank(I, B, i) >= r * w}
  BY <1>5
<1>8. \A i \in left : Rank(left, B, i) = Rank(I, B, i) - r * w /\ i \in I
  BY <1>1, <1>6, <1>7, RankAfter
<1>9. \A i \in left : {j \in left : OrderQueued(q, j, i)} = {j \in left : <<j, i>> \in B}
  BY <1>4
<1> HIDE DEF left
<1>10. FirstItems(q, left, w) = {i \in left : Rank(left, B, i) < w}
  BY <1>9 DEF FirstItems, Rank
<1>11. FirstItems(q, left, w) = {i \in I : Round(q, quotas, i) = r}
  BY <1>5, <1>7, <1>8, <1>10
<1> QED BY <1>11 DEF left, I, w

LEMMA TenantRank ==
  ASSUME NEW q, IsQueue(q), NEW s \in TenantsOf(q), NEW u \in TenantsOf(q)
  PROVE  LET p(t) == Rank(TenantsOf(q), TenantOrder(q), t)
         IN  /\ p(s) < p(u) <=> TenantBefore(q, s, u)
             /\ p(s) = p(u) <=> s = u
<1>1. IsFiniteSet(TenantsOf(q)) /\ StrictOrder(TenantOrder(q), TenantsOf(q))
  BY TenantOrderIsStrict
<1>2. <<s, u>> \in TenantOrder(q) <=> TenantBefore(q, s, u)
  BY TenantOrderIsStrict
<1>3. /\ <<s, u>> \in TenantOrder(q) <=>
           Rank(TenantsOf(q), TenantOrder(q), s) < Rank(TenantsOf(q), TenantOrder(q), u)
      /\ s = u <=> Rank(TenantsOf(q), TenantOrder(q), s) = Rank(TenantsOf(q), TenantOrder(q), u)
  BY <1>1, RankOrders
<1> QED BY <1>2, <1>3, Zenon

\* The turns are counted in the order in which the round robin takes the workloads.
LEMMA RoundRobinIsByTurn ==
  ASSUME NEW q, IsQueue(q), NEW quotas, HaveWeights(q, quotas),
         NEW i \in DOMAIN q, NEW j \in DOMAIN q
  PROVE  WeightedRoundRobinByTenant(q, quotas, j, i) <=>
           \/ TurnOf(q, quotas, j) < TurnOf(q, quotas, i)
           \/ TurnOf(q, quotas, j) = TurnOf(q, quotas, i) /\ OrderQueued(q, j, i)
<1> DEFINE T == Cardinality(TenantsOf(q))
           r(k) == Round(q, quotas, k)
           p(k) == Rank(TenantsOf(q), TenantOrder(q), q[k].tenant)
<1>1. \A k \in DOMAIN q : q[k].tenant \in TenantsOf(q) /\ r(k) \in Nat
  BY RoundType
<1>2. \A k \in DOMAIN q : p(k) \in Nat /\ p(k) < T
  BY <1>1, TenantOrderIsStrict, RankType, RankBelow
<1>3. /\ p(j) < p(i) <=> TenantBefore(q, q[j].tenant, q[i].tenant)
      /\ p(j) = p(i) <=> q[j].tenant = q[i].tenant
  BY <1>1, TenantRank
<1>4. \A k : TurnOf(q, quotas, k) = r(k) * T + p(k)
  BY DEF TurnOf
<1>5. WeightedRoundRobinByTenant(q, quotas, j, i) <=>
        \/ r(j) < r(i)
        \/ r(j) = r(i) /\ TenantBefore(q, q[j].tenant, q[i].tenant)
        \/ r(j) = r(i) /\ q[j].tenant = q[i].tenant /\ OrderQueued(q, j, i)
  BY DEF WeightedRoundRobinByTenant
<1>6. T \in Nat
  BY TenantOrderIsStrict, FS_CardinalityType
<1> HIDE DEF T, r, p
<1>7. T \in Nat \ {0}
  BY <1>2, <1>6
<1>8. /\ TurnOf(q, quotas, j) < TurnOf(q, quotas, i) <=> r(j) < r(i) \/ (r(j) = r(i) /\ p(j) < p(i))
      /\ TurnOf(q, quotas, j) = TurnOf(q, quotas, i) <=> r(j) = r(i) /\ p(j) = p(i)
  BY <1>1, <1>2, <1>4, <1>7, Lexicographic
<1> QED BY <1>3, <1>5, <1>8

\* Every workload has its turn.
LEMMA TurnInTime ==
  ASSUME NEW q, IsQueue(q), NEW quotas, HaveWeights(q, quotas), NEW i \in DOMAIN q
  PROVE  /\ TurnOf(q, quotas, i) \in Nat
         /\ TurnOf(q, quotas, i) < Turns(q)
<1> DEFINE T == Cardinality(TenantsOf(q))
           r == Round(q, quotas, i)
           p == Rank(TenantsOf(q), TenantOrder(q), q[i].tenant)
<1>1. q[i].tenant \in TenantsOf(q) /\ r \in Nat /\ r < Len(q) /\ Len(q) \in Nat
  BY RoundType DEF IsQueue
<1>2. p \in Nat /\ p < T /\ T \in Nat
  BY <1>1, TenantOrderIsStrict, RankType, RankBelow, FS_CardinalityType
<1>3. TurnOf(q, quotas, i) = r * T + p /\ Turns(q) = Len(q) * T
  BY DEF TurnOf, Turns
<1> HIDE DEF T, r, p
<1>4. r * T + T <= Len(q) * T /\ r * T \in Nat /\ Len(q) * T \in Nat
  BY <1>1, <1>2, MultiplesApart
<1>5. PICK a \in Nat : a = r * T
  BY <1>4
<1>6. PICK b \in Nat : b = Len(q) * T
  BY <1>4
<1>7. a + T <= b
  BY <1>4, <1>5, <1>6
<1>8. a + p \in Nat /\ a + p < b
  BY <1>2, <1>7
<1> QED BY <1>3, <1>5, <1>6, <1>8

\* The turn after the first n is the turn of a tenant, and takes the workloads whose
\* turn it is.
LEMMA TurnTakes ==
  ASSUME NEW q, IsQueue(q), NEW quotas, HaveWeights(q, quotas), TenantsOf(q) # {},
         NEW n \in Nat
  PROVE  LET t == TurnTenant(q, n)
         IN  /\ t \in TenantsOf(q)
             /\ FirstItems(q, {i \in itemsOf(q, t) : TurnOf(q, quotas, i) >= n},
                           Weight(quotas, t))
                  = {i \in DOMAIN q : TurnOf(q, quotas, i) = n}
             /\ \A i \in DOMAIN q : TurnOf(q, quotas, i) = n => i \in itemsOf(q, t)
<1> DEFINE T == Cardinality(TenantsOf(q))
           m == n % T
           d == n \div T
           t == TurnTenant(q, n)
           r(i) == Round(q, quotas, i)
           p(s) == Rank(TenantsOf(q), TenantOrder(q), s)
<1>1. IsFiniteSet(TenantsOf(q)) /\ StrictOrder(TenantOrder(q), TenantsOf(q))
  BY TenantOrderIsStrict
<1>2. T \in Nat \ {0}
  BY <1>1, FS_CardinalityType, FS_EmptySet
<1>3. d \in Nat /\ m \in Nat /\ m < T /\ n = d * T + m
  BY <1>2, QuotientAndRest
<1>4. t \in TenantsOf(q) /\ p(t) = m
  <2>1. \A s \in TenantsOf(q) :
          {u \in TenantsOf(q) : TenantBefore(q, u, s)}
            = {u \in TenantsOf(q) : <<u, s>> \in TenantOrder(q)}
    BY TenantOrderIsStrict
  <2>2. \A s \in TenantsOf(q) : p(s) = Cardinality({u \in TenantsOf(q) : TenantBefore(q, u, s)})
    BY <2>1 DEF Rank
  <2>3. \E s \in TenantsOf(q) : p(s) = m
    BY <1>1, <1>3, RankExists
  <2>4. Len(tenantsInOrder(q)) = T /\ m + 1 \in 1 .. T /\ (m + 1) - 1 = m
    <3> HIDE DEF T, m
    <3>1. m + 1 \in 1 .. T /\ (m + 1) - 1 = m
      BY <1>2, <1>3
    <3>2. tenantsInOrder(q) = [k \in 1 .. T |->
            CHOOSE s \in TenantsOf(q) :
              Cardinality({u \in TenantsOf(q) : TenantBefore(q, u, s)}) = k - 1]
      BY DEF tenantsInOrder, T
    <3>3. Len(tenantsInOrder(q)) = T
      BY <1>2, <3>2
    <3> QED BY <3>1, <3>3
  <2>5. t = CHOOSE s \in TenantsOf(q) :
              Cardinality({u \in TenantsOf(q) : TenantBefore(q, u, s)}) = m
    BY <2>4, Zenon DEF TurnTenant, tenantsInOrder
  <2> HIDE DEF t, m, p
  <2>6. \E s \in TenantsOf(q) : Cardinality({u \in TenantsOf(q) : TenantBefore(q, u, s)}) = m
    BY <2>2, <2>3
  <2>7. /\ t \in TenantsOf(q)
        /\ Cardinality({u \in TenantsOf(q) : TenantBefore(q, u, t)}) = m
    BY <2>5, <2>6
  <2> QED BY <2>2, <2>7
<1>5. \A i \in DOMAIN q : /\ r(i) \in Nat /\ q[i].tenant \in TenantsOf(q)
                          /\ i \in itemsOf(q, q[i].tenant)
                          /\ p(q[i].tenant) \in Nat /\ p(q[i].tenant) < T
  BY <1>1, RoundType, RankType, RankBelow
<1>6. \A i \in DOMAIN q : TurnOf(q, quotas, i) = r(i) * T + p(q[i].tenant)
  BY DEF TurnOf
<1>7. \A s \in TenantsOf(q) : p(s) = p(t) => s = t
  BY <1>4, TenantRank
<1>8. itemsOf(q, t) \subseteq DOMAIN q /\ \A i \in itemsOf(q, t) : q[i].tenant = t
  BY DEF itemsOf
<1> HIDE DEF T, m, d, t, r, p
<1>9. ASSUME NEW i \in DOMAIN q
      PROVE  /\ TurnOf(q, quotas, i) = n <=> r(i) = d /\ p(q[i].tenant) = m
             /\ TurnOf(q, quotas, i) < n <=> r(i) < d \/ (r(i) = d /\ p(q[i].tenant) < m)
  <2>1. PICK x : x = p(q[i].tenant)
    OBVIOUS
  <2>2. PICK y : y = r(i)
    OBVIOUS
  <2>3. x \in Nat /\ x < T /\ y \in Nat /\ TurnOf(q, quotas, i) = y * T + x
    BY <1>5, <1>6, <2>1, <2>2
  <2>4. /\ y * T + x = d * T + m <=> y = d /\ x = m
        /\ y * T + x < d * T + m <=> y < d \/ (y = d /\ x < m)
    <3>1. d \in Nat /\ m \in Nat /\ m < T /\ x \in Nat /\ x < T /\ y \in Nat
      BY <1>3, <2>3
    <3>2. PICK D : D = T
      OBVIOUS
    <3>3. PICK e : e = d
      OBVIOUS
    <3>4. PICK z : z = m
      OBVIOUS
    <3>5. D \in Nat \ {0} /\ e \in Nat /\ z \in Nat /\ z < D /\ x < D
      BY <1>2, <3>1, <3>2, <3>3, <3>4
    <3>6. /\ y * D + x = e * D + z <=> y = e /\ x = z
          /\ y * D + x < e * D + z <=> y < e \/ (y = e /\ x < z)
      BY <3>1, <3>5, Lexicographic
    <3> QED BY <3>2, <3>3, <3>4, <3>6, Zenon
  <2> QED BY <1>3, <2>1, <2>2, <2>3, <2>4, Zenon
<1>10. \A i \in DOMAIN q : TurnOf(q, quotas, i) \in Nat
  BY TurnInTime
<1>11. \A i \in itemsOf(q, t) : TurnOf(q, quotas, i) >= n <=> r(i) >= d
  <2> SUFFICES ASSUME NEW i \in itemsOf(q, t)
               PROVE  TurnOf(q, quotas, i) >= n <=> r(i) >= d
    OBVIOUS
  <2>1. i \in DOMAIN q /\ p(q[i].tenant) = m
    BY <1>4, <1>8
  <2>2. r(i) \in Nat /\ TurnOf(q, quotas, i) \in Nat
    BY <1>5, <1>10, <2>1
  <2>3. TurnOf(q, quotas, i) < n <=> r(i) < d
    BY <1>3, <1>9, <2>1, <2>2
  <2> QED BY <1>3, <2>2, <2>3
<1>12. \A i \in DOMAIN q : TurnOf(q, quotas, i) = n <=> i \in itemsOf(q, t) /\ r(i) = d
  BY <1>4, <1>5, <1>7, <1>8, <1>9
<1>13. {i \in itemsOf(q, t) : TurnOf(q, quotas, i) >= n}
         = {i \in itemsOf(q, t) : Round(q, quotas, i) >= d}
  BY <1>11 DEF r
<1>14. {i \in itemsOf(q, t) : Round(q, quotas, i) = d} = {i \in DOMAIN q : TurnOf(q, quotas, i) = n}
  BY <1>8, <1>12 DEF r
<1>15. FirstItems(q, {i \in itemsOf(q, t) : Round(q, quotas, i) >= d}, Weight(quotas, t))
         = {i \in itemsOf(q, t) : Round(q, quotas, i) = d}
  BY <1>3, <1>4, SliceIsRound
<1> QED BY <1>4, <1>12, <1>13, <1>14, <1>15 DEF t

Queued(q) == {q[i] : i \in DOMAIN q}

\* The k-th workload of an ordered slice has k - 1 of them before it.
LEMMA OrderedSlice ==
  ASSUME NEW q, IsQueue(q), NEW I \in SUBSET (DOMAIN q)
  PROVE  /\ ordered(q, I) \in Seq(Queued(q)) /\ Len(ordered(q, I)) = Cardinality(I)
         /\ \A k \in 1 .. Cardinality(I) :
              \E i \in I : /\ ordered(q, I)[k] = q[i]
                           /\ Rank(I, QueueOrder(q), i) = k - 1
<1> DEFINE c == Cardinality(I)
           B == QueueOrder(q)
           at(k) == CHOOSE i \in I : Cardinality({j \in I : OrderQueued(q, j, i)}) = k - 1
<1>1. IsFiniteSet(I) /\ c \in Nat /\ StrictOrder(B, I)
  BY Places, QueueOrderIsStrict
<1>2. \A i \in I : {j \in I : OrderQueued(q, j, i)} = {j \in I : <<j, i>> \in B}
  BY QueueOrderIsStrict
<1>3. \A i \in I : Rank(I, B, i) = Cardinality({j \in I : OrderQueued(q, j, i)})
  BY <1>2 DEF Rank
<1>4. ordered(q, I) = [k \in 1 .. c |-> q[at(k)]]
  BY DEF ordered
<1>5. ASSUME NEW k \in 1 .. c PROVE at(k) \in I /\ Rank(I, B, at(k)) = k - 1
  <2>1. k - 1 \in Nat /\ k - 1 < c
    BY <1>1
  <2>2. \E i \in I : Rank(I, B, i) = k - 1
    BY <1>1, <2>1, RankExists
  <2>3. \E i \in I : Cardinality({j \in I : OrderQueued(q, j, i)}) = k - 1
    BY <1>3, <2>2
  <2>4. at(k) \in I /\ Cardinality({j \in I : OrderQueued(q, j, at(k))}) = k - 1
    BY <2>3
  <2> HIDE DEF at
  <2> QED BY <1>3, <2>4
<1> HIDE DEF at, c, B
<1>6. \A k \in 1 .. c : q[at(k)] \in Queued(q)
  BY <1>5 DEF Queued
<1>7. ordered(q, I) \in Seq(Queued(q)) /\ Len(ordered(q, I)) = c
  BY <1>1, <1>4, <1>6
<1>8. \A k \in 1 .. c : ordered(q, I)[k] = q[at(k)]
  BY <1>4
<1> QED BY <1>5, <1>7, <1>8 DEF c, B

\* The workloads that are taken before turn n, and how many are before q[i].
TakenBefore(q, quotas, n) == {i \in DOMAIN q : TurnOf(q, quotas, i) < n}
Preceding(q, quotas, i) == {j \in DOMAIN q : WeightedRoundRobinByTenant(q, quotas, j, i)}

\* What is left of the tenants before turn n.
LeftOver(q, quotas, n) ==
  [t \in TenantsOf(q) |-> {i \in itemsOf(q, t) : TurnOf(q, quotas, i) >= n}]

\* The result so far is in the order of the round robin, and has all that was taken.
InOrder(q, quotas, n, s) ==
  /\ s \in Seq(Queued(q)) /\ Len(s) = Cardinality(TakenBefore(q, quotas, n))
  /\ \A k \in 1 .. Len(s) :
       \E i \in TakenBefore(q, quotas, n) :
         s[k] = q[i] /\ Cardinality(Preceding(q, quotas, i)) = k - 1

LEMMA TakenBeforeFinite ==
  ASSUME NEW q, IsQueue(q), NEW quotas, NEW n
  PROVE  /\ TakenBefore(q, quotas, n) \in SUBSET (DOMAIN q)
         /\ IsFiniteSet(TakenBefore(q, quotas, n)) /\ Cardinality(TakenBefore(q, quotas, n)) \in Nat
<1>1. TakenBefore(q, quotas, n) \in SUBSET (DOMAIN q)
  BY DEF TakenBefore
<1> QED BY <1>1, Places

LEMMA Concatenation ==
  ASSUME NEW S, NEW s \in Seq(S), NEW o \in Seq(S)
  PROVE  /\ s \o o \in Seq(S) /\ Len(s \o o) = Len(s) + Len(o)
         /\ \A k \in 1 .. Len(s \o o) :
              (s \o o)[k] = IF k <= Len(s) THEN s[k] ELSE o[k - Len(s)]
BY SMT

\* A turn appends the workloads whose turn it is.
LEMMA TurnAppends ==
  ASSUME NEW q, IsQueue(q), NEW quotas, HaveWeights(q, quotas), NEW n \in Nat,
         NEW s, InOrder(q, quotas, n, s)
  PROVE  InOrder(q, quotas, n + 1,
                 s \o ordered(q, {i \in DOMAIN q : TurnOf(q, quotas, i) = n}))
<1> DEFINE F == {i \in DOMAIN q : TurnOf(q, quotas, i) = n}
           D == TakenBefore(q, quotas, n)
           X == TakenBefore(q, quotas, n + 1)
           B == QueueOrder(q)
           o == ordered(q, F)
<1>1. \A i \in DOMAIN q : TurnOf(q, quotas, i) \in Nat
  BY TurnInTime
<1>2. X = D \cup F /\ D \cap F = {} /\ F \in SUBSET (DOMAIN q)
  BY <1>1 DEF TakenBefore
<1>3. /\ IsFiniteSet(D) /\ Cardinality(D) \in Nat /\ D \in SUBSET (DOMAIN q)
      /\ IsFiniteSet(F) /\ Cardinality(F) \in Nat
  BY <1>2, TakenBeforeFinite, Places
<1>4. ASSUME NEW i \in F
      PROVE  Cardinality(Preceding(q, quotas, i)) = Cardinality(D) + Rank(F, B, i)
  <2> DEFINE P == {j \in F : <<j, i>> \in B}
  <2>1. i \in DOMAIN q /\ TurnOf(q, quotas, i) = n
    OBVIOUS
  <2>2. \A j \in DOMAIN q : j \in Preceding(q, quotas, i) <=>
          \/ TurnOf(q, quotas, j) < n
          \/ TurnOf(q, quotas, j) = n /\ OrderQueued(q, j, i)
    BY <2>1, RoundRobinIsByTurn DEF Preceding
  <2>3. Preceding(q, quotas, i) \subseteq DOMAIN q
    BY DEF Preceding
  <2>4. \A j \in F : <<j, i>> \in B <=> OrderQueued(q, j, i)
    BY <2>1, QueueOrderIsStrict
  <2>5. Preceding(q, quotas, i) = D \cup P /\ D \cap P = {}
    BY <1>2, <2>2, <2>3, <2>4 DEF TakenBefore
  <2>6. P \subseteq F /\ Rank(F, B, i) = Cardinality(P)
    BY DEF Rank
  <2> HIDE DEF P, D, F
  <2>7. IsFiniteSet(P)
    BY <1>3, <2>6, FS_Subset
  <2>8. Cardinality(D \cup P) = Cardinality(D) + Cardinality(P) - Cardinality(D \cap P)
    BY <1>3, <2>7, FS_Union
  <2>9. Cardinality(D \cap P) = 0 /\ Cardinality(P) \in Nat
    BY <2>5, <2>7, FS_EmptySet, FS_CardinalityType
  <2> QED BY <1>3, <2>5, <2>6, <2>8, <2>9
<1>5. Cardinality(X) = Cardinality(D) + Cardinality(F)
  <2> HIDE DEF D, X, F
  <2>1. Cardinality(D \cup F) = Cardinality(D) + Cardinality(F) - Cardinality(D \cap F)
    BY <1>3, FS_Union
  <2>2. Cardinality(D \cap F) = 0
    BY <1>2, FS_EmptySet
  <2> QED BY <1>2, <1>3, <2>1, <2>2
<1>6. /\ o \in Seq(Queued(q)) /\ Len(o) = Cardinality(F)
      /\ \A k \in 1 .. Cardinality(F) : \E i \in F : o[k] = q[i] /\ Rank(F, B, i) = k - 1
  <2> HIDE DEF F, D, X
  <2> QED BY <1>2, OrderedSlice
<1>7. /\ s \in Seq(Queued(q)) /\ Len(s) = Cardinality(D)
      /\ \A k \in 1 .. Len(s) :
           \E i \in D : s[k] = q[i] /\ Cardinality(Preceding(q, quotas, i)) = k - 1
  BY DEF InOrder
<1> HIDE DEF o, D, X, F, B
<1>8. /\ s \o o \in Seq(Queued(q)) /\ Len(s \o o) = Cardinality(X)
      /\ \A k \in 1 .. Len(s \o o) :
           (s \o o)[k] = IF k <= Len(s) THEN s[k] ELSE o[k - Len(s)]
  <2>1. Len(s \o o) = Len(s) + Len(o)
    BY <1>6, <1>7, Concatenation
  <2>2. Len(s) = Cardinality(D) /\ Len(o) = Cardinality(F)
    BY <1>6, <1>7
  <2>3. Len(s \o o) = Cardinality(X)
    BY <1>5, <2>1, <2>2, Zenon
  <2> QED BY <1>6, <1>7, <2>3, Concatenation, Zenon
<1>9. ASSUME NEW k \in 1 .. Len(s \o o)
      PROVE  \E i \in X : /\ (s \o o)[k] = q[i]
                          /\ Cardinality(Preceding(q, quotas, i)) = k - 1
  <2>0. k \in Nat /\ 1 <= k /\ k <= Cardinality(D) + Cardinality(F)
    BY <1>3, <1>5, <1>8
  <2>1. CASE k <= Len(s)
    <3>1. k \in 1 .. Len(s)
      BY <1>3, <1>7, <2>0, <2>1
    <3>2. PICK i \in D : s[k] = q[i] /\ Cardinality(Preceding(q, quotas, i)) = k - 1
      BY <1>7, <3>1
    <3>3. (s \o o)[k] = s[k]
      BY <1>8, <2>1
    <3> QED BY <1>2, <3>2, <3>3
  <2>2. CASE ~(k <= Len(s))
    <3>1. k - Len(s) \in 1 .. Cardinality(F) /\ Len(s) \in Nat
      BY <1>3, <1>7, <2>0, <2>2
    <3>2. PICK i \in F : o[k - Len(s)] = q[i] /\ Rank(F, B, i) = (k - Len(s)) - 1
      BY <1>6, <3>1
    <3>3. (s \o o)[k] = q[i]
      BY <1>8, <2>2, <3>2
    <3>4. Cardinality(Preceding(q, quotas, i)) = k - 1
      BY <1>3, <1>4, <1>7, <2>0, <3>2
    <3> QED BY <1>2, <3>3, <3>4
  <2> QED BY <2>1, <2>2
<1>10. InOrder(q, quotas, n + 1, s \o o)
  BY <1>8, <1>9 DEF InOrder, X
<1> QED BY <1>10 DEF o, F

\* The state of the loop after n turns.
LEMMA LoopInvariant ==
  ASSUME NEW q, IsQueue(q), NEW quotas, HaveWeights(q, quotas), TenantsOf(q) # {}
  PROVE  \A n \in Nat :
           \E s : /\ AfterTurns(q, quotas, n) = [rest |-> LeftOver(q, quotas, n), out |-> s]
                  /\ InOrder(q, quotas, n, s)
<1> DEFINE Holds(n, s) == /\ AfterTurns(q, quotas, n) = [rest |-> LeftOver(q, quotas, n), out |-> s]
                          /\ InOrder(q, quotas, n, s)
           Bad == {n \in Nat : ~\E s : Holds(n, s)}
<1>1. \A i \in DOMAIN q : TurnOf(q, quotas, i) \in Nat
  BY TurnInTime
<1>2. \A t : itemsOf(q, t) \subseteq DOMAIN q
  BY DEF itemsOf
<1>3. Holds(0, << >>)
  <2>1. LeftOver(q, quotas, 0) = [t \in TenantsOf(q) |-> itemsOf(q, t)]
    <3>1. \A t \in TenantsOf(q) : {i \in itemsOf(q, t) : TurnOf(q, quotas, i) >= 0} = itemsOf(q, t)
      BY <1>1, <1>2
    <3> QED BY <3>1 DEF LeftOver
  <2>2. TakenBefore(q, quotas, 0) = {}
    BY <1>1 DEF TakenBefore
  <2>3. InOrder(q, quotas, 0, << >>)
    <3>1. Cardinality(TakenBefore(q, quotas, 0)) = 0
      BY <2>2, FS_EmptySet
    <3>2. << >> \in Seq(Queued(q)) /\ Len(<< >>) = 0 /\ 1 .. 0 = {}
      OBVIOUS
    <3> QED BY <3>1, <3>2 DEF InOrder
  <2> QED BY <2>1, <2>3, TurnByTurn
<1>4. ASSUME NEW n \in Nat, NEW s, Holds(n, s) PROVE \E o : Holds(n + 1, o)
  <2> DEFINE F == {i \in DOMAIN q : TurnOf(q, quotas, i) = n}
             t == TurnTenant(q, n)
             w == Weight(quotas, t)
             L == LeftOver(q, quotas, n)
             o == s \o ordered(q, F)
  <2>1. /\ t \in TenantsOf(q)
        /\ FirstItems(q, {i \in itemsOf(q, t) : TurnOf(q, quotas, i) >= n}, w) = F
        /\ F \subseteq itemsOf(q, t)
    BY TurnTakes
  <2>2. AfterTurns(q, quotas, n + 1) = Turn(q, [rest |-> L, out |-> s], t, w)
    BY <1>4, TurnByTurn
  <2>3. DOMAIN L = TenantsOf(q)
    BY DEF LeftOver
  <2>4. \A u \in TenantsOf(q) : L[u] = {i \in itemsOf(q, u) : TurnOf(q, quotas, i) >= n}
    BY DEF LeftOver
  <2> HIDE DEF F, t, w, L
  <2>5. FirstItems(q, L[t], w) = F
    BY <2>1, <2>4
  <2>6. Turn(q, [rest |-> L, out |-> s], t, w) = [rest |-> [L EXCEPT ![t] = L[t] \ F], out |-> o]
    BY <2>5 DEF Turn
  <2>7. [L EXCEPT ![t] = L[t] \ F] = LeftOver(q, quotas, n + 1)
    <3>1. ASSUME NEW u \in TenantsOf(q)
          PROVE  (IF u = t THEN L[t] \ F ELSE L[u])
                   = {i \in itemsOf(q, u) : TurnOf(q, quotas, i) >= n + 1}
      <4>1. \A i \in itemsOf(q, u) : /\ TurnOf(q, quotas, i) \in Nat
                                     /\ i \in F <=> TurnOf(q, quotas, i) = n
                                     /\ i \in itemsOf(q, t) => u = t
        BY <1>1, <1>2 DEF F, itemsOf
      <4>2. {i \in itemsOf(q, u) : TurnOf(q, quotas, i) >= n} \ F
              = {i \in itemsOf(q, u) : TurnOf(q, quotas, i) >= n + 1}
        BY <4>1
      <4>3. u # t => L[u] \ F = L[u]
        BY <2>1, <2>4, <4>1
      <4> QED BY <2>4, <4>2, <4>3
    <3>2. [L EXCEPT ![t] = L[t] \ F] = [u \in TenantsOf(q) |-> IF u = t THEN L[t] \ F ELSE L[u]]
      BY <2>3
    <3> QED BY <3>1, <3>2 DEF LeftOver
  <2>8. InOrder(q, quotas, n + 1, o)
    BY <1>4, TurnAppends DEF F
  <2> HIDE DEF o
  <2>9. Holds(n + 1, o)
    BY <2>2, <2>6, <2>7, <2>8
  <2> QED BY <2>9
<1> HIDE DEF Holds
<1> SUFFICES Bad = {}
  BY DEF Holds
<1> SUFFICES ASSUME Bad # {} PROVE FALSE
  OBVIOUS
<1>5. PICK n \in Bad : \A m \in Bad : n <= m
  BY SmallestNumber
<1>6. n \in Nat /\ ~\E s : Holds(n, s)
  OBVIOUS
<1>7. n # 0
  BY <1>3, <1>6
<1>8. n - 1 \in Nat /\ n - 1 \notin Bad /\ (n - 1) + 1 = n
  <2> HIDE DEF Bad
  <2> QED BY <1>5, <1>6, <1>7
<1>9. PICK s : Holds(n - 1, s)
  BY <1>8
<1> QED BY <1>4, <1>6, <1>8, <1>9

\* out has every workload, the k-th one with k - 1 before it in the round robin.
IsTheOrder(q, quotas, out) ==
  /\ Len(out) = Len(q) /\ DOMAIN out = 1 .. Len(q)
  /\ \A k \in DOMAIN out :
       \E i \in DOMAIN q :
         /\ q[i] = out[k]
         /\ Cardinality({j \in DOMAIN q :
              WeightedRoundRobinByTenant(q, quotas, j, i)}) = k - 1

\* For every queue and all weights the loop of WeightedRoundRobinByTenant yields the
\* order that Admission describes (fairness_wrr.go:49-71).
THEOREM LoopIsTheOrder ==
  ASSUME NEW q, IsQueue(q), NEW quotas, HaveWeights(q, quotas), Len(q) > 0
  PROVE  IsTheOrder(q, quotas, AfterTurns(q, quotas, Turns(q)).out)
<1>1. 1 \in DOMAIN q
  BY DEF IsQueue
<1>2. TenantsOf(q) # {}
  BY <1>1 DEF TenantsOf
<1>3. Turns(q) \in Nat
  <2>1. Cardinality(TenantsOf(q)) \in Nat /\ Len(q) \in Nat
    BY TenantOrderIsStrict, FS_CardinalityType DEF IsQueue
  <2> QED BY <2>1, MultiplesApart DEF Turns
<1>4. PICK s : /\ AfterTurns(q, quotas, Turns(q))
                    = [rest |-> LeftOver(q, quotas, Turns(q)), out |-> s]
               /\ InOrder(q, quotas, Turns(q), s)
  BY <1>2, <1>3, LoopInvariant
<1>5. AfterTurns(q, quotas, Turns(q)).out = s
  BY <1>4
<1>6. TakenBefore(q, quotas, Turns(q)) = DOMAIN q
  BY TurnInTime DEF TakenBefore
<1>7. Cardinality(DOMAIN q) = Len(q) /\ Len(q) \in Nat
  BY Places DEF IsQueue
<1>8. /\ Len(s) = Len(q) /\ DOMAIN s = 1 .. Len(s)
      /\ \A k \in 1 .. Len(s) : \E i \in DOMAIN q :
           s[k] = q[i] /\ Cardinality(Preceding(q, quotas, i)) = k - 1
  BY <1>4, <1>6, <1>7 DEF InOrder
<1> QED BY <1>5, <1>8, Zenon DEF IsTheOrder, Preceding

-----------------------------------------------------------------------------
(* Placement: every policy fills nodes, or goes round them, in some order. *)

\* A finite set of devices: pool, node and gpu identify one, and ord ranks their
\* pools.
IsDevices(S, ord) ==
  /\ IsFiniteSet(S)
  /\ \A d \in S : d.node \in Int /\ d.gpu \in Int /\ ord[d.pool] \in Int
  /\ \A d, e \in S : d.pool = e.pool /\ d.node = e.node /\ d.gpu = e.gpu => d = e
  /\ \A d, e \in S : ord[d.pool] = ord[e.pool] => d.pool = e.pool

\* The orders of the nodes as relations, and the order of the devices that follows.
FirstOrder(S, ord) == {p \in NodesOf(S) \X NodesOf(S) : NodeBefore(ord, p[1], p[2])}

PackOrder(S, ord) ==
  {p \in NodesOf(S) \X NodesOf(S) :
     \/ Cardinality(OnNode(S, p[1])) > Cardinality(OnNode(S, p[2]))
     \/ /\ Cardinality(OnNode(S, p[1])) = Cardinality(OnNode(S, p[2]))
        /\ NodeBefore(ord, p[1], p[2])}

DeviceOrder(S, N) ==
  {p \in S \X S : \/ <<NodeOf(p[1]), NodeOf(p[2])>> \in N
                  \/ NodeOf(p[1]) = NodeOf(p[2]) /\ p[1].gpu < p[2].gpu}

Lead(S, k, N) ==
  {d \in S : k = 0 \/ Cardinality({n \in NodesOf(S) : <<n, NodeOf(d)>> \in N}) < k}

Filled(S, c, k, N) == Foremost(Lead(S, k, N), c, DeviceOrder(S, N))

LEMMA SubsetOfDevices ==
  ASSUME NEW ord, NEW S, IsDevices(S, ord), NEW T, T \subseteq S
  PROVE  IsDevices(T, ord)
<1>1. IsFiniteSet(T)
  BY FS_Subset DEF IsDevices
<1> QED BY <1>1, Zenon DEF IsDevices

LEMMA NodesFinite ==
  ASSUME NEW S, IsFiniteSet(S)
  PROVE  /\ IsFiniteSet(NodesOf(S)) /\ Cardinality(NodesOf(S)) \in Nat
         /\ \A n : IsFiniteSet(OnNode(S, n)) /\ Cardinality(OnNode(S, n)) \in Nat
<1> DEFINE f == [d \in S |-> NodeOf(d)]
<1>1. f \in Surjection(S, NodesOf(S))
  BY Zenon DEF Surjection, NodesOf
<1> HIDE DEF f
<1>2. IsFiniteSet(NodesOf(S))
  BY <1>1, FS_Surjection
<1>3. \A n : OnNode(S, n) \subseteq S
  BY DEF OnNode
<1>4. \A n : IsFiniteSet(OnNode(S, n))
  BY <1>3, FS_Subset
<1> QED BY <1>2, <1>4, FS_CardinalityType

LEMMA NodeFacts ==
  ASSUME NEW S
  PROVE  /\ \A d \in S : NodeOf(d) \in NodesOf(S)
         /\ \A n \in NodesOf(S) : \E d \in S : n = NodeOf(d)
  BY DEF NodesOf

LEMMA NodeFields ==
  ASSUME NEW d
  PROVE  NodeOf(d).pool = d.pool /\ NodeOf(d).node = d.node
  BY DEF NodeOf

LEMMA FirstIsOrder ==
  ASSUME NEW ord, NEW S, IsDevices(S, ord)
  PROVE  StrictOrder(FirstOrder(S, ord), NodesOf(S))
<1> DEFINE N == FirstOrder(S, ord)
           I == NodesOf(S)
<1>1. \A m, n \in I : <<m, n>> \in N <=> NodeBefore(ord, m, n)
  BY DEF FirstOrder
<1>2. \A m \in I : ord[m.pool] \in Int /\ m.node \in Int
  BY NodeFacts, NodeFields DEF IsDevices
<1>3. ASSUME NEW m \in I, NEW n \in I, m.pool = n.pool, m.node = n.node PROVE m = n
  <2>1. PICK d \in S, e \in S : m = NodeOf(d) /\ n = NodeOf(e)
    BY NodeFacts
  <2>2. d.pool = e.pool /\ d.node = e.node
    BY <1>3, <2>1, NodeFields
  <2> QED BY <2>1, <2>2 DEF NodeOf
<1>4. ASSUME NEW m \in I, NEW n \in I, ord[m.pool] = ord[n.pool] PROVE m.pool = n.pool
  <2>1. PICK d \in S, e \in S : m = NodeOf(d) /\ n = NodeOf(e)
    BY NodeFacts
  <2> QED BY <1>4, <2>1, NodeFields DEF IsDevices
<1> HIDE DEF I, N
<1>5. \A m \in I : <<m, m>> \notin N
  BY <1>1, <1>2 DEF NodeBefore
<1>6. ASSUME NEW m \in I, NEW n \in I, m # n PROVE <<m, n>> \in N \/ <<n, m>> \in N
  BY <1>1, <1>2, <1>3, <1>4, <1>6 DEF NodeBefore
<1>7. ASSUME NEW l \in I, NEW m \in I, NEW n \in I, <<l, m>> \in N, <<m, n>> \in N
      PROVE  <<l, n>> \in N
  BY <1>1, <1>2, <1>4, <1>7 DEF NodeBefore
<1> QED BY <1>5, <1>6, <1>7, Zenon DEF StrictOrder, I, N

LEMMA PackIsOrder ==
  ASSUME NEW ord, NEW S, IsDevices(S, ord)
  PROVE  StrictOrder(PackOrder(S, ord), NodesOf(S))
<1> DEFINE N == FirstOrder(S, ord)
           P == PackOrder(S, ord)
           I == NodesOf(S)
           count(n) == Cardinality(OnNode(S, n))
<1>1. \A m, n \in I : <<m, n>> \in N <=> NodeBefore(ord, m, n)
  BY DEF FirstOrder
<1>2. \A m, n \in I : <<m, n>> \in P <=>
        count(m) > count(n) \/ (count(m) = count(n) /\ NodeBefore(ord, m, n))
  BY DEF PackOrder
<1>3. StrictOrder(N, I)
  BY FirstIsOrder
<1>4. \A n : count(n) \in Nat
  BY NodesFinite DEF IsDevices
<1> HIDE DEF N, P, I, count
<1>5. \A m, n \in I : <<m, n>> \in P <=>
        count(m) > count(n) \/ (count(m) = count(n) /\ <<m, n>> \in N)
  BY <1>1, <1>2
<1>6. ASSUME NEW m \in I PROVE <<m, m>> \notin P
  <2>1. <<m, m>> \notin N
    BY <1>3, Zenon DEF StrictOrder
  <2>2. ~(count(m) > count(m))
    BY <1>4
  <2> QED BY <1>5, <2>1, <2>2, Zenon
<1>7. ASSUME NEW m \in I, NEW n \in I, m # n PROVE <<m, n>> \in P \/ <<n, m>> \in P
  <2>1. <<m, n>> \in N \/ <<n, m>> \in N
    BY <1>3, <1>7 DEF StrictOrder
  <2>2. count(m) \in Nat /\ count(n) \in Nat
    BY <1>4
  <2> QED BY <1>5, <2>1, <2>2
<1>8. ASSUME NEW l \in I, NEW m \in I, NEW n \in I, <<l, m>> \in P, <<m, n>> \in P
      PROVE  <<l, n>> \in P
  <2>1. <<l, m>> \in N /\ <<m, n>> \in N => <<l, n>> \in N
    BY <1>3 DEF StrictOrder
  <2> QED BY <1>4, <1>5, <1>8, <2>1
<1> QED BY <1>6, <1>7, <1>8, Zenon DEF StrictOrder, I, P

LEMMA DevicesAreOrdered ==
  ASSUME NEW ord, NEW S, IsDevices(S, ord), NEW N, StrictOrder(N, NodesOf(S)),
         NEW T, T \subseteq S
  PROVE  StrictOrder(DeviceOrder(S, N), T)
<1> DEFINE D == DeviceOrder(S, N)
<1>1. \A d, e \in T : <<d, e>> \in D <=> \/ <<NodeOf(d), NodeOf(e)>> \in N
                                         \/ NodeOf(d) = NodeOf(e) /\ d.gpu < e.gpu
  BY DEF DeviceOrder
<1>2. \A d \in T : d.gpu \in Int /\ NodeOf(d) \in NodesOf(S)
  BY NodeFacts DEF IsDevices
<1>3. ASSUME NEW d \in T, NEW e \in T, NodeOf(d) = NodeOf(e), d.gpu = e.gpu PROVE d = e
  <2>1. d.pool = e.pool /\ d.node = e.node
    BY <1>3, NodeFields
  <2>2. d \in S /\ e \in S
    OBVIOUS
  <2> QED BY <1>3, <2>1, <2>2, Zenon DEF IsDevices
<1> HIDE DEF D
<1>4. ASSUME NEW d \in T PROVE <<d, d>> \notin D
  <2>1. <<NodeOf(d), NodeOf(d)>> \notin N
    BY <1>2, Zenon DEF StrictOrder
  <2>2. ~(d.gpu < d.gpu)
    BY <1>2
  <2> QED BY <1>1, <2>1, <2>2, Zenon
<1>5. ASSUME NEW d \in T, NEW e \in T, d # e PROVE <<d, e>> \in D \/ <<e, d>> \in D
  <2>1. CASE NodeOf(d) = NodeOf(e)
    <3>1. d.gpu # e.gpu /\ d.gpu \in Int /\ e.gpu \in Int
      BY <1>2, <1>3, <1>5, <2>1, Zenon
    <3>2. d.gpu < e.gpu \/ e.gpu < d.gpu
      BY <3>1
    <3> QED BY <1>1, <2>1, <3>2, Zenon
  <2>2. CASE NodeOf(d) # NodeOf(e)
    <3>1. <<NodeOf(d), NodeOf(e)>> \in N \/ <<NodeOf(e), NodeOf(d)>> \in N
      BY <1>2, <2>2 DEF StrictOrder
    <3> QED BY <1>1, <3>1
  <2> QED BY <2>1, <2>2
<1>6. ASSUME NEW d \in T, NEW e \in T, NEW f \in T, <<d, e>> \in D, <<e, f>> \in D
      PROVE  <<d, f>> \in D
  <2> DEFINE a == NodeOf(d)
             b == NodeOf(e)
             c == NodeOf(f)
  <2>1. <<a, b>> \in N /\ <<b, c>> \in N => <<a, c>> \in N
    BY <1>2 DEF StrictOrder
  <2>2. <<a, b>> \in N \/ (a = b /\ d.gpu < e.gpu)
    BY <1>1, <1>6
  <2>3. <<b, c>> \in N \/ (b = c /\ e.gpu < f.gpu)
    BY <1>1, <1>6
  <2>4. d.gpu < e.gpu /\ e.gpu < f.gpu => d.gpu < f.gpu
    BY <1>2
  <2>5. <<a, c>> \in N \/ (a = c /\ d.gpu < f.gpu)
    <3> HIDE DEF a, b, c
    <3> QED BY <2>1, <2>2, <2>3, <2>4, Zenon
  <2> QED BY <1>1, <2>5
<1> QED BY <1>4, <1>5, <1>6, Zenon DEF StrictOrder, D

LEMMA LeadFacts ==
  ASSUME NEW S, NEW k, NEW N
  PROVE  /\ Lead(S, k, N) \subseteq S
         /\ k = 0 => Lead(S, k, N) = S
         /\ k # 0 => NodesOf(Lead(S, k, N)) = Foremost(NodesOf(S), k, N)
         /\ \A d \in S : k # 0 => (d \in Lead(S, k, N) <=> NodeOf(d) \in Foremost(NodesOf(S), k, N))
<1>1. Lead(S, k, N) \subseteq S
  BY DEF Lead
<1>2. k = 0 => Lead(S, k, N) = S
  BY DEF Lead
<1>3. ASSUME NEW d \in S, k # 0
      PROVE  d \in Lead(S, k, N) <=> NodeOf(d) \in Foremost(NodesOf(S), k, N)
  BY <1>3, NodeFacts, Zenon DEF Lead, Foremost
<1>4. ASSUME k # 0 PROVE NodesOf(Lead(S, k, N)) = Foremost(NodesOf(S), k, N)
  <2>1. Foremost(NodesOf(S), k, N) \subseteq NodesOf(S)
    BY DEF Foremost
  <2>2. ASSUME NEW n \in NodesOf(Lead(S, k, N)) PROVE n \in Foremost(NodesOf(S), k, N)
    BY <1>1, <1>3, <1>4, NodeFacts
  <2>3. ASSUME NEW n \in Foremost(NodesOf(S), k, N) PROVE n \in NodesOf(Lead(S, k, N))
    <3>1. PICK d \in S : n = NodeOf(d)
      BY <2>1, NodeFacts
    <3>2. d \in Lead(S, k, N)
      BY <1>3, <1>4, <3>1
    <3> QED BY <3>1, <3>2, NodeFacts
  <2> QED BY <2>2, <2>3
<1> QED BY <1>1, <1>2, <1>3, <1>4, Zenon

LEMMA NodesOfSubset ==
  ASSUME NEW S, IsFiniteSet(S), NEW T, T \subseteq S
  PROVE  /\ NodesOf(T) \subseteq NodesOf(S)
         /\ Cardinality(NodesOf(T)) <= Cardinality(NodesOf(S))
<1>1. NodesOf(T) \subseteq NodesOf(S)
  BY DEF NodesOf
<1> QED BY <1>1, NodesFinite, FS_Subset

LEMMA TakenFacts ==
  ASSUME NEW S, IsFiniteSet(S), NEW N, StrictOrder(N, NodesOf(S)), NEW c \in Nat, NEW k \in Nat,
         NEW D, StrictOrder(D, Lead(S, k, N)), NEW F, F = Foremost(Lead(S, k, N), c, D)
  PROVE  /\ F \subseteq Lead(S, k, N) /\ Cardinality(F) <= c
         /\ Cardinality(Lead(S, k, N)) >= c => Cardinality(F) = c
         /\ Cardinality(Lead(S, k, N)) <= c => F = Lead(S, k, N)
         /\ k > 0 => Cardinality(NodesOf(F)) <= k
<1> DEFINE L == Lead(S, k, N)
<1>1. L \subseteq S
  BY LeadFacts
<1>2. IsFiniteSet(L)
  BY <1>1, FS_Subset
<1> HIDE DEF L
<1>3. /\ F \subseteq L /\ Cardinality(F) <= c
      /\ Cardinality(L) >= c => Cardinality(F) = c
      /\ Cardinality(L) <= c => F = L
  BY <1>2, ForemostCount DEF L
<1>4. ASSUME k > 0 PROVE Cardinality(NodesOf(F)) <= k
  <2>1. NodesOf(L) = Foremost(NodesOf(S), k, N)
    BY <1>4, LeadFacts DEF L
  <2>2. Cardinality(Foremost(NodesOf(S), k, N)) <= k
    BY NodesFinite, ForemostCount
  <2>3. Cardinality(NodesOf(F)) <= Cardinality(NodesOf(L))
    BY <1>2, <1>3, NodesOfSubset
  <2>4. Cardinality(NodesOf(L)) \in Nat /\ Cardinality(NodesOf(F)) \in Nat
    BY <1>2, <1>3, NodesFinite, FS_Subset
  <2> QED BY <2>1, <2>2, <2>3, <2>4
<1> QED BY <1>3, <1>4 DEF L

LEMMA FilledFacts ==
  ASSUME NEW ord, NEW S, IsDevices(S, ord), NEW N, StrictOrder(N, NodesOf(S)),
         NEW c \in Nat, NEW k \in Nat
  PROVE  /\ Filled(S, c, k, N) \subseteq Lead(S, k, N)
         /\ Cardinality(Filled(S, c, k, N)) <= c
         /\ Cardinality(Lead(S, k, N)) >= c => Cardinality(Filled(S, c, k, N)) = c
         /\ Cardinality(Lead(S, k, N)) <= c => Filled(S, c, k, N) = Lead(S, k, N)
         /\ k > 0 => Cardinality(NodesOf(Filled(S, c, k, N))) <= k
<1>1. StrictOrder(DeviceOrder(S, N), Lead(S, k, N))
  BY LeadFacts, DevicesAreOrdered
<1>2. IsFiniteSet(S)
  BY DEF IsDevices
<1> QED BY <1>1, <1>2, TakenFacts DEF Filled

\* The loops of the code take the first devices in these orders.
LEMMA FirstFitIsFilled ==
  ASSUME NEW S, NEW ord, NEW c, NEW k
  PROVE  selectFirstFit(S, ord, c, k) = Filled(S, c, k, FirstOrder(S, ord))
<1> DEFINE N == FirstOrder(S, ord)
           L == {d \in S : k = 0 \/ Cardinality({n \in NodesOf(S) :
                                                   NodeBefore(ord, n, NodeOf(d))}) < k}
           Before(e, d) == \/ NodeBefore(ord, NodeOf(e), NodeOf(d))
                           \/ NodeOf(e) = NodeOf(d) /\ e.gpu < d.gpu
<1>1. selectFirstFit(S, ord, c, k) = {d \in L : Cardinality({e \in L : Before(e, d)}) < c}
  BY DEF selectFirstFit, FillNodes, Take, Leading, WithinNodeLimit
<1>2. \A m, n \in NodesOf(S) : <<m, n>> \in N <=> NodeBefore(ord, m, n)
  BY DEF FirstOrder
<1>3. L = Lead(S, k, N)
  <2>1. ASSUME NEW d \in S
        PROVE  {n \in NodesOf(S) : NodeBefore(ord, n, NodeOf(d))}
                 = {n \in NodesOf(S) : <<n, NodeOf(d)>> \in N}
    <3>1. NodeOf(d) \in NodesOf(S)
      BY NodeFacts
    <3> HIDE DEF N
    <3> QED BY <1>2, <3>1
  <2> HIDE DEF N
  <2> QED BY <2>1, Zenon DEF Lead
<1>4. L \subseteq S
  OBVIOUS
<1> HIDE DEF L
<1>5. ASSUME NEW d \in L
      PROVE  {e \in L : Before(e, d)} = {e \in L : <<e, d>> \in DeviceOrder(S, N)}
  <2>1. ASSUME NEW e \in L PROVE Before(e, d) <=> <<e, d>> \in DeviceOrder(S, N)
    <3>1. NodeOf(d) \in NodesOf(S) /\ NodeOf(e) \in NodesOf(S) /\ d \in S /\ e \in S
      BY <1>4, NodeFacts
    <3>2. <<NodeOf(e), NodeOf(d)>> \in N <=> NodeBefore(ord, NodeOf(e), NodeOf(d))
      BY <1>2, <3>1
    <3> HIDE DEF N
    <3> QED BY <3>1, <3>2 DEF DeviceOrder
  <2> HIDE DEF Before
  <2> QED BY <2>1
<1> HIDE DEF Before, N
<1>6. {d \in L : Cardinality({e \in L : Before(e, d)}) < c}
        = {d \in L : Cardinality({e \in L : <<e, d>> \in DeviceOrder(S, N)}) < c}
  BY <1>5, Zenon
<1> QED BY <1>1, <1>3, <1>6, Zenon DEF Filled, Foremost, N

LEMMA PackIsFilled ==
  ASSUME NEW S, NEW ord, NEW c, NEW k
  PROVE  selectPack(S, ord, c, k) = Filled(S, c, k, PackOrder(S, ord))
<1> DEFINE N == PackOrder(S, ord)
           count(n) == Cardinality(OnNode(S, n))
           Sooner(m, n) == \/ count(m) > count(n)
                           \/ count(m) = count(n) /\ NodeBefore(ord, m, n)
           L == {d \in S : k = 0 \/ Cardinality({n \in NodesOf(S) : Sooner(n, NodeOf(d))}) < k}
           Before(e, d) == \/ Sooner(NodeOf(e), NodeOf(d))
                           \/ NodeOf(e) = NodeOf(d) /\ e.gpu < d.gpu
<1>1. selectPack(S, ord, c, k) = {d \in L : Cardinality({e \in L : Before(e, d)}) < c}
  BY DEF selectPack, FillNodes, Take, Leading, WithinNodeLimit
<1>2. \A m, n \in NodesOf(S) : <<m, n>> \in N <=> Sooner(m, n)
  BY DEF PackOrder
<1> HIDE DEF Sooner
<1>3. L = Lead(S, k, N)
  <2>1. ASSUME NEW d \in S
        PROVE  {n \in NodesOf(S) : Sooner(n, NodeOf(d))}
                 = {n \in NodesOf(S) : <<n, NodeOf(d)>> \in N}
    <3>1. NodeOf(d) \in NodesOf(S)
      BY NodeFacts
    <3> HIDE DEF N
    <3> QED BY <1>2, <3>1
  <2> HIDE DEF N
  <2> QED BY <2>1, Zenon DEF Lead
<1>4. L \subseteq S
  OBVIOUS
<1> HIDE DEF L
<1>5. ASSUME NEW d \in L
      PROVE  {e \in L : Before(e, d)} = {e \in L : <<e, d>> \in DeviceOrder(S, N)}
  <2>1. ASSUME NEW e \in L PROVE Before(e, d) <=> <<e, d>> \in DeviceOrder(S, N)
    <3>1. NodeOf(d) \in NodesOf(S) /\ NodeOf(e) \in NodesOf(S) /\ d \in S /\ e \in S
      BY <1>4, NodeFacts
    <3>2. <<NodeOf(e), NodeOf(d)>> \in N <=> Sooner(NodeOf(e), NodeOf(d))
      BY <1>2, <3>1
    <3> HIDE DEF N
    <3> QED BY <3>1, <3>2 DEF DeviceOrder
  <2> HIDE DEF Before
  <2> QED BY <2>1
<1> HIDE DEF Before, N
<1>6. {d \in L : Cardinality({e \in L : Before(e, d)}) < c}
        = {d \in L : Cardinality({e \in L : <<e, d>> \in DeviceOrder(S, N)}) < c}
  BY <1>5, Zenon
<1> QED BY <1>1, <1>3, <1>6, Zenon DEF Filled, Foremost, N

\* The round in which spread comes to a device, and the order in which it takes them.
DealRound(S, d) == Cardinality({e \in OnNode(S, NodeOf(d)) : e.gpu < d.gpu})

SpreadOrder(S, ord) ==
  {p \in S \X S : \/ DealRound(S, p[1]) < DealRound(S, p[2])
                  \/ /\ DealRound(S, p[1]) = DealRound(S, p[2])
                     /\ NodeBefore(ord, NodeOf(p[1]), NodeOf(p[2]))}

Dealt(S, ord, c, k) ==
  Foremost(Lead(S, k, FirstOrder(S, ord)), c, SpreadOrder(S, ord))

LEMMA RoundFacts ==
  ASSUME NEW ord, NEW S, IsDevices(S, ord), NEW d \in S, NEW e \in S
  PROVE  /\ DealRound(S, d) \in Nat
         /\ NodeOf(d) = NodeOf(e) /\ d.gpu < e.gpu => DealRound(S, d) < DealRound(S, e)
<1> DEFINE below(x) == {y \in OnNode(S, NodeOf(x)) : y.gpu < x.gpu}
<1>1. IsFiniteSet(S) /\ \A x \in S : x.gpu \in Int
  BY DEF IsDevices
<1>2. below(d) \subseteq S /\ below(e) \subseteq S
  BY DEF OnNode
<1>3. DealRound(S, d) = Cardinality(below(d)) /\ DealRound(S, e) = Cardinality(below(e))
  BY DEF DealRound
<1>4. /\ IsFiniteSet(below(d)) /\ Cardinality(below(d)) \in Nat
      /\ IsFiniteSet(below(e)) /\ Cardinality(below(e)) \in Nat
  <2> HIDE DEF below
  <2> QED BY <1>1, <1>2, FS_Subset, FS_CardinalityType
<1>5. ASSUME NodeOf(d) = NodeOf(e), d.gpu < e.gpu PROVE Cardinality(below(d)) < Cardinality(below(e))
  <2>1. d \in below(e) /\ d \notin below(d)
    BY <1>1, <1>5 DEF OnNode
  <2>2. below(d) \subseteq below(e)
    <3> SUFFICES ASSUME NEW x \in OnNode(S, NodeOf(d)), x.gpu < d.gpu PROVE x.gpu < e.gpu
      BY <1>5, Zenon
    <3>1. x \in S
      BY DEF OnNode
    <3> QED BY <1>1, <1>5, <3>1
  <2>3. below(d) \subseteq below(e) \ {d}
    BY <2>1, <2>2
  <2> HIDE DEF below
  <2>4. /\ IsFiniteSet(below(e) \ {d})
        /\ Cardinality(below(e) \ {d}) = Cardinality(below(e)) - 1
    BY <1>4, <2>1, FS_RemoveElement
  <2>5. Cardinality(below(d)) <= Cardinality(below(e) \ {d})
    BY <2>3, <2>4, FS_Subset
  <2> QED BY <1>4, <2>4, <2>5
<1> QED BY <1>3, <1>4, <1>5

LEMMA SpreadIsOrder ==
  ASSUME NEW ord, NEW S, IsDevices(S, ord), NEW T, T \subseteq S
  PROVE  StrictOrder(SpreadOrder(S, ord), T)
<1> DEFINE D == SpreadOrder(S, ord)
           N == FirstOrder(S, ord)
           round(d) == DealRound(S, d)
<1>1. \A d, e \in T : <<d, e>> \in D <=>
        \/ round(d) < round(e)
        \/ round(d) = round(e) /\ <<NodeOf(d), NodeOf(e)>> \in N
  <2>1. \A d \in T : NodeOf(d) \in NodesOf(S) /\ d \in S
    BY NodeFacts
  <2> HIDE DEF round
  <2> QED BY <2>1 DEF SpreadOrder, FirstOrder, round
<1>2. \A d \in T : round(d) \in Nat /\ NodeOf(d) \in NodesOf(S) /\ d.gpu \in Int
  BY NodeFacts, RoundFacts DEF IsDevices
<1>3. StrictOrder(N, NodesOf(S))
  BY FirstIsOrder
<1>4. ASSUME NEW d \in T, NEW e \in T, d # e, NodeOf(d) = NodeOf(e)
      PROVE  round(d) < round(e) \/ round(e) < round(d)
  <2>1. d.gpu # e.gpu
    <3>1. d.pool = e.pool /\ d.node = e.node /\ d \in S /\ e \in S
      BY <1>4, NodeFields
    <3> QED BY <1>4, <3>1, Zenon DEF IsDevices
  <2>2. d.gpu < e.gpu \/ e.gpu < d.gpu
    BY <1>2, <2>1
  <2>3. d \in S /\ e \in S
    OBVIOUS
  <2> QED BY <1>4, <2>2, <2>3, RoundFacts, Zenon
<1> HIDE DEF D, N, round
<1>5. ASSUME NEW d \in T PROVE <<d, d>> \notin D
  <2>1. <<NodeOf(d), NodeOf(d)>> \notin N
    BY <1>2, <1>3, Zenon DEF StrictOrder
  <2>2. ~(round(d) < round(d))
    BY <1>2
  <2> QED BY <1>1, <2>1, <2>2, Zenon
<1>6. ASSUME NEW d \in T, NEW e \in T, d # e PROVE <<d, e>> \in D \/ <<e, d>> \in D
  <2>1. CASE NodeOf(d) = NodeOf(e)
    BY <1>1, <1>4, <1>6, <2>1, Zenon
  <2>2. CASE NodeOf(d) # NodeOf(e)
    <3>1. <<NodeOf(d), NodeOf(e)>> \in N \/ <<NodeOf(e), NodeOf(d)>> \in N
      BY <1>2, <1>3, <2>2, Zenon DEF StrictOrder
    <3>2. round(d) < round(e) \/ round(e) < round(d) \/ round(d) = round(e)
      BY <1>2
    <3> QED BY <1>1, <3>1, <3>2, Zenon
  <2> QED BY <2>1, <2>2
<1>7. ASSUME NEW d \in T, NEW e \in T, NEW f \in T, <<d, e>> \in D, <<e, f>> \in D
      PROVE  <<d, f>> \in D
  <2> DEFINE a == NodeOf(d)
             b == NodeOf(e)
             c == NodeOf(f)
  <2>1. <<a, b>> \in N /\ <<b, c>> \in N => <<a, c>> \in N
    BY <1>2, <1>3, Zenon DEF StrictOrder
  <2>2. round(d) < round(e) \/ (round(d) = round(e) /\ <<a, b>> \in N)
    BY <1>1, <1>7
  <2>3. round(e) < round(f) \/ (round(e) = round(f) /\ <<b, c>> \in N)
    BY <1>1, <1>7
  <2>4. round(d) \in Nat /\ round(e) \in Nat /\ round(f) \in Nat
    BY <1>2
  <2>5. round(d) < round(f) \/ (round(d) = round(f) /\ <<a, c>> \in N)
    <3> HIDE DEF a, b, c
    <3> QED BY <2>1, <2>2, <2>3, <2>4
  <2> QED BY <1>1, <2>5
<1> QED BY <1>5, <1>6, <1>7, Zenon DEF StrictOrder, D

LEMMA SpreadIsDealt ==
  ASSUME NEW S, NEW ord, NEW c, NEW k
  PROVE  selectSpread(S, ord, c, k) = Dealt(S, ord, c, k)
<1> DEFINE N == FirstOrder(S, ord)
           L == {d \in S : k = 0 \/ Cardinality({n \in NodesOf(S) :
                                                   NodeBefore(ord, n, NodeOf(d))}) < k}
           round(d) == Cardinality({e \in OnNode(S, NodeOf(d)) : e.gpu < d.gpu})
           Before(e, d) == \/ round(e) < round(d)
                           \/ round(e) = round(d) /\ NodeBefore(ord, NodeOf(e), NodeOf(d))
<1>1. selectSpread(S, ord, c, k) = {d \in L : Cardinality({e \in L : Before(e, d)}) < c}
  BY DEF selectSpread, Take, Leading, WithinNodeLimit
<1>2. \A m, n \in NodesOf(S) : <<m, n>> \in N <=> NodeBefore(ord, m, n)
  BY DEF FirstOrder
<1>3. L = Lead(S, k, N)
  <2>1. ASSUME NEW d \in S
        PROVE  {n \in NodesOf(S) : NodeBefore(ord, n, NodeOf(d))}
                 = {n \in NodesOf(S) : <<n, NodeOf(d)>> \in N}
    <3>1. NodeOf(d) \in NodesOf(S)
      BY NodeFacts
    <3> HIDE DEF N
    <3> QED BY <1>2, <3>1
  <2> HIDE DEF N
  <2> QED BY <2>1, Zenon DEF Lead
<1>4. L \subseteq S /\ \A d : round(d) = DealRound(S, d)
  BY DEF DealRound
<1> HIDE DEF L, round
<1>5. ASSUME NEW d \in L
      PROVE  {e \in L : Before(e, d)} = {e \in L : <<e, d>> \in SpreadOrder(S, ord)}
  <2>1. ASSUME NEW e \in L PROVE Before(e, d) <=> <<e, d>> \in SpreadOrder(S, ord)
    BY <1>4 DEF SpreadOrder
  <2> HIDE DEF Before
  <2> QED BY <2>1
<1> HIDE DEF Before, N
<1>6. {d \in L : Cardinality({e \in L : Before(e, d)}) < c}
        = {d \in L : Cardinality({e \in L : <<e, d>> \in SpreadOrder(S, ord)}) < c}
  BY <1>5, Zenon
<1> QED BY <1>1, <1>3, <1>6, Zenon DEF Dealt, Foremost, N

\* The nodes with enough devices, the first of them, and the devices on some nodes.
Enough(S, c) == {n \in NodesOf(S) : Cardinality(OnNode(S, n)) >= c}

Best(S, c, N) == {n \in Enough(S, c) : \A m \in Enough(S, c) \ {n} : <<n, m>> \in N}

On(S, M) == {d \in S : NodeOf(d) \in M}

OneNode(S, ord, c, N) == selectFirstFit(On(S, Best(S, c, N)), ord, c, 0)

LEMMA SameNodeIsOneNode ==
  ASSUME NEW S, NEW ord, NEW c
  PROVE  selectSameNode(S, ord, c) = OneNode(S, ord, c, PackOrder(S, ord))
<1> DEFINE enough == {n \in NodesOf(S) : Cardinality(OnNode(S, n)) >= c}
           better(n, m) == \/ Cardinality(OnNode(S, n)) > Cardinality(OnNode(S, m))
                           \/ /\ Cardinality(OnNode(S, n)) = Cardinality(OnNode(S, m))
                              /\ NodeBefore(ord, n, m)
           best == {n \in enough : \A m \in enough \ {n} : better(n, m)}
<1>1. selectSameNode(S, ord, c) = selectFirstFit({d \in S : NodeOf(d) \in best}, ord, c, 0)
  BY Zenon DEF selectSameNode
<1>2. \A m, n \in NodesOf(S) : better(n, m) <=> <<n, m>> \in PackOrder(S, ord)
  BY DEF PackOrder
<1>3. enough = Enough(S, c) /\ enough \subseteq NodesOf(S)
  BY DEF Enough
<1> HIDE DEF better, enough
<1>4. best = Best(S, c, PackOrder(S, ord))
  BY <1>2, <1>3 DEF Best
<1> HIDE DEF best
<1> QED BY <1>1, <1>4, Zenon DEF OneNode, On

LEMMA LocalityIsOneNode ==
  ASSUME NEW S, NEW ord, NEW c, NEW k
  PROVE  selectLocality(S, ord, c, k) =
           IF Enough(S, c) = {} THEN selectPack(S, ord, c, k)
                                ELSE OneNode(S, ord, c, FirstOrder(S, ord))
<1> DEFINE enough == {n \in NodesOf(S) : Cardinality(OnNode(S, n)) >= c}
           first == {n \in enough : \A m \in enough \ {n} : NodeBefore(ord, n, m)}
<1>1. selectLocality(S, ord, c, k) =
        IF enough = {} THEN selectPack(S, ord, c, k)
                       ELSE selectFirstFit({d \in S : NodeOf(d) \in first}, ord, c, 0)
  BY DEF selectLocality
<1>2. \A m, n \in NodesOf(S) : NodeBefore(ord, n, m) <=> <<n, m>> \in FirstOrder(S, ord)
  BY DEF FirstOrder
<1>3. enough = Enough(S, c) /\ enough \subseteq NodesOf(S)
  BY DEF Enough
<1> HIDE DEF enough
<1>4. first = Best(S, c, FirstOrder(S, ord))
  BY <1>2, <1>3 DEF Best
<1> HIDE DEF first
<1> QED BY <1>1, <1>3, <1>4, Zenon DEF OneNode, On

LEMMA OneNodeFacts ==
  ASSUME NEW ord, NEW S, IsDevices(S, ord), NEW N, StrictOrder(N, NodesOf(S)), NEW c \in Nat \ {0}
  PROVE  /\ OneNode(S, ord, c, N) \subseteq S
         /\ Cardinality(OneNode(S, ord, c, N)) <= c
         /\ Cardinality(NodesOf(OneNode(S, ord, c, N))) <= 1
         /\ Enough(S, c) # {} => /\ Cardinality(OneNode(S, ord, c, N)) = c
                                 /\ Cardinality(NodesOf(OneNode(S, ord, c, N))) = 1
<1> DEFINE Q == Enough(S, c)
           M == Best(S, c, N)
           T == On(S, M)
           R == OneNode(S, ord, c, N)
<1>1. Q \subseteq NodesOf(S) /\ M \subseteq Q /\ T \subseteq S
  BY DEF Enough, Best, On
<1>2. IsFiniteSet(S) /\ IsFiniteSet(T) /\ IsDevices(T, ord)
  <2>1. IsFiniteSet(S)
    BY DEF IsDevices
  <2> HIDE DEF T
  <2> QED BY <1>1, <2>1, SubsetOfDevices, FS_Subset
<1>3. R = Filled(T, c, 0, FirstOrder(T, ord))
  BY FirstFitIsFilled DEF OneNode
<1>4. Lead(T, 0, FirstOrder(T, ord)) = T
  BY LeadFacts
<1>5. StrictOrder(FirstOrder(T, ord), NodesOf(T))
  BY <1>2, FirstIsOrder
<1>6. /\ R \subseteq T /\ Cardinality(R) <= c
      /\ Cardinality(T) >= c => Cardinality(R) = c
  <2> HIDE DEF T, R
  <2>1. c \in Nat /\ 0 \in Nat
    OBVIOUS
  <2> QED BY <1>2, <1>3, <1>4, <1>5, <2>1, FilledFacts
<1>7. \A m, n \in M : m = n
  <2> SUFFICES ASSUME NEW m \in M, NEW n \in M, m # n PROVE FALSE
    OBVIOUS
  <2>1. <<m, n>> \in N /\ <<n, m>> \in N /\ m \in NodesOf(S) /\ n \in NodesOf(S)
    BY <1>1 DEF Best
  <2> QED BY <2>1, Zenon DEF StrictOrder
<1>8. NodesOf(R) \subseteq M
  BY <1>6 DEF NodesOf, On
<1>9. ASSUME NEW n \in NodesOf(R) PROVE NodesOf(R) = {n}
  BY <1>7, <1>8
<1>10. Cardinality(NodesOf(R)) <= 1 /\ (R # {} => Cardinality(NodesOf(R)) = 1)
  <2>1. CASE NodesOf(R) = {}
    <3>1. R = {}
      BY <2>1 DEF NodesOf
    <3> QED BY <2>1, <3>1, FS_EmptySet
  <2>2. CASE NodesOf(R) # {}
    <3>1. PICK n \in NodesOf(R) : TRUE
      BY <2>2
    <3>2. Cardinality({n}) = 1
      BY FS_Singleton
    <3> QED BY <1>9, <3>2
  <2> QED BY <2>1, <2>2
<1>11. ASSUME Q # {} PROVE Cardinality(T) >= c
  <2>1. IsFiniteSet(Q)
    BY <1>1, <1>2, NodesFinite, FS_Subset
  <2>2. /\ \A x, y \in Q : x # y => <<x, y>> \in N \/ <<y, x>> \in N
        /\ \A x, y, z \in Q : <<x, y>> \in N /\ <<y, z>> \in N => <<x, z>> \in N
    BY <1>1, Zenon DEF StrictOrder
  <2>3. PICK n \in Q : \A m \in Q \ {n} : <<n, m>> \in N
    <3> HIDE DEF Q
    <3> QED BY <1>11, <2>1, <2>2, FirstExists
  <2>4. n \in M /\ Cardinality(OnNode(S, n)) >= c
    BY <2>3 DEF Best, Enough
  <2>5. OnNode(S, n) \subseteq T
    BY <2>4 DEF OnNode, On
  <2> HIDE DEF T
  <2>6. /\ Cardinality(OnNode(S, n)) <= Cardinality(T)
        /\ Cardinality(OnNode(S, n)) \in Nat /\ Cardinality(T) \in Nat
    BY <1>2, <2>5, FS_Subset, FS_CardinalityType
  <2> QED BY <2>4, <2>6
<1>12. ASSUME Q # {} PROVE Cardinality(R) = c /\ R # {}
  <2>1. Cardinality(R) = c
    BY <1>6, <1>11, <1>12
  <2> HIDE DEF R
  <2> QED BY <2>1, FS_EmptySet
<1> QED BY <1>1, <1>6, <1>10, <1>12

LEMMA DealtFacts ==
  ASSUME NEW ord, NEW S, IsDevices(S, ord), NEW c \in Nat, NEW k \in Nat
  PROVE  LET L == Lead(S, k, FirstOrder(S, ord))
             F == Dealt(S, ord, c, k)
         IN  /\ F \subseteq L
             /\ Cardinality(F) <= c
             /\ Cardinality(L) >= c => Cardinality(F) = c
             /\ Cardinality(L) <= c => F = L
             /\ k > 0 => Cardinality(NodesOf(F)) <= k
<1>1. StrictOrder(FirstOrder(S, ord), NodesOf(S))
  BY FirstIsOrder
<1>2. StrictOrder(SpreadOrder(S, ord), Lead(S, k, FirstOrder(S, ord)))
  BY LeadFacts, SpreadIsOrder
<1>3. IsFiniteSet(S)
  BY DEF IsDevices
<1> QED BY <1>1, <1>2, <1>3, TakenFacts DEF Dealt

\* The options of a workload, and what pickDevices does with them.
IsOptions(o) ==
  o.policy \in PlacementPolicies /\ o.requireSameNode \in BOOLEAN /\ o.maxNodes \in Nat

LEMMA PickCases ==
  ASSUME NEW S, NEW ord, NEW c, NEW o, IsOptions(o)
  PROVE  LET R == pickDevices(S, ord, c, o)
             k == o.maxNodes
         IN  \/ /\ o.requireSameNode
                /\ R = OneNode(S, ord, c, PackOrder(S, ord))
             \/ /\ ~o.requireSameNode /\ o.policy = "first_fit"
                /\ R = Filled(S, c, k, FirstOrder(S, ord))
             \/ /\ ~o.requireSameNode /\ o.policy = "pack"
                /\ R = Filled(S, c, k, PackOrder(S, ord))
             \/ /\ ~o.requireSameNode /\ o.policy = "spread"
                /\ R = Dealt(S, ord, c, k)
             \/ /\ ~o.requireSameNode /\ o.policy = "locality_aware"
                /\ R = IF Enough(S, c) = {} THEN Filled(S, c, k, PackOrder(S, ord))
                                            ELSE OneNode(S, ord, c, FirstOrder(S, ord))
<1> DEFINE R == pickDevices(S, ord, c, o)
           k == o.maxNodes
<1>1. CASE o.requireSameNode
  BY <1>1, SameNodeIsOneNode DEF pickDevices
<1>2. CASE ~o.requireSameNode /\ o.policy = "first_fit"
  BY <1>2, FirstFitIsFilled DEF pickDevices
<1>3. CASE ~o.requireSameNode /\ o.policy = "pack"
  BY <1>3, PackIsFilled DEF pickDevices
<1>4. CASE ~o.requireSameNode /\ o.policy = "spread"
  BY <1>4, SpreadIsDealt DEF pickDevices
<1>5. CASE ~o.requireSameNode /\ o.policy = "locality_aware"
  <2>1. R = selectLocality(S, ord, c, k)
    BY <1>5 DEF pickDevices
  <2>2. selectPack(S, ord, c, k) = Filled(S, c, k, PackOrder(S, ord))
    BY PackIsFilled
  <2> QED BY <1>5, <2>1, <2>2, LocalityIsOneNode
<1> QED BY <1>1, <1>2, <1>3, <1>4, <1>5 DEF IsOptions, PlacementPolicies

\* pickDevices takes eligible devices, at most as many as asked for, and within the
\* node limits, whatever the pools, the devices and the options are.
LEMMA PicksWithinLimits ==
  ASSUME NEW ord, NEW S, IsDevices(S, ord), NEW c \in Nat \ {0}, NEW o, IsOptions(o)
  PROVE  LET R == pickDevices(S, ord, c, o)
         IN  /\ R \subseteq S
             /\ Cardinality(R) <= c
             /\ o.requireSameNode => Cardinality(NodesOf(R)) <= 1
             /\ o.maxNodes > 0 => Cardinality(NodesOf(R)) <= o.maxNodes
<1> DEFINE R == pickDevices(S, ord, c, o)
           k == o.maxNodes
<1>1. c \in Nat /\ k \in Nat
  BY DEF IsOptions
<1>2. /\ StrictOrder(FirstOrder(S, ord), NodesOf(S))
      /\ StrictOrder(PackOrder(S, ord), NodesOf(S))
  BY FirstIsOrder, PackIsOrder
<1>3. R \subseteq S /\ IsFiniteSet(S) => Cardinality(NodesOf(R)) \in Nat
  BY FS_Subset, NodesFinite
<1>4. IsFiniteSet(S)
  BY DEF IsDevices
<1> HIDE DEF R, k
<1>5. ASSUME NEW N, StrictOrder(N, NodesOf(S)), R = OneNode(S, ord, c, N)
      PROVE  /\ R \subseteq S /\ Cardinality(R) <= c /\ Cardinality(NodesOf(R)) <= 1
             /\ k > 0 => Cardinality(NodesOf(R)) <= k
  <2>1. R \subseteq S /\ Cardinality(R) <= c /\ Cardinality(NodesOf(R)) <= 1
    BY <1>5, OneNodeFacts
  <2> QED BY <1>1, <1>3, <1>4, <2>1
<1>6. ASSUME NEW N, StrictOrder(N, NodesOf(S)), R = Filled(S, c, k, N)
      PROVE  R \subseteq S /\ Cardinality(R) <= c /\ (k > 0 => Cardinality(NodesOf(R)) <= k)
  BY <1>1, <1>6, FilledFacts, LeadFacts
<1>7. ASSUME R = Dealt(S, ord, c, k)
      PROVE  R \subseteq S /\ Cardinality(R) <= c /\ (k > 0 => Cardinality(NodesOf(R)) <= k)
  BY <1>1, <1>7, DealtFacts, LeadFacts
<1>8. \/ o.requireSameNode /\ R = OneNode(S, ord, c, PackOrder(S, ord))
      \/ ~o.requireSameNode /\ R = OneNode(S, ord, c, FirstOrder(S, ord))
      \/ ~o.requireSameNode /\ R = Filled(S, c, k, FirstOrder(S, ord))
      \/ ~o.requireSameNode /\ R = Filled(S, c, k, PackOrder(S, ord))
      \/ ~o.requireSameNode /\ R = Dealt(S, ord, c, k)
  BY PickCases DEF R, k
<1>9. /\ R \subseteq S /\ Cardinality(R) <= c
      /\ o.requireSameNode => Cardinality(NodesOf(R)) <= 1
      /\ k > 0 => Cardinality(NodesOf(R)) <= k
  BY <1>2, <1>5, <1>6, <1>7, <1>8
<1> QED BY <1>9 DEF R, k

-----------------------------------------------------------------------------
(* Placement: spread is balanced. *)

LEMMA LowestAndHighest ==
  ASSUME NEW ord, NEW S, IsDevices(S, ord), NEW n, NEW X, X \subseteq OnNode(S, n), X # {}
  PROVE  /\ \E d \in X : \A e \in X \ {d} : d.gpu < e.gpu
         /\ \E d \in X : \A e \in X \ {d} : e.gpu < d.gpu
<1>1. X \subseteq S /\ \A d \in X : NodeOf(d) = n /\ d.gpu \in Int
  BY DEF OnNode, IsDevices
<1>2. IsFiniteSet(X)
  BY <1>1, FS_Subset DEF IsDevices
<1>3. ASSUME NEW d \in X, NEW e \in X, d # e PROVE d.gpu < e.gpu \/ e.gpu < d.gpu
  <2>1. d.pool = e.pool /\ d.node = e.node /\ d \in S /\ e \in S
    BY <1>1, NodeFields
  <2>2. d.gpu # e.gpu
    BY <1>3, <2>1, Zenon DEF IsDevices
  <2> QED BY <1>1, <2>2
<1>4. PICK B : \A d, e \in X : <<d, e>> \in B <=> d.gpu < e.gpu
  <2> DEFINE B == {p \in X \X X : p[1].gpu < p[2].gpu}
  <2>1. \A d, e \in X : <<d, e>> \in B <=> d.gpu < e.gpu
    OBVIOUS
  <2> QED BY <2>1
<1>5. PICK C : \A d, e \in X : <<d, e>> \in C <=> e.gpu < d.gpu
  <2> DEFINE C == {p \in X \X X : p[2].gpu < p[1].gpu}
  <2>1. \A d, e \in X : <<d, e>> \in C <=> e.gpu < d.gpu
    OBVIOUS
  <2> QED BY <2>1
<1>6. \A d, e, f \in X : d.gpu < e.gpu /\ e.gpu < f.gpu => d.gpu < f.gpu
  BY <1>1
<1>7. \E d \in X : \A e \in X \ {d} : <<d, e>> \in B
  <2>1. /\ \A d, e \in X : d # e => <<d, e>> \in B \/ <<e, d>> \in B
        /\ \A d, e, f \in X : <<d, e>> \in B /\ <<e, f>> \in B => <<d, f>> \in B
    BY <1>3, <1>4, <1>6, Zenon
  <2> QED BY <1>2, <2>1, FirstExists
<1>8. \E d \in X : \A e \in X \ {d} : <<d, e>> \in C
  <2>1. /\ \A d, e \in X : d # e => <<d, e>> \in C \/ <<e, d>> \in C
        /\ \A d, e, f \in X : <<d, e>> \in C /\ <<e, f>> \in C => <<d, f>> \in C
    BY <1>3, <1>5, <1>6, Zenon
  <2> QED BY <1>2, <2>1, FirstExists
<1> QED BY <1>4, <1>5, <1>7, <1>8, Zenon

\* spread takes two devices more from a node than from another one only when the
\* other has none left, or is not one of the nodes that maxNodes lets it use.
LEMMA DealtIsBalanced ==
  ASSUME NEW ord, NEW S, IsDevices(S, ord), NEW c \in Nat, NEW k \in Nat,
         NEW F, F = Dealt(S, ord, c, k), NEW m, NEW n, k = 0 \/ n \in NodesOf(F),
         Cardinality(OnNode(F, m)) > Cardinality(OnNode(F, n)) + 1
  PROVE  Cardinality(OnNode(F, n)) = Cardinality(OnNode(S, n))
<1> DEFINE L == Lead(S, k, FirstOrder(S, ord))
           X == OnNode(S, n) \ F
           Y == OnNode(F, m)
           below(x) == {y \in OnNode(S, NodeOf(x)) : y.gpu < x.gpu}
<1>1. F \subseteq L /\ L \subseteq S
  BY DealtFacts, LeadFacts
<1>2. IsFiniteSet(S) /\ IsFiniteSet(F) /\ IsFiniteSet(L)
  <2> HIDE DEF L
  <2> QED BY <1>1, FS_Subset DEF IsDevices
<1>3. /\ IsFiniteSet(OnNode(F, n)) /\ Cardinality(OnNode(F, n)) \in Nat
      /\ IsFiniteSet(Y) /\ Cardinality(Y) \in Nat
  BY <1>2, NodesFinite
<1>4. SUFFICES ASSUME X # {} PROVE FALSE
  <2>1. X = {} => OnNode(F, n) = OnNode(S, n)
    BY <1>1 DEF OnNode
  <2> QED BY <1>4, <2>1, Zenon
<1>5. PICK d \in X : \A e \in X \ {d} : d.gpu < e.gpu
  <2>1. X \subseteq OnNode(S, n)
    OBVIOUS
  <2> HIDE DEF X
  <2> QED BY <1>4, <2>1, LowestAndHighest
<1>6. Y # {} /\ Y \subseteq OnNode(S, m)
  <2>1. Y \subseteq OnNode(S, m)
    BY <1>1 DEF OnNode
  <2>2. Y # {}
    <3> SUFFICES ASSUME Y = {} PROVE FALSE
      OBVIOUS
    <3>1. Cardinality(Y) = 0
      BY <1>3, FS_EmptySet
    <3> HIDE DEF Y
    <3> QED BY <1>3, <3>1 DEF Y
  <2> QED BY <2>1, <2>2
<1>7. PICK e \in Y : \A f \in Y \ {e} : f.gpu < e.gpu
  <2> HIDE DEF Y
  <2> QED BY <1>6, LowestAndHighest
<1>8. /\ d \in S /\ d \notin F /\ NodeOf(d) = n /\ e \in F /\ e \in S /\ NodeOf(e) = m
      /\ e \in L
  BY <1>1, <1>5, <1>7 DEF OnNode
<1>9. DealRound(S, d) <= Cardinality(OnNode(F, n))
  <2>1. below(d) \subseteq OnNode(F, n)
    <3> SUFFICES ASSUME NEW y \in OnNode(S, n), y.gpu < d.gpu PROVE y \in F
      BY <1>8 DEF OnNode
    <3>1. y.gpu \in Int /\ d.gpu \in Int
      BY <1>8 DEF OnNode, IsDevices
    <3>2. ~(d.gpu < y.gpu) /\ y # d
      BY <3>1
    <3> QED BY <1>5, <3>2
  <2>2. DealRound(S, d) = Cardinality(below(d))
    BY DEF DealRound
  <2> HIDE DEF below
  <2> QED BY <1>3, <2>1, <2>2, FS_Subset
<1>10. Cardinality(Y) - 1 <= DealRound(S, e)
  <2>1. Y \ {e} \subseteq below(e)
    BY <1>6, <1>7, <1>8
  <2>2. DealRound(S, e) = Cardinality(below(e)) /\ below(e) \subseteq OnNode(S, NodeOf(e))
    BY DEF DealRound
  <2> HIDE DEF below, Y
  <2>3. IsFiniteSet(below(e))
    BY <1>2, <2>2, NodesFinite, FS_Subset
  <2>4. Cardinality(Y \ {e}) = Cardinality(Y) - 1
    BY <1>3, <1>7, FS_RemoveElement
  <2> QED BY <2>1, <2>2, <2>3, <2>4, FS_Subset
<1>11. DealRound(S, d) < DealRound(S, e)
  <2>1. DealRound(S, d) \in Nat /\ DealRound(S, e) \in Nat
    BY <1>8, RoundFacts
  <2>2. Cardinality(Y) > Cardinality(OnNode(F, n)) + 1
    OBVIOUS
  <2> HIDE DEF Y
  <2> QED BY <1>3, <1>9, <1>10, <2>1, <2>2
<1>12. <<d, e>> \in SpreadOrder(S, ord)
  BY <1>8, <1>11 DEF SpreadOrder
<1>13. d \in L
  <2>1. CASE k = 0
    BY <1>8, <2>1, LeadFacts
  <2>2. CASE k # 0
    <3>1. n \in NodesOf(L)
      BY <1>1, <2>2 DEF NodesOf
    <3>2. n \in Foremost(NodesOf(S), k, FirstOrder(S, ord))
      BY <2>2, <3>1, LeadFacts, Zenon
    <3> QED BY <1>8, <2>2, <3>2, LeadFacts
  <2> QED BY <2>1, <2>2
<1>14. StrictOrder(SpreadOrder(S, ord), L)
  BY <1>1, SpreadIsOrder
<1>15. \A x, y, z \in L : <<x, y>> \in SpreadOrder(S, ord) /\ <<y, z>> \in SpreadOrder(S, ord)
         => <<x, z>> \in SpreadOrder(S, ord)
  BY <1>14, Zenon DEF StrictOrder
<1>16. F = Foremost(L, c, SpreadOrder(S, ord))
  BY DEF Dealt
<1> HIDE DEF L
<1>17. d \in F
  BY <1>2, <1>8, <1>12, <1>13, <1>15, <1>16, ForemostIsPrefix
<1> QED BY <1>8, <1>17

-----------------------------------------------------------------------------
(* Placement: pack uses as few nodes as possible. *)

Counts(S) == [n \in NodesOf(S) |-> Cardinality(OnNode(S, n))]

\* The devices on some nodes, counted node by node.
LEMMA DevicesByNode ==
  ASSUME NEW S, IsFiniteSet(S), NEW M, M \subseteq NodesOf(S)
  PROVE  IsFiniteSet(On(S, M)) /\ Cardinality(On(S, M)) = Total(Counts(S), M)
<1> DEFINE A == [n \in M |-> OnNode(S, n)]
           f == [n \in M |-> Cardinality(A[n])]
           U == UNION {A[n] : n \in M}
<1>1. IsFiniteSet(M)
  BY NodesFinite, FS_Subset
<1>2. \A n \in M : IsFiniteSet(A[n])
  BY NodesFinite
<1>3. \A m, n \in M : m # n => A[m] \cap A[n] = {}
  BY DEF OnNode
<1>4. U = On(S, M)
  BY DEF OnNode, On
<1>5. \A n \in M : f[n] = Counts(S)[n]
  BY DEF Counts
<1>6. IsFiniteSet(U) /\ Cardinality(U) = Total(f, M)
  <2> HIDE DEF A
  <2> QED BY <1>1, <1>2, <1>3, TotalOfDisjoint
<1>7. \A n \in M : f[n] \in Int
  BY NodesFinite
<1> HIDE DEF f, U, A
<1>8. Total(f, M) = Total(Counts(S), M)
  BY <1>1, <1>5, <1>7, TotalCongruence
<1> QED BY <1>4, <1>6, <1>8

LEMMA CountsType ==
  ASSUME NEW S, IsFiniteSet(S), NEW n \in NodesOf(S)
  PROVE  Counts(S)[n] = Cardinality(OnNode(S, n)) /\ Counts(S)[n] \in Nat
  BY NodesFinite DEF Counts

\* No set of as many nodes has more devices than the fullest ones.
LEMMA FullestNodes ==
  ASSUME NEW S, IsFiniteSet(S), NEW X, X \subseteq NodesOf(S),
         \A x \in X, i \in NodesOf(S) \ X : Counts(S)[i] <= Counts(S)[x],
         NEW W, W \subseteq NodesOf(S), Cardinality(W) <= Cardinality(X)
  PROVE  Cardinality(On(S, W)) <= Cardinality(On(S, X))
<1> DEFINE f == Counts(S)
           I == NodesOf(S)
<1>1. /\ Cardinality(On(S, W)) = Total(f, W)
      /\ Cardinality(On(S, X)) = Total(f, X)
  BY DevicesByNode
<1>2. IsFiniteSet(I) /\ IsFiniteSet(W) /\ IsFiniteSet(X) /\ Cardinality(W) \in Nat
  BY NodesFinite, FS_Subset, FS_CardinalityType
<1>3. \A x \in I : f[x] \in Nat
  BY CountsType
<1> HIDE DEF f, I
<1>4. PICK s \in Nat : (\A x \in X : f[x] >= s) /\ \A i \in I \ X : X # {} => f[i] <= s
  <2>1. CASE X = {}
    BY <2>1
  <2>2. CASE X # {}
    <3> DEFINE C == {f[x] : x \in X}
               g == [x \in X |-> f[x]]
    <3>1. g \in Surjection(X, C)
      BY DEF Surjection
    <3>2. C # {} /\ C \subseteq Nat
      BY <1>3, <2>2 DEF I
    <3>3. IsFiniteSet(C)
      <4> HIDE DEF g, C
      <4> QED BY <1>2, <3>1, FS_Surjection
    <3>4. C \in SUBSET Int
      BY <3>2
    <3>5. PICK s \in C : \A y \in C : s <= y
      <4> HIDE DEF C
      <4> QED BY <3>2, <3>3, <3>4, Extremes
    <3>6. PICK x \in X : f[x] = s
      BY <3>5
    <3>7. \A y \in X : f[y] >= s
      <4> SUFFICES ASSUME NEW y \in X PROVE f[y] >= s
        OBVIOUS
      <4>1. s <= f[y] /\ f[y] \in Nat /\ s \in Nat
        BY <3>2, <3>5
      <4> QED BY <4>1
    <3>8. \A i \in I \ X : f[i] <= s
      BY <3>6 DEF f, I
    <3>9. s \in Nat
      BY <3>2, <3>5
    <3> QED BY <3>7, <3>8, <3>9
  <2> QED BY <2>1, <2>2
<1>5. CASE X = {}
  <2>1. Cardinality(X) = 0
    BY <1>5, FS_EmptySet
  <2>2. W = {}
    BY <1>2, <2>1, FS_EmptySet
  <2>3. W = X
    BY <1>5, <2>2
  <2>4. Total(f, X) \in Int
    BY <1>5, TotalEmpty
  <2> QED BY <1>1, <2>3, <2>4
<1>6. CASE X # {}
  <2>1. X \subseteq I /\ W \subseteq I
    BY DEF I
  <2>2. \A i \in I \ X : f[i] <= s
    BY <1>4, <1>6
  <2> QED BY <1>1, <1>2, <1>3, <1>4, <2>1, <2>2, LargestSum
<1> QED BY <1>5, <1>6

\* An earlier node in pack's order has no fewer devices.
LEMMA PackDescends ==
  ASSUME NEW ord, NEW S, IsDevices(S, ord), NEW m \in NodesOf(S), NEW n \in NodesOf(S),
         <<m, n>> \in PackOrder(S, ord)
  PROVE  Counts(S)[n] <= Counts(S)[m]
<1>1. Cardinality(OnNode(S, m)) >= Cardinality(OnNode(S, n))
  <2>1. IsFiniteSet(S)
    BY DEF IsDevices
  <2>2. Cardinality(OnNode(S, m)) \in Nat /\ Cardinality(OnNode(S, n)) \in Nat
    BY <2>1, NodesFinite
  <2> QED BY <2>2 DEF PackOrder
<1> QED BY <1>1, NodesFinite, CountsType DEF IsDevices

\* Under a limit of k nodes pack may use the k fullest ones.
LEMMA PackLeadIsFullest ==
  ASSUME NEW ord, NEW S, IsDevices(S, ord), NEW k \in Nat \ {0},
         NEW W, W \subseteq NodesOf(S), Cardinality(W) <= k
  PROVE  Cardinality(On(S, W)) <= Cardinality(Lead(S, k, PackOrder(S, ord)))
<1> DEFINE I == NodesOf(S)
           N == PackOrder(S, ord)
           V == Foremost(I, k, N)
<1>1. IsFiniteSet(S) /\ IsFiniteSet(I) /\ IsFiniteSet(W)
  BY NodesFinite, FS_Subset DEF IsDevices
<1>2. StrictOrder(N, I)
  BY PackIsOrder
<1>3. Lead(S, k, N) = On(S, V)
  BY LeadFacts DEF On
<1>4. k \in Nat
  OBVIOUS
<1> HIDE DEF N
<1>5. /\ V \subseteq I /\ Cardinality(I) \in Nat /\ Cardinality(W) \in Nat
      /\ Cardinality(I) >= k => Cardinality(V) = k
      /\ Cardinality(I) <= k => V = I
      /\ Cardinality(W) <= Cardinality(I)
  BY <1>1, <1>2, <1>4, ForemostCount, FS_CardinalityType, FS_Subset
<1>6. Cardinality(W) <= Cardinality(V)
  <2>1. CASE Cardinality(I) >= k
    BY <1>5, <2>1
  <2>2. CASE ~(Cardinality(I) >= k)
    BY <1>5, <2>2
  <2> QED BY <2>1, <2>2
<1>7. ASSUME NEW x \in V, NEW i \in I \ V PROVE Counts(S)[i] <= Counts(S)[x]
  <2>1. x \in I /\ i \in I /\ x # i
    BY <1>5
  <2>2. \A a, b, c \in I : <<a, b>> \in N /\ <<b, c>> \in N => <<a, c>> \in N
    BY <1>2, Zenon DEF StrictOrder
  <2>3. <<i, x>> \notin N
    <3> SUFFICES ASSUME <<i, x>> \in N PROVE FALSE
      OBVIOUS
    <3>1. i \in V
      BY <1>1, <1>4, <2>1, <2>2, ForemostIsPrefix
    <3> QED BY <3>1
  <2>4. <<x, i>> \in N
    BY <1>2, <2>1, <2>3, Zenon DEF StrictOrder
  <2> QED BY <2>1, <2>4, PackDescends DEF N
<1> HIDE DEF V
<1>8. Cardinality(On(S, W)) <= Cardinality(On(S, V))
  BY <1>1, <1>5, <1>6, <1>7, FullestNodes
<1> QED BY <1>3, <1>8 DEF V, N

\* When pack finds c devices, no smaller number of nodes has c.
LEMMA PackUsesFewest ==
  ASSUME NEW ord, NEW S, IsDevices(S, ord), NEW c \in Nat \ {0}, NEW k \in Nat,
         NEW F, F = Filled(S, c, k, PackOrder(S, ord)),
         NEW W, W \subseteq NodesOf(S), Cardinality(W) < Cardinality(NodesOf(F))
  PROVE  Cardinality(On(S, W)) < c
<1> DEFINE I == NodesOf(S)
           N == PackOrder(S, ord)
           L == Lead(S, k, N)
           D == DeviceOrder(S, N)
           V == NodesOf(F)
<1>1. IsFiniteSet(S) /\ IsFiniteSet(I) /\ IsFiniteSet(W)
  BY NodesFinite, FS_Subset DEF IsDevices
<1>2. StrictOrder(N, I) /\ c \in Nat
  BY PackIsOrder
<1>3. F \subseteq L /\ L \subseteq S /\ F = Foremost(L, c, D)
  BY <1>2, FilledFacts, LeadFacts DEF Filled
<1>4. IsFiniteSet(L) /\ IsFiniteSet(F) /\ IsFiniteSet(V) /\ V \subseteq I
  <2>1. F \subseteq S
    BY <1>3
  <2>2. IsFiniteSet(L) /\ IsFiniteSet(F)
    BY <1>1, <1>3, <2>1, FS_Subset
  <2> QED BY <1>1, <2>1, <2>2, NodesFinite, NodesOfSubset
<1>5. StrictOrder(D, L)
  BY <1>2, <1>3, DevicesAreOrdered
<1>6. \A m, n \in I : m # n => <<m, n>> \in N \/ <<n, m>> \in N
  BY <1>2, Zenon DEF StrictOrder
<1>7. \A x, y, z \in I : <<x, y>> \in N /\ <<y, z>> \in N => <<x, z>> \in N
  BY <1>2, Zenon DEF StrictOrder
<1>8. \A d, e \in S : <<NodeOf(d), NodeOf(e)>> \in N => <<d, e>> \in D
  BY DEF DeviceOrder
<1>9. ASSUME NEW d \in S, NEW e \in L, <<NodeOf(d), NodeOf(e)>> \in N PROVE d \in L
  <2>1. CASE k = 0
    BY <2>1, LeadFacts
  <2>2. CASE k # 0
    <3>1. NodeOf(d) \in I /\ NodeOf(e) \in I /\ e \in S
      BY <1>3, NodeFacts
    <3>2. NodeOf(e) \in Foremost(I, k, N)
      BY <2>2, <3>1, LeadFacts
    <3>3. NodeOf(d) \in Foremost(I, k, N)
      <4> HIDE DEF N, I
      <4> QED BY <1>1, <1>7, <1>9, <3>1, <3>2, ForemostIsPrefix
    <3> QED BY <2>2, <3>3, LeadFacts
  <2> QED BY <2>1, <2>2
<1>10. ASSUME NEW x \in V, NEW i \in I \ V PROVE <<x, i>> \in N
  <2>1. PICK e \in F : x = NodeOf(e)
    BY NodeFacts
  <2>2. PICK d \in S : i = NodeOf(d)
    BY NodeFacts
  <2>3. x \in I /\ x # i
    BY <1>4
  <2>4. <<i, x>> \notin N
    <3> SUFFICES ASSUME <<i, x>> \in N PROVE FALSE
      OBVIOUS
    <3>1. d \in L /\ e \in L
      BY <1>3, <1>9, <2>1, <2>2
    <3>2. <<d, e>> \in D
      BY <1>3, <1>8, <2>1, <2>2, <3>1
    <3>3. \A a, b, f \in L : <<a, b>> \in D /\ <<b, f>> \in D => <<a, f>> \in D
      BY <1>5, Zenon DEF StrictOrder
    <3>4. d \in F
      <4> HIDE DEF D, L
      <4> QED BY <1>2, <1>3, <1>4, <2>1, <3>1, <3>2, <3>3, ForemostIsPrefix
    <3>5. i \in V
      BY <2>2, <3>4, NodeFacts
    <3> QED BY <3>5
  <2> QED BY <1>6, <2>3, <2>4
<1> HIDE DEF N, D, L
<1>11. V # {} /\ Cardinality(V) \in Nat /\ Cardinality(W) \in Nat
  <2>1. Cardinality(V) \in Nat /\ Cardinality(W) \in Nat
    BY <1>1, <1>4, FS_CardinalityType
  <2>2. V = {} => Cardinality(V) = 0
    BY FS_EmptySet
  <2> HIDE DEF V
  <2> QED BY <2>1, <2>2 DEF V
<1>12. PICK l \in V : \A v \in V \ {l} : <<v, l>> \in N
  <2>1. PICK R : \A x, y \in V : <<x, y>> \in R <=> <<y, x>> \in N
    <3> DEFINE R == {p \in V \X V : <<p[2], p[1]>> \in N}
    <3>1. \A x, y \in V : <<x, y>> \in R <=> <<y, x>> \in N
      OBVIOUS
    <3> QED BY <3>1
  <2> HIDE DEF V
  <2>2. ASSUME NEW x \in V, NEW y \in V, x # y PROVE <<x, y>> \in R \/ <<y, x>> \in R
    <3>1. <<x, y>> \in N \/ <<y, x>> \in N
      BY <1>4, <1>6, <2>2
    <3> QED BY <2>1, <3>1
  <2>3. ASSUME NEW x \in V, NEW y \in V, NEW z \in V, <<x, y>> \in R, <<y, z>> \in R
        PROVE  <<x, z>> \in R
    <3>1. <<z, y>> \in N /\ <<y, x>> \in N
      BY <2>1, <2>3
    <3>2. <<z, x>> \in N
      BY <1>4, <1>7, <3>1
    <3> QED BY <2>1, <3>2
  <2>4. \E x \in V : \A y \in V \ {x} : <<x, y>> \in R
    BY <1>4, <1>11, <2>2, <2>3, FirstExists
  <2> QED BY <2>1, <2>4
<1> DEFINE X == V \ {l}
<1>13. X \subseteq I /\ Cardinality(W) <= Cardinality(X)
  <2>1. Cardinality(X) = Cardinality(V) - 1
    <3> HIDE DEF V
    <3> QED BY <1>4, <1>12, FS_RemoveElement
  <2>2. Cardinality(W) < Cardinality(V)
    OBVIOUS
  <2>3. X \subseteq I
    BY <1>4
  <2> HIDE DEF V, X
  <2> QED BY <1>11, <2>1, <2>2, <2>3
<1>14. ASSUME NEW x \in X, NEW i \in I \ X PROVE Counts(S)[i] <= Counts(S)[x]
  <2>1. <<x, i>> \in N
    <3>1. CASE i = l
      BY <1>12, <3>1
    <3>2. CASE i # l
      BY <1>10, <3>2
    <3> QED BY <3>1, <3>2
  <2> QED BY <1>13, <2>1, PackDescends DEF N
<1>15. Cardinality(On(S, W)) <= Cardinality(On(S, X))
  <2> HIDE DEF X
  <2> QED BY <1>1, <1>13, <1>14, FullestNodes
<1>16. Cardinality(On(S, X)) < c
  <2>1. PICK d \in F : l = NodeOf(d)
    BY <1>12, NodeFacts
  <2> DEFINE before == {e \in L : <<e, d>> \in D}
  <2>2. d \in L /\ Cardinality(before) < c
    BY <1>3, <2>1 DEF Foremost
  <2>3. ASSUME NEW e \in On(S, X) PROVE e \in before
    <3>1. e \in S /\ NodeOf(e) \in X /\ d \in S
      BY <1>3, <2>2 DEF On
    <3>2. <<NodeOf(e), NodeOf(d)>> \in N
      BY <1>12, <2>1, <3>1
    <3> QED BY <1>8, <1>9, <2>2, <3>1, <3>2
  <2>4. On(S, X) \subseteq before /\ before \subseteq L
    BY <2>3
  <2> HIDE DEF before, X
  <2>5. IsFiniteSet(before)
    BY <1>4, <2>4, FS_Subset
  <2>6. /\ Cardinality(On(S, X)) <= Cardinality(before) /\ Cardinality(before) \in Nat
        /\ Cardinality(On(S, X)) \in Nat
    BY <2>4, <2>5, FS_Subset, FS_CardinalityType
  <2> QED BY <2>2, <2>6
<1>17. Cardinality(On(S, W)) \in Nat /\ Cardinality(On(S, X)) \in Nat
  <2>1. IsFiniteSet(On(S, W)) /\ IsFiniteSet(On(S, X))
    BY <1>1, FS_Subset DEF On
  <2> HIDE DEF X
  <2> QED BY <2>1, FS_CardinalityType
<1> HIDE DEF X
<1> QED BY <1>15, <1>16, <1>17

\* Some set of at most k nodes (0: any number) has c of the devices S.
SomeFit(S, c, k) ==
  \E M \in SUBSET NodesOf(S) : (k = 0 \/ Cardinality(M) <= k) /\ Cardinality(On(S, M)) >= c

LEMMA OnFacts ==
  ASSUME NEW S, IsFiniteSet(S), NEW M
  PROVE  /\ On(S, M) \subseteq S /\ IsFiniteSet(On(S, M))
         /\ Cardinality(On(S, M)) \in Nat /\ Cardinality(S) \in Nat
         /\ Cardinality(On(S, M)) <= Cardinality(S)
<1>1. On(S, M) \subseteq S
  BY DEF On
<1> QED BY <1>1, FS_Subset, FS_CardinalityType

\* What a policy without a node limit finds.
LEMMA UnlimitedIsComplete ==
  ASSUME NEW S, IsFiniteSet(S), NEW c \in Nat, NEW R, R \subseteq S,
         Cardinality(S) >= c => Cardinality(R) = c
  PROVE  Cardinality(R) = c <=> Cardinality(S) >= c
<1>1. Cardinality(R) <= Cardinality(S) /\ Cardinality(R) \in Nat /\ Cardinality(S) \in Nat
  BY FS_Subset, FS_CardinalityType
<1> QED BY <1>1

\* pack finds the devices if and only if there are nodes for them.
LEMMA PackIsComplete ==
  ASSUME NEW ord, NEW S, IsDevices(S, ord), NEW c \in Nat \ {0}, NEW k \in Nat,
         NEW F, F = Filled(S, c, k, PackOrder(S, ord))
  PROVE  /\ Cardinality(F) = c <=> SomeFit(S, c, k)
         /\ \A j \in 1 .. Cardinality(NodesOf(F)) - 1 : ~SomeFit(S, c, j)
<1> DEFINE N == PackOrder(S, ord)
           L == Lead(S, k, N)
<1>1. IsFiniteSet(S) /\ c \in Nat
  BY DEF IsDevices
<1>2. StrictOrder(N, NodesOf(S))
  BY PackIsOrder
<1>3. /\ F \subseteq L /\ L \subseteq S
      /\ Cardinality(L) >= c => Cardinality(F) = c
      /\ k > 0 => Cardinality(NodesOf(F)) <= k
      /\ k = 0 => L = S
  BY <1>1, <1>2, FilledFacts, LeadFacts
<1>4. F \subseteq S /\ IsFiniteSet(F) /\ IsFiniteSet(L) /\ Cardinality(L) \in Nat
  <2> HIDE DEF L
  <2> QED BY <1>1, <1>3, FS_Subset, FS_CardinalityType
<1>5. ASSUME Cardinality(F) = c PROVE SomeFit(S, c, k)
  <2>1. NodesOf(F) \in SUBSET NodesOf(S)
    BY <1>1, <1>4, NodesOfSubset
  <2>2. F \subseteq On(S, NodesOf(F))
    BY <1>4, NodeFacts DEF On
  <2>3. Cardinality(On(S, NodesOf(F))) >= c
    <3>1. IsFiniteSet(On(S, NodesOf(F))) /\ Cardinality(On(S, NodesOf(F))) \in Nat
      BY <1>1, OnFacts
    <3>2. Cardinality(F) <= Cardinality(On(S, NodesOf(F)))
      BY <2>2, <3>1, FS_Subset
    <3> QED BY <1>5, <3>1, <3>2
  <2> QED BY <1>3, <2>1, <2>3 DEF SomeFit
<1>6. ASSUME SomeFit(S, c, k) PROVE Cardinality(F) = c
  <2>1. PICK M \in SUBSET NodesOf(S) :
          (k = 0 \/ Cardinality(M) <= k) /\ Cardinality(On(S, M)) >= c
    BY <1>6 DEF SomeFit
  <2>2. Cardinality(On(S, M)) \in Nat /\ Cardinality(On(S, M)) <= Cardinality(S)
        /\ Cardinality(S) \in Nat
    BY <1>1, OnFacts
  <2>3. Cardinality(L) >= c
    <3>1. CASE k = 0
      BY <1>3, <2>1, <2>2, <3>1
    <3>2. CASE k # 0
      <4>1. Cardinality(On(S, M)) <= Cardinality(L)
        BY <2>1, <3>2, PackLeadIsFullest
      <4> HIDE DEF L
      <4> QED BY <1>4, <2>1, <2>2, <4>1
    <3> QED BY <3>1, <3>2
  <2> QED BY <1>3, <2>3
<1>7. ASSUME NEW j \in 1 .. Cardinality(NodesOf(F)) - 1, SomeFit(S, c, j) PROVE FALSE
  <2>1. PICK M \in SUBSET NodesOf(S) :
          (j = 0 \/ Cardinality(M) <= j) /\ Cardinality(On(S, M)) >= c
    BY <1>7 DEF SomeFit
  <2>2. Cardinality(NodesOf(F)) \in Nat
    BY <1>4, NodesFinite
  <2>3. IsFiniteSet(M) /\ Cardinality(M) \in Nat
    BY <1>1, NodesFinite, FS_Subset, FS_CardinalityType
  <2>4. Cardinality(M) < Cardinality(NodesOf(F))
    BY <2>1, <2>2, <2>3
  <2>5. Cardinality(On(S, M)) < c
    BY <2>4, PackUsesFewest
  <2>6. Cardinality(On(S, M)) \in Nat
    BY <1>1, OnFacts
  <2> QED BY <2>1, <2>5, <2>6
<1> QED BY <1>5, <1>6, <1>7

\* A node has enough devices when one node does.
LEMMA OneIsEnough ==
  ASSUME NEW S, IsFiniteSet(S), NEW c \in Nat \ {0}, SomeFit(S, c, 1)
  PROVE  Enough(S, c) # {}
<1>1. PICK M \in SUBSET NodesOf(S) : Cardinality(M) <= 1 /\ Cardinality(On(S, M)) >= c
  BY DEF SomeFit
<1>2. IsFiniteSet(M) /\ Cardinality(M) \in Nat
  BY NodesFinite, FS_Subset, FS_CardinalityType
<1>3. M # {}
  <2> SUFFICES ASSUME M = {} PROVE FALSE
    OBVIOUS
  <2>1. On(S, M) = {}
    BY DEF On
  <2>2. Cardinality(On(S, M)) = 0
    BY <2>1, FS_EmptySet
  <2> QED BY <1>1, <2>2
<1>4. Cardinality(M) = 1
  <2>1. Cardinality(M) # 0
    BY <1>2, <1>3, FS_EmptySet
  <2> QED BY <1>1, <1>2, <2>1
<1>5. PICK n : M = {n}
  BY <1>2, <1>4, FS_Singleton
<1>6. On(S, M) = OnNode(S, n) /\ n \in NodesOf(S)
  BY <1>5 DEF On, OnNode
<1>7. Cardinality(OnNode(S, n)) >= c
  BY <1>1, <1>6
<1> QED BY <1>6, <1>7 DEF Enough

Completes(S, c, o, R) ==
  /\ ~o.requireSameNode /\ o.maxNodes = 0 => (Cardinality(R) = c <=> Cardinality(S) >= c)
  /\ ~o.requireSameNode /\ o.policy = "pack" =>
       /\ Cardinality(R) = c <=> SomeFit(S, c, o.maxNodes)
       /\ ~\E j \in 1 .. Cardinality(NodesOf(R)) - 1 : SomeFit(S, c, j)
  /\ (o.requireSameNode \/ o.policy = "locality_aware") /\ SomeFit(S, c, 1) =>
       Cardinality(R) = c /\ Cardinality(NodesOf(R)) = 1

\* What pickDevices finds, whatever the pools, the devices and the options are.
LEMMA PicksAreComplete ==
  ASSUME NEW ord, NEW S, IsDevices(S, ord), NEW c \in Nat \ {0}, NEW o, IsOptions(o),
         NEW R, R = pickDevices(S, ord, c, o)
  PROVE  Completes(S, c, o, R)
<1> DEFINE k == o.maxNodes
<1>1. IsFiniteSet(S) /\ c \in Nat /\ k \in Nat
  BY DEF IsDevices, IsOptions
<1>2. /\ StrictOrder(FirstOrder(S, ord), NodesOf(S))
      /\ StrictOrder(PackOrder(S, ord), NodesOf(S))
  BY FirstIsOrder, PackIsOrder
<1>3. R \subseteq S
  BY PicksWithinLimits
<1>4. ASSUME NEW N, StrictOrder(N, NodesOf(S)), R = OneNode(S, ord, c, N), Enough(S, c) # {}
      PROVE  Cardinality(R) = c /\ Cardinality(NodesOf(R)) = 1
  BY <1>4, OneNodeFacts
<1>5. ASSUME NEW N, StrictOrder(N, NodesOf(S)), R = Filled(S, c, k, N), k = 0
      PROVE  Cardinality(S) >= c => Cardinality(R) = c
  <2>1. Lead(S, k, N) = S
    BY <1>5, LeadFacts
  <2> QED BY <1>1, <1>5, <2>1, FilledFacts
<1>6. ASSUME R = Dealt(S, ord, c, k), k = 0
      PROVE  Cardinality(S) >= c => Cardinality(R) = c
  <2>1. Lead(S, k, FirstOrder(S, ord)) = S
    BY <1>6, LeadFacts
  <2> QED BY <1>1, <1>6, <2>1, DealtFacts
<1>7. SomeFit(S, c, 1) => Enough(S, c) # {}
  BY <1>1, OneIsEnough
<1>8. CASE o.requireSameNode
  <2>1. R = OneNode(S, ord, c, PackOrder(S, ord))
    BY <1>8, PickCases
  <2> QED BY <1>2, <1>4, <1>7, <1>8, <2>1, Zenon DEF Completes
<1>9. CASE ~o.requireSameNode /\ o.policy = "locality_aware"
  <2>1. R = IF Enough(S, c) = {} THEN Filled(S, c, k, PackOrder(S, ord))
                                 ELSE OneNode(S, ord, c, FirstOrder(S, ord))
    BY <1>9, PickCases
  <2>2. Enough(S, c) # {} => Cardinality(R) = c /\ Cardinality(NodesOf(R)) = 1
    BY <1>2, <1>4, <2>1
  <2>3. k = 0 => (Cardinality(S) >= c => Cardinality(R) = c)
    BY <1>2, <1>5, <2>1, <2>2
  <2>4. k = 0 => (Cardinality(R) = c <=> Cardinality(S) >= c)
    BY <1>1, <1>3, <2>3, UnlimitedIsComplete
  <2> QED BY <1>7, <1>9, <2>2, <2>4 DEF Completes
<1>10. CASE ~o.requireSameNode /\ o.policy = "pack"
  <2>1. R = Filled(S, c, k, PackOrder(S, ord))
    BY <1>10, PickCases
  <2>2. k = 0 => (Cardinality(S) >= c => Cardinality(R) = c)
    BY <1>2, <1>5, <2>1
  <2>3. k = 0 => (Cardinality(R) = c <=> Cardinality(S) >= c)
    BY <1>1, <1>3, <2>2, UnlimitedIsComplete
  <2>4. /\ Cardinality(R) = c <=> SomeFit(S, c, k)
        /\ \A j \in 1 .. Cardinality(NodesOf(R)) - 1 : ~SomeFit(S, c, j)
    BY <1>1, <2>1, PackIsComplete
  <2> QED BY <1>10, <2>3, <2>4 DEF Completes
<1>11. CASE ~o.requireSameNode /\ o.policy \in {"first_fit", "spread"}
  <2>1. R = Filled(S, c, k, FirstOrder(S, ord)) \/ R = Dealt(S, ord, c, k)
    BY <1>11, PickCases
  <2>2. k = 0 => (Cardinality(S) >= c => Cardinality(R) = c)
    BY <1>2, <1>5, <1>6, <2>1
  <2>3. k = 0 => (Cardinality(R) = c <=> Cardinality(S) >= c)
    BY <1>1, <1>3, <2>2, UnlimitedIsComplete
  <2> QED BY <1>11, <2>3 DEF Completes
<1> QED BY <1>8, <1>9, <1>10, <1>11 DEF IsOptions, PlacementPolicies

=============================================================================

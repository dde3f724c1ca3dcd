-------------------------------- MODULE Sums --------------------------------
(***************************************************************************)
(* Facts about the sums of the models: SUM(...) of a column over the rows  *)
(* a statement selected is a fold of + over a finite set.  The fold is a   *)
(* recursive function that takes the elements in an order of its own; what *)
(* is proved here is that the order does not matter, and what more rows    *)
(* or other amounts make of the sum.  Induction is by the least            *)
(* counterexample: strict inclusion is well-founded on finite sets.        *)
(***************************************************************************)
EXTENDS Integers, FiniteSets, Functions, FiniteSetTheorems, WellFoundedInduction, TLAPS

Sum(f, S) == FoldFunctionOnSet(+, 0, f, S)

-----------------------------------------------------------------------------
(* Induction without a predicate as parameter *)

(* A family of finite sets has a member none of the others is inside of. *)
LEMMA LeastSet ==
  ASSUME NEW S, IsFiniteSet(S), NEW F, F \subseteq SUBSET S, F # {}
  PROVE  \E T \in F : \A U \in F : U \subseteq T => U = T
<1>1. IsWellFoundedOn(StrictSubsetOrdering(S), SUBSET S)
  BY FS_StrictSubsetOrderingWellFounded, FS_FiniteSubsetsOfFinite
<1>2. PICK T \in F : \A U \in F : ~(<<U, T>> \in StrictSubsetOrdering(S))
  BY <1>1, WFMin
<1>3. \A U \in F : U \subseteq T => U = T
  BY <1>2 DEF StrictSubsetOrdering
<1> QED BY <1>3

(* A set of numbers has a least one. *)
LEMMA Least ==
  ASSUME NEW S, S \subseteq Nat, S # {}
  PROVE  \E x \in S : \A y \in S : x <= y
<1>1. PICK x \in S : \A y \in S : ~(<<y, x>> \in OpToRel(<, Nat))
  BY NatLessThanWellFounded, WFMin, Zenon
<1>2. \A y \in S : ~(y < x)
  BY <1>1 DEF OpToRel
<1> QED BY <1>2

(* What holds of 0 and is passed on holds of every number. *)
LEMMA NatInductionSet ==
  ASSUME NEW P, 0 \in P, \A n \in Nat : n \in P => n + 1 \in P
  PROVE  Nat \subseteq P
<1> SUFFICES ASSUME NEW n \in Nat, n \notin P PROVE FALSE
  OBVIOUS
<1> DEFINE I == 0..n
           F == {0..m : m \in I \ P}
<1>1. IsFiniteSet(I)
  BY FS_Interval
<1>2. F \subseteq SUBSET I /\ F # {}
  <2>1. 0..n \in F
    OBVIOUS
  <2>2. ASSUME NEW m \in I \ P PROVE 0..m \subseteq I
    OBVIOUS
  <2> QED BY <2>1, <2>2
<1>3. \E T \in F : \A U \in F : U \subseteq T => U = T
  <2> HIDE DEF F, I
  <2> QED BY <1>1, <1>2, LeastSet
<1>4. PICK m \in I \ P : \A U \in F : U \subseteq 0..m => U = 0..m
  BY <1>3
<1>5. m - 1 \in I \ P
  BY <1>4
<1>6. 0..(m-1) \in F /\ 0..(m-1) \subseteq 0..m /\ m \notin 0..(m-1) /\ m \in 0..m
  BY <1>5
<1> QED BY <1>4, <1>6

-----------------------------------------------------------------------------
(* The fold is what its recursive definition says *)

First(s) == CHOOSE x \in s : TRUE

(* h sums f over the subsets of a family. *)
Sums(h, f, family) ==
  h = [s \in family |-> IF s = {} THEN 0 ELSE f[First(s)] + h[s \ {First(s)}]]

SumsOver(h, f, S) == Sums(h, f, SUBSET S)

LEMMA SumUnfolds ==
  ASSUME NEW f, NEW S
  PROVE  Sum(f, S) = (CHOOSE h : SumsOver(h, f, S))[S]
BY DEF Sum, FoldFunctionOnSet, MapThenFoldSet, SumsOver, Sums, First

(* There is such a function: one for the sets of n + 1 elements takes its
   values from the one for the sets of n. *)
LEMMA SumsExist ==
  ASSUME NEW S, IsFiniteSet(S), NEW f
  PROVE  \E h : SumsOver(h, f, S)
<1> DEFINE Small(n) == {s \in SUBSET S : Cardinality(s) <= n}
           P == {n \in Nat : \E h : Sums(h, f, Small(n))}
<1>0. \A s \in SUBSET S : /\ IsFiniteSet(s) /\ Cardinality(s) \in Nat /\ (Cardinality(s) = 0 <=> s = {})
                          /\ Cardinality(s) <= Cardinality(S) /\ Cardinality(S) \in Nat
  BY FS_Subset, FS_CardinalityType, FS_EmptySet
<1>1. 0 \in P
  <2> DEFINE h == [s \in Small(0) |-> 0]
  <2>1. \A s \in Small(0) : s = {}
    BY <1>0
  <2>2. Sums(h, f, Small(0))
    BY <2>1 DEF Sums
  <2> QED BY <2>2
<1>2. ASSUME NEW n \in Nat, n \in P PROVE n + 1 \in P
  <2>1. PICK h : Sums(h, f, Small(n))
    BY <1>2
  <2> DEFINE k == [s \in Small(n + 1) |-> IF s = {} THEN 0 ELSE f[First(s)] + h[s \ {First(s)}]]
  <2>2. ASSUME NEW s \in Small(n + 1), s # {} PROVE s \ {First(s)} \in Small(n)
    <3>1. First(s) \in s
      BY <2>2 DEF First
    <3>2. Cardinality(s \ {First(s)}) = Cardinality(s) - 1
      BY <3>1, <1>0, FS_RemoveElement
    <3> QED BY <3>2, <1>0
  <2>3. \A s \in Small(n) : s \in Small(n + 1) /\ k[s] = h[s]
    <3>1. ASSUME NEW s \in Small(n) PROVE s \in Small(n + 1)
      BY <1>0
    <3>2. ASSUME NEW s \in Small(n) PROVE h[s] = IF s = {} THEN 0 ELSE f[First(s)] + h[s \ {First(s)}]
      BY <2>1 DEF Sums
    <3> QED BY <3>1, <3>2
  <2>4. k = [s \in Small(n + 1) |-> IF s = {} THEN 0 ELSE f[First(s)] + k[s \ {First(s)}]]
    <3>1. \A s \in Small(n + 1) : s # {} => k[s \ {First(s)}] = h[s \ {First(s)}]
      BY <2>2, <2>3
    <3> HIDE DEF Small
    <3> QED BY <3>1
  <2>5. Sums(k, f, Small(n + 1))
    BY <2>4 DEF Sums
  <2> HIDE DEF k, Small
  <2> QED BY <2>5
<1>3. Nat \subseteq P
  <2> HIDE DEF P
  <2> QED BY <1>1, <1>2, NatInductionSet
<1>4. Small(Cardinality(S)) = SUBSET S /\ Cardinality(S) \in Nat
  BY <1>0
<1>5. PICK h : Sums(h, f, Small(Cardinality(S)))
  BY <1>3, <1>4
<1> QED BY <1>4, <1>5 DEF SumsOver

-----------------------------------------------------------------------------
(* Sums of natural numbers *)

Agree(f, g, S) == \A x \in S : f[x] = g[x]

(* Two such functions agree where what they sum agrees. *)
LEMMA SumsAgree ==
  ASSUME NEW S, IsFiniteSet(S), NEW T, T \subseteq S, NEW f, NEW g, Agree(f, g, T),
         NEW h, SumsOver(h, f, S), NEW k, SumsOver(k, g, T)
  PROVE  h[T] = k[T]
<1> SUFFICES \A s \in SUBSET T : h[s] = k[s]
  OBVIOUS
<1> USE DEF Agree
<1> DEFINE F == {s \in SUBSET T : h[s] # k[s]}
<1> SUFFICES ASSUME F # {} PROVE FALSE
  OBVIOUS
<1>1. PICK s \in F : \A u \in F : u \subseteq s => u = s
  <2>1. IsFiniteSet(T) /\ F \subseteq SUBSET T
    BY FS_Subset
  <2> HIDE DEF F
  <2> QED BY <2>1, LeastSet
<1>2. /\ h[s] = IF s = {} THEN 0 ELSE f[First(s)] + h[s \ {First(s)}]
      /\ k[s] = IF s = {} THEN 0 ELSE g[First(s)] + k[s \ {First(s)}]
  BY DEF SumsOver, Sums
<1>3. s # {} /\ First(s) \in s
  BY <1>2 DEF First
<1>4. s \ {First(s)} \notin F
  BY <1>1, <1>3
<1> QED BY <1>2, <1>3, <1>4

LEMMA SumOfSubset ==
  ASSUME NEW S, IsFiniteSet(S), NEW T, T \subseteq S, NEW f, NEW g, Agree(f, g, T),
         NEW h, SumsOver(h, f, S)
  PROVE  Sum(g, T) = h[T]
<1>1. IsFiniteSet(T)
  BY FS_Subset
<1>2. PICK k : SumsOver(k, g, T) /\ Sum(g, T) = k[T]
  <2>1. SumsOver(CHOOSE k : SumsOver(k, g, T), g, T)
    BY <1>1, SumsExist
  <2> QED BY <2>1, SumUnfolds
<1>3. h[T] = k[T]
  BY <1>2, SumsAgree
<1> QED BY <1>2, <1>3

(* The sum depends on what f says of S only. *)
LEMMA SumSame ==
  ASSUME NEW S, IsFiniteSet(S), NEW f, NEW g, \A x \in S : f[x] = g[x]
  PROVE  Sum(f, S) = Sum(g, S)
<1>0. Agree(f, f, S) /\ Agree(f, g, S)
  BY DEF Agree
<1>1. PICK h : SumsOver(h, f, S)
  BY SumsExist
<1>2. Sum(f, S) = h[S] /\ Sum(g, S) = h[S]
  BY <1>0, <1>1, SumOfSubset
<1> QED BY <1>2

LEMMA SumEmpty == ASSUME NEW f PROVE Sum(f, {}) = 0
<1>1. IsFiniteSet({})
  BY FS_EmptySet
<1>2. PICK h : SumsOver(h, f, {})
  BY <1>1, SumsExist
<1>3. Sum(f, {}) = h[{}]
  BY <1>1, <1>2, SumOfSubset DEF Agree
<1>4. h[{}] = 0
  BY <1>2 DEF SumsOver, Sums
<1> QED BY <1>3, <1>4

LEMMA SumFirst ==
  ASSUME NEW S, IsFiniteSet(S), S # {}, NEW f
  PROVE  First(S) \in S /\ Sum(f, S) = f[First(S)] + Sum(f, S \ {First(S)})
<1>1. PICK h : SumsOver(h, f, S)
  BY SumsExist
<1>2. Sum(f, S) = h[S] /\ Sum(f, S \ {First(S)}) = h[S \ {First(S)}]
  <2>1. Agree(f, f, S) /\ Agree(f, f, S \ {First(S)})
    BY DEF Agree
  <2> QED BY <1>1, <2>1, SumOfSubset
<1>3. h[S] = f[First(S)] + h[S \ {First(S)}]
  BY <1>1 DEF SumsOver, Sums
<1>4. First(S) \in S
  BY DEF First
<1> QED BY <1>2, <1>3, <1>4

LEMMA SumType ==
  ASSUME NEW S, IsFiniteSet(S), NEW f, \A x \in S : f[x] \in Nat
  PROVE  Sum(f, S) \in Nat
<1> DEFINE F == {T \in SUBSET S : Sum(f, T) \notin Nat}
<1> SUFFICES ASSUME F # {} PROVE FALSE
  OBVIOUS
<1>1. PICK T \in F : \A U \in F : U \subseteq T => U = T
  <2>1. F \subseteq SUBSET S
    OBVIOUS
  <2> HIDE DEF F
  <2> QED BY <2>1, LeastSet
<1>2. IsFiniteSet(T) /\ T # {}
  <2>1. Sum(f, {}) \in Nat
    BY SumEmpty
  <2> QED BY <2>1, FS_Subset
<1>3. First(T) \in T /\ Sum(f, T) = f[First(T)] + Sum(f, T \ {First(T)})
  BY <1>2, SumFirst
<1>4. T \ {First(T)} \notin F
  BY <1>1, <1>3
<1> QED BY <1>3, <1>4

(* Any element may be taken out first. *)
LEMMA SumRemove ==
  ASSUME NEW S, IsFiniteSet(S), NEW x \in S, NEW f, \A y \in S : f[y] \in Nat
  PROVE  Sum(f, S) = f[x] + Sum(f, S \ {x})
<1> DEFINE F == {T \in SUBSET S : \E y \in T : Sum(f, T) # f[y] + Sum(f, T \ {y})}
<1> SUFFICES ASSUME F # {} PROVE FALSE
  OBVIOUS
<1>1. PICK T \in F : \A U \in F : U \subseteq T => U = T
  <2>1. F \subseteq SUBSET S
    OBVIOUS
  <2> HIDE DEF F
  <2> QED BY <2>1, LeastSet
<1>2. PICK y \in T : Sum(f, T) # f[y] + Sum(f, T \ {y})
  OBVIOUS
<1>3. IsFiniteSet(T) /\ T \in SUBSET S /\ \A U \in SUBSET T : IsFiniteSet(U)
  BY FS_Subset
<1> DEFINE p == First(T)
<1>4. p \in T /\ Sum(f, T) = f[p] + Sum(f, T \ {p})
  BY <1>2, <1>3, SumFirst
<1>5. T \ {p} \notin F /\ T \ {y} \notin F
  BY <1>1, <1>2, <1>4
<1>6. p # y
  BY <1>2, <1>4
<1>7. y \in T \ {p} /\ p \in T \ {y} /\ (T \ {p}) \ {y} = (T \ {y}) \ {p}
  BY <1>2, <1>4, <1>6
<1>8. /\ Sum(f, T \ {p}) = f[y] + Sum(f, (T \ {p}) \ {y})
      /\ Sum(f, T \ {y}) = f[p] + Sum(f, (T \ {y}) \ {p})
  BY <1>3, <1>5, <1>7
<1>9. Sum(f, (T \ {p}) \ {y}) \in Nat /\ f[p] \in Nat /\ f[y] \in Nat
  <2>1. IsFiniteSet((T \ {p}) \ {y}) /\ \A z \in (T \ {p}) \ {y} : f[z] \in Nat
    BY <1>3
  <2> QED BY <2>1, <1>2, <1>3, <1>4, SumType
<1> HIDE DEF p
<1> QED BY <1>2, <1>4, <1>7, <1>8, <1>9

LEMMA SumAdd ==
  ASSUME NEW S, IsFiniteSet(S), NEW x, x \notin S, NEW f, \A y \in S \cup {x} : f[y] \in Nat
  PROVE  Sum(f, S \cup {x}) = Sum(f, S) + f[x]
<1>1. IsFiniteSet(S \cup {x}) /\ x \in S \cup {x} /\ (S \cup {x}) \ {x} = S
  BY FS_AddElement
<1>2. Sum(f, S \cup {x}) = f[x] + Sum(f, S)
  BY <1>1, SumRemove
<1>3. Sum(f, S) \in Nat /\ f[x] \in Nat
  BY SumType
<1> QED BY <1>2, <1>3

(* More rows, no smaller sum. *)
LEMMA SumMonotone ==
  ASSUME NEW S, IsFiniteSet(S), NEW R \in SUBSET S, NEW f, \A x \in S : f[x] \in Nat
  PROVE  Sum(f, R) <= Sum(f, S)
<1> DEFINE F == {T \in SUBSET S : R \subseteq T /\ ~(Sum(f, R) <= Sum(f, T))}
<1> SUFFICES ASSUME F # {} PROVE FALSE
  OBVIOUS
<1>1. PICK T \in F : \A U \in F : U \subseteq T => U = T
  <2>1. F \subseteq SUBSET S
    OBVIOUS
  <2> HIDE DEF F
  <2> QED BY <2>1, LeastSet
<1>2. IsFiniteSet(T) /\ IsFiniteSet(R)
  BY FS_Subset
<1>3. Sum(f, R) \in Nat
  BY <1>2, SumType
<1>4. PICK x \in T : x \notin R
  BY <1>3
<1>5. T \ {x} \notin F /\ T \ {x} \in SUBSET S /\ R \subseteq T \ {x}
  BY <1>1, <1>4
<1>6. Sum(f, T) = f[x] + Sum(f, T \ {x}) /\ f[x] \in Nat
  BY <1>2, SumRemove
<1>7. Sum(f, T \ {x}) \in Nat
  <2>1. IsFiniteSet(T \ {x})
    BY <1>2, FS_Subset
  <2> QED BY <2>1, SumType
<1> QED BY <1>3, <1>5, <1>6, <1>7

-----------------------------------------------------------------------------
(* Columns compared *)

(* More of each is more altogether; one more of one is one more. *)
LEMMA SumDominated ==
  ASSUME NEW S, IsFiniteSet(S), NEW f, NEW g, \A x \in S : f[x] \in Nat /\ g[x] \in Nat /\ f[x] <= g[x]
  PROVE  Sum(f, S) <= Sum(g, S)
<1> DEFINE F == {T \in SUBSET S : ~(Sum(f, T) <= Sum(g, T))}
<1> SUFFICES ASSUME F # {} PROVE FALSE
  OBVIOUS
<1>1. PICK T \in F : \A U \in F : U \subseteq T => U = T
  <2>1. F \subseteq SUBSET S
    OBVIOUS
  <2> HIDE DEF F
  <2> QED BY <2>1, LeastSet
<1>2. T \subseteq S /\ IsFiniteSet(T) /\ ~(Sum(f, T) <= Sum(g, T))
  BY <1>1, FS_Subset
<1>3. CASE T = {}
  <2>1. Sum(f, {}) = 0 /\ Sum(g, {}) = 0
    BY SumEmpty
  <2> QED BY <1>2, <1>3, <2>1
<1>4. CASE T # {}
  <2>1. PICK x : x \in T
    BY <1>4
  <2>2. /\ T \ {x} # T /\ T \ {x} \subseteq T /\ T \ {x} \subseteq S /\ IsFiniteSet(T \ {x})
    BY <1>2, <2>1, FS_Subset
  <2>3. Sum(f, T \ {x}) <= Sum(g, T \ {x})
    BY <1>1, <2>2
  <2>4. \A y \in T : f[y] \in Nat /\ g[y] \in Nat
    BY <1>2
  <2>5. Sum(f, T) = f[x] + Sum(f, T \ {x}) /\ Sum(g, T) = g[x] + Sum(g, T \ {x})
    BY <1>2, <2>1, <2>4, SumRemove
  <2>6. Sum(f, T \ {x}) \in Nat /\ Sum(g, T \ {x}) \in Nat
    BY <2>2, <2>4, SumType
  <2>7. f[x] \in Nat /\ g[x] \in Nat /\ f[x] <= g[x]
    BY <1>2, <2>1
  <2> DEFINE A == Sum(f, T)  B == Sum(g, T)  C == Sum(f, T \ {x})  D == Sum(g, T \ {x})
  <2>8. A = f[x] + C /\ B = g[x] + D /\ C <= D /\ C \in Nat /\ D \in Nat /\ ~(A <= B)
    BY <1>2, <2>3, <2>5, <2>6
  <2> HIDE DEF A, B, C, D
  <2> QED BY <2>7, <2>8
<1> QED BY <1>3, <1>4

(* The sum over two sets that share nothing is the sum of their sums. *)
LEMMA SumDisjoint ==
  ASSUME NEW S, IsFiniteSet(S), NEW R \in SUBSET S, NEW f, \A x \in S : f[x] \in Nat
  PROVE  Sum(f, S) = Sum(f, R) + Sum(f, S \ R)
<1> DEFINE F == {T \in SUBSET S : R \subseteq T /\ Sum(f, T) # Sum(f, R) + Sum(f, T \ R)}
<1> SUFFICES ASSUME F # {} PROVE FALSE
  OBVIOUS
<1>1. PICK T \in F : \A U \in F : U \subseteq T => U = T
  <2>1. F \subseteq SUBSET S
    OBVIOUS
  <2> HIDE DEF F
  <2> QED BY <2>1, LeastSet
<1>2. /\ T \in SUBSET S /\ R \subseteq T /\ Sum(f, T) # Sum(f, R) + Sum(f, T \ R)
      /\ IsFiniteSet(T) /\ IsFiniteSet(R) /\ IsFiniteSet(T \ R)
  BY <1>1, FS_Subset
<1>3. Sum(f, R) \in Nat
  BY <1>2, SumType
<1>4. CASE T = R
  <2>1. T \ R = {} /\ Sum(f, {}) = 0
    BY <1>4, SumEmpty
  <2> QED BY <1>2, <1>3, <1>4, <2>1
<1>5. CASE T # R
  <2>1. PICK x \in T : x \notin R
    BY <1>2, <1>5
  <2>2. /\ R \subseteq T \ {x} /\ (T \ {x}) \ R = (T \ R) \ {x} /\ x \in T \ R
        /\ T \ {x} \in SUBSET S /\ T \ {x} # T /\ T \ {x} \subseteq T
    BY <1>2, <2>1
  <2>3. Sum(f, T \ {x}) = Sum(f, R) + Sum(f, (T \ R) \ {x})
    BY <1>1, <2>2
  <2>4. \A y \in T : f[y] \in Nat
    BY <1>2
  <2>5. Sum(f, T) = f[x] + Sum(f, T \ {x})
    BY <1>2, <2>1, <2>4, SumRemove
  <2>6. Sum(f, T \ R) = f[x] + Sum(f, (T \ R) \ {x})
    BY <1>2, <2>2, <2>4, SumRemove
  <2>7. f[x] \in Nat /\ Sum(f, (T \ R) \ {x}) \in Nat
    <3>1. IsFiniteSet((T \ R) \ {x})
      BY <1>2, FS_Subset
    <3> QED BY <2>1, <2>4, <3>1, SumType
  <2> HIDE DEF F
  <2> QED BY <1>2, <1>3, <2>3, <2>5, <2>6, <2>7
<1> QED BY <1>4, <1>5

(* Rows of no weight add nothing. *)
LEMMA SumOfZeros ==
  ASSUME NEW S, IsFiniteSet(S), NEW f, \A x \in S : f[x] = 0
  PROVE  Sum(f, S) = 0
<1> DEFINE F == {T \in SUBSET S : Sum(f, T) # 0}
<1> SUFFICES ASSUME F # {} PROVE FALSE
  OBVIOUS
<1>1. PICK T \in F : \A U \in F : U \subseteq T => U = T
  <2>1. F \subseteq SUBSET S
    OBVIOUS
  <2> HIDE DEF F
  <2> QED BY <2>1, LeastSet
<1>2. T \in SUBSET S /\ Sum(f, T) # 0 /\ IsFiniteSet(T)
  BY <1>1, FS_Subset
<1>3. T # {}
  BY <1>2, SumEmpty
<1>4. First(T) \in T /\ Sum(f, T) = f[First(T)] + Sum(f, T \ {First(T)})
  BY <1>2, <1>3, SumFirst
<1>5. Sum(f, T \ {First(T)}) = 0
  BY <1>1, <1>4
<1> QED BY <1>2, <1>4, <1>5

(* Fewer rows sum to no more. *)
Summable(f, S) == \A x \in S : f[x] \in Nat

LEMMA FewerIsLess ==
  ASSUME NEW S, IsFiniteSet(S), NEW f, Summable(f, S), NEW R \in SUBSET S, NEW T \in SUBSET R
  PROVE  Sum(f, T) <= Sum(f, R) /\ Sum(f, T) \in Nat /\ Sum(f, R) \in Nat
<1>1. IsFiniteSet(R) /\ IsFiniteSet(T)
  BY FS_Subset
<1>2. (\A x \in R : f[x] \in Nat) /\ (\A x \in T : f[x] \in Nat)
  BY DEF Summable
<1> QED BY <1>1, <1>2, SumMonotone, SumType

(* Rows that weigh one each sum to their number. *)
LEMMA SumOfOnes ==
  ASSUME NEW S, IsFiniteSet(S), NEW f, \A x \in S : f[x] = 1
  PROVE  Sum(f, S) = Cardinality(S)
<1> DEFINE F == {T \in SUBSET S : Sum(f, T) # Cardinality(T)}
<1> SUFFICES ASSUME F # {} PROVE FALSE
  OBVIOUS
<1>1. PICK T \in F : \A U \in F : U \subseteq T => U = T
  <2>1. F \subseteq SUBSET S
    OBVIOUS
  <2> HIDE DEF F
  <2> QED BY <2>1, LeastSet
<1>2. IsFiniteSet(T) /\ T # {}
  <2>1. Sum(f, {}) = 0 /\ Cardinality({}) = 0
    BY SumEmpty, FS_EmptySet
  <2> QED BY <1>1, <2>1, FS_Subset
<1>3. PICK x \in T : TRUE
  BY <1>2
<1>4. T \ {x} \notin F /\ T \ {x} \in SUBSET S
  BY <1>1, <1>3
<1>5. Sum(f, T \ {x}) = Cardinality(T) - 1 /\ Cardinality(T) \in Nat
  BY <1>2, <1>3, <1>4, FS_RemoveElement, FS_CardinalityType
<1>6. Sum(f, T) = f[x] + Sum(f, T \ {x})
  <2>1. \A y \in T : f[y] \in Nat
    BY <1>1
  <2> QED BY <1>2, <1>3, <2>1, SumRemove
<1>7. f[x] = 1 /\ Sum(f, T) # Cardinality(T)
  BY <1>1, <1>3
<1> QED BY <1>5, <1>6, <1>7

(* Two sums of a ledger and of promises, taken apart: what is on the ledger
   now (L) and what is owed now (O) weigh no more than the charges that were
   added up (A) and the promises that were (R), when whoever is owed was in R
   and each charge A lacks is covered by a promise in R. *)
LEMMA SumCovers ==
  ASSUME NEW S, IsFiniteSet(S), NEW f, NEW g, \A x \in S : f[x] \in Nat /\ g[x] \in Nat,
         NEW L \in SUBSET S, NEW O \in SUBSET S, NEW A \in SUBSET S, NEW R \in SUBSET S,
         O \subseteq R, O \cap L = {},
         \A x \in L \ A : f[x] <= IF x \in R THEN g[x] ELSE 0
  PROVE  Sum(f, L) + Sum(g, O) <= Sum(f, A) + Sum(g, R)
<1> DEFINE K == L \cap A
           N == L \ A
           M == N \cap R
           Z == N \ R
           W == M \cup O
<1>1. /\ IsFiniteSet(L) /\ IsFiniteSet(O) /\ IsFiniteSet(A) /\ IsFiniteSet(R) /\ IsFiniteSet(K)
      /\ IsFiniteSet(N) /\ IsFiniteSet(M) /\ IsFiniteSet(Z) /\ IsFiniteSet(W)
  BY FS_Subset
<1>2. /\ K \in SUBSET L /\ K \in SUBSET A /\ L \ K = N
      /\ M \in SUBSET N /\ N \ M = Z
      /\ O \in SUBSET W /\ W \ O = M /\ W \in SUBSET R
  OBVIOUS
<1>3. /\ \A x \in L : f[x] \in Nat
      /\ \A x \in A : f[x] \in Nat
      /\ \A x \in R : g[x] \in Nat
      /\ \A x \in N : f[x] \in Nat
      /\ \A x \in W : g[x] \in Nat
      /\ \A x \in M : f[x] \in Nat /\ g[x] \in Nat /\ f[x] <= g[x]
  OBVIOUS
<1>4. \A x \in Z : f[x] = 0
  OBVIOUS
<1> HIDE DEF K, N, M, Z, W
<1>5. Sum(f, L) = Sum(f, K) + Sum(f, N)
  BY <1>1, <1>2, <1>3, SumDisjoint
<1>6. Sum(f, K) <= Sum(f, A)
  BY <1>1, <1>2, <1>3, SumMonotone
<1>7. Sum(f, N) = Sum(f, M) + Sum(f, Z) /\ Sum(f, Z) = 0
  BY <1>1, <1>2, <1>3, <1>4, SumDisjoint, SumOfZeros
<1>8. Sum(f, M) <= Sum(g, M)
  BY <1>1, <1>3, SumDominated
<1>9. Sum(g, W) = Sum(g, O) + Sum(g, M) /\ Sum(g, W) <= Sum(g, R)
  BY <1>1, <1>2, <1>3, SumDisjoint, SumMonotone
<1>10. /\ Sum(f, K) \in Nat /\ Sum(f, A) \in Nat /\ Sum(f, M) \in Nat
       /\ Sum(g, M) \in Nat /\ Sum(g, O) \in Nat /\ Sum(g, R) \in Nat
  <2>1. /\ \A x \in K : f[x] \in Nat
        /\ \A x \in M : f[x] \in Nat
        /\ \A x \in M : g[x] \in Nat
        /\ \A x \in O : g[x] \in Nat
    BY <1>2, <1>3
  <2> QED BY <1>1, <1>3, <2>1, SumType
<1> QED BY <1>5, <1>6, <1>7, <1>8, <1>9, <1>10

(* One place up by one is the sum up by one. *)
LEMMA SumOneMore ==
  ASSUME NEW S, IsFiniteSet(S), NEW x \in S, NEW f, NEW g, \A y \in S : f[y] \in Nat,
         g[x] = f[x] + 1, \A y \in S : y # x => g[y] = f[y]
  PROVE  Sum(g, S) = Sum(f, S) + 1
<1>1. \A y \in S : g[y] \in Nat
  OBVIOUS
<1>2. IsFiniteSet(S \ {x})
  BY FS_Subset
<1>3. Sum(f, S) = f[x] + Sum(f, S \ {x}) /\ Sum(g, S) = g[x] + Sum(g, S \ {x})
  BY <1>1, SumRemove
<1>4. Sum(g, S \ {x}) = Sum(f, S \ {x})
  BY <1>2, SumSame
<1>5. Sum(f, S \ {x}) \in Nat
  BY <1>2, SumType
<1> DEFINE A == Sum(f, S)  B == Sum(g, S)  C == Sum(f, S \ {x})  D == Sum(g, S \ {x})
<1>6. A = f[x] + C /\ B = g[x] + D /\ D = C /\ C \in Nat /\ f[x] \in Nat
  BY <1>3, <1>4, <1>5
<1>7. B = A + 1
  <2> HIDE DEF A, B, C, D
  <2> QED BY <1>6
<1> QED BY <1>7

-----------------------------------------------------------------------------
(* Histograms: how many there are of each age *)

(* A tick shifts a histogram of ages by one. *)
Shifted(f, g, n) == \A a \in 0..n : g[a] = IF a = 0 THEN 0 ELSE f[a - 1]

LEMMA SumToNext ==
  ASSUME NEW k \in Nat, NEW f, \A a \in 0..(k + 1) : f[a] \in Nat
  PROVE  Sum(f, 0..(k + 1)) = Sum(f, 0..k) + f[k + 1]
<1> DEFINE S == 0..k  x == k + 1
<1>1. 0..(k + 1) = S \cup {x} /\ x \notin S
  OBVIOUS
<1>2. IsFiniteSet(S)
  BY FS_Interval
<1>3. \A a \in S \cup {x} : f[a] \in Nat
  BY <1>1
<1>4. Sum(f, S \cup {x}) = Sum(f, S) + f[x]
  <2> HIDE DEF S, x
  <2> QED BY <1>1, <1>2, <1>3, SumAdd
<1> QED BY <1>1, <1>4

LEMMA SumOfShifted ==
  ASSUME NEW n \in Nat, NEW f, \A a \in 0..n : f[a] \in Nat, NEW g, Shifted(f, g, n), NEW m \in 0..n
  PROVE  Sum(g, 0..m) + f[m] = Sum(f, 0..m) /\ Sum(f, 0..m) \in Nat /\ Sum(g, 0..m) \in Nat
<1> DEFINE P == {k \in Nat : k <= n => /\ Sum(g, 0..k) + f[k] = Sum(f, 0..k)
                                       /\ Sum(f, 0..k) \in Nat /\ Sum(g, 0..k) \in Nat}
<1>0. \A a \in 0..n : g[a] \in Nat
  BY DEF Shifted
<1>1. 0 \in P
  <2>1. Sum(f, {} \cup {0}) = Sum(f, {}) + f[0] /\ Sum(g, {} \cup {0}) = Sum(g, {}) + g[0]
    <3>1. IsFiniteSet({}) /\ 0 \notin {} /\ f[0] \in Nat /\ g[0] \in Nat
      BY <1>0, FS_EmptySet
    <3> QED BY <3>1, SumAdd
  <2>2. 0..0 = {} \cup {0} /\ f[0] \in Nat /\ g[0] = 0
    BY DEF Shifted
  <2> QED BY <2>1, <2>2, SumEmpty
<1>2. ASSUME NEW k \in Nat, k \in P PROVE k + 1 \in P
  <2> SUFFICES ASSUME k + 1 <= n PROVE k + 1 \in P
    OBVIOUS
  <2>1. \A a \in 0..(k + 1) : f[a] \in Nat /\ g[a] \in Nat
    BY <1>0
  <2>3. Sum(f, 0..(k + 1)) = Sum(f, 0..k) + f[k + 1]
    BY <2>1, SumToNext
  <2>4. Sum(g, 0..(k + 1)) = Sum(g, 0..k) + g[k + 1]
    BY <2>1, SumToNext
  <2>5. g[k + 1] = f[k] /\ f[k] \in Nat /\ f[k + 1] \in Nat
    BY DEF Shifted
  <2>6. Sum(g, 0..k) + f[k] = Sum(f, 0..k) /\ Sum(f, 0..k) \in Nat /\ Sum(g, 0..k) \in Nat
    BY <1>2
  <2>7. /\ Sum(g, 0..(k + 1)) + f[k + 1] = Sum(f, 0..(k + 1))
        /\ Sum(f, 0..(k + 1)) \in Nat /\ Sum(g, 0..(k + 1)) \in Nat
    <3> DEFINE F == Sum(f, 0..k)  G == Sum(g, 0..k)  F1 == Sum(f, 0..(k + 1))  G1 == Sum(g, 0..(k + 1))
    <3>1. /\ F1 = F + f[k + 1] /\ G1 = G + g[k + 1] /\ G + f[k] = F /\ F \in Nat /\ G \in Nat
      BY <2>3, <2>4, <2>6
    <3>2. G1 + f[k + 1] = F1 /\ F1 \in Nat /\ G1 \in Nat
      <4> HIDE DEF F, G, F1, G1
      <4> QED BY <2>5, <3>1
    <3> QED BY <3>2
  <2> QED BY <2>7
<1>3. Nat \subseteq P
  <2> HIDE DEF P
  <2> QED BY <1>1, <1>2, NatInductionSet
<1> QED BY <1>3

(* What was counted up to an age is counted, a tick later, up to the next. *)
LEMMA ShiftKeepsCount ==
  ASSUME NEW n \in Nat, NEW f, \A a \in 0..n : f[a] \in Nat, NEW g, Shifted(f, g, n)
  PROVE  /\ \A m \in 0..n : m < n => Sum(g, 0..(m + 1)) = Sum(f, 0..m)
         /\ Sum(g, 0..n) <= Sum(f, 0..n)
<1>1. \A m \in 0..n : Sum(g, 0..m) + f[m] = Sum(f, 0..m) /\ Sum(f, 0..m) \in Nat /\ Sum(g, 0..m) \in Nat
  BY SumOfShifted
<1>2. ASSUME NEW m \in 0..n, m < n PROVE Sum(g, 0..(m + 1)) = Sum(f, 0..m)
  <2>1. m \in Nat /\ m + 1 \in 0..n
    BY <1>2
  <2>2. \A a \in 0..(m + 1) : g[a] \in Nat
    BY <2>1 DEF Shifted
  <2>3. Sum(g, 0..(m + 1)) = Sum(g, 0..m) + g[m + 1]
    BY <2>1, <2>2, SumToNext
  <2>4. g[m + 1] = f[m]
    BY <2>1 DEF Shifted
  <2> QED BY <1>1, <2>3, <2>4
<1>3. n \in 0..n /\ f[n] \in Nat
  OBVIOUS
<1> QED BY <1>1, <1>2, <1>3

=============================================================================

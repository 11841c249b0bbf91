---------------------------- MODULE SumTheorems ----------------------------
(***************************************************************************)
(* Sums over finite sets.  SumFunctionOnSet is a recursive function over the  *)
(* subsets of the set.  The theorems here say that this function exists,   *)
(* that it depends neither on the set it is defined over nor on the order  *)
(* of the elements, and therefore what adding one element does to a sum.   *)
(*                                                                         *)
(* Induction is on the number of elements, in the form of NatInduction:    *)
(* a set of numbers, not an operator, says what has been shown.            *)
(***************************************************************************)
EXTENDS Naturals, FiniteSets, Functions, FiniteSetTheorems, WellFoundedInduction, TLAPS

Chosen(s) == CHOOSE x \in s : TRUE
\* The right-hand side of the recursion.
Body(it, w, s) == IF s = {} THEN 0 ELSE w[Chosen(s)] + it[s \ {Chosen(s)}]
Sums(it, w, S) == it = [s \in SUBSET S |-> Body(it, w, s)]

\* Induction over the natural numbers: a set of them that has 0 and is closed under
\* successor has all.
LEMMA NatInductionSet ==
    ASSUME NEW N, 0 \in N, \A n \in Nat : n \in N => n + 1 \in N
    PROVE  Nat \subseteq N
<1> DEFINE T == Nat \ N
<1> SUFFICES ASSUME T # {} PROVE FALSE
  OBVIOUS
<1>1. PICK x \in T : \A y \in T : ~ (<<y, x>> \in OpToRel(<, Nat))
  <2> HIDE DEF T
  <2>1. T \subseteq Nat
    BY DEF T
  <2> QED BY <2>1, NatLessThanWellFounded, WFMin
<1>2. x \in Nat /\ x # 0 /\ x \notin N
  OBVIOUS
<1>3. x - 1 \in Nat /\ x - 1 + 1 = x /\ x - 1 < x
  BY <1>2
<1>4. x - 1 \in N
  <2> SUFFICES ASSUME x - 1 \in T PROVE FALSE
    BY <1>3
  <2>1. <<x - 1, x>> \in OpToRel(<, Nat)
    BY <1>2, <1>3 DEF OpToRel
  <2> QED BY <1>1, <2>1
<1> QED BY <1>2, <1>3, <1>4

\* What is left of a set without one element is smaller by one.
LEMMA OneLess ==
    ASSUME NEW S, IsFiniteSet(S), NEW s \in SUBSET S, NEW x \in s
    PROVE  /\ s \ {x} \in SUBSET S /\ IsFiniteSet(s) /\ IsFiniteSet(s \ {x})
           /\ Cardinality(s) \in Nat /\ Cardinality(s \ {x}) \in Nat
           /\ Cardinality(s \ {x}) + 1 = Cardinality(s)
<1>1. IsFiniteSet(s)
  BY FS_Subset
<1>2. IsFiniteSet(s \ {x}) /\ Cardinality(s \ {x}) = Cardinality(s) - 1
  BY <1>1, FS_RemoveElement
<1>3. Cardinality(s) \in Nat /\ Cardinality(s \ {x}) \in Nat
  BY <1>1, <1>2, FS_CardinalityType
<1> QED BY <1>1, <1>2, <1>3

\* A nonempty set has the element that is chosen.
LEMMA ChosenIsIn == \A s : s # {} => Chosen(s) \in s
BY DEF Chosen

\* A statement about the subsets of a finite set holds for all of them if it holds for
\* those of every size: G has the subsets it holds for.
LEMMA SubsetInduction ==
    ASSUME NEW S, IsFiniteSet(S), NEW G, {} \in G,
           \A s \in SUBSET S : s # {} /\ (\A x \in s : s \ {x} \in G) => s \in G
    PROVE  SUBSET S \subseteq G
<1> DEFINE N == {n \in Nat : \A s \in SUBSET S : Cardinality(s) = n => s \in G}
<1>1. 0 \in N
  <2> SUFFICES ASSUME NEW s \in SUBSET S, Cardinality(s) = 0 PROVE s \in G
    OBVIOUS
  <2>1. IsFiniteSet(s)
    BY FS_Subset
  <2> QED BY <2>1, FS_EmptySet
<1>2. ASSUME NEW n \in Nat, n \in N PROVE n + 1 \in N
  <2> SUFFICES ASSUME NEW s \in SUBSET S, Cardinality(s) = n + 1 PROVE s \in G
    OBVIOUS
  <2>1. s # {}
    BY FS_EmptySet
  <2>2. ASSUME NEW x \in s PROVE s \ {x} \in G
    <3>1. s \ {x} \in SUBSET S /\ Cardinality(s \ {x}) \in Nat /\ Cardinality(s \ {x}) + 1 = n + 1
      BY OneLess
    <3>2. Cardinality(s \ {x}) = n
      BY <3>1
    <3> QED BY <1>2, <3>1, <3>2
  <2> QED BY <2>1, <2>2
<1>3. Nat \subseteq N
  <2> HIDE DEF N
  <2> QED BY <1>1, <1>2, NatInductionSet
<1>4. ASSUME NEW s \in SUBSET S PROVE s \in G
  <2>1. IsFiniteSet(s)
    BY FS_Subset
  <2>2. Cardinality(s) \in N
    BY <1>3, <2>1, FS_CardinalityType
  <2> QED BY <2>2
<1> QED BY <1>4

-----------------------------------------------------------------------------
\* The recursive function of a sum over a finite set exists.
LEMMA SumsExist ==
    ASSUME NEW S, IsFiniteSet(S), NEW w
    PROVE  \E it : Sums(it, w, S)
<1> DEFINE D(n) == {s \in SUBSET S : Cardinality(s) <= n}
           N == {n \in Nat : \E it : it = [s \in D(n) |-> Body(it, w, s)]}
<1>1. \A s \in SUBSET S : IsFiniteSet(s) /\ Cardinality(s) \in Nat
  BY FS_Subset, FS_CardinalityType
<1>2. 0 \in N
  <2> DEFINE it == [s \in D(0) |-> 0]
  <2>1. \A s \in D(0) : s = {}
    BY <1>1, FS_EmptySet
  <2>2. it = [s \in D(0) |-> Body(it, w, s)]
    BY <2>1 DEF Body
  <2> QED BY <2>2
<1>3. ASSUME NEW n \in Nat, n \in N PROVE n + 1 \in N
  <2>1. PICK it : it = [s \in D(n) |-> Body(it, w, s)]
    BY <1>3
  <2> DEFINE more == [s \in D(n + 1) |-> Body(it, w, s)]
  <2>2. ASSUME NEW s \in D(n + 1) PROVE Body(it, w, s) = Body(more, w, s)
    <3>1. CASE s = {}
      BY <3>1 DEF Body
    <3>2. CASE s # {}
      <4> DEFINE x == Chosen(s)
      <4>1. x \in s
        BY <3>2, ChosenIsIn
      <4> HIDE DEF x
      <4>2. s \ {x} \in SUBSET S /\ Cardinality(s \ {x}) \in Nat /\ Cardinality(s) \in Nat
            /\ Cardinality(s \ {x}) + 1 = Cardinality(s)
        BY <4>1, OneLess
      <4>3. s \ {x} \in D(n) /\ s \ {x} \in D(n + 1)
        BY <4>2
      <4>4. more[s \ {x}] = it[s \ {x}]
        BY <2>1, <4>3
      <4> HIDE DEF more
      <4> QED BY <3>2, <4>4 DEF Body, x
    <3> QED BY <3>1, <3>2
  <2>3. more = [s \in D(n + 1) |-> Body(more, w, s)]
    BY <2>2
  <2> HIDE DEF more, D
  <2> QED BY <2>3
<1>4. Nat \subseteq N
  <2> HIDE DEF N
  <2> QED BY <1>2, <1>3, NatInductionSet
<1>5. D(Cardinality(S)) = SUBSET S
  BY <1>1, FS_Subset
<1>6. Cardinality(S) \in N
  BY <1>1, <1>4
<1> QED BY <1>5, <1>6 DEF Sums

\* The sums over the subsets of a set are those over the subsets of a larger one.
LEMMA SumsAgree ==
    ASSUME NEW S, IsFiniteSet(S), NEW T \in SUBSET S, NEW w, NEW f, NEW g,
           Sums(f, w, S), Sums(g, w, T)
    PROVE  \A s \in SUBSET T : f[s] = g[s]
<1> DEFINE G == {s \in SUBSET T : f[s] = g[s]}
<1>1. \A s \in SUBSET T : s \in SUBSET S /\ f[s] = Body(f, w, s) /\ g[s] = Body(g, w, s)
  BY DEF Sums
<1>2. {} \in G
  BY <1>1 DEF Body
<1>3. ASSUME NEW s \in SUBSET T, s # {}, \A x \in s : s \ {x} \in G PROVE s \in G
  <2>1. Chosen(s) \in s
    BY <1>3, ChosenIsIn
  <2>2. f[s \ {Chosen(s)}] = g[s \ {Chosen(s)}]
    BY <1>3, <2>1
  <2>3. Body(f, w, s) = Body(g, w, s)
    BY <2>2 DEF Body
  <2> QED BY <1>1, <2>3
<1>4. IsFiniteSet(T)
  BY FS_Subset
<1>5. SUBSET T \subseteq G
  <2> HIDE DEF G
  <2> QED BY <1>2, <1>3, <1>4, SubsetInduction
<1> QED BY <1>5

\* The sum is the value of the recursive function.
LEMMA SumIsRecursive ==
    ASSUME NEW S, IsFiniteSet(S), NEW w, NEW it, Sums(it, w, S)
    PROVE  SumFunctionOnSet(w, S) = it[S]
<1> DEFINE g == CHOOSE f : f = [s \in SUBSET S |-> IF s = {} THEN 0
                       ELSE w[CHOOSE x \in s : TRUE] + f[s \ {CHOOSE x \in s : TRUE}]]
<1>1. SumFunctionOnSet(w, S) = g[S]
  BY DEF SumFunctionOnSet, FoldFunctionOnSet, MapThenFoldSet
<1>2. Sums(g, w, S)
  <2>1. \E f : f = [s \in SUBSET S |-> IF s = {} THEN 0
                       ELSE w[CHOOSE x \in s : TRUE] + f[s \ {CHOOSE x \in s : TRUE}]]
    BY DEF Sums, Body, Chosen
  <2>2. g = [s \in SUBSET S |-> IF s = {} THEN 0
                       ELSE w[CHOOSE x \in s : TRUE] + g[s \ {CHOOSE x \in s : TRUE}]]
    BY <2>1
  <2> HIDE DEF g
  <2> QED BY <2>2 DEF Sums, Body, Chosen
<1> HIDE DEF g
<1>3. S \in SUBSET S
  OBVIOUS
<1> QED BY <1>1, <1>2, <1>3, SumsAgree

\* All sums over subsets of a finite set are in one function.
LEMMA SumTable ==
    ASSUME NEW S, IsFiniteSet(S), NEW w
    PROVE  \E it : Sums(it, w, S) /\ \A T \in SUBSET S : SumFunctionOnSet(w, T) = it[T]
<1>1. PICK it : Sums(it, w, S)
  BY SumsExist
<1>2. ASSUME NEW T \in SUBSET S PROVE SumFunctionOnSet(w, T) = it[T]
  <2>1. IsFiniteSet(T) /\ T \in SUBSET T
    BY FS_Subset
  <2>2. PICK g : Sums(g, w, T)
    BY <2>1, SumsExist
  <2>3. SumFunctionOnSet(w, T) = g[T]
    BY <2>1, <2>2, SumIsRecursive
  <2>4. it[T] = g[T]
    BY <1>1, <2>1, <2>2, SumsAgree
  <2> QED BY <2>3, <2>4
<1> QED BY <1>1, <1>2

-----------------------------------------------------------------------------
\* A sum of natural numbers is one, over the empty set it is 0, and any element can be
\* taken out of it.
THEOREM SumSteps ==
    ASSUME NEW S, IsFiniteSet(S), NEW w \in [S -> Nat]
    PROVE  /\ SumFunctionOnSet(w, {}) = 0
           /\ \A T \in SUBSET S : SumFunctionOnSet(w, T) \in Nat
           /\ \A T \in SUBSET S : \A x \in T : SumFunctionOnSet(w, T) = w[x] + SumFunctionOnSet(w, T \ {x})
<1>1. PICK it : Sums(it, w, S) /\ \A T \in SUBSET S : SumFunctionOnSet(w, T) = it[T]
  BY SumTable
<1>2. \A T \in SUBSET S : it[T] = Body(it, w, T)
  BY <1>1 DEF Sums
<1>3. {} \in SUBSET S /\ it[{}] = 0
  BY <1>2 DEF Body
<1>4. ASSUME NEW T \in SUBSET S, T # {}
      PROVE  /\ Chosen(T) \in T /\ T \ {Chosen(T)} \in SUBSET S
             /\ w[Chosen(T)] \in Nat
             /\ it[T] = w[Chosen(T)] + it[T \ {Chosen(T)}]
  BY <1>2, <1>4, ChosenIsIn DEF Body
<1> DEFINE G == {T \in SUBSET S : it[T] \in Nat}
<1>5. SUBSET S \subseteq G
  <2>1. {} \in G
    BY <1>3
  <2>2. ASSUME NEW s \in SUBSET S, s # {}, \A x \in s : s \ {x} \in G PROVE s \in G
    <3>1. it[s \ {Chosen(s)}] \in Nat
      BY <1>4, <2>2
    <3>2. it[s] \in Nat
      BY <1>4, <2>2, <3>1
    <3> QED BY <3>2
  <2> HIDE DEF G
  <2> QED BY <2>1, <2>2, SubsetInduction
<1> DEFINE H == {T \in SUBSET S : \A x \in T : it[T] = w[x] + it[T \ {x}]}
<1>6. SUBSET S \subseteq H
  <2>1. {} \in H
    BY <1>3
  <2>2. ASSUME NEW s \in SUBSET S, s # {}, \A x \in s : s \ {x} \in H PROVE s \in H
    <3> SUFFICES ASSUME NEW x \in s PROVE it[s] = w[x] + it[s \ {x}]
      OBVIOUS
    <3> DEFINE c == Chosen(s)
    <3>1. /\ c \in s /\ s \ {c} \in SUBSET S /\ s \ {x} \in SUBSET S /\ w[c] \in Nat /\ w[x] \in Nat
          /\ it[s] = w[c] + it[s \ {c}]
      BY <1>4, <2>2
    <3> HIDE DEF c
    <3>2. CASE x = c
      BY <3>1, <3>2
    <3>3. CASE x # c
      <4>1. x \in s \ {c} /\ c \in s \ {x} /\ (s \ {c}) \ {x} = (s \ {x}) \ {c}
        BY <3>1, <3>3
      <4>2. (s \ {c}) \ {x} \in SUBSET S
        OBVIOUS
      <4>3. it[s \ {c}] = w[x] + it[(s \ {c}) \ {x}]
        BY <2>2, <3>1, <4>1
      <4>4. it[s \ {x}] = w[c] + it[(s \ {c}) \ {x}]
        BY <2>2, <3>1, <4>1
      <4>5. it[(s \ {c}) \ {x}] \in Nat
        BY <1>5, <4>2
      <4> QED BY <3>1, <4>3, <4>4, <4>5
    <3> QED BY <3>2, <3>3
  <2> HIDE DEF H
  <2> QED BY <2>1, <2>2, SubsetInduction
<1>7. \A T \in SUBSET S : \A x \in T : T \ {x} \in SUBSET S
  OBVIOUS
<1> QED BY <1>1, <1>3, <1>5, <1>6, <1>7

=============================================================================

----------------------------- MODULE SumsProofs -----------------------------
(***************************************************************************)
(* What FoldFunction computes, for every function with a finite domain.    *)
(*                                                                         *)
(* Induction over data: the theorem modules take the formula to be proved  *)
(* as an operator, which the provers cannot instantiate.  The lemmas here  *)
(* take the set of those for which it holds, and follow from the theorem   *)
(* that a well founded relation has minimal elements.                      *)
(***************************************************************************)
EXTENDS Sums, FiniteSetTheorems, TLAPS

-----------------------------------------------------------------------------
(* Induction over the natural numbers and over the parts of a finite set.  *)

LEMMA Least ==
    ASSUME NEW N \in SUBSET Nat, N # {}
    PROVE  \E n \in N : \A m \in N : n <= m
<1>1. \E n \in N : \A m \in N : <<m, n>> \notin OpToRel(<, Nat)
  <2> HIDE DEF OpToRel
  <2>1. QED
    BY NatLessThanWellFounded, WFMin
<1>2. \A m, n \in N : m < n => <<m, n>> \in OpToRel(<, Nat)
  <2> SUFFICES ASSUME NEW m \in N, NEW n \in N, m < n PROVE <<m, n>> \in OpToRel(<, Nat)
    OBVIOUS
  <2>1. <<m, n>> \in Nat \X Nat /\ <<m, n>>[1] < <<m, n>>[2]
    OBVIOUS
  <2>2. QED
    BY <2>1, Zenon DEF OpToRel
<1>3. \A m, n \in N : m < n \/ n <= m
  OBVIOUS
<1>4. QED
  BY <1>1, <1>2, <1>3, Zenon

LEMMA CountInduction ==
    ASSUME NEW N \in SUBSET Nat, 0 \in N, \A n \in N : n + 1 \in N
    PROVE  N = Nat
<1> DEFINE M == Nat \ N
<1>1. SUFFICES ASSUME M # {} PROVE FALSE
  OBVIOUS
<1>2. PICK m \in M : \A n \in M : m <= n
  <2> HIDE DEF M
  <2>1. M \in SUBSET Nat
    BY DEF M
  <2>2. QED
    BY <1>1, <2>1, Least
<1>3. m - 1 \in Nat /\ m - 1 \notin M
  BY <1>2
<1>4. QED
  BY <1>2, <1>3

\* Induction over the finite subsets of S by size: a set of sets that has every set
\* whose smaller ones it has.
LEMMA SetInduction ==
    ASSUME NEW S, IsFiniteSet(S), NEW H,
           \A T \in SUBSET S : (\A U \in SUBSET T : U # T => U \in H) => T \in H
    PROVE  \A T \in SUBSET S : T \in H
<1> DEFINE Bad == {T \in SUBSET S : T \notin H}
           N == {Cardinality(T) : T \in Bad}
<1>1. \A T \in SUBSET S : IsFiniteSet(T) /\ Cardinality(T) \in Nat
  BY FS_Subset, FS_CardinalityType
<1>2. SUFFICES ASSUME Bad # {} PROVE FALSE
  OBVIOUS
<1>3. N \in SUBSET Nat /\ N # {}
  BY <1>1, <1>2
<1> HIDE DEF N
<1>4. PICK n \in N : \A m \in N : n <= m
  BY <1>3, Least
<1>5. PICK T \in Bad : n = Cardinality(T)
  BY <1>4 DEF N
<1>6. PICK U \in SUBSET T : U # T /\ U \notin H
  BY <1>5
<1>7. Cardinality(U) < Cardinality(T)
  <2>1. T \in SUBSET S /\ U \in SUBSET S
    BY <1>5, <1>6
  <2>2. Cardinality(U) <= Cardinality(T) /\ Cardinality(U) # Cardinality(T)
    BY <2>1, <1>1, <1>6, FS_Subset
  <2>3. QED
    BY <2>1, <2>2, <1>1
<1>8. Cardinality(U) \in N
  BY <1>5, <1>6 DEF N
<1>9. QED
  BY <1>1, <1>3, <1>4, <1>5, <1>6, <1>7, <1>8

-----------------------------------------------------------------------------
(* The partial sums of FoldFunction.                                       *)

\* The element that FoldFunction takes next.
Pick(s) == CHOOSE x \in s : TRUE

\* g is the function that FoldFunction defines over the subsets of S, for a sum.
Partial(f, S, g) ==
    g = [s \in SUBSET S |-> IF s = {} THEN 0 ELSE f[Pick(s)] + g[s \ {Pick(s)}]]

LEMMA PickIn == ASSUME NEW s, s # {} PROVE Pick(s) \in s
BY DEF Pick

Small(S, n) == {s \in SUBSET S : Cardinality(s) <= n}

LEMMA SmallTypes ==
    ASSUME NEW S, IsFiniteSet(S), NEW s \in SUBSET S
    PROVE  /\ IsFiniteSet(s) /\ Cardinality(s) \in Nat /\ Cardinality(s) <= Cardinality(S)
           /\ Cardinality(S) \in Nat
           /\ Cardinality(s) = 0 <=> s = {}
           /\ s # {} => /\ s \ {Pick(s)} \in SUBSET S
                        /\ Cardinality(s \ {Pick(s)}) = Cardinality(s) - 1
<1>1. IsFiniteSet(s) /\ Cardinality(s) \in Nat /\ Cardinality(s) <= Cardinality(S) /\ Cardinality(S) \in Nat
  BY FS_Subset, FS_CardinalityType
<1>2. Cardinality(s) = 0 <=> s = {}
  BY <1>1, FS_EmptySet
<1>3. s # {} => Cardinality(s \ {Pick(s)}) = Cardinality(s) - 1
  BY <1>1, PickIn, FS_RemoveElement
<1>4. QED
  BY <1>1, <1>2, <1>3

LEMMA PartialExists ==
    ASSUME NEW f, NEW S, IsFiniteSet(S)
    PROVE  \E g : Partial(f, S, g)
<1> DEFINE Below(n, g) == g = [s \in Small(S, n) |->
                         IF s = {} THEN 0 ELSE f[Pick(s)] + g[s \ {Pick(s)}]]
           K == {n \in Nat : \E g : Below(n, g)}
<1>1. 0 \in K
  <2> DEFINE g == [s \in Small(S, 0) |-> 0]
  <2>1. ASSUME NEW s \in Small(S, 0) PROVE s = {}
    <3>1. s \in SUBSET S /\ Cardinality(s) <= 0
      BY DEF Small
    <3>2. Cardinality(s) \in Nat /\ (Cardinality(s) = 0 <=> s = {})
      BY <3>1, SmallTypes, Zenon
    <3>3. QED
      BY <3>1, <3>2
  <2>2. Below(0, g)
    BY <2>1
  <2>3. QED
    BY <2>2
<1>2. ASSUME NEW n \in K PROVE n + 1 \in K
  <2>1. PICK g : Below(n, g)
    OBVIOUS
  <2> DEFINE h == [s \in Small(S, n + 1) |->
                     IF s = {} THEN 0 ELSE f[Pick(s)] + g[s \ {Pick(s)}]]
  <2>2. \A s \in Small(S, n + 1) : s # {} => s \ {Pick(s)} \in Small(S, n)
    BY SmallTypes DEF Small
  <2>3. ASSUME NEW s \in Small(S, n) PROVE s \in Small(S, n + 1)
    <3>1. s \in SUBSET S /\ Cardinality(s) <= n /\ n \in Nat
      BY DEF Small
    <3>2. Cardinality(s) \in Nat
      BY <3>1, SmallTypes, Zenon
    <3>3. Cardinality(s) <= n + 1
      BY <3>1, <3>2
    <3>4. QED
      BY <3>1, <3>3 DEF Small
  <2>4. \A s \in Small(S, n) : h[s] = g[s]
    BY <2>1, <2>3
  <2>5. \A s \in Small(S, n + 1) : s # {} => g[s \ {Pick(s)}] = h[s \ {Pick(s)}]
    BY <2>2, <2>4
  <2>6. h = [s \in Small(S, n + 1) |->
                     IF s = {} THEN 0 ELSE f[Pick(s)] + h[s \ {Pick(s)}]]
    BY <2>5
  <2>7. Below(n + 1, h)
    BY <2>6
  <2> HIDE DEF h
  <2>8. \E x : Below(n + 1, x)
    BY <2>7
  <2>9. QED
    BY <2>8
<1>3. K = Nat
  <2>1. K \in SUBSET Nat
    OBVIOUS
  <2> HIDE DEF K
  <2>2. QED
    BY <1>1, <1>2, <2>1, CountInduction
<1>4. Small(S, Cardinality(S)) = SUBSET S /\ Cardinality(S) \in Nat
  BY SmallTypes DEF Small
<1>5. PICK g : Below(Cardinality(S), g)
  BY <1>3, <1>4
<1>6. QED
  BY <1>4, <1>5 DEF Partial

\* e has the values of f on S.
Agree(e, f, S) == \A x \in S : e[x] = f[x]

LEMMA PartialUnique ==
    ASSUME NEW D, NEW S, S \subseteq D, IsFiniteSet(S), NEW f, NEW g, NEW e, NEW h,
           Partial(f, D, g), Partial(e, S, h), Agree(e, f, S)
    PROVE  g[S] = h[S]
<1> DEFINE H == {s \in SUBSET S : g[s] = h[s]}
<1>1. ASSUME NEW T \in SUBSET S, \A U \in SUBSET T : U # T => U \in H
      PROVE  T \in H
  <2>1. CASE T = {}
    BY <2>1 DEF Partial
  <2>2. CASE T # {}
    <3>1. Pick(T) \in T
      BY <2>2, PickIn
    <3>2. g[T \ {Pick(T)}] = h[T \ {Pick(T)}]
      BY <1>1, <3>1
    <3>3. g[T] = f[Pick(T)] + g[T \ {Pick(T)}] /\ h[T] = e[Pick(T)] + h[T \ {Pick(T)}]
      BY <2>2 DEF Partial
    <3>4. QED
      BY <3>1, <3>2, <3>3 DEF Agree
  <2>3. QED
    BY <2>1, <2>2
<1>2. \A s \in SUBSET S : s \in H
  <2> HIDE DEF H
  <2>1. QED
    BY <1>1, SetInduction
<1>3. S \in H
  BY <1>2
<1>4. QED
  BY <1>3

\* What FoldFunction computes.
LEMMA SumIsPartial ==
    ASSUME NEW f, IsFiniteSet(DOMAIN f)
    PROVE  \E g : Partial(f, DOMAIN f, g) /\ SumOver(f) = g[DOMAIN f]
<1> DEFINE g == CHOOSE iter : Partial(f, DOMAIN f, iter)
<1>1. Partial(f, DOMAIN f, g)
  <2>1. \E iter : Partial(f, DOMAIN f, iter)
    BY PartialExists
  <2>2. QED
    BY <2>1, Zenon
<1>2. SumOver(f) = g[DOMAIN f]
  BY DEF SumOver, FoldFunction, FoldFunctionOnSet, MapThenFoldSet, Pick, Partial
<1>3. QED
  BY <1>1, <1>2, Zenon

\* Where the values of f are integers, so are the partial sums, and any element may be
\* taken first.
LEMMA PartialTypes ==
    ASSUME NEW D, IsFiniteSet(D), NEW f \in [D -> Int], NEW g, Partial(f, D, g)
    PROVE  \A T \in SUBSET D : g[T] \in Int
<1> DEFINE H == {s \in SUBSET D : g[s] \in Int}
<1>1. ASSUME NEW T \in SUBSET D, \A U \in SUBSET T : U # T => U \in H
      PROVE  T \in H
  <2>1. CASE T = {}
    BY <2>1 DEF Partial
  <2>2. CASE T # {}
    <3>1. Pick(T) \in T
      BY <2>2, PickIn
    <3>2. g[T \ {Pick(T)}] \in Int
      BY <1>1, <3>1
    <3>3. g[T] = f[Pick(T)] + g[T \ {Pick(T)}]
      BY <2>2 DEF Partial
    <3>4. QED
      BY <3>1, <3>2, <3>3
  <2>3. QED
    BY <2>1, <2>2
<1>2. \A s \in SUBSET D : s \in H
  <2> HIDE DEF H
  <2>1. QED
    BY <1>1, SetInduction
<1>3. QED
  BY <1>2

LEMMA PartialAny ==
    ASSUME NEW D, IsFiniteSet(D), NEW f \in [D -> Int], NEW g, Partial(f, D, g)
    PROVE  \A T \in SUBSET D : \A x \in T : g[T] = f[x] + g[T \ {x}]
<1> DEFINE H == {T \in SUBSET D : \A x \in T : g[T] = f[x] + g[T \ {x}]}
<1>1. ASSUME NEW T \in SUBSET D, \A U \in SUBSET T : U # T => U \in H
      PROVE  T \in H
  <2>1. SUFFICES ASSUME NEW x \in T PROVE g[T] = f[x] + g[T \ {x}]
    OBVIOUS
  <2> DEFINE p == Pick(T)
  <2>2. p \in T
    BY PickIn
  <2>3. g[T] = f[p] + g[T \ {p}]
    BY <2>2 DEF Partial
  <2> HIDE DEF p
  <2>4. CASE x # p
    <3>1. g[T \ {p}] = f[x] + g[(T \ {p}) \ {x}]
      BY <1>1, <2>2, <2>4
    <3>2. g[T \ {x}] = f[p] + g[(T \ {x}) \ {p}]
      BY <1>1, <2>2, <2>4
    <3>3. (T \ {x}) \ {p} = (T \ {p}) \ {x}
      OBVIOUS
    <3>4. f[x] \in Int /\ f[p] \in Int /\ g[(T \ {p}) \ {x}] \in Int
      BY <2>2, PartialTypes
    <3>5. g[T \ {x}] = f[p] + g[(T \ {p}) \ {x}]
      BY <3>2, <3>3
    <3> DEFINE rest == g[(T \ {p}) \ {x}]
    <3>6. f[p] + (f[x] + rest) = f[x] + (f[p] + rest)
      BY <3>4
    <3>7. QED
      BY <2>3, <3>1, <3>5, <3>6
  <2>5. QED
    BY <2>3, <2>4
<1>2. \A s \in SUBSET D : s \in H
  <2> HIDE DEF H
  <2>1. QED
    BY <1>1, SetInduction
<1>3. QED
  BY <1>2

-----------------------------------------------------------------------------
(* Sums of functions with finite domains.                                  *)

LEMMA SumEmpty == ASSUME NEW f, DOMAIN f = {} PROVE SumOver(f) = 0
<1>1. PICK g : Partial(f, DOMAIN f, g) /\ SumOver(f) = g[DOMAIN f]
  BY SumIsPartial, FS_EmptySet
<1>2. QED
  BY <1>1 DEF Partial

LEMMA SumType ==
    ASSUME NEW D, IsFiniteSet(D), NEW f \in [D -> Int]
    PROVE  SumOver(f) \in Int
<1>1. PICK g : Partial(f, D, g) /\ SumOver(f) = g[D]
  BY SumIsPartial
<1>2. QED
  BY <1>1, PartialTypes

\* f is e and one value more, that of x.
OneMore(f, e, D, x) ==
    /\ IsFiniteSet(D) /\ x \in D
    /\ f \in [D -> Int] /\ e \in [D \ {x} -> Int]
    /\ Agree(e, f, D \ {x})

LEMMA SumRemove ==
    ASSUME NEW D, NEW f, NEW e, NEW x, OneMore(f, e, D, x)
    PROVE  SumOver(f) = f[x] + SumOver(e) /\ f[x] \in Int /\ SumOver(e) \in Int
<1> USE DEF OneMore
<1>1. PICK g : Partial(f, D, g) /\ SumOver(f) = g[D]
  BY SumIsPartial
<1>2. IsFiniteSet(D \ {x})
  BY FS_RemoveElement
<1>3. PICK h : Partial(e, D \ {x}, h) /\ SumOver(e) = h[D \ {x}]
  BY <1>2, SumIsPartial
<1>4. D \ {x} \subseteq D
  OBVIOUS
<1>5. g[D \ {x}] = h[D \ {x}]
  BY <1>1, <1>2, <1>3, <1>4, PartialUnique
<1>6. g[D] = f[x] + g[D \ {x}]
  BY <1>1, PartialAny
<1>7. f[x] \in Int /\ SumOver(e) \in Int
  BY <1>2, SumType
<1>8. QED
  BY <1>1, <1>3, <1>5, <1>6, <1>7

\* A property of every element that is kept when one is taken away holds of sums, by
\* induction over the domain: H has the parts of the domain that have it.
LEMMA SumInduction ==
    ASSUME NEW D, IsFiniteSet(D), NEW H, {} \in H,
           \A T \in SUBSET D : \A x \in T : T \ {x} \in H => T \in H
    PROVE  \A T \in SUBSET D : T \in H
<1>1. ASSUME NEW T \in SUBSET D, \A U \in SUBSET T : U # T => U \in H
      PROVE  T \in H
  <2>1. CASE T # {}
    <3>1. PICK x \in T : TRUE
      BY <2>1
    <3>2. T \ {x} \in SUBSET T /\ T \ {x} # T
      BY <3>1
    <3>3. QED
      BY <1>1, <3>1, <3>2
  <2>2. QED
    BY <2>1
<1>2. QED
  BY <1>1, SetInduction

LEMMA SumNotNegative ==
    ASSUME NEW D, IsFiniteSet(D), NEW f \in [D -> Int], \A x \in D : f[x] >= 0
    PROVE  SumOver(f) >= 0
<1> DEFINE part(T) == [x \in T |-> f[x]]
           H == {T \in SUBSET D : SumOver(part(T)) >= 0}
<1>1. {} \in H
  BY SumEmpty
<1>2. ASSUME NEW T \in SUBSET D, NEW x \in T, T \ {x} \in H PROVE T \in H
  <2>1. IsFiniteSet(T)
    BY FS_Subset
  <2>2. OneMore(part(T), part(T \ {x}), T, x) /\ part(T)[x] >= 0
    BY <2>1 DEF OneMore, Agree
  <2>3. SumOver(part(T \ {x})) >= 0
    BY <1>2
  <2> HIDE DEF part
  <2>4. SumOver(part(T)) >= 0
    BY <2>2, <2>3, SumRemove
  <2>5. QED
    BY <2>4
<1>3. D \in H
  <2> HIDE DEF H
  <2>1. \A T \in SUBSET D : \A x \in T : T \ {x} \in H => T \in H
    BY <1>2
  <2>2. \A T \in SUBSET D : T \in H
    BY <1>1, <2>1, SumInduction, Zenon
  <2>3. QED
    BY <2>2
<1>4. part(D) = f
  OBVIOUS
<1>5. QED
  BY <1>3, <1>4

\* The sums of two functions add up.
LEMMA SumPlus ==
    ASSUME NEW D, IsFiniteSet(D), NEW f \in [D -> Int], NEW g \in [D -> Int]
    PROVE  SumOver([x \in D |-> f[x] + g[x]]) = SumOver(f) + SumOver(g)
<1> DEFINE F(T) == [x \in T |-> f[x]]
           G(T) == [x \in T |-> g[x]]
           FG(T) == [x \in T |-> f[x] + g[x]]
           H == {T \in SUBSET D : SumOver(FG(T)) = SumOver(F(T)) + SumOver(G(T))}
<1>1. {} \in H
  BY SumEmpty
<1>2. ASSUME NEW T \in SUBSET D, NEW x \in T, T \ {x} \in H PROVE T \in H
  <2>1. IsFiniteSet(T)
    BY FS_Subset
  <2>2. /\ OneMore(F(T), F(T \ {x}), T, x)
        /\ OneMore(G(T), G(T \ {x}), T, x)
        /\ OneMore(FG(T), FG(T \ {x}), T, x)
        /\ FG(T)[x] = F(T)[x] + G(T)[x]
    BY <2>1 DEF OneMore, Agree
  <2>3. SumOver(FG(T \ {x})) = SumOver(F(T \ {x})) + SumOver(G(T \ {x}))
    BY <1>2
  <2> HIDE DEF F, G, FG
  <2>4. SumOver(FG(T)) = SumOver(F(T)) + SumOver(G(T))
    BY <2>2, <2>3, SumRemove
  <2>5. QED
    BY <2>4
<1>3. D \in H
  <2> HIDE DEF H
  <2>1. \A T \in SUBSET D : \A x \in T : T \ {x} \in H => T \in H
    BY <1>2
  <2>2. \A T \in SUBSET D : T \in H
    BY <1>1, <2>1, SumInduction, Zenon
  <2>3. QED
    BY <2>2
<1>4. F(D) = f /\ G(D) = g
  OBVIOUS
<1>5. QED
  BY <1>3, <1>4

LEMMA SumZero ==
    ASSUME NEW D, IsFiniteSet(D), NEW f \in [D -> Int], \A x \in D : f[x] = 0
    PROVE  SumOver(f) = 0
<1>1. [x \in D |-> f[x] + f[x]] = f
  OBVIOUS
<1>2. SumOver(f) = SumOver(f) + SumOver(f)
  BY <1>1, SumPlus
<1>3. QED
  BY <1>2, SumType

LEMMA SumNotPositive ==
    ASSUME NEW D, IsFiniteSet(D), NEW f \in [D -> Int], \A x \in D : f[x] <= 0
    PROVE  SumOver(f) <= 0
<1> DEFINE g == [x \in D |-> - f[x]]
           z == [x \in D |-> f[x] + g[x]]
<1>1. g \in [D -> Int] /\ \A x \in D : g[x] >= 0
  OBVIOUS
<1>2. z \in [D -> Int] /\ \A x \in D : z[x] = 0
  OBVIOUS
<1>3. SumOver(z) = 0
  <2> HIDE DEF z
  <2>1. QED
    BY <1>2, SumZero
<1> HIDE DEF g
<1>4. SumOver(z) = SumOver(f) + SumOver(g)
  BY <1>1, SumPlus
<1>5. SumOver(g) >= 0 /\ SumOver(g) \in Int /\ SumOver(f) \in Int
  BY <1>1, SumNotNegative, SumType
<1> HIDE DEF z
<1>6. QED
  BY <1>3, <1>4, <1>5

\* f is e and g, the domains of which are disjoint.
Joined(f, e, g, A, B) ==
    /\ IsFiniteSet(A) /\ IsFiniteSet(B) /\ A \cap B = {}
    /\ f \in [A \cup B -> Int] /\ e \in [A -> Int] /\ g \in [B -> Int]
    /\ Agree(e, f, A) /\ Agree(g, f, B)

LEMMA SumJoined ==
    ASSUME NEW A, NEW B, NEW f, NEW e, NEW g, Joined(f, e, g, A, B)
    PROVE  SumOver(f) = SumOver(e) + SumOver(g)
<1> DEFINE E(T) == [x \in T |-> e[x]]
           F(T) == [x \in T \cup B |-> f[x]]
           H == {T \in SUBSET A : SumOver(F(T)) = SumOver(E(T)) + SumOver(g)}
<1>1. SumOver(g) \in Int
  BY SumType DEF Joined
<1>2. {} \in H
  <2>1. F({}) = g
    BY DEF Joined, Agree
  <2>2. SumOver(E({})) = 0
    BY SumEmpty
  <2> HIDE DEF E, F
  <2>3. QED
    BY <1>1, <2>1, <2>2
<1>3. ASSUME NEW T \in SUBSET A, NEW x \in T, T \ {x} \in H PROVE T \in H
  <2>1. IsFiniteSet(T) /\ IsFiniteSet(T \cup B)
    BY FS_Subset, FS_Union DEF Joined
  <2>2. OneMore(E(T), E(T \ {x}), T, x)
    BY <2>1 DEF OneMore, Agree, Joined
  <2>3. OneMore(F(T), F(T \ {x}), T \cup B, x)
    <3>1. (T \cup B) \ {x} = (T \ {x}) \cup B
      BY DEF Joined
    <3>2. F(T \ {x}) \in [(T \cup B) \ {x} -> Int]
      BY <3>1 DEF Joined
    <3>3. Agree(F(T \ {x}), F(T), (T \cup B) \ {x})
      BY <3>1 DEF Agree
    <3>4. F(T) \in [T \cup B -> Int]
      BY DEF Joined
    <3> HIDE DEF F
    <3>5. QED
      BY <2>1, <3>2, <3>3, <3>4 DEF OneMore
  <2>4. F(T)[x] = E(T)[x]
    BY DEF Joined, Agree
  <2>5. SumOver(F(T \ {x})) = SumOver(E(T \ {x})) + SumOver(g)
    BY <1>3
  <2> HIDE DEF E, F
  <2>6. SumOver(F(T)) = SumOver(E(T)) + SumOver(g)
    BY <1>1, <2>2, <2>3, <2>4, <2>5, SumRemove
  <2>7. QED
    BY <2>6
<1>4. A \in H
  <2> HIDE DEF H
  <2>1. \A T \in SUBSET A : \A x \in T : T \ {x} \in H => T \in H
    BY <1>3
  <2>2. IsFiniteSet(A)
    BY DEF Joined
  <2>3. \A T \in SUBSET A : T \in H
    BY <1>2, <2>1, <2>2, SumInduction, Zenon
  <2>4. QED
    BY <2>3
<1>5. E(A) = e /\ F(A) = f
  BY DEF Joined
<1>6. QED
  BY <1>4, <1>5

\* The values of f where k is c.
Class(f, k, c) == [x \in {y \in DOMAIN f : k[y] = c} |-> f[x]]

\* A sum may be formed class by class.
LEMMA SumByClass ==
    ASSUME NEW D, IsFiniteSet(D), NEW f \in [D -> Int],
           NEW K, IsFiniteSet(K), NEW k \in [D -> K]
    PROVE  SumOver(f) = SumOver([c \in K |-> SumOver(Class(f, k, c))])
<1> DEFINE F(T) == [x \in {y \in D : k[y] \in T} |-> f[x]]
           S(T) == [c \in T |-> SumOver(Class(f, k, c))]
           H == {T \in SUBSET K : SumOver(F(T)) = SumOver(S(T))}
<1>1. {} \in H
  BY SumEmpty
<1>2. \A c \in K : SumOver(Class(f, k, c)) \in Int
  <2> SUFFICES ASSUME NEW c \in K PROVE SumOver(Class(f, k, c)) \in Int
    OBVIOUS
  <2>1. IsFiniteSet({y \in D : k[y] = c})
    BY FS_Subset
  <2>2. Class(f, k, c) \in [{y \in D : k[y] = c} -> Int]
    BY DEF Class
  <2>3. QED
    BY <2>1, <2>2, SumType
<1>3. ASSUME NEW T \in SUBSET K, NEW c \in T, T \ {c} \in H PROVE T \in H
  <2>1. IsFiniteSet(T)
    BY FS_Subset
  <2>2. OneMore(S(T), S(T \ {c}), T, c)
    BY <1>2, <2>1 DEF OneMore, Agree
  <2>3. S(T)[c] = SumOver(Class(f, k, c))
    OBVIOUS
  <2> DEFINE A == {y \in D : k[y] = c}
             B == {y \in D : k[y] \in T \ {c}}
  <2>4. Joined(F(T), Class(f, k, c), F(T \ {c}), A, B)
    <3>1. IsFiniteSet(A) /\ IsFiniteSet(B)
      BY FS_Subset
    <3>2. A \cap B = {} /\ A \cup B = {y \in D : k[y] \in T}
      OBVIOUS
    <3>3. F(T) \in [A \cup B -> Int] /\ F(T \ {c}) \in [B -> Int]
      BY <3>2
    <3>4. Class(f, k, c) \in [A -> Int] /\ Agree(Class(f, k, c), F(T), A)
      BY DEF Agree, Class
    <3>5. Agree(F(T \ {c}), F(T), B)
      BY DEF Agree
    <3> HIDE DEF F, A, B
    <3>6. QED
      BY <3>1, <3>2, <3>3, <3>4, <3>5 DEF Joined
  <2>5. SumOver(F(T \ {c})) = SumOver(S(T \ {c}))
    BY <1>3
  <2> HIDE DEF F, S, A, B
  <2>6. SumOver(F(T)) = SumOver(Class(f, k, c)) + SumOver(F(T \ {c}))
    BY <2>4, SumJoined
  <2>7. SumOver(S(T)) = S(T)[c] + SumOver(S(T \ {c}))
    BY <2>2, SumRemove
  <2>8. SumOver(F(T)) = SumOver(S(T))
    BY <2>3, <2>5, <2>6, <2>7
  <2>9. QED
    BY <2>8 DEF F, S
<1>4. K \in H
  <2> HIDE DEF H
  <2>1. \A T \in SUBSET K : \A c \in T : T \ {c} \in H => T \in H
    BY <1>3
  <2>2. \A T \in SUBSET K : T \in H
    BY <1>1, <2>1, SumInduction, Zenon
  <2>3. QED
    BY <2>2
<1>5. F(K) = f
  OBVIOUS
<1>6. QED
  BY <1>4, <1>5
=============================================================================

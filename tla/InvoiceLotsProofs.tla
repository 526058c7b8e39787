------------------------- MODULE InvoiceLotsProofs -------------------------
(***************************************************************************)
(* Theorems about InvoiceLots, for every set of documents, payments and    *)
(* links, any amounts and any bound on the lots.                           *)
(*                                                                         *)
(* A split belongs to classes: those of a transaction, of a lot, of a      *)
(* document.  The first parts show what each operation on the bag of       *)
(* splits does to what a class is worth; LotInv is what then stays true of *)
(* payments, links and documents, OwedInv adds the signs on which          *)
(* Receivable, the abstract specification, depends, and MetInv what is     *)
(* known of the pairs of lots that were looked at.                         *)
(***************************************************************************)
EXTENDS InvoiceLots, SumsProofs

-----------------------------------------------------------------------------
(* Bags of splits, and what the splits of a class are worth.               *)

AllSplits == [txn : Txn, lot : Lot, amount : Int]

SplitBag(b) ==
    /\ b \in [DOMAIN b -> {n \in Nat : n > 0}]
    /\ IsFiniteSet(DOMAIN b)
    /\ DOMAIN b \subseteq AllSplits

Part(b, C) == {s \in DOMAIN b : s \in C}
Worths(b, C) == [s \in Part(b, C) |-> s.amount * b[s]]
Worth(b, C) == SumOver(Worths(b, C))

LEMMA WorthsType ==
    ASSUME NEW b, SplitBag(b), NEW C
    PROVE  IsFiniteSet(Part(b, C)) /\ Worths(b, C) \in [Part(b, C) -> Int]
<1>1. IsFiniteSet(Part(b, C))
  BY FS_Subset DEF SplitBag, Part
<1>2. ASSUME NEW s \in Part(b, C) PROVE s.amount * b[s] \in Int
  BY DEF SplitBag, Part, AllSplits
<1>3. QED
  BY <1>1, <1>2 DEF Worths

LEMMA WorthType ==
    ASSUME NEW b, SplitBag(b), NEW C
    PROVE  Worth(b, C) \in Int
BY WorthsType, SumType DEF Worth

\* Bags that agree on a class.
SameOn(b, c, C) ==
    \A s \in C : (s \in DOMAIN b <=> s \in DOMAIN c) /\ (s \in DOMAIN b => b[s] = c[s])

LEMMA WorthSame ==
    ASSUME NEW b, NEW c, NEW C, SameOn(b, c, C)
    PROVE  Worth(b, C) = Worth(c, C)
<1>1. Part(b, C) = Part(c, C)
  BY DEF SameOn, Part
<1>2. Worths(b, C) = Worths(c, C)
  BY <1>1 DEF SameOn, Worths, Part
<1>3. QED
  BY <1>2 DEF Worth

LEMMA WorthNone ==
    ASSUME NEW b, SplitBag(b), NEW C, \A s \in DOMAIN b : s \in C => s.amount = 0
    PROVE  Worth(b, C) = 0
<1>1. \A s \in Part(b, C) : Worths(b, C)[s] = 0
  BY DEF Worths, Part, SplitBag
<1>2. QED
  BY <1>1, WorthsType, SumZero DEF Worth

LEMMA WorthNotNegative ==
    ASSUME NEW b, SplitBag(b), NEW C, \A s \in DOMAIN b : s \in C => s.amount >= 0
    PROVE  Worth(b, C) >= 0
<1>1. ASSUME NEW s \in Part(b, C) PROVE Worths(b, C)[s] >= 0
  <2>1. s.amount \in Int /\ b[s] \in Int /\ s.amount >= 0 /\ b[s] >= 0
    BY DEF Part, SplitBag, AllSplits
  <2> DEFINE m == s.amount
             n == b[s]
  <2> HIDE DEF m, n
  <2>2. m \in Int /\ n \in Int /\ m >= 0 /\ n >= 0
    BY <2>1 DEF m, n
  <2>3. m * n >= 0
    BY <2>2
  <2>4. QED
    BY <2>3 DEF m, n, Worths
<1>2. QED
  BY <1>1, WorthsType, SumNotNegative DEF Worth

LEMMA WorthNotPositive ==
    ASSUME NEW b, SplitBag(b), NEW C, \A s \in DOMAIN b : s \in C => s.amount <= 0
    PROVE  Worth(b, C) <= 0
<1>1. ASSUME NEW s \in Part(b, C) PROVE Worths(b, C)[s] <= 0
  <2>1. s.amount \in Int /\ b[s] \in Int /\ s.amount <= 0 /\ b[s] >= 0
    BY DEF Part, SplitBag, AllSplits
  <2> DEFINE m == s.amount
             n == b[s]
  <2> HIDE DEF m, n
  <2>2. m \in Int /\ n \in Int /\ m <= 0 /\ n >= 0
    BY <2>1 DEF m, n
  <2>3. m * n <= 0
    BY <2>2
  <2>4. QED
    BY <2>3 DEF m, n, Worths
<1>2. QED
  BY <1>1, WorthsType, SumNotPositive DEF Worth

\* A class that is the union of two disjoint ones.
LEMMA WorthUnion ==
    ASSUME NEW b, SplitBag(b), NEW C, NEW D, NEW E,
           \A s \in DOMAIN b : s \in E <=> s \in C \/ s \in D,
           \A s \in DOMAIN b : ~ (s \in C /\ s \in D)
    PROVE  Worth(b, E) = Worth(b, C) + Worth(b, D)
<1>1. Part(b, E) = Part(b, C) \cup Part(b, D) /\ Part(b, C) \cap Part(b, D) = {}
  BY DEF Part
<1>2. Agree(Worths(b, C), Worths(b, E), Part(b, C)) /\ Agree(Worths(b, D), Worths(b, E), Part(b, D))
  BY DEF Agree, Worths, Part
<1>3. Joined(Worths(b, E), Worths(b, C), Worths(b, D), Part(b, C), Part(b, D))
  <2>1. /\ IsFiniteSet(Part(b, C)) /\ Worths(b, C) \in [Part(b, C) -> Int]
        /\ IsFiniteSet(Part(b, D)) /\ Worths(b, D) \in [Part(b, D) -> Int]
        /\ Worths(b, E) \in [Part(b, E) -> Int]
    BY WorthsType
  <2>2. QED
    BY <1>1, <1>2, <2>1 DEF Joined
<1>4. QED
  BY <1>3, SumJoined DEF Worth

\* The bag that has s alone.
One(s) == SetToBag({s})

LEMMA OneType ==
    ASSUME NEW s
    PROVE  DOMAIN One(s) = {s} /\ One(s)[s] = 1
BY DEF One, SetToBag

LEMMA PlusIs ==
    ASSUME NEW b, NEW c
    PROVE  /\ DOMAIN (b (+) c) = DOMAIN b \cup DOMAIN c
           /\ \A s \in DOMAIN b \cup DOMAIN c :
                (b (+) c)[s] = (IF s \in DOMAIN b THEN b[s] ELSE 0)
                               + (IF s \in DOMAIN c THEN c[s] ELSE 0)
BY DEF (+)

LEMMA MinusOneIs ==
    ASSUME NEW b, NEW s, b \in [DOMAIN b -> {n \in Nat : n > 0}], s \in DOMAIN b
    PROVE  /\ DOMAIN (b (-) One(s)) = IF b[s] = 1 THEN DOMAIN b \ {s} ELSE DOMAIN b
           /\ \A u \in DOMAIN (b (-) One(s)) :
                (b (-) One(s))[u] = IF u = s THEN b[s] - 1 ELSE b[u]
<1> DEFINE B == [e \in DOMAIN b |-> IF e \in {s} THEN b[e] - One(s)[e] ELSE b[e]]
<1>1. b (-) One(s) = [e \in {d \in DOMAIN B : B[d] > 0} |-> B[e]]
  BY OneType DEF (-)
<1>2. \A e \in DOMAIN b : B[e] = IF e = s THEN b[e] - 1 ELSE b[e]
  BY OneType
<1>3. DOMAIN B = DOMAIN b
  OBVIOUS
<1> HIDE DEF B
<1>4. {d \in DOMAIN B : B[d] > 0} = IF b[s] = 1 THEN DOMAIN b \ {s} ELSE DOMAIN b
  BY <1>2, <1>3
<1>5. QED
  BY <1>1, <1>2, <1>3, <1>4

\* The sum of the amounts of equal splits.
LEMMA WorthOne ==
    ASSUME NEW b, SplitBag(b), NEW s \in AllSplits
    PROVE  Worth(b, {s}) = IF s \in DOMAIN b THEN s.amount * b[s] ELSE 0
<1>1. CASE s \in DOMAIN b
  <2>1. Part(b, {s}) = {s}
    BY <1>1 DEF Part
  <2>2. DOMAIN Worths(b, {s}) = {s} /\ Worths(b, {s})[s] = s.amount * b[s]
    BY <2>1 DEF Worths
  <2> DEFINE e == [x \in {} |-> 0]
  <2>3. OneMore(Worths(b, {s}), e, {s}, s)
    <3>1. IsFiniteSet({s}) /\ Worths(b, {s}) \in [{s} -> Int]
      BY <2>1, WorthsType
    <3>2. QED
      BY <3>1 DEF OneMore, Agree
  <2>4. SumOver(e) = 0
    BY SumEmpty
  <2> HIDE DEF e
  <2>5. /\ SumOver(Worths(b, {s})) = Worths(b, {s})[s] + SumOver(e)
        /\ Worths(b, {s})[s] \in Int
    BY <2>3, SumRemove
  <2>6. SumOver(Worths(b, {s})) = Worths(b, {s})[s]
    BY <2>4, <2>5
  <2>7. QED
    BY <1>1, <2>2, <2>6 DEF Worth
<1>2. CASE s \notin DOMAIN b
  BY <1>2, WorthNone
<1>3. QED
  BY <1>1, <1>2

\* Two bags that only differ in how often they have s.
Differ(b, c, s) ==
    /\ SplitBag(b) /\ SplitBag(c) /\ s \in AllSplits
    /\ \A u \in AllSplits \ {s} : /\ u \in DOMAIN b <=> u \in DOMAIN c
                                  /\ u \in DOMAIN b => b[u] = c[u]

LEMMA WorthDiffer ==
    ASSUME NEW b, NEW c, NEW s, Differ(b, c, s), NEW C \in SUBSET AllSplits
    PROVE  Worth(c, C) = Worth(b, C) + IF s \in C THEN Worth(c, {s}) - Worth(b, {s}) ELSE 0
<1> USE DEF Differ
<1> DEFINE D == C \ {s}
<1>1. SameOn(b, c, D)
  BY DEF SameOn
<1>2. Worth(b, D) = Worth(c, D)
  BY <1>1, WorthSame
<1>3. Worth(b, D) \in Int /\ Worth(b, {s}) \in Int /\ Worth(c, {s}) \in Int
  BY WorthType
<1>4. CASE s \in C
  <2>1. Worth(b, C) = Worth(b, D) + Worth(b, {s})
    BY <1>4, WorthUnion
  <2>2. Worth(c, C) = Worth(c, D) + Worth(c, {s})
    BY <1>4, WorthUnion
  <2> HIDE DEF D
  <2>3. QED
    BY <1>2, <1>3, <1>4, <2>1, <2>2
<1>5. CASE s \notin C
  <2>1. C = D
    BY <1>5
  <2> HIDE DEF D
  <2>2. QED
    BY <1>2, <1>3, <1>5, <2>1
<1>6. QED
  BY <1>4, <1>5

LEMMA WorthAdd ==
    ASSUME NEW b, SplitBag(b), NEW s \in AllSplits
    PROVE  /\ SplitBag(b (+) One(s))
           /\ \A C \in SUBSET AllSplits :
                Worth(b (+) One(s), C) = Worth(b, C) + IF s \in C THEN s.amount ELSE 0
<1> DEFINE c == b (+) One(s)
<1>1. /\ DOMAIN c = DOMAIN b \cup {s}
      /\ \A u \in DOMAIN c : c[u] = (IF u \in DOMAIN b THEN b[u] ELSE 0) + (IF u = s THEN 1 ELSE 0)
  <2>1. /\ DOMAIN c = DOMAIN b \cup DOMAIN One(s)
        /\ \A u \in DOMAIN b \cup DOMAIN One(s) :
             c[u] = (IF u \in DOMAIN b THEN b[u] ELSE 0)
                    + (IF u \in DOMAIN One(s) THEN One(s)[u] ELSE 0)
    BY PlusIs
  <2> HIDE DEF c
  <2>2. QED
    BY <2>1, OneType
<1> HIDE DEF c
<1>2. \A u \in DOMAIN b : b[u] \in Nat /\ b[u] > 0
  BY DEF SplitBag
<1>3. SplitBag(c)
  <2>1. IsFiniteSet(DOMAIN c) /\ DOMAIN c \subseteq AllSplits
    BY <1>1, FS_AddElement DEF SplitBag
  <2>2. \A u \in DOMAIN c : c[u] \in {n \in Nat : n > 0}
    BY <1>1, <1>2
  <2>3. c = [u \in DOMAIN c |-> c[u]]
    BY DEF c, (+)
  <2>4. QED
    BY <2>1, <2>2, <2>3 DEF SplitBag
<1>4. Differ(b, c, s)
  BY <1>1, <1>2, <1>3 DEF Differ
<1>5. Worth(c, {s}) - Worth(b, {s}) = s.amount
  <2> DEFINE m == s.amount
             n == b[s]
  <2>1. m \in Int
    BY DEF AllSplits
  <2>2. Worth(c, {s}) = m * c[s]
    BY <1>1, <1>3, WorthOne
  <2>3. CASE s \in DOMAIN b
    <3>1. n \in Int /\ c[s] = n + 1
      BY <1>1, <1>2, <2>3
    <3>2. Worth(b, {s}) = m * n
      BY <2>3, WorthOne
    <3> HIDE DEF m, n
    <3>3. Worth(c, {s}) - Worth(b, {s}) = m
      BY <2>1, <2>2, <3>1, <3>2
    <3>4. QED
      BY <3>3 DEF m
  <2>4. CASE s \notin DOMAIN b
    <3>1. c[s] = 1
      BY <1>1, <2>4
    <3>2. Worth(b, {s}) = 0
      BY <2>4, WorthOne
    <3>3. QED
      BY <2>1, <2>2, <3>1, <3>2
  <2>5. QED
    BY <2>3, <2>4
<1>6. \A C \in SUBSET AllSplits : Worth(c, C) = Worth(b, C) + IF s \in C THEN s.amount ELSE 0
  BY <1>4, <1>5, WorthDiffer
<1>7. QED
  BY <1>3, <1>6 DEF c

LEMMA WorthTake ==
    ASSUME NEW b, SplitBag(b), NEW s \in DOMAIN b
    PROVE  /\ SplitBag(b (-) One(s))
           /\ \A C \in SUBSET AllSplits :
                Worth(b (-) One(s), C) = Worth(b, C) - IF s \in C THEN s.amount ELSE 0
<1> DEFINE c == b (-) One(s)
<1>1. /\ DOMAIN c = IF b[s] = 1 THEN DOMAIN b \ {s} ELSE DOMAIN b
      /\ \A u \in DOMAIN c : c[u] = IF u = s THEN b[s] - 1 ELSE b[u]
  BY MinusOneIs DEF SplitBag
<1>a. c = [u \in DOMAIN c |-> c[u]]
  BY DEF (-)
<1> HIDE DEF c
<1>2. \A u \in DOMAIN b : b[u] \in Nat /\ b[u] > 0
  BY DEF SplitBag
<1>0. s \in AllSplits
  BY DEF SplitBag
<1>3. SplitBag(c)
  <2>1. DOMAIN c \subseteq DOMAIN b
    BY <1>1
  <2>2. IsFiniteSet(DOMAIN c) /\ DOMAIN c \subseteq AllSplits
    BY <2>1, FS_Subset DEF SplitBag
  <2>3. \A u \in DOMAIN c : c[u] \in {n \in Nat : n > 0}
    BY <1>1, <1>2, <2>1
  <2>4. QED
    BY <1>a, <2>2, <2>3 DEF SplitBag
<1>4. Differ(b, c, s)
  BY <1>0, <1>1, <1>2, <1>3 DEF Differ
<1>5. Worth(c, {s}) - Worth(b, {s}) = - s.amount
  <2> DEFINE m == s.amount
             n == b[s]
  <2>1. m \in Int /\ n \in Int /\ n > 0
    BY <1>0, <1>2 DEF AllSplits
  <2>2. Worth(b, {s}) = m * n
    BY <1>0, WorthOne
  <2>3. Worth(c, {s}) = m * (n - 1)
    <3>1. CASE n = 1
      <4>1. s \notin DOMAIN c
        BY <1>1, <3>1
      <4>2. Worth(c, {s}) = 0
        BY <1>0, <1>3, <4>1, WorthOne
      <4> HIDE DEF m, n
      <4>3. QED
        BY <2>1, <3>1, <4>2
    <3>2. CASE n # 1
      <4>1. s \in DOMAIN c /\ c[s] = n - 1
        BY <1>1, <3>2
      <4>2. QED
        BY <1>0, <1>3, <4>1, WorthOne
    <3>3. QED
      BY <3>1, <3>2
  <2> HIDE DEF m, n
  <2>4. Worth(c, {s}) - Worth(b, {s}) = - m
    BY <2>1, <2>2, <2>3
  <2>5. QED
    BY <2>4 DEF m
<1>6. \A C \in SUBSET AllSplits : Worth(c, C) = Worth(b, C) - IF s \in C THEN s.amount ELSE 0
  <2> SUFFICES ASSUME NEW C \in SUBSET AllSplits
               PROVE  Worth(c, C) = Worth(b, C) - IF s \in C THEN s.amount ELSE 0
    OBVIOUS
  <2>1. Worth(b, C) \in Int /\ s.amount \in Int
    BY <1>0, WorthType DEF AllSplits
  <2>2. Worth(c, C) = Worth(b, C) + IF s \in C THEN - s.amount ELSE 0
    BY <1>4, <1>5, WorthDiffer
  <2>3. QED
    BY <2>1, <2>2
<1>7. QED
  BY <1>3, <1>6 DEF c

-----------------------------------------------------------------------------
(* Merging.                                                                *)

\* The splits of one transaction in one lot.
Cell(p) == {s \in AllSplits : s.txn = p[1] /\ s.lot = p[2]}
PlaceOf(s) == <<s.txn, s.lot>>

\* A class that has all splits of a transaction in a lot, or none.
ByPlace(C) ==
    C \subseteq AllSplits /\ \A s, u \in AllSplits : PlaceOf(s) = PlaceOf(u) => (s \in C <=> u \in C)

LEMMA WorthByPlace ==
    ASSUME NEW b, SplitBag(b), NEW C, ByPlace(C),
           NEW K, IsFiniteSet(K), \A s \in Part(b, C) : PlaceOf(s) \in K,
           \A p \in K : \E s \in C : PlaceOf(s) = p
    PROVE  Worth(b, C) = SumOver([p \in K |-> Worth(b, Cell(p))])
<1> DEFINE D == Part(b, C)
           f == Worths(b, C)
           k == [s \in D |-> PlaceOf(s)]
<1>1. IsFiniteSet(D) /\ f \in [D -> Int]
  BY WorthsType
<1>2. k \in [D -> K]
  OBVIOUS
<1>3. ASSUME NEW p \in K PROVE Class(f, k, p) = Worths(b, Cell(p))
  <2>1. {s \in D : k[s] = p} = Part(b, Cell(p))
    <3>1. PICK r \in C : PlaceOf(r) = p
      OBVIOUS
    <3>2. ASSUME NEW s \in Part(b, Cell(p)) PROVE s \in D /\ k[s] = p
      <4>1. s \in DOMAIN b /\ s \in AllSplits /\ s.txn = p[1] /\ s.lot = p[2]
        BY DEF Part, Cell
      <4>2. PlaceOf(s) = p /\ r \in AllSplits
        BY <3>1, <4>1 DEF PlaceOf, ByPlace
      <4>3. s \in C
        BY <3>1, <4>1, <4>2 DEF ByPlace
      <4>4. QED
        BY <4>1, <4>2, <4>3 DEF Part
    <3>3. ASSUME NEW s \in D, k[s] = p PROVE s \in Part(b, Cell(p))
      BY <3>3 DEF Part, Cell, PlaceOf, SplitBag
    <3>4. QED
      BY <3>2, <3>3
  <2>2. DOMAIN f = D /\ \A s \in D : f[s] = s.amount * b[s]
    BY DEF Worths
  <2>3. Class(f, k, p) = [s \in {y \in D : k[y] = p} |-> s.amount * b[s]]
    BY <2>2 DEF Class
  <2>4. QED
    BY <2>1, <2>3 DEF Worths
<1> HIDE DEF D, f, k
<1>4. SumOver(f) = SumOver([p \in K |-> SumOver(Class(f, k, p))])
  BY <1>1, <1>2, SumByClass
<1>5. [p \in K |-> SumOver(Class(f, k, p))] = [p \in K |-> Worth(b, Cell(p))]
  BY <1>3 DEF Worth
<1>6. QED
  BY <1>4, <1>5 DEF f, Worth

LEMMA PlacesFinite ==
    ASSUME NEW S, IsFiniteSet(S)
    PROVE  IsFiniteSet({PlaceOf(s) : s \in S})
<1> DEFINE f == [s \in S |-> PlaceOf(s)]
           T == {PlaceOf(s) : s \in S}
<1>1. f \in [S -> T] /\ \A t \in T : \E s \in S : f[s] = t
  OBVIOUS
<1> HIDE DEF f, T
<1>2. f \in Surjection(S, T)
  BY <1>1 DEF Surjection
<1>3. IsFiniteSet(T)
  BY <1>2, FS_Surjection
<1>4. QED
  BY <1>3 DEF T

\* Bags that are worth the same in every place are so in every class of places.
SamePlaces(b, c) == \A p \in Txn \X Lot : Worth(b, Cell(p)) = Worth(c, Cell(p))

LEMMA WorthOfPlaces ==
    ASSUME NEW b, NEW c, SplitBag(b), SplitBag(c), SamePlaces(b, c), NEW C, ByPlace(C)
    PROVE  Worth(b, C) = Worth(c, C)
<1> DEFINE K == {PlaceOf(s) : s \in Part(b, C) \cup Part(c, C)}
<1>1. IsFiniteSet(K)
  <2>1. IsFiniteSet(Part(b, C) \cup Part(c, C))
    BY WorthsType, FS_Union
  <2>2. QED
    BY <2>1, PlacesFinite
<1>2. /\ \A s \in Part(b, C) : PlaceOf(s) \in K
      /\ \A s \in Part(c, C) : PlaceOf(s) \in K
      /\ \A p \in K : \E s \in C : PlaceOf(s) = p
  BY DEF Part
<1>7. K \subseteq Txn \X Lot
  BY DEF Part, PlaceOf, SplitBag, AllSplits
<1> HIDE DEF K
<1>3. Worth(b, C) = SumOver([p \in K |-> Worth(b, Cell(p))])
  BY <1>1, <1>2, WorthByPlace
<1>4. Worth(c, C) = SumOver([p \in K |-> Worth(c, Cell(p))])
  BY <1>1, <1>2, WorthByPlace
<1>5. [p \in K |-> Worth(b, Cell(p))] = [p \in K |-> Worth(c, Cell(p))]
  BY <1>7 DEF SamePlaces
<1>6. QED
  BY <1>3, <1>4, <1>5

\* The splits that Merged puts together, and what it puts in their place.
Merges(s, lots) == s.lot \in lots /\ s.txn \notin Doc
Places(b, lots) == {PlaceOf(s) : s \in {u \in DOMAIN b : Merges(u, lots)}}
MergedSplit(b, p) == SplitRec(p[1], p[2], Worth(b, Cell(p)))
Stays(b, lots) == [s \in {u \in DOMAIN b : ~ Merges(u, lots)} |-> b[s]]
MergedSplits(b, lots) == SetToBag({MergedSplit(b, p) : p \in Places(b, lots)})

LEMMA MergedSum ==
    ASSUME NEW b, SplitBag(b), NEW p
    PROVE  SumOf(b, LAMBDA s : s.txn = p[1] /\ s.lot = p[2]) = Worth(b, Cell(p))
<1>1. {s \in DOMAIN b : s.txn = p[1] /\ s.lot = p[2]} = Part(b, Cell(p))
  BY DEF Part, Cell, SplitBag
<1>2. QED
  BY <1>1 DEF SumOf, Of, BagToSet, Worth, Worths

LEMMA MergedIs ==
    ASSUME NEW b, SplitBag(b), NEW lots
    PROVE  Merged(b, lots) = Stays(b, lots) (+) MergedSplits(b, lots)
<1> DEFINE sum(p) == SumOf(b, LAMBDA s : s.txn = p[1] /\ s.lot = p[2])
           places == {<<s.txn, s.lot>> : s \in {u \in DOMAIN b : u.lot \in lots /\ u.txn \notin Doc}}
<1>1. Merged(b, lots) = [s \in {u \in DOMAIN b : ~ (u.lot \in lots /\ u.txn \notin Doc)} |-> b[s]]
                        (+) SetToBag({SplitRec(p[1], p[2], sum(p)) : p \in places})
  BY DEF Merged, Of, BagToSet
<1>2. places = Places(b, lots)
  BY DEF Places, PlaceOf, Merges
<1>3. \A p : SplitRec(p[1], p[2], sum(p)) = MergedSplit(b, p)
  BY MergedSum DEF MergedSplit
<1> HIDE DEF sum, places
<1>4. {SplitRec(p[1], p[2], sum(p)) : p \in places} = {MergedSplit(b, p) : p \in Places(b, lots)}
  BY <1>2, <1>3
<1>5. [s \in {u \in DOMAIN b : ~ (u.lot \in lots /\ u.txn \notin Doc)} |-> b[s]] = Stays(b, lots)
  BY DEF Stays, Merges
<1>6. QED
  BY <1>1, <1>4, <1>5 DEF MergedSplits

LEMMA MergedTypes ==
    ASSUME NEW b, SplitBag(b), NEW lots
    PROVE  /\ IsFiniteSet(Places(b, lots))
           /\ \A p \in Places(b, lots) : /\ MergedSplit(b, p) \in AllSplits
                                         /\ PlaceOf(MergedSplit(b, p)) = p
                                         /\ Merges(MergedSplit(b, p), lots)
           /\ \A s \in DOMAIN b : Merges(s, lots) => PlaceOf(s) \in Places(b, lots)
           /\ IsFiniteSet({MergedSplit(b, p) : p \in Places(b, lots)})
<1>1. IsFiniteSet(Places(b, lots))
  <2>1. IsFiniteSet({u \in DOMAIN b : Merges(u, lots)})
    BY FS_Subset DEF SplitBag
  <2>2. QED
    BY <2>1, PlacesFinite DEF Places
<1>2. ASSUME NEW p \in Places(b, lots)
      PROVE  /\ MergedSplit(b, p) \in AllSplits
             /\ PlaceOf(MergedSplit(b, p)) = p
             /\ Merges(MergedSplit(b, p), lots)
  <2>1. PICK s \in DOMAIN b : Merges(s, lots) /\ p = PlaceOf(s)
    BY DEF Places
  <2>2. s.txn \in Txn /\ s.lot \in Lot /\ p[1] = s.txn /\ p[2] = s.lot
    BY <2>1 DEF SplitBag, AllSplits, PlaceOf
  <2>3. Worth(b, Cell(p)) \in Int
    BY WorthType
  <2>4. QED
    BY <2>1, <2>2, <2>3 DEF MergedSplit, SplitRec, AllSplits, PlaceOf, Merges
<1>3. \A s \in DOMAIN b : Merges(s, lots) => PlaceOf(s) \in Places(b, lots)
  BY DEF Places
<1>4. IsFiniteSet({MergedSplit(b, p) : p \in Places(b, lots)})
  <2> DEFINE P == Places(b, lots)
             T == {MergedSplit(b, p) : p \in P}
             f == [p \in P |-> MergedSplit(b, p)]
  <2>1. f \in [P -> T] /\ \A t \in T : \E p \in P : f[p] = t
    OBVIOUS
  <2> HIDE DEF P, T, f
  <2>2. f \in Surjection(P, T)
    BY <2>1 DEF Surjection
  <2>3. IsFiniteSet(T)
    BY <1>1, <2>2, FS_Surjection DEF P
  <2>4. QED
    BY <2>3 DEF T, P
<1>5. QED
  BY <1>1, <1>2, <1>3, <1>4

\* m is b with the splits of the lots merged.
MergeOf(m, b, lots) ==
    /\ SplitBag(m)
    /\ \A s \in AllSplits : ~ Merges(s, lots) =>
         (s \in DOMAIN m <=> s \in DOMAIN b) /\ (s \in DOMAIN m => m[s] = b[s])
    /\ \A s \in DOMAIN m : Merges(s, lots) =>
         m[s] = 1 /\ PlaceOf(s) \in Places(b, lots) /\ s = MergedSplit(b, PlaceOf(s))
    /\ \A p \in Places(b, lots) : MergedSplit(b, p) \in DOMAIN m

LEMMA MergedIsMerge ==
    ASSUME NEW b, SplitBag(b), NEW lots
    PROVE  MergeOf(Merged(b, lots), b, lots)
<1> DEFINE c == Stays(b, lots)
           d == MergedSplits(b, lots)
           m == c (+) d
<1>1. DOMAIN c = {u \in DOMAIN b : ~ Merges(u, lots)} /\ \A u \in DOMAIN c : c[u] = b[u]
  BY DEF Stays
<1>2. DOMAIN d = {MergedSplit(b, p) : p \in Places(b, lots)} /\ \A u \in DOMAIN d : d[u] = 1
  BY DEF MergedSplits, SetToBag
<1>3. /\ DOMAIN m = DOMAIN c \cup DOMAIN d
      /\ \A s \in DOMAIN c \cup DOMAIN d : m[s] = (IF s \in DOMAIN c THEN c[s] ELSE 0)
                                                  + (IF s \in DOMAIN d THEN d[s] ELSE 0)
  <2> HIDE DEF c, d
  <2>1. QED
    BY PlusIs
<1>4. m = [u \in DOMAIN m |-> m[u]]
  BY DEF (+)
<1>5. Merged(b, lots) = m
  BY MergedIs
<1> HIDE DEF c, d, m
<1>6. \A u \in DOMAIN b : b[u] \in Nat /\ b[u] > 0 /\ u \in AllSplits
  BY DEF SplitBag
<1>7. \A s \in DOMAIN d : Merges(s, lots) /\ s \in AllSplits /\ PlaceOf(s) \in Places(b, lots)
                          /\ s = MergedSplit(b, PlaceOf(s))
  BY <1>2, MergedTypes
<1>8. \A s : Merges(s, lots) => s \notin DOMAIN c
  BY <1>1
<1>9. \A s \in DOMAIN c : s \notin DOMAIN d /\ m[s] = b[s] /\ s \in DOMAIN b
  BY <1>1, <1>3, <1>6, <1>7
<1>10. \A s \in DOMAIN d : m[s] = 1
  BY <1>2, <1>3, <1>7, <1>8
<1>11. SplitBag(m)
  <2>1. IsFiniteSet(DOMAIN c) /\ IsFiniteSet(DOMAIN d)
    <3>1. IsFiniteSet(DOMAIN b) /\ DOMAIN c \subseteq DOMAIN b
      BY <1>1 DEF SplitBag
    <3>2. IsFiniteSet(DOMAIN d)
      BY <1>2, MergedTypes
    <3>3. QED
      BY <3>1, <3>2, FS_Subset
  <2>2. IsFiniteSet(DOMAIN m)
    BY <1>3, <2>1, FS_Union
  <2>5. DOMAIN m \subseteq AllSplits
    BY <1>3, <1>6, <1>7, <1>9
  <2>3. \A u \in DOMAIN m : m[u] \in {n \in Nat : n > 0}
    BY <1>3, <1>6, <1>9, <1>10
  <2>4. QED
    BY <1>4, <2>2, <2>3, <2>5 DEF SplitBag
<1>12. \A s \in AllSplits : ~ Merges(s, lots) =>
         (s \in DOMAIN m <=> s \in DOMAIN b) /\ (s \in DOMAIN m => m[s] = b[s])
  BY <1>1, <1>3, <1>7, <1>9
<1>13. \A s \in DOMAIN m : Merges(s, lots) =>
         m[s] = 1 /\ PlaceOf(s) \in Places(b, lots) /\ s = MergedSplit(b, PlaceOf(s))
  BY <1>3, <1>7, <1>8, <1>10
<1>14. \A p \in Places(b, lots) : MergedSplit(b, p) \in DOMAIN m
  BY <1>2, <1>3
<1>15. QED
  BY <1>5, <1>11, <1>12, <1>13, <1>14 DEF MergeOf

\* Merging keeps what a lot, or a transaction, or a place is worth.
LEMMA MergedWorth ==
    ASSUME NEW b, SplitBag(b), NEW lots, NEW m, MergeOf(m, b, lots), NEW C, ByPlace(C)
    PROVE  Worth(m, C) = Worth(b, C)
<1> USE DEF MergeOf
<1>1. ASSUME NEW p \in Txn \X Lot PROVE Worth(m, Cell(p)) = Worth(b, Cell(p))
  <2>1. \A s \in Cell(p) : s \in AllSplits /\ s.txn = p[1] /\ s.lot = p[2]
    BY DEF Cell
  <2>2. CASE p \in Places(b, lots)
    <3> DEFINE s == MergedSplit(b, p)
    <3>1. s \in AllSplits /\ PlaceOf(s) = p /\ Merges(s, lots) /\ s \in DOMAIN m
      BY <2>2, MergedTypes
    <3>2. m[s] = 1 /\ s.amount = Worth(b, Cell(p)) /\ s \in Cell(p)
      BY <3>1 DEF MergedSplit, SplitRec, Cell, PlaceOf
    <3>3. \A u \in DOMAIN m : u \in Cell(p) => u = s
      <4> SUFFICES ASSUME NEW u \in DOMAIN m, u \in Cell(p) PROVE u = s
        OBVIOUS
      <4>1. Merges(u, lots)
        BY <2>1, <3>1, <3>2 DEF Merges
      <4>2. PlaceOf(u) = PlaceOf(s)
        BY <2>1, <3>2 DEF PlaceOf
      <4>3. QED
        BY <3>1, <4>1, <4>2
    <3> HIDE DEF s
    <3>4. SameOn(m, m, Cell(p)) /\ Part(m, Cell(p)) = Part(m, {s})
      BY <3>2, <3>3 DEF SameOn, Part
    <3>5. Worth(m, Cell(p)) = Worth(m, {s})
      BY <3>4 DEF Worth, Worths
    <3>6. Worth(m, {s}) = s.amount * m[s]
      BY <3>1, WorthOne
    <3>7. Worth(b, Cell(p)) \in Int
      BY WorthType
    <3>8. QED
      BY <3>2, <3>5, <3>6, <3>7
  <2>3. CASE p \notin Places(b, lots) /\ \E s \in Cell(p) : Merges(s, lots)
    <3>1. \A s \in Cell(p) : Merges(s, lots) /\ PlaceOf(s) \notin Places(b, lots)
      <4>1. PICK r \in Cell(p) : Merges(r, lots)
        BY <2>3
      <4>2. \A s \in Cell(p) : Merges(s, lots)
        BY <2>1, <4>1 DEF Merges
      <4>3. \A s \in Cell(p) : PlaceOf(s) = p
        BY <2>1 DEF PlaceOf
      <4>4. QED
        BY <2>3, <4>2, <4>3
    <3>2. \A s \in Cell(p) : s \notin DOMAIN m /\ s \notin DOMAIN b
      BY <3>1, MergedTypes
    <3>3. SameOn(m, b, Cell(p))
      BY <3>2 DEF SameOn
    <3>4. QED
      BY <3>3, WorthSame
  <2>4. CASE \A s \in Cell(p) : ~ Merges(s, lots)
    <3>1. SameOn(m, b, Cell(p))
      BY <2>1, <2>4 DEF SameOn
    <3>2. QED
      BY <3>1, WorthSame
  <2>5. QED
    BY <2>2, <2>3, <2>4
<1>2. SamePlaces(m, b)
  BY <1>1 DEF SamePlaces
<1>3. QED
  BY <1>2, WorthOfPlaces

-----------------------------------------------------------------------------
(* The invariant, of a bag b of splits, attachments v of lots to documents,
   payments pd, and splits pend of lot u that are still to be looked at.    *)

OfT(t) == {s \in AllSplits : s.txn = t}
InL(l) == {s \in AllSplits : s.lot = l}

LEMMA TxnsAndLots == \A t : ByPlace(OfT(t)) /\ ByPlace(InL(t)) /\ OfT(t) \subseteq AllSplits
                                            /\ InL(t) \subseteq AllSplits
<1>1. \A s, u \in AllSplits : PlaceOf(s) = PlaceOf(u) => s.txn = u.txn /\ s.lot = u.lot
  BY DEF PlaceOf
<1>2. QED
  BY <1>1 DEF OfT, InL, ByPlace

LEMMA SumOfTxn ==
    ASSUME NEW b, SplitBag(b), NEW t
    PROVE  SumOf(b, LAMBDA s : s.txn = t) = Worth(b, OfT(t))
<1>1. {s \in DOMAIN b : s.txn = t} = Part(b, OfT(t))
  BY DEF Part, OfT, SplitBag
<1>2. QED
  BY <1>1 DEF SumOf, Of, BagToSet, Worth, Worths

LEMMA SumOfLot ==
    ASSUME NEW b, SplitBag(b), NEW l
    PROVE  SumOf(b, LAMBDA s : s.lot = l) = Worth(b, InL(l))
<1>1. {s \in DOMAIN b : s.lot = l} = Part(b, InL(l))
  BY DEF Part, InL, SplitBag
<1>2. QED
  BY <1>1 DEF SumOf, Of, BagToSet, Worth, Worths

\* A document has one split, of its total, in the one lot that is attached to it.
DocsIn(b, v) ==
    /\ \A s \in DOMAIN b : s.txn \in Doc =>
         v[s.lot] = s.txn /\ s.amount = Total[s.txn] /\ b[s] = 1
    /\ \A l \in Lot : v[l] # None => SplitRec(v[l], l, Total[v[l]]) \in DOMAIN b
    /\ \A l, m \in Lot : v[l] # None /\ v[l] = v[m] => l = m

\* A link has one split in a lot, and that is a document's, or was until now.
LinksIn(b, v, u) ==
    \A s \in DOMAIN b : s.txn \in Link =>
      /\ b[s] = 1
      /\ v[s.lot] # None \/ s.lot = u
      /\ \A r \in DOMAIN b : PlaceOf(r) = PlaceOf(s) => r = s

PaymentSums(b, pd) == \A p \in Payment : Worth(b, OfT(p)) = - pd[p]
LinkSums(b) == \A t \in Link : Worth(b, OfT(t)) = 0

\* The links in the lot of the document that is taken back are still to be destroyed.
LinksLeft(b, pend, u) ==
    /\ IsABag(pend)
    /\ u = None => DOMAIN pend = {}
    /\ \A s \in DOMAIN pend : s \in DOMAIN b /\ s.txn \in Link /\ s.lot = u /\ pend[s] = 1
    /\ \A s \in DOMAIN b : s.txn \in Link /\ s.lot = u => s \in DOMAIN pend

BagInv(b, v, pd, pend, u) ==
    /\ SplitBag(b) /\ v \in [Lot -> Doc \cup {None}] /\ u \in Lot \cup {None}
    /\ DocsIn(b, v)
    /\ LinksIn(b, v, u)
    /\ PaymentSums(b, pd)
    /\ LinkSums(b)
    /\ LinksLeft(b, pend, u)

-----------------------------------------------------------------------------
(* How it is kept.                                                         *)

NotPayments == {s \in AllSplits : s.txn \notin Payment}

\* When only splits of payments differ, only the sums of payments matter.
LEMMA PaymentsOnly ==
    ASSUME NEW b, NEW v, NEW pd, NEW pend, NEW u, BagInv(b, v, pd, pend, u),
           NEW c, SplitBag(c), SameOn(b, c, NotPayments), NEW qd, PaymentSums(c, qd)
    PROVE  BagInv(c, v, qd, pend, u)
<1> USE DEF BagInv, SplitBag
<1>1. \A s : s \in AllSplits /\ s.txn \notin Payment =>
               (s \in DOMAIN b <=> s \in DOMAIN c) /\ (s \in DOMAIN b => b[s] = c[s])
  BY DEF SameOn, NotPayments
<1>2. \A t \in Doc \cup Link : t \notin Payment
  BY InvoiceLotsAssumption
<1>3. DocsIn(c, v)
  <2>1. ASSUME NEW l \in Lot, v[l] # None PROVE SplitRec(v[l], l, Total[v[l]]) \in DOMAIN c
    <3>1. SplitRec(v[l], l, Total[v[l]]) \in DOMAIN b
      BY <2>1 DEF DocsIn
    <3>2. SplitRec(v[l], l, Total[v[l]]).txn = v[l] /\ v[l] \in Doc
      BY <2>1 DEF SplitRec
    <3>3. QED
      BY <1>1, <1>2, <3>1, <3>2
  <2>2. QED
    BY <1>1, <1>2, <2>1 DEF DocsIn
<1>4. LinksIn(c, v, u)
  <2>1. \A r, s : PlaceOf(r) = PlaceOf(s) => r.txn = s.txn
    BY DEF PlaceOf
  <2>2. QED
    BY <1>1, <1>2, <2>1 DEF LinksIn
<1>5. LinkSums(c)
  <2> SUFFICES ASSUME NEW t \in Link PROVE Worth(c, OfT(t)) = 0
    BY DEF LinkSums
  <2>1. SameOn(b, c, OfT(t))
    BY <1>1, <1>2 DEF SameOn, OfT
  <2>2. QED
    BY <2>1, WorthSame DEF LinkSums
<1>6. LinksLeft(c, pend, u)
  BY <1>1, <1>2 DEF LinksLeft
<1>7. QED
  BY <1>3, <1>4, <1>5, <1>6

\* A payment is entered.
LEMMA PayBag ==
    ASSUME NEW b, NEW v, NEW pd, NEW pend, NEW u, BagInv(b, v, pd, pend, u),
           NEW p \in Payment, NEW l \in Lot, NEW a \in Int, pd[p] = 0,
           pd \in [Payment -> Int]
    PROVE  BagInv(b (+) One(SplitRec(p, l, - a)), v, [pd EXCEPT ![p] = a], pend, u)
<1> DEFINE s == SplitRec(p, l, - a)
           c == b (+) One(s)
           qd == [pd EXCEPT ![p] = a]
<1>1. SplitBag(b)
  BY DEF BagInv
<1>2. s \in AllSplits /\ s.txn = p /\ s.amount = - a
  BY DEF SplitRec, AllSplits, Txn
<1>3. /\ SplitBag(c)
      /\ \A C \in SUBSET AllSplits : Worth(c, C) = Worth(b, C) + IF s \in C THEN s.amount ELSE 0
  <2> HIDE DEF s
  <2>1. QED
    BY <1>1, <1>2, WorthAdd
<1>4. SameOn(b, c, NotPayments)
  <2>1. /\ DOMAIN c = DOMAIN b \cup DOMAIN One(s)
        /\ \A x \in DOMAIN b \cup DOMAIN One(s) :
             c[x] = (IF x \in DOMAIN b THEN b[x] ELSE 0)
                    + (IF x \in DOMAIN One(s) THEN One(s)[x] ELSE 0)
    BY PlusIs
  <2>2. \A x \in DOMAIN b : b[x] \in Nat
    BY <1>1 DEF SplitBag
  <2>3. DOMAIN One(s) = {s} /\ s \notin NotPayments
    BY <1>2, OneType DEF NotPayments
  <2> HIDE DEF s, c
  <2>4. QED
    BY <2>1, <2>2, <2>3 DEF SameOn
<1>5. PaymentSums(c, qd)
  <2> SUFFICES ASSUME NEW q \in Payment PROVE Worth(c, OfT(q)) = - qd[q]
    BY DEF PaymentSums
  <2>1. Worth(c, OfT(q)) = Worth(b, OfT(q)) + IF s \in OfT(q) THEN - a ELSE 0
    BY <1>2, <1>3, TxnsAndLots
  <2>2. s \in OfT(q) <=> q = p
    BY <1>2 DEF OfT
  <2>3. Worth(b, OfT(q)) = - pd[q]
    BY DEF BagInv, PaymentSums
  <2>4. pd[q] \in Int /\ qd[q] = IF q = p THEN a ELSE pd[q]
    OBVIOUS
  <2> HIDE DEF s, c, qd
  <2>5. QED
    BY <2>1, <2>2, <2>3, <2>4
<1>6. QED
  <2> HIDE DEF s, c, qd
  <2>1. BagInv(c, v, qd, pend, u)
    BY <1>3, <1>4, <1>5, PaymentsOnly
  <2>2. QED
    BY <2>1 DEF c, qd, s

\* Bags that have s, or lack it, but agree on the rest.
LEMMA AddOther ==
    ASSUME NEW b, SplitBag(b), NEW s \in AllSplits, NEW C, s \notin C
    PROVE  SameOn(b, b (+) One(s), C)
<1> DEFINE c == b (+) One(s)
<1>1. /\ DOMAIN c = DOMAIN b \cup DOMAIN One(s)
      /\ \A x \in DOMAIN b \cup DOMAIN One(s) :
           c[x] = (IF x \in DOMAIN b THEN b[x] ELSE 0)
                  + (IF x \in DOMAIN One(s) THEN One(s)[x] ELSE 0)
  BY PlusIs
<1>2. \A x \in DOMAIN b : b[x] \in Nat
  BY DEF SplitBag
<1>3. DOMAIN One(s) = {s}
  BY OneType
<1> HIDE DEF c
<1>4. SameOn(b, c, C)
  BY <1>1, <1>2, <1>3 DEF SameOn
<1>5. QED
  BY <1>4 DEF c

LEMMA TakeOther ==
    ASSUME NEW b, SplitBag(b), NEW s \in DOMAIN b, NEW C, s \notin C
    PROVE  SameOn(b, b (-) One(s), C)
<1>1. /\ DOMAIN (b (-) One(s)) = IF b[s] = 1 THEN DOMAIN b \ {s} ELSE DOMAIN b
      /\ \A u \in DOMAIN (b (-) One(s)) : (b (-) One(s))[u] = IF u = s THEN b[s] - 1 ELSE b[u]
  BY MinusOneIs DEF SplitBag
<1>2. QED
  BY <1>1 DEF SameOn

LEMMA SameTwice ==
    ASSUME NEW b, NEW c, NEW d, NEW C, SameOn(b, c, C), SameOn(c, d, C)
    PROVE  SameOn(b, d, C)
BY DEF SameOn

LEMMA AddNothing ==
    ASSUME NEW b, SplitBag(b)
    PROVE  b (+) EmptyBag = b
<1>1. DOMAIN EmptyBag = {}
  BY DEF EmptyBag, SetToBag
<1>2. b (+) EmptyBag = [x \in DOMAIN b |-> b[x] + 0]
  BY <1>1 DEF (+)
<1>3. \A x \in DOMAIN b : b[x] + 0 = b[x]
  BY DEF SplitBag
<1>4. b = [x \in DOMAIN b |-> b[x]]
  BY DEF SplitBag
<1>5. QED
  BY <1>2, <1>3, <1>4

\* What gncOwnerOffsetLots makes of a split of amount a: x of it goes to lot m, what is
\* left, if the split was divided, stays.
Divided(b, s, whole, x, m) ==
    ((b (-) One(s)) (+) IF whole THEN EmptyBag ELSE One([s EXCEPT !.amount = s.amount - x]))
    (+) One(SplitRec(s.txn, m, x))

LEMMA DividedWorth ==
    ASSUME NEW b, SplitBag(b), NEW s \in DOMAIN b, NEW whole \in BOOLEAN, NEW x \in Int,
           NEW m \in Lot, whole => x = s.amount
    PROVE  LET c == Divided(b, s, whole, x, m)
           IN  /\ SplitBag(c)
               /\ \A C : s \notin C /\ SplitRec(s.txn, s.lot, s.amount - x) \notin C
                         /\ SplitRec(s.txn, m, x) \notin C => SameOn(b, c, C)
               /\ \A C \in SUBSET AllSplits :
                    Worth(c, C) = Worth(b, C) - (IF s \in C THEN s.amount ELSE 0)
                      + (IF SplitRec(s.txn, s.lot, s.amount - x) \in C THEN s.amount - x ELSE 0)
                      + (IF SplitRec(s.txn, m, x) \in C THEN x ELSE 0)
<1> DEFINE rest == SplitRec(s.txn, s.lot, s.amount - x)
           moved == SplitRec(s.txn, m, x)
           b1 == b (-) One(s)
           b2 == b1 (+) One(rest)
           c == Divided(b, s, whole, x, m)
<1>0. /\ s \in AllSplits /\ s.amount \in Int /\ s.txn \in Txn /\ s.lot \in Lot
      /\ s = SplitRec(s.txn, s.lot, s.amount)
      /\ [s EXCEPT !.amount = s.amount - x] = rest
  BY DEF SplitBag, AllSplits, SplitRec
<1>1. rest \in AllSplits /\ rest.amount = s.amount - x /\ moved \in AllSplits /\ moved.amount = x
  BY <1>0 DEF SplitRec, AllSplits
<1>2. c = (IF whole THEN b1 (+) EmptyBag ELSE b2) (+) One(moved)
  BY <1>0 DEF Divided
<1>3. /\ SplitBag(b1)
      /\ \A C \in SUBSET AllSplits : Worth(b1, C) = Worth(b, C) - IF s \in C THEN s.amount ELSE 0
  BY WorthTake
<1>4. b1 (+) EmptyBag = b1
  <2> HIDE DEF b1
  <2>1. QED
    BY <1>3, AddNothing
<1>5. /\ SplitBag(b2)
      /\ \A C \in SUBSET AllSplits :
           Worth(b2, C) = Worth(b1, C) + IF rest \in C THEN s.amount - x ELSE 0
  <2> HIDE DEF b1, rest
  <2>1. QED
    BY <1>1, <1>3, WorthAdd
<1> DEFINE d == IF whole THEN b1 ELSE b2
<1>6. c = d (+) One(moved)
  BY <1>2, <1>4
<1>7. SplitBag(d)
  BY <1>3, <1>5
<1>8. \A C \in SUBSET AllSplits :
        Worth(d, C) = Worth(b, C) - (IF s \in C THEN s.amount ELSE 0)
                      + (IF rest \in C THEN s.amount - x ELSE 0)
  <2> SUFFICES ASSUME NEW C \in SUBSET AllSplits
               PROVE  Worth(d, C) = Worth(b, C) - (IF s \in C THEN s.amount ELSE 0)
                                    + (IF rest \in C THEN s.amount - x ELSE 0)
    OBVIOUS
  <2>1. Worth(b, C) \in Int
    BY WorthType
  <2>2. Worth(b1, C) = Worth(b, C) - IF s \in C THEN s.amount ELSE 0
    BY <1>3
  <2>3. Worth(b2, C) = Worth(b1, C) + IF rest \in C THEN s.amount - x ELSE 0
    BY <1>5
  <2> HIDE DEF b1, b2, rest
  <2>4. QED
    BY <1>0, <2>1, <2>2, <2>3
<1>9. \A C : s \notin C /\ rest \notin C => SameOn(b, d, C)
  <2> SUFFICES ASSUME NEW C, s \notin C, rest \notin C PROVE SameOn(b, d, C)
    OBVIOUS
  <2>1. SameOn(b, b1, C)
    BY TakeOther
  <2>2. SameOn(b1, b2, C)
    <3> HIDE DEF b1, rest
    <3>1. QED
      BY <1>1, <1>3, AddOther
  <2> HIDE DEF b1, b2
  <2>3. QED
    BY <2>1, <2>2, SameTwice
<1> HIDE DEF d, b1, b2, c
<1>10. /\ SplitBag(d (+) One(moved))
       /\ \A C \in SUBSET AllSplits :
            Worth(d (+) One(moved), C) = Worth(d, C) + IF moved \in C THEN x ELSE 0
  <2> HIDE DEF moved
  <2>1. QED
    BY <1>1, <1>7, WorthAdd
<1>11. \A C : s \notin C /\ rest \notin C /\ moved \notin C => SameOn(b, c, C)
  <2> SUFFICES ASSUME NEW C, s \notin C, rest \notin C, moved \notin C PROVE SameOn(b, c, C)
    OBVIOUS
  <2>1. SameOn(b, d, C)
    BY <1>9
  <2>2. SameOn(d, c, C)
    <3> HIDE DEF moved
    <3>1. QED
      BY <1>1, <1>6, <1>7, AddOther
  <2>3. QED
    BY <2>1, <2>2, SameTwice
<1>12. \A C \in SUBSET AllSplits :
         Worth(c, C) = Worth(b, C) - (IF s \in C THEN s.amount ELSE 0)
                       + (IF rest \in C THEN s.amount - x ELSE 0)
                       + (IF moved \in C THEN x ELSE 0)
  <2> HIDE DEF moved, rest
  <2>1. QED
    BY <1>6, <1>8, <1>10
<1>13. SplitBag(c)
  BY <1>6, <1>10
<1>14. QED
  BY <1>11, <1>12, <1>13 DEF c

\* A split in a lot that is not a document's nor being taken back is divided and moved.
LEMMA OffsetBag ==
    ASSUME NEW b, NEW v, NEW pd, NEW pend, NEW u, BagInv(b, v, pd, pend, u),
           NEW s \in DOMAIN b, v[s.lot] = None, s.lot # u,
           NEW whole \in BOOLEAN, NEW x \in Int, NEW m \in Lot, whole => x = s.amount
    PROVE  s.txn \in Payment /\ BagInv(Divided(b, s, whole, x, m), v, pd, pend, u)
<1> DEFINE rest == SplitRec(s.txn, s.lot, s.amount - x)
           moved == SplitRec(s.txn, m, x)
           c == Divided(b, s, whole, x, m)
<1>1. s \in AllSplits /\ SplitBag(b) /\ s.amount \in Int
  BY DEF BagInv, SplitBag, AllSplits
<1>2. s.txn \in Payment
  <2>1. s.txn \notin Doc
    BY InvoiceLotsAssumption DEF BagInv, DocsIn
  <2>2. s.txn \notin Link
    BY DEF BagInv, LinksIn
  <2>3. QED
    BY <1>1, <2>1, <2>2 DEF AllSplits, Txn
<1>3. rest.txn = s.txn /\ moved.txn = s.txn /\ rest \in AllSplits /\ moved \in AllSplits
  BY <1>1 DEF SplitRec, AllSplits
<1>4. /\ SplitBag(c)
      /\ \A C : s \notin C /\ rest \notin C /\ moved \notin C => SameOn(b, c, C)
      /\ \A C \in SUBSET AllSplits :
           Worth(c, C) = Worth(b, C) - (IF s \in C THEN s.amount ELSE 0)
             + (IF rest \in C THEN s.amount - x ELSE 0) + (IF moved \in C THEN x ELSE 0)
  BY <1>1, DividedWorth
<1> HIDE DEF c, rest, moved
<1>5. SameOn(b, c, NotPayments)
  BY <1>2, <1>3, <1>4 DEF NotPayments
<1>6. PaymentSums(c, pd)
  <2> SUFFICES ASSUME NEW p \in Payment PROVE Worth(c, OfT(p)) = Worth(b, OfT(p))
    BY DEF PaymentSums, BagInv
  <2>1. Worth(b, OfT(p)) \in Int
    BY <1>1, WorthType
  <2>2. /\ s \in OfT(p) <=> s.txn = p
        /\ rest \in OfT(p) <=> s.txn = p
        /\ moved \in OfT(p) <=> s.txn = p
    BY <1>1, <1>3 DEF OfT
  <2>3. Worth(c, OfT(p)) = Worth(b, OfT(p)) - (IF s \in OfT(p) THEN s.amount ELSE 0)
             + (IF rest \in OfT(p) THEN s.amount - x ELSE 0) + (IF moved \in OfT(p) THEN x ELSE 0)
    BY <1>4, TxnsAndLots
  <2>4. QED
    BY <1>1, <2>1, <2>2, <2>3
<1>7. BagInv(c, v, pd, pend, u)
  BY <1>4, <1>5, <1>6, PaymentsOnly
<1>8. QED
  BY <1>2, <1>7 DEF c

\* The bag without the splits of transaction t.
Less(b, t) == [s \in {u \in DOMAIN b : u.txn # t} |-> b[s]]

LEMMA LessIs ==
    ASSUME NEW b, SplitBag(b), NEW t
    PROVE  /\ SplitBag(Less(b, t))
           /\ \A s : s \in DOMAIN Less(b, t) <=> s \in DOMAIN b /\ s.txn # t
           /\ \A s \in DOMAIN Less(b, t) : Less(b, t)[s] = b[s]
           /\ \A r : r # t => Worth(Less(b, t), OfT(r)) = Worth(b, OfT(r))
           /\ Worth(Less(b, t), OfT(t)) = 0
<1> DEFINE c == Less(b, t)
<1>1. /\ DOMAIN c = {u \in DOMAIN b : u.txn # t} /\ \A s \in DOMAIN c : c[s] = b[s]
      /\ c = [s \in DOMAIN c |-> c[s]]
  BY DEF Less
<1> HIDE DEF c
<1>2. SplitBag(c)
  <2>1. DOMAIN c \subseteq DOMAIN b
    BY <1>1
  <2>2. IsFiniteSet(DOMAIN c)
    BY <2>1, FS_Subset DEF SplitBag
  <2>3. \A s \in DOMAIN c : c[s] \in {n \in Nat : n > 0}
    BY <1>1, <2>1 DEF SplitBag
  <2>4. QED
    BY <1>1, <2>1, <2>2, <2>3 DEF SplitBag
<1>3. ASSUME NEW r, r # t PROVE Worth(c, OfT(r)) = Worth(b, OfT(r))
  <2>1. SameOn(b, c, OfT(r))
    BY <1>1, <1>3 DEF SameOn, OfT
  <2>2. QED
    BY <2>1, WorthSame
<1>4. Worth(c, OfT(t)) = 0
  <2>1. \A s \in DOMAIN c : s \notin OfT(t)
    BY <1>1 DEF OfT
  <2>2. QED
    BY <1>2, <2>1, WorthNone
<1>5. QED
  BY <1>1, <1>2, <1>3, <1>4 DEF c

\* A payment or a link is deleted; pend is what is left of the links to look at.
LEMMA DeleteBag ==
    ASSUME NEW b, NEW v, NEW pd, NEW pend, NEW u, BagInv(b, v, pd, pend, u),
           NEW t \in Payment \cup Link, NEW rest, LinksLeft(Less(b, t), rest, u),
           pd \in [Payment -> Int]
    PROVE  BagInv(Less(b, t), v, [p \in Payment |-> IF p = t THEN 0 ELSE pd[p]], rest, u)
<1> DEFINE c == Less(b, t)
           qd == [p \in Payment |-> IF p = t THEN 0 ELSE pd[p]]
<1>1. SplitBag(b) /\ v \in [Lot -> Doc \cup {None}]
  BY DEF BagInv
<1>2. /\ SplitBag(c)
      /\ \A s : s \in DOMAIN c <=> s \in DOMAIN b /\ s.txn # t
      /\ \A s \in DOMAIN c : c[s] = b[s]
      /\ \A r : r # t => Worth(c, OfT(r)) = Worth(b, OfT(r))
      /\ Worth(c, OfT(t)) = 0
  BY <1>1, LessIs
<1> HIDE DEF c
<1>3. DocsIn(c, v)
  <2>1. ASSUME NEW l \in Lot, v[l] # None PROVE SplitRec(v[l], l, Total[v[l]]) \in DOMAIN c
    <3>1. SplitRec(v[l], l, Total[v[l]]) \in DOMAIN b
      BY <2>1 DEF BagInv, DocsIn
    <3>2. SplitRec(v[l], l, Total[v[l]]).txn = v[l] /\ v[l] \in Doc /\ v[l] # t
      BY <1>1, <2>1, InvoiceLotsAssumption DEF SplitRec
    <3>3. QED
      BY <1>2, <3>1, <3>2
  <2>2. QED
    BY <1>2, <2>1 DEF BagInv, DocsIn
<1>4. LinksIn(c, v, u)
  BY <1>2 DEF BagInv, LinksIn
<1>5. PaymentSums(c, qd)
  BY <1>2 DEF BagInv, PaymentSums
<1>6. LinkSums(c)
  BY <1>2 DEF BagInv, LinkSums
<1>7. QED
  BY <1>1, <1>2, <1>3, <1>4, <1>5, <1>6 DEF BagInv, c

\* A document is taken back: its links are all to be looked at.
LEMMA UnpostBag ==
    ASSUME NEW b, NEW v, NEW pd, NEW pend, BagInv(b, v, pd, pend, None),
           NEW l \in Lot, NEW d \in Doc, v[l] = d
    PROVE  BagInv(Less(b, d), [v EXCEPT ![l] = None], pd,
                  [s \in {x \in DOMAIN b : x.lot = l /\ x.txn \in Link} |-> b[s]], l)
<1> DEFINE c == Less(b, d)
           w == [v EXCEPT ![l] = None]
           rest == [s \in {x \in DOMAIN b : x.lot = l /\ x.txn \in Link} |-> b[s]]
<1>1. /\ SplitBag(b) /\ v \in [Lot -> Doc \cup {None}] /\ None \notin Doc /\ None \notin Lot
      /\ \A s \in DOMAIN b : s.lot \in Lot
  BY InvoiceLotsAssumption DEF BagInv, Lot, SplitBag, AllSplits
<1>2. /\ SplitBag(c)
      /\ \A s : s \in DOMAIN c <=> s \in DOMAIN b /\ s.txn # d
      /\ \A s \in DOMAIN c : c[s] = b[s]
      /\ \A r : r # d => Worth(c, OfT(r)) = Worth(b, OfT(r))
  BY <1>1, LessIs
<1>3. w \in [Lot -> Doc \cup {None}] /\ \A m \in Lot : w[m] = IF m = l THEN None ELSE v[m]
  BY <1>1
<1>4. \A m \in Lot : v[m] = d => m = l
  BY <1>1 DEF BagInv, DocsIn
<1> HIDE DEF c, w
<1>5. DocsIn(c, w)
  <2>1. ASSUME NEW m \in Lot, w[m] # None PROVE SplitRec(w[m], m, Total[w[m]]) \in DOMAIN c
    <3>1. w[m] = v[m] /\ SplitRec(v[m], m, Total[v[m]]) \in DOMAIN b /\ v[m] # d
      BY <1>3, <1>4, <2>1 DEF BagInv, DocsIn
    <3>2. SplitRec(v[m], m, Total[v[m]]).txn = v[m]
      BY DEF SplitRec
    <3>3. QED
      BY <1>2, <3>1, <3>2
  <2>2. ASSUME NEW s \in DOMAIN c, s.txn \in Doc
        PROVE  w[s.lot] = s.txn /\ s.amount = Total[s.txn] /\ c[s] = 1
    <3>1. v[s.lot] = s.txn /\ s.amount = Total[s.txn] /\ b[s] = 1 /\ s.txn # d
      BY <1>2, <2>2 DEF BagInv, DocsIn
    <3>2. s.lot # l /\ s.lot \in Lot
      BY <1>1, <1>2, <3>1
    <3>3. QED
      BY <1>2, <1>3, <3>1, <3>2
  <2>3. \A k, m \in Lot : w[k] # None /\ w[k] = w[m] => k = m
    BY <1>3 DEF BagInv, DocsIn
  <2>4. QED
    BY <2>1, <2>2, <2>3 DEF DocsIn
<1>6. LinksIn(c, w, l)
  BY <1>1, <1>2, <1>3 DEF BagInv, LinksIn
<1>7. PaymentSums(c, pd) /\ LinkSums(c)
  BY <1>2, InvoiceLotsAssumption DEF BagInv, PaymentSums, LinkSums
<1>8. LinksLeft(c, rest, l)
  <2>1. DOMAIN rest = {x \in DOMAIN b : x.lot = l /\ x.txn \in Link}
        /\ \A s \in DOMAIN rest : rest[s] = b[s]
    OBVIOUS
  <2>2. \A s \in DOMAIN rest : rest[s] = 1
    BY <2>1 DEF BagInv, LinksIn
  <2>6. rest = [s \in DOMAIN rest |-> rest[s]]
    OBVIOUS
  <2> HIDE DEF rest
  <2>3. IsABag(rest)
    BY <2>2, <2>6 DEF IsABag
  <2>4. \A t \in Link : t # d
    BY InvoiceLotsAssumption
  <2>5. QED
    BY <1>1, <1>2, <2>1, <2>2, <2>3, <2>4 DEF LinksLeft
<1>9. QED
  BY <1>2, <1>3, <1>5, <1>6, <1>7, <1>8 DEF BagInv, c, w

\* A document is posted.
LEMMA PostBag ==
    ASSUME NEW b, NEW v, NEW pd, NEW pend, NEW u, BagInv(b, v, pd, pend, u),
           NEW l \in Lot, v[l] = None, NEW d \in Doc, \A m \in Lot : v[m] # d
    PROVE  BagInv(b (+) One(SplitRec(d, l, Total[d])), [v EXCEPT ![l] = d], pd, pend, u)
<1> DEFINE s == SplitRec(d, l, Total[d])
           c == b (+) One(s)
           w == [v EXCEPT ![l] = d]
<1>1. /\ SplitBag(b) /\ v \in [Lot -> Doc \cup {None}] /\ d # None
      /\ \A x \in DOMAIN b : x.lot \in Lot /\ b[x] \in Nat
  BY InvoiceLotsAssumption DEF BagInv, SplitBag, AllSplits
<1>2. s \in AllSplits /\ s.txn = d /\ s.lot = l /\ s.amount = Total[d]
  BY InvoiceLotsAssumption DEF SplitRec, AllSplits, Txn
<1>3. w \in [Lot -> Doc \cup {None}] /\ \A m \in Lot : w[m] = IF m = l THEN d ELSE v[m]
  BY <1>1
<1>4. s \notin DOMAIN b /\ \A x \in DOMAIN b : x.txn # d
  BY <1>1, <1>2 DEF BagInv, DocsIn
<1>5. SplitBag(c)
  <2> HIDE DEF s
  <2>1. QED
    BY <1>1, <1>2, WorthAdd
<1>6. DOMAIN c = DOMAIN b \cup {s} /\ c[s] = 1 /\ \A x \in DOMAIN b : c[x] = b[x]
  <2> HIDE DEF s
  <2>1. /\ DOMAIN c = DOMAIN b \cup DOMAIN One(s)
        /\ \A x \in DOMAIN b \cup DOMAIN One(s) :
             c[x] = (IF x \in DOMAIN b THEN b[x] ELSE 0)
                    + (IF x \in DOMAIN One(s) THEN One(s)[x] ELSE 0)
    BY PlusIs
  <2>3. DOMAIN One(s) = {s} /\ One(s)[s] = 1
    BY OneType
  <2> HIDE DEF c
  <2>2. QED
    BY <1>1, <1>4, <2>1, <2>3
<1>7. ASSUME NEW t, t # d PROVE Worth(c, OfT(t)) = Worth(b, OfT(t))
  <2>1. s \notin OfT(t)
    BY <1>2, <1>7 DEF OfT
  <2> HIDE DEF s
  <2>2. QED
    BY <1>1, <1>2, <2>1, AddOther, WorthSame
<1> HIDE DEF c, w, s
<1>8. DocsIn(c, w)
  <2>1. ASSUME NEW m \in Lot, w[m] # None PROVE SplitRec(w[m], m, Total[w[m]]) \in DOMAIN c
    <3>1. CASE m = l
      BY <1>3, <1>6, <3>1 DEF s
    <3>2. CASE m # l
      BY <1>3, <1>6, <2>1, <3>2 DEF BagInv, DocsIn
    <3>3. QED
      BY <3>1, <3>2
  <2>2. ASSUME NEW x \in DOMAIN c, x.txn \in Doc
        PROVE  w[x.lot] = x.txn /\ x.amount = Total[x.txn] /\ c[x] = 1
    <3>1. CASE x = s
      BY <1>2, <1>3, <1>6, <3>1
    <3>2. CASE x # s
      <4>1. x \in DOMAIN b /\ c[x] = b[x] /\ x.lot \in Lot
        BY <1>1, <1>6, <3>2
      <4>2. v[x.lot] = x.txn /\ x.amount = Total[x.txn] /\ b[x] = 1
        BY <2>2, <4>1 DEF BagInv, DocsIn
      <4>3. x.lot # l
        BY <2>2, <4>2, InvoiceLotsAssumption
      <4>4. QED
        BY <1>3, <4>1, <4>2, <4>3
    <3>3. QED
      BY <3>1, <3>2
  <2>3. \A k, m \in Lot : w[k] # None /\ w[k] = w[m] => k = m
    BY <1>3 DEF BagInv, DocsIn
  <2>4. QED
    BY <2>1, <2>2, <2>3 DEF DocsIn
<1>9. d \notin Link /\ d \notin Payment /\ d \notin {None}
  BY <1>1, InvoiceLotsAssumption
<1>10. LinksIn(c, w, u)
  <2> SUFFICES ASSUME NEW x \in DOMAIN c, x.txn \in Link
               PROVE  /\ c[x] = 1 /\ (w[x.lot] # None \/ x.lot = u)
                      /\ \A r \in DOMAIN c : PlaceOf(r) = PlaceOf(x) => r = x
    BY DEF LinksIn
  <2>1. x # s /\ x \in DOMAIN b
    BY <1>2, <1>6, <1>9
  <2>2. /\ b[x] = 1 /\ (v[x.lot] # None \/ x.lot = u) /\ x.lot \in Lot
        /\ \A r \in DOMAIN b : PlaceOf(r) = PlaceOf(x) => r = x
    BY <1>1, <2>1 DEF BagInv, LinksIn
  <2>3. PlaceOf(s) # PlaceOf(x)
    BY <1>2, <1>9 DEF PlaceOf
  <2>4. QED
    BY <1>1, <1>3, <1>6, <2>1, <2>2, <2>3
<1>11. PaymentSums(c, pd) /\ LinkSums(c)
  BY <1>7, <1>9 DEF BagInv, PaymentSums, LinkSums
<1>12. LinksLeft(c, pend, u)
  BY <1>2, <1>6, <1>9 DEF BagInv, LinksLeft
<1>13. BagInv(c, w, pd, pend, u)
  BY <1>3, <1>5, <1>8, <1>10, <1>11, <1>12 DEF BagInv
<1>14. QED
  BY <1>13 DEF c, w, s

\* Two documents are linked.
LEMMA LinkBag ==
    ASSUME NEW b, NEW v, NEW pd, NEW pend, NEW u, BagInv(b, v, pd, pend, u),
           NEW t \in Link, NEW k \in Lot, NEW l \in Lot, NEW x \in Int, NEW y \in Int, x + y = 0,
           v[k] # None, v[l] # None, k # u, l # u,
           NEW c, MergeOf(c, (b (+) One(SplitRec(t, k, x))) (+) One(SplitRec(t, l, y)), {k, l})
    PROVE  BagInv(c, v, pd, pend, u)
<1> DEFINE s == SplitRec(t, k, x)
           r == SplitRec(t, l, y)
           b1 == b (+) One(s)
           b2 == b1 (+) One(r)
           stays == {q \in AllSplits : ~ Merges(q, {k, l})}
<1>1. SplitBag(b) /\ v \in [Lot -> Doc \cup {None}]
  BY DEF BagInv
<1>2. /\ s \in AllSplits /\ r \in AllSplits
      /\ s.txn = t /\ r.txn = t /\ s.lot = k /\ r.lot = l /\ s.amount = x /\ r.amount = y
      /\ t \notin Doc /\ t \notin Payment
  BY InvoiceLotsAssumption DEF SplitRec, AllSplits, Txn
<1>3. /\ SplitBag(b1)
      /\ \A C \in SUBSET AllSplits : Worth(b1, C) = Worth(b, C) + IF s \in C THEN x ELSE 0
  <2> HIDE DEF s
  <2>1. QED
    BY <1>1, <1>2, WorthAdd
<1>4. /\ SplitBag(b2)
      /\ \A C \in SUBSET AllSplits : Worth(b2, C) = Worth(b1, C) + IF r \in C THEN y ELSE 0
  <2> HIDE DEF r, b1
  <2>1. QED
    BY <1>2, <1>3, WorthAdd
<1>5. SameOn(b, b2, stays)
  <2>1. s \notin stays /\ r \notin stays
    BY <1>2 DEF Merges
  <2>2. SameOn(b, b1, stays)
    <3> HIDE DEF s, stays
    <3>1. QED
      BY <1>1, <1>2, <2>1, AddOther
  <2>3. SameOn(b1, b2, stays)
    <3> HIDE DEF r, stays, b1
    <3>1. QED
      BY <1>2, <1>3, <2>1, AddOther
  <2> HIDE DEF b1, b2, stays
  <2>4. QED
    BY <2>2, <2>3, SameTwice
<1>6. MergeOf(c, b2, {k, l})
  OBVIOUS
<1> HIDE DEF b1, b2, s, r
<1>7. SplitBag(c)
  BY <1>6 DEF MergeOf
<1>8. \A q \in AllSplits : ~ Merges(q, {k, l}) =>
        (q \in DOMAIN c <=> q \in DOMAIN b) /\ (q \in DOMAIN c => c[q] = b[q])
  BY <1>5, <1>6 DEF MergeOf, SameOn
<1>9. \A q \in DOMAIN c : Merges(q, {k, l}) => c[q] = 1 /\ q = MergedSplit(b2, PlaceOf(q))
  BY <1>6 DEF MergeOf
<1>10. \A q \in AllSplits : q.txn \in Doc => ~ Merges(q, {k, l})
  BY DEF Merges
<1>11. \A q \in AllSplits : q.lot \notin {k, l} => ~ Merges(q, {k, l})
  BY DEF Merges
<1> HIDE DEF stays
<1>12. \A q \in DOMAIN b : q \in AllSplits
  BY <1>1 DEF SplitBag
<1>13. \A q \in DOMAIN c : q \in AllSplits
  BY <1>7 DEF SplitBag
<1>14. DocsIn(c, v)
  <2>1. ASSUME NEW m \in Lot, v[m] # None PROVE SplitRec(v[m], m, Total[v[m]]) \in DOMAIN c
    <3>1. SplitRec(v[m], m, Total[v[m]]) \in DOMAIN b
      BY <2>1 DEF BagInv, DocsIn
    <3>2. SplitRec(v[m], m, Total[v[m]]).txn = v[m] /\ v[m] \in Doc
      BY <1>1, <2>1 DEF SplitRec
    <3>3. QED
      BY <1>8, <1>10, <1>12, <3>1, <3>2
  <2>2. QED
    BY <1>8, <1>10, <1>13, <2>1 DEF BagInv, DocsIn
<1>15. LinksIn(c, v, u)
  <2> SUFFICES ASSUME NEW q \in DOMAIN c, q.txn \in Link
               PROVE  /\ c[q] = 1 /\ (v[q.lot] # None \/ q.lot = u)
                      /\ \A p \in DOMAIN c : PlaceOf(p) = PlaceOf(q) => p = q
    BY DEF LinksIn
  <2>1. ASSUME NEW p \in DOMAIN c, PlaceOf(p) = PlaceOf(q)
        PROVE  p.txn = q.txn /\ (Merges(p, {k, l}) <=> Merges(q, {k, l}))
    BY <2>1 DEF PlaceOf, Merges
  <2>2. CASE Merges(q, {k, l})
    <3>1. q.lot \in {k, l}
      BY <2>2 DEF Merges
    <3>2. c[q] = 1 /\ v[q.lot] # None
      BY <1>9, <2>2, <3>1
    <3>3. \A p \in DOMAIN c : PlaceOf(p) = PlaceOf(q) => p = q
      BY <1>9, <2>1, <2>2
    <3>4. QED
      BY <3>2, <3>3
  <2>3. CASE ~ Merges(q, {k, l})
    <3>1. q \in DOMAIN b /\ c[q] = b[q]
      BY <1>8, <1>13, <2>3
    <3>2. /\ b[q] = 1 /\ (v[q.lot] # None \/ q.lot = u)
          /\ \A p \in DOMAIN b : PlaceOf(p) = PlaceOf(q) => p = q
      BY <3>1 DEF BagInv, LinksIn
    <3>3. \A p \in DOMAIN c : PlaceOf(p) = PlaceOf(q) => p \in DOMAIN b
      BY <1>8, <1>13, <2>1, <2>3
    <3>4. QED
      BY <3>1, <3>2, <3>3
  <2>4. QED
    BY <2>2, <2>3
<1>16. ASSUME NEW j PROVE Worth(c, OfT(j)) = Worth(b, OfT(j))
  <2>1. Worth(c, OfT(j)) = Worth(b2, OfT(j))
    BY <1>4, <1>6, TxnsAndLots, MergedWorth
  <2>2. /\ Worth(b1, OfT(j)) = Worth(b, OfT(j)) + IF s \in OfT(j) THEN x ELSE 0
        /\ Worth(b2, OfT(j)) = Worth(b1, OfT(j)) + IF r \in OfT(j) THEN y ELSE 0
    BY <1>3, <1>4, TxnsAndLots
  <2>3. (s \in OfT(j) <=> t = j) /\ (r \in OfT(j) <=> t = j)
    BY <1>2 DEF OfT
  <2>4. Worth(b, OfT(j)) \in Int
    BY <1>1, WorthType
  <2>5. QED
    BY <2>1, <2>2, <2>3, <2>4
<1>17. PaymentSums(c, pd) /\ LinkSums(c)
  BY <1>16 DEF BagInv, PaymentSums, LinkSums
<1>18. LinksLeft(c, pend, u)
  <2>1. LinksLeft(b, pend, u)
    BY DEF BagInv
  <2>2. \A q \in DOMAIN pend : q \in DOMAIN b /\ q.lot \notin {k, l}
    BY <2>1 DEF LinksLeft
  <2>3. \A q \in DOMAIN c : q.lot = u => q \in DOMAIN b
    BY <1>8, <1>11, <1>13
  <2>4. QED
    BY <1>8, <1>11, <1>12, <2>1, <2>2, <2>3 DEF LinksLeft
<1>19. QED
  BY <1>1, <1>7, <1>14, <1>15, <1>17, <1>18 DEF BagInv

-----------------------------------------------------------------------------
(* The inductive invariant.                                                *)

Walking ==
    /\ list \in Seq(Lot) /\ single \subseteq ToSet(list)
    /\ left \in 0 .. Len(list) /\ right \in 0 .. Len(list) /\ leftBal \in Int
    /\ left = 0 => right = Len(list)
    /\ unposted \notin ToSet(list)

Paid == paid \in [Payment -> Amounts \cup {0}]

LotInv ==
    /\ BagInv(splits, invoice, paid, pending, unposted)
    /\ Walking
    /\ Paid
    /\ fault = FALSE

LEMMA MinIn ==
    ASSUME NEW S \in SUBSET Nat, S # {}
    PROVE  Min(S) \in S /\ \A m \in S : Min(S) <= m
<1>1. \E n \in S : \A m \in S : n <= m
  BY Least
<1>2. QED
  BY <1>1 DEF Min

LEMMA OrderType ==
    ASSUME NEW lots \in SUBSET Lot, NEW order \in SetToSeqs(lots)
    PROVE  order \in Seq(Lot) /\ ToSet(order) \subseteq lots
<1>1. IsFiniteSet(Lot)
  BY FS_Interval, InvoiceLotsAssumption DEF Lot
<1>2. Cardinality(lots) \in Nat
  BY <1>1, FS_Subset, FS_CardinalityType
<1>3. order \in [1 .. Cardinality(lots) -> lots]
  BY DEF SetToSeqs
<1>4. QED
  BY <1>2, <1>3 DEF ToSet

LEMMA FirstType ==
    ASSUME NEW l \in Lot, NEW order \in Seq(Lot)
    PROVE  <<l>> \o order \in Seq(Lot)
OBVIOUS

\* When gncOwnerAutoApplyPaymentsWithLots is called.
LEMMA AppliesWalks ==
    ASSUME NEW lots \in Seq(Lot), Applies(lots), unposted' \notin ToSet(lots)
    PROVE  Walking'
<1>1. Len(lots) \in Nat
  OBVIOUS
<1>2. QED
  BY <1>1 DEF Applies, Walking

LEMMA LotInvInit == Init => LotInv
<1> SUFFICES ASSUME Init PROVE LotInv
  OBVIOUS
<1> USE DEF Init
<1>1. DOMAIN splits = {} /\ splits = [s \in {} |-> 1]
  BY DEF EmptyBag, SetToBag
<1>2. SplitBag(splits)
  <2>1. IsFiniteSet({})
    BY FS_EmptySet
  <2>2. QED
    BY <1>1, <2>1 DEF SplitBag
<1>3. DOMAIN pending = {} /\ IsABag(pending)
  BY DEF EmptyBag, SetToBag, IsABag
<1>4. PaymentSums(splits, paid) /\ LinkSums(splits)
  <2>1. \A t : Worth(splits, OfT(t)) = 0
    BY <1>1, <1>2, WorthNone
  <2>2. QED
    BY <2>1 DEF PaymentSums, LinkSums
<1>5. DocsIn(splits, invoice) /\ LinksIn(splits, invoice, unposted)
  BY <1>1 DEF DocsIn, LinksIn
<1>6. LinksLeft(splits, pending, unposted)
  BY <1>1, <1>3 DEF LinksLeft
<1>7. BagInv(splits, invoice, paid, pending, unposted)
  BY <1>2, <1>4, <1>5, <1>6 DEF BagInv
<1>8. ToSet(list) = {} /\ list \in Seq(Lot) /\ Len(list) = 0
  BY DEF ToSet
<1>9. Walking /\ Paid
  BY <1>8 DEF Walking, Paid
<1>10. QED
  BY <1>7, <1>9 DEF LotInv

LEMMA FreeIs ==
    ASSUME NEW l \in FreeLots
    PROVE  l \in Lot /\ invoice[l] = None
BY DEF FreeLots, HasDoc

LEMMA PostKeeps ==
    ASSUME LotInv, NEW d \in Doc, PostToAccount(d)
    PROVE  LotInv'
<1> USE DEF PostToAccount, LotInv
<1>1. PICK l \in FreeLots :
         /\ invoice' = [invoice EXCEPT ![l] = d]
         /\ splits' = splits (+) SetToBag({SplitRec(d, l, Total[d])})
         /\ \/ UNCHANGED applyVars
            \/ \E others \in SetToSeqs({o \in OpenLots : Sign(Balance(o)) # Sign(Total[d])}) :
                 Applies(<<l>> \o others)
  OBVIOUS
<1>2. l \in Lot /\ invoice[l] = None
  BY FreeIs
<1>3. \A m \in Lot : invoice[m] # d
  BY DEF Posted, LotsOf
<1>4. BagInv(splits', invoice', paid, pending, unposted)
  BY <1>1, <1>2, <1>3, PostBag DEF One
<1>5. unposted = None /\ unposted' = None /\ UNCHANGED <<pending, fault, paid>>
  BY DEF Idle, unpostVars
<1>6. Walking'
  <2>1. CASE UNCHANGED applyVars
    BY <1>5, <2>1 DEF Walking, applyVars
  <2>2. ASSUME NEW others \in SetToSeqs({o \in OpenLots : Sign(Balance(o)) # Sign(Total[d])}),
               Applies(<<l>> \o others)
        PROVE  Walking'
    <3>1. others \in Seq(Lot)
      BY OrderType DEF OpenLots
    <3>2. <<l>> \o others \in Seq(Lot)
      BY <1>2, <3>1, FirstType
    <3>3. None \notin ToSet(<<l>> \o others)
      BY <3>2, InvoiceLotsAssumption DEF ToSet, Lot
    <3>4. QED
      BY <1>5, <2>2, <3>2, <3>3, AppliesWalks
  <2>3. QED
    BY <1>1, <2>1, <2>2
<1>7. QED
  BY <1>4, <1>5, <1>6 DEF Paid

LEMMA PaidType ==
    /\ \A a \in Amounts : a \in Int
    /\ Paid => paid \in [Payment -> Int]
<1>1. \A a \in Amounts : a \in Int
  BY InvoiceLotsAssumption
<1>2. ASSUME Paid PROVE paid \in [Payment -> Int]
  <2>1. \A p \in Payment : paid[p] \in Int
    BY <1>1, <1>2 DEF Paid
  <2>2. paid = [p \in Payment |-> paid[p]]
    BY <1>2 DEF Paid
  <2>3. QED
    BY <2>1, <2>2
<1>3. QED
  BY <1>1, <1>2

LEMMA ApplyPaymentKeeps ==
    ASSUME LotInv, NEW p \in Payment, NEW a \in Amounts, NEW lots \in SUBSET OpenLots,
           ApplyPayment(p, a, lots)
    PROVE  LotInv'
<1> USE DEF ApplyPayment, LotInv
<1>1. PICK l \in FreeLots :
         /\ splits' = splits (+) SetToBag({SplitRec(p, l, - a)})
         /\ \E others \in SetToSeqs(lots) : Applies(<<l>> \o others)
  OBVIOUS
<1>2. l \in Lot
  BY FreeIs
<1>3. a \in Int /\ paid \in [Payment -> Int]
  BY PaidType
<1>4. BagInv(splits', invoice, paid', pending, unposted)
  BY <1>1, <1>2, <1>3, PayBag DEF One
<1>5. unposted = None /\ unposted' = None /\ UNCHANGED <<pending, fault, invoice>>
  BY DEF Idle, unpostVars
<1>6. Walking'
  <2>1. PICK others \in SetToSeqs(lots) : Applies(<<l>> \o others)
    BY <1>1
  <2>2. others \in Seq(Lot)
    BY OrderType DEF OpenLots
  <2>3. <<l>> \o others \in Seq(Lot)
    BY <1>2, <2>2, FirstType
  <2>4. None \notin ToSet(<<l>> \o others)
    BY <2>3, InvoiceLotsAssumption DEF ToSet, Lot
  <2>5. QED
    BY <1>5, <2>1, <2>3, <2>4, AppliesWalks
<1>7. Paid'
  BY DEF Paid
<1>8. QED
  BY <1>4, <1>5, <1>6, <1>7

LEMMA ApplyLotsKeeps ==
    ASSUME LotInv, NEW lots \in SUBSET OpenLots, ApplyLots(lots)
    PROVE  LotInv'
<1> USE DEF ApplyLots, LotInv
<1>1. unposted = None /\ unposted' = None /\ UNCHANGED <<splits, invoice, paid, pending, fault>>
  BY DEF Idle, unpostVars
<1>2. PICK order \in SetToSeqs(lots) : Applies(order)
  OBVIOUS
<1>3. order \in Seq(Lot)
  BY OrderType DEF OpenLots
<1>4. None \notin ToSet(order)
  BY <1>3, InvoiceLotsAssumption DEF ToSet, Lot
<1>5. Walking'
  BY <1>1, <1>2, <1>3, <1>4, AppliesWalks
<1>6. QED
  BY <1>1, <1>5 DEF Paid

LEMMA DeleteKeeps ==
    ASSUME LotInv, NEW t \in Payment \cup Link, DeleteTxn(t)
    PROVE  LotInv'
<1> USE DEF DeleteTxn, LotInv
<1>1. unposted = None /\ UNCHANGED <<applyVars, unposted, invoice, pending, fault>>
  BY DEF Idle, unpostVars
<1>2. splits' = Less(splits, t)
  BY DEF Without, Less
<1>3. LinksLeft(Less(splits, t), pending, unposted)
  <2>1. LinksLeft(splits, pending, unposted) /\ SplitBag(splits)
    BY DEF BagInv
  <2>2. \A s \in DOMAIN splits : s.lot \in Lot
    BY <2>1 DEF SplitBag, AllSplits
  <2>3. \A s \in DOMAIN Less(splits, t) : s \in DOMAIN splits
    BY DEF Less
  <2>4. None \notin Lot
    BY InvoiceLotsAssumption DEF Lot
  <2>5. QED
    BY <1>1, <2>1, <2>2, <2>3, <2>4 DEF LinksLeft
<1>4. paid \in [Payment -> Int]
  BY PaidType
<1>5. BagInv(splits', invoice, paid', pending, unposted)
  BY <1>2, <1>3, <1>4, DeleteBag
<1>6. Walking'
  BY <1>1 DEF Walking, applyVars
<1>7. Paid'
  BY DEF Paid
<1>8. QED
  BY <1>1, <1>5, <1>6, <1>7

LEMMA UnpostKeeps ==
    ASSUME LotInv, NEW d \in Doc, Unpost(d)
    PROVE  LotInv'
<1> USE DEF Unpost, LotInv
<1>1. PICK l \in LotsOf(d) :
         /\ splits' = Without(d)
         /\ invoice' = [invoice EXCEPT ![l] = None]
         /\ unposted' = l
         /\ pending' = [s \in {u \in DOMAIN InLot(l) : u.txn \in Link} |-> splits[s]]
  OBVIOUS
<1>2. l \in Lot /\ invoice[l] = d
  BY DEF LotsOf
<1>3. splits' = Less(splits, d)
  BY <1>1 DEF Without, Less
<1>4. pending' = [s \in {x \in DOMAIN splits : x.lot = l /\ x.txn \in Link} |-> splits[s]]
  <2>1. DOMAIN InLot(l) = {x \in DOMAIN splits : x.lot = l}
    BY DEF InLot, Of, BagToSet
  <2>2. {u \in DOMAIN InLot(l) : u.txn \in Link} = {x \in DOMAIN splits : x.lot = l /\ x.txn \in Link}
    BY <2>1
  <2>3. QED
    BY <1>1, <2>2
<1>5. unposted = None /\ list = <<>> /\ UNCHANGED <<paid, applyVars, fault>>
  BY DEF Idle
<1>6. BagInv(splits', invoice', paid, pending', unposted')
  <2>1. BagInv(splits, invoice, paid, pending, None)
    BY <1>5
  <2>2. BagInv(Less(splits, d), [invoice EXCEPT ![l] = None], paid,
               [s \in {x \in DOMAIN splits : x.lot = l /\ x.txn \in Link} |-> splits[s]], l)
    BY <1>2, <2>1, UnpostBag
  <2>3. QED
    BY <1>1, <1>3, <1>4, <2>2
<1>7. Walking'
  <2>1. ToSet(<<>>) = {}
    BY DEF ToSet
  <2>2. QED
    BY <1>5, <2>1 DEF Walking, applyVars
<1>8. QED
  BY <1>5, <1>6, <1>7 DEF Paid

\* gncInvoiceUnpost looks at a split of a link that is still there.
LEMMA PendingThere ==
    ASSUME LotInv, NEW s \in BagToSet(pending)
    PROVE  /\ s.txn \in Link /\ s \in DOMAIN splits /\ s \in OfTxn(s.txn)
           /\ s.lot = unposted /\ pending[s] = 1
<1>1. s.txn \in Link /\ s \in DOMAIN splits /\ s.lot = unposted /\ pending[s] = 1
  BY DEF LotInv, BagInv, LinksLeft, BagToSet
<1>2. s \in OfTxn(s.txn)
  BY <1>1 DEF OfTxn, Of, BagToSet
<1>3. QED
  BY <1>1, <1>2

LEMMA UnpostLinkKeeps ==
    ASSUME LotInv, UnpostLink
    PROVE  LotInv'
<1> USE DEF UnpostLink, LotInv
<1>1. PICK s \in BagToSet(pending) :
         IF OfTxn(s.txn) = {}
         THEN fault' = TRUE /\ UNCHANGED <<splits, applyVars, pending>>
         ELSE /\ splits' = Without(s.txn)
              /\ \E order \in SetToSeqs({u.lot : u \in OfTxn(s.txn)} \ {unposted}) :
                   Applies(order)
              /\ pending' = pending (-) SetToBag({s})
              /\ UNCHANGED fault
  OBVIOUS
<1>2. /\ s.txn \in Link /\ s \in DOMAIN splits /\ s \in OfTxn(s.txn)
      /\ s.lot = unposted /\ pending[s] = 1
  BY <1>1, PendingThere
<1>3. /\ splits' = Less(splits, s.txn)
      /\ pending' = pending (-) One(s)
      /\ UNCHANGED fault
      /\ \E order \in SetToSeqs({u.lot : u \in OfTxn(s.txn)} \ {unposted}) : Applies(order)
  <2>1. OfTxn(s.txn) # {}
    BY <1>2
  <2>2. QED
    BY <1>1, <2>1 DEF Without, Less, One
<1>4. UNCHANGED <<invoice, paid, unposted>>
  OBVIOUS
<1>5. SplitBag(splits) /\ LinksLeft(splits, pending, unposted) /\ LinksIn(splits, invoice, unposted)
  BY DEF BagInv
<1>6. LinksLeft(Less(splits, s.txn), pending', unposted)
  <2>1. pending \in [DOMAIN pending -> {n \in Nat : n > 0}] /\ s \in DOMAIN pending
    BY <1>1, <1>5 DEF LinksLeft, IsABag, BagToSet
  <2>2. /\ DOMAIN pending' = DOMAIN pending \ {s}
        /\ \A u \in DOMAIN pending' : pending'[u] = pending[u]
    <3>1. /\ DOMAIN (pending (-) One(s)) = IF pending[s] = 1 THEN DOMAIN pending \ {s}
                                            ELSE DOMAIN pending
          /\ \A u \in DOMAIN (pending (-) One(s)) :
               (pending (-) One(s))[u] = IF u = s THEN pending[s] - 1 ELSE pending[u]
      BY <2>1, MinusOneIs
    <3>2. QED
      BY <1>2, <1>3, <3>1
  <2>3. IsABag(pending')
    <3>1. pending' = [u \in DOMAIN pending' |-> pending'[u]]
      BY <1>3 DEF (-)
    <3>2. \A u \in DOMAIN pending' : pending'[u] \in {n \in Nat : n > 0}
      BY <2>1, <2>2
    <3>3. QED
      BY <3>1, <3>2 DEF IsABag
  <2>4. \A u : u \in DOMAIN Less(splits, s.txn) <=> u \in DOMAIN splits /\ u.txn # s.txn
    BY DEF Less
  <2>5. ASSUME NEW u \in DOMAIN pending' PROVE u.txn # s.txn
    <3>1. u \in DOMAIN splits /\ u.txn \in Link /\ u.lot = unposted /\ u # s
      BY <1>5, <2>2 DEF LinksLeft
    <3>2. u.txn = s.txn => PlaceOf(u) = PlaceOf(s)
      BY <1>2, <3>1 DEF PlaceOf
    <3>3. QED
      BY <1>2, <1>5, <3>1, <3>2 DEF LinksIn
  <2>6. unposted # None
    OBVIOUS
  <2>7. QED
    BY <1>5, <2>2, <2>3, <2>4, <2>5, <2>6 DEF LinksLeft
<1>7. BagInv(splits', invoice, paid', pending', unposted)
  <2>1. paid \in [Payment -> Int] /\ s.txn \in Payment \cup Link
    BY <1>2, PaidType
  <2>2. BagInv(Less(splits, s.txn), invoice,
               [p \in Payment |-> IF p = s.txn THEN 0 ELSE paid[p]], pending', unposted)
    BY <1>6, <2>1, DeleteBag
  <2>3. [p \in Payment |-> IF p = s.txn THEN 0 ELSE paid[p]] = paid
    <3>1. \A p \in Payment : p # s.txn
      BY <1>2, InvoiceLotsAssumption
    <3>2. QED
      BY <2>1, <3>1
  <2>4. QED
    BY <1>3, <1>4, <2>2, <2>3
<1>8. Walking'
  <2> DEFINE lots == {u.lot : u \in OfTxn(s.txn)} \ {unposted}
  <2>1. PICK order \in SetToSeqs(lots) : Applies(order)
    BY <1>3
  <2>2. lots \in SUBSET Lot /\ unposted \notin lots
    BY <1>5 DEF OfTxn, Of, BagToSet, SplitBag, AllSplits
  <2> HIDE DEF lots
  <2>3. order \in Seq(Lot) /\ unposted' \notin ToSet(order)
    BY <1>4, <2>2, OrderType
  <2>4. QED
    BY <2>1, <2>3, AppliesWalks
<1>9. QED
  BY <1>3, <1>4, <1>7, <1>8 DEF Paid

LEMMA UnpostDoneKeeps ==
    ASSUME LotInv, UnpostDone
    PROVE  LotInv'
<1> USE DEF UnpostDone, LotInv
<1>1. /\ list = <<>> /\ DOMAIN pending = {} /\ unposted' = None
      /\ UNCHANGED <<splits, invoice, paid, applyVars, pending, fault>>
  BY DEF EmptyBag, SetToBag
<1>2. LinksIn(splits, invoice, None)
  BY <1>1 DEF BagInv, LinksIn, LinksLeft
<1>3. LinksLeft(splits, pending, None)
  <2>1. \A s \in DOMAIN splits : s.lot # None
    BY InvoiceLotsAssumption DEF BagInv, SplitBag, AllSplits, Lot
  <2>2. QED
    BY <1>1, <2>1 DEF BagInv, LinksLeft
<1>4. BagInv(splits, invoice, paid, pending, None)
  BY <1>2, <1>3 DEF BagInv
<1>5. Walking'
  <2>1. ToSet(<<>>) = {}
    BY DEF ToSet
  <2>2. QED
    BY <1>1, <2>1 DEF Walking, applyVars
<1>6. QED
  BY <1>1, <1>4, <1>5 DEF Paid

LEMMA BalanceIs ==
    ASSUME SplitBag(splits), NEW l
    PROVE  Balance(l) = Worth(splits, InL(l)) /\ Balance(l) \in Int
<1>1. SumOf(splits, LAMBDA s : s.lot = l) = Worth(splits, InL(l))
  BY SumOfLot
<1>2. Worth(splits, InL(l)) \in Int
  BY WorthType
<1>3. QED
  BY <1>1, <1>2 DEF Balance

\* Two lots of balances f and n are linked: the first is given FromLink(f, n), the other
\* as much less.
FromLink(f, n) == - (IF Abs(f) > Abs(n) THEN - n ELSE f)
Linked(b, t, k, x, l, y) == (b (+) One(SplitRec(t, k, x))) (+) One(SplitRec(t, l, y))
LinkBy(c, b, t, k, l) ==
    LET x == FromLink(Worth(b, InL(k)), Worth(b, InL(l)))
    IN  x \in Int /\ MergeOf(c, Linked(b, t, k, x, l, - x), {k, l})

LEMMA LinkIs ==
    ASSUME SplitBag(splits), NEW from \in Lot, NEW to \in Lot, CreateLotLink(from, to)
    PROVE  \E txn \in Link : LinkBy(splits', splits, txn, from, to)
<1> DEFINE f == Balance(from)
           t == Balance(to)
           x == FromLink(f, t)
           y == - (IF Abs(f) > Abs(t) THEN t ELSE - f)
           c(txn) == Linked(splits, txn, from, x, to, y)
<1>1. f \in Int /\ t \in Int /\ f = Worth(splits, InL(from)) /\ t = Worth(splits, InL(to))
  BY BalanceIs
<1>2. PICK txn \in LinkFor(from, to) : splits' = Merged(c(txn), {from, to})
  BY DEF CreateLotLink, One, Linked, FromLink
<1>3. txn \in Link
  BY <1>2 DEF LinkFor, LinksOf, NewLinks
<1> HIDE DEF f, t
<1>4. x \in Int /\ y \in Int /\ y = - x
  BY <1>1 DEF Abs, FromLink
<1>5. SplitBag(c(txn))
  <2>1. SplitRec(txn, from, x) \in AllSplits /\ SplitRec(txn, to, y) \in AllSplits
    BY <1>3, <1>4 DEF SplitRec, AllSplits, Txn
  <2> HIDE DEF x, y
  <2> DEFINE s == SplitRec(txn, from, x)
             r == SplitRec(txn, to, y)
             b1 == splits (+) One(s)
  <2> HIDE DEF s, r
  <2>2. SplitBag(b1)
    BY <2>1, WorthAdd DEF s
  <2> HIDE DEF b1
  <2>3. SplitBag(b1 (+) One(r))
    BY <2>1, <2>2, WorthAdd DEF r
  <2>4. QED
    BY <2>3 DEF b1, s, r, Linked
<1> HIDE DEF y
<1>6. MergeOf(splits', c(txn), {from, to})
  <2> HIDE DEF c
  <2>1. QED
    BY <1>2, <1>5, MergedIsMerge
<1>7. LinkBy(splits', splits, txn, from, to)
  BY <1>1, <1>4, <1>6 DEF LinkBy
<1>8. QED
  BY <1>3, <1>7

LEMMA LinkKeeps ==
    ASSUME LotInv, NEW from \in Lot, NEW to \in Lot, HasDoc(from), HasDoc(to),
           from # unposted, to # unposted, CreateLotLink(from, to)
    PROVE  BagInv(splits', invoice, paid, pending, unposted)
<1>1. BagInv(splits, invoice, paid, pending, unposted) /\ SplitBag(splits)
  BY DEF LotInv, BagInv
<1>2. PICK txn \in Link : LinkBy(splits', splits, txn, from, to)
  BY <1>1, LinkIs
<1> DEFINE x == FromLink(Worth(splits, InL(from)), Worth(splits, InL(to)))
<1>3. x \in Int /\ - x \in Int /\ x + (- x) = 0
      /\ MergeOf(splits', (splits (+) One(SplitRec(txn, from, x))) (+) One(SplitRec(txn, to, - x)),
                 {from, to})
  BY <1>2 DEF LinkBy, Linked
<1>4. invoice[from] # None /\ invoice[to] # None
  BY DEF HasDoc
<1> HIDE DEF x
<1>5. QED
  BY <1>1, <1>3, <1>4, LinkBag

\* Of a split s, whose sign is not that of a lot with balance n, as much as the lot
\* needs is moved to it.
Moved(a, n) == IF Abs(a) > Abs(n) THEN - n ELSE a
OffsetBy(c, b, s, n, to) ==
    /\ n \in Int /\ n # 0 /\ s.amount \in Int /\ s.amount # 0 /\ Sign(s.amount) # Sign(n)
    /\ c = Divided(b, s, ~ (Abs(s.amount) > Abs(n)), Moved(s.amount, n), to)

LEMMA OffsetIs ==
    ASSUME SplitBag(splits), NEW from \in Lot, NEW to \in Lot, ~ HasDoc(from),
           OffsetLots(from, to)
    PROVE  \/ splits' = splits /\ (Balance(to) = 0 \/ Offsetting(from, Balance(to)) = {})
           \/ \E s \in DOMAIN splits :
                s.lot = from /\ OffsetBy(splits', splits, s, Worth(splits, InL(to)), to)
<1> DEFINE target == Balance(to)
           found == Offsetting(from, target)
<1>1. target \in Int /\ target = Worth(splits, InL(to))
  BY BalanceIs
<1>2. CASE target = 0 \/ found = {}
  BY <1>2 DEF OffsetLots
<1>3. CASE target # 0 /\ found # {}
  <2>1. PICK s \in found :
             LET rest == IF Abs(s.amount) > Abs(target)
                         THEN SetToBag({[s EXCEPT !.amount = s.amount + target]})
                         ELSE EmptyBag
                 moved == IF Abs(s.amount) > Abs(target) THEN - target ELSE s.amount
             IN splits' = ((splits (-) SetToBag({s})) (+) rest)
                          (+) SetToBag({SplitRec(s.txn, to, moved)})
    BY <1>3 DEF OffsetLots
  <2> DEFINE x == Moved(s.amount, target)
             whole == ~ (Abs(s.amount) > Abs(target))
  <2>2. s \in DOMAIN splits /\ s.lot = from /\ s.amount # 0 /\ Sign(s.amount) # Sign(target)
    BY <2>1 DEF Offsetting, InLot, Of, BagToSet
  <2>3. s.amount \in Int
    BY <2>2 DEF SplitBag, AllSplits
  <2> HIDE DEF target, found
  <2>4. splits' = Divided(splits, s, whole, x, to)
    <3>1. CASE whole
      BY <2>1, <3>1 DEF Divided, One, Moved
    <3>2. CASE ~ whole
      <4>1. s.amount - x = s.amount + target
        BY <1>1, <2>3, <3>2 DEF Moved
      <4>2. splits' = ((splits (-) One(s)) (+) One([s EXCEPT !.amount = s.amount + target]))
                      (+) One(SplitRec(s.txn, to, x))
        BY <2>1, <3>2 DEF One, Moved
      <4>3. Divided(splits, s, whole, x, to)
              = ((splits (-) One(s)) (+) One([s EXCEPT !.amount = s.amount - x]))
                (+) One(SplitRec(s.txn, to, x))
        BY <3>2 DEF Divided
      <4> HIDE DEF x, whole
      <4>4. QED
        BY <4>1, <4>2, <4>3
    <3>3. QED
      BY <3>1, <3>2
  <2>5. OffsetBy(splits', splits, s, Worth(splits, InL(to)), to)
    BY <1>1, <1>3, <2>2, <2>3, <2>4 DEF OffsetBy
  <2>6. QED
    BY <2>2, <2>5
<1>4. QED
  BY <1>2, <1>3

LEMMA MovedIs ==
    ASSUME NEW c, NEW b, NEW s, NEW n, NEW to, OffsetBy(c, b, s, n, to)
    PROVE  \E whole \in BOOLEAN, x \in Int :
             /\ c = Divided(b, s, whole, x, to)
             /\ whole => x = s.amount
             /\ ~ whole => x = - n
             /\ n > 0 => x < 0 /\ n + x >= 0 /\ s.amount <= x
             /\ n < 0 => x > 0 /\ n + x <= 0 /\ s.amount >= x
<1> DEFINE x == Moved(s.amount, n)
           whole == ~ (Abs(s.amount) > Abs(n))
<1>1. /\ n \in Int /\ n # 0 /\ s.amount \in Int /\ s.amount # 0 /\ Sign(s.amount) # Sign(n)
      /\ c = Divided(b, s, whole, x, to)
  BY DEF OffsetBy
<1>2. /\ x \in Int /\ whole \in BOOLEAN
      /\ whole => x = s.amount
      /\ ~ whole => x = - n
      /\ n > 0 => x < 0 /\ n + x >= 0 /\ s.amount <= x
      /\ n < 0 => x > 0 /\ n + x <= 0 /\ s.amount >= x
  BY <1>1 DEF Moved, Abs, Sign
<1> HIDE DEF x, whole
<1>3. QED
  BY <1>1, <1>2

LEMMA OffsetKeeps ==
    ASSUME LotInv, NEW from \in Lot, NEW to \in Lot, ~ HasDoc(from), from # unposted,
           OffsetLots(from, to)
    PROVE  BagInv(splits', invoice, paid, pending, unposted)
<1>1. BagInv(splits, invoice, paid, pending, unposted) /\ SplitBag(splits)
  BY DEF LotInv, BagInv
<1>2. CASE splits' = splits
  BY <1>1, <1>2
<1>3. ASSUME NEW s \in DOMAIN splits, s.lot = from,
             OffsetBy(splits', splits, s, Worth(splits, InL(to)), to)
      PROVE  BagInv(splits', invoice, paid, pending, unposted)
  <2>1. PICK whole \in BOOLEAN, x \in Int :
               splits' = Divided(splits, s, whole, x, to) /\ (whole => x = s.amount)
    BY <1>3, MovedIs
  <2>2. invoice[s.lot] = None /\ s.lot # unposted
    BY <1>3 DEF HasDoc
  <2>3. BagInv(Divided(splits, s, whole, x, to), invoice, paid, pending, unposted)
    BY <1>1, <2>1, <2>2, OffsetBag
  <2>4. QED
    BY <2>1, <2>3
<1>4. QED
  BY <1>1, <1>2, <1>3, OffsetIs

LEMMA RightLotKeeps ==
    ASSUME LotInv, RightLot
    PROVE  LotInv'
<1> USE DEF RightLot
<1>0. Walking /\ Paid /\ fault = FALSE
  BY DEF LotInv
<1>1. Len(list) \in Nat
  BY <1>0 DEF Walking
<1>2. right' \in right + 1 .. Len(list)
  <2>1. Rights \in SUBSET Nat /\ Rights # {}
    BY <1>0, <1>1 DEF Rights, Walking
  <2>2. right' \in Rights
    BY <2>1, MinIn
  <2>3. QED
    BY <2>2 DEF Rights
<1>3. left \in 1 .. Len(list) /\ right' \in 1 .. Len(list)
  BY <1>0, <1>1, <1>2 DEF Walking
<1> DEFINE l == list[left]
           r == list[right']
<1>4. l \in Lot /\ r \in Lot /\ l # unposted /\ r # unposted
  BY <1>0, <1>3 DEF Walking, ToSet
<1>5. Balances(l, r)
  OBVIOUS
<1> HIDE DEF l, r
<1>6. BagInv(splits', invoice, paid, pending, unposted)
  BY <1>4, <1>5, LinkKeeps, OffsetKeeps DEF Balances
<1>7. /\ UNCHANGED <<invoice, paid, list, left, leftBal, pending, unposted, fault>>
      /\ single' \subseteq single
  BY DEF unpostVars
<1>8. Walking'
  BY <1>0, <1>1, <1>3, <1>7 DEF Walking
<1>9. QED
  BY <1>0, <1>6, <1>7, <1>8 DEF LotInv, Paid

LEMMA LeftLotKeeps ==
    ASSUME LotInv, LeftLot
    PROVE  LotInv'
<1> USE DEF LeftLot
<1>0. Walking /\ Paid /\ fault = FALSE /\ SplitBag(splits)
  BY DEF LotInv, BagInv
<1>1. Len(list) \in Nat
  BY <1>0 DEF Walking
<1>2. left' \in left + 1 .. Len(list)
  <2>1. Lefts \in SUBSET Nat /\ Lefts # {}
    BY <1>0, <1>1 DEF Lefts, Walking
  <2>2. left' \in Lefts
    BY <2>1, MinIn
  <2>3. QED
    BY <2>2 DEF Lefts
<1>3. left' \in 1 .. Len(list) /\ right' = left'
  BY <1>0, <1>1, <1>2 DEF Walking
<1>4. leftBal' \in Int
  BY <1>0, BalanceIs
<1>5. UNCHANGED <<splits, invoice, paid, list, single, pending, unposted, fault>>
  BY DEF unpostVars
<1>6. Walking'
  BY <1>0, <1>1, <1>3, <1>4, <1>5 DEF Walking
<1>7. QED
  BY <1>5, <1>6 DEF LotInv, Paid

LEMMA AppliedKeeps ==
    ASSUME LotInv, Applied
    PROVE  LotInv'
<1> USE DEF Applied
<1>1. UNCHANGED <<splits, invoice, paid, pending, unposted, fault>>
  BY DEF unpostVars
<1>2. ToSet(<<>>) = {} /\ Len(<<>>) = 0 /\ <<>> \in Seq(Lot)
  BY DEF ToSet
<1>3. Walking'
  BY <1>2 DEF Walking
<1>4. QED
  BY <1>1, <1>3 DEF LotInv, Paid

LEMMA LotInvNext ==
    ASSUME LotInv, [Next]_lotVars
    PROVE  LotInv'
<1>1. CASE UNCHANGED lotVars
  BY <1>1 DEF lotVars, applyVars, unpostVars, LotInv, BagInv, Walking, Paid
<1>2. ASSUME NEW d \in Doc, PostToAccount(d) PROVE LotInv'
  BY <1>2, PostKeeps
<1>3. ASSUME NEW d \in Doc, Unpost(d) PROVE LotInv'
  BY <1>3, UnpostKeeps
<1>4. ASSUME NEW p \in Payment, NEW a \in Amounts, NEW lots \in SUBSET OpenLots,
             ApplyPayment(p, a, lots)
      PROVE  LotInv'
  BY <1>4, ApplyPaymentKeeps
<1>5. ASSUME NEW lots \in SUBSET OpenLots, ApplyLots(lots) PROVE LotInv'
  BY <1>5, ApplyLotsKeeps
<1>6. ASSUME NEW t \in Payment \cup Link, DeleteTxn(t) PROVE LotInv'
  BY <1>6, DeleteKeeps
<1>7. QED
  BY <1>1, <1>2, <1>3, <1>4, <1>5, <1>6, LeftLotKeeps, RightLotKeeps, AppliedKeeps,
     UnpostLinkKeeps, UnpostDoneKeeps
     DEF Next

LEMMA LotInvHolds == Spec => []LotInv
<1>1. Init => LotInv
  BY LotInvInit
<1>2. LotInv /\ [Next]_lotVars => LotInv'
  BY LotInvNext
<1>3. QED
  BY <1>1, <1>2, PTL DEF Spec

-----------------------------------------------------------------------------
(* What it implies.                                                        *)

LEMMA LotInvTypes == LotInv => LotTypeOK
<1> SUFFICES ASSUME LotInv PROVE LotTypeOK
  OBVIOUS
<1>0. Walking /\ Paid /\ fault = FALSE /\ BagInv(splits, invoice, paid, pending, unposted)
  BY DEF LotInv
<1>1. /\ IsABag(splits) /\ IsFiniteSet(BagToSet(splits))
      /\ BagToSet(splits) \subseteq [txn : Txn, lot : Lot, amount : Int]
      /\ invoice \in [Lot -> Doc \cup {None}] /\ unposted \in Lot \cup {None}
  BY <1>0 DEF BagInv, SplitBag, AllSplits, IsABag, BagToSet
<1>2. IsABag(pending) /\ BagToSet(pending) \subseteq [txn : Link, lot : Lot, amount : Int]
  <2>1. IsABag(pending) /\ \A s \in DOMAIN pending : s \in DOMAIN splits /\ s.txn \in Link
    BY <1>0 DEF BagInv, LinksLeft
  <2>2. \A s \in DOMAIN pending : s \in [txn : Link, lot : Lot, amount : Int]
    BY <1>1, <2>1 DEF BagToSet
  <2>3. QED
    BY <2>1, <2>2 DEF BagToSet
<1>3. /\ list \in Seq(Lot) /\ single \subseteq ToSet(list)
      /\ left \in 0 .. Len(list) /\ right \in 0 .. Len(list) /\ leftBal \in Int
      /\ paid \in [Payment -> Amounts \cup {0}] /\ fault \in BOOLEAN
  BY <1>0 DEF Walking, Paid
<1>4. ASSUME NEW d \in Doc
      PROVE  /\ OfTxn(d) = {SplitRec(d, l, Total[d]) : l \in LotsOf(d)}
             /\ \A s \in OfTxn(d) : splits[s] = 1
             /\ \A l, m \in LotsOf(d) : l = m
  <2>1. OfTxn(d) = {s \in DOMAIN splits : s.txn = d}
    BY DEF OfTxn, Of, BagToSet
  <2>2. \A s \in DOMAIN splits : s.txn = d =>
           invoice[s.lot] = d /\ s.amount = Total[d] /\ splits[s] = 1
    BY <1>0 DEF BagInv, DocsIn
  <2>3. d # None
    BY InvoiceLotsAssumption
  <2>4. ASSUME NEW s \in DOMAIN splits, s.txn = d
        PROVE  s = SplitRec(d, s.lot, Total[d]) /\ s.lot \in LotsOf(d)
    <3>1. s \in [txn : Txn, lot : Lot, amount : Int]
      BY <1>1 DEF BagToSet
    <3>2. s = [txn |-> s.txn, lot |-> s.lot, amount |-> s.amount] /\ s.lot \in Lot
      BY <3>1
    <3>3. s.txn = d /\ s.amount = Total[d] /\ invoice[s.lot] = d
      BY <2>2, <2>4
    <3>4. QED
      BY <3>2, <3>3 DEF SplitRec, LotsOf
  <2>5. ASSUME NEW l \in LotsOf(d)
        PROVE  SplitRec(d, l, Total[d]) \in DOMAIN splits /\ SplitRec(d, l, Total[d]).txn = d
    BY <1>0, <2>3 DEF LotsOf, BagInv, DocsIn, SplitRec
  <2>6. \A l, m \in LotsOf(d) : l = m
    BY <1>0, <2>3 DEF LotsOf, BagInv, DocsIn
  <2>7. QED
    BY <2>1, <2>2, <2>4, <2>5, <2>6
<1>5. QED
  BY <1>1, <1>2, <1>3, <1>4 DEF LotTypeOK

LEMMA LotInvWhole == LotInv => PaymentWhole
BY SumOfTxn DEF LotInv, BagInv, PaymentSums, PaymentWhole

LEMMA LotInvLinks == LotInv => LinkSound
<1> SUFFICES ASSUME LotInv PROVE LinkSound
  OBVIOUS
<1>1. BagInv(splits, invoice, paid, pending, unposted) /\ SplitBag(splits) /\ ~ fault
  BY DEF LotInv, BagInv
<1>2. ASSUME NEW t \in Link PROVE SumOf(splits, LAMBDA s : s.txn = t) = 0
  <2>1. SumOf(splits, LAMBDA s : s.txn = t) = Worth(splits, OfT(t))
    BY <1>1, SumOfTxn
  <2>2. QED
    BY <1>1, <2>1 DEF BagInv, LinkSums
<1>3. ASSUME NEW t \in Link, NEW s \in OfTxn(t)
      PROVE  /\ splits[s] = 1
             /\ HasDoc(s.lot) \/ s.lot = unposted
             /\ \A u \in OfTxn(t) : u.lot = s.lot => u = s
  <2>1. s \in DOMAIN splits /\ s.txn = t
        /\ \A u \in OfTxn(t) : u \in DOMAIN splits /\ u.txn = t
    BY DEF OfTxn, Of, BagToSet
  <2>2. \A u \in OfTxn(t) : u.lot = s.lot => PlaceOf(u) = PlaceOf(s)
    BY <2>1 DEF PlaceOf
  <2>3. QED
    BY <1>1, <2>1, <2>2 DEF BagInv, LinksIn, HasDoc
<1>4. QED
  BY <1>1, <1>2, <1>3 DEF LinkSound

\* gncInvoiceAttachToLot, gnc_lot_add_split: types, and a document that is posted has its
\* one split in the one lot that is attached to it.
THEOREM LotTypeCorrect == Spec => []LotTypeOK
BY LotInvHolds, LotInvTypes, PTL

\* gncOwnerReduceSplitTo, gncOwnerOffsetLots, merge_splits: the parts a payment is divided
\* into sum to what was paid, for any amounts and however often it is divided.
THEOREM PaymentWholeHolds == Spec => []PaymentWhole
BY LotInvHolds, LotInvWhole, PTL

\* gncOwnerCreateLotLink, gncInvoiceUnpost: links are balanced, have one split in the lot
\* of each document, and taking a document back never reads a split that is freed.
THEOREM LinkSoundHolds == Spec => []LinkSound
BY LotInvHolds, LotInvLinks, PTL

LEMMA SameSum ==
    ASSUME NEW f
    PROVE  R!SumOver(f) = SumOver(f)
BY DEF SumOver, R!SumOver, FoldFunction, R!FoldFunction, FoldFunctionOnSet, R!FoldFunctionOnSet, MapThenFoldSet, R!MapThenFoldSet

-----------------------------------------------------------------------------
(* What is owed: the inductive invariant.                                  *)

\* a takes from n, or nothing.
Opposes(a, n) == (n >= 0 => a <= 0) /\ (n <= 0 => a >= 0)

\* What else is in the lot of a document takes from the document's total, and never
\* more than that.
Signs(b, v) ==
    \A l \in Lot : v[l] # None =>
      /\ R!Within(Worth(b, InL(l)), Total[v[l]])
      /\ \A s \in DOMAIN b : s.lot = l /\ s.txn # v[l] => Opposes(s.amount, Total[v[l]])

PaidOnes(b, pd) == \A s \in DOMAIN b : s.txn \in Payment => pd[s.txn] # 0

\* While other lots are looked at for a document's it is only paid.
LeftSigned ==
    left # 0 /\ invoice[list[left]] # None =>
      leftBal # 0 /\ Sign(leftBal) = Sign(Total[invoice[list[left]]])

OwedInv ==
    /\ LotInv
    /\ Signs(splits, invoice)
    /\ PaidOnes(splits, paid)
    /\ LeftSigned

LEMMA WorthPart ==
    ASSUME NEW b, NEW C, NEW D, Part(b, C) = Part(b, D)
    PROVE  Worth(b, C) = Worth(b, D)
BY DEF Worth, Worths

\* What is owed on the documents, and what the owner has beyond them, by the bag b of
\* splits and the attachments v.
DocC(v, d) == {s \in AllSplits : v[s.lot] = d}
FreeC(v) == {s \in AllSplits : v[s.lot] = None}
PostedOf(v) == {d \in Doc : \E l \in Lot : v[l] = d}
OwedOf(b, v) == [d \in Doc |-> Worth(b, DocC(v, d))]
CreditOf(b, v) == Worth(b, FreeC(v))

LEMMA SumOfDoc ==
    ASSUME NEW b, SplitBag(b), NEW v, NEW d
    PROVE  SumOf(b, LAMBDA s : v[s.lot] = d) = Worth(b, DocC(v, d))
<1>1. {s \in DOMAIN b : v[s.lot] = d} = Part(b, DocC(v, d))
  BY DEF Part, DocC, SplitBag
<1>2. QED
  BY <1>1 DEF SumOf, Of, BagToSet, Worth, Worths

LEMMA SumOfFree ==
    ASSUME NEW b, SplitBag(b), NEW v
    PROVE  SumOf(b, LAMBDA s : ~ (v[s.lot] # None)) = Worth(b, FreeC(v))
<1>1. {s \in DOMAIN b : ~ (v[s.lot] # None)} = Part(b, FreeC(v))
  BY DEF Part, FreeC, SplitBag
<1>2. QED
  BY <1>1 DEF SumOf, Of, BagToSet, Worth, Worths

\* What is owed on a document is the balance of its lot.
LEMMA OwedIn ==
    ASSUME NEW b, SplitBag(b), NEW v, DocsIn(b, v), NEW l \in Lot, NEW d \in Doc, v[l] = d
    PROVE  OwedOf(b, v)[d] = Worth(b, InL(l))
<1>1. d # None
  BY InvoiceLotsAssumption
<1>2. \A s \in AllSplits : s.lot \in Lot
  BY DEF AllSplits
<1>3. Part(b, DocC(v, d)) = Part(b, InL(l))
  BY <1>1, <1>2 DEF Part, DocC, InL, DocsIn
<1>4. QED
  BY <1>3, WorthPart DEF OwedOf

LEMMA OwedOut ==
    ASSUME NEW b, SplitBag(b), NEW v, NEW d \in Doc, \A l \in Lot : v[l] # d
    PROVE  OwedOf(b, v)[d] = 0
<1>1. \A s \in DOMAIN b : s \notin DocC(v, d)
  BY DEF DocC, AllSplits
<1>2. Worth(b, DocC(v, d)) = 0
  BY <1>1, WorthNone
<1>3. QED
  BY <1>2 DEF OwedOf

\* The account is what all splits are worth.
LEMMA AccountIs ==
    ASSUME NEW b, SplitBag(b), NEW v \in [Lot -> Doc \cup {None}]
    PROVE  /\ CreditOf(b, v) + SumOver(OwedOf(b, v)) = Worth(b, AllSplits)
           /\ CreditOf(b, v) \in Int /\ SumOver(OwedOf(b, v)) \in Int
           /\ OwedOf(b, v) \in [Doc -> Int]
<1> DEFINE N == {s \in AllSplits : v[s.lot] # None}
           D == Part(b, N)
           f == Worths(b, N)
           k == [s \in D |-> v[s.lot]]
<1>1. IsFiniteSet(D) /\ f \in [D -> Int]
  BY WorthsType
<1>2. k \in [D -> Doc]
  BY DEF Part, AllSplits
<1>3. ASSUME NEW d \in Doc PROVE Class(f, k, d) = Worths(b, DocC(v, d))
  <2>1. {s \in D : k[s] = d} = Part(b, DocC(v, d))
    BY InvoiceLotsAssumption DEF Part, DocC
  <2>2. DOMAIN f = D /\ \A s \in D : f[s] = s.amount * b[s]
    BY DEF Worths
  <2>3. Class(f, k, d) = [s \in {y \in D : k[y] = d} |-> s.amount * b[s]]
    BY <2>2 DEF Class
  <2>4. QED
    BY <2>1, <2>3 DEF Worths
<1>4. Worth(b, AllSplits) = Worth(b, FreeC(v)) + Worth(b, N)
  BY WorthUnion DEF FreeC, SplitBag
<1> HIDE DEF D, f, k
<1>5. SumOver(f) = SumOver([d \in Doc |-> SumOver(Class(f, k, d))])
  BY <1>1, <1>2, SumByClass, InvoiceLotsAssumption
<1>6. [d \in Doc |-> SumOver(Class(f, k, d))] = OwedOf(b, v)
  BY <1>3 DEF OwedOf, Worth
<1>7. Worth(b, N) = SumOver(OwedOf(b, v))
  BY <1>5, <1>6 DEF f, Worth
<1>8. OwedOf(b, v) \in [Doc -> Int]
  BY WorthType DEF OwedOf
<1>9. SumOver(OwedOf(b, v)) \in Int
  BY <1>8, SumType, InvoiceLotsAssumption
<1>10. CreditOf(b, v) \in Int
  BY WorthType DEF CreditOf
<1> HIDE DEF N
<1>11. QED
  BY <1>4, <1>7, <1>8, <1>9, <1>10 DEF CreditOf

\* A document is never owed more than its total.
LEMMA OwedBound ==
    ASSUME NEW b, SplitBag(b), NEW v, DocsIn(b, v), NEW l \in Lot, NEW d \in Doc, v[l] = d,
           \A s \in DOMAIN b : s.lot = l /\ s.txn # d => Opposes(s.amount, Total[d])
    PROVE  /\ Total[d] >= 0 => Worth(b, InL(l)) <= Total[d]
           /\ Total[d] <= 0 => Worth(b, InL(l)) >= Total[d]
<1> DEFINE s == SplitRec(d, l, Total[d])
           rest == InL(l) \ {s}
<1>1. Total[d] \in Int /\ d # None
  BY InvoiceLotsAssumption
<1>2. s \in DOMAIN b /\ s.txn = d /\ s.lot = l /\ s.amount = Total[d] /\ b[s] = 1
  BY <1>1 DEF DocsIn, SplitRec
<1>3. s \in AllSplits
  BY <1>2 DEF SplitBag
<1>4. ASSUME NEW q \in DOMAIN b, q \in rest PROVE Opposes(q.amount, Total[d])
  <2>1. q \in AllSplits /\ q.lot = l /\ q # s
    BY <1>4 DEF InL
  <2>2. q.txn # d
    <3>1. q = SplitRec(q.txn, q.lot, q.amount)
      BY <2>1 DEF AllSplits, SplitRec
    <3>2. q.txn = d => q.amount = Total[d]
      BY DEF DocsIn
    <3>3. QED
      BY <2>1, <3>1, <3>2
  <2>3. QED
    BY <2>1, <2>2
<1>5. Worth(b, InL(l)) = Worth(b, {s}) + Worth(b, rest)
  <2>1. s \in InL(l)
    BY <1>2, <1>3 DEF InL
  <2> HIDE DEF s
  <2>2. QED
    BY <2>1, WorthUnion
<1>6. Worth(b, {s}) = Total[d]
  <2> HIDE DEF s
  <2>1. Worth(b, {s}) = s.amount * b[s]
    BY <1>2, <1>3, WorthOne
  <2>2. QED
    BY <1>1, <1>2, <2>1
<1>7. Worth(b, rest) \in Int
  BY WorthType
<1> HIDE DEF s, rest
<1>8. Total[d] >= 0 => Worth(b, rest) <= 0
  <2> SUFFICES ASSUME Total[d] >= 0 PROVE Worth(b, rest) <= 0
    OBVIOUS
  <2>1. \A q \in DOMAIN b : q \in rest => q.amount <= 0
    BY <1>1, <1>4 DEF Opposes
  <2>2. QED
    BY <2>1, WorthNotPositive
<1>9. Total[d] <= 0 => Worth(b, rest) >= 0
  <2> SUFFICES ASSUME Total[d] <= 0 PROVE Worth(b, rest) >= 0
    OBVIOUS
  <2>1. \A q \in DOMAIN b : q \in rest => q.amount >= 0
    BY <1>1, <1>4 DEF Opposes
  <2>2. QED
    BY <2>1, WorthNotNegative
<1>10. QED
  BY <1>1, <1>5, <1>6, <1>7, <1>8, <1>9

\* What is to be shown of a bag: the sign of what is owed.
LEMMA SignsFrom ==
    ASSUME NEW b, SplitBag(b), NEW v \in [Lot -> Doc \cup {None}], DocsIn(b, v),
           \A l \in Lot : v[l] # None =>
             /\ Total[v[l]] >= 0 => Worth(b, InL(l)) >= 0
             /\ Total[v[l]] <= 0 => Worth(b, InL(l)) <= 0
             /\ \A s \in DOMAIN b : s.lot = l /\ s.txn # v[l] => Opposes(s.amount, Total[v[l]])
    PROVE  Signs(b, v)
<1> SUFFICES ASSUME NEW l \in Lot, v[l] # None
             PROVE  R!Within(Worth(b, InL(l)), Total[v[l]])
  BY DEF Signs
<1>1. v[l] \in Doc /\ Total[v[l]] \in Int
  BY InvoiceLotsAssumption
<1>2. /\ Total[v[l]] >= 0 => Worth(b, InL(l)) <= Total[v[l]]
      /\ Total[v[l]] <= 0 => Worth(b, InL(l)) >= Total[v[l]]
  BY <1>1, OwedBound
<1>3. Worth(b, InL(l)) \in Int
  BY WorthType
<1>4. QED
  BY <1>1, <1>2, <1>3 DEF R!Within

\* Receivable's Bounded.
LEMMA BoundedIs ==
    ASSUME NEW b, SplitBag(b), NEW v \in [Lot -> Doc \cup {None}], DocsIn(b, v), Signs(b, v),
           NEW d \in Doc
    PROVE  R!Within(OwedOf(b, v)[d], IF d \in PostedOf(v) THEN Total[d] ELSE 0)
<1>1. d # None
  BY InvoiceLotsAssumption
<1>2. CASE d \in PostedOf(v)
  <2>1. PICK l \in Lot : v[l] = d
    BY <1>2 DEF PostedOf
  <2>2. QED
    BY <1>1, <1>2, <2>1, OwedIn DEF Signs
<1>3. CASE d \notin PostedOf(v)
  <2>1. OwedOf(b, v)[d] = 0
    BY <1>3, OwedOut DEF PostedOf
  <2>2. QED
    BY <1>3, <2>1 DEF R!Within
<1>4. QED
  BY <1>2, <1>3

-----------------------------------------------------------------------------
(* What the operations owe.                                                *)

LEMMA LessWorth ==
    ASSUME NEW b, SplitBag(b), NEW t, NEW C \in SUBSET AllSplits
    PROVE  /\ Worth(b, C) = Worth(Less(b, t), C) + Worth(b, C \cap OfT(t))
           /\ Worth(Less(b, t), C) \in Int /\ Worth(b, C \cap OfT(t)) \in Int
<1> DEFINE c == Less(b, t)
           D == C \ OfT(t)
           E == C \cap OfT(t)
<1>1. /\ SplitBag(c)
      /\ \A s : s \in DOMAIN c <=> s \in DOMAIN b /\ s.txn # t
      /\ \A s \in DOMAIN c : c[s] = b[s]
  BY LessIs
<1> HIDE DEF c
<1>2. Worth(b, C) = Worth(b, D) + Worth(b, E)
  BY WorthUnion
<1>3. Worth(c, C) = Worth(c, D) + Worth(c, E)
  BY <1>1, WorthUnion
<1>4. SameOn(b, c, D)
  BY <1>1 DEF SameOn, OfT
<1>5. Worth(b, D) = Worth(c, D)
  BY <1>4, WorthSame
<1>6. Worth(c, E) = 0
  <2>1. \A s \in DOMAIN c : s \notin E
    BY <1>1 DEF OfT
  <2> HIDE DEF E
  <2>2. QED
    BY <1>1, <2>1, WorthNone
<1>7. Worth(c, C) \in Int /\ Worth(b, E) \in Int /\ Worth(c, D) \in Int
  BY <1>1, WorthType
<1> HIDE DEF D, E
<1>8. QED
  BY <1>2, <1>3, <1>5, <1>6, <1>7 DEF c, E

\* The sum of splits that all take from a document.
LEMMA TakenSign ==
    ASSUME NEW b, SplitBag(b), NEW C, NEW n \in Int,
           \A s \in DOMAIN b : s \in C => Opposes(s.amount, n)
    PROVE  Worth(b, C) \in Int /\ Opposes(Worth(b, C), n)
<1>1. Worth(b, C) \in Int
  BY WorthType
<1>2. ASSUME n >= 0 PROVE Worth(b, C) <= 0
  <2>1. \A s \in DOMAIN b : s \in C => s.amount <= 0
    BY <1>2 DEF Opposes
  <2>2. QED
    BY <2>1, WorthNotPositive
<1>3. ASSUME n <= 0 PROVE Worth(b, C) >= 0
  <2>1. \A s \in DOMAIN b : s \in C => s.amount >= 0
    BY <1>3 DEF Opposes
  <2>2. QED
    BY <2>1, WorthNotNegative
<1>4. QED
  BY <1>1, <1>2, <1>3 DEF Opposes

\* A payment or a link is deleted: what it paid is owed again.
LEMMA DeleteOwes ==
    ASSUME NEW b, SplitBag(b), NEW v \in [Lot -> Doc \cup {None}], DocsIn(b, v), Signs(b, v),
           NEW t, t \notin Doc, DocsIn(Less(b, t), v)
    PROVE  /\ Signs(Less(b, t), v)
           /\ \A d \in Doc : R!Within(OwedOf(b, v)[d], OwedOf(Less(b, t), v)[d])
           /\ Worth(Less(b, t), AllSplits) = Worth(b, AllSplits) - Worth(b, OfT(t))
<1> DEFINE c == Less(b, t)
<1>1. /\ SplitBag(c) /\ \A s : s \in DOMAIN c <=> s \in DOMAIN b /\ s.txn # t
  BY LessIs
<1>2. DocsIn(c, v)
  OBVIOUS
<1>3. ASSUME NEW l \in Lot, v[l] # None
      PROVE  /\ Total[v[l]] >= 0 => Worth(c, InL(l)) >= Worth(b, InL(l)) /\ Worth(b, InL(l)) >= 0
             /\ Total[v[l]] <= 0 => Worth(c, InL(l)) <= Worth(b, InL(l)) /\ Worth(b, InL(l)) <= 0
             /\ Total[v[l]] \in Int
  <2>1. v[l] \in Doc /\ v[l] # t /\ Total[v[l]] \in Int
    BY <1>3, InvoiceLotsAssumption
  <2>2. \A s \in DOMAIN b : s \in InL(l) \cap OfT(t) => Opposes(s.amount, Total[v[l]])
    BY <1>3, <2>1 DEF Signs, InL, OfT
  <2>3. /\ Worth(b, InL(l) \cap OfT(t)) \in Int
        /\ Opposes(Worth(b, InL(l) \cap OfT(t)), Total[v[l]])
    BY <2>1, <2>2, TakenSign
  <2>4. /\ Worth(b, InL(l)) = Worth(c, InL(l)) + Worth(b, InL(l) \cap OfT(t))
        /\ Worth(c, InL(l)) \in Int
    BY LessWorth, TxnsAndLots
  <2>5. R!Within(Worth(b, InL(l)), Total[v[l]])
    BY <1>3 DEF Signs
  <2> HIDE DEF c
  <2>6. QED
    BY <2>1, <2>3, <2>4, <2>5 DEF R!Within, Opposes
<1>4. \A l : Worth(b, InL(l)) \in Int /\ Worth(c, InL(l)) \in Int
  BY <1>1, WorthType
<1>5. \A l \in Lot, s \in DOMAIN c : v[l] # None /\ s.lot = l /\ s.txn # v[l] => Opposes(s.amount, Total[v[l]])
  BY <1>1 DEF Signs
<1>6. Worth(c, AllSplits) = Worth(b, AllSplits) - Worth(b, OfT(t))
  <2>1. /\ Worth(b, AllSplits) = Worth(c, AllSplits) + Worth(b, AllSplits \cap OfT(t))
        /\ Worth(c, AllSplits) \in Int /\ Worth(b, AllSplits \cap OfT(t)) \in Int
    BY LessWorth
  <2>2. Worth(b, AllSplits \cap OfT(t)) = Worth(b, OfT(t))
    <3>1. AllSplits \cap OfT(t) = OfT(t)
      BY DEF OfT
    <3>2. QED
      BY <3>1, Zenon
  <2> HIDE DEF c
  <2>3. QED
    BY <2>1, <2>2
<1> HIDE DEF c
<1>7. Signs(c, v)
  <2>1. \A l \in Lot : v[l] # None =>
             /\ Total[v[l]] >= 0 => Worth(c, InL(l)) >= 0
             /\ Total[v[l]] <= 0 => Worth(c, InL(l)) <= 0
             /\ \A s \in DOMAIN c : s.lot = l /\ s.txn # v[l] => Opposes(s.amount, Total[v[l]])
    BY <1>3, <1>4, <1>5
  <2>2. QED
    BY <1>1, <1>2, <2>1, SignsFrom
<1>8. ASSUME NEW d \in Doc PROVE R!Within(OwedOf(b, v)[d], OwedOf(c, v)[d])
  <2>1. CASE \E l \in Lot : v[l] = d
    <3>1. PICK l \in Lot : v[l] = d
      BY <2>1
    <3>2. d # None
      BY InvoiceLotsAssumption
    <3>3. OwedOf(b, v)[d] = Worth(b, InL(l)) /\ OwedOf(c, v)[d] = Worth(c, InL(l))
      BY <1>1, <1>2, <3>1, OwedIn
    <3>4. QED
      BY <1>3, <1>4, <3>1, <3>2, <3>3 DEF R!Within
  <2>2. CASE \A l \in Lot : v[l] # d
    <3>1. OwedOf(b, v)[d] = 0 /\ OwedOf(c, v)[d] = 0
      BY <1>1, <2>2, OwedOut
    <3>2. QED
      BY <3>1 DEF R!Within
  <2>3. QED
    BY <2>1, <2>2
<1>9. QED
  BY <1>6, <1>7, <1>8 DEF c

\* A payment is entered, in a lot that is no document's.
LEMMA PayOwes ==
    ASSUME NEW b, SplitBag(b), NEW v \in [Lot -> Doc \cup {None}], DocsIn(b, v), Signs(b, v),
           NEW l \in Lot, v[l] = None, NEW p \in Payment, NEW a \in Int,
           DocsIn(b (+) One(SplitRec(p, l, - a)), v)
    PROVE  LET c == b (+) One(SplitRec(p, l, - a))
           IN  Signs(c, v) /\ OwedOf(c, v) = OwedOf(b, v) /\ CreditOf(c, v) = CreditOf(b, v) - a
<1> DEFINE s == SplitRec(p, l, - a)
           c == b (+) One(s)
<1>1. s \in AllSplits /\ s.lot = l /\ s.amount = - a
  BY DEF SplitRec, AllSplits, Txn
<1>2. /\ SplitBag(c)
      /\ \A C \in SUBSET AllSplits : Worth(c, C) = Worth(b, C) + IF s \in C THEN - a ELSE 0
      /\ DOMAIN c = DOMAIN b \cup {s}
  <2> HIDE DEF s
  <2>1. /\ SplitBag(c)
        /\ \A C \in SUBSET AllSplits : Worth(c, C) = Worth(b, C) + IF s \in C THEN s.amount ELSE 0
    BY <1>1, WorthAdd
  <2>2. DOMAIN c = DOMAIN b \cup DOMAIN One(s)
    BY PlusIs
  <2>3. DOMAIN One(s) = {s}
    BY OneType
  <2> HIDE DEF c
  <2>4. QED
    BY <1>1, <2>1, <2>2, <2>3
<1>0. DocsIn(c, v)
  OBVIOUS
<1> HIDE DEF s, c
<1>3. ASSUME NEW k \in Lot, v[k] # None PROVE Worth(c, InL(k)) = Worth(b, InL(k))
  <2>1. s \notin InL(k)
    BY <1>1, <1>3 DEF InL
  <2>2. Worth(b, InL(k)) \in Int
    BY WorthType
  <2>3. QED
    BY <1>2, <2>1, <2>2, TxnsAndLots
<1>4. Signs(c, v)
  <2>1. ASSUME NEW k \in Lot, v[k] # None, NEW q \in DOMAIN c, q.lot = k, q.txn # v[k]
        PROVE  Opposes(q.amount, Total[v[k]])
    <3>1. q \in DOMAIN b
      BY <1>1, <1>2, <2>1
    <3>2. QED
      BY <2>1, <3>1 DEF Signs
  <2>2. QED
    BY <1>3, <2>1 DEF Signs
<1>5. OwedOf(c, v) = OwedOf(b, v)
  <2>1. ASSUME NEW d \in Doc PROVE Worth(c, DocC(v, d)) = Worth(b, DocC(v, d))
    <3>1. s \notin DocC(v, d)
      BY <1>1, InvoiceLotsAssumption DEF DocC
    <3>2. Worth(b, DocC(v, d)) \in Int /\ DocC(v, d) \in SUBSET AllSplits
      BY WorthType DEF DocC
    <3>3. QED
      BY <1>2, <3>1, <3>2
  <2>2. QED
    BY <2>1 DEF OwedOf
<1>6. CreditOf(c, v) = CreditOf(b, v) - a
  <2>1. s \in FreeC(v) /\ FreeC(v) \in SUBSET AllSplits
    BY <1>1 DEF FreeC
  <2>2. Worth(b, FreeC(v)) \in Int
    BY WorthType
  <2>3. QED
    BY <1>2, <2>1, <2>2 DEF CreditOf
<1>7. QED
  BY <1>4, <1>5, <1>6 DEF c, s

\* A document is posted in an empty lot.
Posts(b, v, l, d, c, w) ==
    c = b (+) One(SplitRec(d, l, Total[d])) /\ w = [v EXCEPT ![l] = d]
OwesTotal(b, v, d, c, w) ==
    /\ OwedOf(c, w) = [OwedOf(b, v) EXCEPT ![d] = Total[d]]
    /\ CreditOf(c, w) = CreditOf(b, v)
    /\ PostedOf(w) = PostedOf(v) \cup {d}

LEMMA PostOwes ==
    ASSUME NEW b, SplitBag(b), NEW v \in [Lot -> Doc \cup {None}], DocsIn(b, v), Signs(b, v),
           NEW l \in Lot, v[l] = None, \A s \in DOMAIN b : s.lot # l,
           NEW d \in Doc, \A m \in Lot : v[m] # d,
           NEW c, NEW w, Posts(b, v, l, d, c, w), DocsIn(c, w)
    PROVE  Signs(c, w) /\ OwesTotal(b, v, d, c, w)
<1> DEFINE s == SplitRec(d, l, Total[d])
<1>1. s \in AllSplits /\ s.lot = l /\ s.amount = Total[d] /\ s.txn = d /\ Total[d] \in Int
      /\ d # None
  BY InvoiceLotsAssumption DEF SplitRec, AllSplits, Txn
<1>2. /\ SplitBag(c)
      /\ \A C \in SUBSET AllSplits : Worth(c, C) = Worth(b, C) + IF s \in C THEN Total[d] ELSE 0
      /\ DOMAIN c = DOMAIN b \cup {s}
  <2>0. c = b (+) One(s)
    BY DEF Posts
  <2> HIDE DEF s
  <2>1. /\ SplitBag(c)
        /\ \A C \in SUBSET AllSplits : Worth(c, C) = Worth(b, C) + IF s \in C THEN s.amount ELSE 0
    BY <1>1, <2>0, WorthAdd
  <2>2. DOMAIN c = DOMAIN b \cup DOMAIN One(s)
    BY <2>0, PlusIs
  <2>3. DOMAIN One(s) = {s}
    BY OneType
  <2>4. QED
    BY <1>1, <2>1, <2>2, <2>3
<1>3. w \in [Lot -> Doc \cup {None}] /\ \A m \in Lot : w[m] = IF m = l THEN d ELSE v[m]
  BY DEF Posts
<1>a. \A q \in DOMAIN b : q \in AllSplits /\ q.lot \in Lot
  BY DEF SplitBag, AllSplits
<1> HIDE DEF s
<1>4. ASSUME NEW k \in Lot, k # l PROVE Worth(c, InL(k)) = Worth(b, InL(k))
  <2>1. s \notin InL(k)
    BY <1>1, <1>4 DEF InL
  <2>2. Worth(b, InL(k)) \in Int
    BY WorthType
  <2>3. QED
    BY <1>2, <2>1, <2>2, TxnsAndLots
<1>5. Worth(c, InL(l)) = Total[d]
  <2>1. s \in InL(l)
    BY <1>1 DEF InL
  <2>2. Worth(b, InL(l)) = 0
    <3>1. \A q \in DOMAIN b : q \notin InL(l)
      BY DEF InL
    <3>2. QED
      BY <3>1, WorthNone
  <2>3. QED
    BY <1>1, <1>2, <2>1, <2>2, TxnsAndLots
<1>6. Signs(c, w)
  <2> SUFFICES ASSUME NEW k \in Lot, w[k] # None
               PROVE  /\ R!Within(Worth(c, InL(k)), Total[w[k]])
                      /\ \A q \in DOMAIN c : q.lot = k /\ q.txn # w[k] => Opposes(q.amount, Total[w[k]])
    BY DEF Signs
  <2>1. CASE k = l
    <3>1. R!Within(Worth(c, InL(k)), Total[w[k]])
      BY <1>1, <1>3, <1>5, <2>1 DEF R!Within
    <3>2. \A q \in DOMAIN c : q.lot = k => q.txn = w[k]
      BY <1>1, <1>2, <1>3, <2>1
    <3>3. QED
      BY <3>1, <3>2
  <2>2. CASE k # l
    <3>1. w[k] = v[k] /\ v[k] # None
      BY <1>3, <2>2
    <3>2. \A q \in DOMAIN c : q.lot = k => q \in DOMAIN b
      BY <1>1, <1>2, <2>2
    <3>3. QED
      BY <1>4, <2>2, <3>1, <3>2 DEF Signs
  <2>3. QED
    BY <2>1, <2>2
<1>7. ASSUME NEW e \in Doc PROVE OwedOf(c, w)[e] = IF e = d THEN Total[d] ELSE OwedOf(b, v)[e]
  <2>1. CASE e = d
    <3>1. w[l] = d
      BY <1>3
    <3>2. OwedOf(c, w)[d] = Worth(c, InL(l))
      BY <1>2, <3>1, OwedIn
    <3>3. QED
      BY <1>5, <2>1, <3>2
  <2>2. CASE e # d
    <3>1. s \notin DocC(w, e)
      BY <1>1, <1>3, <2>2 DEF DocC
    <3>2. Part(b, DocC(w, e)) = Part(b, DocC(v, e))
      BY <1>3, <1>a DEF Part, DocC
    <3>3. Worth(b, DocC(w, e)) = Worth(b, DocC(v, e))
      BY <3>2, WorthPart
    <3>4. Worth(b, DocC(v, e)) \in Int /\ DocC(w, e) \in SUBSET AllSplits
      BY WorthType DEF DocC
    <3>5. Worth(c, DocC(w, e)) = Worth(b, DocC(v, e))
      BY <1>2, <3>1, <3>3, <3>4
    <3>6. QED
      BY <2>2, <3>5 DEF OwedOf
  <2>3. QED
    BY <2>1, <2>2
<1>8. OwedOf(c, w) = [OwedOf(b, v) EXCEPT ![d] = Total[d]]
  <2>1. OwedOf(c, w) = [e \in Doc |-> OwedOf(c, w)[e]]
    BY DEF OwedOf
  <2>2. [OwedOf(b, v) EXCEPT ![d] = Total[d]] = [e \in Doc |-> IF e = d THEN Total[d] ELSE OwedOf(b, v)[e]]
    BY DEF OwedOf
  <2>3. QED
    BY <1>7, <2>1, <2>2, Zenon
<1>9. CreditOf(c, w) = CreditOf(b, v)
  <2>1. s \notin FreeC(w)
    BY <1>1, <1>3 DEF FreeC
  <2>2. Part(b, FreeC(w)) = Part(b, FreeC(v))
    BY <1>3, <1>a DEF Part, FreeC
  <2>3. Worth(b, FreeC(w)) = Worth(b, FreeC(v))
    BY <2>2, WorthPart
  <2>4. Worth(b, FreeC(v)) \in Int /\ FreeC(w) \in SUBSET AllSplits
    BY WorthType DEF FreeC
  <2>5. QED
    BY <1>2, <2>1, <2>3, <2>4 DEF CreditOf
<1>10. PostedOf(w) = PostedOf(v) \cup {d}
  BY <1>3, InvoiceLotsAssumption DEF PostedOf
<1>11. QED
  BY <1>6, <1>8, <1>9, <1>10 DEF OwesTotal

\* A document is taken back.
Unposts(b, v, l, d, c, w) == c = Less(b, d) /\ w = [v EXCEPT ![l] = None]
OwesNothing(b, v, d, c, w) ==
    /\ OwedOf(c, w) = [OwedOf(b, v) EXCEPT ![d] = 0]
    /\ Worth(c, AllSplits) = Worth(b, AllSplits) - Total[d]
    /\ PostedOf(w) = PostedOf(v) \ {d}

LEMMA UnpostOwes ==
    ASSUME NEW b, SplitBag(b), NEW v \in [Lot -> Doc \cup {None}], DocsIn(b, v), Signs(b, v),
           NEW l \in Lot, NEW d \in Doc, v[l] = d,
           NEW c, NEW w, Unposts(b, v, l, d, c, w), DocsIn(c, w)
    PROVE  Signs(c, w) /\ OwesNothing(b, v, d, c, w)
<1> DEFINE s == SplitRec(d, l, Total[d])
<1>1. /\ SplitBag(c)
      /\ \A q : q \in DOMAIN c <=> q \in DOMAIN b /\ q.txn # d
      /\ \A q \in DOMAIN c : c[q] = b[q]
  <2>1. c = Less(b, d)
    BY DEF Unposts
  <2>2. QED
    BY <2>1, LessIs
<1>2. w \in [Lot -> Doc \cup {None}] /\ \A m \in Lot : w[m] = IF m = l THEN None ELSE v[m]
  BY DEF Unposts
<1>3. /\ Total[d] \in Int /\ d # None
      /\ \A q \in DOMAIN b : q \in AllSplits /\ q.lot \in Lot
  BY InvoiceLotsAssumption DEF SplitBag, AllSplits
<1>4. \A m \in Lot : v[m] = d => m = l
  BY <1>3 DEF DocsIn
<1>5. \A q \in DOMAIN b : q.txn = d => q = s
  <2> SUFFICES ASSUME NEW q \in DOMAIN b, q.txn = d PROVE q = s
    OBVIOUS
  <2>1. v[q.lot] = d /\ q.amount = Total[d] /\ q \in AllSplits /\ q.lot \in Lot
    BY <1>3 DEF DocsIn
  <2>2. q.lot = l /\ q = SplitRec(q.txn, q.lot, q.amount)
    BY <1>4, <2>1 DEF AllSplits, SplitRec
  <2>3. QED
    BY <2>1, <2>2
<1>6. s \in DOMAIN b /\ s \in AllSplits /\ s.txn = d /\ s.lot = l /\ s.amount = Total[d] /\ b[s] = 1
  <2>1. s \in DOMAIN b
    BY <1>3 DEF DocsIn
  <2>2. s.txn = d /\ s.lot = l /\ s.amount = Total[d]
    BY DEF SplitRec
  <2>3. QED
    BY <1>3, <2>1, <2>2 DEF DocsIn
<1> HIDE DEF s
<1>7. \A k : k # l => SameOn(b, c, InL(k))
  BY <1>1, <1>5, <1>6 DEF SameOn, InL
<1>8. Signs(c, w)
  <2> SUFFICES ASSUME NEW k \in Lot, w[k] # None
               PROVE  /\ R!Within(Worth(c, InL(k)), Total[w[k]])
                      /\ \A q \in DOMAIN c : q.lot = k /\ q.txn # w[k] => Opposes(q.amount, Total[w[k]])
    BY DEF Signs
  <2>1. k # l /\ w[k] = v[k]
    BY <1>2
  <2>2. Worth(c, InL(k)) = Worth(b, InL(k))
    BY <1>7, <2>1, WorthSame
  <2>3. QED
    BY <1>1, <2>1, <2>2 DEF Signs
<1>9. ASSUME NEW e \in Doc PROVE OwedOf(c, w)[e] = IF e = d THEN 0 ELSE OwedOf(b, v)[e]
  <2>1. CASE e = d
    <3>1. \A m \in Lot : w[m] # d
      BY <1>2, <1>3, <1>4
    <3>2. QED
      BY <1>1, <2>1, <3>1, OwedOut
  <2>2. CASE e # d
    <3>1. SameOn(b, c, DocC(v, e))
      BY <1>1, <1>5, <1>6, <2>2 DEF SameOn, DocC
    <3>2. Worth(c, DocC(v, e)) = Worth(b, DocC(v, e))
      BY <3>1, WorthSame
    <3>3. e # None
      BY InvoiceLotsAssumption
    <3>4. DocC(w, e) = DocC(v, e)
      BY <1>2, <2>2, <3>3 DEF DocC, AllSplits
    <3>5. QED
      BY <2>2, <3>2, <3>4 DEF OwedOf
  <2>3. QED
    BY <2>1, <2>2
<1>10. OwedOf(c, w) = [OwedOf(b, v) EXCEPT ![d] = 0]
  <2>1. OwedOf(c, w) = [e \in Doc |-> OwedOf(c, w)[e]]
    BY DEF OwedOf
  <2>2. [OwedOf(b, v) EXCEPT ![d] = 0] = [e \in Doc |-> IF e = d THEN 0 ELSE OwedOf(b, v)[e]]
    BY DEF OwedOf
  <2>3. QED
    BY <1>9, <2>1, <2>2, Zenon
<1>11. Worth(c, AllSplits) = Worth(b, AllSplits) - Total[d]
  <2>1. /\ Worth(b, AllSplits) = Worth(c, AllSplits) + Worth(b, AllSplits \cap OfT(d))
        /\ Worth(c, AllSplits) \in Int
    <3>1. c = Less(b, d)
      BY DEF Unposts
    <3>2. QED
      BY <3>1, LessWorth
  <2>2. Part(b, AllSplits \cap OfT(d)) = Part(b, {s})
    BY <1>5, <1>6 DEF Part, OfT
  <2>3. Worth(b, AllSplits \cap OfT(d)) = Worth(b, {s})
    BY <2>2, WorthPart
  <2>4. Worth(b, {s}) = s.amount * b[s]
    BY <1>6, WorthOne
  <2>5. Worth(b, {s}) = Total[d]
    BY <1>3, <1>6, <2>4
  <2>6. QED
    BY <1>3, <2>1, <2>3, <2>5
<1>12. PostedOf(w) = PostedOf(v) \ {d}
  BY <1>2, <1>3, <1>4, InvoiceLotsAssumption DEF PostedOf
<1>13. QED
  BY <1>8, <1>10, <1>11, <1>12 DEF OwesNothing

\* Documents are only paid: it is enough to look at the lots.
LEMMA SettleFrom ==
    ASSUME NEW b, SplitBag(b), NEW c, SplitBag(c), NEW v \in [Lot -> Doc \cup {None}],
           DocsIn(b, v), DocsIn(c, v), Signs(b, v),
           \A l \in Lot : v[l] # None =>
             /\ R!Within(Worth(c, InL(l)), Worth(b, InL(l)))
             /\ \A s \in DOMAIN c : s.lot = l /\ s.txn # v[l] => Opposes(s.amount, Total[v[l]])
    PROVE  Signs(c, v) /\ \A d \in Doc : R!Within(OwedOf(c, v)[d], OwedOf(b, v)[d])
<1>1. \A l : Worth(b, InL(l)) \in Int /\ Worth(c, InL(l)) \in Int
  BY WorthType
<1>2. ASSUME NEW l \in Lot, v[l] # None
      PROVE  /\ Total[v[l]] >= 0 => Worth(c, InL(l)) >= 0
             /\ Total[v[l]] <= 0 => Worth(c, InL(l)) <= 0
  <2>1. Total[v[l]] \in Int
    BY <1>2, InvoiceLotsAssumption
  <2>2. R!Within(Worth(b, InL(l)), Total[v[l]]) /\ R!Within(Worth(c, InL(l)), Worth(b, InL(l)))
    BY <1>2 DEF Signs
  <2>3. QED
    BY <1>1, <2>1, <2>2 DEF R!Within
<1>3. Signs(c, v)
  BY <1>2, SignsFrom
<1>4. ASSUME NEW d \in Doc PROVE R!Within(OwedOf(c, v)[d], OwedOf(b, v)[d])
  <2>1. CASE \E l \in Lot : v[l] = d
    <3>1. PICK l \in Lot : v[l] = d
      BY <2>1
    <3>2. d # None
      BY InvoiceLotsAssumption
    <3>3. OwedOf(b, v)[d] = Worth(b, InL(l)) /\ OwedOf(c, v)[d] = Worth(c, InL(l))
      BY <3>1, OwedIn
    <3>4. QED
      BY <3>1, <3>2, <3>3
  <2>2. CASE \A l \in Lot : v[l] # d
    <3>1. OwedOf(b, v)[d] = 0 /\ OwedOf(c, v)[d] = 0
      BY <2>2, OwedOut
    <3>2. QED
      BY <3>1 DEF R!Within
  <2>3. QED
    BY <2>1, <2>2
<1>5. QED
  BY <1>3, <1>4

\* x takes from n, and not more than n.
Takes(x, n) == (n >= 0 /\ x <= 0 /\ n + x >= 0) \/ (n <= 0 /\ x >= 0 /\ n + x <= 0)

LEMMA OffsetOwes ==
    ASSUME NEW b, SplitBag(b), NEW v \in [Lot -> Doc \cup {None}], DocsIn(b, v), Signs(b, v),
           NEW s \in DOMAIN b, v[s.lot] = None,
           NEW whole \in BOOLEAN, NEW x \in Int, NEW m \in Lot, whole => x = s.amount,
           DocsIn(Divided(b, s, whole, x, m), v),
           v[m] # None => Takes(x, Worth(b, InL(m))) /\ Opposes(x, Total[v[m]])
    PROVE  LET c == Divided(b, s, whole, x, m)
           IN  /\ Signs(c, v)
               /\ \A d \in Doc : R!Within(OwedOf(c, v)[d], OwedOf(b, v)[d])
               /\ Worth(c, AllSplits) = Worth(b, AllSplits)
<1> DEFINE rest == SplitRec(s.txn, s.lot, s.amount - x)
           moved == SplitRec(s.txn, m, x)
           c == Divided(b, s, whole, x, m)
<1>1. s \in AllSplits /\ s.amount \in Int
  BY DEF SplitBag, AllSplits
<1>2. /\ rest.lot = s.lot /\ moved.lot = m /\ rest \in AllSplits /\ moved \in AllSplits
      /\ moved.amount = x /\ moved.txn = s.txn
  BY <1>1 DEF SplitRec, AllSplits
<1>3. /\ SplitBag(c)
      /\ \A C : s \notin C /\ rest \notin C /\ moved \notin C => SameOn(b, c, C)
      /\ \A C \in SUBSET AllSplits :
           Worth(c, C) = Worth(b, C) - (IF s \in C THEN s.amount ELSE 0)
             + (IF rest \in C THEN s.amount - x ELSE 0) + (IF moved \in C THEN x ELSE 0)
  BY <1>1, DividedWorth
<1>0. DocsIn(c, v)
  OBVIOUS
<1> HIDE DEF c, rest, moved
<1>4. \A q \in DOMAIN c : q \in DOMAIN b \/ q = rest \/ q = moved
  <2> DEFINE C == AllSplits \ {s, rest, moved}
  <2>1. SameOn(b, c, C)
    <3>1. s \notin C /\ rest \notin C /\ moved \notin C
      OBVIOUS
    <3> HIDE DEF C
    <3>2. QED
      BY <1>3, <3>1
  <2>2. \A q \in DOMAIN c : q \in AllSplits
    BY <1>3 DEF SplitBag
  <2>3. QED
    BY <2>1, <2>2 DEF SameOn
<1>5. ASSUME NEW l \in Lot, v[l] # None
      PROVE  /\ R!Within(Worth(c, InL(l)), Worth(b, InL(l)))
             /\ \A q \in DOMAIN c : q.lot = l /\ q.txn # v[l] => Opposes(q.amount, Total[v[l]])
  <2>1. s \notin InL(l) /\ rest \notin InL(l) /\ (moved \in InL(l) <=> l = m)
    BY <1>2, <1>5 DEF InL
  <2>2. Worth(b, InL(l)) \in Int
    BY WorthType
  <2>3. Worth(c, InL(l)) = Worth(b, InL(l)) + IF l = m THEN x ELSE 0
    <3>1. Worth(c, InL(l)) = Worth(b, InL(l)) - 0 + 0 + IF l = m THEN x ELSE 0
      BY <1>3, <2>1, TxnsAndLots
    <3>2. QED
      BY <2>2, <3>1
  <2>4. R!Within(Worth(c, InL(l)), Worth(b, InL(l)))
    <3>1. CASE l = m
      BY <1>5, <2>2, <2>3, <3>1 DEF R!Within, Takes
    <3>2. CASE l # m
      <4>1. Worth(c, InL(l)) = Worth(b, InL(l))
        BY <2>2, <2>3, <3>2
      <4>2. QED
        BY <2>2, <4>1 DEF R!Within
    <3>3. QED
      BY <3>1, <3>2
  <2>5. ASSUME NEW q \in DOMAIN c, q.lot = l, q.txn # v[l] PROVE Opposes(q.amount, Total[v[l]])
    <3>1. CASE q \in DOMAIN b
      BY <1>5, <2>5, <3>1 DEF Signs
    <3>2. CASE q = rest
      BY <1>2, <1>5, <2>5, <3>2
    <3>3. CASE q = moved
      BY <1>2, <1>5, <2>5, <3>3
    <3>4. QED
      BY <1>4, <3>1, <3>2, <3>3
  <2>6. QED
    BY <2>4, <2>5
<1>6. Signs(c, v) /\ \A d \in Doc : R!Within(OwedOf(c, v)[d], OwedOf(b, v)[d])
  BY <1>0, <1>3, <1>5, SettleFrom
<1>7. Worth(c, AllSplits) = Worth(b, AllSplits)
  <2>1. Worth(b, AllSplits) \in Int
    BY WorthType
  <2>2. Worth(c, AllSplits) = Worth(b, AllSplits) - s.amount + (s.amount - x) + x
    BY <1>1, <1>2, <1>3
  <2>3. QED
    BY <1>1, <2>1, <2>2
<1>8. QED
  BY <1>6, <1>7 DEF c

\* A split of amount x in lot k takes from the document the lot is attached to.
Offers(b, v, k, x) == v[k] # None /\ Takes(x, Worth(b, InL(k))) /\ Opposes(x, Total[v[k]])

\* What linking two lots does to what a class is worth.
LEMMA LinkedWorth ==
    ASSUME NEW b, SplitBag(b), NEW t \in Link, NEW k \in Lot, NEW l \in Lot,
           NEW x \in Int, NEW y \in Int,
           NEW c, MergeOf(c, Linked(b, t, k, x, l, y), {k, l}), NEW C, ByPlace(C)
    PROVE  Worth(c, C) = Worth(b, C) + (IF SplitRec(t, k, x) \in C THEN x ELSE 0)
                                     + (IF SplitRec(t, l, y) \in C THEN y ELSE 0)
<1> DEFINE s == SplitRec(t, k, x)
           r == SplitRec(t, l, y)
           b1 == b (+) One(s)
           b2 == b1 (+) One(r)
<1>1. s \in AllSplits /\ r \in AllSplits /\ s.amount = x /\ r.amount = y
  BY DEF SplitRec, AllSplits, Txn
<1>2. C \subseteq AllSplits
  BY DEF ByPlace
<1>3. SplitBag(b1) /\ Worth(b1, C) = Worth(b, C) + IF s \in C THEN x ELSE 0
  <2> HIDE DEF s
  <2>1. QED
    BY <1>1, <1>2, WorthAdd
<1>4. SplitBag(b2) /\ Worth(b2, C) = Worth(b1, C) + IF r \in C THEN y ELSE 0
  <2> HIDE DEF r, b1
  <2>1. QED
    BY <1>1, <1>2, <1>3, WorthAdd
<1>5. MergeOf(c, b2, {k, l})
  BY DEF Linked
<1> HIDE DEF b2
<1>6. Worth(c, C) = Worth(b2, C)
  BY <1>4, <1>5, MergedWorth
<1>7. QED
  BY <1>3, <1>4, <1>6

\* What it does to the balance of a lot.
LEMMA LinkedBalance ==
    ASSUME NEW b, SplitBag(b), NEW t \in Link, NEW k \in Lot, NEW l \in Lot,
           NEW x \in Int, NEW y \in Int,
           NEW c, MergeOf(c, Linked(b, t, k, x, l, y), {k, l}), NEW j
    PROVE  Worth(c, InL(j)) = Worth(b, InL(j)) + (IF j = k THEN x ELSE 0) + (IF j = l THEN y ELSE 0)
<1>1. /\ SplitRec(t, k, x) \in InL(j) <=> j = k
      /\ SplitRec(t, l, y) \in InL(j) <=> j = l
  BY DEF SplitRec, InL, AllSplits, Txn
<1>2. ByPlace(InL(j))
  BY TxnsAndLots
<1>3. QED
  BY <1>1, <1>2, LinkedWorth

OnlyPaid(c, b, v) ==
    /\ Signs(c, v)
    /\ \A d \in Doc : R!Within(OwedOf(c, v)[d], OwedOf(b, v)[d])
    /\ Worth(c, AllSplits) = Worth(b, AllSplits)

LEMMA LinkOwes ==
    ASSUME NEW b, SplitBag(b), NEW v \in [Lot -> Doc \cup {None}], DocsIn(b, v), Signs(b, v),
           NEW t \in Link, NEW k \in Lot, NEW l \in Lot, k # l,
           NEW x \in Int, NEW y \in Int, x + y = 0, Offers(b, v, k, x), Offers(b, v, l, y),
           NEW c, MergeOf(c, Linked(b, t, k, x, l, y), {k, l}), DocsIn(c, v)
    PROVE  OnlyPaid(c, b, v)
<1> USE DEF Offers, Linked
<1> DEFINE s == SplitRec(t, k, x)
           r == SplitRec(t, l, y)
           b1 == b (+) One(s)
           b2 == b1 (+) One(r)
<1>2. /\ s \in AllSplits /\ r \in AllSplits
      /\ s.txn = t /\ r.txn = t /\ s.lot = k /\ r.lot = l /\ s.amount = x /\ r.amount = y
  BY DEF SplitRec, AllSplits, Txn
<1>3. /\ SplitBag(b1) /\ DOMAIN b1 = DOMAIN b \cup {s}
      /\ \A C \in SUBSET AllSplits : Worth(b1, C) = Worth(b, C) + IF s \in C THEN x ELSE 0
  <2> HIDE DEF s
  <2>1. DOMAIN b1 = DOMAIN b \cup DOMAIN One(s) /\ DOMAIN One(s) = {s}
    BY PlusIs, OneType
  <2>2. QED
    BY <1>2, <2>1, WorthAdd
<1>4. /\ SplitBag(b2) /\ DOMAIN b2 = DOMAIN b1 \cup {r}
      /\ \A C \in SUBSET AllSplits : Worth(b2, C) = Worth(b1, C) + IF r \in C THEN y ELSE 0
  <2> HIDE DEF r, b1
  <2>1. DOMAIN b2 = DOMAIN b1 \cup DOMAIN One(r) /\ DOMAIN One(r) = {r}
    BY PlusIs, OneType
  <2>2. QED
    BY <1>2, <1>3, <2>1, WorthAdd
<1>6. MergeOf(c, b2, {k, l})
  OBVIOUS
<1> HIDE DEF b1, b2, s, r
<1>7. SplitBag(c)
  BY <1>6 DEF MergeOf
<1>9. ASSUME NEW j \in Lot, v[j] # None, NEW q \in DOMAIN b2, q.lot = j, q.txn # v[j]
      PROVE  Opposes(q.amount, Total[v[j]])
  <2>1. CASE q \in DOMAIN b
    BY <1>9, <2>1 DEF Signs
  <2>2. CASE q = s
    BY <1>2, <1>9, <2>2
  <2>3. CASE q = r
    BY <1>2, <1>9, <2>3
  <2>4. QED
    BY <1>3, <1>4, <2>1, <2>2, <2>3
<1>10. ASSUME NEW j \in Lot, v[j] # None
       PROVE  /\ R!Within(Worth(c, InL(j)), Worth(b, InL(j)))
              /\ \A q \in DOMAIN c : q.lot = j /\ q.txn # v[j] => Opposes(q.amount, Total[v[j]])
  <2>1. Worth(c, InL(j)) = Worth(b, InL(j)) + (IF j = k THEN x ELSE 0) + (IF j = l THEN y ELSE 0)
    BY LinkedBalance
  <2>2. Worth(b, InL(j)) \in Int
    BY WorthType
  <2>3. R!Within(Worth(c, InL(j)), Worth(b, InL(j)))
    <3>1. CASE j = k
      <4>1. Worth(c, InL(j)) = Worth(b, InL(j)) + x
        BY <2>1, <2>2, <3>1
      <4>2. QED
        BY <2>2, <3>1, <4>1 DEF R!Within, Takes
    <3>2. CASE j = l
      <4>1. Worth(c, InL(j)) = Worth(b, InL(j)) + y
        BY <2>1, <2>2, <3>2
      <4>2. QED
        BY <2>2, <3>2, <4>1 DEF R!Within, Takes
    <3>3. CASE j # k /\ j # l
      <4>1. Worth(c, InL(j)) = Worth(b, InL(j))
        BY <2>1, <2>2, <3>3
      <4>2. QED
        BY <2>2, <4>1 DEF R!Within
    <3>4. QED
      BY <3>1, <3>2, <3>3
  <2>4. ASSUME NEW q \in DOMAIN c, q.lot = j, q.txn # v[j] PROVE Opposes(q.amount, Total[v[j]])
    <3>1. q \in AllSplits
      BY <1>7 DEF SplitBag
    <3>2. CASE ~ Merges(q, {k, l})
      <4>1. q \in DOMAIN b2
        BY <1>6, <3>1, <3>2 DEF MergeOf
      <4>2. QED
        BY <1>9, <1>10, <2>4, <4>1
    <3>3. CASE Merges(q, {k, l})
      <4> DEFINE p == PlaceOf(q)
      <4>1. q.amount = Worth(b2, Cell(p)) /\ p[1] = q.txn /\ p[2] = j
        <5>1. q = MergedSplit(b2, p)
          BY <1>6, <3>3 DEF MergeOf
        <5>2. QED
          BY <2>4, <5>1 DEF MergedSplit, SplitRec, PlaceOf
      <4>2. \A u \in DOMAIN b2 : u \in Cell(p) => Opposes(u.amount, Total[v[j]])
        BY <1>9, <1>10, <2>4, <4>1 DEF Cell
      <4>3. Total[v[j]] \in Int
        BY <1>10, InvoiceLotsAssumption
      <4> HIDE DEF p
      <4>4. Opposes(Worth(b2, Cell(p)), Total[v[j]])
        BY <1>4, <4>2, <4>3, TakenSign
      <4>5. QED
        BY <4>1, <4>4
    <3>4. QED
      BY <3>2, <3>3
  <2>5. QED
    BY <2>3, <2>4
<1>11. Signs(c, v) /\ \A d \in Doc : R!Within(OwedOf(c, v)[d], OwedOf(b, v)[d])
  BY <1>7, <1>10, SettleFrom
<1>12. Worth(c, AllSplits) = Worth(b, AllSplits)
  <2>1. Worth(b, AllSplits) \in Int
    BY WorthType
  <2>2. ByPlace(AllSplits)
    BY DEF ByPlace
  <2>3. Worth(c, AllSplits) = Worth(b, AllSplits) + x + y
    <3>1. SplitRec(t, k, x) \in AllSplits /\ SplitRec(t, l, y) \in AllSplits
      BY <1>2 DEF s, r
    <3>2. QED
      BY <2>2, <3>1, LinkedWorth
  <2>4. QED
    BY <2>1, <2>3
<1>13. QED
  BY <1>11, <1>12 DEF OnlyPaid

-----------------------------------------------------------------------------
(* The steps of InvoiceLots are steps of Receivable.                       *)

PostedDocs == {d \in Doc : Posted(d)}

SplitsOK == SplitBag(splits) /\ invoice \in [Lot -> Doc \cup {None}]
ShownOK ==
    /\ PostedDocs = PostedOf(invoice)
    /\ Owed = OwedOf(splits, invoice)
    /\ Credit = CreditOf(splits, invoice)
    /\ R!AccountBalance = Worth(splits, AllSplits)

LEMMA Shown == SplitsOK => ShownOK
<1> SUFFICES ASSUME SplitsOK PROVE ShownOK
  OBVIOUS
<1> USE DEF SplitsOK
<1>1. PostedDocs = PostedOf(invoice)
  BY DEF PostedDocs, PostedOf, Posted, LotsOf
<1>2. Owed = OwedOf(splits, invoice)
  <2>1. \A d \in Doc : SumOf(splits, LAMBDA s : invoice[s.lot] = d) = Worth(splits, DocC(invoice, d))
    BY SumOfDoc
  <2>2. QED
    BY <2>1 DEF Owed, OwedOf
<1>3. Credit = CreditOf(splits, invoice)
  BY SumOfFree DEF Credit, CreditOf, HasDoc
<1>4. R!AccountBalance = Worth(splits, AllSplits)
  <2>1. R!AccountBalance = Credit + SumOver(Owed)
    BY SameSum DEF R!AccountBalance
  <2>2. QED
    BY <1>2, <1>3, <2>1, AccountIs
<1>5. QED
  BY <1>1, <1>2, <1>3, <1>4 DEF ShownOK

LEMMA ShownNext == SplitsOK' => ShownOK'
BY Shown, PTL

\* A step of Receivable, or none, and what the next one needs.
OwedStep ==
    /\ R!Next \/ UNCHANGED R!receivableVars
    /\ Signs(splits', invoice')
    /\ PaidOnes(splits', paid')
    /\ LeftSigned'

LEMMA InvParts ==
    ASSUME LotInv
    PROVE  /\ SplitBag(splits) /\ invoice \in [Lot -> Doc \cup {None}] /\ DocsIn(splits, invoice)
           /\ BagInv(splits, invoice, paid, pending, unposted)
           /\ Walking /\ Paid /\ None \notin Doc
BY InvoiceLotsAssumption DEF LotInv, BagInv

LEMMA InvPartsNext ==
    ASSUME LotInv'
    PROVE  /\ SplitBag(splits') /\ invoice' \in [Lot -> Doc \cup {None}] /\ DocsIn(splits', invoice')
           /\ BagInv(splits', invoice', paid', pending', unposted')
           /\ Walking' /\ Paid'
BY DEF LotInv, BagInv

\* Nothing that is owed changes.
LEMMA NothingOwed ==
    ASSUME OwedInv, UNCHANGED <<splits, invoice>>
    PROVE  UNCHANGED R!receivableVars /\ Signs(splits', invoice')
<1>1. SplitsOK /\ SplitsOK' /\ Signs(splits, invoice)
  BY InvParts DEF SplitsOK, OwedInv
<1>2. UNCHANGED <<Owed, Credit, PostedDocs>>
  BY <1>1, Shown, ShownNext DEF ShownOK
<1>3. QED
  BY <1>1, <1>2 DEF R!receivableVars, PostedDocs

\* No payment comes back.
TxnsKept(b, c) == \A s \in DOMAIN c : s.txn \in Payment => \E u \in DOMAIN b : u.txn = s.txn

LEMMA PaidKept ==
    ASSUME NEW b, NEW c, NEW pd, PaidOnes(b, pd), TxnsKept(b, c)
    PROVE  PaidOnes(c, pd)
BY DEF PaidOnes, TxnsKept

LEMMA PostStep ==
    ASSUME OwedInv, LotInv', NEW d \in Doc, PostToAccount(d)
    PROVE  OwedStep
<1> USE DEF PostToAccount
<1>0. LotInv /\ Signs(splits, invoice) /\ PaidOnes(splits, paid)
  BY DEF OwedInv
<1>1. PICK l \in FreeLots :
         /\ invoice' = [invoice EXCEPT ![l] = d]
         /\ splits' = splits (+) SetToBag({SplitRec(d, l, Total[d])})
         /\ \/ UNCHANGED applyVars
            \/ \E others \in SetToSeqs({o \in OpenLots : Sign(Balance(o)) # Sign(Total[d])}) :
                 Applies(<<l>> \o others)
  OBVIOUS
<1>2. l \in Lot /\ invoice[l] = None
  BY FreeIs
<1>3. \A s \in DOMAIN splits : s.lot # l
  <2>1. InLot(l) = EmptyBag
    BY DEF FreeLots, Empty
  <2>2. DOMAIN EmptyBag = {}
    BY DEF EmptyBag, SetToBag
  <2>3. DOMAIN InLot(l) = {s \in DOMAIN splits : s.lot = l}
    BY DEF InLot, Of, BagToSet
  <2>4. QED
    BY <2>1, <2>2, <2>3
<1>4. \A m \in Lot : invoice[m] # d
  BY DEF Posted, LotsOf
<1>5. /\ SplitBag(splits) /\ invoice \in [Lot -> Doc \cup {None}] /\ DocsIn(splits, invoice)
      /\ Walking /\ None \notin Doc
  BY <1>0, InvParts
<1>6. SplitBag(splits') /\ invoice' \in [Lot -> Doc \cup {None}] /\ DocsIn(splits', invoice') /\ Walking'
  BY InvPartsNext
<1>7. splits' = splits (+) One(SplitRec(d, l, Total[d]))
  BY <1>1 DEF One
<1>8. /\ Signs(splits', invoice')
      /\ OwedOf(splits', invoice') = [OwedOf(splits, invoice) EXCEPT ![d] = Total[d]]
      /\ CreditOf(splits', invoice') = CreditOf(splits, invoice)
      /\ PostedOf(invoice') = PostedOf(invoice) \cup {d}
  <2>1. Posts(splits, invoice, l, d, splits', invoice')
    BY <1>1, <1>7 DEF Posts
  <2>2. Signs(splits', invoice') /\ OwesTotal(splits, invoice, d, splits', invoice')
    BY <1>0, <1>2, <1>3, <1>4, <1>5, <1>6, <2>1, PostOwes
  <2>3. QED
    BY <2>2 DEF OwesTotal
<1>9. d \notin PostedOf(invoice)
  BY <1>4 DEF PostedOf
<1>10. /\ Owed' = [Owed EXCEPT ![d] = Total[d]] /\ Credit' = Credit
       /\ PostedDocs' = PostedDocs \cup {d} /\ d \notin PostedDocs
  BY <1>5, <1>6, <1>8, <1>9, Shown, ShownNext DEF SplitsOK, ShownOK
<1>11. R!Next
  BY <1>10 DEF R!Next, R!Post, PostedDocs
<1>12. PaidOnes(splits', paid')
  <2>1. DOMAIN splits' = DOMAIN splits \cup {SplitRec(d, l, Total[d])}
    <3>1. DOMAIN One(SplitRec(d, l, Total[d])) = {SplitRec(d, l, Total[d])}
      BY OneType
    <3>2. QED
      BY <1>7, <3>1, PlusIs
  <2>2. d \notin Payment
    BY InvoiceLotsAssumption
  <2>3. SplitRec(d, l, Total[d]).txn = d
    BY DEF SplitRec
  <2>4. QED
    BY <1>0, <2>1, <2>2, <2>3 DEF PaidOnes
<1>13. left' = 0
  <2>1. left = 0
    BY <1>5 DEF Idle, Walking
  <2>2. QED
    BY <1>1, <2>1 DEF Applies, applyVars
<1>14. LeftSigned'
  BY <1>13 DEF LeftSigned
<1>15. QED
  BY <1>8, <1>11, <1>12, <1>14 DEF OwedStep

LEMMA PayStep ==
    ASSUME OwedInv, LotInv', NEW p \in Payment, NEW a \in Amounts, NEW lots \in SUBSET OpenLots,
           ApplyPayment(p, a, lots)
    PROVE  OwedStep
<1> USE DEF ApplyPayment
<1>0. LotInv /\ Signs(splits, invoice) /\ PaidOnes(splits, paid)
  BY DEF OwedInv
<1>1. PICK l \in FreeLots :
         /\ splits' = splits (+) SetToBag({SplitRec(p, l, - a)})
         /\ \E others \in SetToSeqs(lots) : Applies(<<l>> \o others)
  OBVIOUS
<1>2. l \in Lot /\ invoice[l] = None
  BY FreeIs
<1>3. a \in Int
  BY PaidType
<1>5. /\ SplitBag(splits) /\ invoice \in [Lot -> Doc \cup {None}] /\ DocsIn(splits, invoice)
      /\ Paid /\ None \notin Doc
  BY <1>0, InvParts
<1>6. SplitBag(splits') /\ invoice' \in [Lot -> Doc \cup {None}] /\ DocsIn(splits', invoice')
  BY InvPartsNext
<1>7. splits' = splits (+) One(SplitRec(p, l, - a)) /\ invoice' = invoice
  BY <1>1 DEF One
<1>8. /\ Signs(splits', invoice')
      /\ OwedOf(splits', invoice') = OwedOf(splits, invoice)
      /\ CreditOf(splits', invoice') = CreditOf(splits, invoice) - a
  BY <1>0, <1>2, <1>3, <1>5, <1>6, <1>7, PayOwes
<1>9. Owed' = Owed /\ Credit' = Credit - a /\ PostedDocs' = PostedDocs
  BY <1>5, <1>6, <1>7, <1>8, Shown, ShownNext DEF SplitsOK, ShownOK
<1>10. R!Next
  BY <1>9 DEF R!Next, R!Pay, PostedDocs
<1>11. PaidOnes(splits', paid')
  <2>1. DOMAIN splits' = DOMAIN splits \cup {SplitRec(p, l, - a)}
    <3>1. DOMAIN One(SplitRec(p, l, - a)) = {SplitRec(p, l, - a)}
      BY OneType
    <3>2. QED
      BY <1>7, <3>1, PlusIs
  <2>2. SplitRec(p, l, - a).txn = p /\ a # 0
    BY InvoiceLotsAssumption DEF SplitRec
  <2>3. paid' = [paid EXCEPT ![p] = a] /\ paid \in [Payment -> Amounts \cup {0}]
    BY <1>5 DEF Paid
  <2>4. QED
    BY <1>0, <2>1, <2>2, <2>3 DEF PaidOnes
<1>12. LeftSigned'
  BY <1>1 DEF LeftSigned, Applies
<1>13. QED
  BY <1>8, <1>10, <1>11, <1>12 DEF OwedStep

LEMMA ApplyLotsStep ==
    ASSUME OwedInv, NEW lots \in SUBSET OpenLots, ApplyLots(lots)
    PROVE  OwedStep
<1>1. UNCHANGED <<splits, invoice, paid>> /\ left' = 0
  BY DEF ApplyLots, Applies
<1>2. LeftSigned'
  BY <1>1 DEF LeftSigned
<1>3. PaidOnes(splits', paid')
  BY <1>1 DEF OwedInv
<1>4. QED
  BY <1>1, <1>2, <1>3, NothingOwed DEF OwedStep

LEMMA UnpostStep ==
    ASSUME OwedInv, LotInv', NEW d \in Doc, Unpost(d)
    PROVE  OwedStep
<1> USE DEF Unpost
<1>0. LotInv /\ Signs(splits, invoice) /\ PaidOnes(splits, paid)
  BY DEF OwedInv
<1>1. PICK l \in LotsOf(d) : splits' = Without(d) /\ invoice' = [invoice EXCEPT ![l] = None]
  OBVIOUS
<1>2. l \in Lot /\ invoice[l] = d
  BY DEF LotsOf
<1>3. splits' = Less(splits, d)
  BY <1>1 DEF Without, Less
<1>5. /\ SplitBag(splits) /\ invoice \in [Lot -> Doc \cup {None}] /\ DocsIn(splits, invoice)
      /\ Walking /\ None \notin Doc
  BY <1>0, InvParts
<1>6. SplitBag(splits') /\ invoice' \in [Lot -> Doc \cup {None}] /\ DocsIn(splits', invoice')
  BY InvPartsNext
<1>7. /\ Signs(splits', invoice')
      /\ OwedOf(splits', invoice') = [OwedOf(splits, invoice) EXCEPT ![d] = 0]
      /\ Worth(splits', AllSplits) = Worth(splits, AllSplits) - Total[d]
      /\ PostedOf(invoice') = PostedOf(invoice) \ {d}
  <2>1. Unposts(splits, invoice, l, d, splits', invoice')
    BY <1>1, <1>3 DEF Unposts
  <2>2. Signs(splits', invoice') /\ OwesNothing(splits, invoice, d, splits', invoice')
    BY <1>0, <1>2, <1>5, <1>6, <2>1, UnpostOwes
  <2>3. QED
    BY <2>2 DEF OwesNothing
<1>8. d \in PostedOf(invoice)
  BY <1>2 DEF PostedOf
<1>9. /\ Owed' = [Owed EXCEPT ![d] = 0] /\ R!AccountBalance' = R!AccountBalance - Total[d]
      /\ PostedDocs' = PostedDocs \ {d} /\ d \in PostedDocs
  BY <1>5, <1>6, <1>7, <1>8, Shown, ShownNext DEF SplitsOK, ShownOK
<1>10. R!Next
  BY <1>9 DEF R!Next, R!Unpost, PostedDocs
<1>11. PaidOnes(splits', paid')
  <2>1. \A s \in DOMAIN splits' : s \in DOMAIN splits
    BY <1>3 DEF Less
  <2>2. QED
    BY <1>0, <2>1 DEF PaidOnes
<1>12. left' = 0
  BY <1>5 DEF Idle, Walking, applyVars
<1>13. LeftSigned'
  BY <1>12 DEF LeftSigned
<1>14. QED
  BY <1>7, <1>10, <1>11, <1>13 DEF OwedStep

\* A payment or a link is deleted.
LEMMA ReleaseStep ==
    ASSUME OwedInv, LotInv', NEW t, t \notin Doc, splits' = Less(splits, t), invoice' = invoice
    PROVE  /\ Signs(splits', invoice') /\ R!Bounded' /\ R!Releasing /\ PostedDocs' = PostedDocs
           /\ R!AccountBalance' = R!AccountBalance - Worth(splits, OfT(t))
<1>0. LotInv /\ Signs(splits, invoice)
  BY DEF OwedInv
<1>1. /\ SplitBag(splits) /\ invoice \in [Lot -> Doc \cup {None}] /\ DocsIn(splits, invoice)
  BY <1>0, InvParts
<1>2. SplitBag(splits') /\ invoice' \in [Lot -> Doc \cup {None}] /\ DocsIn(splits', invoice')
  BY InvPartsNext
<1>3. /\ Signs(Less(splits, t), invoice)
      /\ \A d \in Doc : R!Within(OwedOf(splits, invoice)[d], OwedOf(Less(splits, t), invoice)[d])
      /\ Worth(Less(splits, t), AllSplits) = Worth(splits, AllSplits) - Worth(splits, OfT(t))
  <2>1. DocsIn(Less(splits, t), invoice)
    BY <1>2
  <2>2. QED
    BY <1>0, <1>1, <2>1, DeleteOwes
<1>4. ShownOK /\ ShownOK'
  BY <1>1, <1>2, Shown, ShownNext DEF SplitsOK
<1>5. Signs(splits', invoice')
  BY <1>3
<1>6. R!Releasing
  BY <1>3, <1>4 DEF R!Releasing, ShownOK
<1>7. PostedDocs' = PostedDocs
  BY <1>4 DEF ShownOK
<1>8. R!Bounded'
  <2>1. \A d \in Doc : R!Within(OwedOf(splits', invoice')[d],
                                IF d \in PostedOf(invoice') THEN Total[d] ELSE 0)
    BY <1>2, <1>5, BoundedIs
  <2>2. PostedDocs' = PostedOf(invoice') /\ Owed' = OwedOf(splits', invoice')
    BY <1>4 DEF ShownOK
  <2>3. QED
    BY <2>1, <2>2 DEF R!Bounded, PostedDocs
<1>9. R!AccountBalance' = R!AccountBalance - Worth(splits, OfT(t))
  BY <1>3, <1>4 DEF ShownOK
<1>10. QED
  BY <1>5, <1>6, <1>7, <1>8, <1>9

LEMMA LessPaid ==
    ASSUME NEW b, NEW t, NEW pd, NEW qd, PaidOnes(b, pd), \A p \in Payment \ {t} : qd[p] = pd[p]
    PROVE  PaidOnes(Less(b, t), qd)
<1>1. \A s \in DOMAIN Less(b, t) : s \in DOMAIN b /\ s.txn # t
  BY DEF Less
<1>2. QED
  BY <1>1 DEF PaidOnes

LEMMA DeleteStep ==
    ASSUME OwedInv, LotInv', NEW t \in Payment \cup Link, DeleteTxn(t)
    PROVE  OwedStep
<1> USE DEF DeleteTxn
<1>0. LotInv /\ PaidOnes(splits, paid)
  BY DEF OwedInv
<1>1. /\ BagInv(splits, invoice, paid, pending, unposted) /\ SplitBag(splits) /\ Paid /\ Walking
  BY <1>0, InvParts
<1>2. splits' = Less(splits, t) /\ invoice' = invoice
  BY DEF Without, Less
<1>3. t \notin Doc
  BY InvoiceLotsAssumption
<1>4. /\ Signs(splits', invoice') /\ R!Bounded' /\ R!Releasing /\ PostedDocs' = PostedDocs
      /\ R!AccountBalance' = R!AccountBalance - Worth(splits, OfT(t))
  BY <1>2, <1>3, ReleaseStep
<1>5. R!AccountBalance \in Int
  <2>1. ShownOK
    BY <1>0, InvParts, Shown DEF SplitsOK
  <2>2. QED
    BY <1>1, <2>1, WorthType DEF ShownOK
<1>6. R!Next
  <2>1. CASE t \in Payment
    <3>1. PICK s \in DOMAIN splits : s.txn = t
      BY DEF OfTxn, Of, BagToSet
    <3>2. paid[t] # 0 /\ paid[t] \in Amounts
      BY <1>0, <1>1, <2>1, <3>1 DEF PaidOnes, Paid
    <3>3. Worth(splits, OfT(t)) = - paid[t] /\ paid[t] \in Int
      BY <1>1, <2>1, <3>2, PaidType DEF BagInv, PaymentSums
    <3>4. R!AccountBalance' = R!AccountBalance + paid[t]
      BY <1>4, <1>5, <3>3
    <3>5. R!Withdraw(paid[t])
      BY <1>4, <3>4 DEF R!Withdraw, PostedDocs
    <3>6. QED
      BY <3>2, <3>5 DEF R!Next
  <2>2. CASE t \in Link
    <3>1. Worth(splits, OfT(t)) = 0
      BY <1>1, <2>2 DEF BagInv, LinkSums
    <3>2. R!AccountBalance' = R!AccountBalance
      BY <1>4, <1>5, <3>1
    <3>3. R!Release
      BY <1>4, <3>2 DEF R!Release, PostedDocs
    <3>4. QED
      BY <3>3 DEF R!Next
  <2>3. QED
    BY <2>1, <2>2
<1>7. PaidOnes(splits', paid')
  BY <1>0, <1>2, LessPaid
<1>8. left' = 0
  BY <1>1 DEF Idle, Walking, applyVars
<1>9. LeftSigned'
  BY <1>8 DEF LeftSigned
<1>10. QED
  BY <1>4, <1>6, <1>7, <1>9 DEF OwedStep

LEMMA UnpostLinkStep ==
    ASSUME OwedInv, LotInv', UnpostLink
    PROVE  OwedStep
<1> USE DEF UnpostLink
<1>0. LotInv /\ PaidOnes(splits, paid)
  BY DEF OwedInv
<1>1. BagInv(splits, invoice, paid, pending, unposted) /\ SplitBag(splits) /\ Paid
  BY <1>0, InvParts
<1>2. PICK s \in BagToSet(pending) :
         IF OfTxn(s.txn) = {}
         THEN fault' = TRUE /\ UNCHANGED <<splits, applyVars, pending>>
         ELSE /\ splits' = Without(s.txn)
              /\ \E order \in SetToSeqs({u.lot : u \in OfTxn(s.txn)} \ {unposted}) :
                   Applies(order)
              /\ pending' = pending (-) SetToBag({s})
              /\ UNCHANGED fault
  OBVIOUS
<1>3. s.txn \in Link /\ s \in OfTxn(s.txn)
  BY <1>0, <1>2, PendingThere
<1>4. /\ splits' = Less(splits, s.txn) /\ invoice' = invoice /\ paid' = paid
      /\ \E order \in SetToSeqs({u.lot : u \in OfTxn(s.txn)} \ {unposted}) : Applies(order)
  <2>1. OfTxn(s.txn) # {}
    BY <1>3
  <2>2. QED
    BY <1>2, <2>1 DEF Without, Less
<1>5. s.txn \notin Doc
  BY <1>3, InvoiceLotsAssumption
<1>6. /\ Signs(splits', invoice') /\ R!Bounded' /\ R!Releasing /\ PostedDocs' = PostedDocs
      /\ R!AccountBalance' = R!AccountBalance - Worth(splits, OfT(s.txn))
  BY <1>4, <1>5, ReleaseStep
<1>7. R!AccountBalance \in Int
  <2>1. ShownOK
    BY <1>0, InvParts, Shown DEF SplitsOK
  <2>2. QED
    BY <1>1, <2>1, WorthType DEF ShownOK
<1>8. Worth(splits, OfT(s.txn)) = 0
  BY <1>1, <1>3 DEF BagInv, LinkSums
<1>9. R!AccountBalance' = R!AccountBalance
  BY <1>6, <1>7, <1>8
<1>10. R!Next
  BY <1>6, <1>9 DEF R!Next, R!Release, PostedDocs
<1>11. PaidOnes(splits', paid')
  BY <1>0, <1>4, LessPaid
<1>12. LeftSigned'
  BY <1>4 DEF LeftSigned, Applies
<1>13. QED
  BY <1>6, <1>10, <1>11, <1>12 DEF OwedStep

LEMMA UnpostDoneStep ==
    ASSUME OwedInv, UnpostDone
    PROVE  OwedStep
<1>1. UNCHANGED <<splits, invoice, paid, list, left, leftBal>>
  BY DEF UnpostDone, applyVars
<1>2. LeftSigned' /\ PaidOnes(splits', paid')
  BY <1>1 DEF OwedInv, LeftSigned
<1>3. QED
  BY <1>1, <1>2, NothingOwed DEF OwedStep

LEMMA AppliedStep ==
    ASSUME OwedInv, Applied
    PROVE  OwedStep
<1>1. UNCHANGED <<splits, invoice, paid>> /\ left' = 0
  BY DEF Applied
<1>2. LeftSigned' /\ PaidOnes(splits', paid')
  BY <1>1 DEF OwedInv, LeftSigned
<1>3. QED
  BY <1>1, <1>2, NothingOwed DEF OwedStep

\* The sign of what is owed on a document.
LEMMA OwedSign ==
    ASSUME LotInv, Signs(splits, invoice), NEW l \in Lot, HasDoc(l)
    PROVE  /\ invoice[l] \in Doc /\ Total[invoice[l]] \in Int
           /\ Balance(l) \in Int
           /\ Total[invoice[l]] >= 0 => Balance(l) >= 0
           /\ Total[invoice[l]] <= 0 => Balance(l) <= 0
<1>1. SplitBag(splits) /\ invoice \in [Lot -> Doc \cup {None}]
  BY InvParts
<1>2. invoice[l] \in Doc /\ Total[invoice[l]] \in Int
  BY <1>1, InvoiceLotsAssumption DEF HasDoc
<1>3. Balance(l) = Worth(splits, InL(l)) /\ Balance(l) \in Int
  BY <1>1, BalanceIs
<1>4. R!Within(Balance(l), Total[invoice[l]])
  BY <1>3 DEF Signs, HasDoc
<1>5. QED
  BY <1>2, <1>3, <1>4 DEF R!Within

LEMMA OpenIs ==
    ASSUME NEW l, Open(l)
    PROVE  Balance(l) # 0
BY DEF Open, Closed

LEMMA LeftLotStep ==
    ASSUME OwedInv, LeftLot
    PROVE  OwedStep
<1> USE DEF LeftLot
<1>0. LotInv /\ Signs(splits, invoice) /\ PaidOnes(splits, paid) /\ Walking
  BY InvParts DEF OwedInv
<1>1. UNCHANGED <<splits, invoice, paid, list>>
  OBVIOUS
<1>2. Len(list) \in Nat
  BY <1>0 DEF Walking
<1>3. left' \in Lefts
  <2>1. Lefts \in SUBSET Nat /\ Lefts # {}
    BY <1>0, <1>2 DEF Lefts, Walking
  <2>2. QED
    BY <2>1, MinIn
<1>4. left' \in 1 .. Len(list) /\ Open(list[left'])
  BY <1>0, <1>2, <1>3 DEF Lefts, Walking
<1> DEFINE l == list[left']
<1>5. l \in Lot /\ leftBal' = Balance(l) /\ Balance(l) # 0
  BY <1>0, <1>4, OpenIs DEF Walking
<1>6. ASSUME HasDoc(l) PROVE leftBal' # 0 /\ Sign(leftBal') = Sign(Total[invoice[l]])
  <2> HIDE DEF l
  <2>1. /\ Total[invoice[l]] \in Int /\ Balance(l) \in Int
        /\ Total[invoice[l]] >= 0 => Balance(l) >= 0
        /\ Total[invoice[l]] <= 0 => Balance(l) <= 0
    BY <1>0, <1>5, <1>6, OwedSign
  <2>2. QED
    BY <1>5, <2>1 DEF Sign
<1>7. LeftSigned'
  <2>1. ASSUME invoice'[list'[left']] # None
        PROVE  leftBal' # 0 /\ Sign(leftBal') = Sign(Total[invoice'[list'[left']]])
    BY <1>1, <1>6, <2>1 DEF HasDoc
  <2>2. QED
    BY <2>1 DEF LeftSigned, Sign
<1>8. PaidOnes(splits', paid')
  BY <1>0, <1>1
<1>9. QED
  BY <1>1, <1>7, <1>8, NothingOwed DEF OwedStep

\* Documents are only paid, and no money is made or lost.
PaysOff(c) == OnlyPaid(c, splits, invoice) /\ TxnsKept(splits, c)

LEMMA SettleStep ==
    ASSUME OwedInv, LotInv', PaysOff(splits'), UNCHANGED <<invoice, paid, list, left, leftBal>>
    PROVE  OwedStep
<1>1. SplitsOK /\ SplitsOK'
  BY InvParts, InvPartsNext DEF SplitsOK, OwedInv
<1>2. ShownOK /\ ShownOK'
  BY <1>1, Shown, ShownNext
<1>3. invoice' = invoice
  OBVIOUS
<1>4. Owed' = OwedOf(splits', invoice) /\ PostedDocs' = PostedDocs
  BY <1>2, <1>3 DEF ShownOK
<1>5. R!Paying
  BY <1>2, <1>4 DEF R!Paying, ShownOK, PaysOff, OnlyPaid
<1>6. R!AccountBalance' = R!AccountBalance
  BY <1>2 DEF ShownOK, PaysOff, OnlyPaid
<1>7. R!Next
  BY <1>4, <1>5, <1>6 DEF R!Next, R!Settle, PostedDocs
<1>8. Signs(splits', invoice') /\ PaidOnes(splits', paid')
  BY <1>3, PaidKept DEF PaysOff, OnlyPaid, OwedInv
<1>9. LeftSigned'
  BY DEF LeftSigned, OwedInv
<1>10. QED
  BY <1>7, <1>8, <1>9 DEF OwedStep

\* The dividing of a split brings no transaction.
LEMMA DividedTxns ==
    ASSUME NEW b, SplitBag(b), NEW s \in DOMAIN b, NEW whole \in BOOLEAN, NEW x \in Int,
           NEW m \in Lot, whole => x = s.amount
    PROVE  TxnsKept(b, Divided(b, s, whole, x, m))
<1> DEFINE rest == SplitRec(s.txn, s.lot, s.amount - x)
           moved == SplitRec(s.txn, m, x)
           c == Divided(b, s, whole, x, m)
           C == AllSplits \ {s, rest, moved}
<1>1. SplitBag(c) /\ \A D : s \notin D /\ rest \notin D /\ moved \notin D => SameOn(b, c, D)
  BY DividedWorth
<1>2. rest.txn = s.txn /\ moved.txn = s.txn
  BY DEF SplitRec
<1>3. s \notin C /\ rest \notin C /\ moved \notin C
  OBVIOUS
<1> HIDE DEF c, rest, moved
<1>4. SameOn(b, c, C)
  <2> HIDE DEF C
  <2>1. QED
    BY <1>1, <1>3
<1>5. \A q \in DOMAIN c : q \in AllSplits
  BY <1>1 DEF SplitBag
<1>6. \A q \in DOMAIN c : q \in DOMAIN b \/ q = s \/ q = rest \/ q = moved
  BY <1>4, <1>5 DEF SameOn
<1>7. \A q \in DOMAIN c : \E u \in DOMAIN b : u.txn = q.txn
  BY <1>2, <1>6
<1>8. TxnsKept(b, c)
  BY <1>7 DEF TxnsKept
<1>9. QED
  BY <1>8 DEF c

\* Nor does a link, but its own.
LEMMA MergedTxns ==
    ASSUME NEW b, SplitBag(b), NEW t \in Link, NEW k \in Lot, NEW l \in Lot,
           NEW x \in Int, NEW y \in Int,
           NEW c, MergeOf(c, (b (+) One(SplitRec(t, k, x))) (+) One(SplitRec(t, l, y)), {k, l})
    PROVE  TxnsKept(b, c)
<1> DEFINE s == SplitRec(t, k, x)
           r == SplitRec(t, l, y)
           b2 == (b (+) One(s)) (+) One(r)
<1>1. s.txn = t /\ r.txn = t /\ t \notin Payment
  BY InvoiceLotsAssumption DEF SplitRec
<1>2. DOMAIN b2 = DOMAIN b \cup {s, r}
  <2> HIDE DEF s, r
  <2>1. DOMAIN One(s) = {s} /\ DOMAIN One(r) = {r}
    BY OneType
  <2> DEFINE b1 == b (+) One(s)
  <2>2. DOMAIN b1 = DOMAIN b \cup DOMAIN One(s)
    BY PlusIs
  <2> HIDE DEF b1
  <2>3. DOMAIN (b1 (+) One(r)) = DOMAIN b1 \cup DOMAIN One(r)
    BY PlusIs
  <2>4. QED
    BY <2>1, <2>2, <2>3 DEF b1
<1>3. MergeOf(c, b2, {k, l})
  OBVIOUS
<1> HIDE DEF b2, s, r
<1>4. ASSUME NEW q \in DOMAIN c, q.txn \in Payment PROVE \E u \in DOMAIN b : u.txn = q.txn
  <2>1. q \in AllSplits
    BY <1>3 DEF MergeOf, SplitBag
  <2>2. \E u \in DOMAIN b2 : u.txn = q.txn
    <3>1. CASE ~ Merges(q, {k, l})
      BY <1>3, <2>1, <3>1 DEF MergeOf
    <3>2. CASE Merges(q, {k, l})
      <4>1. PlaceOf(q) \in Places(b2, {k, l})
        BY <1>3, <3>2 DEF MergeOf
      <4>2. QED
        BY <4>1 DEF Places, PlaceOf
    <3>3. QED
      BY <3>1, <3>2
  <2>3. QED
    BY <1>1, <1>2, <1>4, <2>2
<1>5. QED
  BY <1>4 DEF TxnsKept

\* Two documents of opposite signs are linked.
LEMMA LinkPays ==
    ASSUME OwedInv, LotInv', NEW from \in Lot, NEW to \in Lot, HasDoc(from), HasDoc(to),
           invoice' = invoice, CreateLotLink(from, to),
           Sign(Total[invoice[from]]) # Sign(Balance(to)), Balance(to) # 0
    PROVE  PaysOff(splits')
<1> DEFINE f == Worth(splits, InL(from))
           t == Worth(splits, InL(to))
           x == FromLink(f, t)
<1>1. /\ SplitBag(splits) /\ invoice \in [Lot -> Doc \cup {None}] /\ DocsIn(splits, invoice)
      /\ LotInv /\ Signs(splits, invoice)
  BY InvParts DEF OwedInv
<1>2. DocsIn(splits', invoice)
  BY InvPartsNext
<1>3. PICK txn \in Link : LinkBy(splits', splits, txn, from, to)
  BY <1>1, LinkIs
<1>4. MergeOf(splits', Linked(splits, txn, from, x, to, - x), {from, to})
  BY <1>3 DEF LinkBy
<1>5. f = Balance(from) /\ t = Balance(to)
  BY <1>1, BalanceIs
<1>6. /\ f \in Int /\ t \in Int
      /\ Total[invoice[from]] \in Int
      /\ Total[invoice[to]] \in Int
      /\ Total[invoice[from]] >= 0 => f >= 0
      /\ Total[invoice[from]] <= 0 => f <= 0
      /\ Total[invoice[to]] >= 0 => t >= 0
      /\ Total[invoice[to]] <= 0 => t <= 0
  BY <1>1, <1>5, OwedSign
<1>7. Sign(Total[invoice[from]]) # Sign(t) /\ t # 0
  BY <1>5
<1>a. invoice[from] # None /\ invoice[to] # None
  BY DEF HasDoc
<1> HIDE DEF f, t
<1>8. /\ x \in Int /\ - x \in Int /\ x + (- x) = 0
      /\ Takes(x, f) /\ Opposes(x, Total[invoice[from]])
      /\ Takes(- x, t) /\ Opposes(- x, Total[invoice[to]])
  BY <1>6, <1>7 DEF FromLink, Abs, Sign, Takes, Opposes
<1>9. from # to
  BY <1>6, <1>7 DEF Sign
<1> HIDE DEF x
<1>12. OnlyPaid(splits', splits, invoice)
  <2>1. Offers(splits, invoice, from, x) /\ Offers(splits, invoice, to, - x)
    BY <1>8, <1>a DEF Offers, f, t
  <2>2. x \in Int /\ - x \in Int /\ x + (- x) = 0
    BY <1>8
  <2> DEFINE y == - x
  <2> HIDE DEF y
  <2>3. y \in Int /\ x + y = 0 /\ Offers(splits, invoice, to, y)
        /\ MergeOf(splits', Linked(splits, txn, from, x, to, y), {from, to})
    BY <1>4, <2>1, <2>2 DEF y
  <2>4. QED
    BY <1>1, <1>2, <1>9, <2>1, <2>2, <2>3, LinkOwes
<1>13. TxnsKept(splits, splits')
  BY <1>1, <1>4, <1>8, MergedTxns DEF Linked
<1>14. QED
  BY <1>12, <1>13 DEF PaysOff, OnlyPaid

\* A payment, or a part of it, is moved to a lot.
LEMMA OffsetPays ==
    ASSUME OwedInv, LotInv', NEW from \in Lot, NEW to \in Lot, ~ HasDoc(from),
           invoice' = invoice, OffsetLots(from, to)
    PROVE  PaysOff(splits')
<1> DEFINE target == Worth(splits, InL(to))
<1>1. /\ SplitBag(splits) /\ invoice \in [Lot -> Doc \cup {None}] /\ DocsIn(splits, invoice)
      /\ LotInv /\ Signs(splits, invoice)
  BY InvParts DEF OwedInv
<1>2. target = Balance(to) /\ target \in Int
  BY <1>1, BalanceIs
<1>3. CASE splits' = splits
  <2>1. TxnsKept(splits, splits')
    BY <1>3 DEF TxnsKept
  <2>2. ASSUME NEW d \in Doc
        PROVE  R!Within(OwedOf(splits, invoice)[d], OwedOf(splits, invoice)[d])
    <3>1. OwedOf(splits, invoice)[d] \in Int
      BY <1>1, WorthType DEF OwedOf
    <3>2. QED
      BY <3>1 DEF R!Within
  <2>3. QED
    BY <1>1, <1>3, <2>1, <2>2 DEF PaysOff, OnlyPaid
<1>4. ASSUME NEW s \in DOMAIN splits, s.lot = from, OffsetBy(splits', splits, s, target, to)
      PROVE  PaysOff(splits')
  <2>1. HasDoc(to) => /\ Total[invoice[to]] \in Int
                      /\ Total[invoice[to]] >= 0 => target >= 0
                      /\ Total[invoice[to]] <= 0 => target <= 0
    BY <1>1, <1>2, OwedSign
  <2> HIDE DEF target
  <2>2. PICK whole \in BOOLEAN, x \in Int :
             /\ splits' = Divided(splits, s, whole, x, to)
             /\ whole => x = s.amount
             /\ ~ whole => x = - target
             /\ target > 0 => x < 0 /\ target + x >= 0 /\ s.amount <= x
             /\ target < 0 => x > 0 /\ target + x <= 0 /\ s.amount >= x
    BY <1>4, MovedIs
  <2>3. target # 0
    BY <1>4 DEF OffsetBy
  <2>4. invoice[s.lot] = None
    BY <1>4 DEF HasDoc
  <2>5. invoice[to] # None => Takes(x, Worth(splits, InL(to))) /\ Opposes(x, Total[invoice[to]])
    <3>1. Takes(x, target)
      BY <1>2, <2>2, <2>3 DEF Takes
    <3>2. HasDoc(to) => Opposes(x, Total[invoice[to]])
      BY <1>2, <2>1, <2>2, <2>3 DEF Opposes
    <3>3. QED
      BY <3>1, <3>2 DEF HasDoc, target
  <2>6. DocsIn(Divided(splits, s, whole, x, to), invoice)
    BY <2>2, InvPartsNext
  <2>7. /\ Signs(Divided(splits, s, whole, x, to), invoice)
        /\ \A d \in Doc : R!Within(OwedOf(Divided(splits, s, whole, x, to), invoice)[d],
                                   OwedOf(splits, invoice)[d])
        /\ Worth(Divided(splits, s, whole, x, to), AllSplits) = Worth(splits, AllSplits)
    BY <1>1, <2>2, <2>4, <2>5, <2>6, OffsetOwes
  <2>8. TxnsKept(splits, Divided(splits, s, whole, x, to))
    BY <1>1, <2>2, DividedTxns
  <2>9. QED
    BY <2>2, <2>7, <2>8 DEF PaysOff, OnlyPaid
<1>5. QED
  BY <1>1, <1>3, <1>4, OffsetIs

LEMMA RightLotStep ==
    ASSUME OwedInv, LotInv', RightLot
    PROVE  OwedStep
<1> USE DEF RightLot
<1>0. Walking /\ LeftSigned
  BY InvParts DEF OwedInv
<1>1. Len(list) \in Nat
  BY <1>0 DEF Walking
<1>2. right' \in Rights
  <2>1. Rights \in SUBSET Nat /\ Rights # {}
    BY <1>0, <1>1 DEF Rights, Walking
  <2>2. QED
    BY <2>1, MinIn
<1>3. /\ left \in 1 .. Len(list) /\ right' \in 1 .. Len(list)
      /\ Open(list[right']) /\ Sign(leftBal) # Sign(Balance(list[right']))
  BY <1>0, <1>1, <1>2 DEF Rights, Walking
<1> DEFINE l == list[left]
           r == list[right']
<1>4. l \in Lot /\ r \in Lot
  BY <1>0, <1>3 DEF Walking
<1>5. Balance(r) # 0 /\ Sign(leftBal) # Sign(Balance(r))
  BY <1>3, OpenIs
<1>6. HasDoc(l) => Sign(leftBal) = Sign(Total[invoice[l]])
  BY <1>0, <1>3 DEF LeftSigned, HasDoc
<1>7. Balances(l, r) /\ UNCHANGED <<invoice, paid, list, left, leftBal>>
  OBVIOUS
<1> HIDE DEF l, r
<1>8. PaysOff(splits')
  <2>1. CASE HasDoc(l) /\ HasDoc(r)
    <3>1. CreateLotLink(l, r) /\ invoice' = invoice
      BY <1>7, <2>1 DEF Balances
    <3>2. Sign(Total[invoice[l]]) # Sign(Balance(r))
      BY <1>5, <1>6, <2>1
    <3>3. QED
      BY <1>4, <1>5, <2>1, <3>1, <3>2, LinkPays
  <2>2. CASE ~ (HasDoc(l) /\ HasDoc(r))
    <3>1. \/ ~ HasDoc(l) /\ OffsetLots(l, r)
          \/ ~ HasDoc(r) /\ OffsetLots(r, l)
      BY <1>7, <2>2 DEF Balances
    <3>2. QED
      BY <1>4, <1>7, <3>1, OffsetPays
  <2>3. QED
    BY <2>1, <2>2
<1>9. QED
  BY <1>7, <1>8, SettleStep

LEMMA OwedInvInit ==
    ASSUME Init
    PROVE  OwedInv /\ R!Init
<1> USE DEF Init
<1>1. LotInv
  BY LotInvInit
<1>2. SplitBag(splits) /\ invoice \in [Lot -> Doc \cup {None}] /\ None \notin Doc
  BY <1>1, InvParts
<1>3. DOMAIN splits = {} /\ \A l \in Lot : invoice[l] = None
  BY DEF EmptyBag, SetToBag
<1>4. Signs(splits, invoice) /\ PaidOnes(splits, paid) /\ LeftSigned
  BY <1>3 DEF Signs, PaidOnes, LeftSigned
<1>5. ShownOK
  BY <1>2, Shown DEF SplitsOK
<1>6. \A C : Worth(splits, C) = 0
  <2>1. \A C : \A s \in DOMAIN splits : s \notin C
    BY <1>3
  <2>2. QED
    BY <1>2, <2>1, WorthNone
<1>7. Owed = [d \in Doc |-> 0] /\ Credit = 0
  BY <1>5, <1>6 DEF ShownOK, OwedOf, CreditOf
<1>8. PostedDocs = {}
  BY <1>2, <1>3, <1>5 DEF ShownOK, PostedOf
<1>9. R!Init
  BY <1>7, <1>8 DEF R!Init, PostedDocs
<1>10. QED
  BY <1>1, <1>4, <1>9 DEF OwedInv

LEMMA OwedInvNext ==
    ASSUME OwedInv, [Next]_lotVars
    PROVE  OwedInv' /\ [R!Next]_R!receivableVars
<1>1. LotInv'
  BY LotInvNext DEF OwedInv
<1>2. OwedStep
  <2>1. CASE UNCHANGED lotVars
    <3>1. UNCHANGED <<splits, invoice, paid, list, left, leftBal>>
      BY <2>1 DEF lotVars, applyVars
    <3>2. LeftSigned' /\ PaidOnes(splits', paid')
      BY <3>1 DEF OwedInv, LeftSigned
    <3>3. QED
      BY <3>1, <3>2, NothingOwed DEF OwedStep
  <2>2. ASSUME NEW d \in Doc, PostToAccount(d) PROVE OwedStep
    BY <1>1, <2>2, PostStep
  <2>3. ASSUME NEW d \in Doc, Unpost(d) PROVE OwedStep
    BY <1>1, <2>3, UnpostStep
  <2>4. ASSUME NEW p \in Payment, NEW a \in Amounts, NEW lots \in SUBSET OpenLots,
               ApplyPayment(p, a, lots)
        PROVE  OwedStep
    BY <1>1, <2>4, PayStep
  <2>5. ASSUME NEW lots \in SUBSET OpenLots, ApplyLots(lots) PROVE OwedStep
    BY <2>5, ApplyLotsStep
  <2>6. ASSUME NEW t \in Payment \cup Link, DeleteTxn(t) PROVE OwedStep
    BY <1>1, <2>6, DeleteStep
  <2>7. QED
    BY <1>1, <2>1, <2>2, <2>3, <2>4, <2>5, <2>6, LeftLotStep, RightLotStep, AppliedStep,
       UnpostLinkStep, UnpostDoneStep
       DEF Next
<1>3. QED
  BY <1>1, <1>2 DEF OwedStep, OwedInv

\* gncInvoicePostToAccount, gncOwnerApplyPaymentSecs, gncOwnerAutoApplyPaymentsWithLots,
\* gncInvoiceUnpost: the lots implement Receivable.  Whatever is paid, offset, linked,
\* deleted or taken back, no document is overpaid or owes more than its total, and
\* applying payments and documents to each other neither makes nor loses money.
THEOREM OwesHolds == Spec => Owes
<1>1. Init => OwedInv /\ R!Init
  BY OwedInvInit
<1>2. OwedInv /\ [Next]_lotVars => OwedInv' /\ [R!Next]_R!receivableVars
  BY OwedInvNext
<1>3. QED
  BY <1>1, <1>2, PTL DEF Spec, Owes, R!Spec

-----------------------------------------------------------------------------
(* What is settled: the inductive invariant.                               *)

\* The lots of documents, and of those of the owner the ones always seen with one split.
Sure(v, si, l) == v[l] # None \/ l \in si

\* Balances that could balance each other.
Clash(n, m) == (n > 0 /\ m < 0) \/ (n < 0 /\ m > 0)

AloneIn(b, l) ==
    \A s, u \in DOMAIN b : s.lot = l /\ u.lot = l => s = u /\ b[s] = 1

\* The pairs of lots that were looked at do not clash.
Looked(i, j, lf, rt) == i < j /\ (i < lf \/ (i = lf /\ j <= rt))

Met(b, v, si, ls, lf, rt) ==
    \A i, j \in 1 .. Len(ls) :
      Looked(i, j, lf, rt) /\ Sure(v, si, ls[i]) /\ Sure(v, si, ls[j])
        => ~ Clash(Worth(b, InL(ls[i])), Worth(b, InL(ls[j])))

\* The left lot has not grown beyond the balance that was noted.
LeftMet(b, v, si, ls, lf, lb) ==
    lf # 0 /\ Sure(v, si, ls[lf]) => lb # 0 /\ R!Within(Worth(b, InL(ls[lf])), lb)

MetInv ==
    /\ \A l \in single : AloneIn(splits, l)
    /\ Met(splits, invoice, single, list, left, right)
    /\ LeftMet(splits, invoice, single, list, left, leftBal)

AlonesOK == \A l : Alone(l) <=> AloneIn(splits, l)

LEMMA Alones == AlonesOK
<1>1. ASSUME NEW l PROVE DOMAIN InLot(l) = {s \in DOMAIN splits : s.lot = l}
  BY DEF InLot, Of, BagToSet
<1>2. ASSUME NEW l PROVE Alone(l) <=> AloneIn(splits, l)
  <2> DEFINE D == DOMAIN InLot(l)
  <2>1. D = {s \in DOMAIN splits : s.lot = l}
    BY <1>1
  <2>2. Alone(l) <=> \A s, u \in D : s = u /\ splits[s] = 1
    BY DEF Alone
  <2> HIDE DEF D
  <2>3. QED
    BY <2>1, <2>2 DEF AloneIn
<1>3. QED
  BY <1>2 DEF AlonesOK

LEMMA AlonesNext == AlonesOK'
BY Alones, PTL

LEMMA BalancesNone ==
    ASSUME NEW b, SplitBag(b), NEW l, \A s \in DOMAIN b : s.lot # l
    PROVE  Worth(b, InL(l)) = 0
<1>1. \A s \in DOMAIN b : s \notin InL(l)
  BY DEF InL
<1>2. QED
  BY <1>1, WorthNone

\* The balance of a lot with one split.
LEMMA WorthAlone ==
    ASSUME NEW b, SplitBag(b), NEW l, AloneIn(b, l), NEW s \in DOMAIN b, s.lot = l
    PROVE  Worth(b, InL(l)) = s.amount /\ s.amount \in Int
<1>1. s \in AllSplits /\ s.amount \in Int /\ b[s] = 1
  BY DEF SplitBag, AllSplits, AloneIn
<1>2. Part(b, InL(l)) = Part(b, {s})
  BY <1>1 DEF Part, InL, AloneIn
<1>3. Worth(b, InL(l)) = Worth(b, {s})
  BY <1>2, WorthPart
<1>4. Worth(b, {s}) = s.amount * b[s]
  BY <1>1, WorthOne
<1>5. QED
  BY <1>1, <1>3, <1>4

\* A lot that is passed over has no balance.
LEMMA NotOpen ==
    ASSUME SplitBag(splits), NEW l, ~ Open(l)
    PROVE  Worth(splits, InL(l)) = 0
<1>1. CASE Empty(l)
  <2>1. DOMAIN InLot(l) = {s \in DOMAIN splits : s.lot = l}
    BY DEF InLot, Of, BagToSet
  <2>2. DOMAIN EmptyBag = {}
    BY DEF EmptyBag, SetToBag
  <2>3. QED
    BY <1>1, <2>1, <2>2, BalancesNone DEF Empty
<1>2. CASE ~ Empty(l)
  BY <1>2, BalanceIs DEF Open, Closed
<1>3. QED
  BY <1>1, <1>2

\* When gncOwnerAutoApplyPaymentsWithLots is called no pair was looked at.
LEMMA AppliesMet ==
    ASSUME LotInv', NEW lots, Applies(lots)
    PROVE  MetInv'
<1>1. left' = 0 /\ \A l \in single' : Alone(l)'
  BY DEF Applies
<1>2. \A l \in single' : AloneIn(splits', l)
  BY <1>1, AlonesNext DEF AlonesOK
<1>3. \A i, j \in 1 .. Len(list') : ~ Looked(i, j, left', right')
  BY <1>1, InvPartsNext DEF Looked, Walking
<1>4. QED
  BY <1>1, <1>2, <1>3 DEF MetInv, Met, LeftMet

\* When it is not running there is none.
LEMMA IdleMet ==
    ASSUME LotInv', list' = <<>>
    PROVE  MetInv'
<1>1. Walking'
  BY InvPartsNext
<1>2. Len(list') = 0 /\ ToSet(list') = {}
  BY DEF ToSet
<1>3. single' = {} /\ left' = 0
  BY <1>1, <1>2 DEF Walking
<1>4. QED
  BY <1>2, <1>3 DEF MetInv, Met, LeftMet

\* Balances that do not have the same sign.
Facing(n, m) == (n >= 0 /\ m <= 0) \/ (n <= 0 /\ m >= 0)

\* Two documents are linked: no balance grows, and one of the two is 0 then.
LEMMA LinkMeets ==
    ASSUME NEW b, SplitBag(b), NEW k \in Lot, NEW l \in Lot, k # l, NEW t \in Link,
           NEW c, LinkBy(c, b, t, k, l),
           Facing(Worth(b, InL(k)), Worth(b, InL(l)))
    PROVE  /\ \A j \in Lot : R!Within(Worth(c, InL(j)), Worth(b, InL(j)))
           /\ ~ Clash(Worth(c, InL(k)), Worth(c, InL(l)))
<1> DEFINE f == Worth(b, InL(k))
           n == Worth(b, InL(l))
           x == FromLink(f, n)
           y == - x
<1>1. x \in Int /\ y \in Int /\ MergeOf(c, Linked(b, t, k, x, l, y), {k, l})
  BY DEF LinkBy
<1>2. f \in Int /\ n \in Int /\ Facing(f, n)
  BY WorthType
<1> HIDE DEF f, n
<1>3. /\ R!Within(f + x, f) /\ R!Within(n + y, n)
      /\ f + x = 0 \/ n + y = 0
  BY <1>2 DEF FromLink, Abs, R!Within, Facing
<1> HIDE DEF x, y
<1>4. ASSUME NEW j \in Lot
      PROVE  Worth(c, InL(j)) = Worth(b, InL(j)) + (IF j = k THEN x ELSE 0) + (IF j = l THEN y ELSE 0)
  BY <1>1, LinkedBalance
<1>5. Worth(c, InL(k)) = f + x /\ Worth(c, InL(l)) = n + y
  <2>1. Worth(c, InL(k)) = f + x + 0
    BY <1>4 DEF f
  <2>2. Worth(c, InL(l)) = n + 0 + y
    BY <1>4 DEF n
  <2>3. QED
    BY <1>1, <1>2, <2>1, <2>2
<1>6. ASSUME NEW j \in Lot PROVE R!Within(Worth(c, InL(j)), Worth(b, InL(j)))
  <2>1. CASE j = k
    BY <1>3, <1>5, <2>1 DEF f
  <2>2. CASE j = l
    BY <1>3, <1>5, <2>2 DEF n
  <2>3. CASE j # k /\ j # l
    <3>1. Worth(b, InL(j)) \in Int
      BY WorthType
    <3>2. Worth(c, InL(j)) = Worth(b, InL(j))
      BY <1>4, <2>3, <3>1
    <3>3. QED
      BY <3>1, <3>2 DEF R!Within
  <2>4. QED
    BY <2>1, <2>2, <2>3
<1>7. ~ Clash(Worth(c, InL(k)), Worth(c, InL(l)))
  <2>1. f + x \in Int /\ n + y \in Int
    BY <1>1, <1>2
  <2>2. QED
    BY <1>3, <1>5, <2>1 DEF Clash
<1>8. QED
  BY <1>6, <1>7

\* What the dividing of a split does to the balance of a lot.
LEMMA DividedBalance ==
    ASSUME NEW b, SplitBag(b), NEW s \in DOMAIN b, NEW whole \in BOOLEAN, NEW x \in Int,
           NEW m \in Lot, whole => x = s.amount, NEW j
    PROVE  Worth(Divided(b, s, whole, x, m), InL(j))
             = Worth(b, InL(j)) - (IF j = s.lot THEN x ELSE 0) + (IF j = m THEN x ELSE 0)
<1> DEFINE c == Divided(b, s, whole, x, m)
           rest == SplitRec(s.txn, s.lot, s.amount - x)
           moved == SplitRec(s.txn, m, x)
<1>1. Worth(c, InL(j)) = Worth(b, InL(j)) - (IF s \in InL(j) THEN s.amount ELSE 0)
                           + (IF rest \in InL(j) THEN s.amount - x ELSE 0)
                           + (IF moved \in InL(j) THEN x ELSE 0)
  BY TxnsAndLots, DividedWorth
<1>2. s \in AllSplits /\ s.amount \in Int /\ Worth(b, InL(j)) \in Int
  BY WorthType DEF SplitBag, AllSplits
<1>3. /\ s \in InL(j) <=> j = s.lot
      /\ rest \in InL(j) <=> j = s.lot
      /\ moved \in InL(j) <=> j = m
  BY <1>2 DEF InL, SplitRec, AllSplits
<1> HIDE DEF c, rest, moved
<1>4. Worth(c, InL(j)) = Worth(b, InL(j)) - (IF j = s.lot THEN x ELSE 0) + (IF j = m THEN x ELSE 0)
  BY <1>1, <1>2, <1>3
<1>5. QED
  BY <1>4 DEF c

\* A payment, or a part of it, is moved to a lot: the lot does not grow, nor does the
\* one it comes from if the split was alone in it, and one of the two has no balance then.
LEMMA OffsetMeets ==
    ASSUME NEW b, SplitBag(b), NEW k \in Lot, NEW l \in Lot, k # l, NEW s \in DOMAIN b, s.lot = k,
           NEW c, OffsetBy(c, b, s, Worth(b, InL(l)), l)
    PROVE  /\ \A j \in Lot : j # k \/ AloneIn(b, k) =>
                R!Within(Worth(c, InL(j)), Worth(b, InL(j)))
           /\ AloneIn(b, k) => ~ Clash(Worth(c, InL(k)), Worth(c, InL(l)))
<1> DEFINE f == Worth(b, InL(k))
           n == Worth(b, InL(l))
<1>1. f \in Int /\ n \in Int
  BY WorthType
<1>2. n # 0 /\ s.amount \in Int
  BY DEF OffsetBy
<1>3. OffsetBy(c, b, s, n, l)
  OBVIOUS
<1> HIDE DEF n
<1>4. PICK whole \in BOOLEAN, x \in Int :
             /\ c = Divided(b, s, whole, x, l)
             /\ whole => x = s.amount
             /\ ~ whole => x = - n
             /\ n > 0 => x < 0 /\ n + x >= 0 /\ s.amount <= x
             /\ n < 0 => x > 0 /\ n + x <= 0 /\ s.amount >= x
  BY <1>3, MovedIs
<1>5. ASSUME NEW j \in Lot
      PROVE  Worth(c, InL(j)) = Worth(b, InL(j)) - (IF j = k THEN x ELSE 0) + (IF j = l THEN x ELSE 0)
  BY <1>4, DividedBalance
<1>6. AloneIn(b, k) => f = s.amount
  BY WorthAlone
<1> HIDE DEF f
<1>7. Worth(c, InL(k)) = f - x /\ Worth(c, InL(l)) = n + x
  <2>1. Worth(c, InL(k)) = f - x + 0
    BY <1>5 DEF f
  <2>2. Worth(c, InL(l)) = n - 0 + x
    BY <1>5 DEF n
  <2>3. QED
    BY <1>1, <2>1, <2>2
<1>8. R!Within(n + x, n)
  BY <1>1, <1>2, <1>4 DEF R!Within
<1>9. AloneIn(b, k) => R!Within(f - x, f) /\ (f - x = 0 \/ n + x = 0)
  BY <1>1, <1>2, <1>4, <1>6 DEF R!Within
<1>10. ASSUME NEW j \in Lot, j # k \/ AloneIn(b, k)
       PROVE  R!Within(Worth(c, InL(j)), Worth(b, InL(j)))
  <2>1. CASE j = k
    BY <1>7, <1>9, <1>10, <2>1 DEF f
  <2>2. CASE j = l
    BY <1>7, <1>8, <2>2 DEF n
  <2>3. CASE j # k /\ j # l
    <3>1. Worth(b, InL(j)) \in Int
      BY WorthType
    <3>2. Worth(c, InL(j)) = Worth(b, InL(j))
      BY <1>5, <2>3, <3>1
    <3>3. QED
      BY <3>1, <3>2 DEF R!Within
  <2>4. QED
    BY <2>1, <2>2, <2>3
<1>11. ASSUME AloneIn(b, k) PROVE ~ Clash(Worth(c, InL(k)), Worth(c, InL(l)))
  <2>1. f - x \in Int /\ n + x \in Int
    BY <1>1
  <2>2. QED
    BY <1>7, <1>9, <1>11, <2>1 DEF Clash
<1>12. QED
  BY <1>10, <1>11

\* No split of the lot can be moved.
LEMMA NothingMoves ==
    ASSUME SplitBag(splits), NEW from, NEW to, AloneIn(splits, from),
           Balance(to) = 0 \/ Offsetting(from, Balance(to)) = {}
    PROVE  ~ Clash(Worth(splits, InL(from)), Worth(splits, InL(to)))
<1> DEFINE f == Worth(splits, InL(from))
           n == Worth(splits, InL(to))
<1>1. f \in Int /\ n \in Int /\ Balance(to) = n
  BY WorthType, BalanceIs
<1>2. CASE n = 0
  BY <1>1, <1>2 DEF Clash
<1>3. CASE \A s \in DOMAIN splits : s.lot # from
  BY <1>1, <1>3, BalancesNone DEF Clash
<1>4. ASSUME Offsetting(from, n) = {}, NEW s \in DOMAIN splits, s.lot = from PROVE ~ Clash(f, n)
  <2>1. f = s.amount
    BY <1>4, WorthAlone
  <2>2. DOMAIN InLot(from) = {s}
    <3>1. DOMAIN InLot(from) = {u \in DOMAIN splits : u.lot = from}
      BY DEF InLot, Of, BagToSet
    <3>2. QED
      BY <1>4, <3>1 DEF AloneIn
  <2> HIDE DEF f, n
  <2>3. s.amount = 0 \/ Sign(s.amount) = Sign(n)
    <3>1. SUFFICES ASSUME s.amount # 0, Sign(s.amount) # Sign(n) PROVE s \in Offsetting(from, n)
      BY <1>4
    <3>2. ~ (Abs(s.amount) > Abs(s.amount))
      BY <1>1, <2>1 DEF Abs
    <3>3. QED
      BY <2>2, <3>1, <3>2 DEF Offsetting
  <2>4. QED
    BY <1>1, <2>1, <2>3 DEF Sign, Clash
<1>5. QED
  BY <1>1, <1>2, <1>3, <1>4

NoneGrows(c, b, v, si) ==
    \A j \in Lot : Sure(v, si, j) => R!Within(Worth(c, InL(j)), Worth(b, InL(j)))

LEMMA SameGrows ==
    ASSUME NEW b, SplitBag(b), NEW c, NEW v, NEW si,
           \A j \in Lot : Worth(c, InL(j)) = Worth(b, InL(j))
    PROVE  NoneGrows(c, b, v, si)
<1>1. \A j \in Lot : Worth(b, InL(j)) \in Int
  BY WorthType
<1>2. QED
  BY <1>1 DEF NoneGrows, R!Within

LEMMA OffsetLotsMeet ==
    ASSUME SplitBag(splits), MetInv, NEW from \in Lot, NEW to \in Lot, ~ HasDoc(from),
           OffsetLots(from, to)
    PROVE  /\ NoneGrows(splits', splits, invoice, single)
           /\ Sure(invoice, single, from) =>
                ~ Clash(Worth(splits', InL(from)), Worth(splits', InL(to)))
<1>1. Sure(invoice, single, from) => AloneIn(splits, from)
  BY DEF Sure, HasDoc, MetInv
<1>2. CASE splits' = splits /\ (Balance(to) = 0 \/ Offsetting(from, Balance(to)) = {})
  <2>1. Sure(invoice, single, from) => ~ Clash(Worth(splits, InL(from)), Worth(splits, InL(to)))
    BY <1>1, <1>2, NothingMoves
  <2>2. NoneGrows(splits, splits, invoice, single)
    BY SameGrows
  <2>3. QED
    BY <1>2, <2>1, <2>2
<1>3. ASSUME NEW s \in DOMAIN splits, s.lot = from,
             OffsetBy(splits', splits, s, Worth(splits, InL(to)), to)
      PROVE  /\ NoneGrows(splits', splits, invoice, single)
             /\ Sure(invoice, single, from) =>
                  ~ Clash(Worth(splits', InL(from)), Worth(splits', InL(to)))
  <2>1. CASE from = to
    <3>1. PICK whole \in BOOLEAN, x \in Int :
                 splits' = Divided(splits, s, whole, x, to) /\ (whole => x = s.amount)
      BY <1>3, MovedIs
    <3>2. ASSUME NEW j \in Lot PROVE Worth(splits', InL(j)) = Worth(splits, InL(j))
      <4>1. Worth(splits', InL(j))
              = Worth(splits, InL(j)) - (IF j = s.lot THEN x ELSE 0) + (IF j = to THEN x ELSE 0)
        BY <3>1, DividedBalance
      <4>2. Worth(splits, InL(j)) \in Int
        BY WorthType
      <4>3. QED
        BY <1>3, <2>1, <4>1, <4>2
    <3>3. NoneGrows(splits', splits, invoice, single)
      BY <3>2, SameGrows
    <3>4. Worth(splits', InL(from)) \in Int
      BY <3>2, WorthType
    <3>5. QED
      BY <2>1, <3>3, <3>4 DEF Clash
  <2>2. CASE from # to
    <3>1. /\ \A j \in Lot : j # from \/ AloneIn(splits, from) =>
                  R!Within(Worth(splits', InL(j)), Worth(splits, InL(j)))
          /\ AloneIn(splits, from) => ~ Clash(Worth(splits', InL(from)), Worth(splits', InL(to)))
      BY <1>3, <2>2, OffsetMeets
    <3>2. QED
      BY <1>1, <3>1 DEF NoneGrows
  <2>3. QED
    BY <2>1, <2>2
<1>4. QED
  BY <1>2, <1>3, OffsetIs

LEMMA BalancesMeet ==
    ASSUME SplitBag(splits), MetInv, NEW l \in Lot, NEW r \in Lot, Balances(l, r),
           Worth(splits, InL(r)) # 0,
           Sure(invoice, single, l) => Facing(Worth(splits, InL(l)), Worth(splits, InL(r)))
    PROVE  /\ NoneGrows(splits', splits, invoice, single)
           /\ Sure(invoice, single, l) /\ Sure(invoice, single, r) =>
                ~ Clash(Worth(splits', InL(l)), Worth(splits', InL(r)))
<1>1. CASE HasDoc(l) /\ HasDoc(r)
  <2>1. PICK txn \in Link : LinkBy(splits', splits, txn, l, r)
    BY <1>1, LinkIs DEF Balances
  <2>2. Facing(Worth(splits, InL(l)), Worth(splits, InL(r)))
    BY <1>1 DEF Sure, HasDoc
  <2>3. l # r
    <3>1. Worth(splits, InL(r)) \in Int
      BY WorthType
    <3>2. QED
      BY <2>2, <3>1 DEF Facing
  <2>4. QED
    BY <2>1, <2>2, <2>3, LinkMeets DEF NoneGrows
<1>2. CASE ~ (HasDoc(l) /\ HasDoc(r))
  <2>1. \/ ~ HasDoc(l) /\ OffsetLots(l, r)
        \/ ~ HasDoc(r) /\ OffsetLots(r, l)
    BY <1>2 DEF Balances
  <2>2. \A n, m : Clash(n, m) <=> Clash(m, n)
    BY DEF Clash
  <2>3. QED
    BY <2>1, <2>2, OffsetLotsMeet
<1>3. QED
  BY <1>1, <1>2

\* Balances that are passed over do not clash with what the left lot may have.
LEMMA PassedBy ==
    ASSUME NEW n \in Int, NEW m \in Int, NEW lb \in Int, lb # 0, R!Within(n, lb),
           m = 0 \/ Sign(lb) = Sign(m)
    PROVE  ~ Clash(n, m)
BY DEF R!Within, Sign, Clash

LEMMA StillMet ==
    ASSUME NEW n \in Int, NEW m \in Int, NEW p \in Int, NEW q \in Int, ~ Clash(n, m),
           R!Within(p, n), R!Within(q, m)
    PROVE  ~ Clash(p, q)
BY DEF R!Within, Clash

\* The lots between the right one and the next one do not clash with the left one.
LEMMA PassedOver ==
    ASSUME OwedInv, MetInv, NEW j \in right + 1 .. Len(list), j \notin Rights, left # 0,
           Sure(invoice, single, list[left])
    PROVE  ~ Clash(Worth(splits, InL(list[left])), Worth(splits, InL(list[j])))
<1>1. SplitBag(splits) /\ Walking
  BY InvParts DEF OwedInv
<1>2. /\ Worth(splits, InL(list[left])) \in Int /\ Worth(splits, InL(list[j])) \in Int
      /\ Balance(list[j]) = Worth(splits, InL(list[j])) /\ leftBal \in Int
  BY <1>1, WorthType, BalanceIs DEF Walking
<1>3. leftBal # 0 /\ R!Within(Worth(splits, InL(list[left])), leftBal)
  BY DEF MetInv, LeftMet
<1>4. ~ Open(list[j]) \/ Sign(leftBal) = Sign(Balance(list[j]))
  BY DEF Rights
<1>5. ~ Open(list[j]) => Worth(splits, InL(list[j])) = 0
  BY <1>1, NotOpen
<1>6. QED
  BY <1>2, <1>3, <1>4, <1>5, PassedBy

LEMMA RightLotMet ==
    ASSUME OwedInv, LotInv', MetInv, RightLot
    PROVE  MetInv'
<1> USE DEF RightLot
<1>0. SplitBag(splits) /\ Walking /\ SplitBag(splits')
  BY InvParts, InvPartsNext DEF OwedInv
<1>1. Len(list) \in Nat
  BY <1>0 DEF Walking
<1>2. right' \in Rights /\ \A j \in right + 1 .. right' - 1 : j \notin Rights
  <2>1. Rights \in SUBSET Nat /\ Rights # {}
    BY <1>0, <1>1 DEF Rights, Walking
  <2>2. right' \in Rights /\ \A m \in Rights : right' <= m
    BY <2>1, MinIn
  <2>3. \A m \in Rights : m \in Nat
    BY <2>1
  <2>4. QED
    BY <2>2, <2>3
<1>3. /\ left \in 1 .. Len(list) /\ right \in 0 .. Len(list) /\ right' \in right + 1 .. Len(list)
      /\ Open(list[right']) /\ Sign(leftBal) # Sign(Balance(list[right'])) /\ leftBal \in Int
  BY <1>0, <1>1, <1>2 DEF Rights, Walking
<1>4. UNCHANGED <<invoice, list, left, leftBal>> /\ single' \subseteq single
  OBVIOUS
<1> DEFINE W(i) == Worth(splits, InL(list[i]))
           X(i) == Worth(splits', InL(list[i]))
           S(i) == Sure(invoice, single, list[i])
<1>5. /\ \A i \in 1 .. Len(list) : list[i] \in Lot /\ W(i) \in Int /\ X(i) \in Int
      /\ W(right') = Balance(list[right']) /\ W(right') # 0
  <2>1. \A i \in 1 .. Len(list) : list[i] \in Lot /\ W(i) \in Int /\ X(i) \in Int
    BY <1>0, WorthType DEF Walking
  <2>2. QED
    BY <1>0, <1>3, <2>1, BalanceIs, OpenIs
<1>6. S(left) => leftBal # 0 /\ R!Within(W(left), leftBal)
  BY <1>3 DEF MetInv, LeftMet
<1>7. /\ NoneGrows(splits', splits, invoice, single)
      /\ S(left) /\ S(right') => ~ Clash(X(left), X(right'))
  <2>1. S(left) => Facing(W(left), W(right'))
    <3> HIDE DEF S, W
    <3>1. QED
      BY <1>3, <1>5, <1>6 DEF Facing, R!Within, Sign
  <2>2. Balances(list[left], list[right']) /\ list[left] \in Lot /\ list[right'] \in Lot
    BY <1>3, <1>5
  <2>3. QED
    BY <1>0, <1>5, <2>1, <2>2, BalancesMeet
<1>8. \A i \in 1 .. Len(list) : S(i) => R!Within(X(i), W(i))
  BY <1>5, <1>7 DEF NoneGrows
<1>9. ASSUME NEW i \in 1 .. Len(list), NEW j \in 1 .. Len(list), Looked(i, j, left, right'), S(i), S(j)
      PROVE  ~ Clash(X(i), X(j))
  <2>1. CASE i = left /\ j = right'
    BY <1>7, <1>9, <2>1
  <2>2. CASE Looked(i, j, left, right)
    <3>1. ~ Clash(W(i), W(j))
      BY <1>9, <2>2 DEF MetInv, Met
    <3> HIDE DEF S, W, X
    <3>2. QED
      BY <1>5, <1>8, <1>9, <3>1, StillMet
  <2>3. CASE i = left /\ j \in right + 1 .. right' - 1
    <3>1. j \in right + 1 .. Len(list) /\ j \notin Rights /\ left # 0
      BY <1>1, <1>2, <1>3, <2>3
    <3>2. ~ Clash(W(i), W(j))
      BY <1>9, <2>3, <3>1, PassedOver
    <3> HIDE DEF S, W, X
    <3>3. QED
      BY <1>5, <1>8, <1>9, <3>2, StillMet
  <2>4. QED
    BY <1>1, <1>3, <1>9, <2>1, <2>2, <2>3 DEF Looked
<1>10. \A l : Sure(invoice', single', l) => Sure(invoice, single, l)
  BY <1>4 DEF Sure
<1>11. Met(splits', invoice', single', list', left', right')
  <2> SUFFICES ASSUME NEW i \in 1 .. Len(list'), NEW j \in 1 .. Len(list'),
                      Looked(i, j, left', right'),
                      Sure(invoice', single', list'[i]), Sure(invoice', single', list'[j])
               PROVE  ~ Clash(Worth(splits', InL(list'[i])), Worth(splits', InL(list'[j])))
    BY DEF Met
  <2>1. list' = list /\ left' = left
    BY <1>4
  <2>2. QED
    BY <1>9, <1>10, <2>1
<1>12. LeftMet(splits', invoice', single', list', left', leftBal')
  <2>1. S(left) => leftBal # 0 /\ R!Within(X(left), leftBal)
    <3>1. W(left) \in Int /\ X(left) \in Int /\ (S(left) => R!Within(X(left), W(left)))
      BY <1>3, <1>5, <1>8
    <3> HIDE DEF S, W, X
    <3>2. QED
      BY <1>3, <1>6, <3>1 DEF R!Within
  <2>2. list' = list /\ left' = left /\ leftBal' = leftBal
    BY <1>4
  <2>3. QED
    BY <1>10, <2>1, <2>2 DEF LeftMet
<1>13. \A l \in single' : AloneIn(splits', l)
  BY AlonesNext DEF AlonesOK
<1>14. QED
  BY <1>11, <1>12, <1>13 DEF MetInv

\* Once no lot after the right one can balance the left one, or it has no balance, all
\* pairs with the left one, or with lots that are not open, are fine.
LEMMA LeftDone ==
    ASSUME OwedInv, MetInv, Rights = {},
           NEW i \in 1 .. Len(list), NEW j \in 1 .. Len(list), i < j,
           i <= left \/ ~ Open(list[i]),
           Sure(invoice, single, list[i]), Sure(invoice, single, list[j])
    PROVE  ~ Clash(Worth(splits, InL(list[i])), Worth(splits, InL(list[j])))
<1>1. SplitBag(splits) /\ Walking
  BY InvParts DEF OwedInv
<1>2. left \in 0 .. Len(list) /\ right \in 0 .. Len(list) /\ Len(list) \in Nat
  BY <1>1 DEF Walking
<1>3. CASE ~ Open(list[i])
  <2>1. Worth(splits, InL(list[i])) = 0
    BY <1>1, <1>3, NotOpen
  <2>2. QED
    BY <2>1 DEF Clash
<1>4. CASE Looked(i, j, left, right)
  BY <1>4 DEF MetInv, Met
<1>5. CASE i = left /\ j \in right + 1 .. Len(list)
  <2>1. left # 0 /\ j \notin Rights
    BY <1>2, <1>5
  <2>2. QED
    BY <1>5, <2>1, PassedOver
<1>6. QED
  BY <1>2, <1>3, <1>4, <1>5 DEF Looked

LEMMA LeftLotMet ==
    ASSUME OwedInv, MetInv, LeftLot
    PROVE  MetInv'
<1> USE DEF LeftLot
<1>0. SplitBag(splits) /\ Walking
  BY InvParts DEF OwedInv
<1>1. Len(list) \in Nat
  BY <1>0 DEF Walking
<1>2. left' \in Lefts /\ \A i \in left + 1 .. left' - 1 : i \notin Lefts
  <2>1. Lefts \in SUBSET Nat /\ Lefts # {}
    BY <1>0, <1>1 DEF Lefts, Walking
  <2>2. left' \in Lefts /\ \A m \in Lefts : left' <= m
    BY <2>1, MinIn
  <2>3. \A m \in Lefts : m \in Nat
    BY <2>1
  <2>4. QED
    BY <2>2, <2>3
<1>3. /\ left \in 0 .. Len(list) /\ left' \in left + 1 .. Len(list) /\ Open(list[left'])
      /\ right' = left'
  BY <1>0, <1>2 DEF Lefts, Walking
<1>4. UNCHANGED <<splits, invoice, single, list>> /\ leftBal' = Balance(list[left'])
  OBVIOUS
<1>5. Met(splits, invoice, single, list, left', right')
  <2> SUFFICES ASSUME NEW i \in 1 .. Len(list), NEW j \in 1 .. Len(list), Looked(i, j, left', right'),
                      Sure(invoice, single, list[i]), Sure(invoice, single, list[j])
               PROVE  ~ Clash(Worth(splits, InL(list[i])), Worth(splits, InL(list[j])))
    BY DEF Met
  <2>1. i < j /\ i < left'
    BY <1>1, <1>3 DEF Looked
  <2>2. i <= left \/ i \in left + 1 .. left' - 1
    BY <1>1, <1>3, <2>1
  <2>3. i \in left + 1 .. left' - 1 => ~ Open(list[i])
    BY <1>1, <1>2, <1>3 DEF Lefts
  <2>4. QED
    BY <2>1, <2>2, <2>3, LeftDone
<1>6. LeftMet(splits, invoice, single, list, left', leftBal')
  <2>1. leftBal' = Worth(splits, InL(list[left'])) /\ leftBal' \in Int /\ leftBal' # 0
    BY <1>0, <1>3, <1>4, BalanceIs, OpenIs
  <2>2. QED
    BY <2>1 DEF LeftMet, R!Within
<1>7. QED
  BY <1>4, <1>5, <1>6 DEF MetInv

LEMMA MetInvNext ==
    ASSUME OwedInv, MetInv, [Next]_lotVars
    PROVE  MetInv'
<1>1. LotInv'
  BY LotInvNext DEF OwedInv
<1>2. CASE UNCHANGED lotVars
  BY <1>2 DEF lotVars, applyVars, MetInv
<1>3. ASSUME NEW d \in Doc, PostToAccount(d) PROVE MetInv'
  BY <1>1, <1>3, AppliesMet, IdleMet DEF PostToAccount, Idle, applyVars
<1>4. ASSUME NEW d \in Doc, Unpost(d) PROVE MetInv'
  BY <1>1, <1>4, IdleMet DEF Unpost, Idle, applyVars
<1>5. ASSUME NEW p \in Payment, NEW a \in Amounts, NEW lots \in SUBSET OpenLots,
             ApplyPayment(p, a, lots)
      PROVE  MetInv'
  BY <1>1, <1>5, AppliesMet DEF ApplyPayment
<1>6. ASSUME NEW lots \in SUBSET OpenLots, ApplyLots(lots) PROVE MetInv'
  BY <1>1, <1>6, AppliesMet DEF ApplyLots
<1>7. ASSUME NEW t \in Payment \cup Link, DeleteTxn(t) PROVE MetInv'
  BY <1>1, <1>7, IdleMet DEF DeleteTxn, Idle, applyVars
<1>8. ASSUME Applied PROVE MetInv'
  BY <1>1, <1>8, IdleMet DEF Applied
<1>9. ASSUME UnpostLink PROVE MetInv'
  BY <1>1, <1>9, AppliesMet, IdleMet DEF UnpostLink, applyVars
<1>10. ASSUME UnpostDone PROVE MetInv'
  BY <1>1, <1>10, IdleMet DEF UnpostDone, applyVars
<1>11. QED
  BY <1>1, <1>2, <1>3, <1>4, <1>5, <1>6, <1>7, <1>8, <1>9, <1>10, LeftLotMet, RightLotMet
     DEF Next

LEMMA MetInvSettled ==
    ASSUME OwedInv, MetInv
    PROVE  Settled
<1> SUFFICES ASSUME Ends, NEW k \in ToSet(list), NEW l \in ToSet(list),
                    Balance(k) > 0, Balance(l) < 0,
                    \A m \in {k, l} : HasDoc(m) \/ m \in single
             PROVE  FALSE
  BY DEF Settled
<1>1. SplitBag(splits) /\ Walking
  BY InvParts DEF OwedInv
<1>2. PICK i, j \in 1 .. Len(list) : k = list[i] /\ l = list[j]
  BY DEF ToSet
<1>3. Sure(invoice, single, list[i]) /\ Sure(invoice, single, list[j])
  BY <1>2 DEF Sure, HasDoc
<1>4. /\ Worth(splits, InL(list[i])) = Balance(k) /\ Worth(splits, InL(list[j])) = Balance(l)
      /\ Balance(k) \in Int /\ Balance(l) \in Int
  BY <1>1, <1>2, BalanceIs
<1>5. Rights = {} /\ Lefts = {}
  BY DEF Ends
<1>6. Len(list) \in Nat /\ left \in 0 .. Len(list)
  BY <1>1 DEF Walking
<1>7. ASSUME NEW n \in 1 .. Len(list) PROVE n <= left \/ ~ Open(list[n])
  BY <1>5, <1>6 DEF Lefts
<1>8. i # j
  BY <1>2, <1>4
<1>9. CASE i < j
  BY <1>3, <1>4, <1>5, <1>7, <1>9, LeftDone DEF Clash
<1>10. CASE j < i
  BY <1>3, <1>4, <1>5, <1>7, <1>10, LeftDone DEF Clash
<1>11. QED
  BY <1>6, <1>8, <1>9, <1>10

\* gncOwnerAutoApplyPaymentsWithLots: however many lots it is given, in whatever order, no
\* two could still balance each other when it is done, but for lots of the owner that had,
\* or were given, more than one split.
THEOREM SettledHolds == Spec => []Settled
<1>1. Init => OwedInv /\ MetInv
  <2>1. Init => OwedInv
    BY OwedInvInit
  <2>2. Init => left = 0 /\ single = {} /\ Len(list) = 0
    BY DEF Init
  <2>3. QED
    BY <2>1, <2>2 DEF MetInv, Met, LeftMet
<1>2. OwedInv /\ MetInv /\ [Next]_lotVars => OwedInv' /\ MetInv'
  BY OwedInvNext, MetInvNext
<1>3. OwedInv /\ MetInv => Settled
  BY MetInvSettled
<1>4. QED
  BY <1>1, <1>2, <1>3, PTL DEF Spec

=============================================================================

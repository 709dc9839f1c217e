--------------------------- MODULE FiniteSetLemmas ---------------------------
(* Lemmas about finite sets that the proofs of several components need:        *)
(* induction, sums, largest elements and ranks.  The induction theorems of the *)
(* library take an operator as a parameter, which the provers cannot           *)
(* instantiate; here an induction is a set of sets with a smallest member, and *)
(* a summand is a function.                                                    *)
EXTENDS Integers, FiniteSets, FiniteSetsExt, Functions, FiniteSetTheorems,
        WellFoundedInduction, TLAPS

-----------------------------------------------------------------------------
(* Induction.                                                                  *)

(* A family of subsets of a finite set has a smallest member.                  *)
LEMMA SmallestSet ==
    ASSUME NEW S, IsFiniteSet(S), NEW F, F \subseteq SUBSET S, F # {}
    PROVE  \E A \in F : \A B \in F : B \subseteq A => B = A
<1>1. IsWellFoundedOn(StrictSubsetOrdering(S), SUBSET S)
  BY FS_StrictSubsetOrderingWellFounded, FS_FiniteSubsetsOfFinite
<1>2. PICK A \in F : \A B \in F : <<B, A>> \notin StrictSubsetOrdering(S)
  BY <1>1, WFMin
<1>. QED BY <1>2 DEF StrictSubsetOrdering

(* What holds of the empty set and of a set whenever it holds of the set       *)
(* without any one of its members, holds of a finite set.                      *)
LEMMA SetInduction ==
    ASSUME NEW S, IsFiniteSet(S), NEW F,
           {} \in F,
           \A A \in SUBSET S : A # {} /\ (\A x \in A : A \ {x} \in F) => A \in F
    PROVE  S \in F
<1>. DEFINE G == {A \in SUBSET S : A \notin F}
<1>1. SUFFICES ASSUME G # {} PROVE FALSE
  BY DEF G
<1>. HIDE DEF G
<1>2. PICK A \in G : \A B \in G : B \subseteq A => B = A
  <2>1. G \subseteq SUBSET S
    BY DEF G
  <2>. QED BY <1>1, <2>1, SmallestSet
<1>. USE DEF G
<1>3. A \in SUBSET S /\ A \notin F /\ A # {}
  BY <1>2
<1>4. \A x \in A : A \ {x} \in F
  <2>. SUFFICES ASSUME NEW x \in A PROVE A \ {x} \in F
    OBVIOUS
  <2>1. A \ {x} \subseteq A /\ A \ {x} # A /\ A \ {x} \in SUBSET S
    BY <1>3
  <2>. QED BY <1>2, <2>1
<1>. QED BY <1>3, <1>4

-----------------------------------------------------------------------------
(* Sums.                                                                       *)
Pick(A) == CHOOSE x \in A : TRUE

\* h is the table of the sums of f over the subsets of S
SumTable(h, f, S) ==
    h = [A \in SUBSET S |-> IF A = {} THEN 0 ELSE f[Pick(A)] + h[A \ {Pick(A)}]]

LEMMA SumTableUnique ==
    ASSUME NEW S, IsFiniteSet(S), NEW f, NEW g, NEW h, NEW k, SumTable(h, f, S), NEW T, T \subseteq S,
           SumTable(k, g, T), \A x \in T : f[x] = g[x]
    PROVE  \A A \in SUBSET T : h[A] = k[A]
<1>1. SUFFICES ASSUME NEW A \in SUBSET T PROVE h[A] = k[A]
  OBVIOUS
<1>. DEFINE F == {B \in SUBSET A : h[B] = k[B]}
<1>2. IsFiniteSet(A)
  BY FS_Subset
<1>3. {} \in F
  BY DEF SumTable
<1>4. ASSUME NEW B \in SUBSET A, B # {}, \A x \in B : B \ {x} \in F
      PROVE  B \in F
  <2>1. Pick(B) \in B
    BY <1>4 DEF Pick
  <2>2. B \in SUBSET S /\ B \in SUBSET T /\ Pick(B) \in T
    BY <2>1
  <2>3. h[B] = f[Pick(B)] + h[B \ {Pick(B)}]
    BY <1>4, <2>2 DEF SumTable
  <2>4. k[B] = g[Pick(B)] + k[B \ {Pick(B)}]
    BY <1>4, <2>2 DEF SumTable
  <2>. QED BY <1>4, <2>1, <2>2, <2>3, <2>4
<1>. HIDE DEF F
<1>5. A \in F
  BY <1>2, <1>3, <1>4, SetInduction
<1>. QED BY <1>5 DEF F

LEMMA SumTableExists ==
    ASSUME NEW S, IsFiniteSet(S), NEW f
    PROVE  \E h : SumTable(h, f, S)
<1>. DEFINE F == {A \in SUBSET S : \E h : SumTable(h, f, A)}
<1>1. {} \in F
  <2>1. SumTable([A \in {{}} |-> 0], f, {})
    BY DEF SumTable
  <2>. QED BY <2>1
<1>2. ASSUME NEW A \in SUBSET S, A # {}, \A x \in A : A \ {x} \in F
      PROVE  A \in F
  <2>. DEFINE Of(B) == CHOOSE h : SumTable(h, f, B)
              t == [B \in SUBSET A |->
                       IF B = {} THEN 0
                       ELSE f[Pick(B)] + Of(B \ {Pick(B)})[B \ {Pick(B)}]]
  <2>1. IsFiniteSet(A) BY FS_Subset
  <2>2. \A B \in SUBSET A : B # A => SumTable(Of(B), f, B)
    <3>. SUFFICES ASSUME NEW B \in SUBSET A, B # A PROVE SumTable(Of(B), f, B)
      OBVIOUS
    <3>1. PICK x \in A : x \notin B
      OBVIOUS
    <3>2. PICK h : SumTable(h, f, A \ {x})
      BY <1>2
    <3>3. B \subseteq A \ {x}
      BY <3>1
    <3>4. SumTable([C \in SUBSET B |-> h[C]], f, B)
      <4>. DEFINE r == [C \in SUBSET B |-> h[C]]
      <4>1. \A C \in SUBSET B : h[C] = IF C = {} THEN 0 ELSE f[Pick(C)] + h[C \ {Pick(C)}]
        BY <3>2, <3>3 DEF SumTable
      <4>2. \A C \in SUBSET B : C \ {Pick(C)} \in SUBSET B
        OBVIOUS
      <4>3. \A C \in SUBSET B : r[C] = IF C = {} THEN 0 ELSE f[Pick(C)] + r[C \ {Pick(C)}]
        BY <4>1, <4>2
      <4>. QED BY <4>3 DEF SumTable
    <3>. QED BY <3>4
  <2>3. \A B \in SUBSET A : B # A => t[B] = Of(B)[B]
    <3>. SUFFICES ASSUME NEW B \in SUBSET A, B # A PROVE t[B] = Of(B)[B]
      OBVIOUS
    <3>1. SumTable(Of(B), f, B)
      BY <2>2
    <3>. HIDE DEF Of
    <3>2. CASE B = {}
      BY <3>1, <3>2 DEF SumTable
    <3>3. CASE B # {}
      <4>. DEFINE C == B \ {Pick(B)}
      <4>1. Pick(B) \in B
        BY <3>3 DEF Pick
      <4>2. C \in SUBSET A /\ C # A /\ C \subseteq B
        BY <4>1
      <4>3. SumTable(Of(C), f, C)
        BY <2>2, <4>2
      <4>4. IsFiniteSet(B)
        BY <2>1, FS_Subset
      <4>5. Of(B)[C] = Of(C)[C]
        BY <3>1, <4>2, <4>3, <4>4, SumTableUnique
      <4>6. Of(B)[B] = f[Pick(B)] + Of(B)[C]
        BY <3>1, <3>3 DEF SumTable
      <4>. QED BY <3>3, <4>5, <4>6
    <3>. QED BY <3>2, <3>3
  <2>. HIDE DEF Of
  <2>4. SumTable(t, f, A)
    <3>1. \A B \in SUBSET A : t[B] = IF B = {} THEN 0 ELSE f[Pick(B)] + t[B \ {Pick(B)}]
      <4>. SUFFICES ASSUME NEW B \in SUBSET A, B # {}
                    PROVE  t[B] = f[Pick(B)] + t[B \ {Pick(B)}]
        BY DEF t
      <4>1. Pick(B) \in B
        BY DEF Pick
      <4>2. B \ {Pick(B)} \in SUBSET A /\ B \ {Pick(B)} # A
        BY <4>1
      <4>. QED BY <2>3, <4>2
    <3>. QED BY <3>1 DEF SumTable
  <2>. QED BY <2>4
<1>. HIDE DEF F
<1>3. S \in F
  BY <1>1, <1>2, SetInduction
<1>. QED BY <1>3 DEF F

\* the sum of the library is that of the table
LEMMA SumIsOfTable ==
    ASSUME NEW S, IsFiniteSet(S), NEW f
    PROVE  \E h : SumTable(h, f, S) /\ SumFunctionOnSet(f, S) = h[S]
<1>1. \E h : SumTable(h, f, S)
  BY SumTableExists
<1>. QED BY <1>1 DEF SumTable, Pick, SumFunctionOnSet, FoldFunctionOnSet, MapThenFoldSet

LEMMA SumEmpty ==
    ASSUME NEW f
    PROVE  SumFunctionOnSet(f, {}) = 0
<1>1. IsFiniteSet({})
  BY FS_EmptySet
<1>2. PICK h : SumTable(h, f, {}) /\ SumFunctionOnSet(f, {}) = h[{}]
  BY <1>1, SumIsOfTable
<1>. QED BY <1>2 DEF SumTable

(* Two functions that agree on a set have the same sum there.                  *)
LEMMA SumAgree ==
    ASSUME NEW S, IsFiniteSet(S), NEW f, NEW g, \A x \in S : f[x] = g[x]
    PROVE  SumFunctionOnSet(f, S) = SumFunctionOnSet(g, S)
<1>1. PICK h : SumTable(h, f, S) /\ SumFunctionOnSet(f, S) = h[S]
  BY SumIsOfTable
<1>2. PICK k : SumTable(k, g, S) /\ SumFunctionOnSet(g, S) = k[S]
  BY SumIsOfTable
<1>3. h[S] = k[S]
  BY <1>1, <1>2, SumTableUnique
<1>. QED BY <1>1, <1>2, <1>3

(* The member that the definition picks.                                       *)
LEMMA SumPicked ==
    ASSUME NEW S, IsFiniteSet(S), NEW f, S # {}
    PROVE  /\ Pick(S) \in S
           /\ SumFunctionOnSet(f, S) = f[Pick(S)] + SumFunctionOnSet(f, S \ {Pick(S)})
<1>. DEFINE R == S \ {Pick(S)}
<1>1. Pick(S) \in S
  BY DEF Pick
<1>2. IsFiniteSet(R)
  BY FS_RemoveElement
<1>3. PICK h : SumTable(h, f, S) /\ SumFunctionOnSet(f, S) = h[S]
  BY SumIsOfTable
<1>4. PICK k : SumTable(k, f, R) /\ SumFunctionOnSet(f, R) = k[R]
  BY <1>2, SumIsOfTable
<1>5. h[R] = k[R]
  BY <1>3, <1>4, SumTableUnique
<1>6. h[S] = f[Pick(S)] + h[R]
  BY <1>3 DEF SumTable
<1>. QED BY <1>1, <1>3, <1>4, <1>5, <1>6

LEMMA SumType ==
    ASSUME NEW S, IsFiniteSet(S), NEW f, \A x \in S : f[x] \in Int
    PROVE  SumFunctionOnSet(f, S) \in Int
<1>. DEFINE F == {A \in SUBSET S : SumFunctionOnSet(f, A) \in Int}
<1>1. {} \in F
  BY SumEmpty
<1>2. ASSUME NEW A \in SUBSET S, A # {}, \A x \in A : A \ {x} \in F
      PROVE  A \in F
  <2>1. IsFiniteSet(A)
    BY FS_Subset
  <2>2. Pick(A) \in A /\ SumFunctionOnSet(f, A) = f[Pick(A)] + SumFunctionOnSet(f, A \ {Pick(A)})
    BY <1>2, <2>1, SumPicked
  <2>. QED BY <1>2, <2>2
<1>. HIDE DEF F
<1>3. S \in F
  BY <1>1, <1>2, SetInduction
<1>. QED BY <1>3 DEF F

(* Any member may be taken out, not only the one that the definition picks.    *)
LEMMA SumRemove ==
    ASSUME NEW S, IsFiniteSet(S), NEW f, \A x \in S : f[x] \in Int, NEW y \in S
    PROVE  SumFunctionOnSet(f, S) = f[y] + SumFunctionOnSet(f, S \ {y})
<1>. DEFINE F == {A \in SUBSET S : \A x \in A :
                     SumFunctionOnSet(f, A) = f[x] + SumFunctionOnSet(f, A \ {x})}
<1>1. {} \in F
  OBVIOUS
<1>2. ASSUME NEW A \in SUBSET S, A # {}, \A x \in A : A \ {x} \in F
      PROVE  A \in F
  <2>. SUFFICES ASSUME NEW x \in A
                PROVE  SumFunctionOnSet(f, A) = f[x] + SumFunctionOnSet(f, A \ {x})
    OBVIOUS
  <2>. DEFINE p == Pick(A)
              Both == (A \ {p}) \ {x}
  <2>1. IsFiniteSet(A) /\ IsFiniteSet(A \ {p}) /\ IsFiniteSet(A \ {x}) /\ IsFiniteSet(Both)
    BY FS_Subset
  <2>2. p \in A /\ SumFunctionOnSet(f, A) = f[p] + SumFunctionOnSet(f, A \ {p})
    BY <1>2, <2>1, SumPicked
  <2>. HIDE DEF p
  <2>3. CASE x = p
    BY <2>2, <2>3
  <2>4. CASE x # p
    <3>1. SumFunctionOnSet(f, A \ {p}) = f[x] + SumFunctionOnSet(f, Both)
      BY <1>2, <2>2, <2>4
    <3>2. SumFunctionOnSet(f, A \ {x}) = f[p] + SumFunctionOnSet(f, (A \ {x}) \ {p})
      BY <1>2, <2>2, <2>4
    <3>3. (A \ {x}) \ {p} = Both
      OBVIOUS
    <3>4. \A z \in Both : f[z] \in Int
      OBVIOUS
    <3>. HIDE DEF Both
    <3>5. SumFunctionOnSet(f, Both) \in Int
      BY <2>1, <3>4, SumType
    <3>6. f[x] \in Int /\ f[p] \in Int
      BY <2>2
    <3>7. SumFunctionOnSet(f, A \ {x}) = f[p] + SumFunctionOnSet(f, Both)
      BY <3>2, <3>3
    <3>. QED BY ONLY <2>2, <3>1, <3>5, <3>6, <3>7
  <2>. QED BY <2>3, <2>4
<1>. HIDE DEF F
<1>3. S \in F
  BY <1>1, <1>2, SetInduction
<1>. QED BY <1>3 DEF F

(* A sum of naturals is one, and no smaller than that over fewer members.      *)
LEMMA SumSubset ==
    ASSUME NEW S, IsFiniteSet(S), NEW f, \A x \in S : f[x] \in Nat, NEW T \in SUBSET S
    PROVE  /\ SumFunctionOnSet(f, S) \in Nat /\ SumFunctionOnSet(f, T) \in Nat
           /\ SumFunctionOnSet(f, T) <= SumFunctionOnSet(f, S)
<1>. DEFINE F == {A \in SUBSET S : /\ SumFunctionOnSet(f, A) \in Nat
                                  /\ \A B \in SUBSET A :
                                        /\ SumFunctionOnSet(f, B) \in Nat
                                        /\ SumFunctionOnSet(f, B) <= SumFunctionOnSet(f, A)}
<1>1. {} \in F
  BY SumEmpty
<1>2. ASSUME NEW A \in SUBSET S, A # {}, \A x \in A : A \ {x} \in F
      PROVE  A \in F
  <2>1. IsFiniteSet(A) /\ (\A x \in A : f[x] \in Int)
    BY FS_Subset
  <2>2. \A x \in A : SumFunctionOnSet(f, A) = f[x] + SumFunctionOnSet(f, A \ {x})
    BY <2>1, SumRemove
  <2>3. SumFunctionOnSet(f, A) \in Nat
    <3>1. PICK x \in A : TRUE
      BY <1>2
    <3>2. A \ {x} \in F /\ f[x] \in Nat
      BY <1>2
    <3>3. SumFunctionOnSet(f, A \ {x}) \in Nat
      BY <3>2
    <3>. QED BY <2>2, <3>2, <3>3
  <2>4. ASSUME NEW B \in SUBSET A, B # A
        PROVE  SumFunctionOnSet(f, B) \in Nat /\ SumFunctionOnSet(f, B) <= SumFunctionOnSet(f, A)
    <3>1. PICK x \in A : x \notin B
      BY <2>4
    <3>2. B \in SUBSET (A \ {x}) /\ A \ {x} \in F /\ f[x] \in Nat
      BY <1>2, <3>1
    <3>3. SumFunctionOnSet(f, B) \in Nat /\ SumFunctionOnSet(f, A \ {x}) \in Nat
          /\ SumFunctionOnSet(f, B) <= SumFunctionOnSet(f, A \ {x})
      BY <3>2
    <3>4. SumFunctionOnSet(f, A) = f[x] + SumFunctionOnSet(f, A \ {x})
      BY <2>2
    <3>. QED BY <3>2, <3>3, <3>4
  <2>. QED BY <2>3, <2>4
<1>. HIDE DEF F
<1>3. S \in F
  BY <1>1, <1>2, SetInduction
<1>. QED BY <1>3 DEF F

-----------------------------------------------------------------------------
(* Orders.  R holds <<x, y>> if x comes before y.                              *)
StrictOrder(R, S) ==
    /\ \A x \in S : <<x, x>> \notin R
    /\ \A x, y, z \in S : <<x, y>> \in R /\ <<y, z>> \in R => <<x, z>> \in R
    /\ \A x, y \in S : x # y => <<x, y>> \in R \/ <<y, x>> \in R

LEMMA FirstExists ==
    ASSUME NEW S, IsFiniteSet(S), S # {}, NEW R, StrictOrder(R, S)
    PROVE  \E x \in S : \A y \in S \ {x} : <<x, y>> \in R
<1>. DEFINE First(A) == {x \in A : \A y \in A \ {x} : <<x, y>> \in R}
            F == {A \in SUBSET S : A = {} \/ First(A) # {}}
<1>1. {} \in F
  OBVIOUS
<1>2. ASSUME NEW A \in SUBSET S, A # {}, \A x \in A : A \ {x} \in F
      PROVE  A \in F
  <2>1. PICK z \in A : TRUE
    BY <1>2
  <2>2. CASE A \ {z} = {}
    <3>1. z \in First(A)
      BY <2>1, <2>2
    <3>. QED BY <3>1
  <2>3. CASE A \ {z} # {}
    <3>1. PICK x \in A \ {z} : \A y \in (A \ {z}) \ {x} : <<x, y>> \in R
      BY <1>2, <2>1, <2>3
    <3>2. x \in S /\ z \in S /\ x # z
      BY <2>1, <3>1
    <3>3. CASE <<x, z>> \in R
      <4>1. x \in First(A)
        BY <3>1, <3>3
      <4>. QED BY <4>1
    <3>4. CASE <<z, x>> \in R
      <4>1. \A y \in (A \ {z}) \ {x} : <<z, y>> \in R
        BY <3>1, <3>2, <3>4 DEF StrictOrder
      <4>2. z \in First(A)
        BY <2>1, <3>4, <4>1
      <4>. QED BY <4>2
    <3>. QED BY <3>2, <3>3, <3>4 DEF StrictOrder
  <2>. QED BY <2>2, <2>3
<1>. HIDE DEF F
<1>3. S \in F
  BY <1>1, <1>2, SetInduction
<1>. QED BY <1>3 DEF F

(* A set of integers has a largest member and a smallest.                      *)
LEMMA MaxIsMember ==
    ASSUME NEW S, S \subseteq Int, IsFiniteSet(S), S # {}
    PROVE  Max(S) \in S /\ \A x \in S : x <= Max(S)
<1>. DEFINE R == {p \in S \X S : p[1] > p[2]}
<1>1. StrictOrder(R, S)
  BY DEF StrictOrder
<1>2. PICK x \in S : \A y \in S \ {x} : <<x, y>> \in R
  BY <1>1, FirstExists
<1>3. \A y \in S \ {x} : x > y
  BY <1>2
<1>4. \A y \in S : x >= y
  BY <1>3
<1>. QED BY <1>4 DEF Max

LEMMA MinIsMember ==
    ASSUME NEW S, S \subseteq Int, IsFiniteSet(S), S # {}
    PROVE  Min(S) \in S /\ \A x \in S : Min(S) <= x
<1>. DEFINE R == {p \in S \X S : p[1] < p[2]}
<1>1. StrictOrder(R, S)
  BY DEF StrictOrder
<1>2. PICK x \in S : \A y \in S \ {x} : <<x, y>> \in R
  BY <1>1, FirstExists
<1>3. \A y \in S \ {x} : x < y
  BY <1>2
<1>4. \A y \in S : x =< y
  BY <1>3
<1>. QED BY <1>4 DEF Min

(* Counting what comes before numbers the members from 0 without a gap.        *)
Before(R, S, x) == {y \in S : <<y, x>> \in R}

LEMMA CountsGrow ==
    ASSUME NEW S, IsFiniteSet(S), NEW R, StrictOrder(R, S)
    PROVE  /\ \A x \in S : Cardinality(Before(R, S, x)) \in 0..(Cardinality(S) - 1)
           /\ \A x, y \in S : <<x, y>> \in R =>
                 Cardinality(Before(R, S, x)) < Cardinality(Before(R, S, y))
<1>1. Cardinality(S) \in Nat
  BY FS_CardinalityType
<1>2. ASSUME NEW x \in S
      PROVE  /\ IsFiniteSet(Before(R, S, x)) /\ Cardinality(Before(R, S, x)) \in Nat
             /\ Cardinality(Before(R, S, x)) < Cardinality(S)
  <2>1. Before(R, S, x) \in SUBSET S /\ Before(R, S, x) # S
    BY DEF Before, StrictOrder
  <2>2. IsFiniteSet(Before(R, S, x)) /\ Cardinality(Before(R, S, x)) <= Cardinality(S)
        /\ Cardinality(Before(R, S, x)) # Cardinality(S)
    BY <2>1, FS_Subset
  <2>3. Cardinality(Before(R, S, x)) \in Nat
    BY <2>2, FS_CardinalityType
  <2>. QED BY <1>1, <2>2, <2>3
<1>3. ASSUME NEW x \in S, NEW y \in S, <<x, y>> \in R
      PROVE  Cardinality(Before(R, S, x)) < Cardinality(Before(R, S, y))
  <2>1. Before(R, S, x) \in SUBSET Before(R, S, y)
    BY <1>3 DEF Before, StrictOrder
  <2>2. x \in Before(R, S, y) /\ x \notin Before(R, S, x)
    BY <1>3 DEF Before, StrictOrder
  <2>3. Cardinality(Before(R, S, x)) <= Cardinality(Before(R, S, y))
        /\ Cardinality(Before(R, S, x)) # Cardinality(Before(R, S, y))
    BY <1>2, <2>1, <2>2, FS_Subset
  <2>. QED BY <1>2, <2>3
<1>. QED BY <1>1, <1>2, <1>3

LEMMA CountsNumber ==
    ASSUME NEW S, IsFiniteSet(S), NEW R, StrictOrder(R, S)
    PROVE  /\ \A x, y \in S : Cardinality(Before(R, S, x)) = Cardinality(Before(R, S, y)) => x = y
           /\ \A k \in 0..(Cardinality(S) - 1) : \E x \in S : Cardinality(Before(R, S, x)) = k
<1>. DEFINE n == Cardinality(S)
            f == [x \in S |-> Cardinality(Before(R, S, x))]
<1>1. n \in Nat
  BY FS_CardinalityType
<1>2. /\ \A x \in S : Cardinality(Before(R, S, x)) \in 0..(n - 1)
      /\ \A x, y \in S : <<x, y>> \in R =>
            Cardinality(Before(R, S, x)) < Cardinality(Before(R, S, y))
  BY CountsGrow
<1>3. ASSUME NEW x \in S, NEW y \in S,
             Cardinality(Before(R, S, x)) = Cardinality(Before(R, S, y))
      PROVE  x = y
  <2>1. ~(<<x, y>> \in R) /\ ~(<<y, x>> \in R)
    BY <1>2, <1>3
  <2>. QED BY <2>1 DEF StrictOrder
<1>4. f \in Injection(S, 0..(n - 1))
  <2>1. f \in [S -> 0..(n - 1)]
    BY <1>2
  <2>2. \A a, b \in S : f[a] = f[b] => a = b
    BY <1>3
  <2>. HIDE DEF f
  <2>3. DOMAIN f = S
    BY <2>1
  <2>. QED BY <2>1, <2>2, <2>3 DEF Injection, IsInjective
<1>5. IsFiniteSet(0..(n - 1)) /\ Cardinality(0..(n - 1)) = n
  BY <1>1, FS_Interval
<1>6. f \in Surjection(S, 0..(n - 1))
  BY <1>4, <1>5, FS_Injection
<1>7. \A k \in 0..(n - 1) : \E x \in S : f[x] = k
  BY <1>6 DEF Surjection
<1>. QED BY <1>3, <1>7

(* A finite set has subsets of every size up to its own.                       *)
LEMMA SubsetOfSize ==
    ASSUME NEW S, IsFiniteSet(S), NEW k \in 0..Cardinality(S)
    PROVE  \E T \in SUBSET S : Cardinality(T) = k
<1>. DEFINE F == {A \in SUBSET S : \A n \in 0..Cardinality(A) :
                                      \E T \in SUBSET A : Cardinality(T) = n}
<1>1. {} \in F
  BY FS_EmptySet
<1>2. ASSUME NEW A \in SUBSET S, A # {}, \A x \in A : A \ {x} \in F
      PROVE  A \in F
  <2>1. SUFFICES ASSUME NEW n \in 0..Cardinality(A)
                 PROVE  \E T \in SUBSET A : Cardinality(T) = n
    OBVIOUS
  <2>2. IsFiniteSet(A)
    BY FS_Subset
  <2>3. PICK x \in A : TRUE
    BY <1>2
  <2>4. Cardinality(A) \in Nat /\ Cardinality(A \ {x}) = Cardinality(A) - 1
    BY <2>2, <2>3, FS_RemoveElement, FS_CardinalityType
  <2>5. CASE n = Cardinality(A)
    BY <2>5
  <2>6. CASE n # Cardinality(A)
    <3>1. n \in 0..Cardinality(A \ {x})
      BY <2>4, <2>6
    <3>2. \E T \in SUBSET (A \ {x}) : Cardinality(T) = n
      BY <1>2, <2>3, <3>1
    <3>. QED BY <3>2
  <2>. QED BY <2>5, <2>6
<1>. HIDE DEF F
<1>3. S \in F
  BY <1>1, <1>2, SetInduction
<1>. QED BY <1>3 DEF F
=============================================================================

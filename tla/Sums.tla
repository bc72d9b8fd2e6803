-------------------------------- MODULE Sums --------------------------------
(***************************************************************************)
(* Sums over finite sets, and induction over the natural numbers stated    *)
(* for a set.  The modules add amounts up with a function defined by       *)
(* recursion over subsets (MapThenSumSet of the community modules, or one  *)
(* of their own of the same form); SumOver is that function.               *)
(***************************************************************************)
EXTENDS Integers, FiniteSets, FiniteSetTheorems, WellFoundedInduction, TLAPS

LEMMA LeastNat ==
    ASSUME NEW T, T \subseteq Nat, T # {}
    PROVE  \E n \in T : \A m \in T : n <= m
<1> DEFINE R == OpToRel(<, Nat)
<1>1. \E n \in T : \A m \in T : ~ (<<m, n>> \in R)
  <2>1. IsWellFoundedOn(R, Nat)
    BY NatLessThanWellFounded
  <2> HIDE DEF R
  <2> QED BY <2>1, WFMin
<1>2. \A m \in T, n \in T : m < n => <<m, n>> \in R
  BY DEF OpToRel
<1> HIDE DEF R
<1>3. PICK n \in T : \A m \in T : ~ (<<m, n>> \in R)
  BY <1>1
<1>4. \A m \in T : ~(m < n)
  BY <1>2, <1>3, Zenon
<1> QED BY <1>4

\* Induction over Nat for a set that holds 0 and is closed under successor.
LEMMA SetInduction ==
    ASSUME NEW T, 0 \in T, \A n \in Nat : n \in T => n + 1 \in T
    PROVE  \A n \in Nat : n \in T
<1> SUFFICES ASSUME Nat \ T # {} PROVE FALSE
  OBVIOUS
<1>1. PICK n \in Nat \ T : \A m \in Nat \ T : n <= m
  BY LeastNat
<1>2. n - 1 \in Nat /\ n - 1 \in T
  BY <1>1
<1> QED BY <1>1, <1>2

\* Induction over the subsets of a finite set, for a set of subsets that holds a
\* set as soon as it holds every set with one member less.
Sized(D, n) == {S \in SUBSET D : Cardinality(S) <= n}

LEMMA SubsetInduction ==
    ASSUME NEW D, IsFiniteSet(D), NEW T,
           {} \in T,
           \A S \in SUBSET D : S # {} /\ (\A x \in S : S \ {x} \in T) => S \in T
    PROVE  \A S \in SUBSET D : S \in T
<1> DEFINE N == {n \in Nat : \A S \in Sized(D, n) : S \in T}
<1>0. ASSUME NEW S \in SUBSET D
      PROVE  IsFiniteSet(S) /\ Cardinality(S) \in Nat /\ (Cardinality(S) = 0 <=> S = {})
  BY FS_Subset, FS_CardinalityType, FS_EmptySet
<1>1. 0 \in N
  <2>1. ASSUME NEW S \in Sized(D, 0) PROVE S \in T
    <3>1. S \in SUBSET D /\ Cardinality(S) <= 0
      BY DEF Sized
    <3>2. S = {}
      BY <1>0, <3>1
    <3> QED BY <3>2
  <2> QED BY <2>1
<1>2. ASSUME NEW n \in Nat, n \in N PROVE n + 1 \in N
  <2>1. ASSUME NEW S \in Sized(D, n + 1) PROVE S \in T
    <3>1. S \in SUBSET D /\ Cardinality(S) <= n + 1
      BY DEF Sized
    <3>2. ASSUME NEW x \in S PROVE S \ {x} \in T
      <4>1. Cardinality(S \ {x}) = Cardinality(S) - 1
        BY <1>0, <3>1, FS_RemoveElement
      <4>2. Cardinality(S \ {x}) <= n
        BY <1>0, <3>1, <4>1
      <4>3. S \ {x} \in Sized(D, n)
        BY <3>1, <4>2 DEF Sized
      <4> QED BY <1>2, <4>3
    <3> QED BY <3>1, <3>2
  <2> QED BY <2>1
<1>3. \A n \in Nat : n \in N
  <2> HIDE DEF N
  <2> QED BY <1>1, <1>2, SetInduction
<1>4. ASSUME NEW S \in SUBSET D PROVE S \in Sized(D, Cardinality(S)) /\ Cardinality(S) \in Nat
  BY <1>0 DEF Sized
<1> QED BY <1>3, <1>4

-----------------------------------------------------------------------------
\* s is the sum of w over the subsets of D.
IsSum(s, w, D) ==
    s = [S \in SUBSET D |-> IF S = {} THEN 0 ELSE w[CHOOSE x \in S : TRUE] + s[S \ {CHOOSE x \in S : TRUE}]]
SumFn(w, D)   == CHOOSE s : IsSum(s, w, D)
SumOver(w, D) == SumFn(w, D)[D]

\* Smaller by its chosen member.
LEMMA Smaller ==
    ASSUME NEW D, IsFiniteSet(D), NEW S \in SUBSET D, S # {}
    PROVE  LET x == CHOOSE x \in S : TRUE IN
           /\ x \in S /\ S \ {x} \in SUBSET D
           /\ IsFiniteSet(S) /\ IsFiniteSet(S \ {x})
           /\ Cardinality(S) \in Nat \ {0} /\ Cardinality(S \ {x}) = Cardinality(S) - 1
<1> DEFINE x == CHOOSE x \in S : TRUE
<1>1. x \in S
  OBVIOUS
<1>2. IsFiniteSet(S) /\ Cardinality(S) \in Nat
  BY FS_Subset, FS_CardinalityType
<1>3. Cardinality(S) # 0
  BY <1>2, FS_EmptySet
<1> HIDE DEF x
<1>4. IsFiniteSet(S \ {x}) /\ Cardinality(S \ {x}) = Cardinality(S) - 1
  BY <1>1, <1>2, FS_RemoveElement
<1> QED BY <1>1, <1>2, <1>3, <1>4 DEF x

LEMMA SizedZero == \A D : IsFiniteSet(D) => \A S \in Sized(D, 0) : S = {}
<1> SUFFICES ASSUME NEW D, IsFiniteSet(D), NEW S \in Sized(D, 0) PROVE S = {}
  OBVIOUS
<1>1. S \in SUBSET D /\ Cardinality(S) <= 0
  BY DEF Sized
<1>2. IsFiniteSet(S)
  BY <1>1, FS_Subset
<1>3. Cardinality(S) = 0
  BY <1>1, <1>2, FS_CardinalityType
<1> QED BY <1>2, <1>3, FS_EmptySet

LEMMA SizedStep ==
    ASSUME NEW D, IsFiniteSet(D), NEW n \in Nat, NEW S \in Sized(D, n + 1), S # {}
    PROVE  S \ {CHOOSE x \in S : TRUE} \in Sized(D, n)
<1> DEFINE x == CHOOSE x \in S : TRUE
<1>1. S \in SUBSET D /\ Cardinality(S) <= n + 1
  BY DEF Sized
<1>2. S \ {x} \in SUBSET D /\ Cardinality(S) \in Nat /\ Cardinality(S \ {x}) = Cardinality(S) - 1
  BY <1>1, Smaller
<1> HIDE DEF x
<1>3. S \ {x} \in Sized(D, n)
  BY <1>1, <1>2 DEF Sized
<1> QED BY <1>3 DEF x

\* The recursion has a solution: extended from the subsets of one size to the next.
LEMMA SumExists ==
    ASSUME NEW D, IsFiniteSet(D), NEW w
    PROVE  \E s : IsSum(s, w, D)
<1> DEFINE Body(s, S) == IF S = {} THEN 0 ELSE w[CHOOSE x \in S : TRUE] + s[S \ {CHOOSE x \in S : TRUE}]
           T == {n \in Nat : \E s : s = [S \in Sized(D, n) |-> Body(s, S)]}
<1>1. 0 \in T
  <2> DEFINE s == [S \in Sized(D, 0) |-> 0]
  <2>1. \A S \in Sized(D, 0) : S = {}
    BY SizedZero
  <2>2. s = [S \in Sized(D, 0) |-> Body(s, S)]
    BY <2>1
  <2> QED BY <2>2
<1>2. ASSUME NEW n \in Nat, n \in T PROVE n + 1 \in T
  <2>1. PICK s : s = [S \in Sized(D, n) |-> Body(s, S)]
    BY <1>2
  <2> DEFINE t == [S \in Sized(D, n + 1) |-> Body(s, S)]
  <2>2. \A S \in Sized(D, n) : S \in Sized(D, n + 1) /\ t[S] = s[S]
    <3>1. \A S \in Sized(D, n) : S \in Sized(D, n + 1)
      BY FS_Subset, FS_CardinalityType DEF Sized
    <3>2. \A S \in Sized(D, n) : s[S] = Body(s, S)
      BY <2>1
    <3> QED BY <3>1, <3>2
  <2>3. ASSUME NEW S \in Sized(D, n + 1) PROVE Body(s, S) = Body(t, S)
    <3>1. CASE S = {}
      BY <3>1
    <3>2. CASE S # {}
      <4> DEFINE x == CHOOSE x \in S : TRUE
      <4>1. S \ {x} \in Sized(D, n)
        BY <3>2, SizedStep
      <4> HIDE DEF x
      <4>2. t[S \ {x}] = s[S \ {x}]
        BY <2>2, <4>1
      <4> QED BY <3>2, <4>2 DEF x
    <3> QED BY <3>1, <3>2
  <2>4. t = [S \in Sized(D, n + 1) |-> Body(t, S)]
    BY <2>3
  <2>5. \E u : u = [S \in Sized(D, n + 1) |-> Body(u, S)]
    <3> HIDE DEF t
    <3> QED BY <2>4
  <2> QED BY <2>5
<1>3. \A n \in Nat : n \in T
  <2> HIDE DEF T
  <2> QED BY <1>1, <1>2, SetInduction
<1>4. Sized(D, Cardinality(D)) = SUBSET D /\ Cardinality(D) \in Nat
  BY FS_Subset, FS_CardinalityType DEF Sized
<1>5. PICK s : s = [S \in Sized(D, Cardinality(D)) |-> Body(s, S)]
  BY <1>3, <1>4
<1>6. IsSum(s, w, D)
  BY <1>4, <1>5 DEF IsSum
<1> QED BY <1>6

LEMMA SumFnIs ==
    ASSUME NEW D, IsFiniteSet(D), NEW w
    PROVE  IsSum(SumFn(w, D), w, D)
BY SumExists DEF SumFn

\* What one step of the recursion gives.
LEMMA SumStep ==
    ASSUME NEW D, IsFiniteSet(D), NEW w
    PROVE  /\ SumFn(w, D)[{}] = 0
           /\ \A S \in SUBSET D : S # {} =>
                 SumFn(w, D)[S] = w[CHOOSE x \in S : TRUE] + SumFn(w, D)[S \ {CHOOSE x \in S : TRUE}]
<1> DEFINE s == SumFn(w, D)
<1>1. IsSum(s, w, D)
  BY SumFnIs
<1> HIDE DEF s
<1> QED BY <1>1 DEF IsSum, s

\* The sum over D, on the subsets of one of D's subsets, is the sum over that subset.
LEMMA SumAgrees ==
    ASSUME NEW D, IsFiniteSet(D), NEW E \in SUBSET D, NEW w, NEW v, \A x \in E : w[x] = v[x]
    PROVE  \A S \in SUBSET E : SumFn(w, D)[S] = SumFn(v, E)[S]
<1> DEFINE T == {S \in SUBSET E : SumFn(w, D)[S] = SumFn(v, E)[S]}
<1>0. IsFiniteSet(E)
  BY FS_Subset
<1>1. {} \in T
  BY <1>0, SumStep
<1>3. ASSUME NEW S \in SUBSET E, S # {}
      PROVE  /\ S \in SUBSET D /\ (CHOOSE x \in S : TRUE) \in S
             /\ SumFn(w, D)[S] = w[CHOOSE x \in S : TRUE] + SumFn(w, D)[S \ {CHOOSE x \in S : TRUE}]
             /\ SumFn(v, E)[S] = v[CHOOSE x \in S : TRUE] + SumFn(v, E)[S \ {CHOOSE x \in S : TRUE}]
  <2>1. S \in SUBSET D
    OBVIOUS
  <2>2. SumFn(w, D)[S] = w[CHOOSE x \in S : TRUE] + SumFn(w, D)[S \ {CHOOSE x \in S : TRUE}]
    BY <1>3, <2>1, SumStep
  <2>3. SumFn(v, E)[S] = v[CHOOSE x \in S : TRUE] + SumFn(v, E)[S \ {CHOOSE x \in S : TRUE}]
    BY <1>0, <1>3, SumStep
  <2> QED BY <1>3, <2>1, <2>2, <2>3
<1>2. ASSUME NEW S \in SUBSET E, S # {}, \A x \in S : S \ {x} \in T PROVE S \in T
  <2>1. S \in SUBSET D /\ (CHOOSE x \in S : TRUE) \in S
    BY <1>2, <1>3
  <2>2. w[CHOOSE x \in S : TRUE] = v[CHOOSE x \in S : TRUE]
    BY <1>2, <2>1
  <2>5. SumFn(w, D)[S \ {CHOOSE x \in S : TRUE}] = SumFn(v, E)[S \ {CHOOSE x \in S : TRUE}]
    BY <1>2, <2>1
  <2> QED BY <1>2, <1>3, <2>2, <2>5
<1>4. \A S \in SUBSET E : S \in T
  <2> HIDE DEF T
  <2> QED BY <1>0, <1>1, <1>2, SubsetInduction
<1> QED BY <1>4

\* The sum of a subset does not depend on the set it is taken within.
LEMMA SumWithin ==
    ASSUME NEW D, IsFiniteSet(D), NEW E \in SUBSET D, NEW w
    PROVE  SumFn(w, D)[E] = SumOver(w, E)
BY SumAgrees DEF SumOver

\* Only the amounts of the members count.
LEMMA SumSame ==
    ASSUME NEW D, IsFiniteSet(D), NEW w, NEW v, \A x \in D : w[x] = v[x]
    PROVE  SumOver(w, D) = SumOver(v, D)
BY SumAgrees DEF SumOver

LEMMA SumChosen ==
    ASSUME NEW D, IsFiniteSet(D), NEW w
    PROVE  /\ D = {} => SumOver(w, D) = 0
           /\ D # {} => SumOver(w, D) = w[CHOOSE x \in D : TRUE] + SumOver(w, D \ {CHOOSE x \in D : TRUE})
<1>1. ASSUME D # {} PROVE SumOver(w, D) = w[CHOOSE x \in D : TRUE] + SumOver(w, D \ {CHOOSE x \in D : TRUE})
  <2>1. SumFn(w, D)[D] = w[CHOOSE x \in D : TRUE] + SumFn(w, D)[D \ {CHOOSE x \in D : TRUE}]
    BY <1>1, SumStep
  <2>2. SumFn(w, D)[D \ {CHOOSE x \in D : TRUE}] = SumOver(w, D \ {CHOOSE x \in D : TRUE})
    BY SumWithin
  <2> QED BY <2>1, <2>2 DEF SumOver
<1> QED BY <1>1, SumStep DEF SumOver

\* A sum of integers is an integer.
LEMMA SumInt ==
    ASSUME NEW D, IsFiniteSet(D), NEW w, \A x \in D : w[x] \in Int
    PROVE  SumOver(w, D) \in Int
<1> DEFINE T == {S \in SUBSET D : SumOver(w, S) \in Int}
<1>1. {} \in T
  <2>1. SumOver(w, {}) = 0
    BY SumChosen, FS_EmptySet
  <2> QED BY <2>1
<1>2. ASSUME NEW S \in SUBSET D, S # {}, \A x \in S : S \ {x} \in T PROVE S \in T
  <2>1. PICK x \in S : SumOver(w, S) = w[x] + SumOver(w, S \ {x})
    BY <1>2, FS_Subset, SumChosen
  <2>2. SumOver(w, S \ {x}) \in Int /\ w[x] \in Int
    BY <1>2
  <2>3. SumOver(w, S) \in Int
    BY <2>1, <2>2
  <2> QED BY <2>3
<1>3. \A S \in SUBSET D : S \in T
  <2> HIDE DEF T
  <2> QED BY <1>1, <1>2, SubsetInduction
<1> QED BY <1>3

\* A sum of natural numbers is one.
LEMMA SumNat ==
    ASSUME NEW D, IsFiniteSet(D), NEW w, \A x \in D : w[x] \in Nat
    PROVE  SumOver(w, D) \in Nat
<1> DEFINE T == {S \in SUBSET D : SumOver(w, S) \in Nat}
<1>1. {} \in T
  <2>1. SumOver(w, {}) = 0
    BY SumChosen, FS_EmptySet
  <2> QED BY <2>1
<1>2. ASSUME NEW S \in SUBSET D, S # {}, \A x \in S : S \ {x} \in T PROVE S \in T
  <2>1. PICK x \in S : SumOver(w, S) = w[x] + SumOver(w, S \ {x})
    BY <1>2, FS_Subset, SumChosen
  <2>2. SumOver(w, S \ {x}) \in Nat /\ w[x] \in Nat
    BY <1>2
  <2>3. SumOver(w, S) \in Nat
    BY <2>1, <2>2
  <2> QED BY <2>3
<1>3. \A S \in SUBSET D : S \in T
  <2> HIDE DEF T
  <2> QED BY <1>1, <1>2, SubsetInduction
<1> QED BY <1>3

\* A member more adds its amount, whichever member the recursion chooses first.
LEMMA SumRemove ==
    ASSUME NEW D, IsFiniteSet(D), NEW w, \A x \in D : w[x] \in Int, NEW y \in D
    PROVE  SumOver(w, D) = w[y] + SumOver(w, D \ {y})
<1> DEFINE T == {S \in SUBSET D : \A z \in S : SumOver(w, S) = w[z] + SumOver(w, S \ {z})}
<1>1. {} \in T
  OBVIOUS
<1>2. ASSUME NEW S \in SUBSET D, S # {}, \A x \in S : S \ {x} \in T PROVE S \in T
  <2>1. PICK x \in S : SumOver(w, S) = w[x] + SumOver(w, S \ {x})
    <3> DEFINE c == CHOOSE x \in S : TRUE
    <3>1. IsFiniteSet(S) /\ c \in S
      BY <1>2, FS_Subset
    <3>2. SumOver(w, S) = w[c] + SumOver(w, S \ {c})
      BY <1>2, <3>1, SumChosen
    <3> HIDE DEF c
    <3> QED BY <3>1, <3>2
  <2>2. ASSUME NEW z \in S PROVE SumOver(w, S) = w[z] + SumOver(w, S \ {z})
    <3>1. CASE z = x
      BY <2>1, <3>1
    <3>2. CASE z # x
      <4> DEFINE r == SumOver(w, (S \ {z}) \ {x})
      <4>1. (S \ {x}) \ {z} = (S \ {z}) \ {x}
        OBVIOUS
      <4>2. SumOver(w, S \ {x}) = w[z] + r
        BY <1>2, <3>2, <4>1
      <4>3. SumOver(w, S \ {z}) = w[x] + r
        BY <1>2, <3>2
      <4>4. r \in Int
        BY FS_Subset, SumInt
      <4>5. w[x] \in Int /\ w[z] \in Int
        OBVIOUS
      <4> HIDE DEF r
      <4>6. w[x] + (w[z] + r) = w[z] + (w[x] + r)
        BY <4>4, <4>5
      <4> QED BY <2>1, <4>2, <4>3, <4>6
    <3> QED BY <3>1, <3>2
  <2> QED BY <2>2
<1>3. \A S \in SUBSET D : S \in T
  <2> HIDE DEF T
  <2> QED BY <1>1, <1>2, SubsetInduction
<1> QED BY <1>3

\* Sums compare and add up member by member.
LEMMA SumMono ==
    ASSUME NEW D, IsFiniteSet(D), NEW w, NEW v, \A x \in D : w[x] \in Int /\ v[x] \in Int /\ w[x] <= v[x]
    PROVE  SumOver(w, D) <= SumOver(v, D)
<1> DEFINE T == {S \in SUBSET D : SumOver(w, S) <= SumOver(v, S)}
<1>1. {} \in T
  <2>1. SumOver(w, {}) = 0 /\ SumOver(v, {}) = 0
    BY SumChosen, FS_EmptySet
  <2> QED BY <2>1
<1>2. ASSUME NEW S \in SUBSET D, S # {}, \A x \in S : S \ {x} \in T PROVE S \in T
  <2>1. PICK x \in S : TRUE
    BY <1>2
  <2> DEFINE a == SumOver(w, S \ {x})
             b == SumOver(v, S \ {x})
  <2>2. SumOver(w, S) = w[x] + a /\ SumOver(v, S) = v[x] + b
    BY FS_Subset, SumRemove
  <2>3. a \in Int /\ b \in Int
    BY FS_Subset, SumInt
  <2>4. a <= b /\ w[x] \in Int /\ v[x] \in Int /\ w[x] <= v[x]
    BY <1>2
  <2> HIDE DEF a, b
  <2>5. SumOver(w, S) <= SumOver(v, S)
    BY <2>2, <2>3, <2>4
  <2> QED BY <2>5
<1>3. \A S \in SUBSET D : S \in T
  <2> HIDE DEF T
  <2> QED BY <1>1, <1>2, SubsetInduction
<1> QED BY <1>3

\* One member's amount changes.
LEMMA SumUpdate ==
    ASSUME NEW D, IsFiniteSet(D), NEW w, NEW v, NEW y \in D,
           \A x \in D : w[x] \in Int /\ v[x] \in Int, \A x \in D \ {y} : w[x] = v[x]
    PROVE  SumOver(v, D) = SumOver(w, D) + (v[y] - w[y])
<1> DEFINE r == SumOver(w, D \ {y})
<1>1. SumOver(w, D) = w[y] + r
  BY SumRemove
<1>2. SumOver(v, D) = v[y] + SumOver(v, D \ {y})
  BY SumRemove
<1>3. IsFiniteSet(D \ {y})
  BY FS_Subset
<1>4. SumOver(v, D \ {y}) = r
  BY <1>3, SumSame
<1>5. r \in Int
  BY <1>3, SumInt
<1> HIDE DEF r
<1> QED BY <1>1, <1>2, <1>4, <1>5


\* A part of the members adds up to no more than all of them.
LEMMA SumPart ==
    ASSUME NEW D, IsFiniteSet(D), NEW w, \A x \in D : w[x] \in Nat, NEW E \in SUBSET D
    PROVE  SumOver(w, E) <= SumOver(w, D)
<1> DEFINE v == [x \in D |-> IF x \in E THEN w[x] ELSE 0]
           T == {S \in SUBSET D : SumOver(v, S) = SumOver(w, S \cap E)}
<1>0. \A x \in D : v[x] \in Nat
  OBVIOUS
<1>1. {} \in T
  <2>1. {} \cap E = {}
    OBVIOUS
  <2>2. SumOver(v, {}) = 0 /\ SumOver(w, {}) = 0
    BY SumChosen, FS_EmptySet
  <2> QED BY <2>1, <2>2
<1>2. ASSUME NEW S \in SUBSET D, S # {}, \A x \in S : S \ {x} \in T PROVE S \in T
  <2>1. PICK x \in S : TRUE
    BY <1>2
  <2>2. IsFiniteSet(S) /\ IsFiniteSet(S \cap E)
    BY FS_Subset
  <2>3. SumOver(v, S) = v[x] + SumOver(v, S \ {x}) /\ SumOver(v, S \ {x}) = SumOver(w, (S \ {x}) \cap E)
    <3>1. \A y \in S : v[y] \in Int
      BY <1>0
    <3>2. SumOver(v, S) = v[x] + SumOver(v, S \ {x})
      BY <2>2, <3>1, SumRemove
    <3> QED BY <1>2, <3>2
  <2>4. CASE x \in E
    <3>1. x \in S \cap E /\ (S \cap E) \ {x} = (S \ {x}) \cap E
      BY <2>4
    <3>2. SumOver(w, S \cap E) = w[x] + SumOver(w, (S \cap E) \ {x})
      BY <2>2, <3>1, SumRemove
    <3> QED BY <2>3, <2>4, <3>1, <3>2
  <2>5. CASE x \notin E
    <3>1. (S \ {x}) \cap E = S \cap E /\ v[x] = 0
      BY <2>5
    <3>2. SumOver(w, S \cap E) \in Nat
      BY <2>2, SumNat
    <3> QED BY <2>3, <3>1, <3>2
  <2> QED BY <2>4, <2>5
<1>3. \A S \in SUBSET D : S \in T
  <2> HIDE DEF T
  <2> QED BY <1>1, <1>2, SubsetInduction
<1>4. SumOver(v, D) = SumOver(w, D \cap E) /\ D \cap E = E
  BY <1>3
<1>5. SumOver(v, D) <= SumOver(w, D)
  <2>1. \A x \in D : v[x] \in Int /\ w[x] \in Int /\ v[x] <= w[x]
    OBVIOUS
  <2> HIDE DEF v
  <2> QED BY <2>1, SumMono
<1> QED BY <1>4, <1>5

\* A member more.
LEMMA SumAdd ==
    ASSUME NEW D, IsFiniteSet(D), NEW w, NEW y, y \notin D, \A x \in D \cup {y} : w[x] \in Int
    PROVE  SumOver(w, D \cup {y}) = SumOver(w, D) + w[y]
<1> DEFINE E == D \cup {y}
<1>1. IsFiniteSet(E) /\ y \in E /\ E \ {y} = D
  BY FS_AddElement
<1>2. SumOver(w, E) = w[y] + SumOver(w, E \ {y})
  BY <1>1, SumRemove
<1>3. SumOver(w, E) = w[y] + SumOver(w, D)
  BY <1>1, <1>2, Zenon
<1>4. SumOver(w, D) \in Int /\ w[y] \in Int
  BY SumInt
<1> QED BY <1>3, <1>4

\* Whatever satisfies the recursion is the sum.
LEMMA SumUnique ==
    ASSUME NEW D, IsFiniteSet(D), NEW w, NEW s, IsSum(s, w, D)
    PROVE  s[D] = SumOver(w, D)
<1> DEFINE T == {S \in SUBSET D : s[S] = SumFn(w, D)[S]}
<1>1. {} \in T
  <2>1. s[{}] = 0
    BY DEF IsSum
  <2> QED BY <2>1, SumStep
<1>2. ASSUME NEW S \in SUBSET D, S # {}, \A x \in S : S \ {x} \in T PROVE S \in T
  <2> DEFINE x == CHOOSE x \in S : TRUE
  <2>1. x \in S
    BY <1>2
  <2>2. s[S] = w[x] + s[S \ {x}]
    BY <1>2 DEF IsSum
  <2>3. SumFn(w, D)[S] = w[x] + SumFn(w, D)[S \ {x}]
    BY <1>2, SumStep
  <2> HIDE DEF x
  <2> QED BY <1>2, <2>1, <2>2, <2>3
<1>3. \A S \in SUBSET D : S \in T
  <2> HIDE DEF T
  <2> QED BY <1>1, <1>2, SubsetInduction
<1> QED BY <1>3 DEF SumOver


\* Fewer members with smaller amounts add up to no more.
LEMMA SumBelow ==
    ASSUME NEW D, IsFiniteSet(D), NEW E \in SUBSET D, NEW w, NEW v,
           \A x \in D : v[x] \in Nat, \A x \in E : w[x] \in Nat /\ w[x] <= v[x]
    PROVE  SumOver(w, E) <= SumOver(v, D) /\ SumOver(w, E) \in Nat /\ SumOver(v, D) \in Nat
<1>1. IsFiniteSet(E)
  BY FS_Subset
<1>2. \A x \in E : w[x] \in Int /\ v[x] \in Int /\ w[x] <= v[x]
  OBVIOUS
<1>3. SumOver(w, E) <= SumOver(v, E)
  BY <1>1, <1>2, SumMono
<1>4. SumOver(v, E) <= SumOver(v, D)
  BY SumPart
<1>5. SumOver(w, E) \in Nat /\ SumOver(v, E) \in Nat /\ SumOver(v, D) \in Nat
  BY <1>1, SumNat
<1> QED BY <1>3, <1>4, <1>5

\* The same when one member more, or one that weighs more, adds up to b.
LEMMA SumBelowAdd ==
    ASSUME NEW D, IsFiniteSet(D), NEW y, NEW E \in SUBSET (D \cup {y}), NEW w, NEW v, NEW b \in Nat,
           \A x \in D : v[x] \in Nat, \A x \in E : w[x] \in Nat,
           \A x \in E \ {y} : w[x] <= v[x],
           w[y] <= IF y \in D THEN v[y] + b ELSE b
    PROVE  SumOver(w, E) <= SumOver(v, D) + b
<1> DEFINE u == [x \in D \cup {y} |-> IF x # y THEN v[x] ELSE IF y \in D THEN v[y] + b ELSE b]
           C == D \cup {y}
<1>1. IsFiniteSet(C)
  BY FS_AddElement
<1>2. \A x \in C : u[x] \in Nat
  OBVIOUS
<1>3. \A x \in E : w[x] <= u[x]
  OBVIOUS
<1>4. \A x \in D \ {y} : u[x] = v[x]
  OBVIOUS
<1>5. u[y] = IF y \in D THEN v[y] + b ELSE b
  OBVIOUS
<1> HIDE DEF u
<1>6. SumOver(w, E) <= SumOver(u, C)
  BY <1>1, <1>2, <1>3, SumBelow
<1>7. SumOver(u, C) = SumOver(v, D) + b
  <2>0. SumOver(v, D) \in Nat
    BY SumNat
  <2>1. CASE y \in D
    <3>1. C = D
      BY <2>1
    <3>4. \A x \in D : v[x] \in Int /\ u[x] \in Int
      BY <1>2
    <3>2. SumOver(u, D) = SumOver(v, D) + (u[y] - v[y])
      BY <1>4, <2>1, <3>4, SumUpdate
    <3>3. u[y] = v[y] + b /\ v[y] \in Nat
      BY <1>5, <2>1
    <3>5. u[y] - v[y] = b
      BY <3>3
    <3>6. SumOver(u, D) = SumOver(v, D) + b
      BY <3>2, <3>5, Zenon
    <3> QED BY <3>1, <3>6, Zenon
  <2>2. CASE y \notin D
    <3>1. \A x \in D \cup {y} : u[x] \in Int
      BY <1>2
    <3>2. SumOver(u, D \cup {y}) = SumOver(u, D) + u[y]
      BY <2>2, <3>1, SumAdd
    <3>3. SumOver(u, D) = SumOver(v, D)
      BY <1>4, <2>2, SumSame
    <3> QED BY <1>5, <2>2, <3>2, <3>3
  <2> QED BY <2>1, <2>2
<1> QED BY <1>6, <1>7
=============================================================================

------------------------------- MODULE Sums ---------------------------------
(***************************************************************************)
(* What a sum over a finite set is.  The sums of the reports are folds,    *)
(* which choose an order, so that what they come to is seen by induction   *)
(* over the subsets of the set: by way of the set of the good ones, since  *)
(* no induction theorem with an operator as its parameter can be used.     *)
(***************************************************************************)
EXTENDS Integers, FiniteSets, Sequences, FiniteSetsExt, FiniteSetTheorems,
        NaturalsInduction, WellFoundedInduction, TLAPS

-----------------------------------------------------------------------------
(* Counting.                                                               *)

\* A set whose members are all the same has at most one member.
LEMMA AtMostOne ==
    ASSUME NEW S, \A p, q \in S : p = q
    PROVE  Cardinality(S) <= 1
<1>1. CASE S = {}
  BY <1>1, FS_EmptySet
<1>2. CASE S # {}
  <2>1. PICK p : p \in S
    BY <1>2
  <2>2. S = {p}
    BY <2>1
  <2>3. Cardinality({p}) = 1
    BY FS_Singleton
  <2> QED BY <2>2, <2>3
<1> QED BY <1>1, <1>2

\* Three sets no two of which share a member have as many as all together.
LEMMA DisjointParts ==
    ASSUME NEW R, NEW S, NEW T, IsFiniteSet(R), IsFiniteSet(S), IsFiniteSet(T),
           R \cap S = {}, (R \cup S) \cap T = {}
    PROVE  Cardinality(R) + Cardinality(S) + Cardinality(T) = Cardinality(R \cup S \cup T)
<1>1. /\ IsFiniteSet(R \cup S)
      /\ Cardinality(R \cup S) = Cardinality(R) + Cardinality(S) - Cardinality(R \cap S)
  BY FS_Union
<1>2. Cardinality((R \cup S) \cup T)
         = Cardinality(R \cup S) + Cardinality(T) - Cardinality((R \cup S) \cap T)
  BY <1>1, FS_Union
<1>3. Cardinality(R) \in Nat /\ Cardinality(S) \in Nat /\ Cardinality(T) \in Nat
  BY FS_CardinalityType
<1>4. \A A : A = {} => Cardinality(A) = 0
  BY FS_EmptySet
<1>a. Cardinality(R \cap S) = 0 /\ Cardinality((R \cup S) \cap T) = 0
  BY <1>4
<1>5. Cardinality(R \cup S) = Cardinality(R) + Cardinality(S)
  BY <1>1, <1>3, <1>a
<1>6. Cardinality((R \cup S) \cup T) = Cardinality(R \cup S) + Cardinality(T)
  BY <1>2, <1>3, <1>a, <1>5
<1> QED BY <1>5, <1>6

\* A row of a table is one of its rows.
LEMMA OneOf == ASSUME NEW R, NEW s \in Seq(R), NEW i \in DOMAIN s PROVE s[i] \in R
OBVIOUS

-----------------------------------------------------------------------------
(* Induction over sets: a set that holds 0 and with each number the next   *)
(* has all of them, and likewise for the subsets of a finite set.          *)

LEMMA AllNumbers ==
    ASSUME NEW Good, 0 \in Good, \A n \in Nat : n \in Good => n + 1 \in Good
    PROVE  Nat \subseteq Good
<1> SUFFICES ASSUME Nat \ Good # {} PROVE FALSE
  OBVIOUS
<1>1. PICK n \in Nat \ Good :
         \A m \in Nat \ Good : ~ (<<m, n>> \in OpToRel(<, Nat))
  BY NatLessThanWellFounded, WFMin
<1>2. \A m \in Nat : m < n => m \in Good
  BY <1>1 DEF OpToRel
<1>3. n # 0 /\ n - 1 \in Nat /\ n - 1 < n
  OBVIOUS
<1> QED BY <1>2, <1>3

LEMMA AllSubsets ==
    ASSUME NEW S, IsFiniteSet(S), NEW Good, {} \in Good,
           \A T \in SUBSET S, x \in S : T \in Good /\ x \notin T => T \cup {x} \in Good
    PROVE  SUBSET S \subseteq Good
<1> DEFINE Sized(n) == \A T \in SUBSET S : Cardinality(T) = n => T \in Good
           Sizes == {n \in Nat : Sized(n)}
<1>1. 0 \in Sizes
  BY FS_EmptySet, FS_Subset
<1>2. ASSUME NEW n \in Nat, n \in Sizes
      PROVE  n + 1 \in Sizes
  <2>1. ASSUME NEW T \in SUBSET S, Cardinality(T) = n + 1
        PROVE  T \in Good
    <3>1. IsFiniteSet(T) /\ T # {}
      BY <2>1, FS_Subset, FS_EmptySet
    <3>2. PICK x \in T : TRUE
      BY <3>1
    <3>3. Cardinality(T \ {x}) = n
      <4>1. Cardinality(T \ {x}) = Cardinality(T) - 1
        BY <3>1, <3>2, FS_RemoveElement
      <4> QED BY <2>1, <4>1
    <3>4. T \ {x} \in Good
      BY <1>2, <3>3
    <3>5. (T \ {x}) \cup {x} = T
      BY <3>2
    <3> QED BY <3>2, <3>4, <3>5
  <2> QED BY <2>1
<1>3. Nat \subseteq Sizes
  BY <1>1, <1>2, AllNumbers
<1> SUFFICES ASSUME NEW T \in SUBSET S PROVE T \in Good
  OBVIOUS
<1>4. Cardinality(T) \in Nat
  BY FS_Subset, FS_CardinalityType
<1> QED BY <1>3, <1>4

-----------------------------------------------------------------------------
(* Sums over finite sets.                                                  *)

\* The member a sum takes from a set first.
Foremost(T) == CHOOSE x \in T : TRUE

\* sum has the sum of f over each subset of S.
SumsUp(sum, f, S) ==
    sum = [T \in SUBSET S |-> IF T = {} THEN 0
                              ELSE f[Foremost(T)] + sum[T \ {Foremost(T)}]]

SumOver(f, S) == (CHOOSE sum : SumsUp(sum, f, S))[S]

LEMMA ForemostOf == ASSUME NEW T, T # {} PROVE Foremost(T) \in T
BY DEF Foremost

\* There is such a function, and it is unique.
LEMMA SumsExist ==
    ASSUME NEW S, IsFiniteSet(S), NEW f, \A x \in S : f[x] \in Int
    PROVE  \E sum : SumsUp(sum, f, S)
<1> DEFINE Small(n) == {T \in SUBSET S : Cardinality(T) <= n}
           Up(n, sum) == sum = [T \in Small(n) |->
                                  IF T = {} THEN 0
                                  ELSE f[Foremost(T)] + sum[T \ {Foremost(T)}]]
           Sizes == {n \in Nat : \E sum : Up(n, sum)}
<1>0. \A T \in SUBSET S : IsFiniteSet(T) /\ Cardinality(T) \in Nat
  BY FS_Subset, FS_CardinalityType
<1>1. 0 \in Sizes
  <2>1. PICK sum : sum = [T \in Small(0) |-> 0]
    OBVIOUS
  <2>2. \A T \in Small(0) : T = {}
    BY <1>0, FS_EmptySet
  <2>3. Up(0, sum)
    BY <2>1, <2>2
  <2> QED BY <2>3
<1>2. ASSUME NEW n \in Nat, n \in Sizes
      PROVE  n + 1 \in Sizes
  <2>1. PICK sum : Up(n, sum)
    BY <1>2
  <2>2. PICK more : more = [T \in Small(n + 1) |->
                              IF T = {} THEN 0
                              ELSE f[Foremost(T)] + sum[T \ {Foremost(T)}]]
    OBVIOUS
  <2>3. ASSUME NEW T \in Small(n)
        PROVE  more[T] = sum[T] /\ T \in Small(n + 1)
    <3>1. T \in Small(n + 1)
      BY <1>0
    <3> QED BY <2>1, <2>2, <3>1
  <2>4. ASSUME NEW T \in Small(n + 1), T # {}
        PROVE  more[T \ {Foremost(T)}] = sum[T \ {Foremost(T)}]
    <3>1. Foremost(T) \in T /\ IsFiniteSet(T)
      BY <1>0, <2>4, ForemostOf
    <3>2. Cardinality(T \ {Foremost(T)}) = Cardinality(T) - 1
      BY <3>1, FS_RemoveElement
    <3>3. T \ {Foremost(T)} \in Small(n)
      <4>1. Cardinality(T) \in Nat /\ Cardinality(T) <= n + 1
        BY <1>0
      <4> QED BY <3>2, <4>1
    <3> QED BY <2>3, <3>3
  <2>5. Up(n + 1, more)
    BY <2>2, <2>4
  <2>6. \E other : Up(n + 1, other)
    BY <2>5
  <2> HIDE DEF Up
  <2> QED BY <2>6
<1>3. Cardinality(S) \in Sizes
  BY <1>0, <1>1, <1>2, AllNumbers
<1>4. PICK sum : Up(Cardinality(S), sum)
  BY <1>3
<1>5. Small(Cardinality(S)) = SUBSET S
  BY FS_Subset
<1> QED BY <1>4, <1>5 DEF SumsUp

LEMMA SumsStep ==
    ASSUME NEW S, NEW f, NEW sum, SumsUp(sum, f, S), NEW T \in SUBSET S
    PROVE  sum[T] = IF T = {} THEN 0 ELSE f[Foremost(T)] + sum[T \ {Foremost(T)}]
BY DEF SumsUp

LEMMA SumsAgree ==
    ASSUME NEW S, IsFiniteSet(S), NEW f, NEW g, NEW A, NEW B,
           NEW R, S \subseteq R, NEW Q, S \subseteq Q,
           SumsUp(A, f, R), SumsUp(B, g, Q), \A x \in S : f[x] = g[x]
    PROVE  A[S] = B[S]
<1> DEFINE Sizes == {n \in Nat : \A T \in SUBSET S : Cardinality(T) = n => A[T] = B[T]}
<1>0. \A T \in SUBSET S : IsFiniteSet(T) /\ Cardinality(T) \in Nat
  BY FS_Subset, FS_CardinalityType
<1>1. 0 \in Sizes
  BY <1>0, FS_EmptySet DEF SumsUp
<1>2. ASSUME NEW n \in Nat, n \in Sizes
      PROVE  n + 1 \in Sizes
  <2>1. ASSUME NEW T \in SUBSET S, Cardinality(T) = n + 1
        PROVE  A[T] = B[T]
    <3>1. T # {} /\ IsFiniteSet(T)
      BY <1>0, <2>1, FS_EmptySet
    <3>2. Foremost(T) \in T
      BY <3>1, ForemostOf
    <3>3. Cardinality(T \ {Foremost(T)}) = n
      <4>1. Cardinality(T \ {Foremost(T)}) = Cardinality(T) - 1
        BY <3>1, <3>2, FS_RemoveElement
      <4> QED BY <2>1, <4>1
    <3>4. A[T \ {Foremost(T)}] = B[T \ {Foremost(T)}]
      BY <1>2, <3>3
    <3>5. T \in SUBSET R /\ T \in SUBSET Q /\ f[Foremost(T)] = g[Foremost(T)]
      BY <3>2
    <3>6. A[T] = f[Foremost(T)] + A[T \ {Foremost(T)}]
      BY <3>1, <3>5, SumsStep
    <3>7. B[T] = g[Foremost(T)] + B[T \ {Foremost(T)}]
      BY <3>1, <3>5, SumsStep
    <3> QED BY <3>4, <3>5, <3>6, <3>7
  <2> QED BY <2>1
<1>3. Cardinality(S) \in Sizes
  BY <1>0, <1>1, <1>2, AllNumbers
<1> QED BY <1>3

\* So the sum over a set follows the recursion, and depends only on what the
\* function has for its members.
LEMMA SumSame ==
    ASSUME NEW S, IsFiniteSet(S), NEW f, NEW g, \A x \in S : f[x] \in Int /\ f[x] = g[x]
    PROVE  SumOver(f, S) = SumOver(g, S)
<1>1. (\E sum : SumsUp(sum, f, S)) /\ (\E sum : SumsUp(sum, g, S))
  BY SumsExist
<1>2. PICK A : A = CHOOSE sum : SumsUp(sum, f, S)
  OBVIOUS
<1>3. PICK B : B = CHOOSE sum : SumsUp(sum, g, S)
  OBVIOUS
<1>4. SumsUp(A, f, S) /\ SumsUp(B, g, S)
  BY <1>1, <1>2, <1>3
<1>5. A[S] = B[S]
  BY <1>4, SumsAgree
<1> QED BY <1>2, <1>3, <1>5 DEF SumOver

LEMMA SumEmpty == ASSUME NEW f PROVE SumOver(f, {}) = 0
<1>1. IsFiniteSet({})
  BY FS_EmptySet
<1>2. \E sum : SumsUp(sum, f, {})
  BY <1>1, SumsExist
<1>3. PICK A : A = CHOOSE sum : SumsUp(sum, f, {})
  OBVIOUS
<1>4. SumsUp(A, f, {})
  BY <1>2, <1>3
<1> QED BY <1>3, <1>4 DEF SumOver, SumsUp

LEMMA SumForemost ==
    ASSUME NEW S, IsFiniteSet(S), S # {}, NEW f, \A x \in S : f[x] \in Int
    PROVE  SumOver(f, S) = f[Foremost(S)] + SumOver(f, S \ {Foremost(S)})
<1>1. PICK T : T = S \ {Foremost(S)}
  OBVIOUS
<1>2. IsFiniteSet(T) /\ T \subseteq S
  BY <1>1, FS_Subset
<1>3. (\E sum : SumsUp(sum, f, S)) /\ (\E sum : SumsUp(sum, f, T))
  BY <1>2, SumsExist
<1>4. PICK A : A = CHOOSE sum : SumsUp(sum, f, S)
  OBVIOUS
<1>5. PICK B : B = CHOOSE sum : SumsUp(sum, f, T)
  OBVIOUS
<1>6. SumsUp(A, f, S) /\ SumsUp(B, f, T)
  BY <1>3, <1>4, <1>5
<1>7. A[T] = B[T]
  BY <1>2, <1>6, SumsAgree
<1>8. A[S] = f[Foremost(S)] + A[T]
  BY <1>1, <1>6 DEF SumsUp
<1> QED BY <1>1, <1>4, <1>5, <1>7, <1>8 DEF SumOver

LEMMA SumInt ==
    ASSUME NEW S, IsFiniteSet(S), NEW f, \A x \in S : f[x] \in Int
    PROVE  SumOver(f, S) \in Int
<1> DEFINE Sizes == {n \in Nat : \A T \in SUBSET S :
                                    Cardinality(T) = n => SumOver(f, T) \in Int}
<1>0. \A T \in SUBSET S : IsFiniteSet(T) /\ Cardinality(T) \in Nat
  BY FS_Subset, FS_CardinalityType
<1>1. 0 \in Sizes
  <2>1. \A T \in SUBSET S : Cardinality(T) = 0 => T = {}
    BY <1>0, FS_EmptySet
  <2> QED BY <2>1, SumEmpty
<1>2. ASSUME NEW n \in Nat, n \in Sizes
      PROVE  n + 1 \in Sizes
  <2>1. ASSUME NEW T \in SUBSET S, Cardinality(T) = n + 1
        PROVE  SumOver(f, T) \in Int
    <3>1. T # {} /\ IsFiniteSet(T)
      BY <1>0, <2>1, FS_EmptySet
    <3>2. Foremost(T) \in T
      BY <3>1, ForemostOf
    <3>3. Cardinality(T \ {Foremost(T)}) = n
      <4>1. Cardinality(T \ {Foremost(T)}) = Cardinality(T) - 1
        BY <3>1, <3>2, FS_RemoveElement
      <4> QED BY <2>1, <4>1
    <3>4. SumOver(f, T \ {Foremost(T)}) \in Int
      BY <1>2, <3>3
    <3>5. SumOver(f, T) = f[Foremost(T)] + SumOver(f, T \ {Foremost(T)})
      BY <3>1, SumForemost
    <3> QED BY <3>2, <3>4, <3>5
  <2> QED BY <2>1
<1>3. Cardinality(S) \in Sizes
  BY <1>0, <1>1, <1>2, AllNumbers
<1> QED BY <1>3

\* Every member may be taken first.
LEMMA SumTake ==
    ASSUME NEW S, IsFiniteSet(S), NEW f, \A x \in S : f[x] \in Int, NEW y \in S
    PROVE  SumOver(f, S) = f[y] + SumOver(f, S \ {y})
<1> DEFINE Takes(T) == \A x \in T : SumOver(f, T) = f[x] + SumOver(f, T \ {x})
           Sizes == {n \in Nat : \A T \in SUBSET S : Cardinality(T) = n => Takes(T)}
<1>0. \A T \in SUBSET S : IsFiniteSet(T) /\ Cardinality(T) \in Nat
  BY FS_Subset, FS_CardinalityType
<1>1. 0 \in Sizes
  BY <1>0, FS_EmptySet
<1>2. ASSUME NEW n \in Nat, n \in Sizes
      PROVE  n + 1 \in Sizes
  <2>1. ASSUME NEW T \in SUBSET S, Cardinality(T) = n + 1, NEW x \in T
        PROVE  SumOver(f, T) = f[x] + SumOver(f, T \ {x})
    <3>1. PICK c \in T : c = Foremost(T)
      BY ForemostOf
    <3>2. \A z \in T : Cardinality(T \ {z}) = n
      <4>1. \A z \in T : Cardinality(T \ {z}) = Cardinality(T) - 1
        BY <1>0, FS_RemoveElement
      <4> QED BY <2>1, <4>1
    <3>3. SumOver(f, T) = f[c] + SumOver(f, T \ {c})
      BY <1>0, <3>1, SumForemost
    <3>4. CASE x # c
      <4>1. PICK R : R = (T \ {c}) \ {x}
        OBVIOUS
      <4>2. R = (T \ {x}) \ {c} /\ R \in SUBSET S
        BY <4>1
      <4>3. SumOver(f, T \ {c}) = f[x] + SumOver(f, R)
        <5>1. Takes(T \ {c})
          BY <1>2, <3>2
        <5> QED BY <3>4, <4>1, <5>1
      <4>4. SumOver(f, T \ {x}) = f[c] + SumOver(f, R)
        <5>1. Takes(T \ {x})
          BY <1>2, <3>2
        <5> QED BY <3>4, <4>2, <5>1
      <4>5. SumOver(f, R) \in Int /\ f[x] \in Int /\ f[c] \in Int
        BY <1>0, <4>2, SumInt
      <4> QED BY <3>3, <4>3, <4>4, <4>5
    <3> QED BY <3>1, <3>3, <3>4
  <2>2. \A T \in SUBSET S : Cardinality(T) = n + 1 => Takes(T)
    BY <2>1
  <2> HIDE DEF Takes
  <2> QED BY <2>2
<1>3. Cardinality(S) \in Sizes
  BY <1>0, <1>1, <1>2, AllNumbers
<1> QED BY <1>3

\* One member more adds what the function has for it.
LEMMA SumMore ==
    ASSUME NEW S, IsFiniteSet(S), NEW f, NEW y, y \notin S,
           \A x \in S \cup {y} : f[x] \in Int
    PROVE  SumOver(f, S \cup {y}) = SumOver(f, S) + f[y]
<1>1. PICK T : T = S \cup {y}
  OBVIOUS
<1>2. IsFiniteSet(T) /\ T \ {y} = S
  BY <1>1, FS_AddElement
<1>3. SumOver(f, T) = f[y] + SumOver(f, T \ {y})
  BY <1>1, <1>2, SumTake
<1>4. SumOver(f, S) \in Int /\ f[y] \in Int
  BY SumInt
<1>5. SumOver(f, T) = f[y] + SumOver(f, S)
  BY <1>2, <1>3
<1> QED BY <1>1, <1>4, <1>5

\* A sum of what is never negative is none less than that over a part.
LEMMA SumOfPart ==
    ASSUME NEW S, IsFiniteSet(S), NEW f, \A x \in S : f[x] \in Nat, NEW R \in SUBSET S
    PROVE  SumOver(f, R) \in Nat /\ SumOver(f, R) <= SumOver(f, S)
<1> DEFINE Good == {T \in SUBSET S : /\ SumOver(f, T) \in Nat
                                     /\ \A U \in SUBSET T : /\ SumOver(f, U) \in Nat
                                                            /\ SumOver(f, U) <= SumOver(f, T)}
<1>1. {} \in Good
  BY SumEmpty
<1>2. ASSUME NEW T \in SUBSET S, NEW x \in S, T \in Good, x \notin T
      PROVE  T \cup {x} \in Good
  <2>1. \A U \in SUBSET T : SumOver(f, U \cup {x}) = SumOver(f, U) + f[x]
    <3> SUFFICES ASSUME NEW U \in SUBSET T
                 PROVE  SumOver(f, U \cup {x}) = SumOver(f, U) + f[x]
      OBVIOUS
    <3>1. IsFiniteSet(U) /\ x \notin U /\ \A y \in U \cup {x} : f[y] \in Int
      BY <1>2, FS_Subset
    <3> QED BY <3>1, SumMore
  <2>2. SumOver(f, T \cup {x}) = SumOver(f, T) + f[x] /\ f[x] \in Nat
    BY <2>1
  <2>3. ASSUME NEW U \in SUBSET (T \cup {x})
        PROVE  SumOver(f, U) \in Nat /\ SumOver(f, U) <= SumOver(f, T \cup {x})
    <3>1. CASE x \in U
      <4>1. PICK W \in SUBSET T : W = U \ {x}
        BY <3>1
      <4>2. SumOver(f, U) = SumOver(f, W) + f[x]
        BY <2>1, <3>1, <4>1
      <4>3. SumOver(f, W) \in Nat /\ SumOver(f, W) <= SumOver(f, T)
        BY <1>2
      <4> QED BY <1>2, <2>2, <4>2, <4>3
    <3>2. CASE x \notin U
      BY <1>2, <2>2, <3>2
    <3> QED BY <3>1, <3>2
  <2> QED BY <1>2, <2>2, <2>3
<1>3. S \in Good
  <2> HIDE DEF Good
  <2>1. SUBSET S \subseteq Good
    BY <1>1, <1>2, AllSubsets
  <2> QED BY <2>1
<1> QED BY <1>3

\* The sum over two sets together, which is less if they share a member.
LEMMA SumOfTwo ==
    ASSUME NEW S, IsFiniteSet(S), NEW f, \A x \in S : f[x] \in Nat,
           NEW A \in SUBSET S, NEW B \in SUBSET S
    PROVE  /\ SumOver(f, A \cup B) <= SumOver(f, A) + SumOver(f, B)
           /\ A \cap B = {} => SumOver(f, A \cup B) = SumOver(f, A) + SumOver(f, B)
<1> DEFINE Good == {T \in SUBSET S :
                      /\ SumOver(f, A \cup T) <= SumOver(f, A) + SumOver(f, T)
                      /\ A \cap T = {} => SumOver(f, A \cup T) = SumOver(f, A) + SumOver(f, T)}
<1>1. \A T \in SUBSET S : IsFiniteSet(T) /\ SumOver(f, T) \in Nat
  BY FS_Subset, SumOfPart
<1>2. {} \in Good
  <2>1. A \cup {} = A /\ SumOver(f, {}) = 0
    BY SumEmpty
  <2> QED BY <1>1, <2>1
<1>3. ASSUME NEW T \in SUBSET S, NEW x \in S, T \in Good, x \notin T
      PROVE  T \cup {x} \in Good
  <2>1. SumOver(f, T \cup {x}) = SumOver(f, T) + f[x]
    <3>1. IsFiniteSet(T) /\ \A y \in T \cup {x} : f[y] \in Int
      BY <1>1
    <3> QED BY SMTT(30), <1>3, <3>1, SumMore
  <2>5. /\ SumOver(f, A \cup T) <= SumOver(f, A) + SumOver(f, T)
        /\ A \cap T = {} => SumOver(f, A \cup T) = SumOver(f, A) + SumOver(f, T)
    BY <1>3
  <2>6. /\ SumOver(f, A) \in Nat /\ SumOver(f, T) \in Nat /\ f[x] \in Nat
        /\ SumOver(f, A \cup T) \in Nat
    BY <1>1
  <2>2. PICK U \in SUBSET S : U = A \cup T
    OBVIOUS
  <2>3. CASE x \in A
    <3>1. A \cup (T \cup {x}) = U
      BY <2>2, <2>3
    <3>2. A \cap (T \cup {x}) # {}
      BY <2>3
    <3>3. SumOver(f, U) <= SumOver(f, A) + SumOver(f, T \cup {x})
      BY <2>1, <2>2, <2>5, <2>6
    <3> QED BY <3>1, <3>2, <3>3
  <2>4. CASE x \notin A
    <3>1. A \cup (T \cup {x}) = U \cup {x} /\ x \notin U
      BY <1>3, <2>2, <2>4
    <3>2. SumOver(f, U \cup {x}) = SumOver(f, U) + f[x]
      <4>1. IsFiniteSet(U) /\ \A y \in U \cup {x} : f[y] \in Int
        BY <1>1
      <4> QED BY <3>1, <4>1, SumMore
    <3>3. SumOver(f, U \cup {x}) <= SumOver(f, A) + SumOver(f, T \cup {x})
      BY <2>1, <2>2, <2>5, <2>6, <3>2
    <3>4. A \cap (T \cup {x}) = {} =>
             SumOver(f, U \cup {x}) = SumOver(f, A) + SumOver(f, T \cup {x})
      <4>1. A \cap (T \cup {x}) = {} => A \cap T = {}
        OBVIOUS
      <4> QED BY <2>1, <2>2, <2>5, <2>6, <3>2, <4>1
    <3> QED BY <3>1, <3>3, <3>4
  <2> QED BY <2>3, <2>4
<1>4. B \in Good
  <2> HIDE DEF Good
  <2>1. SUBSET S \subseteq Good
    BY <1>2, <1>3, AllSubsets
  <2> QED BY <2>1
<1> QED BY <1>4

LEMMA SumOfApart ==
    ASSUME NEW S, IsFiniteSet(S), NEW f, \A x \in S : f[x] \in Nat,
           NEW A \in SUBSET S, NEW B \in SUBSET S, A \cap B = {}
    PROVE  SumOver(f, A \cup B) = SumOver(f, A) + SumOver(f, B)
BY SumOfTwo

\* The sum of the sums over parts is that over all they cover, or more.
LEMMA SumOfParts ==
    ASSUME NEW I, IsFiniteSet(I), NEW S, IsFiniteSet(S), NEW f, \A x \in S : f[x] \in Nat,
           NEW part, \A i \in I : part[i] \in SUBSET S,
           NEW whole, \A i \in I : whole[i] = SumOver(f, part[i])
    PROVE  /\ SumOver(whole, I) \in Nat
           /\ SumOver(f, UNION {part[i] : i \in I}) <= SumOver(whole, I)
           /\ (\A i, j \in I : i # j => part[i] \cap part[j] = {}) =>
                 SumOver(f, UNION {part[i] : i \in I}) = SumOver(whole, I)
<1> DEFINE Covered(J) == UNION {part[i] : i \in J}
           Apart(J) == \A i, j \in J : i # j => part[i] \cap part[j] = {}
           Good == {J \in SUBSET I :
                      /\ SumOver(f, Covered(J)) <= SumOver(whole, J)
                      /\ Apart(J) => SumOver(f, Covered(J)) = SumOver(whole, J)}
<1>1. \A T \in SUBSET S : IsFiniteSet(T) /\ SumOver(f, T) \in Nat
  BY FS_Subset, SumOfPart
<1>2. \A J \in SUBSET I : IsFiniteSet(J) /\ SumOver(whole, J) \in Nat
  <2>1. \A i \in I : whole[i] \in Nat
    BY <1>1
  <2> QED BY <2>1, FS_Subset, SumOfPart
<1>3. {} \in Good
  <2>1. Covered({}) = {}
    OBVIOUS
  <2>2. SumOver(f, {}) = 0 /\ SumOver(whole, {}) = 0
    BY SumEmpty
  <2>3. SumOver(f, Covered({})) = SumOver(whole, {}) /\ SumOver(whole, {}) \in Int
    BY <2>1, <2>2
  <2> HIDE DEF Apart, Covered
  <2> QED BY <2>3
<1>4. ASSUME NEW J \in SUBSET I, NEW i \in I, J \in Good, i \notin J
      PROVE  J \cup {i} \in Good
  <2>1. SumOver(whole, J \cup {i}) = SumOver(whole, J) + whole[i]
    <3>1. \A j \in J \cup {i} : whole[j] \in Int
      BY <1>1
    <3> QED BY SMTT(30), <1>2, <1>4, <3>1, SumMore
  <2>2. PICK C \in SUBSET S, P \in SUBSET S : C = Covered(J) /\ P = part[i]
    OBVIOUS
  <2>3. Covered(J \cup {i}) = C \cup P
    BY <2>2
  <2>4. Apart(J \cup {i}) => Apart(J) /\ C \cap P = {}
    BY <1>4, <2>2
  <2>5. SumOver(f, C \cup P) <= SumOver(f, C) + SumOver(f, P)
    BY SumOfTwo
  <2>6. ASSUME C \cap P = {} PROVE SumOver(f, C \cup P) = SumOver(f, C) + SumOver(f, P)
    BY <2>6, SumOfApart
  <2>7. whole[i] = SumOver(f, P)
    BY <2>2
  <2>8. /\ SumOver(f, C) <= SumOver(whole, J)
        /\ Apart(J) => SumOver(f, C) = SumOver(whole, J)
    BY <1>4, <2>2
  <2>9. /\ SumOver(f, C) \in Nat /\ SumOver(f, P) \in Nat
        /\ SumOver(f, C \cup P) \in Nat /\ SumOver(whole, J) \in Nat
    BY <1>1, <1>2
  <2>10. /\ SumOver(f, C \cup P) <= SumOver(whole, J \cup {i})
         /\ Apart(J \cup {i}) => SumOver(f, C \cup P) = SumOver(whole, J \cup {i})
    <3> HIDE DEF Apart
    <3> QED BY <2>1, <2>4, <2>5, <2>6, <2>7, <2>8, <2>9
  <2> HIDE DEF Apart, Covered
  <2> QED BY <2>3, <2>10
<1>5. I \in Good
  <2> HIDE DEF Good
  <2>1. SUBSET I \subseteq Good
    BY <1>3, <1>4, AllSubsets
  <2> QED BY <2>1
<1> QED BY <1>2, <1>5

\* A set has as many members as there are ones to add up.
LEMMA CountIsSum ==
    ASSUME NEW S, IsFiniteSet(S), NEW one, \A x \in S : one[x] = 1, NEW T \in SUBSET S
    PROVE  Cardinality(T) = SumOver(one, T)
<1> DEFINE Good == {U \in SUBSET S : Cardinality(U) = SumOver(one, U)}
<1>1. {} \in Good
  BY SumEmpty, FS_EmptySet
<1>2. ASSUME NEW U \in SUBSET S, NEW x \in S, U \in Good, x \notin U
      PROVE  U \cup {x} \in Good
  <2>1. IsFiniteSet(U)
    BY FS_Subset
  <2>2. Cardinality(U \cup {x}) = Cardinality(U) + 1
    BY <1>2, <2>1, FS_AddElement
  <2>3. SumOver(one, U \cup {x}) = SumOver(one, U) + one[x]
    <3>1. IsFiniteSet(U) /\ x \notin U /\ \A y \in U \cup {x} : one[y] \in Int
      BY <1>2, <2>1
    <3> QED BY ONLY <3>1, SumMore
  <2> QED BY <1>2, <2>2, <2>3
<1>3. T \in Good
  <2> HIDE DEF Good
  <2>1. SUBSET S \subseteq Good
    BY <1>1, <1>2, AllSubsets
  <2> QED BY <2>1
<1> QED BY <1>3

-----------------------------------------------------------------------------
(* Sums that change.                                                       *)

LEMMA SumOfZeros ==
    ASSUME NEW S, IsFiniteSet(S), NEW f, \A x \in S : f[x] = 0
    PROVE  SumOver(f, S) = 0
<1> DEFINE Good == {T \in SUBSET S : SumOver(f, T) = 0}
<1>1. {} \in Good
  BY SumEmpty
<1>2. ASSUME NEW T \in SUBSET S, NEW x \in S, T \in Good, x \notin T
      PROVE  T \cup {x} \in Good
  <2>1. IsFiniteSet(T) /\ x \notin T /\ \A y \in T \cup {x} : f[y] \in Int
    BY <1>2, FS_Subset
  <2>2. SumOver(f, T \cup {x}) = SumOver(f, T) + f[x]
    BY ONLY <2>1, SumMore
  <2> QED BY <1>2, <2>2
<1>3. S \in Good
  <2> HIDE DEF Good
  <2>1. SUBSET S \subseteq Good
    BY <1>1, <1>2, AllSubsets
  <2> QED BY <2>1
<1> QED BY <1>3

\* What the function has for other members does not matter if it is zero.
LEMMA SumOfSupport ==
    ASSUME NEW S, IsFiniteSet(S), NEW f, \A x \in S : f[x] \in Nat, NEW R \in SUBSET S,
           \A x \in S \ R : f[x] = 0
    PROVE  SumOver(f, R) = SumOver(f, S)
<1>1. PICK Q \in SUBSET S : Q = S \ R
  OBVIOUS
<1>2. SumOver(f, Q) = 0
  <2>1. IsFiniteSet(Q) /\ \A x \in Q : f[x] = 0
    BY <1>1, FS_Subset
  <2> QED BY ONLY <2>1, SumOfZeros
<1>3. R \cup Q = S /\ R \cap Q = {}
  BY <1>1
<1>4. SumOver(f, R \cup Q) = SumOver(f, R) + SumOver(f, Q)
  BY <1>3, SumOfApart
<1>5. SumOver(f, R) \in Nat
  BY SumOfPart
<1>6. SumOver(f, R \cup Q) = SumOver(f, R)
  BY <1>2, <1>4, <1>5
<1> QED BY <1>3, <1>6

\* As many values as members, or fewer.
LEMMA ImageOf ==
    ASSUME NEW S, IsFiniteSet(S), NEW f
    PROVE  /\ IsFiniteSet({f[x] : x \in S})
           /\ Cardinality({f[x] : x \in S}) <= Cardinality(S)
<1>1. PICK T : T = {f[x] : x \in S}
  OBVIOUS
<1>2. PICK g : g = [x \in S |-> f[x]]
  OBVIOUS
<1>3. g \in Surjection(S, T)
  BY <1>1, <1>2 DEF Surjection
<1> QED BY <1>1, <1>3, FS_Surjection

\* Two functions that differ at one member.
LEMMA SumChanged ==
    ASSUME NEW S, IsFiniteSet(S), NEW f, NEW g, NEW y \in S,
           \A x \in S : f[x] \in Int /\ g[x] \in Int,
           \A x \in S \ {y} : f[x] = g[x]
    PROVE  SumOver(g, S) = SumOver(f, S) + (g[y] - f[y])
<1>1. PICK R : R = S \ {y}
  OBVIOUS
<1>2. SumOver(f, S) = f[y] + SumOver(f, R) /\ SumOver(g, S) = g[y] + SumOver(g, R)
  BY <1>1, SumTake
<1>3. IsFiniteSet(R) /\ \A x \in R : f[x] \in Int /\ f[x] = g[x]
  BY <1>1, FS_Subset
<1>4. SumOver(f, R) = SumOver(g, R) /\ SumOver(f, R) \in Int
  BY ONLY <1>3, SumSame, SumInt
<1>5. f[y] \in Int /\ g[y] \in Int
  OBVIOUS
<1> QED BY <1>2, <1>4, <1>5

\* One number changes, or none.
LEMMA SumsChange ==
    ASSUME NEW S, IsFiniteSet(S), NEW f, NEW g, \A x \in S : f[x] \in Int /\ g[x] \in Int
    PROVE  /\ (\A x \in S : f[x] = g[x]) => SumOver(g, S) = SumOver(f, S) + 0
           /\ \A y \in S : (\A x \in S \ {y} : f[x] = g[x]) =>
                 SumOver(g, S) = SumOver(f, S) + (g[y] - f[y])
<1>1. ASSUME \A x \in S : f[x] = g[x] PROVE SumOver(g, S) = SumOver(f, S) + 0
  <2>1. SumOver(f, S) = SumOver(g, S)
    BY <1>1, SumSame
  <2>2. SumOver(f, S) \in Int
    BY SumInt
  <2> QED BY <2>1, <2>2
<1>2. ASSUME NEW y \in S, \A x \in S \ {y} : f[x] = g[x]
      PROVE  SumOver(g, S) = SumOver(f, S) + (g[y] - f[y])
  BY <1>2, SumChanged
<1> QED BY <1>1, <1>2

-----------------------------------------------------------------------------
(* Sums of integers, which may be negative.                                *)

LEMMA SumOne == ASSUME NEW f, NEW x, f[x] \in Int PROVE SumOver(f, {x}) = f[x]
<1>1. IsFiniteSet({}) /\ x \notin {} /\ \A y \in {} \cup {x} : f[y] \in Int
  BY FS_EmptySet
<1>2. SumOver(f, {} \cup {x}) = SumOver(f, {}) + f[x]
  BY ONLY <1>1, SumMore
<1>3. {} \cup {x} = {x} /\ SumOver(f, {}) = 0
  BY SumEmpty
<1> QED BY <1>2, <1>3

LEMMA SumOfApartInts ==
    ASSUME NEW S, IsFiniteSet(S), NEW f, \A x \in S : f[x] \in Int,
           NEW A \in SUBSET S, NEW B \in SUBSET S, A \cap B = {}
    PROVE  SumOver(f, A \cup B) = SumOver(f, A) + SumOver(f, B)
<1> DEFINE Good == {T \in SUBSET S :
                      A \cap T = {} => SumOver(f, A \cup T) = SumOver(f, A) + SumOver(f, T)}
<1>1. \A T \in SUBSET S : IsFiniteSet(T) /\ SumOver(f, T) \in Int
  <2>1. ASSUME NEW T \in SUBSET S PROVE IsFiniteSet(T) /\ \A x \in T : f[x] \in Int
    BY FS_Subset
  <2> QED BY <2>1, SumInt
<1>2. {} \in Good
  <2>1. A \cup {} = A /\ SumOver(f, {}) = 0
    BY SumEmpty
  <2> QED BY <1>1, <2>1
<1>3. ASSUME NEW T \in SUBSET S, NEW x \in S, T \in Good, x \notin T
      PROVE  T \cup {x} \in Good
  <2> SUFFICES ASSUME A \cap (T \cup {x}) = {}
               PROVE  SumOver(f, A \cup (T \cup {x})) = SumOver(f, A) + SumOver(f, T \cup {x})
    OBVIOUS
  <2>1. SumOver(f, T \cup {x}) = SumOver(f, T) + f[x]
    <3>1. IsFiniteSet(T) /\ x \notin T /\ \A y \in T \cup {x} : f[y] \in Int
      BY <1>1, <1>3
    <3> QED BY ONLY <3>1, SumMore
  <2>2. PICK U \in SUBSET S : U = A \cup T
    OBVIOUS
  <2>3. SumOver(f, U) = SumOver(f, A) + SumOver(f, T)
    BY <1>3, <2>2
  <2>4. A \cup (T \cup {x}) = U \cup {x} /\ x \notin U
    BY <1>3, <2>2
  <2>5. SumOver(f, U \cup {x}) = SumOver(f, U) + f[x]
    <3>1. IsFiniteSet(U) /\ x \notin U /\ \A y \in U \cup {x} : f[y] \in Int
      BY <1>1, <2>4
    <3> QED BY ONLY <3>1, SumMore
  <2>6. SumOver(f, A) \in Int /\ SumOver(f, T) \in Int /\ f[x] \in Int
    BY <1>1
  <2>7. SumOver(f, U \cup {x}) = SumOver(f, A) + SumOver(f, T \cup {x})
    BY <2>1, <2>3, <2>5, <2>6
  <2> QED BY <2>4, <2>7
<1>4. B \in Good
  <2> HIDE DEF Good
  <2>1. SUBSET S \subseteq Good
    BY <1>2, <1>3, AllSubsets
  <2> QED BY <2>1
<1> QED BY <1>4

\* The parts of a set no two of which share a member.
LEMMA SumOfPartition ==
    ASSUME NEW I, IsFiniteSet(I), NEW S, IsFiniteSet(S), NEW f, \A x \in S : f[x] \in Int,
           NEW part, \A i \in I : part[i] \in SUBSET S,
           NEW whole, \A i \in I : whole[i] = SumOver(f, part[i]),
           \A i, j \in I : i # j => part[i] \cap part[j] = {},
           \A x \in S : \E i \in I : x \in part[i]
    PROVE  SumOver(whole, I) = SumOver(f, S)
<1> DEFINE Covered(J) == UNION {part[i] : i \in J}
           Good == {J \in SUBSET I : SumOver(f, Covered(J)) = SumOver(whole, J)}
<1>1. \A T \in SUBSET S : IsFiniteSet(T) /\ SumOver(f, T) \in Int
  <2>1. ASSUME NEW T \in SUBSET S PROVE IsFiniteSet(T) /\ \A x \in T : f[x] \in Int
    BY FS_Subset
  <2> QED BY <2>1, SumInt
<1>2. {} \in Good
  <2>1. Covered({}) = {}
    OBVIOUS
  <2>2. SumOver(f, {}) = 0 /\ SumOver(whole, {}) = 0
    BY SumEmpty
  <2> HIDE DEF Covered
  <2> QED BY <2>1, <2>2
<1>3. ASSUME NEW J \in SUBSET I, NEW i \in I, J \in Good, i \notin J
      PROVE  J \cup {i} \in Good
  <2>a. Covered(J) \in SUBSET S /\ part[i] \in SUBSET S
    OBVIOUS
  <2>1. PICK C \in SUBSET S, P \in SUBSET S : C = Covered(J) /\ P = part[i]
    BY <2>a
  <2>2. SumOver(whole, J \cup {i}) = SumOver(whole, J) + whole[i]
    <3>1. IsFiniteSet(J) /\ i \notin J /\ \A j \in J \cup {i} : whole[j] \in Int
      BY <1>1, <1>3, FS_Subset
    <3> QED BY ONLY <3>1, SumMore
  <2>3. Covered(J \cup {i}) = C \cup P
    BY <2>1
  <2>4. C \cap P = {}
    BY <1>3, <2>1
  <2>5. SumOver(f, C \cup P) = SumOver(f, C) + SumOver(f, P)
    BY <2>4, SumOfApartInts
  <2>6. SumOver(f, C) = SumOver(whole, J)
    BY <1>3, <2>1
  <2>7. whole[i] = SumOver(f, P)
    BY <2>1
  <2> HIDE DEF Covered
  <2> QED BY <2>2, <2>3, <2>5, <2>6, <2>7
<1>4. I \in Good
  <2> HIDE DEF Good
  <2>1. SUBSET I \subseteq Good
    BY <1>2, <1>3, AllSubsets
  <2> QED BY <2>1
<1>5. Covered(I) = S
  OBVIOUS
<1> HIDE DEF Covered
<1> QED BY <1>4, <1>5

LEMMA SumTimes ==
    ASSUME NEW S, IsFiniteSet(S), NEW f, NEW g, NEW c \in Int,
           \A x \in S : f[x] \in Int /\ g[x] = c * f[x]
    PROVE  SumOver(g, S) = c * SumOver(f, S)
<1> DEFINE Good == {T \in SUBSET S : SumOver(g, T) = c * SumOver(f, T)}
<1>1. {} \in Good
  <2>1. SumOver(f, {}) = 0 /\ SumOver(g, {}) = 0 /\ c * 0 = 0
    BY SumEmpty
  <2> QED BY <2>1
<1>2. ASSUME NEW T \in SUBSET S, NEW x \in S, T \in Good, x \notin T
      PROVE  T \cup {x} \in Good
  <2>1. IsFiniteSet(T) /\ x \notin T /\ \A y \in T \cup {x} : f[y] \in Int
    BY <1>2, FS_Subset
  <2>2. \A y \in T \cup {x} : g[y] \in Int
    OBVIOUS
  <2>3. SumOver(f, T \cup {x}) = SumOver(f, T) + f[x] /\ SumOver(f, T) \in Int
    BY ONLY <2>1, SumMore, SumInt
  <2>4. SumOver(g, T \cup {x}) = SumOver(g, T) + g[x]
    BY ONLY <2>1, <2>2, SumMore
  <2>5. c * (SumOver(f, T) + f[x]) = c * SumOver(f, T) + c * f[x]
    BY <2>1, <2>3
  <2> QED BY <1>2, <2>3, <2>4, <2>5
<1>3. S \in Good
  <2> HIDE DEF Good
  <2>1. SUBSET S \subseteq Good
    BY <1>1, <1>2, AllSubsets
  <2> QED BY <2>1
<1> QED BY <1>3

\* Terms that are close, so often as there are any.
LEMMA SumClose ==
    ASSUME NEW S, IsFiniteSet(S), NEW f, NEW g, NEW c \in Int,
           \A x \in S : f[x] \in Int /\ g[x] \in Int /\ f[x] <= g[x] + c
    PROVE  SumOver(f, S) <= SumOver(g, S) + c * Cardinality(S)
<1> DEFINE Good == {T \in SUBSET S : SumOver(f, T) <= SumOver(g, T) + c * Cardinality(T)}
<1>1. {} \in Good
  <2>1. SumOver(f, {}) = 0 /\ SumOver(g, {}) = 0 /\ c * 0 = 0 /\ Cardinality({}) = 0
    BY SumEmpty, FS_EmptySet
  <2> QED BY <2>1
<1>2. ASSUME NEW T \in SUBSET S, NEW x \in S, T \in Good, x \notin T
      PROVE  T \cup {x} \in Good
  <2>1. IsFiniteSet(T) /\ x \notin T /\ \A y \in T \cup {x} : f[y] \in Int
    BY <1>2, FS_Subset
  <2>2. \A y \in T \cup {x} : g[y] \in Int
    OBVIOUS
  <2>3. SumOver(f, T \cup {x}) = SumOver(f, T) + f[x] /\ SumOver(f, T) \in Int
    BY ONLY <2>1, SumMore, SumInt
  <2>4. SumOver(g, T \cup {x}) = SumOver(g, T) + g[x] /\ SumOver(g, T) \in Int
    BY ONLY <2>1, <2>2, SumMore, SumInt
  <2>5. PICK n \in Nat : n = Cardinality(T)
    BY <2>1, FS_CardinalityType
  <2>6. Cardinality(T \cup {x}) = n + 1
    BY <1>2, <2>1, <2>5, FS_AddElement
  <2>7. c * (n + 1) = c * n + c
    OBVIOUS
  <2>8. PICK z \in Int : z = c * n
    OBVIOUS
  <2>9. SumOver(f, T) <= SumOver(g, T) + z /\ f[x] <= g[x] + c
    BY <1>2, <2>5, <2>8
  <2>10. SumOver(f, T \cup {x}) <= SumOver(g, T \cup {x}) + (z + c)
    BY <2>3, <2>4, <2>9
  <2> QED BY <2>6, <2>7, <2>8, <2>10
<1>3. S \in Good
  <2> HIDE DEF Good
  <2>1. SUBSET S \subseteq Good
    BY <1>1, <1>2, AllSubsets
  <2> QED BY <2>1
<1> QED BY <1>3
=============================================================================

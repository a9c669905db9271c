-------------------------------- MODULE Sums --------------------------------
(***************************************************************************)
(* Sums and counts over finite sets, for the proofs of this project.       *)
(*                                                                         *)
(* The models add up charges, costs and hits with the library's            *)
(* SumFunctionOnSet, which is defined by recursion over the subsets of a   *)
(* set.  What it computes needs an induction, and the library's induction  *)
(* theorems take a predicate as a parameter, which no prover here can      *)
(* instantiate.  A SET of numbers does as well as a predicate: if          *)
(* SetInduction failed, taking one from the numbers that are missing from  *)
(* the set would map them one to one into fewer, against the pigeonhole    *)
(* theorem.                                                                *)
(***************************************************************************)
EXTENDS Integers, FiniteSets, Functions, FiniteSetTheorems, TLAPS

\* A set that has 0, and the successor of each of its numbers, has all of Nat.
LEMMA SetInduction ==
    ASSUME NEW S, 0 \in S, \A n \in Nat : n \in S => n + 1 \in S
    PROVE  \A n \in Nat : n \in S
<1> SUFFICES ASSUME NEW m \in Nat, m \notin S PROVE FALSE
  OBVIOUS
<1> DEFINE T == {n \in 0..m : n \notin S}
<1>1. IsFiniteSet(T)
  <2>1. IsFiniteSet(0..m) /\ T \in SUBSET (0..m)
    BY FS_Interval
  <2> QED
    BY <2>1, FS_Subset
<1>2. m \in T
  OBVIOUS
<1>3. IsFiniteSet(T \ {m}) /\ Cardinality(T \ {m}) = Cardinality(T) - 1 /\ Cardinality(T) \in Nat
  BY <1>1, <1>2, FS_RemoveElement, FS_CardinalityType
<1> DEFINE f == [n \in T |-> n - 1]
<1>4. f \in [T -> T \ {m}]
  <2> SUFFICES ASSUME NEW n \in T PROVE n - 1 \in T \ {m}
    OBVIOUS
  <2>1. n \in 0..m /\ n \notin S /\ n # 0
    OBVIOUS
  <2>2. n - 1 \in Nat /\ (n - 1) + 1 = n /\ n - 1 \in 0..m /\ n - 1 # m
    BY <2>1
  <2> QED
    BY <2>1, <2>2
<1>5. \E x, y \in T : x # y /\ f[x] = f[y]
  <2> HIDE DEF f, T
  <2> QED
    BY <1>1, <1>3, <1>4, FS_PigeonHole
<1> QED
  BY <1>5

\* A set of sets that has {}, and stays the same family when an element of S is
\* put into one of its members, has every subset of the finite set S.
LEMMA SubsetInduction ==
    ASSUME NEW S, IsFiniteSet(S), NEW P, {} \in P,
           \A T \in SUBSET S : \A x \in S \ T : T \in P => T \cup {x} \in P
    PROVE  \A T \in SUBSET S : T \in P
<1> DEFINE N == {n \in Nat : \A T \in SUBSET S : Cardinality(T) = n => T \in P}
<1>0. \A T \in SUBSET S : IsFiniteSet(T) /\ Cardinality(T) \in Nat
  BY FS_Subset, FS_CardinalityType
<1>1. 0 \in N
  BY <1>0, FS_EmptySet
<1>2. ASSUME NEW n \in Nat, n \in N PROVE n + 1 \in N
  <2> SUFFICES ASSUME NEW T \in SUBSET S, Cardinality(T) = n + 1 PROVE T \in P
    OBVIOUS
  <2>1. PICK x : x \in T
    <3>1. T # {}
      <4>1. T = {} => Cardinality(T) = 0
        BY FS_EmptySet
      <4> QED
        BY <4>1
    <3> QED
      BY <3>1
  <2>2. Cardinality(T \ {x}) = n /\ T \ {x} \in SUBSET S
    <3>1. Cardinality(T \ {x}) = Cardinality(T) - 1
      BY <1>0, <2>1, FS_RemoveElement
    <3> QED
      BY <3>1
  <2>3. T \ {x} \in P /\ x \in S \ (T \ {x}) /\ (T \ {x}) \cup {x} = T
    BY <1>2, <2>1, <2>2
  <2> QED
    BY <2>2, <2>3
<1>3. \A n \in Nat : n \in N
  <2> HIDE DEF N
  <2> QED
    BY <1>1, <1>2, SetInduction
<1> QED
  BY <1>0, <1>3

-----------------------------------------------------------------------------
\* The element that the library's fold takes from a set.
One(s) == CHOOSE x \in s : TRUE

\* The equation that a sum of w over the subsets of S fulfils.
Adds(f, w, S) ==
    f = [s \in SUBSET S |-> IF s = {} THEN 0 ELSE w[One(s)] + f[s \ {One(s)}]]

\* One picks an element.
LEMMA OneOf == \A s : s # {} => One(s) \in s
BY DEF One

\* The equation has a solution: one that is right for sets of at most n elements
\* gives one for n + 1.
LEMMA SumExists ==
    ASSUME NEW S, IsFiniteSet(S), NEW w, \A x \in S : w[x] \in Int
    PROVE  \E f \in [SUBSET S -> Int] : Adds(f, w, S)
<1> DEFINE Good(f, n) == \A s \in SUBSET S : Cardinality(s) <= n =>
                             f[s] = IF s = {} THEN 0 ELSE w[One(s)] + f[s \ {One(s)}]
           N == {n \in Nat : \E f \in [SUBSET S -> Int] : Good(f, n)}
<1>0. \A T \in SUBSET S : IsFiniteSet(T) /\ Cardinality(T) \in Nat
  BY FS_Subset, FS_CardinalityType
<1>1. 0 \in N
  <2> DEFINE f == [s \in SUBSET S |-> 0]
  <2>1. f \in [SUBSET S -> Int] /\ Good(f, 0)
    BY <1>0, FS_EmptySet
  <2> QED
    BY <2>1
<1>2. ASSUME NEW n \in Nat, n \in N PROVE n + 1 \in N
  <2>1. PICK f \in [SUBSET S -> Int] : Good(f, n)
    BY <1>2
  <2> DEFINE g == [s \in SUBSET S |-> IF s = {} THEN 0 ELSE w[One(s)] + f[s \ {One(s)}]]
  <2>2. g \in [SUBSET S -> Int]
    BY OneOf
  <2>3. ASSUME NEW s \in SUBSET S, Cardinality(s) <= n + 1, s # {}
        PROVE  f[s \ {One(s)}] = g[s \ {One(s)}]
    <3>1. One(s) \in s /\ s \ {One(s)} \in SUBSET S
      BY <2>3, OneOf
    <3>2. Cardinality(s \ {One(s)}) = Cardinality(s) - 1
      BY <1>0, <3>1, FS_RemoveElement
    <3>3. Cardinality(s \ {One(s)}) <= n
      BY <1>0, <2>3, <3>2
    <3> QED
      BY <2>1, <3>1, <3>3
  <2>4. Good(g, n + 1)
    <3> SUFFICES ASSUME NEW s \in SUBSET S, Cardinality(s) <= n + 1
                 PROVE  g[s] = IF s = {} THEN 0 ELSE w[One(s)] + g[s \ {One(s)}]
      OBVIOUS
    <3>1. g[s] = IF s = {} THEN 0 ELSE w[One(s)] + f[s \ {One(s)}]
      OBVIOUS
    <3> QED
      BY <2>3, <3>1
  <2> HIDE DEF g, Good
  <2> QED
    BY <2>2, <2>4
<1>3. \A n \in Nat : n \in N
  <2> HIDE DEF N
  <2> QED
    BY <1>1, <1>2, SetInduction
<1>4. PICK f \in [SUBSET S -> Int] : Good(f, Cardinality(S))
  BY <1>0, <1>3
<1>5. \A s \in SUBSET S : Cardinality(s) <= Cardinality(S)
  BY FS_Subset
<1>6. Adds(f, w, S)
  BY <1>4, <1>5 DEF Adds
<1> QED
  BY <1>6

\* There is no other, also when only a part of S is looked at.
LEMMA SumUnique ==
    ASSUME NEW S, IsFiniteSet(S), NEW T \in SUBSET S, NEW w, NEW f, NEW g,
           Adds(f, w, S), Adds(g, w, T)
    PROVE  \A s \in SUBSET T : f[s] = g[s]
<1> DEFINE N == {n \in Nat : \A s \in SUBSET T : Cardinality(s) = n => f[s] = g[s]}
<1>0. \A s \in SUBSET T : IsFiniteSet(s) /\ Cardinality(s) \in Nat
  BY FS_Subset, FS_CardinalityType
<1>1. 0 \in N
  BY <1>0, FS_EmptySet DEF Adds
<1>2. ASSUME NEW n \in Nat, n \in N PROVE n + 1 \in N
  <2> SUFFICES ASSUME NEW s \in SUBSET T, Cardinality(s) = n + 1 PROVE f[s] = g[s]
    OBVIOUS
  <2>1. s # {} /\ One(s) \in s /\ s \ {One(s)} \in SUBSET T
    BY FS_EmptySet, OneOf
  <2>2. Cardinality(s \ {One(s)}) = n
    <3>1. Cardinality(s \ {One(s)}) = Cardinality(s) - 1
      BY <1>0, <2>1, FS_RemoveElement
    <3> QED
      BY <3>1
  <2>3. f[s \ {One(s)}] = g[s \ {One(s)}]
    BY <1>2, <2>1, <2>2
  <2>4. f[s] = w[One(s)] + f[s \ {One(s)}] /\ g[s] = w[One(s)] + g[s \ {One(s)}]
    BY <2>1 DEF Adds
  <2> QED
    BY <2>3, <2>4
<1>3. \A n \in Nat : n \in N
  <2> HIDE DEF N
  <2> QED
    BY <1>1, <1>2, SetInduction
<1> QED
  BY <1>0, <1>3

\* The library's sum is the value of a solution.
LEMMA SumIs ==
    ASSUME NEW S, IsFiniteSet(S), NEW w, \A x \in S : w[x] \in Int
    PROVE  \E f \in [SUBSET S -> Int] : Adds(f, w, S) /\ SumFunctionOnSet(w, S) = f[S]
<1>1. SumFunctionOnSet(w, S) = (CHOOSE f : Adds(f, w, S))[S]
  BY DEF SumFunctionOnSet, FoldFunctionOnSet, MapThenFoldSet, Adds, One
<1>2. PICK f \in [SUBSET S -> Int] : Adds(f, w, S)
  BY SumExists
<1> DEFINE g == CHOOSE h : Adds(h, w, S)
<1>3. Adds(g, w, S)
  BY <1>2
<1>4. g \in [SUBSET S -> Int]
  <2>1. \A s \in SUBSET S : g[s] = f[s]
    <3> HIDE DEF g
    <3> QED
    BY <1>2, <1>3, SumUnique
  <2>2. g = [s \in SUBSET S |-> IF s = {} THEN 0 ELSE w[One(s)] + g[s \ {One(s)}]]
    BY <1>3 DEF Adds
  <2> QED
    BY <2>1, <2>2
<1> QED
  BY <1>1, <1>3, <1>4
-----------------------------------------------------------------------------
\* Nothing adds up to 0.
LEMMA SumEmpty == \A w : SumFunctionOnSet(w, {}) = 0
<1> SUFFICES ASSUME NEW w PROVE SumFunctionOnSet(w, {}) = 0
  OBVIOUS
<1>1. PICK f \in [SUBSET {} -> Int] : Adds(f, w, {}) /\ SumFunctionOnSet(w, {}) = f[{}]
  BY FS_EmptySet, SumIs
<1> QED
  BY <1>1 DEF Adds

\* The element that the definition takes first.
LEMMA SumOne ==
    ASSUME NEW S, IsFiniteSet(S), S # {}, NEW w, \A x \in S : w[x] \in Int
    PROVE  SumFunctionOnSet(w, S) = w[One(S)] + SumFunctionOnSet(w, S \ {One(S)})
<1> DEFINE T == S \ {One(S)}
<1>1. PICK f \in [SUBSET S -> Int] : Adds(f, w, S) /\ SumFunctionOnSet(w, S) = f[S]
  BY SumIs
<1>2. T \in SUBSET S /\ IsFiniteSet(T)
  BY FS_RemoveElement
<1>3. PICK g \in [SUBSET T -> Int] : Adds(g, w, T) /\ SumFunctionOnSet(w, T) = g[T]
  <2> HIDE DEF T
  <2> QED
    BY <1>2, SumIs
<1>4. \A s \in SUBSET T : f[s] = g[s]
  <2> HIDE DEF T
  <2> QED
    BY <1>1, <1>2, <1>3, SumUnique
<1>5. f[S] = w[One(S)] + f[T]
  BY <1>1 DEF Adds
<1> QED
  BY <1>1, <1>3, <1>4, <1>5

\* A sum of integers is an integer.
LEMMA SumType ==
    ASSUME NEW S, IsFiniteSet(S), NEW w, \A x \in S : w[x] \in Int
    PROVE  SumFunctionOnSet(w, S) \in Int
<1>1. PICK f \in [SUBSET S -> Int] : Adds(f, w, S) /\ SumFunctionOnSet(w, S) = f[S]
  BY SumIs
<1>2. S \in SUBSET S
  OBVIOUS
<1> QED
  BY <1>1, <1>2

\* Any element may be taken first: the order does not matter.
LEMMA SumRemove ==
    ASSUME NEW S, IsFiniteSet(S), NEW w, \A x \in S : w[x] \in Int, NEW x \in S
    PROVE  SumFunctionOnSet(w, S) = w[x] + SumFunctionOnSet(w, S \ {x})
<1> DEFINE N == {n \in Nat : \A T \in SUBSET S : Cardinality(T) = n =>
                    \A y \in T : SumFunctionOnSet(w, T) = w[y] + SumFunctionOnSet(w, T \ {y})}
<1>0. \A T \in SUBSET S : IsFiniteSet(T) /\ Cardinality(T) \in Nat
  BY FS_Subset, FS_CardinalityType
<1>1. 0 \in N
  BY <1>0, FS_EmptySet
<1>2. ASSUME NEW n \in Nat, n \in N PROVE n + 1 \in N
  <2> SUFFICES ASSUME NEW T \in SUBSET S, Cardinality(T) = n + 1, NEW y \in T
               PROVE  SumFunctionOnSet(w, T) = w[y] + SumFunctionOnSet(w, T \ {y})
    OBVIOUS
  <2> DEFINE z == One(T)
  <2>1. z \in T /\ SumFunctionOnSet(w, T) = w[z] + SumFunctionOnSet(w, T \ {z})
    BY <1>0, OneOf, SumOne
  <2> HIDE DEF z
  <2>2. ASSUME y # z PROVE SumFunctionOnSet(w, T) = w[y] + SumFunctionOnSet(w, T \ {y})
    <3>1. Cardinality(T \ {z}) = n /\ Cardinality(T \ {y}) = n
      <4>1. Cardinality(T \ {z}) = Cardinality(T) - 1 /\ Cardinality(T \ {y}) = Cardinality(T) - 1
        BY <1>0, <2>1, FS_RemoveElement
      <4> QED
        BY <4>1
    <3>2. /\ SumFunctionOnSet(w, T \ {z}) = w[y] + SumFunctionOnSet(w, (T \ {z}) \ {y})
          /\ SumFunctionOnSet(w, T \ {y}) = w[z] + SumFunctionOnSet(w, (T \ {y}) \ {z})
      BY <1>2, <2>1, <2>2, <3>1
    <3>3. (T \ {z}) \ {y} = (T \ {y}) \ {z} /\ IsFiniteSet((T \ {y}) \ {z})
      BY <1>0
    <3>4. SumFunctionOnSet(w, (T \ {y}) \ {z}) \in Int /\ w[y] \in Int /\ w[z] \in Int
      BY <2>1, <3>3, SumType
    <3>5. w[z] + (w[y] + SumFunctionOnSet(w, (T \ {y}) \ {z})) = w[y] + (w[z] + SumFunctionOnSet(w, (T \ {y}) \ {z}))
      BY <3>4
    <3> QED
      BY <2>1, <3>2, <3>3, <3>5
  <2> QED
    BY <2>1, <2>2
<1>3. \A n \in Nat : n \in N
  <2> HIDE DEF N
  <2> QED
    BY <1>1, <1>2, SetInduction
<1> QED
  BY <1>0, <1>3

\* An element that is new adds its weight.
LEMMA SumAdd ==
    ASSUME NEW S, IsFiniteSet(S), NEW x, x \notin S, NEW w, \A y \in S \cup {x} : w[y] \in Int
    PROVE  SumFunctionOnSet(w, S \cup {x}) = w[x] + SumFunctionOnSet(w, S)
<1>1. IsFiniteSet(S \cup {x}) /\ (S \cup {x}) \ {x} = S
  BY FS_AddElement
<1> DEFINE T == S \cup {x}
<1>2. SumFunctionOnSet(w, T) = w[x] + SumFunctionOnSet(w, T \ {x})
  <2>1. x \in T
    OBVIOUS
  <2> HIDE DEF T
  <2> QED
    BY <1>1, <2>1, SumRemove DEF T
<1> QED
  BY <1>1, <1>2

\* Larger weights have no smaller sum.
LEMMA SumMonotone ==
    ASSUME NEW S, IsFiniteSet(S), NEW v, NEW w,
           \A x \in S : v[x] \in Int /\ w[x] \in Int /\ v[x] <= w[x]
    PROVE  SumFunctionOnSet(v, S) <= SumFunctionOnSet(w, S)
<1> DEFINE P == {T \in SUBSET S : SumFunctionOnSet(v, T) <= SumFunctionOnSet(w, T)}
<1>1. {} \in P
  BY SumEmpty
<1>2. ASSUME NEW T \in SUBSET S, NEW x \in S \ T, T \in P PROVE T \cup {x} \in P
  <2>1. IsFiniteSet(T)
    BY FS_Subset
  <2>2. SumFunctionOnSet(v, T \cup {x}) = v[x] + SumFunctionOnSet(v, T) /\ SumFunctionOnSet(w, T \cup {x}) = w[x] + SumFunctionOnSet(w, T)
    BY <2>1, SumAdd
  <2>3. SumFunctionOnSet(v, T) \in Int /\ SumFunctionOnSet(w, T) \in Int
    BY <2>1, SumType
  <2> QED
    BY <1>2, <2>2, <2>3
<1>3. \A T \in SUBSET S : T \in P
  <2> HIDE DEF P
  <2> QED
    BY <1>1, <1>2, SubsetInduction
<1> QED
  BY <1>3

\* The sum is a matter of the weights on the set alone.
LEMMA SumSame ==
    ASSUME NEW S, IsFiniteSet(S), NEW v, NEW w,
           \A x \in S : v[x] \in Int /\ w[x] = v[x]
    PROVE  SumFunctionOnSet(v, S) = SumFunctionOnSet(w, S)
<1>1. SumFunctionOnSet(v, S) <= SumFunctionOnSet(w, S) /\ SumFunctionOnSet(w, S) <= SumFunctionOnSet(v, S)
  BY SumMonotone
<1> QED
  BY <1>1, SumType

\* A sum of naturals is a natural.
LEMMA SumNat ==
    ASSUME NEW S, IsFiniteSet(S), NEW w, \A x \in S : w[x] \in Nat
    PROVE  SumFunctionOnSet(w, S) \in Nat
<1> DEFINE z == [x \in S |-> 0]
           P == {T \in SUBSET S : SumFunctionOnSet(z, T) = 0}
<1>1. {} \in P
  BY SumEmpty
<1>2. ASSUME NEW T \in SUBSET S, NEW x \in S \ T, T \in P PROVE T \cup {x} \in P
  <2>1. IsFiniteSet(T)
    BY FS_Subset
  <2>2. SumFunctionOnSet(z, T \cup {x}) = z[x] + SumFunctionOnSet(z, T)
    BY <2>1, SumAdd
  <2> QED
    BY <1>2, <2>2
<1>3. \A T \in SUBSET S : T \in P
  <2> HIDE DEF P
  <2> QED
    BY <1>1, <1>2, SubsetInduction
<1>4. SumFunctionOnSet(z, S) = 0 /\ SumFunctionOnSet(z, S) <= SumFunctionOnSet(w, S)
  BY <1>3, SumMonotone
<1> QED
  BY <1>4, SumType

\* When one weight changes, the sum changes by as much.
LEMMA SumUpdate ==
    ASSUME NEW S, IsFiniteSet(S), NEW v, NEW w, NEW x \in S,
           \A y \in S : v[y] \in Int /\ w[y] \in Int,
           \A y \in S \ {x} : w[y] = v[y]
    PROVE  SumFunctionOnSet(w, S) = SumFunctionOnSet(v, S) + w[x] - v[x]
<1>1. IsFiniteSet(S \ {x})
  BY FS_RemoveElement
<1>2. SumFunctionOnSet(v, S \ {x}) = SumFunctionOnSet(w, S \ {x}) /\ SumFunctionOnSet(v, S \ {x}) \in Int
  BY <1>1, SumSame, SumType
<1>3. SumFunctionOnSet(v, S) = v[x] + SumFunctionOnSet(v, S \ {x}) /\ SumFunctionOnSet(w, S) = w[x] + SumFunctionOnSet(w, S \ {x})
  BY SumRemove
<1> QED
  BY <1>2, <1>3
-----------------------------------------------------------------------------
\* Two sets that differ at most in x differ by at most one in size.
LEMMA CountStep ==
    ASSUME NEW S, IsFiniteSet(S), NEW A \in SUBSET S, NEW B \in SUBSET S, NEW x, A \ {x} = B \ {x}
    PROVE  /\ Cardinality(A) \in Nat /\ Cardinality(B) \in Nat
           /\ x \in A /\ x \notin B => Cardinality(B) = Cardinality(A) - 1
           /\ x \notin A /\ x \in B => Cardinality(B) = Cardinality(A) + 1
           /\ (x \in A <=> x \in B) => Cardinality(B) = Cardinality(A)
<1>1. IsFiniteSet(A) /\ IsFiniteSet(B) /\ Cardinality(A) \in Nat /\ Cardinality(B) \in Nat
  BY FS_Subset, FS_CardinalityType
<1>2. ASSUME x \in A, x \notin B PROVE Cardinality(B) = Cardinality(A) - 1
  <2>1. B = A \ {x}
    BY <1>2
  <2> QED
    BY <1>1, <1>2, <2>1, FS_RemoveElement
<1>3. ASSUME x \notin A, x \in B PROVE Cardinality(B) = Cardinality(A) + 1
  <2>1. B = A \cup {x}
    BY <1>3
  <2> QED
    BY <1>1, <1>3, <2>1, FS_AddElement
<1>4. ASSUME x \in A <=> x \in B PROVE A = B
  BY <1>4
<1> QED
  BY <1>1, <1>2, <1>3, <1>4

\* A sum of zeros and ones counts the ones.
LEMMA SumBits ==
    ASSUME NEW S, IsFiniteSet(S), NEW w, \A x \in S : w[x] \in {0, 1}
    PROVE  SumFunctionOnSet(w, S) = Cardinality({x \in S : w[x] = 1})
<1> DEFINE Ones(T) == {x \in T : w[x] = 1}
           P == {T \in SUBSET S : SumFunctionOnSet(w, T) = Cardinality(Ones(T))}
<1>1. {} \in P
  <2>1. Ones({}) = {}
    OBVIOUS
  <2> QED
    BY <2>1, SumEmpty, FS_EmptySet
<1>2. ASSUME NEW T \in SUBSET S, NEW x \in S \ T, T \in P PROVE T \cup {x} \in P
  <2>1. IsFiniteSet(T)
    BY FS_Subset
  <2>2. SumFunctionOnSet(w, T \cup {x}) = w[x] + SumFunctionOnSet(w, T)
    BY <2>1, SumAdd
  <2>3. SumFunctionOnSet(w, T) = Cardinality(Ones(T))
    BY <1>2
  <2>4. SumFunctionOnSet(w, T \cup {x}) = Cardinality(Ones(T \cup {x})) => T \cup {x} \in P
    OBVIOUS
  <2>5. CASE w[x] = 1
    <3>1. Ones(T \cup {x}) = Ones(T) \cup {x} /\ x \notin Ones(T) /\ Ones(T) \in SUBSET S
      BY <2>5
    <3>2. Cardinality(Ones(T) \cup {x}) = Cardinality(Ones(T)) + 1 /\ Cardinality(Ones(T)) \in Nat
      BY <3>1, FS_Subset, FS_AddElement, FS_CardinalityType
    <3>3. Cardinality(Ones(T \cup {x})) = Cardinality(Ones(T)) + 1
      BY <3>1, <3>2
    <3> HIDE DEF Ones, P
    <3> QED
      BY <2>2, <2>3, <2>4, <2>5, <3>2, <3>3
  <2>6. CASE w[x] = 0
    <3>1. Ones(T \cup {x}) = Ones(T) /\ Ones(T) \in SUBSET S
      BY <2>6
    <3>2. Cardinality(Ones(T)) \in Nat
      BY <3>1, FS_Subset, FS_CardinalityType
    <3> HIDE DEF Ones, P
    <3> QED
      BY <2>2, <2>3, <2>4, <2>6, <3>1, <3>2
  <2> QED
    BY <2>5, <2>6
<1>3. \A T \in SUBSET S : T \in P
  <2> HIDE DEF P
  <2> QED
    BY <1>1, <1>2, SubsetInduction
<1> QED
  BY <1>3
=============================================================================

-------------------------------- MODULE Sums --------------------------------
(***************************************************************************)
(* The sum of a function over a finite set, as SumFunctionOnSet computes   *)
(* it: what the money invariants of the wallet, the payments and the bar   *)
(* need to know of the aggregates (aggregate({_sum}) in Prisma, reduce in  *)
(* the services) when one row is added, changed or removed.                *)
(*                                                                         *)
(* Each fact is proved by taking a smallest subset on which it would fail: *)
(* the strict subsets of a finite set are well founded.                    *)
(***************************************************************************)
EXTENDS Integers, FiniteSets, Functions, FiniteSetTheorems, TLAPS

\* the element that the fold adds first
Some(s) == CHOOSE x \in s : TRUE

\* g holds the partial sums of f over the subsets of S
PartialSums(f, S, g) ==
    g = [s \in SUBSET S |-> IF s = {} THEN 0 ELSE f[Some(s)] + g[s \ {Some(s)}]]

LEMMA SumUnfold ==
    ASSUME NEW f, NEW S
    PROVE  SumFunctionOnSet(f, S) = (CHOOSE g : PartialSums(f, S, g))[S]
BY DEF SumFunctionOnSet, FoldFunctionOnSet, MapThenFoldSet, Some, PartialSums

\* A non-empty collection of subsets of a finite set has a smallest one.
LEMMA Smallest ==
    ASSUME NEW S, IsFiniteSet(S), NEW T, T \subseteq SUBSET S, T # {}
    PROVE  \E m \in T : \A y \in T : y \subseteq m => y = m
<1>1. T \subseteq FiniteSubsetsOf(S)
  BY FS_Subset DEF FiniteSubsetsOf
<1>2. \E x \in T : \A y \in T : ~ (<<y, x>> \in StrictSubsetOrdering(S))
  BY <1>1, FS_StrictSubsetOrderingWellFounded, WFMin
<1>3. QED
  BY <1>2 DEF StrictSubsetOrdering

LEMMA PartialSumsAgree ==
    ASSUME NEW f, NEW A, IsFiniteSet(A), NEW B, NEW g, NEW h,
           PartialSums(f, A, g), PartialSums(f, B, h)
    PROVE  \A s \in SUBSET (A \cap B) : g[s] = h[s]
<1> DEFINE T == {s \in SUBSET (A \cap B) : g[s] # h[s]}
<1>1. SUFFICES ASSUME T # {} PROVE FALSE
  OBVIOUS
<1>2. PICK m \in T : \A y \in T : y \subseteq m => y = m
  <2>1. T \subseteq SUBSET A  OBVIOUS
  <2> HIDE DEF T
  <2>2. QED  BY <1>1, <2>1, Smallest
<1>3. m \in SUBSET A /\ m \in SUBSET B
  OBVIOUS
<1>4. m # {}
  BY <1>3 DEF PartialSums
<1>5. Some(m) \in m
  BY <1>4 DEF Some
<1>6. g[m \ {Some(m)}] = h[m \ {Some(m)}]
  BY <1>2, <1>3, <1>5
<1>7. /\ g[m] = f[Some(m)] + g[m \ {Some(m)}]
      /\ h[m] = f[Some(m)] + h[m \ {Some(m)}]
  BY <1>3, <1>4 DEF PartialSums
<1>8. QED
  BY <1>6, <1>7

LEMMA PartialSumsExist ==
    ASSUME NEW f, NEW S, IsFiniteSet(S)
    PROVE  \E g : PartialSums(f, S, g)
<1> DEFINE T == {X \in SUBSET S : ~ \E g : PartialSums(f, X, g)}
<1>1. SUFFICES ASSUME T # {} PROVE FALSE
  OBVIOUS
<1>2. PICK m \in T : \A y \in T : y \subseteq m => y = m
  <2>1. T \subseteq SUBSET S  OBVIOUS
  <2> HIDE DEF T
  <2>2. QED  BY <1>1, <2>1, Smallest
<1> DEFINE G(X) == CHOOSE g : PartialSums(f, X, g)
           rest(X) == X \ {Some(X)}
           h == [s \in SUBSET m |->
                   IF s = {} THEN 0
                   ELSE IF s = m THEN f[Some(m)] + G(rest(m))[rest(m)]
                   ELSE G(s)[s]]
<1>3. \A X \in SUBSET m : X # m => PartialSums(f, X, G(X)) /\ IsFiniteSet(X)
  BY <1>2, FS_Subset
<1>4. \A X \in SUBSET m : X # {} => Some(X) \in X
  BY DEF Some
<1> HIDE DEF G
<1>5. ASSUME NEW s \in SUBSET m
      PROVE  h[s] = IF s = {} THEN 0 ELSE f[Some(s)] + h[rest(s)]
  <2>1. CASE s = {}
    BY <2>1
  <2>2. CASE s # {} /\ s = m
    <3>1. rest(m) \in SUBSET m /\ rest(m) # m
      BY <1>4, <2>2
    <3>2. h[rest(m)] = G(rest(m))[rest(m)]
      <4>1. CASE rest(m) = {}
        <5>1. PartialSums(f, rest(m), G(rest(m)))  BY <3>1, <1>3
        <5>2. G(rest(m))[rest(m)] = 0  BY <4>1, <5>1 DEF PartialSums
        <5>3. QED  BY <4>1, <5>2
      <4>2. CASE rest(m) # {}
        BY <4>2, <3>1
      <4>3. QED  BY <4>1, <4>2
    <3>3. QED  BY <2>2, <3>2
  <2>3. CASE s # {} /\ s # m
    <3>1. rest(s) \in SUBSET s /\ rest(s) \in SUBSET m /\ rest(s) # m
      BY <1>4, <2>3
    <3>2. PartialSums(f, s, G(s)) /\ IsFiniteSet(s) /\ PartialSums(f, rest(s), G(rest(s)))
      BY <1>3, <2>3, <3>1
    <3>3. G(s)[rest(s)] = G(rest(s))[rest(s)]
      <4>1. rest(s) \in SUBSET (s \cap rest(s))  BY <3>1
      <4>2. QED  BY <4>1, <3>2, PartialSumsAgree
    <3>4. G(s)[s] = f[Some(s)] + G(s)[rest(s)]
      BY <3>2, <2>3 DEF PartialSums
    <3>5. h[rest(s)] = G(rest(s))[rest(s)]
      <4>1. CASE rest(s) = {}
        BY <4>1, <3>1, <3>2 DEF PartialSums
      <4>2. CASE rest(s) # {}
        BY <4>2, <3>1
      <4>3. QED  BY <4>1, <4>2
    <3>6. QED  BY <2>3, <3>3, <3>4, <3>5
  <2>4. QED  BY <2>1, <2>2, <2>3
<1>6. PartialSums(f, m, h)
  <2> DEFINE k == [s \in SUBSET m |-> IF s = {} THEN 0 ELSE f[Some(s)] + h[rest(s)]]
  <2>1. h = k
    <3>1. \A s \in SUBSET m : h[s] = k[s]  BY <1>5
    <3> DEFINE h0 == h
    <3>2. h = [s \in SUBSET m |-> h[s]]  OBVIOUS
    <3> HIDE DEF h
    <3>3. k = [s \in SUBSET m |-> k[s]]  OBVIOUS
    <3>4. QED  BY <3>1, <3>2, <3>3
  <2> HIDE DEF h
  <2>2. QED  BY <2>1 DEF PartialSums
<1>7. QED
  BY <1>2, <1>6

-----------------------------------------------------------------------------
LEMMA SumEmpty == ASSUME NEW f PROVE SumFunctionOnSet(f, {}) = 0
<1> DEFINE g == CHOOSE g : PartialSums(f, {}, g)
<1>1. PartialSums(f, {}, g)
  BY PartialSumsExist, FS_EmptySet
<1> HIDE DEF g
<1>2. g[{}] = 0
  BY <1>1 DEF PartialSums
<1>3. QED
  BY <1>2, SumUnfold DEF g

\* the equation of the fold
LEMMA SumStep ==
    ASSUME NEW f, NEW S, IsFiniteSet(S), S # {}
    PROVE  SumFunctionOnSet(f, S) = f[Some(S)] + SumFunctionOnSet(f, S \ {Some(S)})
<1> DEFINE R == S \ {Some(S)}
           g == CHOOSE g : PartialSums(f, S, g)
           h == CHOOSE h : PartialSums(f, R, h)
<1>1. IsFiniteSet(R)
  BY FS_RemoveElement
<1>2. PartialSums(f, S, g)
  BY PartialSumsExist
<1>3. PartialSums(f, R, h)
  <2> HIDE DEF R
  <2>1. QED  BY <1>1, PartialSumsExist
<1>4. SumFunctionOnSet(f, S) = g[S] /\ SumFunctionOnSet(f, R) = h[R]
  <2> HIDE DEF R
  <2>1. QED  BY SumUnfold
<1> HIDE DEF g, h
<1>5. R \in SUBSET (S \cap R)
  OBVIOUS
<1>6. g[R] = h[R]
  <2> HIDE DEF R
  <2>1. QED  BY <1>1, <1>2, <1>3, <1>5, PartialSumsAgree
<1>7. g[S] = f[Some(S)] + g[R]
  BY <1>2 DEF PartialSums
<1>8. QED
  BY <1>4, <1>6, <1>7

LEMMA SumInt ==
    ASSUME NEW f, NEW S, IsFiniteSet(S), \A x \in S : f[x] \in Int
    PROVE  SumFunctionOnSet(f, S) \in Int
<1> DEFINE T == {X \in SUBSET S : SumFunctionOnSet(f, X) \notin Int}
<1>1. SUFFICES ASSUME T # {} PROVE FALSE
  OBVIOUS
<1>2. PICK m \in T : \A y \in T : y \subseteq m => y = m
  <2>1. T \subseteq SUBSET S  OBVIOUS
  <2> HIDE DEF T
  <2>2. QED  BY <1>1, <2>1, Smallest
<1>3. m # {}
  BY <1>2, SumEmpty
<1>4. Some(m) \in m
  BY <1>3 DEF Some
<1>5. SumFunctionOnSet(f, m \ {Some(m)}) \in Int
  BY <1>2, <1>4
<1>6. SumFunctionOnSet(f, m) = f[Some(m)] + SumFunctionOnSet(f, m \ {Some(m)})
  BY <1>2, <1>3, SumStep, FS_Subset
<1>7. QED
  BY <1>2, <1>4, <1>5, <1>6

\* Any element may be taken out first.
LEMMA SumRemove ==
    ASSUME NEW f, NEW S, IsFiniteSet(S), \A y \in S : f[y] \in Int, NEW x \in S
    PROVE  SumFunctionOnSet(f, S) = f[x] + SumFunctionOnSet(f, S \ {x})
<1> DEFINE Fails(X, y) == SumFunctionOnSet(f, X) # f[y] + SumFunctionOnSet(f, X \ {y})
           T == {X \in SUBSET S : \E y \in X : Fails(X, y)}
<1>1. SUFFICES ASSUME T # {} PROVE FALSE
  OBVIOUS
<1>2. PICK m \in T : \A y \in T : y \subseteq m => y = m
  <2>1. T \subseteq SUBSET S  OBVIOUS
  <2> HIDE DEF T
  <2>2. QED  BY <1>1, <2>1, Smallest
<1>3. PICK y \in m : Fails(m, y)
  BY <1>2
<1> DEFINE c == Some(m)
<1>4. c \in m /\ m \in SUBSET S
  BY <1>2, <1>3 DEF Some
<1>5. IsFiniteSet(m) /\ m # {}
  BY <1>4, FS_Subset
<1>6. SumFunctionOnSet(f, m) = f[c] + SumFunctionOnSet(f, m \ {c})
  BY <1>5, SumStep
<1>7. c # y
  BY <1>3, <1>6
<1> HIDE DEF c
<1>8. /\ m \ {c} \notin T /\ m \ {c} \in SUBSET S /\ y \in m \ {c}
      /\ m \ {y} \notin T /\ m \ {y} \in SUBSET S /\ c \in m \ {y}
  <2> HIDE DEF T
  <2>1. QED  BY <1>2, <1>3, <1>4, <1>7
<1>9. /\ SumFunctionOnSet(f, m \ {c}) = f[y] + SumFunctionOnSet(f, (m \ {c}) \ {y})
      /\ SumFunctionOnSet(f, m \ {y}) = f[c] + SumFunctionOnSet(f, (m \ {y}) \ {c})
  BY <1>8
<1>10. (m \ {c}) \ {y} = (m \ {y}) \ {c}
  OBVIOUS
<1>11. SumFunctionOnSet(f, (m \ {c}) \ {y}) \in Int
  <2>1. IsFiniteSet((m \ {c}) \ {y}) /\ \A z \in (m \ {c}) \ {y} : f[z] \in Int
    BY <1>4, <1>5, FS_Subset
  <2>2. QED  BY <2>1, SumInt
<1>12. f[c] \in Int /\ f[y] \in Int
  BY <1>3, <1>4
<1>13. QED
  BY <1>3, <1>6, <1>9, <1>10, <1>11, <1>12

\* One more row.
LEMMA SumAdd ==
    ASSUME NEW f, NEW S, IsFiniteSet(S), NEW x, x \notin S,
           \A y \in S \cup {x} : f[y] \in Int
    PROVE  SumFunctionOnSet(f, S \cup {x}) = f[x] + SumFunctionOnSet(f, S)
<1>1. IsFiniteSet(S \cup {x}) /\ x \in S \cup {x} /\ (S \cup {x}) \ {x} = S
  BY FS_AddElement
<1>2. QED
  BY <1>1, SumRemove

\* The sum depends on the values at the elements of the set only.
LEMMA SumSame ==
    ASSUME NEW f, NEW g, NEW S, IsFiniteSet(S), \A x \in S : f[x] = g[x]
    PROVE  SumFunctionOnSet(f, S) = SumFunctionOnSet(g, S)
<1> DEFINE T == {X \in SUBSET S : SumFunctionOnSet(f, X) # SumFunctionOnSet(g, X)}
<1>1. SUFFICES ASSUME T # {} PROVE FALSE
  OBVIOUS
<1>2. PICK m \in T : \A y \in T : y \subseteq m => y = m
  <2>1. T \subseteq SUBSET S  OBVIOUS
  <2> HIDE DEF T
  <2>2. QED  BY <1>1, <2>1, Smallest
<1>3. m # {}
  BY <1>2, SumEmpty
<1>4. Some(m) \in m
  BY <1>3 DEF Some
<1>5. SumFunctionOnSet(f, m \ {Some(m)}) = SumFunctionOnSet(g, m \ {Some(m)})
  BY <1>2, <1>4
<1>6. /\ SumFunctionOnSet(f, m) = f[Some(m)] + SumFunctionOnSet(f, m \ {Some(m)})
      /\ SumFunctionOnSet(g, m) = g[Some(m)] + SumFunctionOnSet(g, m \ {Some(m)})
  BY <1>2, <1>3, SumStep, FS_Subset
<1>7. QED
  BY <1>2, <1>4, <1>5, <1>6

\* One row changes: the sum changes by as much.
LEMMA SumChange ==
    ASSUME NEW f, NEW g, NEW S, IsFiniteSet(S), NEW x \in S,
           \A y \in S : f[y] \in Int /\ g[y] \in Int,
           \A y \in S \ {x} : g[y] = f[y]
    PROVE  SumFunctionOnSet(g, S) = SumFunctionOnSet(f, S) - f[x] + g[x]
<1>1. IsFiniteSet(S \ {x})
  BY FS_RemoveElement
<1>2. SumFunctionOnSet(g, S \ {x}) = SumFunctionOnSet(f, S \ {x})
  BY <1>1, SumSame
<1>3. SumFunctionOnSet(f, S \ {x}) \in Int
  BY <1>1, SumInt
<1>4. /\ SumFunctionOnSet(f, S) = f[x] + SumFunctionOnSet(f, S \ {x})
      /\ SumFunctionOnSet(g, S) = g[x] + SumFunctionOnSet(g, S \ {x})
  BY SumRemove
<1>5. f[x] \in Int /\ g[x] \in Int
  OBVIOUS
<1>6. QED
  BY <1>2, <1>3, <1>4, <1>5

LEMMA SumMonotonic ==
    ASSUME NEW f, NEW g, NEW S, IsFiniteSet(S),
           \A x \in S : f[x] \in Int /\ g[x] \in Int /\ f[x] <= g[x]
    PROVE  SumFunctionOnSet(f, S) <= SumFunctionOnSet(g, S)
<1> DEFINE T == {X \in SUBSET S : ~ (SumFunctionOnSet(f, X) <= SumFunctionOnSet(g, X))}
<1>1. SUFFICES ASSUME T # {} PROVE FALSE
  OBVIOUS
<1>2. PICK m \in T : \A y \in T : y \subseteq m => y = m
  <2>1. T \subseteq SUBSET S  OBVIOUS
  <2> HIDE DEF T
  <2>2. QED  BY <1>1, <2>1, Smallest
<1>3. m # {}
  <2>1. SumFunctionOnSet(f, {}) = 0 /\ SumFunctionOnSet(g, {}) = 0  BY SumEmpty
  <2>2. SumFunctionOnSet(f, {}) <= SumFunctionOnSet(g, {})
    <3>1. 0 <= 0  OBVIOUS
    <3>2. QED  BY <2>1, <3>1, Zenon
  <2>3. ~ (SumFunctionOnSet(f, m) <= SumFunctionOnSet(g, m))  BY <1>2
  <2>4. QED  BY <2>2, <2>3, Zenon
<1>4. Some(m) \in m
  BY <1>3 DEF Some
<1>5. SumFunctionOnSet(f, m \ {Some(m)}) <= SumFunctionOnSet(g, m \ {Some(m)})
  BY <1>2, <1>4
<1>6. /\ SumFunctionOnSet(f, m) = f[Some(m)] + SumFunctionOnSet(f, m \ {Some(m)})
      /\ SumFunctionOnSet(g, m) = g[Some(m)] + SumFunctionOnSet(g, m \ {Some(m)})
  BY <1>2, <1>3, SumStep, FS_Subset
<1>7. /\ SumFunctionOnSet(f, m \ {Some(m)}) \in Int
      /\ SumFunctionOnSet(g, m \ {Some(m)}) \in Int
  <2>1. /\ IsFiniteSet(m \ {Some(m)})
        /\ \A x \in m \ {Some(m)} : f[x] \in Int /\ g[x] \in Int
    BY <1>2, FS_Subset
  <2>2. QED  BY <2>1, SumInt
<1>8. f[Some(m)] \in Int /\ g[Some(m)] \in Int /\ f[Some(m)] <= g[Some(m)]
  BY <1>2, <1>4
<1>9. QED
  BY <1>2, <1>5, <1>6, <1>7, <1>8

LEMMA SumZero ==
    ASSUME NEW f, NEW S, IsFiniteSet(S), \A x \in S : f[x] = 0
    PROVE  SumFunctionOnSet(f, S) = 0
<1> DEFINE T == {X \in SUBSET S : SumFunctionOnSet(f, X) # 0}
<1>1. SUFFICES ASSUME T # {} PROVE FALSE
  OBVIOUS
<1>2. PICK m \in T : \A y \in T : y \subseteq m => y = m
  <2>1. T \subseteq SUBSET S  OBVIOUS
  <2> HIDE DEF T
  <2>2. QED  BY <1>1, <2>1, Smallest
<1>3. m # {}
  BY <1>2, SumEmpty
<1>4. Some(m) \in m
  BY <1>3 DEF Some
<1>5. SumFunctionOnSet(f, m \ {Some(m)}) = 0
  BY <1>2, <1>4
<1>6. SumFunctionOnSet(f, m) = f[Some(m)] + SumFunctionOnSet(f, m \ {Some(m)})
  BY <1>2, <1>3, SumStep, FS_Subset
<1>7. QED
  BY <1>2, <1>4, <1>5, <1>6

LEMMA SumNat ==
    ASSUME NEW f, NEW S, IsFiniteSet(S), \A x \in S : f[x] \in Nat
    PROVE  SumFunctionOnSet(f, S) \in Nat
<1> DEFINE z == [x \in S |-> 0]
<1>1. SumFunctionOnSet(z, S) = 0
  BY SumZero
<1>2. SumFunctionOnSet(z, S) <= SumFunctionOnSet(f, S)
  BY SumMonotonic
<1>3. SumFunctionOnSet(f, S) \in Int
  BY SumInt
<1>4. QED
  BY <1>1, <1>2, <1>3

\* No row exceeds the sum of rows that are not negative.
LEMMA SumBounds ==
    ASSUME NEW f, NEW S, IsFiniteSet(S), \A y \in S : f[y] \in Nat, NEW x \in S
    PROVE  f[x] <= SumFunctionOnSet(f, S)
<1>1. IsFiniteSet(S \ {x})
  BY FS_RemoveElement
<1>2. SumFunctionOnSet(f, S \ {x}) \in Nat
  BY <1>1, SumNat
<1>3. SumFunctionOnSet(f, S) = f[x] + SumFunctionOnSet(f, S \ {x})
  BY SumRemove
<1>4. QED
  BY <1>2, <1>3

\* Sums over disjoint sets of rows add up to the sum over both.
LEMMA SumUnion ==
    ASSUME NEW f, NEW S, IsFiniteSet(S), NEW A, A \subseteq S,
           \A x \in S : f[x] \in Int
    PROVE  SumFunctionOnSet(f, S) = SumFunctionOnSet(f, A) + SumFunctionOnSet(f, S \ A)
<1> DEFINE Splits(X) == SumFunctionOnSet(f, S)
                          = SumFunctionOnSet(f, X) + SumFunctionOnSet(f, S \ X)
           T == {X \in SUBSET S : ~Splits(X)}
<1>1. SUFFICES ASSUME T # {} PROVE FALSE
  OBVIOUS
<1>2. PICK m \in T : \A y \in T : y \subseteq m => y = m
  <2>1. T \subseteq SUBSET S  OBVIOUS
  <2> HIDE DEF T
  <2>2. QED  BY <1>1, <2>1, Smallest
<1>3. \A X \in SUBSET S : IsFiniteSet(X) /\ SumFunctionOnSet(f, X) \in Int
  <2>1. ASSUME NEW X \in SUBSET S
        PROVE  IsFiniteSet(X) /\ \A x \in X : f[x] \in Int
    BY FS_Subset
  <2>2. QED  BY <2>1, SumInt
<1>4. m # {}
  <2>1. S \ {} = S  OBVIOUS
  <2>2. Splits({})  BY <2>1, <1>3, SumEmpty
  <2>3. QED  BY <1>2, <2>2
<1>5. PICK x \in m : TRUE
  BY <1>4
<1> DEFINE r == m \ {x}
<1>6. r \in SUBSET S /\ m \in SUBSET S /\ S \ m \in SUBSET S /\ Splits(r)
  BY <1>2, <1>5
<1>7. SumFunctionOnSet(f, m) = f[x] + SumFunctionOnSet(f, r)
  BY <1>3, <1>5, <1>6, SumRemove
<1>8. SumFunctionOnSet(f, S \ r) = f[x] + SumFunctionOnSet(f, S \ m)
  <2>1. S \ r = (S \ m) \cup {x} /\ x \notin S \ m /\ x \in S
    BY <1>2, <1>5
  <2>2. QED  BY <1>3, <1>6, <2>1, SumAdd
<1>9. f[x] \in Int
  BY <1>5, <1>6
<1> HIDE DEF r
<1>10. Splits(m)
  BY <1>3, <1>6, <1>7, <1>8, <1>9
<1>11. QED
  BY <1>2, <1>10

\* Rows that hold nothing do not count.
LEMMA SumWithin ==
    ASSUME NEW f, NEW S, IsFiniteSet(S), NEW A, A \subseteq S,
           \A x \in S : f[x] \in Int, \A x \in S \ A : f[x] = 0
    PROVE  SumFunctionOnSet(f, S) = SumFunctionOnSet(f, A)
<1>1. IsFiniteSet(S \ A) /\ IsFiniteSet(A)  BY FS_Subset
<1>2. SumFunctionOnSet(f, S \ A) = 0  BY <1>1, SumZero
<1>3. SumFunctionOnSet(f, S) = SumFunctionOnSet(f, A) + SumFunctionOnSet(f, S \ A)  BY SumUnion
<1>4. SumFunctionOnSet(f, A) \in Int  BY <1>1, SumInt
<1> QED  BY <1>2, <1>3, <1>4

\* Two columns of the same rows.
LEMMA SumPlus ==
    ASSUME NEW f, NEW g, NEW h, NEW S, IsFiniteSet(S),
           \A x \in S : f[x] \in Int /\ g[x] \in Int /\ h[x] = f[x] + g[x]
    PROVE  SumFunctionOnSet(h, S) = SumFunctionOnSet(f, S) + SumFunctionOnSet(g, S)
<1> DEFINE Holds(X) == SumFunctionOnSet(h, X) = SumFunctionOnSet(f, X) + SumFunctionOnSet(g, X)
           T == {X \in SUBSET S : ~Holds(X)}
<1>1. SUFFICES ASSUME T # {} PROVE FALSE
  OBVIOUS
<1>2. PICK m \in T : \A y \in T : y \subseteq m => y = m
  <2>1. T \subseteq SUBSET S  OBVIOUS
  <2> HIDE DEF T
  <2>2. QED  BY <1>1, <2>1, Smallest
<1>3. m \in SUBSET S /\ ~Holds(m)  OBVIOUS
<1>4. IsFiniteSet(m)  BY <1>3, FS_Subset
<1>5. m # {}
  <2>1. Holds({})  BY SumEmpty
  <2> HIDE DEF Holds
  <2> QED  BY <1>3, <2>1
<1>6. PICK x : x \in m  BY <1>5
<1>7. Holds(m \ {x})
  <2>1. m \ {x} \in SUBSET S /\ m \ {x} # m /\ m \ {x} \subseteq m  BY <1>3, <1>6
  <2>2. m \ {x} \notin T  BY <1>2, <2>1
  <2> HIDE DEF Holds
  <2> QED  BY <2>1, <2>2
<1>8. /\ SumFunctionOnSet(f, m) = f[x] + SumFunctionOnSet(f, m \ {x})
      /\ SumFunctionOnSet(g, m) = g[x] + SumFunctionOnSet(g, m \ {x})
      /\ SumFunctionOnSet(h, m) = h[x] + SumFunctionOnSet(h, m \ {x})
  <2>1. \A y \in m : f[y] \in Int /\ g[y] \in Int /\ h[y] \in Int  BY <1>3
  <2> HIDE DEF T, Holds
  <2> QED  BY <1>4, <1>6, <2>1, SumRemove
<1>9. /\ SumFunctionOnSet(f, m \ {x}) \in Int /\ SumFunctionOnSet(g, m \ {x}) \in Int
  <2>1. IsFiniteSet(m \ {x})  BY <1>4, FS_RemoveElement
  <2>2. \A y \in m \ {x} : f[y] \in Int /\ g[y] \in Int  BY <1>3
  <2> HIDE DEF T, Holds
  <2> QED  BY <2>1, <2>2, SumInt
<1>10. f[x] \in Int /\ g[x] \in Int /\ h[x] = f[x] + g[x]  BY <1>3, <1>6
<1>11. Holds(m)  BY <1>7, <1>8, <1>9, <1>10
<1> HIDE DEF Holds
<1> QED  BY <1>3, <1>11

\* n parts of d cents, the first r of them one cent larger.
LEMMA SumParts ==
    ASSUME NEW n \in Nat, NEW d \in Int, NEW r \in 0..n, NEW f,
           \A i \in 1..n : f[i] = d + (IF i <= r THEN 1 ELSE 0)
    PROVE  SumFunctionOnSet(f, 1..n) = n * d + r
<1> DEFINE Holds(k) == SumFunctionOnSet(f, 1..k) = k * d + (IF k <= r THEN k ELSE r)
           T == {X \in SUBSET (1..n) : \E k \in 0..n : X = 1..k /\ ~Holds(k)}
<1>0. IsFiniteSet(1..n)  BY FS_Interval
<1>1. T = {}
  <2> SUFFICES ASSUME T # {} PROVE FALSE  OBVIOUS
  <2>1. PICK m \in T : \A y \in T : y \subseteq m => y = m
    <3>0. PICK D : D = 1..n  OBVIOUS
    <3>1. T \subseteq SUBSET D  BY <3>0
    <3>2. IsFiniteSet(D)  BY <1>0, <3>0
    <3>3. T # {}  OBVIOUS
    <3> HIDE DEF T
    <3> QED  BY <3>1, <3>2, <3>3, Smallest
  <2>2. PICK k \in 0..n : m = 1..k /\ ~Holds(k)  OBVIOUS
  <2>3. k # 0
    <3>1. 1..0 = {}  OBVIOUS
    <3>2. Holds(0)  BY <3>1, SumEmpty
    <3> HIDE DEF Holds
    <3> QED  BY <2>2, <3>2
  <2>4. Holds(k - 1)
    <3>1. k - 1 \in 0..n /\ 1..(k - 1) \in SUBSET (1..n)  BY <2>2, <2>3
    <3>2. 1..(k - 1) \subseteq m /\ 1..(k - 1) # m  BY <2>2, <2>3
    <3>3. 1..(k - 1) \notin T  BY <2>1, <3>2
    <3> HIDE DEF Holds
    <3> QED  BY <3>1, <3>3
  <2>5. SumFunctionOnSet(f, 1..k) = f[k] + SumFunctionOnSet(f, 1..(k - 1))
    <3> PICK A : A = 1..(k - 1)  OBVIOUS
    <3>0. k \in Int /\ k >= 1  BY <2>2, <2>3
    <3> HIDE DEF T, Holds
    <3>a. IsFiniteSet(1..(k - 1))  BY <3>0, FS_Interval
    <3>b. A \cup {k} = 1..k /\ k \notin A  BY <3>0
    <3>1. IsFiniteSet(A) /\ k \notin A /\ A \cup {k} = 1..k  BY <3>a, <3>b
    <3>2. \A y \in A \cup {k} : f[y] \in Int  BY <2>2, <3>0
    <3>3. SumFunctionOnSet(f, A \cup {k}) = f[k] + SumFunctionOnSet(f, A)  BY <3>1, <3>2, SumAdd
    <3> QED  BY <3>1, <3>3
  <2>6. k * d = (k - 1) * d + d  BY <2>2, <2>3
  <2>7. f[k] = d + (IF k <= r THEN 1 ELSE 0)  BY <2>2, <2>3
  <2>8. (k - 1) * d \in Int  BY <2>2, <2>3
  <2>9. Holds(k)
    <3> PICK e : e = (k - 1) * d  OBVIOUS
    <3>1. SumFunctionOnSet(f, 1..(k - 1)) = e + (IF k - 1 <= r THEN k - 1 ELSE r)  BY <2>4
    <3>2. k * d = e + d /\ e \in Int  BY <2>6, <2>8
    <3>3. SumFunctionOnSet(f, 1..k) = e + d + (IF k <= r THEN k ELSE r)
      BY <2>2, <2>3, <2>5, <2>7, <3>1, <3>2
    <3> QED  BY <3>2, <3>3
  <2> HIDE DEF Holds
  <2> QED  BY <2>2, <2>9
<1>2. Holds(n)
  <2>1. n \in 0..n /\ 1..n \in SUBSET (1..n)  OBVIOUS
  <2> HIDE DEF Holds
  <2> QED  BY <1>1, <2>1
<1> QED  BY <1>2
=============================================================================

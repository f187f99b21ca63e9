----------------------------- MODULE SumProofs -----------------------------
(***************************************************************************)
(* Lemmas about SumFunctionOnSet of the community module Functions, which  *)
(* sums by a recursive function over the subsets of a set: that there is   *)
(* such a function for a finite set, and what its sums do when an element  *)
(* is added or taken away or a value changes.  The library's induction     *)
(* rules take a predicate as a parameter; each proof here takes a smallest *)
(* counterexample instead.                                                 *)
(***************************************************************************)
EXTENDS Integers, Functions, FiniteSetTheorems, WellFoundedInduction, TLAPS

Elt(s) == CHOOSE x \in s : TRUE

\* The recursive function that SumFunctionOnSet chooses.
IsSum(g, f, S) == g = [s \in SUBSET S |-> IF s = {} THEN 0 ELSE f[Elt(s)] + g[s \ {Elt(s)}]]
SumOf(f, S) == CHOOSE g : IsSum(g, f, S)

LEMMA SumIs ==
    ASSUME NEW f, NEW S
    PROVE  SumFunctionOnSet(f, S) = SumOf(f, S)[S]
BY DEF SumFunctionOnSet, FoldFunctionOnSet, MapThenFoldSet, SumOf, IsSum, Elt

\* Of subsets of a finite set, one has none of the others below it.
LEMMA Smallest ==
    ASSUME NEW S, IsFiniteSet(S), NEW D, D \subseteq SUBSET S, D # {}
    PROVE  \E m \in D : \A s \in D : ~ (s \subseteq m /\ s # m)
<1>1. FiniteSubsetsOf(S) = SUBSET S
  BY FS_FiniteSubsetsOfFinite
<1>2. IsWellFoundedOn(StrictSubsetOrdering(S), SUBSET S)
  BY <1>1, FS_StrictSubsetOrderingWellFounded
<1>3. PICK m \in D : \A s \in D : ~ (<<s, m>> \in StrictSubsetOrdering(S))
  BY <1>2, WFMin
<1>4. ASSUME NEW s \in D, s \subseteq m, s # m
      PROVE  <<s, m>> \in StrictSubsetOrdering(S)
  BY <1>4 DEF StrictSubsetOrdering
<1>5. \A s \in D : ~ (s \subseteq m /\ s # m)
  BY <1>3, <1>4, Zenon
<1> QED
  BY <1>5, Zenon

LEMMA EltIn ==
    ASSUME NEW s, s # {}
    PROVE  Elt(s) \in s /\ s \ {Elt(s)} # s /\ s \ {Elt(s)} \subseteq s
BY DEF Elt

LEMMA SumAt ==
    ASSUME NEW g, NEW f, NEW S, IsSum(g, f, S), NEW s \in SUBSET S
    PROVE  g[s] = IF s = {} THEN 0 ELSE f[Elt(s)] + g[s \ {Elt(s)}]
BY DEF IsSum

\* Sums over two sets agree where both are defined.
LEMMA SumsAgree ==
    ASSUME NEW f, NEW S, IsFiniteSet(S), NEW T, T \subseteq S,
           NEW g, IsSum(g, f, S), NEW h, IsSum(h, f, T)
    PROVE  \A s \in SUBSET T : g[s] = h[s]
<1> DEFINE D == {s \in SUBSET T : g[s] # h[s]}
<1> SUFFICES ASSUME D # {} PROVE FALSE
  OBVIOUS
<1>1. PICK m \in D : \A s \in D : ~ (s \subseteq m /\ s # m)
  <2>1. D \subseteq SUBSET S
    OBVIOUS
  <2> HIDE DEF D
  <2> QED
    BY <2>1, Smallest
<1>2. m \in SUBSET T /\ m \in SUBSET S /\ g[m] # h[m]
  OBVIOUS
<1>3. m # {}
  BY <1>2, SumAt
<1>4. g[m \ {Elt(m)}] = h[m \ {Elt(m)}]
  BY <1>1, <1>2, <1>3, EltIn
<1>5. g[m] = f[Elt(m)] + g[m \ {Elt(m)}]
  BY <1>2, <1>3, SumAt, Zenon
<1>6. h[m] = f[Elt(m)] + h[m \ {Elt(m)}]
  BY <1>2, <1>3, SumAt, Zenon
<1> QED
  BY <1>2, <1>4, <1>5, <1>6

LEMMA SumExists ==
    ASSUME NEW f, NEW S, IsFiniteSet(S)
    PROVE  IsSum(SumOf(f, S), f, S)
<1> DEFINE D == {s \in SUBSET S : ~ IsSum(SumOf(f, s), f, s)}
<1> SUFFICES ASSUME D # {} PROVE FALSE
  OBVIOUS
<1>1. PICK m \in D : \A s \in D : ~ (s \subseteq m /\ s # m)
  <2>1. D \subseteq SUBSET S
    OBVIOUS
  <2> HIDE DEF D
  <2> QED
    BY <2>1, Smallest
<1>2. m \in SUBSET S /\ ~ IsSum(SumOf(f, m), f, m)
  OBVIOUS
<1>3. \A t \in SUBSET m : t # m => IsFiniteSet(t) /\ IsSum(SumOf(f, t), f, t)
  <2>1. IsFiniteSet(m)
    BY <1>2, FS_Subset
  <2>2. \A t \in SUBSET m : IsFiniteSet(t)
    BY <2>1, FS_Subset
  <2> QED
    BY <1>1, <1>2, <2>2
<1> HIDE DEF D
<1> DEFINE G == [t \in SUBSET m |-> SumOf(f, t)[t]]
           g == [s \in SUBSET m |-> IF s = {} THEN 0 ELSE f[Elt(s)] + G[s \ {Elt(s)}]]
<1>4. ASSUME NEW t \in SUBSET m, t # m
      PROVE  g[t] = G[t]
  <2>1. IsSum(SumOf(f, t), f, t) /\ IsFiniteSet(t)
    BY <1>3, <1>4
  <2>2. CASE t = {}
    <3>1. SumOf(f, t)[t] = 0
      BY <2>1, <2>2, SumAt
    <3> QED
      BY <2>2, <3>1
  <2>3. CASE t # {}
    <3>1. PICK r : r = t \ {Elt(t)}
      OBVIOUS
    <3>2. r \in SUBSET t /\ r \in SUBSET m /\ r # m
      BY <2>3, <3>1, EltIn
    <3>3. IsSum(SumOf(f, r), f, r)
      BY <1>3, <3>2
    <3>4. SumOf(f, t)[r] = SumOf(f, r)[r]
      BY <2>1, <3>2, <3>3, SumsAgree
    <3>5. SumOf(f, t)[t] = f[Elt(t)] + SumOf(f, t)[r]
      BY <2>1, <2>3, <3>1, SumAt
    <3>6. g[t] = f[Elt(t)] + G[r] /\ G[r] = SumOf(f, r)[r] /\ G[t] = SumOf(f, t)[t]
      BY <2>3, <3>1, <3>2
    <3> QED
      BY <3>4, <3>5, <3>6
  <2> QED
    BY <2>2, <2>3
<1>5. IsSum(g, f, m)
  <2>1. ASSUME NEW s \in SUBSET m, s # {}
        PROVE  G[s \ {Elt(s)}] = g[s \ {Elt(s)}]
    <3>1. s \ {Elt(s)} \in SUBSET m /\ s \ {Elt(s)} # m
      BY <2>1, EltIn
    <3> QED
      BY <1>4, <3>1
  <2>2. g = [s \in SUBSET m |-> IF s = {} THEN 0 ELSE f[Elt(s)] + g[s \ {Elt(s)}]]
    <3> HIDE DEF G
    <3>1. \A s \in SUBSET m : g[s] = IF s = {} THEN 0 ELSE f[Elt(s)] + g[s \ {Elt(s)}]
      BY <2>1
    <3> QED
      BY <3>1
  <2> HIDE DEF g
  <2> QED
    BY <2>2 DEF IsSum
<1> HIDE DEF g
<1>6. IsSum(SumOf(f, m), f, m)
  BY <1>5 DEF SumOf
<1> QED
  BY <1>2, <1>6

-----------------------------------------------------------------------------
(* What sums do. *)

LEMMA SumUnfolds ==
    ASSUME NEW f, NEW S, IsFiniteSet(S)
    PROVE  SumFunctionOnSet(f, S) =
                IF S = {} THEN 0 ELSE f[Elt(S)] + SumFunctionOnSet(f, S \ {Elt(S)})
<1>1. IsSum(SumOf(f, S), f, S)
  BY SumExists
<1>2. CASE S = {}
  <2>1. SumOf(f, S)[S] = 0
    BY <1>1, <1>2, SumAt
  <2> QED
    BY <1>2, <2>1, SumIs
<1>3. CASE S # {}
  <2>1. PICK r : r = S \ {Elt(S)}
    OBVIOUS
  <2>2. r \in SUBSET S
    BY <2>1
  <2>3. IsFiniteSet(r)
    BY <2>2, FS_Subset
  <2>4. IsSum(SumOf(f, r), f, r)
    BY <2>3, SumExists
  <2>5. SumOf(f, S)[r] = SumOf(f, r)[r]
    BY <1>1, <2>2, <2>4, SumsAgree
  <2>6. SumOf(f, S)[S] = f[Elt(S)] + SumOf(f, S)[r]
    BY <1>1, <1>3, <2>1, SumAt
  <2> QED
    BY <1>3, <2>1, <2>5, <2>6, SumIs
<1> QED
  BY <1>2, <1>3

\* Any such function sums, not only the one that is chosen.
LEMMA SumIsAny ==
    ASSUME NEW S, IsFiniteSet(S), NEW f, NEW g, IsSum(g, f, S)
    PROVE  g[S] = SumFunctionOnSet(f, S)
<1>1. PICK h : h = SumOf(f, S)
  OBVIOUS
<1>2. IsSum(h, f, S)
  BY <1>1, SumExists
<1>3. g[S] = h[S]
  BY <1>2, SumsAgree
<1> QED
  BY <1>1, <1>3, SumIs

LEMMA SumOfNone ==
    ASSUME NEW f
    PROVE  SumFunctionOnSet(f, {}) = 0
BY SumUnfolds, FS_EmptySet

\* A sum depends on the values at its indices and on nothing else.
LEMMA SumSame ==
    ASSUME NEW S, IsFiniteSet(S), NEW f, NEW g, \A x \in S : f[x] = g[x]
    PROVE  SumFunctionOnSet(f, S) = SumFunctionOnSet(g, S)
<1> DEFINE D == {s \in SUBSET S : SumFunctionOnSet(f, s) # SumFunctionOnSet(g, s)}
<1> SUFFICES ASSUME D # {} PROVE FALSE
  OBVIOUS
<1>1. PICK m \in D : \A s \in D : ~ (s \subseteq m /\ s # m)
  <2>1. D \subseteq SUBSET S
    OBVIOUS
  <2> HIDE DEF D
  <2> QED
    BY <2>1, Smallest
<1>2. m \in SUBSET S /\ SumFunctionOnSet(f, m) # SumFunctionOnSet(g, m)
  OBVIOUS
<1>3. \A s \in SUBSET m : s # m => SumFunctionOnSet(f, s) = SumFunctionOnSet(g, s)
  BY <1>1, <1>2
<1> HIDE DEF D
<1>4. IsFiniteSet(m)
  BY <1>2, FS_Subset
<1>5. m # {}
  BY <1>2, SumOfNone
<1>6. PICK r : r = m \ {Elt(m)}
  OBVIOUS
<1>7. SumFunctionOnSet(f, r) = SumFunctionOnSet(g, r) /\ f[Elt(m)] = g[Elt(m)]
  BY <1>2, <1>3, <1>5, <1>6, EltIn
<1>8. SumFunctionOnSet(f, m) = f[Elt(m)] + SumFunctionOnSet(f, r)
  BY <1>4, <1>5, <1>6, SumUnfolds
<1>9. SumFunctionOnSet(g, m) = g[Elt(m)] + SumFunctionOnSet(g, r)
  BY <1>4, <1>5, <1>6, SumUnfolds
<1> QED
  BY <1>2, <1>7, <1>8, <1>9

LEMMA SumIsInt ==
    ASSUME NEW S, IsFiniteSet(S), NEW f, \A x \in S : f[x] \in Int
    PROVE  SumFunctionOnSet(f, S) \in Int
<1> DEFINE D == {s \in SUBSET S : SumFunctionOnSet(f, s) \notin Int}
<1> SUFFICES ASSUME D # {} PROVE FALSE
  OBVIOUS
<1>1. PICK m \in D : \A s \in D : ~ (s \subseteq m /\ s # m)
  <2>1. D \subseteq SUBSET S
    OBVIOUS
  <2> HIDE DEF D
  <2> QED
    BY <2>1, Smallest
<1>2. m \in SUBSET S /\ SumFunctionOnSet(f, m) \notin Int
  OBVIOUS
<1>3. \A s \in SUBSET m : s # m => SumFunctionOnSet(f, s) \in Int
  BY <1>1, <1>2
<1> HIDE DEF D
<1>4. IsFiniteSet(m)
  BY <1>2, FS_Subset
<1>5. m # {}
  BY <1>2, SumOfNone
<1>6. PICK r : r = m \ {Elt(m)}
  OBVIOUS
<1>7. SumFunctionOnSet(f, r) \in Int /\ f[Elt(m)] \in Int
  BY <1>2, <1>3, <1>5, <1>6, EltIn
<1>8. SumFunctionOnSet(f, m) = f[Elt(m)] + SumFunctionOnSet(f, r)
  BY <1>4, <1>5, <1>6, SumUnfolds
<1> QED
  BY <1>2, <1>7, <1>8

\* Any one element may be summed apart, not only the one that is chosen.
LEMMA SumApart ==
    ASSUME NEW S, IsFiniteSet(S), NEW f, \A x \in S : f[x] \in Int, NEW y \in S
    PROVE  SumFunctionOnSet(f, S) = f[y] + SumFunctionOnSet(f, S \ {y})
<1> DEFINE D == {s \in SUBSET S :
                    \E x \in s : SumFunctionOnSet(f, s) # f[x] + SumFunctionOnSet(f, s \ {x})}
<1> SUFFICES ASSUME D # {} PROVE FALSE
  OBVIOUS
<1>1. PICK m \in D : \A s \in D : ~ (s \subseteq m /\ s # m)
  <2>1. D \subseteq SUBSET S
    OBVIOUS
  <2> HIDE DEF D
  <2> QED
    BY <2>1, Smallest
<1>2. m \in SUBSET S
  OBVIOUS
<1>3. PICK x \in m : SumFunctionOnSet(f, m) # f[x] + SumFunctionOnSet(f, m \ {x})
  OBVIOUS
<1>4. \A s \in SUBSET m : s # m =>
        \A z \in s : SumFunctionOnSet(f, s) = f[z] + SumFunctionOnSet(f, s \ {z})
  BY <1>1, <1>2
<1> HIDE DEF D
<1>5. IsFiniteSet(m)
  BY <1>2, FS_Subset
<1>6. PICK e : e = Elt(m) /\ e \in m
  BY EltIn
<1>7. SumFunctionOnSet(f, m) = f[e] + SumFunctionOnSet(f, m \ {e})
  BY <1>5, <1>6, SumUnfolds
<1>8. x # e
  BY <1>3, <1>7
<1>9. PICK b : b = (m \ {e}) \ {x}
  OBVIOUS
<1>10. (m \ {x}) \ {e} = b
  BY <1>9
<1>11. SumFunctionOnSet(f, m \ {e}) = f[x] + SumFunctionOnSet(f, b)
  BY <1>4, <1>6, <1>8, <1>9
<1>12. SumFunctionOnSet(f, m \ {x}) = f[e] + SumFunctionOnSet(f, b)
  BY <1>4, <1>6, <1>8, <1>10
<1>13. SumFunctionOnSet(f, b) \in Int /\ f[e] \in Int /\ f[x] \in Int
  <2>1. IsFiniteSet(b) /\ \A z \in b : f[z] \in Int
    BY <1>2, <1>5, <1>9, FS_Subset
  <2> QED
    BY <1>2, <1>6, <2>1, SumIsInt
<1> QED
  BY <1>3, <1>7, <1>11, <1>12, <1>13

\* One index more.
LEMMA SumMore ==
    ASSUME NEW S, IsFiniteSet(S), NEW f, NEW y, y \notin S, \A x \in S \cup {y} : f[x] \in Int
    PROVE  SumFunctionOnSet(f, S \cup {y}) = f[y] + SumFunctionOnSet(f, S)
<1>1. PICK R : R = S \cup {y}
  OBVIOUS
<1>2. IsFiniteSet(R) /\ y \in R /\ R \ {y} = S
  BY <1>1, FS_AddElement
<1>3. SumFunctionOnSet(f, R) = f[y] + SumFunctionOnSet(f, R \ {y})
  BY <1>1, <1>2, SumApart
<1> QED
  BY <1>1, <1>2, <1>3

\* More indices, and no values below zero: no less.
LEMMA SumGrows ==
    ASSUME NEW S, IsFiniteSet(S), NEW f, \A x \in S : f[x] \in Nat, NEW T \in SUBSET S
    PROVE  SumFunctionOnSet(f, T) <= SumFunctionOnSet(f, S)
<1> DEFINE D == {s \in SUBSET S :
                    T \subseteq s /\ ~ (SumFunctionOnSet(f, T) <= SumFunctionOnSet(f, s))}
<1> SUFFICES ASSUME D # {} PROVE FALSE
  OBVIOUS
<1>1. PICK m \in D : \A s \in D : ~ (s \subseteq m /\ s # m)
  <2>1. D \subseteq SUBSET S
    OBVIOUS
  <2> HIDE DEF D
  <2> QED
    BY <2>1, Smallest
<1>2. m \in SUBSET S /\ T \subseteq m /\ ~ (SumFunctionOnSet(f, T) <= SumFunctionOnSet(f, m))
  OBVIOUS
<1>3. \A s \in SUBSET m : s # m /\ T \subseteq s =>
        SumFunctionOnSet(f, T) <= SumFunctionOnSet(f, s)
  BY <1>1, <1>2
<1> HIDE DEF D
<1>4. \A s \in SUBSET S : IsFiniteSet(s) /\ SumFunctionOnSet(f, s) \in Int
  <2>1. ASSUME NEW s \in SUBSET S
        PROVE  IsFiniteSet(s) /\ \A x \in s : f[x] \in Int
    BY FS_Subset
  <2> QED
    BY <2>1, SumIsInt
<1>5. m # T
  BY <1>2, <1>4
<1>6. PICK x \in m : x \notin T
  BY <1>2, <1>5
<1>7. PICK r : r = m \ {x}
  OBVIOUS
<1>8. SumFunctionOnSet(f, m) = f[x] + SumFunctionOnSet(f, r)
  <2>1. IsFiniteSet(m) /\ \A z \in m : f[z] \in Int
    BY <1>2, <1>4
  <2> QED
    BY <1>6, <1>7, <2>1, SumApart
<1>9. SumFunctionOnSet(f, T) <= SumFunctionOnSet(f, r)
  BY <1>2, <1>3, <1>6, <1>7
<1>10. /\ SumFunctionOnSet(f, T) \in Int /\ SumFunctionOnSet(f, r) \in Int
       /\ SumFunctionOnSet(f, m) \in Int /\ f[x] \in Nat
  BY <1>2, <1>4, <1>6, <1>7
<1> QED
  BY <1>2, <1>8, <1>9, <1>10

\* What one index is given is what the sum gains, whether the index was there or is new.
LEMMA SumGiven ==
    ASSUME NEW S, IsFiniteSet(S), NEW f, NEW g, NEW y \in S, NEW d \in Int,
           \A x \in S : f[x] \in Int, \A x \in S \ {y} : g[x] = f[x], g[y] = f[y] + d
    PROVE  SumFunctionOnSet(g, S) = SumFunctionOnSet(f, S) + d
<1>1. PICK r : r = S \ {y}
  OBVIOUS
<1>2. IsFiniteSet(r) /\ \A x \in r : f[x] \in Int /\ g[x] = f[x]
  BY <1>1, FS_Subset
<1>3. SumFunctionOnSet(g, r) = SumFunctionOnSet(f, r)
  BY <1>2, SumSame
<1>4. \A x \in S : g[x] \in Int
  BY <1>1, <1>2
<1>5. SumFunctionOnSet(f, S) = f[y] + SumFunctionOnSet(f, r)
  BY <1>1, SumApart
<1>6. SumFunctionOnSet(g, S) = g[y] + SumFunctionOnSet(g, r)
  BY <1>1, <1>4, SumApart
<1>7. SumFunctionOnSet(f, r) \in Int
  BY <1>2, SumIsInt
<1> QED
  BY <1>3, <1>5, <1>6, <1>7

LEMMA SumGivenNew ==
    ASSUME NEW S, IsFiniteSet(S), NEW f, NEW g, NEW y, y \notin S, NEW d \in Int,
           \A x \in S : f[x] \in Int, \A x \in S : g[x] = f[x], g[y] = d
    PROVE  SumFunctionOnSet(g, S \cup {y}) = SumFunctionOnSet(f, S) + d
<1>1. \A x \in S \cup {y} : g[x] \in Int
  OBVIOUS
<1>2. SumFunctionOnSet(g, S \cup {y}) = g[y] + SumFunctionOnSet(g, S)
  BY <1>1, SumMore
<1>3. SumFunctionOnSet(g, S) = SumFunctionOnSet(f, S)
  BY SumSame
<1>4. SumFunctionOnSet(f, S) \in Int
  BY SumIsInt
<1> QED
  BY <1>2, <1>3, <1>4

\* The sizes of sets that have nothing in common add up to the size of them all.
LEMMA SumOfSizes ==
    ASSUME NEW S, IsFiniteSet(S), NEW F, \A x \in S : IsFiniteSet(F[x]),
           \A x, y \in S : x # y => F[x] \cap F[y] = {},
           NEW f, \A x \in S : f[x] = Cardinality(F[x])
    PROVE  SumFunctionOnSet(f, S) = Cardinality(UNION {F[x] : x \in S})
<1> DEFINE All(s) == UNION {F[x] : x \in s}
           D == {s \in SUBSET S : SumFunctionOnSet(f, s) # Cardinality(All(s))}
<1> SUFFICES ASSUME D # {} PROVE FALSE
  OBVIOUS
<1>1. PICK m \in D : \A s \in D : ~ (s \subseteq m /\ s # m)
  <2>1. D \subseteq SUBSET S
    OBVIOUS
  <2> HIDE DEF D
  <2> QED
    BY <2>1, Smallest
<1>2. m \in SUBSET S /\ SumFunctionOnSet(f, m) # Cardinality(All(m))
  OBVIOUS
<1>3. \A s \in SUBSET m : s # m => SumFunctionOnSet(f, s) = Cardinality(All(s))
  BY <1>1, <1>2
<1> HIDE DEF D
<1>4. IsFiniteSet(m)
  BY <1>2, FS_Subset
<1>5. m # {}
  <2>1. All({}) = {}
    OBVIOUS
  <2> QED BY <1>2, <2>1, SumOfNone, FS_EmptySet
<1>6. PICK x \in m : TRUE
  BY <1>5
<1>7. PICK r : r = m \ {x}
  OBVIOUS
<1>8. r \in SUBSET m /\ r # m /\ IsFiniteSet(r) /\ m = r \cup {x} /\ x \notin r
  BY <1>4, <1>6, <1>7, FS_Subset
<1>9. \A y \in S : f[y] \in Int /\ IsFiniteSet(F[y])
  BY FS_CardinalityType
<1>10. SumFunctionOnSet(f, m) = f[x] + SumFunctionOnSet(f, r)
  BY <1>2, <1>4, <1>6, <1>7, <1>9, SumApart
<1>11. SumFunctionOnSet(f, r) = Cardinality(All(r)) /\ f[x] = Cardinality(F[x])
  BY <1>2, <1>3, <1>6, <1>8
<1>12. All(m) = All(r) \cup F[x]
  BY <1>8
<1>13. All(r) \cap F[x] = {}
  BY <1>2, <1>6, <1>8
<1>14. IsFiniteSet(All(r))
  <2>1. PICK G : G = {F[y] : y \in r}
    OBVIOUS
  <2>2. PICK h : h = [y \in r |-> F[y]]
    OBVIOUS
  <2>3. h \in Surjection(r, G)
    BY <2>1, <2>2 DEF Surjection
  <2>4. IsFiniteSet(G)
    BY <1>8, <2>3, FS_Surjection
  <2>5. \A T \in G : IsFiniteSet(T)
    BY <1>2, <1>8, <1>9, <2>1
  <2>6. IsFiniteSet(UNION G)
    BY <2>4, <2>5, FS_UNION
  <2> QED
    BY <2>1, <2>6
<1>15. PICK a, b : a = All(r) /\ b = F[x]
  OBVIOUS
<1>16. IsFiniteSet(a) /\ IsFiniteSet(b) /\ a \cap b = {} /\ All(m) = a \cup b
  BY <1>2, <1>6, <1>9, <1>12, <1>13, <1>14, <1>15
<1>17. Cardinality(a \cup b) = Cardinality(a) + Cardinality(b) - Cardinality(a \cap b)
  BY <1>16, FS_Union
<1>18. Cardinality(a) \in Nat /\ Cardinality(b) \in Nat /\ Cardinality(a \cap b) = 0
  BY <1>16, FS_CardinalityType, FS_EmptySet
<1> HIDE DEF All
<1> QED
  BY <1>2, <1>10, <1>11, <1>15, <1>16, <1>17, <1>18
=============================================================================

-------------------------------- MODULE Sums --------------------------------
(***************************************************************************)
(* What SumFunctionOnSet of the community modules computes: the sum of a   *)
(* function over a finite set, whatever the order.  The accounts of a      *)
(* socket buffer (SockBuf) are such sums.                                  *)
(*                                                                         *)
(* Every induction on a finite set is written with SmallestSet: the sets   *)
(* for which a statement fails have a smallest one, and taking an element  *)
(* out of it gives a smaller one.                                          *)
(***************************************************************************)
EXTENDS Integers, Functions, FiniteSetTheorems, WellFoundedInduction, TLAPS

\* A set of finite sets has a smallest one: what stands in for induction.
LEMMA SmallestSet ==
  ASSUME NEW U, IsFiniteSet(U), NEW T \in SUBSET (SUBSET U), T # {}
  PROVE  \E s \in T : \A t \in T : t \subseteq s => t = s
<1>1. IsWellFoundedOn(StrictSubsetOrdering(U), FiniteSubsetsOf(U))
  BY FS_StrictSubsetOrderingWellFounded
<1>2. T \subseteq FiniteSubsetsOf(U)
  BY FS_Subset DEF FiniteSubsetsOf
<1>3. \E s \in T : \A t \in T : ~(<<t, s>> \in StrictSubsetOrdering(U))
  BY <1>1, <1>2, WFMin
<1> QED  BY <1>2, <1>3 DEF StrictSubsetOrdering

\* The element the fold takes out of s, and the recursion it is defined by.
First(s) == CHOOSE x \in s : TRUE
IsSum(f, w, S) ==
  f = [s \in SUBSET S |-> IF s = {} THEN 0 ELSE w[First(s)] + f[s \ {First(s)}]]

\* The community definition, unfolded.
LEMMA SumDef ==
  ASSUME NEW w, NEW S
  PROVE  SumFunctionOnSet(w, S) = (CHOOSE f : IsSum(f, w, S))[S]
BY DEF SumFunctionOnSet, FoldFunctionOnSet, MapThenFoldSet, IsSum, First

\* First chooses from the set.
LEMMA FirstIn == ASSUME NEW s, s # {}  PROVE First(s) \in s
BY DEF First

\* Two functions that satisfy the recursion agree where both are defined.
LEMMA SumUnique ==
  ASSUME NEW w, NEW S, NEW T, IsFiniteSet(S), NEW f, NEW g, IsSum(f, w, S), IsSum(g, w, T)
  PROVE  \A s : s \subseteq S /\ s \subseteq T => f[s] = g[s]
<1> DEFINE Bad == {s \in SUBSET S : s \subseteq T /\ f[s] # g[s]}
<1> SUFFICES ASSUME Bad # {}  PROVE FALSE
  OBVIOUS
<1>1. PICK s \in Bad : \A t \in Bad : t \subseteq s => t = s
  <2>1. Bad \in SUBSET (SUBSET S)
    OBVIOUS
  <2> HIDE DEF Bad
  <2> QED  BY <2>1, SmallestSet
<1>2. /\ f[s] = IF s = {} THEN 0 ELSE w[First(s)] + f[s \ {First(s)}]
      /\ g[s] = IF s = {} THEN 0 ELSE w[First(s)] + g[s \ {First(s)}]
  BY DEF IsSum
<1>3. CASE s = {}
  BY <1>2, <1>3
<1>4. CASE s # {}
  <2>1. First(s) \in s
    BY <1>4, FirstIn
  <2>2. s \ {First(s)} \notin Bad
    BY <1>1, <2>1
  <2> QED  BY <1>1, <1>2, <1>4, <2>2
<1> QED  BY <1>3, <1>4

\* The recursion has a solution on every finite set.
LEMMA SumIsSum ==
  ASSUME NEW w, NEW S, IsFiniteSet(S)
  PROVE  \E f : IsSum(f, w, S)
<1> DEFINE Bad == {s \in SUBSET S : ~\E f : IsSum(f, w, s)}
           V(s) == SumFunctionOnSet(w, s)
<1> SUFFICES ASSUME Bad # {}  PROVE FALSE
  OBVIOUS
<1>1. PICK s \in Bad : \A t \in Bad : t \subseteq s => t = s
  <2>1. Bad \in SUBSET (SUBSET S)
    OBVIOUS
  <2> HIDE DEF Bad
  <2> QED  BY <2>1, SmallestSet
<1>2. ASSUME NEW t \in SUBSET s, t # s
      PROVE  \E f : IsSum(f, w, t) /\ f[t] = V(t)
  <2>1. \E f : IsSum(f, w, t)
    BY <1>1, <1>2
  <2>2. IsSum(CHOOSE f : IsSum(f, w, t), w, t)
    BY <2>1
  <2> QED  BY <2>2, SumDef
<1>3. ASSUME NEW t \in SUBSET s, t # s
      PROVE  V(t) = IF t = {} THEN 0 ELSE w[First(t)] + V(t \ {First(t)})
  <2>1. PICK f : IsSum(f, w, t) /\ f[t] = V(t)
    BY <1>2, <1>3
  <2>2. f[t] = IF t = {} THEN 0 ELSE w[First(t)] + f[t \ {First(t)}]
    BY <2>1 DEF IsSum
  <2>3. CASE t # {}
    <3> DEFINE r == t \ {First(t)}
    <3>1. r \in SUBSET s /\ r # s /\ r \subseteq t
      BY <1>3
    <3>2. PICK g : IsSum(g, w, r) /\ g[r] = V(r)
      BY <1>2, <3>1
    <3>3. IsFiniteSet(r)
      BY <3>1, <1>1, FS_Subset
    <3>4. f[r] = g[r]
      BY <2>1, <3>1, <3>2, <3>3, SumUnique
    <3> QED  BY <2>1, <2>2, <2>3, <3>2, <3>4
  <2> QED  BY <2>1, <2>2, <2>3
<1> DEFINE g == [t \in SUBSET s |-> IF t = {} THEN 0 ELSE w[First(t)] + V(t \ {First(t)})]
<1>4. ASSUME NEW t \in SUBSET s, t # {}  PROVE V(t \ {First(t)}) = g[t \ {First(t)}]
  <2> DEFINE r == t \ {First(t)}
  <2>1. r \in SUBSET s /\ r # s
    BY <1>4, FirstIn
  <2> HIDE DEF V
  <2> QED  BY <1>3, <2>1
<1>5. IsSum(g, w, s)
  <2> HIDE DEF V
  <2>1. ASSUME NEW t \in SUBSET s
        PROVE  g[t] = IF t = {} THEN 0 ELSE w[First(t)] + g[t \ {First(t)}]
    BY <1>4
  <2>2. g = [t \in SUBSET s |-> g[t]]
    OBVIOUS
  <2> HIDE DEF g
  <2> QED  BY <2>1, <2>2 DEF IsSum
<1> QED  BY <1>1, <1>5

\* What SumFunctionOnSet computes, in the order in which it does.
LEMMA SumRec ==
  ASSUME NEW w, NEW S, IsFiniteSet(S)
  PROVE  SumFunctionOnSet(w, S) =
           IF S = {} THEN 0 ELSE w[First(S)] + SumFunctionOnSet(w, S \ {First(S)})
<1> DEFINE f == CHOOSE f : IsSum(f, w, S)
           R == S \ {First(S)}
           g == CHOOSE g : IsSum(g, w, R)
<1>0. IsFiniteSet(R)
  BY FS_Subset
<1>1. IsSum(f, w, S) /\ IsSum(g, w, R)
  BY <1>0, SumIsSum
<1>2. SumFunctionOnSet(w, S) = f[S] /\ SumFunctionOnSet(w, R) = g[R]
  BY SumDef
<1> HIDE DEF f, g
<1>3. f[S] = IF S = {} THEN 0 ELSE w[First(S)] + f[R]
  BY <1>1 DEF IsSum
<1>4. f[R] = g[R]
  BY <1>0, <1>1, SumUnique
<1> QED  BY <1>2, <1>3, <1>4

\* The sum over nothing.
LEMMA SumEmpty == ASSUME NEW w  PROVE SumFunctionOnSet(w, {}) = 0
BY SumRec, FS_EmptySet

\* A sum of integers is an integer.
LEMMA SumInt ==
  ASSUME NEW w, NEW S, IsFiniteSet(S), \A x \in S : w[x] \in Int
  PROVE  SumFunctionOnSet(w, S) \in Int
<1> DEFINE Bad == {s \in SUBSET S : SumFunctionOnSet(w, s) \notin Int}
<1> SUFFICES ASSUME Bad # {}  PROVE FALSE
  OBVIOUS
<1>1. PICK s \in Bad : \A t \in Bad : t \subseteq s => t = s
  <2>1. Bad \in SUBSET (SUBSET S)
    OBVIOUS
  <2> HIDE DEF Bad
  <2> QED  BY <2>1, SmallestSet
<1>2. IsFiniteSet(s)
  BY <1>1, FS_Subset
<1>3. SumFunctionOnSet(w, s) = IF s = {} THEN 0 ELSE w[First(s)] + SumFunctionOnSet(w, s \ {First(s)})
  BY <1>2, SumRec
<1>4. s # {}
  BY <1>1, <1>3
<1>5. First(s) \in s
  BY <1>4, FirstIn
<1>6. SumFunctionOnSet(w, s \ {First(s)}) \in Int
  BY <1>1, <1>5
<1> QED  BY <1>1, <1>3, <1>4, <1>5, <1>6

\* The order does not matter: any element can be taken out first.
LEMMA SumTake ==
  ASSUME NEW w, NEW S, IsFiniteSet(S), \A x \in S : w[x] \in Int, NEW x \in S
  PROVE  SumFunctionOnSet(w, S) = w[x] + SumFunctionOnSet(w, S \ {x})
<1> DEFINE V(s) == SumFunctionOnSet(w, s)
           Bad == {s \in SUBSET S : \E y \in s : V(s) # w[y] + V(s \ {y})}
<1> SUFFICES ASSUME Bad # {}  PROVE FALSE
  OBVIOUS
<1>1. PICK s \in Bad : \A t \in Bad : t \subseteq s => t = s
  <2>1. Bad \in SUBSET (SUBSET S)
    OBVIOUS
  <2> HIDE DEF Bad
  <2> QED  BY <2>1, SmallestSet
<1>2. PICK y \in s : V(s) # w[y] + V(s \ {y})
  BY <1>1
<1>3. s \in SUBSET S /\ IsFiniteSet(s) /\ s # {}
  BY <1>1, FS_Subset
<1>4. V(s) = w[First(s)] + V(s \ {First(s)}) /\ First(s) \in s
  BY <1>3, SumRec, FirstIn
<1> DEFINE c == First(s)
<1>5. ASSUME NEW t \in SUBSET s, t # s, NEW z \in t  PROVE V(t) = w[z] + V(t \ {z})
  BY <1>1, <1>5
<1>6. ASSUME NEW t \in SUBSET s  PROVE V(t) \in Int
  <2>1. IsFiniteSet(t) /\ \A z \in t : w[z] \in Int
    BY <1>3, FS_Subset
  <2> QED  BY <2>1, SumInt
<1> HIDE DEF V, c
<1>7. c \in s /\ V(s) = w[c] + V(s \ {c})
  BY <1>4 DEF c
<1>8. c # y
  BY <1>2, <1>7
<1>9. V(s \ {c}) = w[y] + V((s \ {c}) \ {y})
  BY <1>5, <1>7, <1>8
<1>10. V(s \ {y}) = w[c] + V((s \ {y}) \ {c})
  BY <1>5, <1>7, <1>8
<1>11. (s \ {c}) \ {y} = (s \ {y}) \ {c}
  OBVIOUS
<1>12. w[c] \in Int /\ w[y] \in Int /\ V((s \ {c}) \ {y}) \in Int
  BY <1>3, <1>6, <1>7
<1> QED  BY <1>2, <1>7, <1>9, <1>10, <1>11, <1>12

\* One more element.
LEMMA SumAdd ==
  ASSUME NEW w, NEW S, IsFiniteSet(S), NEW x, x \notin S, \A y \in S \cup {x} : w[y] \in Int
  PROVE  SumFunctionOnSet(w, S \cup {x}) = w[x] + SumFunctionOnSet(w, S)
<1>1. IsFiniteSet(S \cup {x})
  BY FS_AddElement
<1>2. (S \cup {x}) \ {x} = S
  OBVIOUS
<1> QED  BY <1>1, <1>2, SumTake

\* Only the values on the set matter.
LEMMA SumSame ==
  ASSUME NEW w, NEW v, NEW S, IsFiniteSet(S), \A x \in S : w[x] = v[x]
  PROVE  SumFunctionOnSet(w, S) = SumFunctionOnSet(v, S)
<1> DEFINE Bad == {s \in SUBSET S : SumFunctionOnSet(w, s) # SumFunctionOnSet(v, s)}
<1> SUFFICES ASSUME Bad # {}  PROVE FALSE
  OBVIOUS
<1>1. PICK s \in Bad : \A t \in Bad : t \subseteq s => t = s
  <2>1. Bad \in SUBSET (SUBSET S)
    OBVIOUS
  <2> HIDE DEF Bad
  <2> QED  BY <2>1, SmallestSet
<1>2. IsFiniteSet(s)
  BY <1>1, FS_Subset
<1>3. /\ SumFunctionOnSet(w, s) = IF s = {} THEN 0 ELSE w[First(s)] + SumFunctionOnSet(w, s \ {First(s)})
      /\ SumFunctionOnSet(v, s) = IF s = {} THEN 0 ELSE v[First(s)] + SumFunctionOnSet(v, s \ {First(s)})
  BY <1>2, SumRec
<1>4. s # {}
  BY <1>1, <1>3
<1>5. First(s) \in s
  BY <1>4, FirstIn
<1>6. s \ {First(s)} \notin Bad
  BY <1>1, <1>5
<1> QED  BY <1>1, <1>3, <1>4, <1>5, <1>6

\* The sum over two disjoint sets.
LEMMA SumUnion ==
  ASSUME NEW w, NEW S, NEW T, IsFiniteSet(S), IsFiniteSet(T), S \cap T = {},
         \A x \in S \cup T : w[x] \in Int
  PROVE  SumFunctionOnSet(w, S \cup T) = SumFunctionOnSet(w, S) + SumFunctionOnSet(w, T)
<1> DEFINE V(s) == SumFunctionOnSet(w, s)
           Bad == {t \in SUBSET T : V(S \cup t) # V(S) + V(t)}
<1> SUFFICES ASSUME Bad # {}  PROVE FALSE
  OBVIOUS
<1>1. PICK t \in Bad : \A r \in Bad : r \subseteq t => r = t
  <2>1. Bad \in SUBSET (SUBSET T)
    OBVIOUS
  <2> HIDE DEF Bad
  <2> QED  BY <2>1, SmallestSet
<1>2. t \in SUBSET T /\ IsFiniteSet(t) /\ IsFiniteSet(S \cup t)
  <2>1. t \in SUBSET T /\ IsFiniteSet(t)
    BY <1>1, FS_Subset
  <2> QED  BY <2>1, FS_Union
<1>3. t # {}
  <2>1. V(S) \in Int /\ V({}) = 0
    BY SumInt, SumEmpty
  <2>2. V(S \cup {}) = V(S)
    <3>1. S \cup {} = S
      OBVIOUS
    <3> QED  BY <3>1
  <2>3. V(S \cup {}) = V(S) + V({})
    <3> HIDE DEF V
    <3> QED  BY <2>1, <2>2
  <2>4. {} \notin Bad
    BY <2>3
  <2> HIDE DEF Bad
  <2> QED  BY <1>1, <2>4
<1>4. PICK x : x \in t
  BY <1>3
<1>5. V(t) = w[x] + V(t \ {x})
  BY <1>2, <1>4, SumTake
<1>6. V(S \cup t) = w[x] + V(S \cup (t \ {x}))
  <2>1. (S \cup t) \ {x} = S \cup (t \ {x})
    BY <1>2, <1>4
  <2>2. V(S \cup t) = w[x] + V((S \cup t) \ {x})
    BY <1>2, <1>4, SumTake
  <2> QED  BY <2>1, <2>2
<1>7. V(S \cup (t \ {x})) = V(S) + V(t \ {x})
  BY <1>1, <1>4
<1>8. V(S) \in Int /\ V(t \ {x}) \in Int /\ w[x] \in Int
  <2>1. IsFiniteSet(t \ {x})
    BY <1>2, FS_Subset
  <2> QED  BY <1>2, <1>4, <2>1, SumInt
<1> HIDE DEF V
<1> QED  BY <1>1, <1>5, <1>6, <1>7, <1>8

\* f maps I one to one onto R and carries v to w.
Carries(f, I, v, R, w) ==
  /\ R = {f[i] : i \in I}
  /\ \A i, j \in I : f[i] = f[j] => i = j
  /\ \A i \in I : v[i] = w[f[i]] /\ v[i] \in Int

\* A sum over the values of an injection.
LEMMA SumImage ==
  ASSUME NEW f, NEW I, IsFiniteSet(I), NEW v, NEW R, NEW w, Carries(f, I, v, R, w)
  PROVE  IsFiniteSet(R) /\ SumFunctionOnSet(w, R) = SumFunctionOnSet(v, I)
<1>0. /\ R = {f[i] : i \in I}
      /\ \A i, j \in I : f[i] = f[j] => i = j
      /\ \A i \in I : v[i] = w[f[i]] /\ v[i] \in Int
  BY DEF Carries
<1> DEFINE F(s) == {f[i] : i \in s}
           Bad == {s \in SUBSET I : ~(IsFiniteSet(F(s)) /\ SumFunctionOnSet(w, F(s)) = SumFunctionOnSet(v, s))}
<1> SUFFICES ASSUME Bad # {}  PROVE FALSE
  BY <1>0
<1>1. PICK s \in Bad : \A r \in Bad : r \subseteq s => r = s
  <2>1. Bad \in SUBSET (SUBSET I)
    OBVIOUS
  <2> HIDE DEF Bad
  <2> QED  BY <2>1, SmallestSet
<1>2. s \in SUBSET I /\ IsFiniteSet(s)
  BY <1>1, FS_Subset
<1>3. s # {}
  <2>1. ASSUME s = {}  PROVE FALSE
    <3>1. F(s) = {}
      BY <2>1
    <3> QED  BY <1>1, <2>1, <3>1, SumEmpty, FS_EmptySet
  <2> QED  BY <2>1
<1>4. PICK x : x \in s
  BY <1>3
<1> DEFINE r == s \ {x}
<1>5. IsFiniteSet(F(r)) /\ SumFunctionOnSet(w, F(r)) = SumFunctionOnSet(v, r)
  <2>1. r \in SUBSET I /\ r \subseteq s /\ r # s
    BY <1>2, <1>4
  <2> QED  BY <1>1, <2>1
<1>6. F(s) = F(r) \cup {f[x]} /\ f[x] \notin F(r)
  BY <1>0, <1>2, <1>4
<1>7. \A y \in F(r) \cup {f[x]} : w[y] \in Int
  BY <1>0, <1>2, <1>4
<1> DEFINE G == F(r)
           y == f[x]
<1>8. IsFiniteSet(F(s)) /\ SumFunctionOnSet(w, F(s)) = w[f[x]] + SumFunctionOnSet(w, F(r))
  <2>1. /\ IsFiniteSet(G) /\ y \notin G /\ F(s) = G \cup {y}
        /\ \A z \in G \cup {y} : w[z] \in Int
    BY <1>5, <1>6, <1>7
  <2> HIDE DEF G, y
  <2>2. IsFiniteSet(G \cup {y})
    BY <2>1, FS_AddElement
  <2>3. SumFunctionOnSet(w, G \cup {y}) = w[y] + SumFunctionOnSet(w, G)
    BY <2>1, SumAdd
  <2>4. IsFiniteSet(F(s)) /\ SumFunctionOnSet(w, F(s)) = w[y] + SumFunctionOnSet(w, G)
    BY <2>1, <2>2, <2>3
  <2> QED  BY <2>4 DEF G, y
<1>9. SumFunctionOnSet(v, s) = v[x] + SumFunctionOnSet(v, r)
  BY <1>0, <1>2, <1>4, SumTake
<1> QED  BY <1>0, <1>1, <1>2, <1>4, <1>5, <1>8, <1>9

\* w is a, and b more for the elements in B.
TwoValued(w, I, B, a, b) == \A i \in I : w[i] = a + (IF i \in B THEN b ELSE 0)

\* A sum of a for every element and b more for those in B.
LEMMA SumTwoValues ==
  ASSUME NEW I, IsFiniteSet(I), NEW B, NEW a \in Int, NEW b \in Int, NEW w,
         TwoValued(w, I, B, a, b)
  PROVE  SumFunctionOnSet(w, I) = Cardinality(I) * a + b * Cardinality(I \cap B)
<1>0. \A i \in I : w[i] = a + (IF i \in B THEN b ELSE 0)
  BY DEF TwoValued
<1> DEFINE V(s) == SumFunctionOnSet(w, s)
           Bad == {s \in SUBSET I : V(s) # Cardinality(s) * a + b * Cardinality(s \cap B)}
<1> SUFFICES ASSUME Bad # {}  PROVE FALSE
  <2>1. I \notin Bad
    OBVIOUS
  <2> QED  BY <2>1
<1>1. PICK s \in Bad : \A r \in Bad : r \subseteq s => r = s
  <2>1. Bad \in SUBSET (SUBSET I)
    OBVIOUS
  <2> HIDE DEF Bad
  <2> QED  BY <2>1, SmallestSet
<1>2. s \in SUBSET I /\ IsFiniteSet(s)
  BY <1>1, FS_Subset
<1>3. s # {}
  <2>1. ASSUME s = {}  PROVE FALSE
    <3>1. s \cap B = {} /\ Cardinality({}) = 0 /\ V({}) = 0
      BY <2>1, SumEmpty, FS_EmptySet
    <3>2. 0 = 0 * a + b * 0
      BY SMT
    <3> HIDE DEF V
    <3> QED  BY <1>1, <2>1, <3>1, <3>2
  <2> QED  BY <2>1
<1>4. PICK x : x \in s
  BY <1>3
<1> DEFINE r == s \ {x}
           n == Cardinality(r)
           m == Cardinality(r \cap B)
<1>5. r \in SUBSET I /\ r \subseteq s /\ r # s /\ IsFiniteSet(r) /\ IsFiniteSet(r \cap B) /\ x \notin r
  BY <1>2, <1>4, FS_Subset
<1>6. n \in Nat /\ m \in Nat
  BY <1>5, FS_CardinalityType
<1>7. V(r) = n * a + b * m
  BY <1>1, <1>5
<1>8. s = r \cup {x} /\ s \cap B = IF x \in B THEN (r \cap B) \cup {x} ELSE r \cap B
  BY <1>4
<1>9. Cardinality(s) = n + 1
  BY <1>5, <1>8, FS_AddElement
<1>10. Cardinality(s \cap B) = IF x \in B THEN m + 1 ELSE m
  BY <1>5, <1>8, FS_AddElement
<1>11. V(s) = w[x] + V(r) /\ w[x] = a + (IF x \in B THEN b ELSE 0)
  <2>1. \A i \in s : w[i] \in Int
    BY <1>0, <1>2
  <2> QED  BY <1>0, <1>2, <1>4, <2>1, SumTake
<1>12. V(s) # Cardinality(s) * a + b * Cardinality(s \cap B)
  BY <1>1
<1> HIDE DEF V, n, m
<1>13. (n + 1) * a = n * a + a /\ b * (m + 1) = b * m + b /\ n * a \in Int /\ b * m \in Int
  BY <1>6, SMT
<1> QED  BY <1>7, <1>9, <1>10, <1>11, <1>12, <1>13

\* The k + 1 elements of the chain s are R; u is what w gives behind the head.
Chained(s, k, u, R, w) ==
  /\ R = {s[i] : i \in 1 .. k + 1}
  /\ \A i, j \in 1 .. k + 1 : s[i] = s[j] => i = j
  /\ \A i \in 1 .. k + 1 : w[s[i]] \in Int
  /\ \A i \in 1 .. k : u[i] = w[s[i + 1]]

\* The sum over a chain: its head, and what is behind it.
LEMMA SumChain ==
  ASSUME NEW k \in Nat, NEW s, NEW u, NEW R, NEW w, Chained(s, k, u, R, w)
  PROVE  IsFiniteSet(R) /\ SumFunctionOnSet(w, R) = w[s[1]] + SumFunctionOnSet(u, 1 .. k)
<1> DEFINE g == [i \in 1 .. k |-> s[i + 1]]
           T == {g[i] : i \in 1 .. k}
<1>1. IsFiniteSet(1 .. k)
  BY FS_Interval
<1>a. /\ R = {s[i] : i \in 1 .. k + 1}
      /\ \A i, j \in 1 .. k + 1 : s[i] = s[j] => i = j
      /\ \A i \in 1 .. k + 1 : w[s[i]] \in Int
      /\ \A i \in 1 .. k : u[i] = w[s[i + 1]]
  BY DEF Chained
<1>2. \A i, j \in 1 .. k : g[i] = g[j] => i = j
  BY <1>a
<1>3. \A i \in 1 .. k : u[i] = w[g[i]] /\ u[i] \in Int
  BY <1>a
<1>4. R = T \cup {s[1]}
  <2>1. ASSUME NEW i \in 1 .. k + 1  PROVE s[i] \in T \cup {s[1]}
    <3>1. CASE i = 1
      BY <3>1
    <3>2. CASE i # 1
      <4>1. i - 1 \in 1 .. k /\ (i - 1) + 1 = i
        BY <3>2
      <4>2. g[i - 1] = s[i]
        BY <4>1
      <4> QED  BY <4>1, <4>2
    <3> QED  BY <3>1, <3>2
  <2>2. ASSUME NEW i \in 1 .. k  PROVE i + 1 \in 1 .. k + 1 /\ g[i] = s[i + 1]
    OBVIOUS
  <2>3. 1 \in 1 .. k + 1
    OBVIOUS
  <2> QED  BY <1>a, <2>1, <2>2, <2>3
<1>5. s[1] \notin T
  BY <1>a
<1>6. \A x \in T \cup {s[1]} : w[x] \in Int
  BY <1>a
<1>0. Carries(g, 1 .. k, u, T, w)
  BY <1>2, <1>3 DEF Carries
<1> HIDE DEF g, T
<1>7. IsFiniteSet(T) /\ SumFunctionOnSet(w, T) = SumFunctionOnSet(u, 1 .. k)
  BY <1>0, <1>1, SumImage
<1>8. IsFiniteSet(T \cup {s[1]})
  BY <1>7, FS_AddElement
<1>9. SumFunctionOnSet(w, T \cup {s[1]}) = w[s[1]] + SumFunctionOnSet(w, T)
  BY <1>5, <1>6, <1>7, SumAdd
<1> QED  BY <1>4, <1>7, <1>8, <1>9
=============================================================================

----------------------------- MODULE DataProofs ------------------------------
(***************************************************************************)
(* What the other proof modules need and no library states for first-order *)
(* provers: induction and recursion as statements about sets and functions, *)
(* the sum of a function over a finite set (SumFunctionOnSet of the module  *)
(* Functions) from its recursive definition to unions, differences and      *)
(* comparisons, and the positions a list comprehension keeps.               *)
(***************************************************************************)
EXTENDS Lists, SequencesExt, FiniteSetTheorems, SequenceTheorems, TLAPS

-----------------------------------------------------------------------------
(* Induction *)

\* A nonempty set of naturals has a least element: the form of induction used
\* below, from the well-foundedness of strict inclusion between finite sets.
LEMMA LeastElement ==
  ASSUME NEW T, T \subseteq Nat, T # {}
  PROVE  \E m \in T : \A n \in T : m <= n
<1> DEFINE segments == {0..n : n \in T}
<1>1. segments \subseteq FiniteSubsetsOf(Nat)
  <2>1. ASSUME NEW n \in T
        PROVE  0..n \subseteq Nat /\ IsFiniteSet(0..n)
    <3>1. n \in Int
      OBVIOUS
    <3>2. IsFiniteSet(0..n)
      BY <3>1, FS_Interval
    <3> QED
      BY <3>1, <3>2
  <2> QED
    BY <2>1 DEF FiniteSubsetsOf
<1>2. segments # {}
  OBVIOUS
<1>3. PICK x \in segments : \A y \in segments : ~(<<y, x>> \in StrictSubsetOrdering(Nat))
  <2> HIDE DEF segments
  <2> QED
    BY <1>1, <1>2, FS_StrictSubsetOrderingWellFounded, WFMin
<1>4. PICK m \in T : x = 0..m
  BY <1>3
<1>5. ASSUME NEW n \in T, n < m
      PROVE  FALSE
  <2>1. 0..n \in segments
    OBVIOUS
  <2>2. <<0..n, 0..m>> \in StrictSubsetOrdering(Nat)
    <3>1. 0..n \subseteq 0..m /\ 0..m \subseteq Nat
      BY <1>5
    <3>2. m \in 0..m /\ m \notin 0..n
      BY <1>5
    <3> QED
      BY <3>1, <3>2 DEF StrictSubsetOrdering
  <2> QED
    BY <1>3, <1>4, <2>1, <2>2
<1> QED
  BY <1>5

\* A nonempty collection of subsets of a finite set has a minimal member.
LEMMA MinimalSubset ==
  ASSUME NEW S, IsFiniteSet(S), NEW C, C \subseteq SUBSET S, C # {}
  PROVE  \E m \in C : \A n \in C : ~(n \subseteq m /\ n # m)
<1>1. C \subseteq FiniteSubsetsOf(S)
  BY FS_Subset DEF FiniteSubsetsOf
<1>2. PICK m \in C : \A n \in C : ~(<<n, m>> \in StrictSubsetOrdering(S))
  BY <1>1, FS_StrictSubsetOrderingWellFounded, WFMin
<1> QED
  BY <1>2 DEF StrictSubsetOrdering

\* A function on an interval may be defined from its value one below: G[<<n, x>>]
\* is the value at n when x is the one at n - 1.
Recursive(F, a, G, N) == F = [n \in 0..N |-> IF n = 0 THEN a ELSE G[<<n, F[n - 1]>>]]

LEMMA NatRecursion ==
  ASSUME NEW a, NEW G, NEW N \in Nat
  PROVE  \E F : Recursive(F, a, G, N)
<1> DEFINE Fits(F, M) == F = [n \in 0..M |-> IF n = 0 THEN a ELSE G[<<n, F[n - 1]>>]]
           bad == {M \in Nat : ~ \E F : Fits(F, M)}
<1>1. SUFFICES ASSUME bad # {} PROVE FALSE
  BY DEF Recursive
<1>2. PICK M \in bad : \A m \in bad : M <= m
  <2>1. bad \subseteq Nat
    OBVIOUS
  <2> HIDE DEF bad
  <2> QED
    BY <1>1, <2>1, LeastElement
<1>3. M # 0
  <2>1. Fits([n \in {0} |-> a], 0)
    <3>1. 0..0 = {0}
      OBVIOUS
    <3> QED
      BY <3>1
  <2> HIDE DEF Fits
  <2> QED
    BY <1>2, <2>1
<1>4. PICK F : Fits(F, M - 1)
  <2>1. M - 1 \in Nat /\ ~(M <= M - 1)
    BY <1>3
  <2> HIDE DEF Fits
  <2> QED
    BY <1>2, <2>1
<1> DEFINE H == [n \in 0..M |-> IF n = M THEN G[<<M, F[M - 1]>>] ELSE F[n]]
<1>5. ASSUME NEW n \in 0..M
      PROVE  H[n] = IF n = 0 THEN a ELSE G[<<n, H[n - 1]>>]
  <2>1. \A k \in 0..(M - 1) : F[k] = IF k = 0 THEN a ELSE G[<<k, F[k - 1]>>]
    BY <1>4
  <2>2. M \in Nat /\ M >= 1
    BY <1>3
  <2>3. CASE n = M
    <3>1. n - 1 \in 0..M /\ n - 1 # M /\ n # 0
      BY <2>2, <2>3
    <3> QED
      BY <2>3, <3>1
  <2>4. CASE n # M /\ n # 0
    <3>1. n \in 0..(M - 1) /\ n - 1 \in 0..M /\ n - 1 # M
      BY <2>2, <2>4
    <3>2. F[n] = G[<<n, F[n - 1]>>]
      BY <2>1, <2>4, <3>1
    <3> QED
      BY <2>4, <3>1, <3>2
  <2>5. CASE n = 0
    <3>1. 0 \in 0..(M - 1) /\ n # M
      BY <2>2, <2>5
    <3> QED
      BY <2>1, <2>5, <3>1
  <2> QED
    BY <2>3, <2>4, <2>5
<1>6. Fits(H, M)
  <2> HIDE DEF H
  <2>1. H = [n \in 0..M |-> H[n]]
    BY DEF H
  <2> QED
    BY <1>5, <2>1
<1> HIDE DEF Fits
<1> QED
  BY <1>2, <1>6

\* What holds at 0 and at every next number of an interval holds on all of it.
LEMMA Upward ==
  ASSUME NEW N \in Nat, NEW P, 0 \in P, \A n \in 1..N : n - 1 \in P => n \in P
  PROVE  \A n \in 0..N : n \in P
<1> DEFINE bad == {n \in 0..N : n \notin P}
<1>1. SUFFICES ASSUME bad # {} PROVE FALSE
  OBVIOUS
<1>2. PICK m \in bad : \A n \in bad : m <= n
  <2>1. bad \subseteq Nat
    OBVIOUS
  <2> HIDE DEF bad
  <2> QED
    BY <1>1, <2>1, LeastElement
<1>3. m \in 1..N /\ m - 1 \in 0..N /\ ~(m <= m - 1)
  BY <1>2
<1>4. m - 1 \in P
  BY <1>2, <1>3
<1> QED
  BY <1>2, <1>3, <1>4

\* A table whose entries are made one from the other stays in the set its first
\* entry and its steps are in.
Steps(F, a, G, N, V) ==
  /\ F \in [0..N -> V]
  /\ F[0] = a
  /\ \A n \in 1..N : F[n] = G[<<n, F[n - 1]>>]

LEMMA StepTable ==
  ASSUME NEW V, NEW a \in V, NEW N \in Nat, NEW G \in [(1..N) \X V -> V]
  PROVE  \E F : Steps(F, a, G, N, V)
<1>1. PICK F : Recursive(F, a, G, N)
  BY NatRecursion
<1>2. F = [n \in 0..N |-> IF n = 0 THEN a ELSE G[<<n, F[n - 1]>>]]
  BY <1>1 DEF Recursive
<1>3. 0 \in 0..N /\ \A n \in 1..N : n \in 0..N /\ n - 1 \in 0..N /\ n # 0
  OBVIOUS
<1>4. F[0] = a /\ \A n \in 1..N : F[n] = G[<<n, F[n - 1]>>]
  BY <1>2, <1>3
<1> DEFINE P == {n \in 0..N : F[n] \in V}
<1>5. 0 \in P
  BY <1>3, <1>4
<1>6. \A n \in 1..N : n - 1 \in P => n \in P
  <2> SUFFICES ASSUME NEW n \in 1..N, F[n - 1] \in V
               PROVE  F[n] \in V
    BY <1>3
  <2>1. <<n, F[n - 1]>> \in (1..N) \X V
    OBVIOUS
  <2> QED
    BY <1>4, <2>1
<1>7. \A n \in 0..N : n \in P
  <2> HIDE DEF P
  <2> QED
    BY <1>5, <1>6, Upward
<1>8. F \in [0..N -> V]
  <2>1. \A n \in 0..N : F[n] \in V
    BY <1>7
  <2>2. F = [n \in 0..N |-> F[n]]
    BY <1>2
  <2> QED
    BY <2>1, <2>2
<1> QED
  BY <1>4, <1>8 DEF Steps

-----------------------------------------------------------------------------
(* The recursive definition of a sum *)

Picked(s) == CHOOSE x \in s : TRUE

\* g is a table of the sums of f over the subsets of S, as the definition of
\* SumFunctionOnSet builds it.
SumTable(g, f, S) ==
  g = [s \in SUBSET S |-> IF s = {} THEN 0 ELSE f[Picked(s)] + g[s \ {Picked(s)}]]

LEMMA SumByTable ==
  ASSUME NEW f, NEW S
  PROVE  SumFunctionOnSet(f, S) = (CHOOSE g : SumTable(g, f, S))[S]
BY DEF SumFunctionOnSet, FoldFunctionOnSet, MapThenFoldSet, SumTable, Picked

\* Two tables agree wherever both are defined.
LEMMA TablesAgree ==
  ASSUME NEW S, IsFiniteSet(S), NEW T, T \subseteq S, NEW f, NEW g, NEW h,
         SumTable(g, f, S), SumTable(h, f, T)
  PROVE  \A s \in SUBSET T : g[s] = h[s]
<1> DEFINE bad == {s \in SUBSET T : g[s] # h[s]}
<1>1. SUFFICES ASSUME bad # {} PROVE FALSE
  OBVIOUS
<1>2. PICK s \in bad : \A n \in bad : ~(n \subseteq s /\ n # s)
  <2>1. IsFiniteSet(T)
    BY FS_Subset
  <2> HIDE DEF bad
  <2>2. bad \subseteq SUBSET T
    BY DEF bad
  <2> QED
    BY <1>1, <2>1, <2>2, MinimalSubset
<1> DEFINE x == Picked(s)
<1>3. /\ g[s] = IF s = {} THEN 0 ELSE f[x] + g[s \ {x}]
      /\ h[s] = IF s = {} THEN 0 ELSE f[x] + h[s \ {x}]
  BY DEF SumTable
<1>4. s # {}
  BY <1>3
<1>5. x \in s
  BY <1>4 DEF Picked
<1>6. s \ {x} \in SUBSET T /\ s \ {x} \notin bad
  BY <1>2, <1>5
<1> QED
  BY <1>3, <1>4, <1>6

\* There is a table for every finite set.
LEMMA TableExists ==
  ASSUME NEW S, IsFiniteSet(S), NEW f
  PROVE  \E g : SumTable(g, f, S)
<1> DEFINE bad == {T \in SUBSET S : ~ \E g : SumTable(g, f, T)}
<1>1. SUFFICES ASSUME bad # {} PROVE FALSE
  OBVIOUS
<1>2. PICK T \in bad : \A n \in bad : ~(n \subseteq T /\ n # T)
  <2> HIDE DEF bad
  <2>2. bad \subseteq SUBSET S
    BY DEF bad
  <2> QED
    BY <1>1, <2>2, MinimalSubset
<1>3. ASSUME NEW U, U \subseteq T, U # T
      PROVE  SumTable(CHOOSE g : SumTable(g, f, U), f, U)
  BY <1>2, <1>3
<1> DEFINE Sum(U) == (CHOOSE g : SumTable(g, f, U))[U]
           h == [s \in SUBSET T |-> IF s = {} THEN 0 ELSE f[Picked(s)] + Sum(s \ {Picked(s)})]
<1>4. ASSUME NEW U, U \subseteq T, U # T
      PROVE  Sum(U) = IF U = {} THEN 0 ELSE f[Picked(U)] + Sum(U \ {Picked(U)})
  <2> DEFINE g == CHOOSE g : SumTable(g, f, U)
             V == U \ {Picked(U)}
             k == CHOOSE k : SumTable(k, f, V)
  <2>1. SumTable(g, f, U)
    BY <1>3, <1>4
  <2>2. g[U] = IF U = {} THEN 0 ELSE f[Picked(U)] + g[V]
    <3> HIDE DEF g
    <3> QED
      BY <2>1 DEF SumTable
  <2>3. SumTable(k, f, V)
    <3>1. V \subseteq T /\ V # T
      BY <1>4
    <3> QED
      BY <1>3, <3>1
  <2>4. g[V] = k[V]
    <3>1. IsFiniteSet(U) /\ V \subseteq U
      BY <1>4, FS_Subset
    <3> HIDE DEF g, k, V
    <3> QED
      BY <2>1, <2>3, <3>1, TablesAgree
  <2> QED
    BY <2>2, <2>4
<1>5. SumTable(h, f, T)
  <2>1. ASSUME NEW s \in SUBSET T, s # {}
        PROVE  Sum(s \ {Picked(s)}) = h[s \ {Picked(s)}]
    <3> DEFINE V == s \ {Picked(s)}
    <3>1. Picked(s) \in s
      BY <2>1 DEF Picked
    <3>2. V \subseteq T /\ V # T
      BY <3>1
    <3>3. h[V] = IF V = {} THEN 0 ELSE f[Picked(V)] + Sum(V \ {Picked(V)})
      <4> HIDE DEF V, Sum
      <4> QED
        BY <3>2
    <3> HIDE DEF V, Sum, h
    <3>4. Sum(V) = h[V]
      BY <1>4, <3>2, <3>3
    <3> QED
      BY <3>4 DEF V
  <2>2. h = [s \in SUBSET T |-> IF s = {} THEN 0 ELSE f[Picked(s)] + h[s \ {Picked(s)}]]
    <3>1. h = [s \in SUBSET T |-> IF s = {} THEN 0 ELSE f[Picked(s)] + Sum(s \ {Picked(s)})]
      OBVIOUS
    <3> HIDE DEF h, Sum
    <3> QED
      BY <2>1, <3>1
  <2> HIDE DEF h
  <2> QED
    BY <2>2 DEF SumTable
<1> QED
  BY <1>5

\* The equation the definition of SumFunctionOnSet promises.
LEMMA SumEquation ==
  ASSUME NEW S, IsFiniteSet(S), NEW f
  PROVE  SumFunctionOnSet(f, S) =
           IF S = {} THEN 0 ELSE f[Picked(S)] + SumFunctionOnSet(f, S \ {Picked(S)})
<1> DEFINE V == S \ {Picked(S)}
           g == CHOOSE g : SumTable(g, f, S)
           k == CHOOSE k : SumTable(k, f, V)
<1>1. SumTable(g, f, S)
  BY TableExists
<1>2. IsFiniteSet(V) /\ V \subseteq S
  BY FS_Subset
<1>3. SumTable(k, f, V)
  <2> HIDE DEF V
  <2> QED
    BY <1>2, TableExists
<1>4. SumFunctionOnSet(f, S) = g[S] /\ SumFunctionOnSet(f, V) = k[V]
  BY SumByTable
<1>5. g[V] = k[V]
  <2> HIDE DEF g, k, V
  <2> QED
    BY <1>1, <1>2, <1>3, TablesAgree
<1>6. g[S] = IF S = {} THEN 0 ELSE f[Picked(S)] + g[V]
  <2> HIDE DEF g
  <2> QED
    BY <1>1 DEF SumTable
<1> QED
  BY <1>4, <1>5, <1>6

-----------------------------------------------------------------------------
(* Sums of integers *)

LEMMA SumEmpty ==
  ASSUME NEW f
  PROVE  SumFunctionOnSet(f, {}) = 0
BY SumEquation, FS_EmptySet

LEMMA SumInt ==
  ASSUME NEW S, IsFiniteSet(S), NEW f, \A x \in S : f[x] \in Int
  PROVE  SumFunctionOnSet(f, S) \in Int
<1> DEFINE bad == {T \in SUBSET S : SumFunctionOnSet(f, T) \notin Int}
<1>1. SUFFICES ASSUME bad # {} PROVE FALSE
  OBVIOUS
<1>2. PICK T \in bad : \A n \in bad : ~(n \subseteq T /\ n # T)
  <2>1. bad \subseteq SUBSET S
    OBVIOUS
  <2> HIDE DEF bad
  <2> QED
    BY <1>1, <2>1, MinimalSubset
<1> DEFINE V == T \ {Picked(T)}
<1>3. IsFiniteSet(T)
  BY FS_Subset
<1>4. SumFunctionOnSet(f, T) = IF T = {} THEN 0 ELSE f[Picked(T)] + SumFunctionOnSet(f, V)
  BY <1>3, SumEquation
<1>5. CASE T # {}
  <2>1. Picked(T) \in T
    BY <1>5 DEF Picked
  <2>2. V \in SUBSET S /\ V \subseteq T /\ V # T
    BY <2>1
  <2>3. SumFunctionOnSet(f, V) \in Int
    BY <1>2, <2>2
  <2>4. f[Picked(T)] \in Int
    BY <2>1
  <2>5. f[Picked(T)] + SumFunctionOnSet(f, V) \in Int
    BY <2>3, <2>4
  <2> QED
    BY <1>4, <1>5, <2>5
<1> QED
  BY <1>4, <1>5

\* Any element can be taken out of a sum, not only the one the definition picks.
LEMMA SumTakeOut ==
  ASSUME NEW S, IsFiniteSet(S), NEW f, \A x \in S : f[x] \in Int, NEW y \in S
  PROVE  SumFunctionOnSet(f, S) = f[y] + SumFunctionOnSet(f, S \ {y})
<1> DEFINE Taken(T) == \A z \in T : SumFunctionOnSet(f, T) = f[z] + SumFunctionOnSet(f, T \ {z})
           bad == {T \in SUBSET S : ~Taken(T)}
<1>1. SUFFICES ASSUME bad # {} PROVE FALSE
  OBVIOUS
<1>2. PICK T \in bad : \A n \in bad : ~(n \subseteq T /\ n # T)
  <2>1. bad \subseteq SUBSET S
    OBVIOUS
  <2> HIDE DEF bad
  <2> QED
    BY <1>1, <2>1, MinimalSubset
<1>3. PICK z \in T : SumFunctionOnSet(f, T) # f[z] + SumFunctionOnSet(f, T \ {z})
  BY <1>2
<1> DEFINE p == Picked(T)
<1>4. p \in T
  BY <1>3 DEF Picked
<1>5. SumFunctionOnSet(f, T) = f[p] + SumFunctionOnSet(f, T \ {p})
  BY <1>4, FS_Subset, SumEquation
<1>6. p # z
  BY <1>3, <1>5
<1>7. Taken(T \ {p}) /\ Taken(T \ {z})
  <2>1. T \ {p} \in SUBSET S /\ T \ {p} \subseteq T /\ T \ {p} # T
    BY <1>4
  <2>2. T \ {z} \in SUBSET S /\ T \ {z} \subseteq T /\ T \ {z} # T
    BY <1>3
  <2> HIDE DEF p, Taken
  <2> QED
    BY <1>2, <2>1, <2>2
<1> HIDE DEF p
<1> DEFINE rest == SumFunctionOnSet(f, (T \ {p}) \ {z})
<1>8. SumFunctionOnSet(f, T \ {p}) = f[z] + rest
  BY <1>3, <1>6, <1>7
<1>9. SumFunctionOnSet(f, T \ {z}) = f[p] + rest
  <2>1. (T \ {z}) \ {p} = (T \ {p}) \ {z}
    OBVIOUS
  <2> QED
    BY <1>4, <1>6, <1>7, <2>1
<1>10. f[z] \in Int /\ f[p] \in Int /\ rest \in Int
  <2>1. IsFiniteSet((T \ {p}) \ {z}) /\ \A x \in (T \ {p}) \ {z} : f[x] \in Int
    BY FS_Subset
  <2> QED
    BY <1>3, <1>4, <2>1, SumInt
<1> HIDE DEF rest
<1> QED
  BY <1>3, <1>5, <1>8, <1>9, <1>10

LEMMA SumAdd ==
  ASSUME NEW S, IsFiniteSet(S), NEW f, \A x \in S : f[x] \in Int,
         NEW y, y \notin S, f[y] \in Int
  PROVE  SumFunctionOnSet(f, S \cup {y}) = f[y] + SumFunctionOnSet(f, S)
<1>1. IsFiniteSet(S \cup {y})
  BY FS_AddElement
<1>2. \A x \in S \cup {y} : f[x] \in Int
  OBVIOUS
<1>3. (S \cup {y}) \ {y} = S
  OBVIOUS
<1>4. SumFunctionOnSet(f, S \cup {y}) = f[y] + SumFunctionOnSet(f, (S \cup {y}) \ {y})
  BY <1>1, <1>2, SumTakeOut
<1> QED
  BY <1>3, <1>4

\* A sum splits along a subset.
LEMMA SumSplit ==
  ASSUME NEW S, IsFiniteSet(S), NEW f, \A x \in S : f[x] \in Int, NEW T, T \subseteq S
  PROVE  SumFunctionOnSet(f, S) = SumFunctionOnSet(f, T) + SumFunctionOnSet(f, S \ T)
<1> DEFINE Splits(U) == SumFunctionOnSet(f, S) = SumFunctionOnSet(f, U) + SumFunctionOnSet(f, S \ U)
           bad == {U \in SUBSET T : ~Splits(U)}
<1>1. SUFFICES ASSUME bad # {} PROVE FALSE
  OBVIOUS
<1>2. PICK U \in bad : \A n \in bad : ~(n \subseteq U /\ n # U)
  <2>1. bad \subseteq SUBSET T /\ IsFiniteSet(T)
    BY FS_Subset
  <2> HIDE DEF bad
  <2> QED
    BY <1>1, <2>1, MinimalSubset
<1>3. U # {}
  <2>1. Splits({})
    <3>1. S \ {} = S /\ SumFunctionOnSet(f, S) \in Int
      BY SumInt
    <3> QED
      BY <3>1, SumEmpty
  <2> HIDE DEF Splits
  <2> QED
    BY <1>2, <2>1
<1>4. PICK y : y \in U
  BY <1>3
<1> DEFINE V == U \ {y}
<1>5. Splits(V)
  <2>1. V \in SUBSET T /\ V \subseteq U /\ V # U
    BY <1>4
  <2> HIDE DEF V, Splits
  <2> QED
    BY <1>2, <2>1
<1>6. /\ IsFiniteSet(U) /\ IsFiniteSet(V) /\ IsFiniteSet(S \ U) /\ IsFiniteSet(S \ V)
      /\ y \in S \ V /\ (S \ V) \ {y} = S \ U
  BY <1>4, FS_Subset
<1>7. SumFunctionOnSet(f, U) = f[y] + SumFunctionOnSet(f, V)
  BY <1>4, <1>6, SumTakeOut
<1>8. SumFunctionOnSet(f, S \ V) = f[y] + SumFunctionOnSet(f, (S \ V) \ {y})
  <2> HIDE DEF V
  <2>1. \A x \in S \ V : f[x] \in Int
    OBVIOUS
  <2> QED
    BY <1>6, <2>1, SumTakeOut
<1>9. f[y] \in Int /\ SumFunctionOnSet(f, V) \in Int /\ SumFunctionOnSet(f, S \ U) \in Int
  BY <1>4, <1>6, SumInt
<1>10. SumFunctionOnSet(f, S \ V) = f[y] + SumFunctionOnSet(f, S \ U)
  BY <1>6, <1>8
<1>11. Splits(U)
  <2> HIDE DEF V
  <2> QED
    BY <1>5, <1>7, <1>9, <1>10
<1> QED
  BY <1>2, <1>11

LEMMA SumUnion ==
  ASSUME NEW S, IsFiniteSet(S), NEW T, IsFiniteSet(T), S \cap T = {},
         NEW f, \A x \in S \cup T : f[x] \in Int
  PROVE  SumFunctionOnSet(f, S \cup T) = SumFunctionOnSet(f, S) + SumFunctionOnSet(f, T)
<1>1. IsFiniteSet(S \cup T) /\ S \subseteq S \cup T /\ (S \cup T) \ S = T
  BY FS_Union
<1>2. SumFunctionOnSet(f, S \cup T) = SumFunctionOnSet(f, S) + SumFunctionOnSet(f, (S \cup T) \ S)
  BY <1>1, SumSplit
<1> QED
  BY <1>1, <1>2

\* Sums compare as their terms do; equal terms make equal sums.
LEMMA SumMonotone ==
  ASSUME NEW S, IsFiniteSet(S), NEW f, NEW g,
         \A x \in S : f[x] \in Int /\ g[x] \in Int /\ f[x] <= g[x]
  PROVE  SumFunctionOnSet(f, S) <= SumFunctionOnSet(g, S)
<1> DEFINE bad == {T \in SUBSET S : ~(SumFunctionOnSet(f, T) <= SumFunctionOnSet(g, T))}
<1>1. SUFFICES ASSUME bad # {} PROVE FALSE
  OBVIOUS
<1>2. PICK T \in bad : \A n \in bad : ~(n \subseteq T /\ n # T)
  <2>1. bad \subseteq SUBSET S
    OBVIOUS
  <2> HIDE DEF bad
  <2> QED
    BY <1>1, <2>1, MinimalSubset
<1>3. PICK y : y \in T
  <2>1. SumFunctionOnSet(f, {}) <= SumFunctionOnSet(g, {})
    BY SumEmpty
  <2>2. T # {}
    BY <1>2, <2>1
  <2> QED
    BY <2>2
<1> DEFINE V == T \ {y}
<1>4. SumFunctionOnSet(f, V) <= SumFunctionOnSet(g, V)
  <2>1. V \in SUBSET S /\ V \subseteq T /\ V # T
    BY <1>3
  <2> QED
    BY <1>2, <2>1
<1>5. IsFiniteSet(T) /\ IsFiniteSet(V)
  BY FS_Subset
<1>6. /\ SumFunctionOnSet(f, T) = f[y] + SumFunctionOnSet(f, V)
      /\ SumFunctionOnSet(g, T) = g[y] + SumFunctionOnSet(g, V)
  BY <1>3, <1>5, SumTakeOut
<1>7. /\ SumFunctionOnSet(f, V) \in Int /\ SumFunctionOnSet(g, V) \in Int
      /\ f[y] \in Int /\ g[y] \in Int /\ f[y] <= g[y]
  BY <1>3, <1>5, SumInt
<1> HIDE DEF V
<1>8. SumFunctionOnSet(f, T) <= SumFunctionOnSet(g, T)
  BY <1>4, <1>6, <1>7
<1> QED
  BY <1>2, <1>8

LEMMA SumEqual ==
  ASSUME NEW S, IsFiniteSet(S), NEW f, NEW g,
         \A x \in S : f[x] \in Int /\ f[x] = g[x]
  PROVE  SumFunctionOnSet(f, S) = SumFunctionOnSet(g, S)
<1>1. SumFunctionOnSet(f, S) <= SumFunctionOnSet(g, S) /\ SumFunctionOnSet(g, S) <= SumFunctionOnSet(f, S)
  <2>1. \A x \in S : f[x] <= g[x] /\ g[x] <= f[x] /\ g[x] \in Int
    OBVIOUS
  <2> QED
    BY <2>1, SumMonotone
<1>2. SumFunctionOnSet(f, S) \in Int /\ SumFunctionOnSet(g, S) \in Int
  BY SumInt
<1> QED
  BY <1>1, <1>2

\* A constant zero adds nothing, and a sum of naturals is a natural.
LEMMA SumNat ==
  ASSUME NEW S, IsFiniteSet(S), NEW f, \A x \in S : f[x] \in Nat
  PROVE  SumFunctionOnSet(f, S) \in Nat
<1> DEFINE bad == {T \in SUBSET S : SumFunctionOnSet(f, T) \notin Nat}
<1>1. SUFFICES ASSUME bad # {} PROVE FALSE
  OBVIOUS
<1>2. PICK T \in bad : \A n \in bad : ~(n \subseteq T /\ n # T)
  <2>1. bad \subseteq SUBSET S
    OBVIOUS
  <2> HIDE DEF bad
  <2> QED
    BY <1>1, <2>1, MinimalSubset
<1>3. PICK y : y \in T
  <2>1. SumFunctionOnSet(f, {}) \in Nat
    BY SumEmpty
  <2>2. T # {}
    BY <1>2, <2>1
  <2> QED
    BY <2>2
<1> DEFINE V == T \ {y}
<1>4. SumFunctionOnSet(f, V) \in Nat
  <2>1. V \in SUBSET S /\ V \subseteq T /\ V # T
    BY <1>3
  <2> QED
    BY <1>2, <2>1
<1>5. SumFunctionOnSet(f, T) = f[y] + SumFunctionOnSet(f, V)
  <2>1. IsFiniteSet(T) /\ \A x \in T : f[x] \in Int
    BY FS_Subset
  <2> QED
    BY <1>3, <2>1, SumTakeOut
<1> HIDE DEF V
<1>6. SumFunctionOnSet(f, T) \in Nat
  BY <1>3, <1>4, <1>5
<1> QED
  BY <1>2, <1>6

\* A part of a set of natural numbers adds up to no more than the whole.
LEMMA SumSubset ==
  ASSUME NEW S, IsFiniteSet(S), NEW f, \A x \in S : f[x] \in Nat, NEW T, T \subseteq S
  PROVE  SumFunctionOnSet(f, T) \in Nat /\ SumFunctionOnSet(f, T) <= SumFunctionOnSet(f, S)
<1>1. IsFiniteSet(T) /\ IsFiniteSet(S \ T)
  BY FS_Subset
<1>2. SumFunctionOnSet(f, T) \in Nat /\ SumFunctionOnSet(f, S \ T) \in Nat
  BY <1>1, SumNat
<1>3. SumFunctionOnSet(f, S) = SumFunctionOnSet(f, T) + SumFunctionOnSet(f, S \ T)
  BY SumSplit
<1> QED
  BY <1>2, <1>3

\* Changing one term changes the sum by the difference.
LEMMA SumChange ==
  ASSUME NEW S, IsFiniteSet(S), NEW f, NEW g, NEW y \in S,
         \A x \in S : f[x] \in Int /\ g[x] \in Int,
         \A x \in S \ {y} : f[x] = g[x]
  PROVE  SumFunctionOnSet(g, S) = SumFunctionOnSet(f, S) + (g[y] - f[y])
<1>1. IsFiniteSet(S \ {y})
  BY FS_Subset
<1>2. SumFunctionOnSet(f, S) = f[y] + SumFunctionOnSet(f, S \ {y})
  BY SumTakeOut
<1>3. SumFunctionOnSet(g, S) = g[y] + SumFunctionOnSet(g, S \ {y})
  BY SumTakeOut
<1>4. SumFunctionOnSet(f, S \ {y}) = SumFunctionOnSet(g, S \ {y})
  BY <1>1, SumEqual
<1>5. f[y] \in Int /\ g[y] \in Int /\ SumFunctionOnSet(f, S \ {y}) \in Int
  BY <1>1, SumInt
<1> QED
  BY <1>2, <1>3, <1>4, <1>5

\* The same, with the condition under one name.
ChangedAt(f, g, S, y) ==
  /\ \A x \in S : f[x] \in Int /\ g[x] \in Int
  /\ \A x \in S \ {y} : f[x] = g[x]

LEMMA SumChanged ==
  ASSUME NEW S, IsFiniteSet(S), NEW f, NEW g, NEW y \in S, ChangedAt(f, g, S, y)
  PROVE  /\ SumFunctionOnSet(f, S) \in Int
         /\ SumFunctionOnSet(g, S) = SumFunctionOnSet(f, S) + (g[y] - f[y])
<1>1. (\A x \in S : f[x] \in Int /\ g[x] \in Int) /\ \A x \in S \ {y} : f[x] = g[x]
  BY DEF ChangedAt
<1>2. SumFunctionOnSet(g, S) = SumFunctionOnSet(f, S) + (g[y] - f[y])
  BY <1>1, SumChange
<1>3. SumFunctionOnSet(f, S) \in Int
  BY <1>1, SumInt
<1> QED
  BY <1>2, <1>3

LEMMA SumDifference ==
  ASSUME NEW S, IsFiniteSet(S), NEW f, NEW g, NEW h,
         \A x \in S : f[x] \in Int /\ g[x] \in Int /\ h[x] = f[x] - g[x]
  PROVE  SumFunctionOnSet(h, S) = SumFunctionOnSet(f, S) - SumFunctionOnSet(g, S)
<1> DEFINE Holds(T) == SumFunctionOnSet(h, T) = SumFunctionOnSet(f, T) - SumFunctionOnSet(g, T)
           bad == {T \in SUBSET S : ~Holds(T)}
<1>1. SUFFICES ASSUME bad # {} PROVE FALSE
  OBVIOUS
<1>2. PICK T \in bad : \A n \in bad : ~(n \subseteq T /\ n # T)
  <2>1. bad \subseteq SUBSET S
    OBVIOUS
  <2> HIDE DEF bad
  <2> QED
    BY <1>1, <2>1, MinimalSubset
<1>3. PICK y : y \in T
  <2>1. Holds({})
    BY SumEmpty
  <2> QED
    BY <1>2, <2>1
<1> DEFINE V == T \ {y}
<1>4. Holds(V)
  <2>1. V \in SUBSET S /\ V \subseteq T /\ V # T
    BY <1>3
  <2> HIDE DEF V, Holds
  <2> QED
    BY <1>2, <2>1
<1>5. IsFiniteSet(T) /\ IsFiniteSet(V) /\ \A x \in T : h[x] \in Int
  BY FS_Subset
<1>6. /\ SumFunctionOnSet(f, T) = f[y] + SumFunctionOnSet(f, V)
      /\ SumFunctionOnSet(g, T) = g[y] + SumFunctionOnSet(g, V)
      /\ SumFunctionOnSet(h, T) = h[y] + SumFunctionOnSet(h, V)
  BY <1>3, <1>5, SumTakeOut
<1>7. /\ SumFunctionOnSet(f, V) \in Int /\ SumFunctionOnSet(g, V) \in Int
      /\ f[y] \in Int /\ g[y] \in Int /\ h[y] = f[y] - g[y]
  BY <1>3, <1>5, SumInt
<1> HIDE DEF V
<1>8. Holds(T)
  BY <1>4, <1>6, <1>7
<1> QED
  BY <1>2, <1>8

LEMMA SumZero ==
  ASSUME NEW S, IsFiniteSet(S), NEW f, \A x \in S : f[x] = 0
  PROVE  SumFunctionOnSet(f, S) = 0
<1>1. \A x \in S : f[x] \in Int /\ f[x] = f[x] - f[x]
  OBVIOUS
<1>2. SumFunctionOnSet(f, S) = SumFunctionOnSet(f, S) - SumFunctionOnSet(f, S)
  BY <1>1, SumDifference
<1>3. SumFunctionOnSet(f, S) \in Int
  BY <1>1, SumInt
<1> QED
  BY <1>2, <1>3

\* A constant adds up to as many times itself as there are elements.
LEMMA SumConstant ==
  ASSUME NEW S, IsFiniteSet(S), NEW v \in Int, NEW f, \A x \in S : f[x] = v
  PROVE  SumFunctionOnSet(f, S) = v * Cardinality(S)
<1> DEFINE bad == {T \in SUBSET S : SumFunctionOnSet(f, T) # v * Cardinality(T)}
<1>1. SUFFICES ASSUME bad # {} PROVE FALSE
  OBVIOUS
<1>2. PICK T \in bad : \A n \in bad : ~(n \subseteq T /\ n # T)
  <2>1. bad \subseteq SUBSET S
    OBVIOUS
  <2> HIDE DEF bad
  <2> QED
    BY <1>1, <2>1, MinimalSubset
<1>3. PICK y : y \in T
  <2>1. SumFunctionOnSet(f, {}) = 0 /\ Cardinality({}) = 0 /\ v * 0 = 0
    BY SumEmpty, FS_EmptySet
  <2>2. T # {}
    BY <1>2, <2>1
  <2> QED
    BY <2>2
<1> DEFINE V == T \ {y}
<1>4. SumFunctionOnSet(f, V) = v * Cardinality(V)
  <2>1. V \in SUBSET S /\ V \subseteq T /\ V # T
    BY <1>3
  <2> QED
    BY <1>2, <2>1
<1>5. SumFunctionOnSet(f, T) = f[y] + SumFunctionOnSet(f, V) /\ f[y] = v
  <2>1. IsFiniteSet(T) /\ \A x \in T : f[x] \in Int
    BY FS_Subset
  <2> QED
    BY <1>3, <2>1, SumTakeOut
<1>6. Cardinality(V) = Cardinality(T) - 1 /\ Cardinality(T) \in Nat
  <2>1. IsFiniteSet(T)
    BY FS_Subset
  <2> QED
    BY <1>3, <2>1, FS_RemoveElement, FS_CardinalityType
<1> HIDE DEF V
<1>7. v + v * (Cardinality(T) - 1) = v * Cardinality(T)
  BY <1>6
<1> QED
  BY <1>2, <1>4, <1>5, <1>6, <1>7

LEMMA FiniteImage ==
  ASSUME NEW S, IsFiniteSet(S), NEW f
  PROVE  IsFiniteSet({f[x] : x \in S})
<1> DEFINE T == {f[x] : x \in S}
           F == [x \in S |-> f[x]]
<1>1. F \in Surjection(S, T)
  BY DEF Surjection
<1> HIDE DEF F, T
<1>2. IsFiniteSet(T)
  BY <1>1, FS_Surjection
<1> QED
  BY <1>2 DEF T

\* The sum over a union of disjoint parts is the sum of the sums of the parts.
LEMMA SumOfParts ==
  ASSUME NEW T, IsFiniteSet(T), NEW Part, \A t \in T : IsFiniteSet(Part[t]),
         \A t, r \in T : t # r => Part[t] \cap Part[r] = {},
         NEW f, \A x \in UNION {Part[t] : t \in T} : f[x] \in Int,
         NEW g, \A t \in T : g[t] = SumFunctionOnSet(f, Part[t])
  PROVE  SumFunctionOnSet(f, UNION {Part[t] : t \in T}) = SumFunctionOnSet(g, T)
<1> DEFINE All(U) == UNION {Part[t] : t \in U}
           Holds(U) == SumFunctionOnSet(f, All(U)) = SumFunctionOnSet(g, U)
           bad == {U \in SUBSET T : ~Holds(U)}
<1>1. SUFFICES ASSUME bad # {} PROVE FALSE
  OBVIOUS
<1>2. PICK U \in bad : \A n \in bad : ~(n \subseteq U /\ n # U)
  <2>1. bad \subseteq SUBSET T
    OBVIOUS
  <2> HIDE DEF bad
  <2> QED
    BY <1>1, <2>1, MinimalSubset
<1>3. PICK y : y \in U
  <2>1. Holds({})
    <3>1. All({}) = {}
      OBVIOUS
    <3> HIDE DEF All
    <3> QED
      BY <3>1, SumEmpty
  <2>2. U # {}
    <3> HIDE DEF Holds
    <3> QED
      BY <1>2, <2>1
  <2> QED
    BY <2>2
<1> DEFINE V == U \ {y}
<1>4. Holds(V)
  <2>1. V \in SUBSET T /\ V \subseteq U /\ V # U
    BY <1>3
  <2> HIDE DEF V, Holds
  <2> QED
    BY <1>2, <2>1
<1>5. IsFiniteSet(U) /\ IsFiniteSet(V) /\ IsFiniteSet(All(V)) /\ IsFiniteSet(Part[y])
  <2>1. IsFiniteSet(U) /\ IsFiniteSet(V)
    BY FS_Subset
  <2> DEFINE parts == {Part[t] : t \in V}
  <2>2. IsFiniteSet(parts)
    <3> HIDE DEF V
    <3> QED
      BY <2>1, FiniteImage
  <2>3. \A P \in parts : IsFiniteSet(P)
    OBVIOUS
  <2>4. IsFiniteSet(UNION parts)
    <3> HIDE DEF parts
    <3> QED
      BY <2>2, <2>3, FS_UNION
  <2> QED
    BY <1>3, <2>1, <2>4
<1>6. All(U) = All(V) \cup Part[y] /\ All(V) \cap Part[y] = {}
  BY <1>3
<1>7. \A x \in All(V) \cup Part[y] : f[x] \in Int
  BY <1>3
<1> HIDE DEF All
<1>8. SumFunctionOnSet(f, All(U)) = SumFunctionOnSet(f, All(V)) + SumFunctionOnSet(f, Part[y])
  <2> DEFINE A == All(V)
             B == Part[y]
  <2>1. IsFiniteSet(A) /\ IsFiniteSet(B) /\ A \cap B = {} /\ \A x \in A \cup B : f[x] \in Int
    BY <1>5, <1>6, <1>7
  <2>2. All(U) = A \cup B
    BY <1>6
  <2> HIDE DEF A, B
  <2>3. SumFunctionOnSet(f, A \cup B) = SumFunctionOnSet(f, A) + SumFunctionOnSet(f, B)
    BY <2>1, SumUnion
  <2> QED
    BY <2>2, <2>3 DEF A, B
<1>9. \A t \in U : g[t] \in Int
  <2> SUFFICES ASSUME NEW t \in U PROVE g[t] \in Int
    OBVIOUS
  <2>1. IsFiniteSet(Part[t]) /\ \A x \in Part[t] : f[x] \in Int
    OBVIOUS
  <2> QED
    BY <2>1, SumInt
<1>10. SumFunctionOnSet(g, U) = g[y] + SumFunctionOnSet(g, V)
  BY <1>3, <1>5, <1>9, SumTakeOut
<1>11. SumFunctionOnSet(f, All(V)) \in Int /\ g[y] \in Int /\ g[y] = SumFunctionOnSet(f, Part[y])
  BY <1>3, <1>5, <1>7, <1>9, SumInt
<1> HIDE DEF V
<1>12. Holds(U)
  BY <1>4, <1>8, <1>10, <1>11
<1> QED
  BY <1>2, <1>12

-----------------------------------------------------------------------------
(* What a list comprehension keeps *)

\* The table behind Kept exists, and its entries are built one from the other.
KeptBy(F, X, s, I) ==
  /\ Kept(s, I) = F[Len(s)]
  /\ F[0] = <<>>
  /\ \A n \in 1..Len(s) : F[n] = IF n \in I THEN Append(F[n - 1], s[n]) ELSE F[n - 1]
  /\ \A n \in 0..Len(s) : F[n] \in Seq(X)

\* ... where the parts are known to be the parts of one set.
PartsOf(S, T, Part) ==
  /\ \A t \in T : Part[t] \subseteq S /\ IsFiniteSet(Part[t])
  /\ \A x \in S : \E t \in T : x \in Part[t]
  /\ \A t, r \in T : t # r => Part[t] \cap Part[r] = {}

LEMMA SumOfPartition ==
  ASSUME NEW T, IsFiniteSet(T), NEW S, NEW Part, PartsOf(S, T, Part),
         NEW f, \A x \in S : f[x] \in Int,
         NEW g, \A t \in T : g[t] = SumFunctionOnSet(f, Part[t])
  PROVE  SumFunctionOnSet(f, S) = SumFunctionOnSet(g, T)
<1> USE DEF PartsOf
<1>1. UNION {Part[t] : t \in T} = S
  OBVIOUS
<1>2. SumFunctionOnSet(f, UNION {Part[t] : t \in T}) = SumFunctionOnSet(g, T)
  BY <1>1, SumOfParts
<1> QED
  BY <1>1, <1>2

LEMMA KeptTable ==
  ASSUME NEW X, NEW s \in Seq(X), NEW I
  PROVE  \E F : KeptBy(F, X, s, I)
<1> DEFINE N == Len(s)
           G == [p \in (1..N) \X Seq(X) |-> IF p[1] \in I THEN Append(p[2], s[p[1]]) ELSE p[2]]
           Fits(F) == F = [n \in 0..N |-> IF n = 0 THEN <<>>
                                        ELSE IF n \in I THEN Append(F[n - 1], s[n]) ELSE F[n - 1]]
<1>1. N \in Nat /\ \A n \in 1..N : s[n] \in X
  OBVIOUS
<1>2. \E F : Recursive(F, <<>>, G, N)
  <2> HIDE DEF G, N
  <2> QED
    BY <1>1, NatRecursion
<1>3. PICK F : F = [n \in 0..N |-> IF n = 0 THEN <<>> ELSE G[<<n, F[n - 1]>>]]
  <2> HIDE DEF G, N
  <2> QED
    BY <1>2 DEF Recursive
<1>4. \A n \in 1..N : \A x \in Seq(X) :
        G[<<n, x>>] = (IF n \in I THEN Append(x, s[n]) ELSE x) /\ G[<<n, x>>] \in Seq(X)
  BY <1>1
<1> HIDE DEF G, N
<1>5. F[0] = <<>> /\ \A n \in 1..N : F[n] = G[<<n, F[n - 1]>>]
  <2>1. \A n \in 0..N : F[n] = IF n = 0 THEN <<>> ELSE G[<<n, F[n - 1]>>]
    BY <1>3
  <2>2. 0 \in 0..N /\ \A n \in 1..N : n \in 0..N /\ n # 0
    BY <1>1
  <2> QED
    BY <2>1, <2>2
<1>6. \A n \in 0..N : F[n] \in Seq(X)
  <2> DEFINE bad == {n \in 0..N : F[n] \notin Seq(X)}
  <2>1. SUFFICES ASSUME bad # {} PROVE FALSE
    OBVIOUS
  <2>2. PICK m \in bad : \A n \in bad : m <= n
    <3>1. bad \subseteq Nat
      OBVIOUS
    <3> HIDE DEF bad
    <3> QED
      BY <2>1, <3>1, LeastElement
  <2>3. m # 0
    <3>1. F[0] \in Seq(X)
      BY <1>5, EmptySeq
    <3> QED
      BY <3>1
  <2>4. m \in 1..N /\ m - 1 \in 0..N /\ ~(m <= m - 1)
    BY <1>1, <2>3
  <2>5. F[m - 1] \in Seq(X)
    BY <2>2, <2>4
  <2> QED
    BY <1>4, <1>5, <2>2, <2>4, <2>5
<1>7. \A n \in 1..N : F[n] = IF n \in I THEN Append(F[n - 1], s[n]) ELSE F[n - 1]
  <2> SUFFICES ASSUME NEW n \in 1..N
               PROVE  F[n] = IF n \in I THEN Append(F[n - 1], s[n]) ELSE F[n - 1]
    OBVIOUS
  <2>1. n - 1 \in 0..N
    BY <1>1
  <2> QED
    BY <1>4, <1>5, <1>6, <2>1
<1>8. Fits(F)
  <2>1. \A n \in 0..N : n # 0 => n \in 1..N
    BY <1>1
  <2>2. F = [n \in 0..N |-> F[n]]
    BY <1>3
  <2>3. \A n \in 0..N : F[n] = IF n = 0 THEN <<>>
                            ELSE IF n \in I THEN Append(F[n - 1], s[n]) ELSE F[n - 1]
    BY <1>5, <1>7, <2>1
  <2> QED
    BY <2>2, <2>3
<1> DEFINE C == CHOOSE C : Fits(C)
<1>9. Fits(C)
  <2> HIDE DEF Fits
  <2> QED
    BY <1>8
<1>10. Kept(s, I) = C[N]
  BY DEF Kept, N
<1>11. C = F
  <2> DEFINE bad == {n \in 0..N : C[n] # F[n]}
  <2> HIDE DEF C
  <2>0. /\ \A n \in 0..N : C[n] = IF n = 0 THEN <<>>
                            ELSE IF n \in I THEN Append(C[n - 1], s[n]) ELSE C[n - 1]
        /\ C = [n \in 0..N |-> C[n]] /\ F = [n \in 0..N |-> F[n]]
    <3>1. F = [n \in 0..N |-> F[n]]
      BY <1>3
    <3> QED
      BY <1>9, <3>1
  <2>1. SUFFICES ASSUME bad # {} PROVE FALSE
    BY <2>0
  <2>2. PICK m \in bad : \A n \in bad : m <= n
    <3>1. bad \subseteq Nat
      OBVIOUS
    <3> HIDE DEF bad
    <3> QED
      BY <2>1, <3>1, LeastElement
  <2>3. m # 0
    BY <1>5, <2>0
  <2>4. m \in 1..N /\ m - 1 \in 0..N /\ ~(m <= m - 1) /\ m \in 0..N
    BY <1>1, <2>3
  <2>5. C[m - 1] = F[m - 1]
    BY <2>2, <2>4
  <2> QED
    BY <1>7, <2>0, <2>2, <2>3, <2>4, <2>5
<1>12. Kept(s, I) = F[N]
  BY <1>10, <1>11
<1> HIDE DEF C, Fits
<1>13. Kept(s, I) = F[Len(s)] /\ \A n \in 0..Len(s) : F[n] \in Seq(X)
  BY <1>6, <1>12 DEF N
<1>14. F[0] = <<>>
  BY <1>5
<1>15. \A n \in 1..Len(s) : F[n] = IF n \in I THEN Append(F[n - 1], s[n]) ELSE F[n - 1]
  BY <1>7 DEF N
<1> QED
  BY <1>13, <1>14, <1>15 DEF KeptBy

\* f says from which of the first n positions of s each entry of q comes: from
\* those in I, in order, each once.
Drawn(f, q, s, I, n) ==
  /\ f \in [1..Len(q) -> 1..n]
  /\ \A i, j \in 1..Len(q) : i < j => f[i] < f[j]
  /\ \A i \in 1..Len(q) : q[i] = s[f[i]] /\ f[i] \in I
  /\ \A m \in 1..n : m \in I => \E i \in 1..Len(q) : f[i] = m

LEMMA KeptDrawn ==
  ASSUME NEW X, NEW s \in Seq(X), NEW I
  PROVE  /\ Kept(s, I) \in Seq(X)
         /\ \E f : Drawn(f, Kept(s, I), s, I, Len(s))
<1>0. PICK F : KeptBy(F, X, s, I)
  BY KeptTable
<1>1. /\ Kept(s, I) = F[Len(s)]
      /\ F[0] = <<>>
      /\ \A n \in 1..Len(s) : F[n] = IF n \in I THEN Append(F[n - 1], s[n]) ELSE F[n - 1]
      /\ \A n \in 0..Len(s) : F[n] \in Seq(X)
  BY <1>0 DEF KeptBy
<1> DEFINE Holds(n) == \E f : Drawn(f, F[n], s, I, n)
           bad == {n \in 0..Len(s) : ~Holds(n)}
<1>2. Len(s) \in Nat /\ Len(s) \in 0..Len(s) /\ \A n \in 1..Len(s) : s[n] \in X
  OBVIOUS
<1>3. ASSUME bad # {} PROVE FALSE
  <2>1. PICK m \in bad : \A n \in bad : m <= n
    <3>1. bad \subseteq Nat
      OBVIOUS
    <3> HIDE DEF bad
    <3> QED
      BY <1>3, <3>1, LeastElement
  <2>2. m # 0
    <3>1. Len(F[0]) = 0 /\ 1..0 = {}
      BY <1>1
    <3>2. Drawn([i \in 1..0 |-> i], F[0], s, I, 0)
      BY <3>1 DEF Drawn
    <3> QED
      BY <2>1, <3>2
  <2>3. m \in 1..Len(s) /\ m - 1 \in 0..Len(s) /\ ~(m <= m - 1) /\ m \in Nat /\ m - 1 \in Nat
    BY <1>2, <2>2
  <2>4. PICK f : Drawn(f, F[m - 1], s, I, m - 1)
    BY <2>1, <2>3
  <2> DEFINE p == F[m - 1]
             L == Len(p)
  <2>5. p \in Seq(X) /\ L \in Nat
    BY <1>1, <2>3
  <2>6. CASE m \notin I
    <3>1. F[m] = p
      BY <1>1, <2>3, <2>6
    <3> HIDE DEF p
    <3>2. f \in [1..L -> 1..(m - 1)] /\ \A k \in 1..m : k # m => k \in 1..(m - 1)
      BY <2>3, <2>4 DEF Drawn, p
    <3>3. f \in [1..L -> 1..m]
      BY <2>3, <3>2
    <3>4. Drawn(f, F[m], s, I, m)
      BY <2>4, <2>6, <3>1, <3>2, <3>3 DEF Drawn, p
    <3> QED
      BY <2>1, <3>4
  <2>7. CASE m \in I
    <3> DEFINE q == Append(p, s[m])
               g == [i \in 1..(L + 1) |-> IF i = L + 1 THEN m ELSE f[i]]
    <3>1. F[m] = q
      BY <1>1, <2>3, <2>7
    <3>2. Len(q) = L + 1 /\ q[L + 1] = s[m] /\ \A i \in 1..L : q[i] = p[i]
      BY <1>2, <2>3, <2>5
    <3>3. /\ f \in [1..L -> 1..(m - 1)]
          /\ \A i, j \in 1..L : i < j => f[i] < f[j]
          /\ \A i \in 1..L : p[i] = s[f[i]] /\ f[i] \in I
          /\ \A k \in 1..(m - 1) : k \in I => \E i \in 1..L : f[i] = k
      BY <2>4 DEF Drawn
    <3> HIDE DEF p, q, L
    <3>4. /\ g[L + 1] = m /\ \A i \in 1..L : g[i] = f[i] /\ i # L + 1
          /\ L + 1 \in 1..(L + 1) /\ \A i \in 1..(L + 1) : i = L + 1 \/ i \in 1..L
      BY <2>5
    <3>5. g \in [1..(L + 1) -> 1..m]
      <4>1. \A i \in 1..(L + 1) : g[i] \in 1..m
        BY <2>3, <3>3, <3>4
      <4> QED
        BY <4>1
    <3>6. \A i, j \in 1..(L + 1) : i < j => g[i] < g[j]
      <4> SUFFICES ASSUME NEW i \in 1..(L + 1), NEW j \in 1..(L + 1), i < j
                   PROVE  g[i] < g[j]
        OBVIOUS
      <4>1. i \in 1..L /\ g[i] = f[i] /\ f[i] \in 1..(m - 1)
        BY <2>5, <3>3, <3>4
      <4> HIDE DEF g
      <4>2. CASE j = L + 1
        BY <2>3, <3>4, <4>1, <4>2
      <4>3. CASE j \in 1..L
        BY <3>3, <3>4, <4>1, <4>3
      <4> QED
        BY <3>4, <4>2, <4>3
    <3> HIDE DEF g
    <3>7. \A i \in 1..(L + 1) : q[i] = s[g[i]] /\ g[i] \in I
      BY <2>7, <3>2, <3>3, <3>4
    <3>8. \A k \in 1..m : k \in I => \E i \in 1..(L + 1) : g[i] = k
      <4> SUFFICES ASSUME NEW k \in 1..m, k \in I
                   PROVE  \E i \in 1..(L + 1) : g[i] = k
        OBVIOUS
      <4>1. CASE k = m
        BY <3>4, <4>1
      <4>2. CASE k # m
        <5>1. k \in 1..(m - 1)
          BY <2>3, <4>2
        <5>2. PICK i \in 1..L : f[i] = k
          BY <3>3, <5>1
        <5>3. i \in 1..(L + 1) /\ g[i] = k
          BY <2>5, <3>4, <5>2
        <5> QED
          BY <5>3
      <4> QED
        BY <4>1, <4>2
    <3>9. Drawn(g, F[m], s, I, m)
      BY <3>1, <3>2, <3>5, <3>6, <3>7, <3>8 DEF Drawn
    <3> QED
      BY <2>1, <3>9
  <2> QED
    BY <2>6, <2>7
<1>4. Holds(Len(s))
  <2> HIDE DEF Holds
  <2> QED
    BY <1>2, <1>3
<1> QED
  BY <1>1, <1>2, <1>4

\* What is kept are the entries at the given positions, each entry at a position.
LEMMA KeptEntries ==
  ASSUME NEW X, NEW s \in Seq(X), NEW I
  PROVE  /\ Kept(s, I) \in Seq(X)
         /\ \A i \in DOMAIN Kept(s, I) : \E m \in DOMAIN s : m \in I /\ Kept(s, I)[i] = s[m]
         /\ \A m \in DOMAIN s : m \in I => \E i \in DOMAIN Kept(s, I) : Kept(s, I)[i] = s[m]
<1> DEFINE q == Kept(s, I)
<1>1. q \in Seq(X)
  BY KeptDrawn
<1>2. PICK f : Drawn(f, q, s, I, Len(s))
  BY KeptDrawn
<1>3. DOMAIN q = 1..Len(q) /\ DOMAIN s = 1..Len(s)
  BY <1>1
<1> HIDE DEF q
<1>4. \A i \in DOMAIN q : \E m \in DOMAIN s : m \in I /\ q[i] = s[m]
  BY <1>2, <1>3 DEF Drawn
<1>5. \A m \in DOMAIN s : m \in I => \E i \in DOMAIN q : q[i] = s[m]
  <2> SUFFICES ASSUME NEW m \in 1..Len(s), m \in I
               PROVE  \E i \in 1..Len(q) : q[i] = s[m]
    BY <1>3
  <2>1. PICK i \in 1..Len(q) : f[i] = m
    BY <1>2 DEF Drawn
  <2> QED
    BY <1>2, <2>1 DEF Drawn
<1> QED
  BY <1>1, <1>4, <1>5 DEF q

LEMMA UpTo ==
  ASSUME NEW n \in Nat
  PROVE  IsFiniteSet(1..n) /\ Cardinality(1..n) = n
<1>1. IsFiniteSet(1..n) /\ Cardinality(1..n) = IF 1 > n THEN 0 ELSE n - 1 + 1
  BY FS_Interval
<1> QED
  BY <1>1

\* What is kept is no longer than there are positions to keep.
LEMMA KeptLength ==
  ASSUME NEW X, NEW s \in Seq(X), NEW I
  PROVE  Len(Kept(s, I)) \in Nat /\ Len(Kept(s, I)) <= Cardinality(I \cap 1..Len(s))
<1> DEFINE q == Kept(s, I)
           T == I \cap 1..Len(s)
<1>1. q \in Seq(X) /\ Len(q) \in Nat /\ Len(s) \in Nat
  BY KeptDrawn, LenProperties
<1>2. PICK f : Drawn(f, q, s, I, Len(s))
  BY KeptDrawn
<1> HIDE DEF q
<1>3. /\ f \in [1..Len(q) -> T]
      /\ \A i, j \in 1..Len(q) : i < j => f[i] < f[j]
  BY <1>2 DEF Drawn
<1>4. \A i, j \in 1..Len(q) : f[i] = f[j] => i = j
  <2> SUFFICES ASSUME NEW i \in 1..Len(q), NEW j \in 1..Len(q), f[i] = f[j], i # j
               PROVE  FALSE
    OBVIOUS
  <2>1. (i < j \/ j < i) /\ f[i] \in Int
    BY <1>1, <1>3
  <2> QED
    BY <1>3, <2>1
<1>5. f \in Injection(1..Len(q), T)
  BY <1>3, <1>4 DEF Injection, IsInjective
<1>6. IsFiniteSet(1..Len(s)) /\ IsFiniteSet(T) /\ Cardinality(1..Len(q)) = Len(q)
  <2>1. IsFiniteSet(1..Len(s)) /\ Cardinality(1..Len(q)) = Len(q)
    BY <1>1, UpTo
  <2> QED
    BY <2>1, FS_Subset
<1> HIDE DEF T
<1>7. Len(q) <= Cardinality(T)
  BY <1>5, <1>6, FS_Injection
<1> QED
  BY <1>1, <1>7 DEF q, T

\* Of n positions in a strict order, at most m have n - m or more before them.
Ordering(Lower, n) ==
  /\ Lower \in [1..n -> SUBSET (1..n)]
  /\ \A k \in 1..n : k \notin Lower[k]
  /\ \A j, k \in 1..n : j \in Lower[k] => Lower[j] \subseteq Lower[k]
  /\ \A j, k \in 1..n : j = k \/ j \in Lower[k] \/ k \in Lower[j]

LEMMA FewHaveManyBefore ==
  ASSUME NEW n \in Nat, NEW Lower, Ordering(Lower, n), NEW m \in 0..n
  PROVE  LET T == {k \in 1..n : Cardinality(Lower[k]) >= n - m}
         IN  IsFiniteSet(T) /\ Cardinality(T) <= m
<1> DEFINE T == {k \in 1..n : Cardinality(Lower[k]) >= n - m}
           rank == [k \in T |-> Cardinality(Lower[k])]
<1>1. IsFiniteSet(1..n) /\ Cardinality(1..n) = n
  BY FS_Interval
<1>2. ASSUME NEW j \in 1..n, NEW k \in 1..n, j \in Lower[k]
      PROVE  Cardinality(Lower[j]) < Cardinality(Lower[k])
  <2>1. Lower[j] \subseteq Lower[k] /\ Lower[k] \subseteq 1..n /\ Lower[j] # Lower[k]
    BY <1>2 DEF Ordering
  <2>2. IsFiniteSet(Lower[k])
    BY <1>1, <2>1, FS_Subset
  <2>3. IsFiniteSet(Lower[j]) /\ Cardinality(Lower[j]) <= Cardinality(Lower[k])
        /\ Cardinality(Lower[j]) # Cardinality(Lower[k])
    BY <2>1, <2>2, FS_Subset
  <2>4. Cardinality(Lower[j]) \in Nat /\ Cardinality(Lower[k]) \in Nat
    BY <2>2, <2>3, FS_CardinalityType
  <2> QED
    BY <2>3, <2>4
<1>3. ASSUME NEW k \in 1..n
      PROVE  Cardinality(Lower[k]) \in 0..(n - 1)
  <2>1. Lower[k] \subseteq 1..n /\ Lower[k] # 1..n
    BY DEF Ordering
  <2>2. IsFiniteSet(Lower[k]) /\ Cardinality(Lower[k]) <= n /\ Cardinality(Lower[k]) # n
    BY <1>1, <2>1, FS_Subset
  <2>3. Cardinality(Lower[k]) \in Nat
    BY <2>2, FS_CardinalityType
  <2> QED
    BY <2>2, <2>3
<1>4. rank \in [T -> (n - m)..(n - 1)]
  <2> SUFFICES ASSUME NEW k \in T
               PROVE  Cardinality(Lower[k]) \in (n - m)..(n - 1)
    OBVIOUS
  <2> QED
    BY <1>3
<1>5. ASSUME NEW j \in T, NEW k \in T, rank[j] = rank[k]
      PROVE  j = k
  <2>1. j \in 1..n /\ k \in 1..n /\ Cardinality(Lower[j]) = Cardinality(Lower[k])
    BY <1>5
  <2>2. Cardinality(Lower[j]) \in Int
    BY <1>3, <2>1
  <2> QED
    BY <1>2, <2>1, <2>2 DEF Ordering
<1>6. IsFiniteSet((n - m)..(n - 1)) /\ Cardinality((n - m)..(n - 1)) = m
  <2>1. n - m \in Int /\ n - 1 \in Int /\ m \in Nat
    OBVIOUS
  <2>2. IsFiniteSet((n - m)..(n - 1))
        /\ Cardinality((n - m)..(n - 1)) = IF n - m > n - 1 THEN 0 ELSE (n - 1) - (n - m) + 1
    BY <2>1, FS_Interval
  <2> QED
    BY <2>2
<1> HIDE DEF T, rank
<1>7. rank \in Injection(T, (n - m)..(n - 1))
  BY <1>4, <1>5 DEF Injection, IsInjective
<1>8. IsFiniteSet(T) /\ Cardinality(T) <= Cardinality((n - m)..(n - 1))
  BY <1>6, <1>7, FS_Injection
<1> QED
  BY <1>6, <1>8 DEF T

\* q is s with some entries left out.
Within(q, s) ==
  \E f \in [1..Len(q) -> 1..Len(s)] :
    /\ \A i, j \in 1..Len(q) : i < j => f[i] < f[j]
    /\ \A i \in 1..Len(q) : q[i] = s[f[i]]

LEMMA WithinSelf ==
  ASSUME NEW s
  PROVE  Within(s, s)
<1> DEFINE f == [i \in 1..Len(s) |-> i]
<1>1. f \in [1..Len(s) -> 1..Len(s)] /\ \A i \in 1..Len(s) : f[i] = i
  OBVIOUS
<1> HIDE DEF f
<1> QED
  BY <1>1 DEF Within

LEMMA WithinTransitive ==
  ASSUME NEW r, NEW q, NEW s, Within(r, q), Within(q, s)
  PROVE  Within(r, s)
<1>1. PICK f \in [1..Len(r) -> 1..Len(q)] :
        /\ \A i, j \in 1..Len(r) : i < j => f[i] < f[j]
        /\ \A i \in 1..Len(r) : r[i] = q[f[i]]
  BY DEF Within
<1>2. PICK g \in [1..Len(q) -> 1..Len(s)] :
        /\ \A i, j \in 1..Len(q) : i < j => g[i] < g[j]
        /\ \A i \in 1..Len(q) : q[i] = s[g[i]]
  BY DEF Within
<1> DEFINE h == [i \in 1..Len(r) |-> g[f[i]]]
<1>3. h \in [1..Len(r) -> 1..Len(s)] /\ \A i \in 1..Len(r) : h[i] = g[f[i]] /\ f[i] \in 1..Len(q)
  BY <1>1, <1>2
<1> HIDE DEF h
<1>4. \A i, j \in 1..Len(r) : i < j => h[i] < h[j]
  BY <1>1, <1>2, <1>3
<1>5. \A i \in 1..Len(r) : r[i] = s[h[i]]
  BY <1>1, <1>2, <1>3
<1> QED
  BY <1>3, <1>4, <1>5 DEF Within

LEMMA KeptWithin ==
  ASSUME NEW X, NEW s \in Seq(X), NEW I
  PROVE  Kept(s, I) \in Seq(X) /\ Within(Kept(s, I), s)
<1>1. PICK f : Drawn(f, Kept(s, I), s, I, Len(s))
  BY KeptDrawn
<1> QED
  BY <1>1, KeptDrawn DEF Drawn, Within

LEMMA WithinEntries ==
  ASSUME NEW q, NEW s, Within(q, s)
  PROVE  \A i \in 1..Len(q) : \E k \in 1..Len(s) : q[i] = s[k]
BY DEF Within

\* Two entries of what is left come from two entries of the whole, in the same
\* order, so a property of every two entries carries over.
LEMMA WithinShorter ==
  ASSUME NEW X, NEW q \in Seq(X), NEW s \in Seq(X), Within(q, s)
  PROVE  Len(q) <= Len(s)
<1>1. PICK f \in [1..Len(q) -> 1..Len(s)] :
        \A i, j \in 1..Len(q) : i < j => f[i] < f[j]
  BY DEF Within
<1>2. Len(q) \in Nat /\ Len(s) \in Nat
  OBVIOUS
<1>3. \A i, j \in 1..Len(q) : f[i] = f[j] => i = j
  <2> SUFFICES ASSUME NEW i \in 1..Len(q), NEW j \in 1..Len(q), f[i] = f[j], i # j
               PROVE  FALSE
    OBVIOUS
  <2>1. (i < j \/ j < i) /\ f[i] \in Int
    BY <1>1, <1>2
  <2> QED
    BY <1>1, <2>1
<1>4. f \in Injection(1..Len(q), 1..Len(s))
  BY <1>1, <1>3 DEF Injection, IsInjective
<1>5. /\ IsFiniteSet(1..Len(s)) /\ Cardinality(1..Len(s)) = Len(s)
      /\ Cardinality(1..Len(q)) = Len(q)
  BY <1>2, UpTo
<1>6. Cardinality(1..Len(q)) <= Cardinality(1..Len(s))
  BY <1>4, <1>5, FS_Injection
<1> QED
  BY <1>5, <1>6

\* The entries i and j of q stand in s, in their order.
Paired(q, s, i, j) ==
  \E k, l \in 1..Len(s) :
    /\ q[i] = s[k] /\ q[j] = s[l]
    /\ (k < l => i < j) /\ (k = l => i = j)

LEMMA WithinPairs ==
  ASSUME NEW q, NEW s, Within(q, s), NEW i \in 1..Len(q), NEW j \in 1..Len(q)
  PROVE  Paired(q, s, i, j)
<1>1. PICK f \in [1..Len(q) -> 1..Len(s)] :
        /\ \A m, n \in 1..Len(q) : m < n => f[m] < f[n]
        /\ \A m \in 1..Len(q) : q[m] = s[f[m]]
  BY DEF Within
<1>2. f[i] \in 1..Len(s) /\ f[j] \in 1..Len(s) /\ q[i] = s[f[i]] /\ q[j] = s[f[j]]
  BY <1>1
<1>3. (f[i] < f[j] => i < j) /\ (f[i] = f[j] => i = j)
  <2>1. (i < j => f[i] < f[j]) /\ (j < i => f[j] < f[i])
    BY <1>1
  <2> QED
    BY <1>2, <2>1
<1> QED
  BY <1>2, <1>3 DEF Paired

LEMMA WithinDistinct ==
  ASSUME NEW q, NEW s, Within(q, s), \A k, l \in 1..Len(s) : s[k] = s[l] => k = l,
         NEW i \in 1..Len(q), NEW j \in 1..Len(q), q[i] = q[j]
  PROVE  i = j
<1>1. Paired(q, s, i, j)
  BY WithinPairs
<1> QED
  BY <1>1 DEF Paired

\* Flattening lists of X gives a list of X.
LEMMA FlattenTyped ==
  ASSUME NEW X, NEW ss \in Seq(Seq(X))
  PROVE  FlattenSeq(ss) \in Seq(X)
<1>1. CASE Len(ss) = 0
  <2>1. ss = <<>>
    BY <1>1, EmptySeq
  <2> QED
    BY <1>1, <2>1, EmptySeq DEF FlattenSeq
<1>2. CASE Len(ss) # 0
  <2> DEFINE L == Len(ss)
             Fits(F) == F = [i \in 1..L |-> IF i = 1 THEN ss[i] ELSE F[i - 1] \o ss[i]]
             G == [p \in (1..(L - 1)) \X Seq(X) |-> p[2] \o ss[p[1] + 1]]
  <2>1. L \in Nat \ {0} /\ L - 1 \in Nat /\ \A i \in 1..L : ss[i] \in Seq(X)
    BY <1>2
  <2>2. G \in [(1..(L - 1)) \X Seq(X) -> Seq(X)]
        /\ \A n \in 1..(L - 1) : \A x \in Seq(X) : G[<<n, x>>] = x \o ss[n + 1]
    <3>1. ASSUME NEW n \in 1..(L - 1), NEW x \in Seq(X)
          PROVE  x \o ss[n + 1] \in Seq(X)
      <4>1. ss[n + 1] \in Seq(X)
        BY <2>1
      <4> QED
        BY <4>1, ConcatProperties
    <3> QED
      BY <3>1
  <2>3. ss[1] \in Seq(X)
    BY <2>1
  <2> HIDE DEF L, G
  <2>4. PICK F \in [0..(L - 1) -> Seq(X)] :
          F[0] = ss[1] /\ \A n \in 1..(L - 1) : F[n] = G[<<n, F[n - 1]>>]
    <3> DEFINE V == Seq(X)
               M == L - 1
               a == ss[1]
    <3>1. a \in V /\ M \in Nat /\ G \in [(1..M) \X V -> V]
      BY <2>1, <2>2, <2>3
    <3> HIDE DEF V, M, a
    <3>2. \E F : Steps(F, a, G, M, V)
      BY <3>1, StepTable
    <3> QED
      BY <3>2 DEF V, M, a, Steps
  <2> DEFINE H == [i \in 1..L |-> F[i - 1]]
  <2>5. ASSUME NEW i \in 1..L
        PROVE  H[i] = IF i = 1 THEN ss[i] ELSE H[i - 1] \o ss[i]
    <3>1. CASE i = 1
      BY <2>4, <3>1
    <3>2. CASE i # 1
      <4>1. i - 1 \in 1..(L - 1) /\ i - 1 \in 1..L /\ (i - 1) - 1 \in 0..(L - 1) /\ (i - 1) + 1 = i
        BY <2>1, <3>2
      <4>2. F[i - 1] = F[(i - 1) - 1] \o ss[(i - 1) + 1]
        BY <2>2, <2>4, <4>1
      <4>3. H[i] = F[i - 1] /\ H[i - 1] = F[(i - 1) - 1]
        BY <4>1
      <4> HIDE DEF H
      <4> QED
        BY <3>2, <4>1, <4>2, <4>3
    <3> QED
      BY <3>1, <3>2
  <2>6. H = [i \in 1..L |-> H[i]]
    OBVIOUS
  <2> HIDE DEF H
  <2>7. Fits(H)
    BY <2>5, <2>6
  <2> DEFINE C == CHOOSE C : Fits(C)
  <2>8. Fits(C)
    <3> HIDE DEF Fits
    <3> QED
      BY <2>7
  <2>9. FlattenSeq(ss) = C[L]
    BY <1>2 DEF FlattenSeq, L
  <2>10. \A i \in 1..L : C[i] = IF i = 1 THEN ss[i] ELSE C[i - 1] \o ss[i]
    <3> HIDE DEF C
    <3> QED
      BY <2>8
  <2> HIDE DEF C
  <2> DEFINE P == {n \in 0..(L - 1) : C[n + 1] \in Seq(X)}
  <2>11. 0 \in P
    BY <2>1, <2>3, <2>10
  <2>12. \A n \in 1..(L - 1) : n - 1 \in P => n \in P
    <3> SUFFICES ASSUME NEW n \in 1..(L - 1), C[(n - 1) + 1] \in Seq(X)
                 PROVE  C[n + 1] \in Seq(X)
      BY <2>1
    <3>1. n + 1 \in 1..L /\ n + 1 # 1 /\ (n + 1) - 1 = (n - 1) + 1
      BY <2>1
    <3>2. C[n + 1] = C[(n - 1) + 1] \o ss[n + 1] /\ ss[n + 1] \in Seq(X)
      BY <2>1, <2>10, <3>1
    <3> QED
      BY <3>2, ConcatProperties
  <2>13. \A n \in 0..(L - 1) : n \in P
    <3> HIDE DEF P
    <3> QED
      BY <2>1, <2>11, <2>12, Upward
  <2>14. L - 1 \in 0..(L - 1) /\ (L - 1) + 1 = L
    BY <2>1
  <2> QED
    BY <2>9, <2>13, <2>14
<1> QED
  BY <1>1, <1>2

-----------------------------------------------------------------------------
(* Largest elements and shares of a whole *)

LEMMA LargestElement ==
  ASSUME NEW S, IsFiniteSet(S), S # {}, NEW h, \A x \in S : h[x] \in Int
  PROVE  \E m \in S : \A x \in S : h[x] <= h[m]
<1> DEFINE Has(T) == \E m \in T : \A x \in T : h[x] <= h[m]
           bad == {T \in SUBSET S : T # {} /\ ~Has(T)}
<1>1. SUFFICES ASSUME bad # {} PROVE FALSE
  OBVIOUS
<1>2. PICK T \in bad : \A n \in bad : ~(n \subseteq T /\ n # T)
  <2>1. bad \subseteq SUBSET S
    OBVIOUS
  <2> HIDE DEF bad
  <2> QED
    BY <1>1, <2>1, MinimalSubset
<1>3. PICK y : y \in T
  OBVIOUS
<1> DEFINE V == T \ {y}
<1>4. V = {} \/ Has(V)
  <2>1. V \in SUBSET S /\ V \subseteq T /\ V # T
    BY <1>3
  <2> QED
    BY <1>2, <2>1
<1>5. CASE V = {}
  <2>1. \A x \in T : x = y
    BY <1>5
  <2> QED
    BY <1>3, <2>1
<1>6. CASE Has(V)
  <2>1. PICK m \in V : \A x \in V : h[x] <= h[m]
    BY <1>6
  <2>2. h[m] \in Int /\ h[y] \in Int /\ \A x \in T : h[x] \in Int /\ (x = y \/ x \in V)
    BY <1>3
  <2>3. CASE h[m] <= h[y]
    BY <1>3, <2>1, <2>2, <2>3
  <2>4. CASE h[y] <= h[m]
    BY <2>1, <2>2, <2>4
  <2> QED
    BY <2>2, <2>3, <2>4
<1> QED
  BY <1>4, <1>5, <1>6

LEMMA ProductOfSum ==
  ASSUME NEW u \in Int, NEW v \in Int, NEW W \in Int
  PROVE  (u + v) * W = u * W + v * W /\ W * (u + v) = W * u + W * v
OBVIOUS

\* Parts p of R in proportion to weights w of W in all, each less than one short
\* (or none in excess): so is their sum, by less than one for each of them.
LEMMA PartsShort ==
  ASSUME NEW S, IsFiniteSet(S), NEW p, NEW w, NEW W \in Nat, NEW R \in Nat,
         \A x \in S : p[x] \in Int /\ w[x] \in Int /\ (p[x] + 1) * W >= R * w[x]
  PROVE  (SumFunctionOnSet(p, S) + Cardinality(S)) * W >= R * SumFunctionOnSet(w, S)
<1> DEFINE Holds(T) == (SumFunctionOnSet(p, T) + Cardinality(T)) * W >= R * SumFunctionOnSet(w, T)
           bad == {T \in SUBSET S : ~Holds(T)}
<1>1. SUFFICES ASSUME bad # {} PROVE FALSE
  OBVIOUS
<1>2. PICK T \in bad : \A n \in bad : ~(n \subseteq T /\ n # T)
  <2>1. bad \subseteq SUBSET S
    OBVIOUS
  <2> HIDE DEF bad
  <2> QED
    BY <1>1, <2>1, MinimalSubset
<1>3. PICK y : y \in T
  <2>1. Holds({})
    BY SumEmpty, FS_EmptySet
  <2> QED
    BY <1>2, <2>1
<1> DEFINE V == T \ {y}
           a == SumFunctionOnSet(p, V)
           n == Cardinality(V)
           b == SumFunctionOnSet(w, V)
<1>4. Holds(V)
  <2>1. V \in SUBSET S /\ V \subseteq T /\ V # T
    BY <1>3
  <2> QED
    BY <1>2, <2>1
<1>5. IsFiniteSet(T) /\ IsFiniteSet(V) /\ \A x \in T : p[x] \in Int /\ w[x] \in Int
  BY FS_Subset
<1>6. SumFunctionOnSet(p, T) = p[y] + a /\ SumFunctionOnSet(w, T) = w[y] + b
  BY <1>3, <1>5, SumTakeOut
<1>7. a \in Int /\ b \in Int /\ n \in Int /\ p[y] \in Int /\ w[y] \in Int
  BY <1>3, <1>5, SumInt, FS_CardinalityType
<1>8. Cardinality(T) = n + 1
  BY <1>3, <1>5, FS_RemoveElement, FS_CardinalityType
<1>9. (a + n) * W >= R * b /\ (p[y] + 1) * W >= R * w[y]
  BY <1>3, <1>4
<1> HIDE DEF a, b, n
<1>10. ((p[y] + a) + (n + 1)) * W = (a + n) * W + (p[y] + 1) * W
       /\ R * (w[y] + b) = R * w[y] + R * b
  <2>1. (p[y] + a) + (n + 1) = (a + n) + (p[y] + 1) /\ a + n \in Int /\ p[y] + 1 \in Int
    BY <1>7
  <2>2. ((a + n) + (p[y] + 1)) * W = (a + n) * W + (p[y] + 1) * W
    BY <2>1, ProductOfSum
  <2>3. R * (w[y] + b) = R * w[y] + R * b
    BY <1>7, ProductOfSum
  <2> QED
    BY <2>1, <2>2, <2>3
<1>11. ((p[y] + a) + (n + 1)) * W >= R * (w[y] + b)
  <2> DEFINE k == (a + n) * W
             l == (p[y] + 1) * W
             r == R * w[y]
             q == R * b
  <2>1. k \in Int /\ l \in Int /\ r \in Int /\ q \in Int /\ k >= q /\ l >= r
    BY <1>7, <1>9
  <2>2. k + l >= r + q
    <3> HIDE DEF k, l, r, q
    <3> QED
      BY <2>1
  <2> QED
    BY <1>10, <2>2
<1> QED
  BY <1>2, <1>6, <1>8, <1>11

LEMMA PartsFit ==
  ASSUME NEW S, IsFiniteSet(S), NEW p, NEW w, NEW W \in Nat, NEW R \in Nat,
         \A x \in S : p[x] \in Int /\ w[x] \in Int /\ p[x] * W <= R * w[x]
  PROVE  SumFunctionOnSet(p, S) * W <= R * SumFunctionOnSet(w, S)
<1> DEFINE Holds(T) == SumFunctionOnSet(p, T) * W <= R * SumFunctionOnSet(w, T)
           bad == {T \in SUBSET S : ~Holds(T)}
<1>1. SUFFICES ASSUME bad # {} PROVE FALSE
  OBVIOUS
<1>2. PICK T \in bad : \A n \in bad : ~(n \subseteq T /\ n # T)
  <2>1. bad \subseteq SUBSET S
    OBVIOUS
  <2> HIDE DEF bad
  <2> QED
    BY <1>1, <2>1, MinimalSubset
<1>3. PICK y : y \in T
  <2>1. Holds({})
    BY SumEmpty
  <2> QED
    BY <1>2, <2>1
<1> DEFINE V == T \ {y}
           a == SumFunctionOnSet(p, V)
           b == SumFunctionOnSet(w, V)
<1>4. Holds(V)
  <2>1. V \in SUBSET S /\ V \subseteq T /\ V # T
    BY <1>3
  <2> QED
    BY <1>2, <2>1
<1>5. IsFiniteSet(T) /\ IsFiniteSet(V) /\ \A x \in T : p[x] \in Int /\ w[x] \in Int
  BY FS_Subset
<1>6. SumFunctionOnSet(p, T) = p[y] + a /\ SumFunctionOnSet(w, T) = w[y] + b
  BY <1>3, <1>5, SumTakeOut
<1>7. a \in Int /\ b \in Int /\ p[y] \in Int /\ w[y] \in Int
  BY <1>3, <1>5, SumInt
<1>8. a * W <= R * b /\ p[y] * W <= R * w[y]
  BY <1>3, <1>4
<1> HIDE DEF a, b
<1>9. (p[y] + a) * W = p[y] * W + a * W /\ R * (w[y] + b) = R * w[y] + R * b
  BY <1>7
<1>10. (p[y] + a) * W <= R * (w[y] + b)
  <2> DEFINE k == a * W
             l == p[y] * W
             r == R * w[y]
             q == R * b
  <2>1. k \in Int /\ l \in Int /\ r \in Int /\ q \in Int /\ k <= q /\ l <= r
    BY <1>7, <1>8
  <2>2. l + k <= r + q
    <3> HIDE DEF k, l, r, q
    <3> QED
      BY <2>1
  <2> QED
    BY <1>9, <2>2
<1> QED
  BY <1>2, <1>6, <1>10
=============================================================================

------------------------------ MODULE FoldLemmas ------------------------------
(***************************************************************************)
(* What folds over finite sets and sequences compute: facts for proofs     *)
(* about operators that the models take from the community modules.  A     *)
(* fold is there a function on the subsets of a set that is defined by     *)
(* recursion.  That there is such a function, and what it returns, is      *)
(* shown by looking at the smallest set for which it fails.                *)
(***************************************************************************)
EXTENDS Integers, FiniteSets, WellFoundedInduction, FiniteSetTheorems, TLAPS

(* A set of naturals that is not empty has a least element.                 *)
LEMMA LeastNat ==
  ASSUME NEW T \in SUBSET Nat, T # {}
  PROVE  \E n \in T : \A m \in T : n <= m
  <1> DEFINE R == {ss \in Nat \X Nat : ss[1] < ss[2]}
  <1>1. IsWellFoundedOn(R, Nat)
    BY NatLessThanWellFounded DEF OpToRel
  <1>2. \A x, y \in T : ~(<<y, x>> \in R) => x <= y
    OBVIOUS
  <1>. HIDE DEF R
  <1>3. \E x \in T : \A y \in T : ~(<<y, x>> \in R)
    BY <1>1, WFMin
  <1>. QED BY <1>2, <1>3

(* A set of naturals that has 0, and with n the next, has them all.         *)
LEMMA AllNaturals ==
  ASSUME NEW T, 0 \in T, \A n \in Nat : n \in T => n + 1 \in T
  PROVE  Nat \subseteq T
  <1> SUFFICES ASSUME Nat \ T # {}
               PROVE  FALSE
    OBVIOUS
  <1>1. PICK n \in Nat \ T : \A m \in Nat \ T : n <= m
    BY LeastNat
  <1>2. n # 0 /\ n - 1 \in Nat
    BY <1>1
  <1>3. n - 1 \in T
    BY <1>1, <1>2
  <1>. QED BY <1>1, <1>2, <1>3

-----------------------------------------------------------------------------
(* Recursion over the subsets of a set, taking an element away.             *)
Smaller(S, n) == {s \in SUBSET S : Cardinality(s) <= n}

Computes(f, D, base, pick, step) ==
  \A s \in D : f[s] = IF s = {} THEN base ELSE step[<<pick[s], f[s \ {pick[s]}]>>]

LEMMA OneLess ==
  ASSUME NEW S, IsFiniteSet(S), NEW s \in SUBSET S, NEW x \in s
  PROVE  /\ s \ {x} \in SUBSET S
         /\ Cardinality(s \ {x}) = Cardinality(s) - 1
         /\ Cardinality(s) \in Nat /\ Cardinality(s) > 0
  <1>1. IsFiniteSet(s)
    BY FS_Subset
  <1>2. Cardinality(s) \in Nat /\ Cardinality(s \ {x}) = Cardinality(s) - 1
    BY <1>1, FS_RemoveElement, FS_CardinalityType
  <1>3. Cardinality(s) # 0
    BY <1>1, FS_EmptySet
  <1>. QED BY <1>2, <1>3

LEMMA OneStepFurther ==
  ASSUME NEW S, IsFiniteSet(S), NEW V, NEW base \in V, NEW pick, NEW step,
         \A s \in SUBSET S : s # {} => pick[s] \in s,
         \A x \in S, v \in V : step[<<x, v>>] \in V,
         NEW n \in Nat, NEW f \in [Smaller(S, n) -> V],
         Computes(f, Smaller(S, n), base, pick, step)
  PROVE  \E g \in [Smaller(S, n + 1) -> V] : Computes(g, Smaller(S, n + 1), base, pick, step)
  <1> DEFINE D == Smaller(S, n)
             E == Smaller(S, n + 1)
             g == [s \in E |-> IF s = {} THEN base ELSE step[<<pick[s], f[s \ {pick[s]}]>>]]
  <1>1. \A s \in E : s # {} => pick[s] \in s /\ s \ {pick[s]} \in D /\ pick[s] \in S
    BY OneLess DEF Smaller
  <1>2. \A s \in E : s # {} => f[s \ {pick[s]}] \in V
    BY <1>1
  <1>3. g \in [E -> V]
    BY <1>1, <1>2
  <1>4. D \subseteq E
    <2>1. \A s \in SUBSET S : Cardinality(s) \in Nat
      BY FS_Subset, FS_CardinalityType
    <2>. QED BY <2>1 DEF Smaller
  <1>5. \A s \in D : g[s] = f[s]
    BY <1>4 DEF Computes
  <1>6. \A s \in E : g[s] = IF s = {} THEN base ELSE step[<<pick[s], g[s \ {pick[s]}]>>]
    BY <1>1, <1>5
  <1>. HIDE DEF g
  <1>. QED BY <1>3, <1>6 DEF Computes

LEMMA RecursionExists ==
  ASSUME NEW S, IsFiniteSet(S), NEW V, NEW base \in V, NEW pick, NEW step,
         \A s \in SUBSET S : s # {} => pick[s] \in s,
         \A x \in S, v \in V : step[<<x, v>>] \in V
  PROVE  \E f \in [SUBSET S -> V] : Computes(f, SUBSET S, base, pick, step)
  <1> DEFINE T == {n \in Nat : \E f \in [Smaller(S, n) -> V] :
                                 Computes(f, Smaller(S, n), base, pick, step)}
  <1>1. 0 \in T
    <2>1. \A s \in Smaller(S, 0) : s = {}
      BY FS_Subset, FS_EmptySet, FS_CardinalityType DEF Smaller
    <2> DEFINE f == [s \in Smaller(S, 0) |-> base]
    <2>2. f \in [Smaller(S, 0) -> V] /\ Computes(f, Smaller(S, 0), base, pick, step)
      BY <2>1 DEF Computes
    <2>. HIDE DEF f
    <2>. QED BY <2>2
  <1>2. ASSUME NEW n \in Nat, n \in T
        PROVE  n + 1 \in T
    <2>1. PICK f \in [Smaller(S, n) -> V] : Computes(f, Smaller(S, n), base, pick, step)
      BY <1>2
    <2>2. \E h \in [Smaller(S, n + 1) -> V] :
            Computes(h, Smaller(S, n + 1), base, pick, step)
      BY <2>1, OneStepFurther
    <2>. QED BY <2>2
  <1>. HIDE DEF T
  <1>3. Nat \subseteq T
    BY <1>1, <1>2, AllNaturals
  <1>4. Cardinality(S) \in Nat
    BY FS_CardinalityType
  <1>5. Smaller(S, Cardinality(S)) = SUBSET S
    BY FS_Subset DEF Smaller
  <1>6. Cardinality(S) \in T
    BY <1>3, <1>4
  <1>7. \E f \in [Smaller(S, Cardinality(S)) -> V] :
          Computes(f, Smaller(S, Cardinality(S)), base, pick, step)
    BY <1>6 DEF T
  <1>. QED BY <1>5, <1>7

(* Two computations agree where both are defined.                           *)
LEMMA RecursionUnique ==
  ASSUME NEW S, IsFiniteSet(S), NEW base, NEW pick, NEW step, NEW f, NEW g,
         \A s \in SUBSET S : s # {} => pick[s] \in s,
         Computes(f, SUBSET S, base, pick, step),
         Computes(g, SUBSET S, base, pick, step)
  PROVE  \A s \in SUBSET S : f[s] = g[s]
  <1> DEFINE T == {n \in Nat : \A s \in Smaller(S, n) : f[s] = g[s]}
  <1>1. 0 \in T
    <2>1. \A s \in Smaller(S, 0) : s = {}
      BY FS_Subset, FS_EmptySet, FS_CardinalityType DEF Smaller
    <2>. QED BY <2>1 DEF Computes
  <1>2. \A n \in Nat : n \in T => n + 1 \in T
    <2> SUFFICES ASSUME NEW n \in Nat, n \in T, NEW s \in Smaller(S, n + 1)
                 PROVE  f[s] = g[s]
      OBVIOUS
    <2>3. CASE s = {}
      BY <2>3 DEF Computes, Smaller
    <2>4. CASE s # {}
     <3>1. s \in SUBSET S /\ pick[s] \in s /\ s \ {pick[s]} \in Smaller(S, n)
       BY <2>4, OneLess DEF Smaller
     <3>2. f[s \ {pick[s]}] = g[s \ {pick[s]}]
       BY <3>1
     <3>. QED BY <2>4, <3>1, <3>2 DEF Computes
    <2>. QED BY <2>3, <2>4
  <1>. HIDE DEF T
  <1>3. Nat \subseteq T
    BY <1>1, <1>2, AllNaturals
  <1>4. Cardinality(S) \in T
    BY <1>3, FS_CardinalityType
  <1>5. \A s \in SUBSET S : s \in Smaller(S, Cardinality(S))
    BY FS_Subset DEF Smaller
  <1>. QED BY <1>4, <1>5 DEF T

-----------------------------------------------------------------------------
(* Sums.  Sum(h, S) is what MapThenSumSet returns for the values h[x] of    *)
(* the elements of S.                                                       *)
Pick(s) == CHOOSE x \in s : TRUE

SumsUp(f, h, S) ==
  f = [s \in SUBSET S |-> IF s = {} THEN 0 ELSE h[Pick(s)] + f[s \ {Pick(s)}]]

Sum(h, S) == (CHOOSE f : SumsUp(f, h, S))[S]

LEMMA Picked == \A s : s # {} => Pick(s) \in s
  BY DEF Pick

(* Sums as a recursion of the general form.                                 *)
LEMMA SumsCompute ==
  ASSUME NEW S, NEW h, \A x \in S : h[x] \in Nat,
         NEW pick, pick = [s \in SUBSET S |-> Pick(s)],
         NEW step, step = [u \in S \X Nat |-> h[u[1]] + u[2]],
         NEW f \in [SUBSET S -> Nat]
  PROVE  SumsUp(f, h, S) <=> Computes(f, SUBSET S, 0, pick, step)
  <1>1. \A s \in SUBSET S : s # {} =>
          /\ pick[s] = Pick(s) /\ Pick(s) \in S /\ s \ {Pick(s)} \in SUBSET S
    BY Picked
  <1>2. \A s \in SUBSET S : s # {} =>
          step[<<pick[s], f[s \ {pick[s]}]>>] = h[Pick(s)] + f[s \ {Pick(s)}]
    BY <1>1
  <1>3. Computes(f, SUBSET S, 0, pick, step) <=>
          \A s \in SUBSET S :
            f[s] = IF s = {} THEN 0 ELSE h[Pick(s)] + f[s \ {Pick(s)}]
    BY <1>2 DEF Computes
  <1>4. SumsUp(f, h, S) <=>
          \A s \in SUBSET S :
            f[s] = IF s = {} THEN 0 ELSE h[Pick(s)] + f[s \ {Pick(s)}]
    BY DEF SumsUp
  <1>. QED BY <1>3, <1>4

LEMMA SumExists ==
  ASSUME NEW S, IsFiniteSet(S), NEW h, \A x \in S : h[x] \in Nat
  PROVE  \E f \in [SUBSET S -> Nat] : SumsUp(f, h, S)
  <1> DEFINE pick == [s \in SUBSET S |-> Pick(s)]
             step == [u \in S \X Nat |-> h[u[1]] + u[2]]
  <1>1. \A s \in SUBSET S : s # {} => pick[s] \in s
    BY Picked
  <1>2. \A x \in S, v \in Nat : step[<<x, v>>] \in Nat
    OBVIOUS
  <1>3. pick = [s \in SUBSET S |-> Pick(s)] /\ step = [u \in S \X Nat |-> h[u[1]] + u[2]]
    OBVIOUS
  <1>. HIDE DEF pick, step
  <1>4. PICK f \in [SUBSET S -> Nat] : Computes(f, SUBSET S, 0, pick, step)
    BY <1>1, <1>2, RecursionExists
  <1>. QED BY <1>3, <1>4, SumsCompute

(* A function that sums up over the parts of S has naturals as values.      *)
LEMMA SumsAreNatural ==
  ASSUME NEW S, IsFiniteSet(S), NEW h, \A x \in S : h[x] \in Nat,
         NEW f, SumsUp(f, h, S)
  PROVE  f \in [SUBSET S -> Nat]
  <1> DEFINE T == {n \in Nat : \A s \in Smaller(S, n) : f[s] \in Nat}
  <1>1. \A s \in SUBSET S :
          f[s] = IF s = {} THEN 0 ELSE h[Pick(s)] + f[s \ {Pick(s)}]
    BY DEF SumsUp
  <1>2. 0 \in T
    <2>1. \A s \in Smaller(S, 0) : s = {}
      BY FS_Subset, FS_EmptySet, FS_CardinalityType DEF Smaller
    <2>2. \A s \in Smaller(S, 0) : f[s] = 0
      BY <2>1, <1>1 DEF Smaller
    <2>. QED BY <2>2
  <1>3. ASSUME NEW n \in Nat, n \in T
        PROVE  n + 1 \in T
    <2> SUFFICES ASSUME NEW s \in Smaller(S, n + 1)
                 PROVE  f[s] \in Nat
      OBVIOUS
    <2>0. s \in SUBSET S
      BY DEF Smaller
    <2>1. CASE s = {}
      BY <2>0, <2>1, <1>1
    <2>2. CASE s # {}
      <3>1. Pick(s) \in S /\ s \ {Pick(s)} \in Smaller(S, n)
        BY <2>2, OneLess, Picked DEF Smaller
      <3>2. h[Pick(s)] \in Nat /\ f[s \ {Pick(s)}] \in Nat
        BY <1>3, <3>1
      <3>. QED BY <2>0, <2>2, <3>2, <1>1
    <2>. QED BY <2>1, <2>2
  <1>. HIDE DEF T
  <1>4. Cardinality(S) \in T
    BY <1>2, <1>3, AllNaturals, FS_CardinalityType
  <1>5. \A s \in SUBSET S : s \in Smaller(S, Cardinality(S))
    BY FS_Subset DEF Smaller
  <1>6. \A s \in SUBSET S : f[s] \in Nat
    BY <1>4, <1>5 DEF T
  <1>. QED BY <1>6 DEF SumsUp

(* There is only one, and it contains the sums over all parts.              *)
LEMMA SumUnique ==
  ASSUME NEW U, IsFiniteSet(U), NEW S \in SUBSET U, NEW h, \A x \in U : h[x] \in Nat,
         NEW f, SumsUp(f, h, U)
  PROVE  Sum(h, S) = f[S]
  <1>1. IsFiniteSet(S) /\ \A x \in S : h[x] \in Nat
    BY FS_Subset
  <1>2. PICK g : g = CHOOSE e : SumsUp(e, h, S)
    OBVIOUS
  <1>3. SumsUp(g, h, S)
    BY <1>1, <1>2, SumExists
  <1> DEFINE k == [s \in SUBSET S |-> f[s]]
             pick == [s \in SUBSET S |-> Pick(s)]
             step == [u \in S \X Nat |-> h[u[1]] + u[2]]
  <1>4. f \in [SUBSET U -> Nat] /\ g \in [SUBSET S -> Nat]
    BY <1>1, <1>3, SumsAreNatural
  <1>5. k \in [SUBSET S -> Nat] /\ k[S] = f[S]
    BY <1>4
  <1>6. SumsUp(k, h, S)
    <2>1. \A s \in SUBSET S :
            f[s] = IF s = {} THEN 0 ELSE h[Pick(s)] + f[s \ {Pick(s)}]
      BY DEF SumsUp
    <2>2. \A s \in SUBSET S :
            k[s] = IF s = {} THEN 0 ELSE h[Pick(s)] + k[s \ {Pick(s)}]
      BY <2>1
    <2>. QED BY <2>2 DEF SumsUp
  <1>7. pick = [s \in SUBSET S |-> Pick(s)] /\ step = [u \in S \X Nat |-> h[u[1]] + u[2]]
    OBVIOUS
  <1>8. \A s \in SUBSET S : s # {} => pick[s] \in s
    BY Picked
  <1>. HIDE DEF k, pick, step
  <1>9. Computes(k, SUBSET S, 0, pick, step) /\ Computes(g, SUBSET S, 0, pick, step)
    <2>1. Computes(k, SUBSET S, 0, pick, step)
      BY <1>1, <1>5, <1>6, <1>7, SumsCompute
    <2>3. g \in [SUBSET S -> Nat] /\ \A x \in S : h[x] \in Nat
      BY <1>1, <1>4
    <2>4. SumsUp(g, h, S) <=> Computes(g, SUBSET S, 0, pick, step)
      BY <2>3, <1>7, SumsCompute
    <2>2. Computes(g, SUBSET S, 0, pick, step)
      BY <1>3, <2>4
    <2>. QED BY <2>1, <2>2
  <1>10. k[S] = g[S]
    BY <1>1, <1>8, <1>9, RecursionUnique
  <1>. QED BY <1>2, <1>5, <1>10 DEF Sum

LEMMA SumType ==
  ASSUME NEW S, IsFiniteSet(S), NEW h, \A x \in S : h[x] \in Nat
  PROVE  Sum(h, S) \in Nat
  <1>1. PICK f \in [SUBSET S -> Nat] : SumsUp(f, h, S)
    BY SumExists
  <1>2. Sum(h, S) = f[S]
    BY <1>1, SumUnique
  <1>. QED BY <1>2

LEMMA SumEmpty ==
  ASSUME NEW h
  PROVE  Sum(h, {}) = 0
  <1>1. PICK f \in [SUBSET {} -> Nat] : SumsUp(f, h, {})
    BY SumExists, FS_EmptySet
  <1>2. Sum(h, {}) = f[{}]
    BY <1>1, SumUnique, FS_EmptySet
  <1>. QED BY <1>1, <1>2 DEF SumsUp

(* Any element may be taken out, not only the one the recursion takes.      *)
LEMMA SumTakesOut ==
  ASSUME NEW S, IsFiniteSet(S), NEW h, \A x \in S : h[x] \in Nat, NEW a \in S
  PROVE  Sum(h, S) = h[a] + Sum(h, S \ {a})
  <1>1. PICK f \in [SUBSET S -> Nat] : SumsUp(f, h, S)
    BY SumExists
  <1>2. \A s \in SUBSET S : s # {} => f[s] = h[Pick(s)] + f[s \ {Pick(s)}]
    BY <1>1 DEF SumsUp
  <1> DEFINE T == {n \in Nat : \A s \in Smaller(S, n) : \A x \in s :
                                 f[s] = h[x] + f[s \ {x}]}
  <1>3. 0 \in T
    <2>1. \A s \in Smaller(S, 0) : s = {}
      BY FS_Subset, FS_EmptySet, FS_CardinalityType DEF Smaller
    <2>. QED BY <2>1
  <1>4. ASSUME NEW n \in Nat, n \in T
        PROVE  n + 1 \in T
    <2> SUFFICES ASSUME NEW s \in Smaller(S, n + 1), NEW x \in s
                 PROVE  f[s] = h[x] + f[s \ {x}]
      OBVIOUS
    <2>1. PICK y : y = Pick(s)
      OBVIOUS
    <2>2. y \in s /\ f[s] = h[y] + f[s \ {y}] /\ s \in SUBSET S
      BY <2>1, <1>2, Picked DEF Smaller
    <2>3. CASE x = y
      BY <2>2, <2>3
    <2>4. CASE x # y
      <3>1. s \ {x} \in Smaller(S, n) /\ s \ {y} \in Smaller(S, n)
        BY <2>2, OneLess DEF Smaller
      <3>2. f[s \ {y}] = h[x] + f[(s \ {y}) \ {x}]
        BY <1>4, <2>4, <3>1
      <3>3. f[s \ {x}] = h[y] + f[(s \ {x}) \ {y}]
        BY <1>4, <2>2, <2>4, <3>1
      <3>4. (s \ {x}) \ {y} = (s \ {y}) \ {x} /\ (s \ {x}) \ {y} \in SUBSET S
        BY <2>2
      <3>5. h[x] \in Nat /\ h[y] \in Nat /\ f[(s \ {x}) \ {y}] \in Nat
        BY <2>2, <3>4
      <3>6. PICK a0, b0, c0 \in Nat :
              a0 = h[x] /\ b0 = h[y] /\ c0 = f[(s \ {x}) \ {y}]
        BY <3>5
      <3>7. f[s] = b0 + (a0 + c0) /\ f[s \ {x}] = b0 + c0
        BY <2>2, <3>2, <3>3, <3>4, <3>6
      <3>. QED BY <3>6, <3>7
    <2>. QED BY <2>3, <2>4
  <1>. HIDE DEF T
  <1>5. Cardinality(S) \in T
    BY <1>3, <1>4, AllNaturals, FS_CardinalityType
  <1>6. S \in Smaller(S, Cardinality(S))
    BY FS_CardinalityType DEF Smaller
  <1>7. f[S] = h[a] + f[S \ {a}]
    BY <1>5, <1>6 DEF T
  <1>8. Sum(h, S) = f[S] /\ Sum(h, S \ {a}) = f[S \ {a}]
    BY <1>1, SumUnique
  <1>. QED BY <1>7, <1>8

(* The sum depends on the values of the elements only.                      *)
LEMMA SumSame ==
  ASSUME NEW S, IsFiniteSet(S), NEW g, NEW h,
         \A x \in S : h[x] \in Nat /\ g[x] = h[x]
  PROVE  Sum(g, S) = Sum(h, S)
  <1>1. PICK f \in [SUBSET S -> Nat] : SumsUp(f, h, S)
    BY SumExists
  <1>2. SumsUp(f, g, S)
    <2>1. \A s \in SUBSET S : s # {} => Pick(s) \in S
      BY Picked
    <2>. QED BY <1>1, <2>1 DEF SumsUp
  <1>3. Sum(h, S) = f[S]
    BY <1>1, SumUnique
  <1>4. Sum(g, S) = f[S]
    BY <1>2, SumUnique
  <1>. QED BY <1>3, <1>4

-----------------------------------------------------------------------------
(* A set of sets that has the empty one, and with each part of S the part   *)
(* that has one element more, has them all.                                 *)
Grows(T, S) ==
  \A s \in SUBSET S, x \in S : s \in T /\ x \notin s => s \cup {x} \in T

LEMMA AllParts ==
  ASSUME NEW S, IsFiniteSet(S), NEW T, {} \in T, Grows(T, S)
  PROVE  SUBSET S \subseteq T
  <1> DEFINE N == {n \in Nat : \A s \in Smaller(S, n) : s \in T}
  <1>1. 0 \in N
    <2>1. \A s \in Smaller(S, 0) : s = {}
      BY FS_Subset, FS_EmptySet, FS_CardinalityType DEF Smaller
    <2>. QED BY <2>1
  <1>2. ASSUME NEW n \in Nat, n \in N
        PROVE  n + 1 \in N
    <2> SUFFICES ASSUME NEW s \in Smaller(S, n + 1)
                 PROVE  s \in T
      OBVIOUS
    <2>1. CASE s = {}
      BY <2>1
    <2>2. CASE s # {}
      <3>1. PICK x \in s : TRUE
        BY <2>2
      <3>2. s \ {x} \in Smaller(S, n) /\ x \in S /\ s \ {x} \in SUBSET S
        BY OneLess DEF Smaller
      <3>3. (s \ {x}) \cup {x} = s
        BY <3>1
      <3>4. s \ {x} \in T
        BY <1>2, <3>2
      <3>. QED BY <3>2, <3>3, <3>4 DEF Grows
    <2>. QED BY <2>1, <2>2
  <1>. HIDE DEF N
  <1>3. Cardinality(S) \in N
    BY <1>1, <1>2, AllNaturals, FS_CardinalityType
  <1>4. \A s \in SUBSET S : s \in Smaller(S, Cardinality(S))
    BY FS_Subset DEF Smaller
  <1>. QED BY <1>3, <1>4 DEF N

(* The sum over two sets that have nothing in common.                       *)
LEMMA SumUnion ==
  ASSUME NEW A, IsFiniteSet(A), NEW B, IsFiniteSet(B), A \cap B = {},
         NEW h, \A x \in A \cup B : h[x] \in Nat
  PROVE  Sum(h, A \cup B) = Sum(h, A) + Sum(h, B)
  <1> DEFINE T == {b \in SUBSET B : Sum(h, A \cup b) = Sum(h, A) + Sum(h, b)}
  <1>1. {} \in T
    <2>1. Sum(h, A) \in Nat /\ Sum(h, {}) = 0 /\ A \cup {} = A
      BY SumType, SumEmpty
    <2>. QED BY <2>1
  <1>2. ASSUME NEW b \in SUBSET B, NEW x \in B, b \in T, x \notin b
        PROVE  b \cup {x} \in T
    <2>1. PICK u, v, w : u = A \cup b /\ v = u \cup {x} /\ w = b \cup {x}
      OBVIOUS
    <2>2. v = A \cup w /\ v \ {x} = u /\ w \ {x} = b /\ x \in v /\ x \in w
      BY <1>2, <2>1
    <2>3. IsFiniteSet(b) /\ IsFiniteSet(w)
      BY <2>1, FS_Subset
    <2>4. IsFiniteSet(u) /\ IsFiniteSet(v)
      <3>1. IsFiniteSet(A \cup b) /\ IsFiniteSet(A \cup w)
        BY <2>3, FS_Union
      <3>. QED BY <2>1, <2>2, <3>1
    <2>5. (\A y \in v : h[y] \in Nat) /\ (\A y \in w : h[y] \in Nat) /\ (\A y \in b : h[y] \in Nat)
      BY <2>1
    <2>6. Sum(h, v) = h[x] + Sum(h, u) /\ Sum(h, w) = h[x] + Sum(h, b)
      BY <2>2, <2>3, <2>4, <2>5, SumTakesOut
    <2>7. Sum(h, u) = Sum(h, A) + Sum(h, b)
      BY <1>2, <2>1
    <2>8. Sum(h, A) \in Nat /\ Sum(h, b) \in Nat /\ h[x] \in Nat
      BY <2>3, <2>5, SumType
    <2>9. PICK l, m, n \in Nat : l = Sum(h, A) /\ m = Sum(h, b) /\ n = h[x]
      BY <2>8
    <2>10. Sum(h, v) = n + (l + m) /\ Sum(h, w) = n + m
      BY <2>6, <2>7, <2>9
    <2>11. Sum(h, v) = l + Sum(h, w)
      BY <2>10
    <2>. QED BY <2>1, <2>2, <2>9, <2>11
  <1>. HIDE DEF T
  <1>3. Grows(T, B)
    BY <1>2 DEF Grows
  <1>4. SUBSET B \subseteq T
    BY <1>1, <1>3, AllParts
  <1>. QED BY <1>4 DEF T

(* The sum over a part is no greater.                                       *)
LEMMA SumPart ==
  ASSUME NEW S, IsFiniteSet(S), NEW A \in SUBSET S, NEW h, \A x \in S : h[x] \in Nat
  PROVE  Sum(h, A) \in Nat /\ Sum(h, S) \in Nat /\ Sum(h, A) <= Sum(h, S)
  <1>1. PICK B : B = S \ A
    OBVIOUS
  <1>2. IsFiniteSet(A) /\ IsFiniteSet(B) /\ A \cap B = {} /\ A \cup B = S
    BY <1>1, FS_Subset
  <1>3. Sum(h, S) = Sum(h, A) + Sum(h, B)
    BY <1>2, SumUnion
  <1>4. Sum(h, A) \in Nat /\ Sum(h, B) \in Nat
    BY <1>1, <1>2, SumType
  <1>5. PICK m, n \in Nat : m = Sum(h, A) /\ n = Sum(h, B)
    BY <1>4
  <1>. QED BY <1>3, <1>5

(* The sum of nothing but zeros.                                            *)
LEMMA SumZero ==
  ASSUME NEW S, IsFiniteSet(S), NEW h, \A x \in S : h[x] = 0
  PROVE  Sum(h, S) = 0
  <1> DEFINE z == [s \in SUBSET S |-> 0]
  <1>1. \A s \in SUBSET S : z[s] = 0
    OBVIOUS
  <1>2. z = [s \in SUBSET S |-> 0]
    OBVIOUS
  <1>. HIDE DEF z
  <1>3. \A s \in SUBSET S : s # {} => Pick(s) \in S /\ s \ {Pick(s)} \in SUBSET S
    BY Picked
  <1>4. \A s \in SUBSET S : s # {} => h[Pick(s)] = 0 /\ z[s \ {Pick(s)}] = 0
    BY <1>1, <1>3
  <1>5. \A s \in SUBSET S : 0 = IF s = {} THEN 0 ELSE h[Pick(s)] + z[s \ {Pick(s)}]
    <2>1. ASSUME NEW s \in SUBSET S, s # {}
          PROVE  h[Pick(s)] + z[s \ {Pick(s)}] = 0
      <3>1. PICK l, m \in Int : l = h[Pick(s)] /\ m = z[s \ {Pick(s)}] /\ l = 0 /\ m = 0
        BY <1>4, <2>1
      <3>2. l + m = 0
        BY <3>1
      <3>. QED BY <3>1, <3>2
    <2>. QED BY <2>1
  <1>6. SumsUp(z, h, S)
    BY <1>2, <1>5 DEF SumsUp
  <1>7. \A x \in S : h[x] \in Nat
    OBVIOUS
  <1>8. Sum(h, S) = z[S]
    BY <1>6, <1>7, SumUnique
  <1>. QED BY <1>1, <1>8

(* The sum when the value of one element has grown by one.                  *)
OneMore(g, h, a) == g = [h EXCEPT ![a] = h[a] + 1]

LEMMA SumGrows ==
  ASSUME NEW S, IsFiniteSet(S), NEW D, S \subseteq D, NEW h \in [D -> Nat], NEW a \in D,
         NEW g, OneMore(g, h, a)
  PROVE  /\ a \in S => Sum(g, S) = Sum(h, S) + 1
         /\ a \notin S => Sum(g, S) = Sum(h, S)
  <1>1. /\ \A x \in S : h[x] \in Nat /\ g[x] \in Nat
        /\ \A x \in S : x # a => g[x] = h[x]
    BY DEF OneMore
  <1>2. ASSUME a \in S
        PROVE  Sum(g, S) = Sum(h, S) + 1
    <2>1. PICK b : b = S \ {a}
      OBVIOUS
    <2>2. IsFiniteSet(b)
      BY <2>1, FS_Subset
    <2>3. \A x \in b : h[x] \in Nat /\ g[x] = h[x]
      BY <1>1, <2>1
    <2>4. Sum(g, b) = Sum(h, b)
      BY <2>2, <2>3, SumSame
    <2>5. Sum(g, S) = g[a] + Sum(g, b) /\ Sum(h, S) = h[a] + Sum(h, b)
      BY <1>1, <1>2, <2>1, SumTakesOut
    <2>6. Sum(h, b) \in Nat
      BY <2>2, <2>3, SumType
    <2>7. PICK m, n \in Nat : m = Sum(h, b) /\ n = h[a]
      BY <2>6
    <2>8. g[a] = n + 1
      BY <2>7 DEF OneMore
    <2>. QED BY <2>4, <2>5, <2>7, <2>8
  <1>3. ASSUME a \notin S
        PROVE  Sum(g, S) = Sum(h, S)
    <2>1. \A x \in S : h[x] \in Nat /\ g[x] = h[x]
      BY <1>1, <1>3
    <2>. QED BY <2>1, SumSame
  <1>. QED BY <1>2, <1>3
=============================================================================

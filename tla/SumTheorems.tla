---------------------------- MODULE SumTheorems ----------------------------
(***************************************************************************)
(* The sum of a function with natural values over a finite set, as the     *)
(* community module Functions defines it by a fold, is a natural number.   *)
(*                                                                         *)
(* The fold is the value of a recursive function on the subsets of the     *)
(* set.  That such a function exists is shown by giving one: the number of *)
(* cells of the bar chart of f.  Induction is minimal-counterexample       *)
(* reasoning over subsets (WFMin), because the induction theorems of the   *)
(* library take an operator, which the provers cannot instantiate.         *)
(***************************************************************************)
EXTENDS Integers, FiniteSets, Functions, FiniteSetTheorems, TLAPS

(* The bar chart of f over s: f[x] cells above every x. *)
Cells(f, s) == {p \in s \X Nat : 1 =< p[2] /\ p[2] =< f[p[1]]}

Pick(s) == CHOOSE x \in s : TRUE

(* The recursion that the fold solves. *)
IsSum(g, f, S) ==
    g = [s \in SUBSET S |-> IF s = {} THEN 0 ELSE f[Pick(s)] + g[s \ {Pick(s)}]]

(* A non-empty set of subsets of a finite set has a minimal member. *)
LEMMA MinimalSubset ==
    ASSUME NEW S, IsFiniteSet(S), NEW T, T \subseteq SUBSET S, T # {}
    PROVE  \E x \in T : \A y \in SUBSET x : y # x => y \notin T
<1>1. IsWellFoundedOn(StrictSubsetOrdering(S), SUBSET S)
  BY FS_StrictSubsetOrderingWellFounded, FS_FiniteSubsetsOfFinite
<1>2. PICK x \in T : \A y \in T : ~(<<y, x>> \in StrictSubsetOrdering(S))
  BY <1>1, WFMin
<1>3. ASSUME NEW y \in SUBSET x, y # x, y \in T
      PROVE  FALSE
  <2>1. <<y, x>> \in StrictSubsetOrdering(S)
    BY <1>3 DEF StrictSubsetOrdering
  <2>2. QED
    BY <1>2, <1>3, <2>1
<1>4. QED
  BY <1>2, <1>3

(* The bars of a non-empty set are the bar of one member and the others. *)
LEMMA CellsSplit ==
    ASSUME NEW s, NEW f, NEW x \in s, f[x] \in Nat, IsFiniteSet(Cells(f, s \ {x}))
    PROVE  /\ IsFiniteSet(Cells(f, s))
           /\ Cardinality(Cells(f, s)) = f[x] + Cardinality(Cells(f, s \ {x}))
<1> DEFINE bar == {x} \X (1 .. f[x])
           rest == Cells(f, s \ {x})
<1>1. /\ IsFiniteSet(1 .. f[x])
      /\ Cardinality(1 .. f[x]) = f[x]
  BY FS_Interval
<1>2. IsFiniteSet({x}) /\ Cardinality({x}) = 1
  BY FS_Singleton
<1>3. IsFiniteSet(bar) /\ Cardinality(bar) = f[x]
  <2>1. IsFiniteSet(bar) /\ Cardinality(bar) = Cardinality({x}) * Cardinality(1 .. f[x])
    BY <1>1, <1>2, FS_Product, Zenon
  <2>2. Cardinality(bar) = 1 * f[x]
    BY <1>1, <1>2, <2>1, Zenon
  <2>3. QED
    BY <2>1, <2>2
<1>4. bar \cap rest = {}
  BY DEF Cells
<1>5. Cells(f, s) = bar \cup rest
  BY DEF Cells
<1>6. /\ IsFiniteSet(bar \cup rest)
      /\ Cardinality(bar \cup rest) = Cardinality(bar) + Cardinality(rest)
                                      - Cardinality(bar \cap rest)
  BY <1>3, FS_Union
<1>7. Cardinality(rest) \in Nat
  BY FS_CardinalityType
<1>8. Cardinality({}) = 0
  BY FS_EmptySet
<1>9. Cardinality(bar \cap rest) = 0
  BY <1>4, <1>8, Zenon
<1> HIDE DEF bar, rest
<1>10. Cardinality(bar \cup rest) = f[x] + Cardinality(rest)
  BY <1>3, <1>6, <1>7, <1>9
<1>11. /\ IsFiniteSet(Cells(f, s))
       /\ Cardinality(Cells(f, s)) = f[x] + Cardinality(rest)
  BY <1>5, <1>6, <1>10, Zenon
<1>12. QED
  BY <1>11 DEF rest

(* A bar chart over a finite set is finite. *)
LEMMA CellsFinite ==
    ASSUME NEW S, IsFiniteSet(S), NEW f \in [S -> Nat], NEW s \in SUBSET S
    PROVE  IsFiniteSet(Cells(f, s))
<1> DEFINE bad == {u \in SUBSET S : ~IsFiniteSet(Cells(f, u))}
<1>1. SUFFICES ASSUME bad # {} PROVE FALSE
  OBVIOUS
<1>2. PICK u \in bad : \A y \in SUBSET u : y # u => y \notin bad
  BY <1>1, MinimalSubset
<1>3. CASE u = {}
  <2>1. Cells(f, {}) = {}
    BY DEF Cells
  <2>2. QED
    BY <1>2, <1>3, <2>1, FS_EmptySet
<1>4. CASE u # {}
  <2>1. PICK x \in u : TRUE
    BY <1>4
  <2>2. u \ {x} \in SUBSET u /\ u \ {x} # u /\ u \ {x} \in SUBSET S /\ f[x] \in Nat
    BY <2>1
  <2>3. IsFiniteSet(Cells(f, u \ {x}))
    BY <1>2, <2>2
  <2>4. QED
    BY <1>2, <2>1, <2>2, <2>3, CellsSplit
<1>5. QED
  BY <1>3, <1>4

(* Counting cells solves the recursion. *)
LEMMA SumExists ==
    ASSUME NEW S, IsFiniteSet(S), NEW f \in [S -> Nat]
    PROVE  \E g : IsSum(g, f, S)
<1> DEFINE g == [s \in SUBSET S |-> Cardinality(Cells(f, s))]
<1>1. ASSUME NEW s \in SUBSET S, s # {}
      PROVE  g[s] = f[Pick(s)] + g[s \ {Pick(s)}]
  <2>1. Pick(s) \in s
    BY <1>1 DEF Pick
  <2>2. s \ {Pick(s)} \in SUBSET S /\ f[Pick(s)] \in Nat
    BY <2>1
  <2>3. IsFiniteSet(Cells(f, s \ {Pick(s)}))
    BY <2>2, CellsFinite
  <2>4. Cardinality(Cells(f, s)) = f[Pick(s)] + Cardinality(Cells(f, s \ {Pick(s)}))
    BY <2>1, <2>2, <2>3, CellsSplit
  <2>5. QED
    BY <2>2, <2>4
<1>2. g[{}] = 0
  <2>1. Cells(f, {}) = {}
    BY DEF Cells
  <2>2. QED
    BY <2>1, FS_EmptySet
<1>3. g = [s \in SUBSET S |-> IF s = {} THEN 0 ELSE f[Pick(s)] + g[s \ {Pick(s)}]]
  BY <1>1, <1>2
<1>4. IsSum(g, f, S)
  BY <1>3 DEF IsSum
<1>5. QED
  BY <1>4

(* SumFunctionOnSet is a solution of the recursion, taken at S. *)
LEMMA SumIsSum ==
    ASSUME NEW S, IsFiniteSet(S), NEW f \in [S -> Nat]
    PROVE  \E g : IsSum(g, f, S) /\ SumFunctionOnSet(f, S) = g[S]
<1> DEFINE g == CHOOSE h : IsSum(h, f, S)
<1>1. SumFunctionOnSet(f, S) = g[S]
  BY Zenon DEF SumFunctionOnSet, FoldFunctionOnSet, MapThenFoldSet, IsSum, Pick
<1>2. IsSum(g, f, S)
  BY SumExists
<1>3. QED
  BY <1>1, <1>2

(* ... and nothing else does. *)
LEMMA SumUnique ==
    ASSUME NEW S, IsFiniteSet(S), NEW f \in [S -> Nat], NEW g, IsSum(g, f, S)
    PROVE  \A u \in SUBSET S : g[u] = Cardinality(Cells(f, u))
<1> DEFINE bad == {u \in SUBSET S : g[u] # Cardinality(Cells(f, u))}
<1>1. SUFFICES ASSUME bad # {} PROVE FALSE
  OBVIOUS
<1>2. PICK u \in bad : \A y \in SUBSET u : y # u => y \notin bad
  <2>1. bad \subseteq SUBSET S
    OBVIOUS
  <2> HIDE DEF bad
  <2>2. QED
    BY <1>1, <2>1, MinimalSubset
<1>3. u \in SUBSET S /\ g[u] # Cardinality(Cells(f, u))
  BY <1>2
<1>4. g[u] = IF u = {} THEN 0 ELSE f[Pick(u)] + g[u \ {Pick(u)}]
  BY <1>3 DEF IsSum
<1>5. CASE u = {}
  <2>1. Cells(f, {}) = {}
    BY DEF Cells
  <2>2. QED
    BY <1>3, <1>4, <1>5, <2>1, FS_EmptySet
<1>6. CASE u # {}
  <2>1. Pick(u) \in u
    BY <1>6 DEF Pick
  <2>2. u \ {Pick(u)} \in SUBSET S /\ f[Pick(u)] \in Nat
    BY <1>3, <2>1
  <2>3. g[u \ {Pick(u)}] = Cardinality(Cells(f, u \ {Pick(u)}))
    BY <1>2, <2>1, <2>2
  <2>4. IsFiniteSet(Cells(f, u \ {Pick(u)}))
    BY <2>2, CellsFinite
  <2>5. QED
    BY <1>3, <1>4, <1>6, <2>1, <2>2, <2>3, <2>4, CellsSplit
<1>7. QED
  BY <1>5, <1>6

(* The sum is the number of cells. *)
THEOREM SumIsCells ==
    ASSUME NEW S, IsFiniteSet(S), NEW f \in [S -> Nat]
    PROVE  /\ IsFiniteSet(Cells(f, S))
           /\ SumFunction(f) = Cardinality(Cells(f, S))
<1>1. IsFiniteSet(Cells(f, S))
  BY CellsFinite
<1>2. PICK g : IsSum(g, f, S) /\ SumFunctionOnSet(f, S) = g[S]
  BY SumIsSum
<1>3. g[S] = Cardinality(Cells(f, S))
  BY <1>2, SumUnique
<1>4. DOMAIN f = S
  OBVIOUS
<1>5. QED
  BY <1>1, <1>2, <1>3, <1>4 DEF SumFunction

-----------------------------------------------------------------------------
(* What follows for sums *)

(* The sum of a function with natural values over its finite domain is a   *)
(* natural number.                                                         *)
THEOREM SumFunctionNat ==
    ASSUME NEW S, IsFiniteSet(S), NEW f \in [S -> Nat]
    PROVE  SumFunction(f) \in Nat
BY SumIsCells, FS_CardinalityType

(* One term and the rest *)
LEMMA SumSplit ==
    ASSUME NEW S, IsFiniteSet(S), NEW f \in [S -> Nat], NEW x \in S
    PROVE  /\ IsFiniteSet(Cells(f, S \ {x}))
           /\ SumFunction(f) = f[x] + Cardinality(Cells(f, S \ {x}))
           /\ Cardinality(Cells(f, S \ {x})) \in Nat
<1>1. IsFiniteSet(Cells(f, S \ {x})) /\ f[x] \in Nat
  BY CellsFinite
<1>2. QED
  BY <1>1, SumIsCells, CellsSplit, FS_CardinalityType

(* The sum is at least any one of its terms. *)
THEOREM SumFunctionBound ==
    ASSUME NEW S, IsFiniteSet(S), NEW f \in [S -> Nat], NEW x \in S
    PROVE  f[x] =< SumFunction(f)
<1> DEFINE rest == Cardinality(Cells(f, S \ {x}))
<1>1. SumFunction(f) = f[x] + rest /\ rest \in Nat
  BY SumSplit
<1> HIDE DEF rest
<1>2. ASSUME NEW a \in Nat, NEW b \in Nat
      PROVE  a =< a + b
  OBVIOUS
<1>3. f[x] \in Nat
  OBVIOUS
<1>4. QED
  BY <1>1, <1>2, <1>3

(* The sum of zeros is zero. *)
THEOREM SumFunctionZero ==
    ASSUME NEW S, IsFiniteSet(S), NEW f \in [S -> Nat], \A x \in S : f[x] = 0
    PROVE  SumFunction(f) = 0
<1>1. Cells(f, S) = {}
  BY DEF Cells
<1>2. QED
  BY <1>1, SumIsCells, FS_EmptySet

(* Another value at one place *)
THEOREM SumFunctionUpdate ==
    ASSUME NEW S, IsFiniteSet(S), NEW f \in [S -> Nat], NEW g \in [S -> Nat], NEW x \in S,
           \A y \in S \ {x} : g[y] = f[y]
    PROVE  SumFunction(g) = SumFunction(f) - f[x] + g[x]
<1>1. Cells(g, S \ {x}) = Cells(f, S \ {x})
  BY DEF Cells
<1>2. f[x] \in Nat /\ g[x] \in Nat
  OBVIOUS
<1>3. QED
  BY <1>1, <1>2, SumSplit

(* One more place *)
THEOREM SumFunctionExtend ==
    ASSUME NEW S, IsFiniteSet(S), NEW x, x \notin S, NEW f \in [S -> Nat],
           NEW g \in [S \cup {x} -> Nat], \A y \in S : g[y] = f[y]
    PROVE  SumFunction(g) = SumFunction(f) + g[x]
<1>1. Cells(g, (S \cup {x}) \ {x}) = Cells(f, S)
  BY DEF Cells
<1>2. IsFiniteSet(S \cup {x}) /\ x \in S \cup {x}
  BY FS_AddElement
<1>3. SumFunction(g) = g[x] + Cardinality(Cells(f, S)) /\ Cardinality(Cells(f, S)) \in Nat
  BY <1>1, <1>2, SumSplit
<1>4. g[x] \in Nat
  OBVIOUS
<1>5. QED
  BY <1>3, <1>4, SumIsCells

(* The sum of a sum *)
THEOREM SumFunctionPlus ==
    ASSUME NEW S, IsFiniteSet(S), NEW f \in [S -> Nat], NEW g \in [S -> Nat],
           NEW h \in [S -> Nat], \A x \in S : h[x] = f[x] + g[x]
    PROVE  SumFunction(h) = SumFunction(f) + SumFunction(g)
<1> DEFINE F(u) == Cardinality(Cells(f, u))
           G(u) == Cardinality(Cells(g, u))
           H(u) == Cardinality(Cells(h, u))
           bad == {u \in SUBSET S : H(u) # F(u) + G(u)}
<1>1. bad = {}
  <2>1. SUFFICES ASSUME bad # {} PROVE FALSE
    OBVIOUS
  <2>2. PICK u \in bad : \A y \in SUBSET u : y # u => y \notin bad
    <3>1. bad \subseteq SUBSET S
      OBVIOUS
    <3> HIDE DEF bad
    <3>2. QED
      BY <2>1, <3>1, MinimalSubset
  <2>3. u \in SUBSET S /\ H(u) # F(u) + G(u)
    BY <2>2
  <2>4. u # {}
    <3>1. Cells(f, {}) = {} /\ Cells(g, {}) = {} /\ Cells(h, {}) = {}
      BY DEF Cells
    <3>2. H({}) = 0 /\ F({}) = 0 /\ G({}) = 0
      BY <3>1, FS_EmptySet
    <3>3. H({}) = F({}) + G({})
      BY <3>2
    <3> HIDE DEF F, G, H
    <3>4. QED
      BY <2>3, <3>3
  <2>5. PICK x \in u : TRUE
    BY <2>4
  <2>6. /\ u \ {x} \in SUBSET S /\ u \ {x} \in SUBSET u /\ u \ {x} # u
        /\ f[x] \in Nat /\ g[x] \in Nat /\ h[x] = f[x] + g[x] /\ h[x] \in Nat
    BY <2>3, <2>5
  <2>7. H(u \ {x}) = F(u \ {x}) + G(u \ {x})
    BY <2>2, <2>6
  <2>8. /\ IsFiniteSet(Cells(f, u \ {x})) /\ IsFiniteSet(Cells(g, u \ {x}))
        /\ IsFiniteSet(Cells(h, u \ {x}))
    BY <2>6, CellsFinite
  <2>9. /\ F(u) = f[x] + F(u \ {x}) /\ G(u) = g[x] + G(u \ {x})
        /\ H(u) = h[x] + H(u \ {x})
    BY <2>5, <2>6, <2>8, CellsSplit
  <2>10. F(u \ {x}) \in Nat /\ G(u \ {x}) \in Nat
    BY <2>8, FS_CardinalityType
  <2> HIDE DEF F, G, H
  <2>11. QED
    BY <2>3, <2>6, <2>7, <2>9, <2>10
<1>2. H(S) = F(S) + G(S)
  BY <1>1
<1>3. QED
  BY <1>2, SumIsCells

(* A larger function has a larger sum. *)
THEOREM SumFunctionMonotone ==
    ASSUME NEW S, IsFiniteSet(S), NEW f \in [S -> Nat], NEW g \in [S -> Nat],
           \A x \in S : f[x] =< g[x]
    PROVE  SumFunction(f) =< SumFunction(g)
<1> DEFINE h == [x \in S |-> g[x] - f[x]]
<1>1. ASSUME NEW x \in S
      PROVE  h[x] \in Nat /\ g[x] = f[x] + h[x]
  <2>1. f[x] \in Nat /\ g[x] \in Nat /\ f[x] =< g[x] /\ h[x] = g[x] - f[x]
    OBVIOUS
  <2> HIDE DEF h
  <2>2. QED
    BY <2>1
<1>2. h \in [S -> Nat]
  BY <1>1
<1> HIDE DEF h
<1>3. SumFunction(g) = SumFunction(f) + SumFunction(h)
  BY <1>1, <1>2, SumFunctionPlus
<1>4. SumFunction(f) \in Nat /\ SumFunction(h) \in Nat
  BY <1>2, SumFunctionNat
<1>5. QED
  BY <1>3, <1>4

LEMMA Distribute ==
    ASSUME NEW a \in Nat, NEW b \in Nat, NEW c \in Nat
    PROVE  c * (a + b) = c * a + c * b
OBVIOUS

(* The sum of a multiple *)
THEOREM SumFunctionScale ==
    ASSUME NEW S, IsFiniteSet(S), NEW c \in Nat, NEW f \in [S -> Nat],
           NEW g \in [S -> Nat], \A x \in S : g[x] = c * f[x]
    PROVE  SumFunction(g) = c * SumFunction(f)
<1> DEFINE F(u) == Cardinality(Cells(f, u))
           G(u) == Cardinality(Cells(g, u))
           bad == {u \in SUBSET S : G(u) # c * F(u)}
<1>1. bad = {}
  <2>1. SUFFICES ASSUME bad # {} PROVE FALSE
    OBVIOUS
  <2>2. PICK u \in bad : \A y \in SUBSET u : y # u => y \notin bad
    <3>1. bad \subseteq SUBSET S
      OBVIOUS
    <3> HIDE DEF bad
    <3>2. QED
      BY <2>1, <3>1, MinimalSubset
  <2>3. u \in SUBSET S /\ G(u) # c * F(u)
    BY <2>2
  <2>4. u # {}
    <3>1. Cells(f, {}) = {} /\ Cells(g, {}) = {}
      BY DEF Cells
    <3>2. G({}) = 0 /\ F({}) = 0
      BY <3>1, FS_EmptySet
    <3> HIDE DEF F, G
    <3>3. G({}) = c * F({})
      BY <3>2
    <3>4. QED
      BY <2>3, <3>3
  <2>5. PICK x \in u : TRUE
    BY <2>4
  <2>6. /\ u \ {x} \in SUBSET S /\ u \ {x} \in SUBSET u /\ u \ {x} # u
        /\ f[x] \in Nat /\ g[x] = c * f[x] /\ g[x] \in Nat
    BY <2>3, <2>5
  <2>7. G(u \ {x}) = c * F(u \ {x})
    BY <2>2, <2>6
  <2>8. IsFiniteSet(Cells(f, u \ {x})) /\ IsFiniteSet(Cells(g, u \ {x}))
    BY <2>6, CellsFinite
  <2>9. F(u) = f[x] + F(u \ {x}) /\ G(u) = g[x] + G(u \ {x})
    BY <2>5, <2>6, <2>8, CellsSplit
  <2>10. F(u \ {x}) \in Nat
    BY <2>8, FS_CardinalityType
  <2> HIDE DEF F, G
  <2>11. c * F(u) = c * f[x] + c * F(u \ {x})
    BY <2>6, <2>9, <2>10, Distribute
  <2>12. QED
    BY <2>3, <2>6, <2>7, <2>9, <2>11
<1>2. G(S) = c * F(S)
  BY <1>1
<1>3. QED
  BY <1>2, SumIsCells

(* The sum of an indicator is the number of those it indicates. *)
THEOREM SumFunctionCount ==
    ASSUME NEW S, IsFiniteSet(S), NEW T \in SUBSET S, NEW f \in [S -> Nat],
           \A x \in S : f[x] = IF x \in T THEN 1 ELSE 0
    PROVE  SumFunction(f) = Cardinality(T)
<1>1. Cells(f, S) = T \X {1}
  BY DEF Cells
<1>2. IsFiniteSet(T) /\ Cardinality(T) \in Nat
  BY FS_Subset, FS_CardinalityType
<1>3. IsFiniteSet({1}) /\ Cardinality({1}) = 1
  BY FS_Singleton
<1>4. Cardinality(T \X {1}) = Cardinality(T) * Cardinality({1})
  BY <1>2, <1>3, FS_Product
<1>5. Cardinality(T \X {1}) = Cardinality(T)
  BY <1>2, <1>3, <1>4
<1>6. QED
  BY <1>1, <1>5, SumIsCells
=============================================================================

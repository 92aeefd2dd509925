------------------------------ MODULE DataLemmas ------------------------------
(***************************************************************************)
(* Facts about the library's operators on sets that the proofs need: the   *)
(* least and the greatest element, sums over finite sets, and what holds   *)
(* step by step.                                                           *)
(***************************************************************************)
EXTENDS Integers, FiniteSets, FiniteSetsExt, FiniteSetTheorems, WellFoundedInduction, TLAPS

LEMMA LeastIsMin ==
    ASSUME NEW D, D \subseteq Nat, D # {}
    PROVE  Min(D) \in D /\ \A d \in D : Min(D) <= d
<1>1. PICK m \in D : \A d \in D : <<d, m>> \notin OpToRel(<, Nat)
    BY WFMin, NatLessThanWellFounded
<1>2. \A d \in D : ~(d < m)
    BY <1>1 DEF OpToRel
<1>3. \A d \in D : m <= d
    BY <1>2
<1> QED
    BY <1>3, Zenon DEF Min

LEMMA GreatestIsMax ==
    ASSUME NEW n \in Nat, NEW D, D \subseteq 0..n, D # {}
    PROVE  Max(D) \in D /\ \A d \in D : d <= Max(D)
<1> DEFINE E == {n - d : d \in D}
<1>0. \A d \in D : d \in Nat /\ d <= n
    OBVIOUS
<1>1. E \subseteq Nat /\ E # {}
  <2>1. \A d \in D : n - d \in Nat
    BY <1>0
  <2> QED
    BY <2>1
<1>2. Min(E) \in E /\ \A e \in E : Min(E) <= e
    BY <1>1, LeastIsMin
<1>3. PICK m \in D : Min(E) = n - m
    BY <1>2
<1>4. \A d \in D : m >= d
  <2> TAKE d \in D
  <2>1. n - m <= n - d
    BY <1>2, <1>3
  <2> QED
    BY <1>0, <2>1
<1>5. Max(D) \in D /\ \A d \in D : Max(D) >= d
    BY <1>4, Zenon DEF Max
<1> QED
    BY <1>5

LEMMA LargerOf ==
    ASSUME NEW a \in Int, NEW b \in Int
    PROVE  Max({a, b}) = IF a >= b THEN a ELSE b
<1>1. Max({a, b}) \in {a, b} /\ \A y \in {a, b} : Max({a, b}) >= y
  <2>1. \E x \in {a, b} : \A y \in {a, b} : x >= y
    OBVIOUS
  <2> QED
    BY <2>1, Zenon DEF Max
<1> QED
    BY <1>1

-----------------------------------------------------------------------------
(* Sums.  A sum of a function over a set S is computed by a table of its sums  *)
(* over the subsets of S, which takes the elements in the order of CHOOSE.     *)

Some(T) == CHOOSE x \in T : TRUE
IsTable(t, g, S) == t = [T \in SUBSET S |-> IF T = {} THEN 0 ELSE g[Some(T)] + t[T \ {Some(T)}]]

LEMMA SomeIsIn ==
    ASSUME NEW T, T # {}
    PROVE  Some(T) \in T
  BY DEF Some

LEMMA TableExists ==
    ASSUME NEW S, IsFiniteSet(S), NEW g
    PROVE  \E t : IsTable(t, g, S)
<1> DEFINE Small(n) == {T \in SUBSET S : Cardinality(T) <= n}
           Rec(t, n) == t = [T \in Small(n) |-> IF T = {} THEN 0 ELSE g[Some(T)] + t[T \ {Some(T)}]]
           Bad == {n \in Nat : ~\E t : Rec(t, n)}
<1>0. \A T \in SUBSET S : IsFiniteSet(T) /\ Cardinality(T) \in Nat /\ Cardinality(T) <= Cardinality(S)
  BY FS_Subset, FS_CardinalityType
<1>1. Bad = {}
  <2>1. SUFFICES ASSUME Bad # {} PROVE FALSE
    OBVIOUS
  <2>2. PICK n \in Bad : \A m \in Bad : n <= m
    BY <2>1, LeastIsMin
  <2>3. n # 0
    <3>1. SUFFICES ASSUME n = 0 PROVE FALSE
      OBVIOUS
    <3>2. Small(0) \subseteq {{}}
      BY <1>0, FS_EmptySet
    <3> DEFINE z == [T \in Small(0) |-> 0]
    <3>3. Rec(z, 0)
      BY <3>2
    <3> QED
      BY <2>2, <3>1, <3>3
  <2>a. n - 1 \in Nat /\ n \in Nat
    BY <2>2, <2>3
  <2>b. n - 1 \notin Bad
    <3> HIDE DEF Bad
    <3> QED
      BY <2>2, <2>a
  <2>4. PICK f : Rec(f, n - 1)
    <3> HIDE DEF Rec
    <3> QED
      BY <2>a, <2>b
  <2> DEFINE next == [T \in Small(n) |-> IF T = {} THEN 0 ELSE g[Some(T)] + f[T \ {Some(T)}]]
  <2>5. \A T \in Small(n) : T # {} => T \ {Some(T)} \in Small(n - 1)
    BY <1>0, SomeIsIn, FS_RemoveElement
  <2>c. \A T \in Small(n - 1) : T \in Small(n)
    BY <1>0, <2>a
  <2>d. \A T \in Small(n - 1) : f[T] = IF T = {} THEN 0 ELSE g[Some(T)] + f[T \ {Some(T)}]
    <3> HIDE DEF Small
    <3> QED
      BY <2>4
  <2>6. \A T \in Small(n - 1) : next[T] = f[T]
    <3> HIDE DEF Small
    <3> QED
      BY <2>c, <2>d
  <2>7. Rec(next, n)
    <3> HIDE DEF Small
    <3> QED
      BY <2>5, <2>6
  <2> QED
    BY <2>2, <2>7
<1>2. Cardinality(S) \in Nat /\ Small(Cardinality(S)) = SUBSET S
  BY <1>0, FS_CardinalityType
<1>3. PICK t : Rec(t, Cardinality(S))
  BY <1>1, <1>2
<1> QED
  BY <1>2, <1>3 DEF IsTable
LEMMA TableEntry ==
    ASSUME NEW S, NEW g, NEW t, IsTable(t, g, S), NEW T \in SUBSET S
    PROVE  t[T] = IF T = {} THEN 0 ELSE g[Some(T)] + t[T \ {Some(T)}]
<1>1. t = [U \in SUBSET S |-> IF U = {} THEN 0 ELSE g[Some(U)] + t[U \ {Some(U)}]]
  BY DEF IsTable
<1>2. [U \in SUBSET S |-> IF U = {} THEN 0 ELSE g[Some(U)] + t[U \ {Some(U)}]][T]
        = IF T = {} THEN 0 ELSE g[Some(T)] + t[T \ {Some(T)}]
  OBVIOUS
<1> QED
  BY <1>1, <1>2, Zenon

\* The smaller sets a claim about a set may rest on.
LEMMA LessOfSome ==
    ASSUME NEW T, IsFiniteSet(T), NEW x \in T
    PROVE  /\ IsFiniteSet(T \ {x}) /\ Cardinality(T) \in Nat
           /\ Cardinality(T \ {x}) = Cardinality(T) - 1
  BY FS_RemoveElement, FS_CardinalityType

LEMMA TablesAgree ==
    ASSUME NEW S, NEW R, NEW g, NEW h, NEW t, NEW u, IsTable(t, g, S), IsTable(u, h, R),
           NEW T0, T0 \in SUBSET S, T0 \in SUBSET R, IsFiniteSet(T0), \A x \in T0 : g[x] = h[x]
    PROVE  t[T0] = u[T0]
<1> DEFINE Bad == {Cardinality(T) : T \in {T \in SUBSET T0 : t[T] # u[T]}}
<1>1. SUFFICES Bad = {}
  OBVIOUS
<1>2. SUFFICES ASSUME Bad # {} PROVE FALSE
  OBVIOUS
<1>3. Bad \subseteq Nat
  BY FS_Subset, FS_CardinalityType
<1>4. PICK n \in Bad : \A m \in Bad : n <= m
  BY <1>2, <1>3, LeastIsMin
<1>5. PICK T \in SUBSET T0 : t[T] # u[T] /\ n = Cardinality(T)
  BY <1>4
<1>6. IsFiniteSet(T) /\ T \in SUBSET S /\ T \in SUBSET R
  BY FS_Subset
<1>7. T # {}
  <2>1. t[{}] = 0 /\ u[{}] = 0
    BY TableEntry
  <2> QED
    BY <1>5, <2>1
<1>8. Some(T) \in T
  BY <1>7, SomeIsIn
<1>9. T \ {Some(T)} \in SUBSET T0 /\ Cardinality(T \ {Some(T)}) \notin Bad
  <2>1. Cardinality(T \ {Some(T)}) = n - 1 /\ n \in Nat
    BY <1>5, <1>6, <1>8, LessOfSome
  <2> HIDE DEF Bad
  <2> QED
    BY <1>3, <1>4, <2>1
<1>10. t[T \ {Some(T)}] = u[T \ {Some(T)}]
  BY <1>9
<1>11. t[T] = g[Some(T)] + t[T \ {Some(T)}]
  BY <1>6, <1>7, TableEntry
<1>12. u[T] = h[Some(T)] + u[T \ {Some(T)}]
  BY <1>6, <1>7, TableEntry
<1> QED
  BY <1>5, <1>8, <1>10, <1>11, <1>12

LEMMA TableIsInt ==
    ASSUME NEW S, NEW g, NEW t, IsTable(t, g, S),
           NEW T0 \in SUBSET S, IsFiniteSet(T0), \A x \in T0 : g[x] \in Int
    PROVE  t[T0] \in Int
<1> DEFINE Breaks(T) == t[T] \notin Int
           Bad == {Cardinality(T) : T \in {T \in SUBSET T0 : Breaks(T)}}
<1>1. SUFFICES Bad = {}
  OBVIOUS
<1>2. SUFFICES ASSUME Bad # {} PROVE FALSE
  OBVIOUS
<1>3. Bad \subseteq Nat
  BY FS_Subset, FS_CardinalityType
<1>4. PICK n \in Bad : \A m \in Bad : n <= m
  BY <1>2, <1>3, LeastIsMin
<1>5. PICK T \in SUBSET T0 : Breaks(T) /\ n = Cardinality(T)
  BY <1>4
<1>6. IsFiniteSet(T) /\ T \in SUBSET S
  BY FS_Subset
<1>7. T # {}
  <2>1. t[{}] = 0
    BY TableEntry
  <2> QED
    BY <1>5, <2>1
<1>8. Some(T) \in T
  BY <1>7, SomeIsIn
<1>9. T \ {Some(T)} \in SUBSET T0 /\ Cardinality(T \ {Some(T)}) \notin Bad
  <2>1. Cardinality(T \ {Some(T)}) = n - 1 /\ n \in Nat
    BY <1>5, <1>6, <1>8, LessOfSome
  <2> HIDE DEF Bad
  <2> QED
    BY <1>3, <1>4, <2>1
<1>10. ~Breaks(T \ {Some(T)})
  <2> DEFINE U == T \ {Some(T)}
  <2>1. U \in SUBSET T0 /\ Cardinality(U) \notin Bad
    BY <1>9
  <2>2. ~Breaks(U)
    <3> HIDE DEF Breaks, U
    <3> QED
      BY <2>1
  <2> QED
    BY <2>2
<1> HIDE DEF Breaks, Bad
<1>11. t[T] = g[Some(T)] + t[T \ {Some(T)}]
  BY <1>6, <1>7, TableEntry
<1> QED
  BY <1>5, <1>8, <1>10, <1>11 DEF Breaks

\* Any element may be taken first.
LEMMA TableTakesAny ==
    ASSUME NEW S, NEW g, NEW t, IsTable(t, g, S),
           NEW T0 \in SUBSET S, IsFiniteSet(T0), \A x \in T0 : g[x] \in Int, NEW x0 \in T0
    PROVE  t[T0] = g[x0] + t[T0 \ {x0}]
<1> DEFINE Breaks(T) == \E x \in T : t[T] # g[x] + t[T \ {x}]
           Bad == {Cardinality(T) : T \in {T \in SUBSET T0 : Breaks(T)}}
<1>1. SUFFICES Bad = {}
  OBVIOUS
<1>2. SUFFICES ASSUME Bad # {} PROVE FALSE
  OBVIOUS
<1>3. Bad \subseteq Nat
  BY FS_Subset, FS_CardinalityType
<1>4. PICK n \in Bad : \A m \in Bad : n <= m
  BY <1>2, <1>3, LeastIsMin
<1>5. PICK T \in SUBSET T0 : Breaks(T) /\ n = Cardinality(T)
  BY <1>4
<1>6. PICK x \in T : t[T] # g[x] + t[T \ {x}]
  BY <1>5
<1> DEFINE y == Some(T)
<1>7. IsFiniteSet(T) /\ y \in T
  BY <1>6, FS_Subset, SomeIsIn
<1>8. t[T] = g[y] + t[T \ {y}]
  BY <1>6, TableEntry
<1> HIDE DEF y
<1>9. x # y /\ x \in T \ {y} /\ y \in T \ {x}
  BY <1>6, <1>7, <1>8
<1>10. /\ T \ {x} \in SUBSET T0 /\ Cardinality(T \ {x}) \notin Bad
       /\ T \ {y} \in SUBSET T0 /\ Cardinality(T \ {y}) \notin Bad
  <2>1. n \in Nat /\ Cardinality(T \ {x}) = n - 1
    BY <1>5, <1>6, <1>7, LessOfSome
  <2>2. Cardinality(T \ {y}) = n - 1
    BY <1>5, <1>7, LessOfSome
  <2> HIDE DEF Bad
  <2> QED
    BY <1>3, <1>4, <2>1, <2>2
<1>11. ~Breaks(T \ {x}) /\ ~Breaks(T \ {y})
  <2> HIDE DEF Breaks
  <2> QED
    BY <1>10
<1>12. t[T \ {y}] = g[x] + t[(T \ {y}) \ {x}]
  BY <1>9, <1>11
<1>13. t[T \ {x}] = g[y] + t[(T \ {x}) \ {y}]
  BY <1>9, <1>11
<1>14. (T \ {x}) \ {y} = (T \ {y}) \ {x}
  OBVIOUS
<1>15. t[(T \ {x}) \ {y}] \in Int /\ g[x] \in Int /\ g[y] \in Int
  <2>1. (T \ {x}) \ {y} \in SUBSET S /\ IsFiniteSet((T \ {x}) \ {y})
    BY <1>7, FS_Subset
  <2>2. \A z \in (T \ {x}) \ {y} : g[z] \in Int
    OBVIOUS
  <2>3. t[(T \ {x}) \ {y}] \in Int
    BY <2>1, <2>2, TableIsInt
  <2> QED
    BY <1>7, <2>3
<1> DEFINE w == t[(T \ {x}) \ {y}]
<1>16. t[T] = g[y] + (g[x] + w) /\ t[T \ {x}] = g[y] + w
  BY <1>8, <1>12, <1>13, <1>14
<1>17. w \in Int /\ g[x] \in Int /\ g[y] \in Int
  BY <1>15
<1> HIDE DEF w
<1>18. t[T] = g[x] + t[T \ {x}]
  BY <1>16, <1>17
<1> QED
  BY <1>6, <1>18

\* The sum of g over S.
SumOf(g, S) == (CHOOSE t : IsTable(t, g, S))[S]

LEMMA SumIsTables ==
    ASSUME NEW S, IsFiniteSet(S), NEW g, NEW R, S \subseteq R, NEW h, \A x \in S : h[x] = g[x],
           NEW t, IsTable(t, h, R)
    PROVE  SumOf(g, S) = t[S]
<1>1. IsTable(CHOOSE u : IsTable(u, g, S), g, S)
  BY TableExists
<1> QED
  BY <1>1, TablesAgree DEF SumOf

LEMMA SumOfNone ==
    ASSUME NEW g
    PROVE  SumOf(g, {}) = 0
<1>1. PICK t : IsTable(t, g, {})
  BY TableExists, FS_EmptySet
<1>2. SumOf(g, {}) = t[{}]
  BY <1>1, SumIsTables, FS_EmptySet
<1> QED
  BY <1>1, <1>2, TableEntry

LEMMA SumIsInt ==
    ASSUME NEW S, IsFiniteSet(S), NEW g, \A x \in S : g[x] \in Int
    PROVE  SumOf(g, S) \in Int
<1>1. PICK t : IsTable(t, g, S)
  BY TableExists
<1> QED
  BY <1>1, SumIsTables, TableIsInt

LEMMA SumTakes ==
    ASSUME NEW S, IsFiniteSet(S), NEW g, \A x \in S : g[x] \in Int, NEW x \in S
    PROVE  SumOf(g, S) = g[x] + SumOf(g, S \ {x})
<1>1. PICK t : IsTable(t, g, S)
  BY TableExists
<1>2. SumOf(g, S) = t[S]
  BY <1>1, SumIsTables
<1>3. SumOf(g, S \ {x}) = t[S \ {x}]
  BY <1>1, SumIsTables, FS_Subset
<1>4. t[S] = g[x] + t[S \ {x}]
  BY <1>1, TableTakesAny
<1> QED
  BY <1>2, <1>3, <1>4

LEMMA SumAdds ==
    ASSUME NEW S, IsFiniteSet(S), NEW x, x \notin S, NEW g, \A y \in S \cup {x} : g[y] \in Int
    PROVE  SumOf(g, S \cup {x}) = g[x] + SumOf(g, S)
<1>1. IsFiniteSet(S \cup {x}) /\ (S \cup {x}) \ {x} = S
  BY FS_AddElement
<1> QED
  BY <1>1, SumTakes

LEMMA SumOfSame ==
    ASSUME NEW S, IsFiniteSet(S), NEW g, NEW h, \A x \in S : g[x] = h[x]
    PROVE  SumOf(g, S) = SumOf(h, S)
<1>1. PICK t : IsTable(t, g, S)
  BY TableExists
<1>2. SumOf(g, S) = t[S]
  BY <1>1, SumIsTables
<1>3. SumOf(h, S) = t[S]
  BY <1>1, SumIsTables
<1> QED
  BY <1>2, <1>3

LEMMA SumLeq ==
    ASSUME NEW S, IsFiniteSet(S), NEW g, NEW h,
           \A x \in S : g[x] \in Int /\ h[x] \in Int /\ g[x] <= h[x]
    PROVE  SumOf(g, S) <= SumOf(h, S)
<1> DEFINE Breaks(T) == ~(SumOf(g, T) <= SumOf(h, T))
           Bad == {Cardinality(T) : T \in {T \in SUBSET S : Breaks(T)}}
<1>1. SUFFICES Bad = {}
  OBVIOUS
<1>2. SUFFICES ASSUME Bad # {} PROVE FALSE
  OBVIOUS
<1>3. Bad \subseteq Nat
  BY FS_Subset, FS_CardinalityType
<1>4. PICK n \in Bad : \A m \in Bad : n <= m
  BY <1>2, <1>3, LeastIsMin
<1>5. PICK T \in SUBSET S : Breaks(T) /\ n = Cardinality(T)
  BY <1>4
<1>6. IsFiniteSet(T)
  BY FS_Subset
<1>7. T # {}
  <2>1. SumOf(g, {}) = 0 /\ SumOf(h, {}) = 0
    BY SumOfNone
  <2> QED
    BY <1>5, <2>1
<1>8. PICK x \in T : TRUE
  BY <1>7
<1> DEFINE U == T \ {x}
<1>9. U \in SUBSET S /\ IsFiniteSet(U) /\ Cardinality(U) \notin Bad
  <2>1. Cardinality(U) = n - 1 /\ n \in Nat /\ IsFiniteSet(U)
    BY <1>5, <1>6, <1>8, LessOfSome
  <2> HIDE DEF Bad
  <2> QED
    BY <1>3, <1>4, <2>1
<1>10. ~Breaks(U)
  <2> HIDE DEF Breaks, U
  <2> QED
    BY <1>9
<1>11. SumOf(g, T) = g[x] + SumOf(g, U) /\ SumOf(h, T) = h[x] + SumOf(h, U)
  BY <1>6, <1>8, SumTakes
<1>12. SumOf(g, U) \in Int /\ SumOf(h, U) \in Int
  BY <1>9, SumIsInt
<1> QED
  BY <1>5, <1>8, <1>10, <1>11, <1>12

LEMMA SumIsNat ==
    ASSUME NEW S, IsFiniteSet(S), NEW g, \A x \in S : g[x] \in Nat
    PROVE  SumOf(g, S) \in Nat
<1> DEFINE Breaks(T) == SumOf(g, T) \notin Nat
           Bad == {Cardinality(T) : T \in {T \in SUBSET S : Breaks(T)}}
<1>1. SUFFICES Bad = {}
  OBVIOUS
<1>2. SUFFICES ASSUME Bad # {} PROVE FALSE
  OBVIOUS
<1>3. Bad \subseteq Nat
  BY FS_Subset, FS_CardinalityType
<1>4. PICK n \in Bad : \A m \in Bad : n <= m
  BY <1>2, <1>3, LeastIsMin
<1>5. PICK T \in SUBSET S : Breaks(T) /\ n = Cardinality(T)
  BY <1>4
<1>6. IsFiniteSet(T)
  BY FS_Subset
<1>7. T # {}
  BY <1>5, SumOfNone
<1>8. PICK x \in T : TRUE
  BY <1>7
<1> DEFINE U == T \ {x}
<1>9. U \in SUBSET S /\ Cardinality(U) \notin Bad
  <2>1. Cardinality(U) = n - 1 /\ n \in Nat
    BY <1>5, <1>6, <1>8, LessOfSome
  <2> HIDE DEF Bad
  <2> QED
    BY <1>3, <1>4, <2>1
<1>10. ~Breaks(U)
  <2> HIDE DEF Breaks, U
  <2> QED
    BY <1>9
<1>11. SumOf(g, T) = g[x] + SumOf(g, U)
  BY <1>6, <1>8, SumTakes
<1> QED
  BY <1>5, <1>8, <1>10, <1>11

\* Two functions that differ in one element.
LEMMA SumMoves ==
    ASSUME NEW S, IsFiniteSet(S), NEW g, NEW h, NEW x \in S,
           \A y \in S : g[y] \in Int /\ h[y] \in Int, \A y \in S \ {x} : g[y] = h[y]
    PROVE  SumOf(h, S) = SumOf(g, S) + h[x] - g[x]
<1> DEFINE R == S \ {x}
           a == SumOf(g, S)
           b == SumOf(h, S)
           c == SumOf(g, R)
           u == g[x]
           v == h[x]
<1>1. IsFiniteSet(R)
  BY FS_Subset
<1>2. a = u + c /\ b = v + SumOf(h, R)
  BY SumTakes
<1>3. c = SumOf(h, R)
  <2>1. \A y \in R : g[y] = h[y]
    OBVIOUS
  <2> HIDE DEF R
  <2> QED
    BY <1>1, <2>1, SumOfSame
<1>4. c \in Int
  <2>1. \A y \in R : g[y] \in Int
    OBVIOUS
  <2> HIDE DEF R
  <2> QED
    BY <1>1, <2>1, SumIsInt
<1>5. u \in Int /\ v \in Int
  OBVIOUS
<1>6. b = a + v - u
  <2>1. b = v + c
    BY <1>2, <1>3
  <2>2. a = u + c
    BY <1>2
  <2> HIDE DEF a, b, c, u, v
  <2> QED
    BY ONLY <1>4, <1>5, <2>1, <2>2
<1> QED
  BY <1>6

\* A sum of sums.
LEMMA SumPlus ==
    ASSUME NEW S, IsFiniteSet(S), NEW g, NEW h, NEW k,
           \A x \in S : g[x] \in Int /\ h[x] \in Int /\ k[x] = g[x] + h[x]
    PROVE  SumOf(k, S) = SumOf(g, S) + SumOf(h, S)
<1> DEFINE Breaks(T) == SumOf(k, T) # SumOf(g, T) + SumOf(h, T)
           Bad == {Cardinality(T) : T \in {T \in SUBSET S : Breaks(T)}}
<1>1. SUFFICES Bad = {}
  OBVIOUS
<1>2. SUFFICES ASSUME Bad # {} PROVE FALSE
  OBVIOUS
<1>3. Bad \subseteq Nat
  BY FS_Subset, FS_CardinalityType
<1>4. PICK n \in Bad : \A m \in Bad : n <= m
  BY <1>2, <1>3, LeastIsMin
<1>5. PICK T \in SUBSET S : Breaks(T) /\ n = Cardinality(T)
  BY <1>4
<1>6. IsFiniteSet(T)
  BY FS_Subset
<1>7. T # {}
  <2>1. SumOf(g, {}) = 0 /\ SumOf(h, {}) = 0 /\ SumOf(k, {}) = 0
    BY SumOfNone
  <2> QED
    BY <1>5, <2>1
<1>8. PICK x \in T : TRUE
  BY <1>7
<1> DEFINE U == T \ {x}
           a == SumOf(g, U)
           b == SumOf(h, U)
<1>9. U \in SUBSET S /\ IsFiniteSet(U) /\ Cardinality(U) \notin Bad
  <2>1. Cardinality(U) = n - 1 /\ n \in Nat /\ IsFiniteSet(U)
    BY <1>5, <1>6, <1>8, LessOfSome
  <2> HIDE DEF Bad
  <2> QED
    BY <1>3, <1>4, <2>1
<1>10. SumOf(k, U) = a + b
  <2>1. ~Breaks(U)
    <3> HIDE DEF Breaks, U
    <3> QED
      BY <1>9
  <2> QED
    BY <2>1
<1>11. SumOf(g, T) = g[x] + a /\ SumOf(h, T) = h[x] + b
  BY <1>6, <1>8, SumTakes
<1>12. SumOf(k, T) = k[x] + SumOf(k, U)
  <2>1. \A y \in T : k[y] \in Int
    OBVIOUS
  <2> QED
    BY <1>6, <1>8, <2>1, SumTakes
<1>13. a \in Int /\ b \in Int /\ g[x] \in Int /\ h[x] \in Int /\ k[x] = g[x] + h[x]
  BY <1>8, <1>9, SumIsInt
<1>14. SumOf(k, T) = SumOf(g, T) + SumOf(h, T)
  <2> HIDE DEF a, b
  <2> QED
    BY <1>10, <1>11, <1>12, <1>13
<1> QED
  BY <1>5, <1>14

\* Zeros may be left out.
LEMMA SumSkips ==
    ASSUME NEW S, IsFiniteSet(S), NEW g, \A x \in S : g[x] \in Int,
           NEW R, R \subseteq S, \A x \in S \ R : g[x] = 0
    PROVE  SumOf(g, S) = SumOf(g, R)
<1> DEFINE Breaks(T) == SumOf(g, R \cup T) # SumOf(g, R)
           Bad == {Cardinality(T) : T \in {T \in SUBSET (S \ R) : Breaks(T)}}
<1>1. SUFFICES Bad = {}
  <2>1. SUFFICES ASSUME Breaks(S \ R) PROVE Bad # {}
    <3>1. R \cup (S \ R) = S
      OBVIOUS
    <3>2. Breaks(S \ R) <=> SumOf(g, S) # SumOf(g, R)
      BY <3>1
    <3> HIDE DEF Breaks
    <3> QED
      BY <2>1, <3>2
  <2>2. S \ R \in SUBSET (S \ R)
    OBVIOUS
  <2>3. Cardinality(S \ R) \in Bad
    <3> HIDE DEF Breaks
    <3> QED
      BY <2>1, <2>2
  <2> QED
    BY <2>3
<1>2. SUFFICES ASSUME Bad # {} PROVE FALSE
  OBVIOUS
<1>3. Bad \subseteq Nat
  BY FS_Subset, FS_CardinalityType
<1>4. PICK n \in Bad : \A m \in Bad : n <= m
  BY <1>2, <1>3, LeastIsMin
<1>5. PICK T \in SUBSET (S \ R) : Breaks(T) /\ n = Cardinality(T)
  BY <1>4
<1>6. IsFiniteSet(T) /\ IsFiniteSet(R \cup T)
  BY FS_Subset
<1>7. T # {}
  BY <1>5
<1>8. PICK x \in T : TRUE
  BY <1>7
<1> DEFINE U == T \ {x}
<1>9. U \in SUBSET (S \ R) /\ IsFiniteSet(R \cup U) /\ Cardinality(U) \notin Bad
  <2>1. Cardinality(U) = n - 1 /\ n \in Nat
    BY <1>5, <1>6, <1>8, LessOfSome
  <2>2. IsFiniteSet(R \cup U)
    BY FS_Subset
  <2> HIDE DEF Bad
  <2> QED
    BY <1>3, <1>4, <2>1, <2>2
<1>10. SumOf(g, R \cup U) = SumOf(g, R)
  <2>1. ~Breaks(U)
    <3> HIDE DEF Breaks, U
    <3> QED
      BY <1>9
  <2> QED
    BY <2>1
<1>11. SumOf(g, R \cup T) = g[x] + SumOf(g, R \cup U)
  <2>1. (R \cup T) \ {x} = R \cup U /\ x \in R \cup T
    BY <1>8
  <2>2. \A y \in R \cup T : g[y] \in Int
    OBVIOUS
  <2> HIDE DEF U
  <2> QED
    BY <1>6, <2>1, <2>2, SumTakes
<1>12. g[x] = 0 /\ SumOf(g, R) \in Int
  <2>1. IsFiniteSet(R)
    BY FS_Subset
  <2> QED
    BY <1>8, <2>1, SumIsInt
<1> QED
  BY <1>5, <1>10, <1>11, <1>12

LEMMA SumBounded ==
    ASSUME NEW S, IsFiniteSet(S), NEW g, NEW k \in Nat, \A x \in S : g[x] \in Int /\ g[x] <= k
    PROVE  SumOf(g, S) <= k * Cardinality(S)
<1> DEFINE Breaks(T) == ~(SumOf(g, T) <= k * Cardinality(T))
           Bad == {Cardinality(T) : T \in {T \in SUBSET S : Breaks(T)}}
<1>1. SUFFICES Bad = {}
  OBVIOUS
<1>2. SUFFICES ASSUME Bad # {} PROVE FALSE
  OBVIOUS
<1>3. Bad \subseteq Nat
  BY FS_Subset, FS_CardinalityType
<1>4. PICK n \in Bad : \A m \in Bad : n <= m
  BY <1>2, <1>3, LeastIsMin
<1>5. PICK T \in SUBSET S : Breaks(T) /\ n = Cardinality(T)
  BY <1>4
<1>6. IsFiniteSet(T)
  BY FS_Subset
<1>7. T # {}
  BY <1>5, SumOfNone, FS_EmptySet
<1>8. PICK x \in T : TRUE
  BY <1>7
<1> DEFINE U == T \ {x}
<1>9. U \in SUBSET S /\ IsFiniteSet(U) /\ Cardinality(U) \notin Bad
      /\ Cardinality(T) = Cardinality(U) + 1 /\ Cardinality(U) \in Nat
  <2>1. Cardinality(U) = n - 1 /\ n \in Nat /\ IsFiniteSet(U) /\ n # 0
    BY <1>5, <1>6, <1>7, <1>8, LessOfSome, FS_EmptySet
  <2> HIDE DEF Bad
  <2> QED
    BY <1>3, <1>4, <1>5, <2>1
<1>10. SumOf(g, U) <= k * Cardinality(U)
  <2>1. ~Breaks(U)
    <3> HIDE DEF Breaks, U
    <3> QED
      BY <1>9
  <2> QED
    BY <2>1
<1>11. SumOf(g, T) = g[x] + SumOf(g, U)
  BY <1>6, <1>8, SumTakes
<1>12. SumOf(g, U) \in Int
  BY <1>9, SumIsInt
<1>13. k * (Cardinality(U) + 1) = k * Cardinality(U) + k /\ k * Cardinality(U) \in Int
  <2>1. \A m \in Nat : k * (m + 1) = k * m + k /\ k * m \in Int
    OBVIOUS
  <2> HIDE DEF U
  <2> QED
    BY <1>9, <2>1
<1> QED
  BY <1>5, <1>8, <1>9, <1>10, <1>11, <1>12, <1>13

\* A sum is not negative if every negative term is made up for by a term of its own.
LEMMA SumPaired ==
    ASSUME NEW S, IsFiniteSet(S), NEW A \in SUBSET S, NEW e, NEW g,
           \A x \in S : g[x] \in Int, \A x \in S \ A : g[x] >= 0,
           \A x \in A : e[x] \in S \ A /\ g[x] + g[e[x]] >= 0,
           \A x, y \in A : e[x] = e[y] => x = y
    PROVE  SumOf(g, S) >= 0
<1> DEFINE Breaks(T) == (\A x \in A \cap T : e[x] \in T) /\ ~(SumOf(g, T) >= 0)
           Bad == {Cardinality(T) : T \in {T \in SUBSET S : Breaks(T)}}
<1>1. SUFFICES Bad = {}
  <2>1. SUFFICES ASSUME Breaks(S) PROVE Bad # {}
    <3>1. \A x \in A \cap S : e[x] \in S
      OBVIOUS
    <3> HIDE DEF Bad
    <3> QED
      BY <2>1, <3>1
  <2> HIDE DEF Breaks
  <2> QED
    BY <2>1
<1>2. SUFFICES ASSUME Bad # {} PROVE FALSE
  OBVIOUS
<1>3. Bad \subseteq Nat
  BY FS_Subset, FS_CardinalityType
<1>4. PICK n \in Bad : \A m \in Bad : n <= m
  BY <1>2, <1>3, LeastIsMin
<1>5. PICK T \in SUBSET S : Breaks(T) /\ n = Cardinality(T)
  BY <1>4
<1>6. IsFiniteSet(T)
  BY FS_Subset
<1>7. A \cap T # {}
  <2>1. SUFFICES ASSUME A \cap T = {} PROVE SumOf(g, T) \in Nat
    BY <1>5, <2>1
  <2>2. \A x \in T : g[x] \in Nat
    BY <2>1
  <2> QED
    BY <1>6, <2>2, SumIsNat
<1>8. PICK x \in A \cap T : TRUE
  BY <1>7
<1> DEFINE z == e[x]
           V == T \ {x}
           U == V \ {z}
<1>9. z \in V /\ z \in T /\ z # x
  BY <1>5, <1>8
<1>10. IsFiniteSet(V) /\ IsFiniteSet(U) /\ Cardinality(U) \in Nat /\ Cardinality(U) < n /\ n \in Nat
  <2>1. IsFiniteSet(V) /\ Cardinality(V) = n - 1 /\ n \in Nat
    BY <1>5, <1>6, <1>8, FS_RemoveElement, FS_CardinalityType
  <2>2. IsFiniteSet(U) /\ Cardinality(U) = Cardinality(V) - 1
    <3> HIDE DEF V
    <3> QED
      BY <1>9, <2>1, FS_RemoveElement
  <2>3. Cardinality(U) \in Nat
    BY <2>2, FS_CardinalityType
  <2> HIDE DEF U, V
  <2> QED
    BY <2>1, <2>2, <2>3
<1>11. U \in SUBSET S /\ Cardinality(U) \notin Bad
  <2>1. ~(n <= Cardinality(U))
    BY <1>10
  <2> HIDE DEF Bad
  <2> QED
    BY <1>4, <2>1
<1>12. \A y \in A \cap U : e[y] \in U
  <2> TAKE y \in A \cap U
  <2>1. e[y] \in T /\ e[y] # e[x] /\ e[y] \notin A
    BY <1>5, <1>8
  <2> QED
    BY <1>8, <2>1
<1>13. SumOf(g, U) >= 0
  <2>1. ~Breaks(U)
    <3> HIDE DEF Breaks, U
    <3> QED
      BY <1>11
  <2> QED
    BY <1>12, <2>1
<1>14. SumOf(g, T) = g[x] + SumOf(g, V)
  BY <1>6, <1>8, SumTakes
<1>15. SumOf(g, V) = g[z] + SumOf(g, U)
  <2>1. \A y \in V : g[y] \in Int
    OBVIOUS
  <2> HIDE DEF V, z
  <2> QED
    BY <1>9, <1>10, <2>1, SumTakes
<1>16. SumOf(g, U) \in Int /\ g[x] \in Int /\ g[z] \in Int /\ g[x] + g[z] >= 0
  <2>1. \A y \in U : g[y] \in Int
    OBVIOUS
  <2>2. SumOf(g, U) \in Int
    <3> HIDE DEF U
    <3> QED
      BY <1>10, <2>1, SumIsInt
  <2> QED
    BY <1>8, <1>9, <2>2
<1>17. SumOf(g, T) >= 0
  <2> HIDE DEF U, V, z
  <2> QED
    BY <1>13, <1>14, <1>15, <1>16
<1> QED
  BY <1>5, <1>17

LEMMA SumScales ==
    ASSUME NEW S, IsFiniteSet(S), NEW g, NEW h, NEW k \in Int,
           \A x \in S : g[x] \in Int /\ h[x] = k * g[x]
    PROVE  SumOf(h, S) = k * SumOf(g, S)
<1> DEFINE Breaks(T) == SumOf(h, T) # k * SumOf(g, T)
           Bad == {Cardinality(T) : T \in {T \in SUBSET S : Breaks(T)}}
<1>1. SUFFICES Bad = {}
  OBVIOUS
<1>2. SUFFICES ASSUME Bad # {} PROVE FALSE
  OBVIOUS
<1>3. Bad \subseteq Nat
  BY FS_Subset, FS_CardinalityType
<1>4. PICK n \in Bad : \A m \in Bad : n <= m
  BY <1>2, <1>3, LeastIsMin
<1>5. PICK T \in SUBSET S : Breaks(T) /\ n = Cardinality(T)
  BY <1>4
<1>6. IsFiniteSet(T)
  BY FS_Subset
<1>7. T # {}
  <2>1. SumOf(g, {}) = 0 /\ SumOf(h, {}) = 0 /\ k * 0 = 0
    BY SumOfNone
  <2> QED
    BY <1>5, <2>1
<1>8. PICK x \in T : TRUE
  BY <1>7
<1> DEFINE U == T \ {x}
           a == SumOf(g, U)
<1>9. U \in SUBSET S /\ IsFiniteSet(U) /\ Cardinality(U) \notin Bad
  <2>1. Cardinality(U) = n - 1 /\ n \in Nat /\ IsFiniteSet(U)
    BY <1>5, <1>6, <1>8, LessOfSome
  <2> HIDE DEF Bad
  <2> QED
    BY <1>3, <1>4, <2>1
<1>10. SumOf(h, U) = k * a
  <2>1. ~Breaks(U)
    <3> HIDE DEF Breaks, U
    <3> QED
      BY <1>9
  <2> QED
    BY <2>1
<1>11. SumOf(g, T) = g[x] + a
  BY <1>6, <1>8, SumTakes
<1>12. SumOf(h, T) = h[x] + SumOf(h, U)
  <2>1. \A y \in T : h[y] \in Int
    OBVIOUS
  <2> QED
    BY <1>6, <1>8, <2>1, SumTakes
<1>13. a \in Int /\ g[x] \in Int /\ h[x] = k * g[x]
  BY <1>8, <1>9, SumIsInt
<1>14. SumOf(h, T) = k * SumOf(g, T)
  <2>1. \A b, c \in Int : k * b + k * c = k * (b + c)
    OBVIOUS
  <2> HIDE DEF a
  <2> QED
    BY <1>10, <1>11, <1>12, <1>13, <2>1
<1> QED
  BY <1>5, <1>14

\* What holds at first and of the next when it holds of one holds throughout.
LEMMA StepByStep ==
    ASSUME NEW n \in Nat, NEW S, 0 \in S, \A k \in 0..(n - 1) : k \in S => k + 1 \in S
    PROVE  0..n \subseteq S
<1> DEFINE Bad == (0..n) \ S
<1>1. SUFFICES ASSUME Bad # {} PROVE FALSE
  OBVIOUS
<1>2. PICK m \in Bad : \A b \in Bad : m <= b
  <2>1. Bad \subseteq Nat
    OBVIOUS
  <2>2. Min(Bad) \in Bad /\ \A b \in Bad : Min(Bad) <= b
    BY <1>1, <2>1, LeastIsMin
  <2> QED
    BY <2>2
<1>3. m \in 1..n /\ m - 1 \in 0..(n - 1) /\ (m - 1) + 1 = m
  OBVIOUS
<1>4. m - 1 \in S
  <2>1. m - 1 \notin Bad
    BY <1>2, <1>3
  <2> QED
    BY <1>3, <2>1
<1> QED
  BY <1>3, <1>4

LEMMA SmallerOf ==
    ASSUME NEW a \in Int, NEW b \in Int
    PROVE  Min({a, b}) = IF a <= b THEN a ELSE b
<1>1. Min({a, b}) \in {a, b} /\ \A y \in {a, b} : Min({a, b}) <= y
  <2>1. \E x \in {a, b} : \A y \in {a, b} : x <= y
    OBVIOUS
  <2> QED
    BY <2>1, Zenon DEF Min
<1> QED
  BY <1>1

\* A set of places without gaps before a place of it.
LEMMA FirstPlaces ==
    ASSUME NEW n \in Nat, NEW D \in SUBSET (1..n), \A x \in D : \A w \in 1..n : w < x => w \in D
    PROVE  Cardinality(D) \in 0..n /\ D = 1..Cardinality(D)
<1>1. CASE D = {}
  <2>1. Cardinality(D) = 0
    BY <1>1, FS_EmptySet
  <2>2. 1..0 = {} /\ 0 \in 0..n
    OBVIOUS
  <2> QED
    BY <1>1, <2>1, <2>2
<1>2. CASE D # {}
  <2>1. D \subseteq 0..n
    OBVIOUS
  <2>2. Max(D) \in D /\ \A d \in D : d <= Max(D)
    BY <1>2, <2>1, GreatestIsMax
  <2>3. PICK m \in D : \A d \in D : d <= m
    BY <2>2
  <2>4. m \in Nat /\ m \in 1..n /\ m \in 0..n
    OBVIOUS
  <2>5. D = 1..m
    <3>1. \A x \in D : x \in 1..m
      BY <2>3, <2>4
    <3>2. \A x \in 1..m : x \in D
      BY <2>3, <2>4
    <3> QED
      BY <3>1, <3>2
  <2>6. Cardinality(1..m) = m
    BY <2>4, FS_Interval
  <2> QED
    BY <2>4, <2>5, <2>6
<1> QED
  BY <1>1, <1>2

IntsOn(u, a, b) == \A x \in a..b : u[x] \in Int

OneValueOn(u, a, b, v) == \A x \in a..b : u[x] = v

\* A sum over places goes on by as much for each further place of one value.
LEMMA SumGoesOn ==
    ASSUME NEW a \in Int, NEW b \in Int, NEW c \in Int, NEW v \in Int, a <= b + 1, b <= c, NEW u,
           IntsOn(u, a, b), OneValueOn(u, b + 1, c, v)
    PROVE  SumOf(u, a..c) = SumOf(u, a..b) + (c - b) * v
<1> SUFFICES ASSUME NEW m \in Nat, c = b + m, c - b = m,
                    \A x \in a..b : u[x] \in Int, \A x \in (b + 1)..(b + m) : u[x] = v
             PROVE  SumOf(u, a..(b + m)) = SumOf(u, a..b) + m * v
  <2>1. c - b \in Nat /\ c = b + (c - b)
    OBVIOUS
  <2> QED
    BY <2>1 DEF IntsOn, OneValueOn
<1> DEFINE Goes(k) == SumOf(u, a..(b + k)) = SumOf(u, a..b) + k * v
           G == {k \in 0..m : Goes(k)}
<1>0. \A k \in Nat : IsFiniteSet(a..(b + k)) /\ b + k \in Int
  BY FS_Interval
<1>1. \A x \in a..(b + m) : u[x] \in Int
  <2> TAKE x \in a..(b + m)
  <2>1. x \in a..b \/ x \in (b + 1)..(b + m)
    OBVIOUS
  <2> QED
    BY <2>1
<1>2. SumOf(u, a..b) \in Int
  BY FS_Interval, SumIsInt
<1>3. Goes(0)
  <2>1. b + 0 = b /\ 0 * v = 0
    OBVIOUS
  <2> DEFINE s == SumOf(u, a..b)
  <2>2. SumOf(u, a..(b + 0)) = s
    BY <2>1
  <2> HIDE DEF s
  <2>3. s = s + 0 * v
    BY <1>2, <2>1 DEF s
  <2> QED
    BY <2>2, <2>3 DEF s
<1>4. ASSUME NEW k \in 0..(m - 1), Goes(k) PROVE Goes(k + 1)
  <2> DEFINE A == a..(b + k)
             x == b + (k + 1)
             B == a..(b + (k + 1))
             s == SumOf(u, a..b)
             t == SumOf(u, A)
  <2>1. k \in Nat /\ k + 1 \in Nat /\ x \in (b + 1)..(b + m) /\ x \notin A /\ B = A \cup {x}
        /\ A \subseteq a..(b + m) /\ x \in a..(b + m)
    OBVIOUS
  <2>2. IsFiniteSet(A) /\ u[x] = v
    BY <1>0, <2>1
  <2>3. \A y \in A \cup {x} : u[y] \in Int
    BY <1>1, <2>1
  <2>4. t = s + k * v
    BY <1>4
  <2> HIDE DEF A, x, B, s, t
  <2>5. SumOf(u, B) = v + SumOf(u, A)
    BY <2>1, <2>2, <2>3, SumAdds
  <2>6. s \in Int
    BY <1>2 DEF s
  <2>7. v + (s + k * v) = s + (k + 1) * v
    <3>1. (k + 1) * v = k * v + v /\ k * v \in Int
      BY <2>1
    <3> QED
      BY <2>6, <3>1
  <2>8. SumOf(u, B) = s + (k + 1) * v
    BY <2>4, <2>5, <2>7 DEF t
  <2> QED
    BY <2>8 DEF B, s
<1> HIDE DEF Goes
<1>5. 0 \in G
  BY <1>3
<1>6. \A k \in 0..(m - 1) : k \in G => k + 1 \in G
  <2> TAKE k \in 0..(m - 1)
  <2>1. k + 1 \in 0..m
    OBVIOUS
  <2> QED
    BY <1>4, <2>1
<1> HIDE DEF G
<1>7. 0..m \subseteq G
  BY <1>5, <1>6, StepByStep
<1>8. m \in G
  BY <1>7
<1> QED
  BY <1>8 DEF G, Goes

LEMMA SumSplits ==
    ASSUME NEW a \in Nat, NEW c \in Nat, a <= c, NEW v, IntsOn(v, 1, c)
    PROVE  SumOf(v, 1..c) = SumOf(v, 1..a) + SumOf(v, (a + 1)..c)
<1> DEFINE T == 1..c
           A == 1..a
           B == (a + 1)..c
           g == [x \in T |-> IF x \in A THEN v[x] ELSE 0]
           h == [x \in T |-> IF x \in B THEN v[x] ELSE 0]
<1>1. /\ A \subseteq T /\ B \subseteq T /\ \A x \in T : x \in B <=> x \notin A
      /\ \A x \in T : v[x] \in Int
  BY DEF IntsOn
<1>2. IsFiniteSet(T) /\ IsFiniteSet(A) /\ IsFiniteSet(B)
  <2>1. IsFiniteSet(T)
    BY FS_Interval
  <2> HIDE DEF T, A, B
  <2> QED
    BY <1>1, <2>1, FS_Subset
<1> HIDE DEF T, A, B
<1>3. /\ \A x \in T : g[x] \in Int /\ h[x] \in Int /\ v[x] = g[x] + h[x]
      /\ \A x \in A : g[x] = v[x]
      /\ \A x \in T \ A : g[x] = 0
      /\ \A x \in T \ B : h[x] = 0
  BY <1>1
<1>4. \A x \in B : h[x] = v[x]
  BY <1>1
<1> HIDE DEF g, h
<1>5. SumOf(v, T) = SumOf(g, T) + SumOf(h, T)
  BY <1>2, <1>3, SumPlus
<1>6. SumOf(g, T) = SumOf(g, A) /\ SumOf(h, T) = SumOf(h, B)
  BY <1>1, <1>2, <1>3, SumSkips
<1>7. SumOf(g, A) = SumOf(v, A) /\ SumOf(h, B) = SumOf(v, B)
  <2>1. SumOf(g, A) = SumOf(v, A)
    BY <1>2, <1>3, SumOfSame
  <2>2. SumOf(h, B) = SumOf(v, B)
    BY <1>2, <1>4, SumOfSame
  <2> QED
    BY <2>1, <2>2
<1> QED
  BY <1>5, <1>6, <1>7 DEF T, A, B
===============================================================================

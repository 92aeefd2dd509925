------------------------------ MODULE BooksProofs ------------------------------
(***************************************************************************)
(* Proofs about the two components that keep books of cash and positions:  *)
(* the BacktestEngine, with the Allocation it trades by, for any strategy, *)
(* prices and days, and the Ledger of an account, for any trades and days. *)
(***************************************************************************)
EXTENDS BacktestEngine, Ledger, DataLemmas, SequenceTheorems

-----------------------------------------------------------------------------
(* Members in their order, and targets.                                    *)

RankIn(S, x) == Cardinality({y \in S : y < x})

\* Every rank is taken, and by one member.
LEMMA RanksAreTaken ==
    ASSUME NEW S, S \subseteq Nat, IsFiniteSet(S)
    PROVE  /\ \A x \in S : RankIn(S, x) \in 0..(Cardinality(S) - 1)
           /\ \A x, z \in S : x < z => RankIn(S, x) < RankIn(S, z)
           /\ \A i \in 1..Cardinality(S) : \E x \in S : RankIn(S, x) = i - 1
<1> DEFINE n == Cardinality(S)
           Below(x) == {y \in S : y < x}
           f == [x \in S |-> RankIn(S, x)]
<1>1. n \in Nat
  BY FS_CardinalityType
<1>2. \A x \in S : IsFiniteSet(Below(x)) /\ RankIn(S, x) = Cardinality(Below(x))
                   /\ RankIn(S, x) \in Nat
  BY FS_Subset, FS_CardinalityType DEF RankIn
<1>3. ASSUME NEW x \in S, NEW z \in S, x < z
      PROVE  RankIn(S, x) < RankIn(S, z)
  <2>1. Below(x) \in SUBSET Below(z) /\ x \in Below(z) /\ x \notin Below(x)
    <3>1. x \in Nat /\ z \in Nat
      OBVIOUS
    <3>2. \A y \in S : y \in Nat /\ (y < x => y < z) /\ ~(x < x)
      BY <1>3, <3>1
    <3> QED
      BY <1>3, <3>1, <3>2
  <2> HIDE DEF Below
  <2>2. Cardinality(Below(x)) <= Cardinality(Below(z)) /\ Cardinality(Below(x)) # Cardinality(Below(z))
    BY <1>2, <2>1, FS_Subset
  <2> QED
    BY <1>2, <2>2
<1>4. ASSUME NEW x \in S PROVE RankIn(S, x) \in 0..(n - 1)
  <2>1. Below(x) \in SUBSET S /\ x \in S /\ x \notin Below(x)
    OBVIOUS
  <2> HIDE DEF Below
  <2>2. Cardinality(Below(x)) <= n /\ Cardinality(Below(x)) # n
    BY <2>1, FS_Subset
  <2> QED
    BY <1>1, <1>2, <2>2
<1>5. f \in Injection(S, 0..(n - 1))
  <2>1. f \in [S -> 0..(n - 1)]
    BY <1>4
  <2>2. ASSUME NEW x \in S, NEW z \in S, f[x] = f[z] PROVE x = z
    <3>1. RankIn(S, x) = RankIn(S, z) /\ RankIn(S, x) \in Nat
      BY <1>2, <2>2
    <3>2. x \in Nat /\ z \in Nat
      OBVIOUS
    <3>3. ~(x < z) /\ ~(z < x)
      BY <1>2, <1>3, <3>1
    <3> QED
      BY <3>2, <3>3
  <2> HIDE DEF f
  <2> QED
    BY <2>1, <2>2 DEF Injection, IsInjective
<1>6. IsFiniteSet(0..(n - 1)) /\ Cardinality(0..(n - 1)) = n
  <2> HIDE DEF n
  <2>1. 0 \in Int /\ n - 1 \in Int
    BY <1>1
  <2>2. Cardinality(0..(n - 1)) = IF 0 > n - 1 THEN 0 ELSE (n - 1) - 0 + 1
    BY <2>1, FS_Interval
  <2> QED
    BY <1>1, <2>1, <2>2, FS_Interval
<1>7. f \in Surjection(S, 0..(n - 1))
  <2> HIDE DEF f, n
  <2> QED
    BY <1>5, <1>6, FS_Injection DEF n
<1>8. \A i \in 1..n : \E x \in S : RankIn(S, x) = i - 1
  <2> TAKE i \in 1..n
  <2>1. i - 1 \in 0..(n - 1)
    BY <1>1
  <2> QED
    BY <1>7, <2>1 DEF Surjection
<1> QED
  BY <1>3, <1>4, <1>8

LEMMA InOrderIs ==
    ASSUME NEW S, S \subseteq Nat, IsFiniteSet(S)
    PROVE  /\ InOrder(S) \in Seq(S) /\ Len(InOrder(S)) = Cardinality(S)
           /\ Cardinality(S) \in Nat /\ DOMAIN InOrder(S) = 1..Cardinality(S)
           /\ \A x \in S : \E i \in 1..Cardinality(S) : InOrder(S)[i] = x
           /\ \A i, j \in 1..Cardinality(S) : i < j => InOrder(S)[i] < InOrder(S)[j]
<1> DEFINE n == Cardinality(S)
           s == InOrder(S)
           At(i) == CHOOSE x \in S : RankIn(S, x) = i - 1
<1>1. n \in Nat
  BY FS_CardinalityType
<1>2. s = [i \in 1..n |-> At(i)]
  BY DEF InOrder, RankIn
<1>3. \A i \in 1..n : At(i) \in S /\ RankIn(S, At(i)) = i - 1
  BY RanksAreTaken
<1> HIDE DEF At, s, n
<1>4. s \in Seq(S) /\ Len(s) = n /\ DOMAIN s = 1..n
  BY <1>1, <1>2, <1>3
<1>5. ASSUME NEW x \in S PROVE \E i \in 1..n : s[i] = x
  <2>1. RankIn(S, x) \in 0..(n - 1)
    BY RanksAreTaken DEF n
  <2>2. RankIn(S, x) + 1 \in 1..n /\ (RankIn(S, x) + 1) - 1 = RankIn(S, x)
    BY <1>1, <2>1
  <2> DEFINE i == RankIn(S, x) + 1
  <2>3. At(i) \in S /\ RankIn(S, At(i)) = RankIn(S, x)
    <3>1. i \in 1..n /\ i - 1 = RankIn(S, x)
      BY <2>2
    <3> HIDE DEF i
    <3> QED
      BY <1>3, <3>1
  <2>4. x \in Nat /\ At(i) \in Nat /\ RankIn(S, x) \in Nat
    <3>1. RankIn(S, x) \in Nat
      BY <1>1, <2>1
    <3>2. At(i) \in S
      BY <2>3
    <3> HIDE DEF i
    <3> QED
      BY <3>1, <3>2
  <2>5. ~(x < At(i)) /\ ~(At(i) < x)
    <3>1. \A y, z \in S : y < z => RankIn(S, y) < RankIn(S, z)
      BY RanksAreTaken
    <3> HIDE DEF i
    <3> QED
      BY <2>3, <2>4, <3>1
  <2>6. At(i) = x
    <3> HIDE DEF i
    <3> QED
      BY <2>4, <2>5
  <2> QED
    BY <1>2, <2>2, <2>6
<1>6. ASSUME NEW i \in 1..n, NEW j \in 1..n, i < j PROVE s[i] < s[j]
  <2>1. /\ s[i] \in Nat /\ s[j] \in Nat /\ s[i] \in S /\ s[j] \in S
        /\ RankIn(S, s[i]) = i - 1 /\ RankIn(S, s[j]) = j - 1
    BY <1>2, <1>3
  <2>2. ~(s[j] < s[i]) /\ s[i] # s[j]
    <3>1. \A y, z \in S : y < z => RankIn(S, y) < RankIn(S, z)
      BY RanksAreTaken
    <3>2. i \in Nat /\ j \in Nat
      BY <1>1
    <3> QED
      BY <1>6, <2>1, <3>1, <3>2
  <2> QED
    BY <2>1, <2>2
<1> QED
  BY <1>1, <1>4, <1>5, <1>6 DEF s, n

\* What is chosen from a sequence is in it, and comes in its order.
LEMMA ChosenIs ==
    ASSUME NEW T, NEW s \in Seq(T), NEW keep \in SUBSET (DOMAIN s)
    PROVE  /\ Chosen(s, keep) \in Seq(T)
           /\ \A i \in keep : \E k \in DOMAIN Chosen(s, keep) : Chosen(s, keep)[k] = s[i]
           /\ \A k \in DOMAIN Chosen(s, keep) : /\ InOrder(keep)[k] \in keep
                                                /\ Chosen(s, keep)[k] = s[InOrder(keep)[k]]
           /\ DOMAIN Chosen(s, keep) = 1..Cardinality(keep) /\ Cardinality(keep) \in Nat
           /\ \A k, l \in DOMAIN Chosen(s, keep) : k < l => InOrder(keep)[k] < InOrder(keep)[l]
<1> DEFINE ordered == InOrder(keep)
           n == Cardinality(keep)
<1>1. keep \subseteq Nat /\ IsFiniteSet(keep) /\ DOMAIN s = 1..Len(s)
  BY FS_Interval, FS_Subset
<1>2. /\ ordered \in Seq(keep) /\ n \in Nat /\ DOMAIN ordered = 1..n
      /\ \A x \in keep : \E i \in 1..n : ordered[i] = x
      /\ \A i, j \in 1..n : i < j => ordered[i] < ordered[j]
  BY <1>1, InOrderIs
<1>3. Chosen(s, keep) = [i \in 1..n |-> s[ordered[i]]]
  BY <1>2 DEF Chosen
<1>4. \A i \in 1..n : ordered[i] \in keep
  BY <1>2
<1>5. \A i \in keep : s[i] \in T
  BY <1>1
<1> HIDE DEF ordered, n
<1>6. Chosen(s, keep) \in Seq(T) /\ DOMAIN Chosen(s, keep) = 1..n
  <2> DEFINE e == [i \in 1..n |-> s[ordered[i]]]
  <2>1. \A i \in 1..n : s[ordered[i]] \in T
    BY <1>4, <1>5
  <2>2. e \in [1..n -> T]
    BY <2>1
  <2>3. e \in Seq(T) /\ DOMAIN e = 1..n
    BY <1>2, <2>2, SeqDef
  <2> QED
    BY <1>3, <2>3
<1>7. \A k \in 1..n : Chosen(s, keep)[k] = s[ordered[k]]
  BY <1>3
<1>8. \A i \in keep : \E k \in 1..n : Chosen(s, keep)[k] = s[i]
  BY <1>2, <1>7
<1> QED
  BY <1>2, <1>4, <1>6, <1>7, <1>8 DEF ordered, n

-----------------------------------------------------------------------------
(* The backtest.                                                           *)

Resting == Phases \ {"trading"}
Fraction == Nat \X (Nat \ {0})

\* The entry price of a position of b shares lies between prices paid for it.
EntryFits(c, b) ==
    IF b = 0 THEN entry[c] = NoEntry /\ paid[c] = {}
    ELSE /\ entry[c] \in Fraction
         /\ \E p \in paid[c] : p * entry[c][2] <= entry[c][1]
         /\ \E p \in paid[c] : p * entry[c][2] >= entry[c][1]

\* A signal asks for no more codes than it has slots.
Slotted(selected, slots) == Cardinality(ToSet(selected)) <= slots

SignalInv ==
    /\ strategy \in Strategies /\ day \in Days /\ phase \in Phases /\ after \in Resting
    /\ price \in [Codes -> Nat]
    /\ pending \in [selected : Seq(Codes), exposure : 0..100, slots : Nat, due : Nat]
    /\ Slotted(pending.selected, pending.slots)
    /\ applied \in 0..100 /\ lastSelected \in Seq(Codes) /\ lastSlots \in Nat
    /\ Slotted(lastSelected, lastSlots) /\ rebalanced \in Nat
    /\ recent \in Seq(Exposures)
    /\ strategy.regime # "off" /\ phase # "open" => recent # <<>>

\* One trade for a code, and no more of it to be sold than there is.
TradeInv ==
    /\ positions \in [Codes -> Nat]
    /\ plan \in SUBSET Trades /\ IsFiniteSet(plan)
    /\ fills \in SUBSET Trades /\ IsFiniteSet(fills)
    /\ phase # "trading" => plan = {} /\ fills = {}
    /\ \A t \in plan \cup fills : t.qty # 0 /\ price[t.code] # 0
    /\ \A t, u \in plan \cup fills : t.code = u.code => t = u
    /\ plan \cap fills = {}
    /\ \A t \in plan : t.side = "SELL" => t.qty <= positions[t.code]
    /\ \A t \in fills : t.side = "BUY" => t.qty <= positions[t.code]

\* Entry prices are those of the positions before the trades under way.
EntryInv ==
    /\ entry \in [Codes -> Nat \X Nat] /\ paid \in [Codes -> SUBSET Nat]
    /\ \A c \in Codes : (\A t \in fills : t.code # c) => EntryFits(c, positions[c])
    /\ \A t \in fills : IF t.side = "BUY" THEN EntryFits(t.code, positions[t.code] - t.qty)
                        ELSE EntryFits(t.code, positions[t.code] + t.qty)

\* What the trades of the plan bring in and cost.
FlowOf(t) == IF t.side = "SELL" THEN Proceeds(t) ELSE -Cost(t)
FlowIn(trades) == [c \in Codes |-> IF \E t \in trades : t.code = c
                                   THEN FlowOf(CHOOSE t \in trades : t.code = c) ELSE 0]

\* Without taxes there is always cash, and enough for what is planned.
Lean == strategy.tax = "none" /\ strategy.buyCost + strategy.sellCost <= 50
CashInv ==
    /\ cash \in Int /\ tax \in [year : Nat, net : Int, charged : Int]
    /\ strategy.tax = "none" => cash >= 0
    /\ Lean /\ phase = "trading" => cash + SumOf(FlowIn(plan), Codes) >= 0

EngineInv == SignalInv /\ TradeInv /\ EntryInv /\ CashInv

LEMMA FewCodes == IsFiniteSet(Codes) /\ Codes \subseteq Nat
  BY EngineAssumption

LEMMA StrategyFields ==
    ASSUME NEW s \in Strategy
    PROVE  /\ s.buyCost \in Nat /\ s.sellCost \in Nat /\ s.ramp \in Nat
           /\ s.topN \in Nat /\ s.lag \in Nat /\ s.rate \in Nat /\ s.exemption \in Nat
           /\ s.taxed \subseteq Codes /\ s.bandTrim \in Nat /\ s.replaceBelow \in Nat
           /\ s.freq \in {1, 3, 12} /\ s.tax \in {"none", "etf", "annual", "isa"}
  BY DEF Strategy

LEMMA StrategyIs ==
    ASSUME NEW s \in Strategies
    PROVE  /\ s.buyCost \in Nat /\ s.sellCost \in 0..Unit /\ s.ramp \in Nat
           /\ s.topN \in Nat /\ s.lag \in Nat /\ s.rate \in Nat /\ s.exemption \in Nat
           /\ s.taxed \subseteq Codes /\ s.bandTrim \in Nat /\ s.replaceBelow \in Nat
           /\ s.freq \in {1, 3, 12} /\ s.tax \in {"none", "etf", "annual", "isa"}
<1>1. s \in Strategy /\ s.sellCost <= Unit
  BY EngineAssumption
<1>2. s.sellCost \in Nat
  BY ONLY <1>1, StrategyFields
<1>3. s.sellCost \in 0..Unit
  <2>1. Unit \in Nat /\ s.sellCost <= Unit
    BY ONLY <1>1 DEF Unit
  <2>2. \A m, n \in Nat : n <= m => n \in 0..m
    OBVIOUS
  <2> QED
    BY ONLY <1>2, <2>1, <2>2
<1> QED
  BY ONLY <1>1, <1>3, StrategyFields

LEMMA ValueIsSum ==
    ASSUME NEW S, IsFiniteSet(S), NEW n \in [S -> Nat], NEW w
    PROVE  ValueOf(n, w) = SumOf([c \in S |-> n[c] * w[c]], S)
<1> DEFINE g == [c \in S |-> n[c] * w[c]]
           Body(t) == t = [s \in SUBSET S |-> IF s = {} THEN 0
                             ELSE n[CHOOSE x \in s : TRUE] * w[CHOOSE x \in s : TRUE]
                                    + t[s \ {CHOOSE x \in s : TRUE}]]
<1>1. \A t : IsTable(t, g, S) <=> Body(t)
  <2> TAKE t
  <2>1. \A s \in SUBSET S : s # {} => Some(s) \in S
    BY SomeIsIn
  <2>2. \A s \in SUBSET S : s # {} => g[Some(s)] = n[Some(s)] * w[Some(s)]
    BY <2>1
  <2>3. [s \in SUBSET S |-> IF s = {} THEN 0 ELSE g[Some(s)] + t[s \ {Some(s)}]]
      = [s \in SUBSET S |-> IF s = {} THEN 0 ELSE n[Some(s)] * w[Some(s)] + t[s \ {Some(s)}]]
    <3> HIDE DEF g
    <3> QED
      BY <2>2
  <2> QED
    BY <2>3, Zenon DEF IsTable, Some
<1>2. IsTable(CHOOSE t : Body(t), g, S)
  <2> HIDE DEF Body, g
  <2> QED
    BY <1>1, TableExists
<1>3. ValueOf(n, w) = (CHOOSE t : Body(t))[S]
  BY DEF ValueOf, MapThenSumSet, MapThenFoldSet
<1>4. SumOf(g, S) = (CHOOSE t : Body(t))[S]
  <2> HIDE DEF Body, g
  <2> QED
    BY <1>2, SumIsTables
<1> QED
  BY <1>3, <1>4

\* Values in the units of prices.
UnitsOf(n) == SumOf([c \in Codes |-> n[c] * price[c]], Codes)

LEMMA UnitsAre ==
    ASSUME price \in [Codes -> Nat], NEW n \in [Codes -> Nat]
    PROVE  /\ UnitsOf(n) \in Nat /\ ValueOf(n, Worth) = Unit * UnitsOf(n)
           /\ \A c \in Codes : Worth[c] = Unit * price[c] /\ Worth[c] \in Nat
<1> DEFINE g == [c \in Codes |-> n[c] * price[c]]
           h == [c \in Codes |-> n[c] * Worth[c]]
<1>0. IsFiniteSet(Codes) /\ Unit = 10000
  BY FewCodes DEF Unit
<1>1. \A c \in Codes : Worth[c] = Unit * price[c] /\ Worth[c] \in Nat
  BY DEF Worth, Unit
<1>2. \A c \in Codes : g[c] \in Nat /\ h[c] = Unit * g[c] /\ h[c] \in Nat
  <2> TAKE c \in Codes
  <2>1. n[c] \in Nat /\ price[c] \in Nat /\ Worth[c] = price[c] * 10000
    BY DEF Worth, Unit
  <2>2. \A a, b \in Nat : a * b \in Nat /\ a * (b * 10000) = 10000 * (a * b)
    OBVIOUS
  <2> QED
    BY <1>0, <2>1, <2>2
<1>3. SumOf(g, Codes) \in Nat
  <2> HIDE DEF g
  <2> QED
    BY <1>0, <1>2, SumIsNat
<1>4. SumOf(h, Codes) = Unit * SumOf(g, Codes)
  <2> HIDE DEF g, h
  <2> QED
    BY <1>0, <1>2, SumScales DEF Unit
<1> QED
  BY <1>0, <1>1, <1>3, <1>4, ValueIsSum DEF UnitsOf

\* What the trades to a target bring in and cost.
FlowTo(target) == [c \in Codes |->
    IF price[c] = NoPrice \/ target[c] = positions[c] THEN 0
    ELSE IF target[c] > positions[c]
         THEN -((target[c] - positions[c]) * price[c] * (Unit + strategy.buyCost))
         ELSE (positions[c] - target[c]) * price[c] * (Unit - strategy.sellCost)]

Priced == /\ strategy \in Strategies /\ price \in [Codes -> Nat] /\ positions \in [Codes -> Nat]
         /\ cash \in Int

LEMMA FlowArithmetic ==
    ASSUME NEW n \in Nat, NEW m \in Nat, NEW p \in Nat, NEW U \in Nat, NEW b \in Nat, NEW s \in 0..U
    PROVE  /\ m > n => /\ -((m - n) * p * (U + b)) \in Int
                       /\ -((m - n) * p * (U + b))
                            >= U * (n * p) - U * (m * p) - s * (n * p) - b * (m * p)
           /\ m <= n => /\ (n - m) * p * (U - s) \in Nat
                        /\ (n - m) * p * (U - s)
                             >= U * (n * p) - U * (m * p) - s * (n * p) - b * (m * p)
<1>1. n * p \in Nat /\ m * p \in Nat /\ b * (n * p) \in Nat /\ s * (m * p) \in Nat
      /\ b * (m * p) \in Nat /\ s * (n * p) \in Nat /\ U * (n * p) \in Nat /\ U * (m * p) \in Nat
  OBVIOUS
<1>2. (m - n) * p = m * p - n * p /\ (n - m) * p = n * p - m * p
  OBVIOUS
<1>3. \A x, y \in Int : x * (U + y) = U * x + y * x /\ x * (U - y) = U * x - y * x
  OBVIOUS
<1>4. \A x, y \in Int, k \in Nat : k * (x - y) = k * x - k * y
  OBVIOUS
<1>5. ASSUME m > n PROVE /\ -((m - n) * p * (U + b)) \in Int
                         /\ -((m - n) * p * (U + b))
                              >= U * (n * p) - U * (m * p) - s * (n * p) - b * (m * p)
  <2> DEFINE np == n * p
             mp == m * p
  <2>1. np \in Nat /\ mp \in Nat /\ (m - n) * p = mp - np
    BY <1>1, <1>2
  <2> HIDE DEF np, mp
  <2>2. (mp - np) * (U + b) = U * (mp - np) + b * (mp - np)
    BY <2>1, <1>3
  <2>3. U * (mp - np) = U * mp - U * np /\ b * (mp - np) = b * mp - b * np
    BY <2>1, <1>4
  <2>4. U * mp \in Nat /\ U * np \in Nat /\ b * mp \in Nat /\ b * np \in Nat /\ s * np \in Nat
    BY <1>1 DEF np, mp
  <2>5. (m - n) * p * (U + b) = U * mp - U * np + (b * mp - b * np)
    BY <2>1, <2>2, <2>3
  <2>6. -(U * mp - U * np + (b * mp - b * np)) >= U * np - U * mp - s * np - b * mp
        /\ -(U * mp - U * np + (b * mp - b * np)) \in Int
    BY ONLY <2>4
  <2> QED
    BY ONLY <2>5, <2>6 DEF np, mp
<1>6. ASSUME m <= n PROVE /\ (n - m) * p * (U - s) \in Nat
                          /\ (n - m) * p * (U - s)
                               >= U * (n * p) - U * (m * p) - s * (n * p) - b * (m * p)
  <2> DEFINE np == n * p
             mp == m * p
  <2>1. np \in Nat /\ mp \in Nat /\ (n - m) * p = np - mp
    BY <1>1, <1>2
  <2>0. (n - m) * p * (U - s) \in Nat
    <3>1. n - m \in Nat /\ U - s \in Nat
      BY <1>6
    <3>2. (n - m) * p \in Nat
      BY <3>1
    <3> QED
      BY <3>1, <3>2
  <2> HIDE DEF np, mp
  <2>2. (np - mp) * (U - s) = U * (np - mp) - s * (np - mp)
    BY <2>1, <1>3
  <2>3. U * (np - mp) = U * np - U * mp /\ s * (np - mp) = s * np - s * mp
    BY <2>1, <1>4
  <2>4. U * mp \in Nat /\ U * np \in Nat /\ s * mp \in Nat /\ b * mp \in Nat /\ s * np \in Nat
    BY <1>1 DEF np, mp
  <2>5. (n - m) * p * (U - s) = U * np - U * mp - (s * np - s * mp)
    BY <2>1, <2>2, <2>3
  <2>6. U * np - U * mp - (s * np - s * mp) >= U * np - U * mp - s * np - b * mp
    BY ONLY <2>4
  <2> QED
    BY ONLY <2>0, <2>5, <2>6 DEF np, mp
<1> QED
  BY <1>5, <1>6

LEMMA FlowsAre ==
    ASSUME Priced, NEW target \in [Codes -> Nat], NEW c \in Codes
    PROVE  /\ FlowTo(target)[c] \in Int
           /\ target[c] <= positions[c] => FlowTo(target)[c] \in Nat
           /\ FlowTo(target)[c] >= Unit * (positions[c] * price[c]) - Unit * (target[c] * price[c])
                 - strategy.sellCost * (positions[c] * price[c])
                 - strategy.buyCost * (target[c] * price[c])
<1> DEFINE n == positions[c]
           m == target[c]
           p == price[c]
           U == Unit
           b == strategy.buyCost
           s == strategy.sellCost
           f == FlowTo(target)[c]
<1>1. n \in Nat /\ m \in Nat /\ p \in Nat /\ U \in Nat /\ b \in Nat /\ s \in 0..U
  <2>0. strategy \in Strategies
    BY DEF Priced
  <2>1. b \in Nat /\ s \in 0..U
    BY ONLY <2>0, StrategyIs
  <2>2. n \in Nat /\ m \in Nat /\ p \in Nat
    BY DEF Priced
  <2>3. U \in Nat
    BY DEF Unit
  <2> HIDE DEF n, m, p, U, b, s
  <2> QED
    BY <2>1, <2>2, <2>3
<1>2. f = IF p = 0 \/ m = n THEN 0
          ELSE IF m > n THEN -((m - n) * p * (U + b)) ELSE (n - m) * p * (U - s)
  BY DEF FlowTo, NoPrice
<1> HIDE DEF n, m, p, U, b, s, f
<1>3. /\ m > n => /\ -((m - n) * p * (U + b)) \in Int
                  /\ -((m - n) * p * (U + b)) >= U * (n * p) - U * (m * p) - s * (n * p) - b * (m * p)
      /\ m <= n => /\ (n - m) * p * (U - s) \in Nat
                   /\ (n - m) * p * (U - s) >= U * (n * p) - U * (m * p) - s * (n * p) - b * (m * p)
  BY <1>1, FlowArithmetic
<1>4. p = 0 => n * p = 0 /\ m * p = 0 /\ U * 0 = 0 /\ s * 0 = 0 /\ b * 0 = 0
  BY <1>1
<1>5. m = n => (n - m) * p * (U - s) = 0
  <2>1. 0 * p = 0 /\ U - s \in Int
    BY <1>1
  <2>2. 0 * (U - s) = 0
    BY <2>1
  <2> QED
    BY <1>1, <2>1, <2>2
<1>6. CASE p = 0
  <2>1. f = 0 /\ U * (n * p) - U * (m * p) - s * (n * p) - b * (m * p) = 0
    BY <1>1, <1>2, <1>4, <1>6
  <2> QED
    BY <2>1 DEF f, n, m, p, U, s, b
<1>7. CASE p # 0 /\ m = n
  <2>1. f = 0 /\ 0 >= U * (n * p) - U * (m * p) - s * (n * p) - b * (m * p)
    BY <1>1, <1>2, <1>3, <1>5, <1>7
  <2> QED
    BY <2>1 DEF f, n, m, p, U, s, b
<1>8. CASE p # 0 /\ m # n
  <2>1. /\ m > n => f = -((m - n) * p * (U + b))
        /\ ~(m > n) => f = (n - m) * p * (U - s) /\ m <= n
    BY <1>1, <1>2, <1>8
  <2>2. f \in Int /\ f >= U * (n * p) - U * (m * p) - s * (n * p) - b * (m * p)
        /\ (m <= n => f \in Nat)
    BY <1>1, <1>3, <2>1
  <2> QED
    BY <2>2 DEF f, n, m, p, U, s, b
<1> QED
  BY <1>1, <1>6, <1>7, <1>8

\* All trades to a target, by the value of what is held and of what is wanted.
LEMMA FlowsSum ==
    ASSUME Priced, NEW target \in [Codes -> Nat]
    PROVE  /\ SumOf(FlowTo(target), Codes) \in Int
           /\ SumOf(FlowTo(target), Codes) >=
                (Unit - strategy.sellCost) * UnitsOf(positions)
                   + (-(Unit + strategy.buyCost)) * UnitsOf(target)
<1> DEFINE f == FlowTo(target)
           v == [c \in Codes |-> positions[c] * price[c]]
           w == [c \in Codes |-> target[c] * price[c]]
           k == Unit - strategy.sellCost
           l == -(Unit + strategy.buyCost)
           kv == [c \in Codes |-> k * v[c]]
           lw == [c \in Codes |-> l * w[c]]
           h == [c \in Codes |-> kv[c] + lw[c]]
<1>1. Unit \in Nat /\ strategy.sellCost \in Nat /\ strategy.buyCost \in Nat
  <2>1. strategy.sellCost \in 0..Unit /\ strategy.buyCost \in Nat
    BY StrategyIs DEF Priced
  <2>2. Unit \in Nat
    BY DEF Unit
  <2>3. \A m \in Nat : \A n \in 0..m : n \in Nat
    OBVIOUS
  <2> QED
    BY ONLY <2>1, <2>2, <2>3
<1>2. k \in Int /\ l \in Int
  BY ONLY <1>1
<1>3. \A c \in Codes : positions[c] \in Nat /\ target[c] \in Nat /\ price[c] \in Nat
  BY DEF Priced
<1>4. \A c \in Codes : v[c] \in Nat /\ w[c] \in Nat
  BY <1>3
<1>5. \A c \in Codes : f[c] \in Int /\ f[c] >= Unit * v[c] - Unit * w[c] - strategy.sellCost * v[c]
                                                 - strategy.buyCost * w[c]
  BY FlowsAre
<1>6. \A x, y, a, b, U \in Nat : U * x - U * y - a * x - b * y = (U - a) * x + (-(U + b)) * y
  OBVIOUS
<1>7. IsFiniteSet(Codes)
  BY FewCodes
<1>8. UnitsOf(positions) = SumOf(v, Codes) /\ UnitsOf(target) = SumOf(w, Codes)
  BY DEF UnitsOf
<1>9. \A c \in Codes : kv[c] = k * v[c] /\ lw[c] = l * w[c] /\ h[c] = kv[c] + lw[c]
  OBVIOUS
<1> HIDE DEF v, w
<1>10. \A c \in Codes : f[c] >= k * v[c] + l * w[c]
  <2> TAKE c \in Codes
  <2>1. Unit * v[c] - Unit * w[c] - strategy.sellCost * v[c] - strategy.buyCost * w[c]
        = k * v[c] + l * w[c]
    BY <1>1, <1>4, <1>6
  <2> QED
    BY <1>5, <2>1
<1> HIDE DEF f, k, l, kv, lw, h
<1>11. \A c \in Codes : kv[c] \in Int /\ lw[c] \in Int /\ h[c] \in Int /\ f[c] >= h[c]
  BY <1>2, <1>4, <1>9, <1>10
<1>12. SumOf(kv, Codes) = k * SumOf(v, Codes) /\ SumOf(lw, Codes) = l * SumOf(w, Codes)
  BY <1>2, <1>4, <1>7, <1>9, SumScales
<1>13. SumOf(h, Codes) = SumOf(kv, Codes) + SumOf(lw, Codes)
  BY <1>7, <1>9, <1>11, SumPlus
<1>14. SumOf(h, Codes) <= SumOf(f, Codes)
  BY <1>5, <1>7, <1>11, SumLeq
<1>15. SumOf(f, Codes) \in Int /\ SumOf(h, Codes) \in Int
  BY <1>5, <1>7, <1>11, SumIsInt
<1> QED
  BY <1>8, <1>12, <1>13, <1>14, <1>15 DEF f, k, l

LEMMA MarkIs ==
    ASSUME Priced
    PROVE  /\ UnitsOf(positions) \in Nat /\ MarkToMarket \in Int
           /\ MarkToMarket = cash + Unit * UnitsOf(positions)
  BY UnitsAre DEF Priced, MarkToMarket, Unit

\* What is kept back pays for the costs of both sides.
LEMMA KeptBackPays ==
    ASSUME NEW V \in Nat, NEW T \in Nat, NEW b \in Nat, NEW s \in Nat, NEW m \in Nat,
           b + s <= 50, 10000 * V <= m, 200 * (10000 * T) <= 199 * m
    PROVE  (m - 10000 * V) + ((10000 - s) * V + (-(10000 + b)) * T) >= 0
<1>1. s * V \in Nat /\ b * T \in Nat /\ s * m \in Nat /\ b * m \in Nat
  OBVIOUS
<1>2. (10000 - s) * V = 10000 * V - s * V /\ (-(10000 + b)) * T = -(10000 * T) - b * T
  OBVIOUS
<1>3. 10000 * (s * V) <= s * m
  <2>1. \A x, y \in Nat : x <= y => s * x <= s * y
    OBVIOUS
  <2>2. s * (10000 * V) <= s * m
    BY <2>1
  <2>3. s * (10000 * V) = 10000 * (s * V)
    OBVIOUS
  <2> QED
    BY <2>2, <2>3
<1>4. 10000 * (b * T) <= b * m
  <2>1. \A x, y \in Nat : x <= y => b * x <= b * y
    OBVIOUS
  <2>2. 10000 * T <= m
    OBVIOUS
  <2>3. b * (10000 * T) <= b * m
    BY <2>1, <2>2
  <2>4. b * (10000 * T) = 10000 * (b * T)
    OBVIOUS
  <2> QED
    BY <2>3, <2>4
<1>5. s * m + b * m <= 50 * m
  <2>1. (s + b) * m = s * m + b * m
    OBVIOUS
  <2>2. \A x \in Nat : x <= 50 => x * m <= 50 * m
    OBVIOUS
  <2>3. (s + b) * m <= 50 * m
    BY <2>2
  <2> QED
    BY <2>1, <2>3
<1>6. \A x, y, z, a \in Nat :
        10000 * x <= y /\ 10000 * z <= a /\ y + a <= 50 * m =>
           (m - 10000 * V) + ((10000 * V - x) + (-(10000 * T) - z)) >= 0
  OBVIOUS
<1>7. (m - 10000 * V) + ((10000 * V - s * V) + (-(10000 * T) - b * T)) >= 0
  BY <1>1, <1>3, <1>4, <1>5, <1>6
<1> QED
  BY <1>2, <1>7

\* What a target costs leaves half a percent of the value.
KeepsBack(target) == 200 * (10000 * UnitsOf(target)) <= 199 * MarkToMarket

LEMMA EqualWeightFits ==
    ASSUME NEW selected \in Seq(Codes), NEW exposure \in 0..100, NEW slots \in Nat,
           Slotted(selected, slots), Priced
    PROVE  /\ EqualWeight(selected, exposure, slots) \in [Codes -> Nat]
           /\ MarkToMarket >= 0 => KeepsBack(EqualWeight(selected, exposure, slots))
<1> DEFINE m == MarkToMarket
           R == ToSet(selected)
           I == (m * 199) \div 200
           E == (I * exposure) \div 100
           share == E \div slots
           Gets(c) == c \in R /\ Worth[c] > 0 /\ m > 0 /\ exposure > 0 /\ slots > 0
           t == EqualWeight(selected, exposure, slots)
           g == [c \in Codes |-> t[c] * Worth[c]]
<1>1. m \in Int /\ IsFiniteSet(Codes) /\ \A c \in Codes : Worth[c] \in Nat
  BY MarkIs, UnitsAre, FewCodes DEF Priced
<1>2. R \in SUBSET Codes /\ IsFiniteSet(R) /\ Cardinality(R) \in Nat /\ Cardinality(R) <= slots
  <2>1. R \in SUBSET Codes
    BY DEF ToSet
  <2> QED
    BY <1>1, <2>1, FS_Subset, FS_CardinalityType DEF Slotted
<1>3. t = [c \in Codes |-> IF Gets(c) THEN share \div Worth[c] ELSE 0]
  BY DEF EqualWeight, AllocateEqualWeight, Investable, Worth
<1>4. ASSUME m > 0, slots > 0
      PROVE  share \in Nat /\ share * slots <= I /\ 200 * I <= 199 * m /\ I \in Nat
  <2>1. I \in Nat /\ 200 * I <= 199 * m
    BY <1>1, <1>4
  <2> HIDE DEF I
  <2>2. E \in Nat /\ E <= I
    <3>1. I * exposure \in Nat /\ I * exposure <= 100 * I
      BY <2>1
    <3> DEFINE x == I * exposure
    <3> HIDE DEF x
    <3>2. \A y \in Nat : y <= 100 * I => y \div 100 \in Nat /\ y \div 100 <= I
      BY <2>1
    <3> QED
      BY <3>1, <3>2
  <2> HIDE DEF E
  <2>3. share \in Nat /\ share * slots <= E
    BY <1>4, <2>2
  <2> HIDE DEF share
  <2> QED
    BY <2>1, <2>2, <2>3
<1>5. \A c \in Codes : t[c] \in Nat
  <2> TAKE c \in Codes
  <2>1. t[c] = IF Gets(c) THEN share \div Worth[c] ELSE 0
    BY <1>3
  <2>2. ASSUME Gets(c) PROVE share \div Worth[c] \in Nat
    <3>1. share \in Nat /\ Worth[c] \in Nat /\ Worth[c] > 0
      BY <1>1, <1>4, <2>2
    <3> HIDE DEF share
    <3> QED
      BY <3>1
  <2> HIDE DEF t, Gets, share
  <2> QED
    BY <2>1, <2>2
<1>6. t \in [Codes -> Nat]
  <2>1. t = [c \in Codes |-> t[c]]
    BY <1>3
  <2> HIDE DEF t
  <2> QED
    BY <1>5, <2>1
<1>7. 10000 * UnitsOf(t) = SumOf(g, Codes)
  <2> HIDE DEF t
  <2>1. ValueOf(t, Worth) = Unit * UnitsOf(t)
    BY <1>6, UnitsAre DEF Priced
  <2>2. ValueOf(t, Worth) = SumOf(g, Codes)
    BY <1>1, <1>6, ValueIsSum
  <2> QED
    BY <2>1, <2>2 DEF Unit
<1>8. ASSUME m >= 0 PROVE 200 * SumOf(g, Codes) <= 199 * m
  <2>1. CASE m > 0 /\ slots > 0
    <3>1. \A c \in Codes : g[c] \in Int /\ (c \notin R => g[c] = 0) /\ (c \in R => g[c] <= share)
      <4> TAKE c \in Codes
      <4>1. g[c] = t[c] * Worth[c] /\ t[c] = IF Gets(c) THEN share \div Worth[c] ELSE 0
        BY <1>3
      <4>2. t[c] \in Nat /\ Worth[c] \in Nat /\ share \in Nat
        BY <1>1, <1>4, <1>5, <2>1
      <4>3. Gets(c) => c \in R /\ Worth[c] > 0
        OBVIOUS
      <4> HIDE DEF t, g, Gets, share
      <4>4. \A a, b \in Nat : a > 0 => (b \div a) * a <= b
        OBVIOUS
      <4>5. CASE Gets(c)
        <5>1. (share \div Worth[c]) * Worth[c] <= share
          BY <4>2, <4>3, <4>4, <4>5
        <5> QED
          BY <4>1, <4>2, <4>3, <4>5, <5>1
      <4>6. CASE ~Gets(c)
        <5>1. t[c] = 0
          BY <4>1, <4>6
        <5> QED
          BY <4>1, <4>2, <5>1
      <4> QED
        BY <4>5, <4>6
    <3>2. share \in Nat /\ share * slots <= I /\ 200 * I <= 199 * m /\ I \in Nat
      BY <1>4, <2>1
    <3> HIDE DEF g, share, R, I
    <3>3. SumOf(g, Codes) = SumOf(g, R)
      <4>1. R \subseteq Codes /\ \A c \in Codes \ R : g[c] = 0
        BY <1>2, <3>1
      <4> QED
        BY <1>1, <3>1, <4>1, SumSkips
    <3>4. SumOf(g, R) <= share * Cardinality(R) /\ SumOf(g, R) \in Int
      <4>1. \A c \in R : g[c] \in Int /\ g[c] <= share
        BY <1>2, <3>1
      <4> QED
        BY <1>2, <3>2, <4>1, SumBounded, SumIsInt
    <3>5. share * Cardinality(R) <= share * slots
      <4>1. \A x, y \in Nat : x <= y => share * x <= share * y
        BY <3>2
      <4> QED
        BY <1>2, <4>1
    <3>6. share * Cardinality(R) \in Nat /\ share * slots \in Nat
      BY <1>2, <3>2
    <3> HIDE DEF m
    <3> QED
      BY <1>1, <3>2, <3>3, <3>4, <3>5, <3>6
  <2>2. CASE ~(m > 0 /\ slots > 0)
    <3>1. \A c \in Codes : ~Gets(c)
      BY <2>2
    <3>2. \A c \in Codes : t[c] = 0 /\ g[c] = t[c] * Worth[c] /\ Worth[c] \in Nat
      BY <1>1, <1>3, <3>1
    <3> HIDE DEF t, g
    <3>3. \A c \in Codes : g[c] \in Int /\ g[c] <= 0
      BY <3>2
    <3>4. SumOf(g, Codes) <= 0 * Cardinality(Codes) /\ Cardinality(Codes) \in Nat /\ SumOf(g, Codes) \in Int
      BY <1>1, <3>3, SumBounded, SumIsInt, FS_CardinalityType
    <3> HIDE DEF m
    <3> QED
      BY <1>1, <1>8, <3>4
  <2> QED
    BY <2>1, <2>2
<1>9. MarkToMarket >= 0 => KeepsBack(t)
  <2> HIDE DEF t, g
  <2> QED
    BY <1>7, <1>8 DEF KeepsBack
<1> QED
  BY <1>6, <1>9

LEMMA EqualWeightIsPaid ==
    ASSUME Priced, Lean, cash >= 0,
           NEW selected \in Seq(Codes), NEW exposure \in 0..100, NEW slots \in Nat,
           Slotted(selected, slots)
    PROVE  cash + SumOf(FlowTo(EqualWeight(selected, exposure, slots)), Codes) >= 0
<1> DEFINE t == EqualWeight(selected, exposure, slots)
           V == UnitsOf(positions)
           T == UnitsOf(t)
           b == strategy.buyCost
           s == strategy.sellCost
           f == SumOf(FlowTo(t), Codes)
<1>1. MarkToMarket = cash + 10000 * V /\ V \in Nat /\ MarkToMarket \in Int /\ cash \in Int
  BY MarkIs DEF Unit, Priced
<1>2. t \in [Codes -> Nat] /\ (MarkToMarket >= 0 => 200 * (10000 * T) <= 199 * MarkToMarket)
  <2>1. t \in [Codes -> Nat] /\ (MarkToMarket >= 0 => KeepsBack(t))
    BY EqualWeightFits
  <2> HIDE DEF t
  <2> QED
    BY <2>1 DEF KeepsBack
<1>3. T \in Nat /\ f \in Int /\ f >= (10000 - s) * V + (-(10000 + b)) * T
  <2> HIDE DEF t
  <2> QED
    BY <1>2, UnitsAre, FlowsSum DEF Priced, Unit
<1>4. b \in Nat /\ s \in Nat /\ b + s <= 50
  <2>1. strategy \in Strategies /\ strategy.buyCost + strategy.sellCost <= 50
    BY DEF Lean, Priced
  <2>2. s \in 0..Unit /\ b \in Nat
    BY <2>1, StrategyIs
  <2>3. Unit \in Nat /\ \A m \in Nat : \A n \in 0..m : n \in Nat
    BY DEF Unit
  <2> QED
    BY ONLY <2>1, <2>2, <2>3
<1> DEFINE m == MarkToMarket
<1> HIDE DEF t, V, T, b, s, f, m
<1>5. m \in Nat /\ 10000 * V <= m /\ 200 * (10000 * T) <= 199 * m /\ cash = m - 10000 * V
  <2>1. m = cash + 10000 * V /\ (m >= 0 => 200 * (10000 * T) <= 199 * m)
    BY <1>1, <1>2 DEF m
  <2> QED
    BY <1>1, <2>1
<1>6. (m - 10000 * V) + ((10000 - s) * V + (-(10000 + b)) * T) >= 0
  BY <1>1, <1>3, <1>4, <1>5, KeptBackPays
<1>7. (10000 - s) * V + (-(10000 + b)) * T \in Int
  BY <1>1, <1>3, <1>4
<1>8. \A x, y, z \in Int : x + y >= 0 /\ z >= y => x + z >= 0
  OBVIOUS
<1>9. cash + f >= 0
  BY <1>1, <1>3, <1>5, <1>6, <1>7, <1>8
<1> QED
  BY <1>9 DEF f, t

LEMMA SalesArePaid ==
    ASSUME Priced, NEW target \in [Codes -> Nat], \A c \in Codes : target[c] <= positions[c]
    PROVE  SumOf(FlowTo(target), Codes) \in Nat
<1> DEFINE f == FlowTo(target)
<1>1. \A c \in Codes : f[c] \in Nat
  BY FlowsAre
<1> HIDE DEF f
<1>2. SumOf(f, Codes) \in Nat
  BY <1>1, FewCodes, SumIsNat
<1> QED
  BY <1>2 DEF f

TradeFor(target, c) ==
    [code |-> c, side |-> IF target[c] > positions[c] THEN "BUY" ELSE "SELL",
     qty |-> IF target[c] > positions[c] THEN target[c] - positions[c] ELSE positions[c] - target[c]]

LEMMA TradesAre ==
    ASSUME Priced, NEW target \in [Codes -> Nat]
    PROVE  /\ TradesTo(target) \in SUBSET Trades /\ IsFiniteSet(TradesTo(target))
           /\ \A t \in TradesTo(target) : /\ t.qty # 0 /\ price[t.code] # 0
                                          /\ t.side = "SELL" => t.qty <= positions[t.code]
           /\ \A t, u \in TradesTo(target) : t.code = u.code => t = u
           /\ FlowIn(TradesTo(target)) = FlowTo(target)
<1> DEFINE D == {d \in Codes : price[d] # NoPrice /\ target[d] # positions[d]}
           P == TradesTo(target)
           f == [c \in D |-> TradeFor(target, c)]
<1>1. P = {TradeFor(target, c) : c \in D}
  BY DEF TradesTo, TradeFor
<1>2. \A c \in Codes : target[c] \in Nat /\ positions[c] \in Nat /\ price[c] \in Nat
  BY DEF Priced
<1>3. ASSUME NEW c \in D
      PROVE  LET t == TradeFor(target, c) IN
             /\ t \in Trades /\ t.code = c /\ t.qty # 0 /\ price[c] # 0
             /\ t.side = (IF target[c] > positions[c] THEN "BUY" ELSE "SELL")
             /\ t.qty = (IF target[c] > positions[c] THEN target[c] - positions[c] ELSE positions[c] - target[c])
             /\ t.side = "SELL" => t.qty <= positions[c]
  <2>1. /\ c \in Codes /\ target[c] \in Nat /\ positions[c] \in Nat /\ target[c] # positions[c]
        /\ price[c] # 0
    BY <1>2 DEF NoPrice
  <2> DEFINE q == IF target[c] > positions[c] THEN target[c] - positions[c] ELSE positions[c] - target[c]
             e == IF target[c] > positions[c] THEN "BUY" ELSE "SELL"
  <2>2. q \in Nat /\ q # 0 /\ e \in {"SELL", "BUY"} /\ (e = "SELL" => q <= positions[c])
    BY <2>1
  <2> QED
    <3>1. TradeFor(target, c) = [code |-> c, side |-> e, qty |-> q]
      BY DEF TradeFor
    <3> HIDE DEF e, q
    <3>2. TradeFor(target, c) \in Trades
      BY <2>1, <2>2, <3>1 DEF Trades
    <3> QED
      BY <2>1, <2>2, <3>1, <3>2 DEF e, q
<1>4. \A c \in D : f[c] \in P /\ f[c] = TradeFor(target, c)
  BY <1>1
<1>5. \A t \in P : \E c \in D : f[c] = t
  BY <1>1
<1>6. IsFiniteSet(P)
  <2>1. IsFiniteSet(D)
    BY FewCodes, FS_Subset
  <2>2. f \in [D -> P]
    BY <1>4
  <2> HIDE DEF f, D, P
  <2>3. f \in Surjection(D, P)
    BY <1>5, <2>2 DEF Surjection
  <2> QED
    BY <2>1, <2>3, FS_Surjection
<1>7. \A t \in P : \E c \in D : t = TradeFor(target, c)
  BY <1>1
<1>8. ASSUME NEW t \in P
      PROVE  /\ t.code \in D /\ t = TradeFor(target, t.code) /\ t \in Trades /\ t.qty # 0
             /\ price[t.code] # 0 /\ (t.side = "SELL" => t.qty <= positions[t.code])
  <2>1. PICK c \in D : t = TradeFor(target, c)
    BY <1>7
  <2> HIDE DEF D, P
  <2> QED
    BY <1>3, <2>1
<1>9. FlowIn(P) = FlowTo(target)
  <2>1. ASSUME NEW c \in D
        PROVE  (\E t \in P : t.code = c) /\ FlowOf(CHOOSE t \in P : t.code = c) = FlowTo(target)[c]
    <3> DEFINE t == CHOOSE u \in P : u.code = c
    <3>1. TradeFor(target, c) \in P /\ TradeFor(target, c).code = c
      BY <1>1, <1>3
    <3>2. t \in P /\ t.code = c
      BY <3>1
    <3> HIDE DEF t, P
    <3>3. t = TradeFor(target, c)
      BY <1>8, <3>2
    <3>4. FlowOf(t) = FlowTo(target)[c]
      <4>1. c \in Codes /\ target[c] # positions[c] /\ price[c] # NoPrice
        OBVIOUS
      <4>2. t.code = c
            /\ t.side = (IF target[c] > positions[c] THEN "BUY" ELSE "SELL")
            /\ t.qty = (IF target[c] > positions[c] THEN target[c] - positions[c] ELSE positions[c] - target[c])
        BY <1>3, <3>3
      <4>3. FlowTo(target)[c] = IF target[c] > positions[c]
               THEN -((target[c] - positions[c]) * price[c] * (Unit + strategy.buyCost))
               ELSE (positions[c] - target[c]) * price[c] * (Unit - strategy.sellCost)
        BY <4>1 DEF FlowTo
      <4>4. CASE target[c] > positions[c]
        <5>1. t.side # "SELL" /\ t.qty = target[c] - positions[c]
          BY <4>2, <4>4
        <5> QED
          BY <4>2, <4>3, <4>4, <5>1 DEF FlowOf, Cost
      <4>5. CASE ~(target[c] > positions[c])
        <5>1. t.side = "SELL" /\ t.qty = positions[c] - target[c]
          BY <4>2, <4>5
        <5> QED
          BY <4>2, <4>3, <4>5, <5>1 DEF FlowOf, Proceeds
      <4> QED
        BY <4>4, <4>5
    <3> QED
      BY <3>1, <3>4 DEF t
  <2>2. ASSUME NEW c \in Codes \ D PROVE ~(\E t \in P : t.code = c) /\ FlowTo(target)[c] = 0
    <3>1. ~(\E t \in P : t.code = c)
      BY <1>8
    <3>2. price[c] = NoPrice \/ target[c] = positions[c]
      OBVIOUS
    <3> QED
      BY <3>1, <3>2 DEF FlowTo
  <2>3. \A c \in Codes : FlowTo(target)[c]
            = IF \E t \in P : t.code = c THEN FlowOf(CHOOSE t \in P : t.code = c) ELSE 0
    <3> HIDE DEF D, P
    <3> QED
      BY <2>1, <2>2
  <2>4. FlowTo(target) = [c \in Codes |-> FlowTo(target)[c]]
    BY DEF FlowTo
  <2> HIDE DEF P
  <2> QED
    BY <2>3, <2>4 DEF FlowIn
<1> HIDE DEF P, D, f
<1>10. P \in SUBSET Trades
  BY <1>8
<1>11. \A t, u \in P : t.code = u.code => t = u
  BY <1>8
<1>12. \A t \in P : /\ t.qty # 0 /\ price[t.code] # 0
                    /\ t.side = "SELL" => t.qty <= positions[t.code]
  BY <1>8
<1> QED
  BY <1>6, <1>9, <1>10, <1>11, <1>12 DEF P

LEMMA ChosenOnce ==
    ASSUME NEW T, NEW s \in Seq(T), NEW keep \in SUBSET (DOMAIN s),
           \A i, j \in DOMAIN s : s[i] = s[j] => i = j
    PROVE  \A k, l \in DOMAIN Chosen(s, keep) : Chosen(s, keep)[k] = Chosen(s, keep)[l] => k = l
<1> DEFINE z == Chosen(s, keep)
           ordered == InOrder(keep)
<1>1. /\ \A k \in DOMAIN z : ordered[k] \in keep /\ z[k] = s[ordered[k]]
      /\ \A k, l \in DOMAIN z : k < l => ordered[k] < ordered[l]
      /\ DOMAIN z = 1..Cardinality(keep) /\ Cardinality(keep) \in Nat
  BY ChosenIs
<1>2. DOMAIN s \subseteq Nat
  OBVIOUS
<1> HIDE DEF z, ordered
<1>3. ASSUME NEW k \in DOMAIN z, NEW l \in DOMAIN z, z[k] = z[l] PROVE k = l
  <2>1. ordered[k] \in DOMAIN s /\ ordered[l] \in DOMAIN s /\ s[ordered[k]] = s[ordered[l]]
    BY <1>1, <1>3
  <2>2. ordered[k] = ordered[l] /\ ordered[k] \in Nat
    BY <1>2, <2>1
  <2>3. ~(k < l) /\ ~(l < k) /\ k \in Nat /\ l \in Nat
    BY <1>1, <2>2
  <2> QED
    BY <2>3
<1> QED
  BY <1>3 DEF z

LEMMA RankedAre ==
    ASSUME NEW ranking \in Rankings
    PROVE  /\ Ranked(ranking) \in Seq(Codes)
           /\ \A i, j \in DOMAIN Ranked(ranking) : Ranked(ranking)[i] = Ranked(ranking)[j] => i = j
<1>1. ranking \in Seq(Codes) /\ \A i, j \in DOMAIN ranking : ranking[i] = ranking[j] => i = j
  BY EngineAssumption DEF IsInjective
<1> DEFINE keep == {i \in DOMAIN ranking : /\ Listed[ranking[i]][1] <= day
                                           /\ day <= Listed[ranking[i]][2]}
<1>2. keep \in SUBSET (DOMAIN ranking) /\ Ranked(ranking) = Chosen(ranking, keep)
  BY DEF Ranked
<1> HIDE DEF keep
<1> QED
  BY <1>1, <1>2, ChosenIs, ChosenOnce

\* Exits are held, replacements are not, and no code leaves twice.
LEMMA SwapsAre ==
    ASSUME NEW r \in Seq(Codes), \A i, j \in DOMAIN r : r[i] = r[j] => i = j,
           NEW held \in SUBSET Codes, NEW below
    PROVE  LET pairs == ToSet(ScoreExitSwaps(r, held, below)) IN
           /\ \A w \in pairs : w.out \in held /\ \A c : w.in = <<c>> => c \in Codes \ held
           /\ \A w, v \in pairs : w.out = v.out => w = v
<1> DEFINE A == {i \in DOMAIN r : /\ r[i] \in held
                                  /\ 100 * (Len(r) - i) < below * (Len(r) - 1)}
           B == {i \in DOMAIN r : r[i] \notin held}
           weak == Chosen(r, A)
           bench == Chosen(r, B)
           swaps == [i \in DOMAIN weak |->
                       [out |-> weak[i], in |-> IF i <= Len(bench) THEN <<bench[i]>> ELSE <<>>]]
           pairs == ToSet(ScoreExitSwaps(r, held, below))
<1>1. \A i \in DOMAIN weak : weak[i] \in held
  <2>1. A \in SUBSET (DOMAIN r) /\ \A i \in A : r[i] \in held
    OBVIOUS
  <2> HIDE DEF A
  <2> QED
    BY <2>1, ChosenIs
<1>2. \A i \in DOMAIN bench : bench[i] \in Codes \ held
  <2>1. B \in SUBSET (DOMAIN r) /\ \A i \in B : r[i] \notin held /\ r[i] \in Codes
    OBVIOUS
  <2> HIDE DEF B
  <2> QED
    BY <2>1, ChosenIs
<1>3. \A i, j \in DOMAIN weak : weak[i] = weak[j] => i = j
  <2>1. A \in SUBSET (DOMAIN r)
    OBVIOUS
  <2> HIDE DEF A
  <2> QED
    BY <2>1, ChosenOnce
<1>4. DOMAIN weak \subseteq Nat \ {0} /\ \A i \in Nat \ {0} : i <= Len(bench) => i \in DOMAIN bench
  <2>1. A \in SUBSET (DOMAIN r) /\ B \in SUBSET (DOMAIN r)
    OBVIOUS
  <2> HIDE DEF A, B
  <2>2. DOMAIN weak = 1..Cardinality(A) /\ Cardinality(A) \in Nat /\ bench \in Seq(Codes)
    BY <2>1, ChosenIs
  <2> HIDE DEF weak, bench
  <2> QED
    BY <2>2
<1>5. ScoreExitSwaps(r, held, below) = IF Len(r) < 2 THEN <<>> ELSE swaps
  BY DEF ScoreExitSwaps
<1> HIDE DEF weak, bench, A, B
<1>6. \A w \in pairs : \E i \in DOMAIN weak :
          w = [out |-> weak[i], in |-> IF i <= Len(bench) THEN <<bench[i]>> ELSE <<>>]
  <2>1. ToSet(swaps) = {[out |-> weak[i], in |-> IF i <= Len(bench) THEN <<bench[i]>> ELSE <<>>] :
                          i \in DOMAIN weak}
    BY DEF ToSet
  <2>2. ToSet(<<>>) = {}
    BY DEF ToSet
  <2> HIDE DEF swaps
  <2>3. pairs \subseteq ToSet(swaps)
    BY <1>5, <2>2
  <2> HIDE DEF pairs
  <2> QED
    BY <2>1, <2>3
<1>7. ASSUME NEW w \in pairs PROVE w.out \in held /\ \A c : w.in = <<c>> => c \in Codes \ held
  <2>1. PICK i \in DOMAIN weak :
          w = [out |-> weak[i], in |-> IF i <= Len(bench) THEN <<bench[i]>> ELSE <<>>]
    BY <1>6
  <2>2. w.out = weak[i] /\ w.in = (IF i <= Len(bench) THEN <<bench[i]>> ELSE <<>>)
    <3> DEFINE x == IF i <= Len(bench) THEN <<bench[i]>> ELSE <<>>
    <3>1. w = [out |-> weak[i], in |-> x]
      BY <2>1
    <3> HIDE DEF x
    <3>2. w.out = weak[i] /\ w.in = x
      BY <3>1
    <3> QED
      BY <3>2 DEF x
  <2>3. ASSUME NEW c, w.in = <<c>> PROVE c \in Codes \ held
    <3>0. <<c>> # <<>>
      OBVIOUS
    <3>1. i <= Len(bench)
      BY <2>2, <2>3, <3>0, Zenon
    <3>2. c = bench[i]
      BY <2>2, <2>3, <3>1
    <3> QED
      BY <1>2, <1>4, <3>1, <3>2
  <2> QED
    BY <1>1, <2>2, <2>3
<1>8. ASSUME NEW w \in pairs, NEW v \in pairs, w.out = v.out PROVE w = v
  <2>1. PICK i \in DOMAIN weak :
          w = [out |-> weak[i], in |-> IF i <= Len(bench) THEN <<bench[i]>> ELSE <<>>]
    BY <1>6
  <2>2. PICK j \in DOMAIN weak :
          v = [out |-> weak[j], in |-> IF j <= Len(bench) THEN <<bench[j]>> ELSE <<>>]
    BY <1>6
  <2>3. weak[i] = weak[j]
    BY <1>8, <2>1, <2>2
  <2>4. i = j
    BY <1>3, <2>3
  <2> QED
    BY <2>1, <2>2, <2>4
<1> QED
  BY <1>7, <1>8

LEMMA ExitPays ==
    ASSUME NEW y \in Nat, NEW z \in Nat, NEW b \in Nat, NEW s \in Nat,
           b + s <= 50, 100 * z <= 99 * y
    PROVE  (10000 * y - s * y) + (-(10000 * z) - b * z) >= 0
<1>1. b * z <= b * y
  <2>1. \A x, w \in Nat : x <= w => b * x <= b * w
    OBVIOUS
  <2>2. z <= y
    OBVIOUS
  <2> QED
    BY <2>1, <2>2
<1>2. b * y + s * y <= 50 * y
  <2>1. (b + s) * y = b * y + s * y
    OBVIOUS
  <2>2. \A x \in Nat : x <= 50 => x * y <= 50 * y
    OBVIOUS
  <2>3. (b + s) * y <= 50 * y
    BY <2>2
  <2> QED
    BY <2>1, <2>3
<1>3. b * y \in Nat /\ s * y \in Nat /\ b * z \in Nat
  OBVIOUS
<1>4. \A p, q, r \in Nat : r <= p /\ p + q <= 50 * y =>
          (10000 * y - q) + (-(10000 * z) - r) >= 0
  OBVIOUS
<1> QED
  BY <1>1, <1>2, <1>3, <1>4

LEMMA SwapIsPaid ==
    ASSUME NEW ranking \in Rankings, Priced
    PROVE  LET target == SwapTarget(ScoreExitSwaps(Ranked(ranking), Held, strategy.replaceBelow)) IN
           /\ target \in [Codes -> Nat]
           /\ Lean => SumOf(FlowTo(target), Codes) >= 0
<1> DEFINE swaps == ScoreExitSwaps(Ranked(ranking), Held, strategy.replaceBelow)
           pairs == ToSet(swaps)
           target == SwapTarget(swaps)
           In(c) == \E w \in pairs : w.in = <<c>>
           Out(c) == \E w \in pairs : w.out = c
           Exit(c) == (CHOOSE w \in pairs : w.in = <<c>>).out
           A == {c \in Codes : In(c) /\ price[c] # 0}
           g == FlowTo(target)
<1>1. /\ \A w \in pairs : w.out \in Held /\ \A c : w.in = <<c>> => c \in Codes \ Held
      /\ \A w, v \in pairs : w.out = v.out => w = v
  <2>1. Held \in SUBSET Codes
    BY DEF Held
  <2> QED
    BY <2>1, RankedAre, SwapsAre
<1>2. \A c \in Codes : positions[c] \in Nat /\ price[c] \in Nat /\ Worth[c] = Unit * price[c]
                       /\ Worth[c] \in Nat
  BY UnitsAre DEF Priced
<1>3. \A c \in Held : c \in Codes /\ positions[c] > 0
  BY DEF Held
<1>4. \A c \in Codes \ Held : positions[c] = 0
  BY <1>2 DEF Held
<1>5. \A c : In(c) => Exit(c) \in Held /\ Out(Exit(c))
  <2> TAKE c
  <2>1. HAVE In(c)
  <2> DEFINE w == CHOOSE v \in pairs : v.in = <<c>>
  <2>2. w \in pairs
    BY <2>1
  <2>3. Exit(c) = w.out
    OBVIOUS
  <2> HIDE DEF w, pairs
  <2> QED
    BY <1>1, <2>2, <2>3
<1>6. \A c \in Codes : target[c] = IF Out(c) THEN 0
                  ELSE IF price[c] # 0 /\ In(c)
                  THEN (((positions[Exit(c)] * Worth[Exit(c)]) * 99) \div 100) \div Worth[c]
                  ELSE positions[c]
  <2> TAKE c \in Codes
  <2>1. \A x : SwapBudget(x) = (x * 99) \div 100
    BY DEF SwapBudget
  <2>2. target[c] = IF Out(c) THEN 0
                  ELSE IF price[c] # NoPrice /\ In(c)
                  THEN SwapBudget(positions[Exit(c)] * Worth[Exit(c)]) \div Worth[c]
                  ELSE positions[c]
    BY DEF SwapTarget
  <2> HIDE DEF target, In, Out, Exit
  <2> QED
    BY <2>1, <2>2 DEF NoPrice
<1>7. \A c \in A : c \in Codes \ Held /\ ~Out(c) /\ positions[c] = 0
  <2> TAKE c \in A
  <2>1. c \in Codes \ Held
    BY <1>1
  <2>2. ~Out(c)
    BY <1>1, <2>1
  <2> QED
    BY <1>4, <2>1, <2>2
<1>8. ASSUME NEW c \in A
      PROVE  LET y == positions[Exit(c)] * price[Exit(c)] IN
             /\ target[c] \in Nat /\ y \in Nat /\ 100 * (target[c] * price[c]) <= 99 * y
             /\ Exit(c) \in Held /\ Exit(c) \in Codes /\ Out(Exit(c))
  <2> DEFINE e == Exit(c)
             y == positions[e] * price[e]
             x == positions[e] * Worth[e]
             k == (x * 99) \div 100
  <2>1. e \in Held /\ e \in Codes /\ Out(e)
    BY <1>3, <1>5
  <2>2. target[c] = k \div Worth[c]
    <3>1. c \in Codes /\ ~Out(c) /\ price[c] # 0 /\ In(c)
      BY <1>7
    <3> HIDE DEF Out, In, target
    <3> QED
      BY <1>6, <3>1
  <2>3. positions[e] \in Nat /\ price[e] \in Nat /\ Worth[e] = price[e] * 10000 /\ price[c] \in Nat
        /\ price[c] > 0 /\ Worth[c] = 10000 * price[c] /\ Worth[c] \in Nat /\ Worth[c] > 0
    <3>1. price[c] \in Nat /\ price[c] # 0 /\ Worth[c] = Unit * price[c]
      BY <1>2
    <3>2. positions[e] \in Nat /\ price[e] \in Nat /\ Worth[e] = price[e] * Unit
      BY <2>1, <1>2 DEF Worth
    <3> HIDE DEF e
    <3> QED
      BY <3>1, <3>2 DEF Unit
  <2> HIDE DEF e
  <2>4. y \in Nat /\ x = 10000 * y
    <3>1. \A a, b \in Nat : a * b \in Nat /\ a * (b * 10000) = 10000 * (a * b)
      OBVIOUS
    <3> QED
      BY <2>3, <3>1
  <2> HIDE DEF x, y, target
  <2>5. k \in Nat /\ 100 * k <= 990000 * y
    BY <2>4
  <2> HIDE DEF k
  <2>6. target[c] \in Nat /\ target[c] * Worth[c] <= k
    <3>1. \A a, b \in Nat : a > 0 => b \div a \in Nat /\ (b \div a) * a <= b
      OBVIOUS
    <3> QED
      BY <2>2, <2>3, <2>5, <3>1
  <2>7. target[c] * Worth[c] = 10000 * (target[c] * price[c]) /\ target[c] * price[c] \in Nat
    <3>1. \A a, b \in Nat : a * b \in Nat /\ a * (10000 * b) = 10000 * (a * b)
      OBVIOUS
    <3> QED
      BY <2>3, <2>6, <3>1
  <2>8. 100 * (target[c] * price[c]) <= 99 * y
    <3> DEFINE z == target[c] * price[c]
    <3>1. z \in Nat /\ 10000 * z <= k
      BY <2>6, <2>7
    <3> HIDE DEF z
    <3>2. 100 * z <= 99 * y
      BY <2>4, <2>5, <3>1
    <3> QED
      BY <3>2 DEF z
  <2>9. /\ target[c] \in Nat /\ y \in Nat /\ 100 * (target[c] * price[c]) <= 99 * y
        /\ e \in Held /\ e \in Codes /\ Out(e)
    BY <2>1, <2>4, <2>6, <2>8
  <2> QED
    BY ONLY <2>9 DEF e, y
<1>9. \A c \in Codes \ A : target[c] \in Nat /\ target[c] <= positions[c]
  <2> TAKE c \in Codes \ A
  <2>1. positions[c] \in Nat /\ target[c] = IF Out(c) THEN 0 ELSE positions[c]
    <3>1. ~(price[c] # 0 /\ In(c))
      OBVIOUS
    <3> HIDE DEF target, In, Out, Exit
    <3> QED
      BY <1>2, <1>6, <3>1
  <2> HIDE DEF target, Out
  <2> QED
    BY <2>1
<1>10. target \in [Codes -> Nat]
  <2>1. \A c \in Codes : target[c] \in Nat
    BY <1>8, <1>9
  <2>2. target = [c \in Codes |-> target[c]]
    BY DEF SwapTarget
  <2> HIDE DEF target
  <2> QED
    BY <2>1, <2>2
<1>11. ASSUME Lean PROVE SumOf(g, Codes) >= 0
  <2> DEFINE e == [c \in A |-> Exit(c)]
  <2>1. \A c \in Codes : g[c] \in Int
    <3> HIDE DEF target
    <3> QED
      BY <1>10, FlowsAre
  <2>2. \A c \in Codes \ A : g[c] >= 0
    <3> HIDE DEF target
    <3>1. \A c \in Codes \ A : g[c] \in Nat
      BY <1>9, <1>10, FlowsAre
    <3> QED
      BY <3>1
  <2>3. strategy.buyCost \in Nat /\ strategy.sellCost \in Nat
        /\ strategy.buyCost + strategy.sellCost <= 50
    <3>1. strategy \in Strategies /\ strategy.buyCost + strategy.sellCost <= 50
      BY <1>11 DEF Lean, Priced
    <3>2. strategy.sellCost \in 0..Unit /\ strategy.buyCost \in Nat
      BY <3>1, StrategyIs
    <3>3. Unit \in Nat /\ \A m \in Nat : \A n \in 0..m : n \in Nat
      BY DEF Unit
    <3> QED
      BY ONLY <3>1, <3>2, <3>3
  <2>4. ASSUME NEW c \in A PROVE e[c] \in Codes \ A /\ g[c] + g[e[c]] >= 0
    <3> DEFINE x == Exit(c)
               y == positions[x] * price[x]
               z == target[c] * price[c]
               b == strategy.buyCost
               s == strategy.sellCost
    <3>1. /\ target[c] \in Nat /\ y \in Nat /\ 100 * z <= 99 * y
          /\ x \in Held /\ x \in Codes /\ Out(x)
      BY <1>8
    <3>2. x \notin A
      BY <1>7, <3>1
    <3>3. e[c] = x
      OBVIOUS
    <3>4. target[x] = 0 /\ positions[c] = 0 /\ price[c] \in Nat /\ price[x] \in Nat /\ positions[x] \in Nat
      <4>1. target[x] = 0
        <5> HIDE DEF Out, In, x, target, Exit
        <5> QED
          BY <1>6, <3>1
      <4> HIDE DEF target, x
      <4> QED
        BY <1>2, <1>7, <3>1, <4>1
    <3>5. /\ g[c] >= 10000 * (positions[c] * price[c]) - 10000 * (target[c] * price[c])
                 - s * (positions[c] * price[c]) - b * (target[c] * price[c])
          /\ g[x] >= 10000 * (positions[x] * price[x]) - 10000 * (target[x] * price[x])
                 - s * (positions[x] * price[x]) - b * (target[x] * price[x])
      <4> HIDE DEF target, x
      <4>1. c \in Codes /\ x \in Codes
        BY <3>1
      <4> QED
        BY <1>10, <4>1, FlowsAre DEF Unit
    <3>6. z \in Nat
      <4> HIDE DEF target
      <4> QED
        BY <3>1, <3>4
    <3>7. /\ g[c] >= -(10000 * z) - b * z
          /\ g[x] >= 10000 * y - s * y
      <4>1. \A p \in Nat : 0 * p = 0
        OBVIOUS
      <4>2. positions[c] * price[c] = 0 /\ target[x] * price[x] = 0
        <5> HIDE DEF target, x
        <5> QED
          BY <3>4, <4>1
      <4>3. /\ g[c] >= 10000 * 0 - 10000 * z - s * 0 - b * z
            /\ g[x] >= 10000 * y - 10000 * 0 - s * y - b * 0
        <5> HIDE DEF target, x, g
        <5> QED
          BY <3>5, <4>2
      <4>4. g[c] \in Int /\ g[x] \in Int
        BY <2>1, <3>1
      <4> HIDE DEF target, x, g, y, z, b, s
      <4>5. b \in Nat /\ s \in Nat
        BY <2>3 DEF b, s
      <4> QED
        BY <3>1, <3>6, <4>3, <4>4, <4>5
    <3>8. b \in Nat /\ s \in Nat /\ b + s <= 50
      BY <2>3
    <3>9. g[c] \in Int /\ g[x] \in Int
      BY <2>1, <3>1
    <3> HIDE DEF target, x, g, y, z, b, s
    <3>10. (10000 * y - s * y) + (-(10000 * z) - b * z) >= 0
      BY <3>1, <3>6, <3>8, ExitPays
    <3>11. 10000 * y - s * y \in Int /\ -(10000 * z) - b * z \in Int
      BY <3>1, <3>6, <3>8
    <3>12. g[c] + g[x] >= 0
      BY <3>7, <3>9, <3>10, <3>11
    <3> HIDE DEF e
    <3> QED
      BY <3>1, <3>2, <3>3, <3>12
  <2>5. \A c, d \in A : e[c] = e[d] => c = d
    <3> TAKE c, d \in A
    <3>1. HAVE e[c] = e[d]
    <3> DEFINE w == CHOOSE u \in pairs : u.in = <<c>>
               v == CHOOSE u \in pairs : u.in = <<d>>
    <3>2. w \in pairs /\ w.in = <<c>> /\ v \in pairs /\ v.in = <<d>>
      OBVIOUS
    <3>3. w.out = v.out
      BY <3>1
    <3> HIDE DEF w, v, pairs
    <3>4. w = v
      BY <1>1, <3>2, <3>3
    <3>5. <<c>> = <<d>>
      BY <3>2, <3>4
    <3> QED
      BY <3>5
  <2>6. A \in SUBSET Codes /\ IsFiniteSet(Codes)
    BY FewCodes
  <2> HIDE DEF e, g, A
  <2> QED
    BY <2>1, <2>2, <2>4, <2>5, <2>6, SumPaired
<1> QED
  BY <1>10, <1>11

LEMMA PricedHolds == EngineInv => Priced
  BY DEF EngineInv, SignalInv, TradeInv, CashInv, Priced

LEMMA LeanHasCash == EngineInv /\ Lean => cash >= 0
  BY DEF EngineInv, CashInv, Lean

\* What a stage leaves when it sets a target.
LEMMA PursueInv ==
    ASSUME EngineInv, phase # "trading", NEW target \in [Codes -> Nat], NEW next \in Resting,
           Pursue(target, next), UNCHANGED <<strategy, day, price, recent, bookVars>>,
           Lean => cash + SumOf(FlowTo(target), Codes) >= 0
    PROVE  TradeInv' /\ EntryInv' /\ CashInv' /\ phase' \in Phases /\ after' \in Resting
                     /\ phase' = "trading"
<1>1. /\ plan' = TradesTo(target) /\ fills' = {} /\ phase' = "trading" /\ after' = next
      /\ strategy' = strategy /\ price' = price /\ cash' = cash /\ positions' = positions
      /\ entry' = entry /\ tax' = tax /\ paid' = paid
  BY DEF Pursue, bookVars
<1>2. /\ TradesTo(target) \in SUBSET Trades /\ IsFiniteSet(TradesTo(target))
      /\ \A t \in TradesTo(target) : /\ t.qty # 0 /\ price[t.code] # 0
                                     /\ t.side = "SELL" => t.qty <= positions[t.code]
      /\ \A t, u \in TradesTo(target) : t.code = u.code => t = u
      /\ FlowIn(TradesTo(target)) = FlowTo(target)
  BY PricedHolds, TradesAre
<1>3. fills = {} /\ positions \in [Codes -> Nat]
  BY DEF EngineInv, TradeInv
<1>4. TradeInv'
  <2> DEFINE P == TradesTo(target)
  <2>1. plan' = P /\ P \in SUBSET Trades /\ IsFiniteSet(P)
    BY <1>1, <1>2
  <2>2. IsFiniteSet(fills')
    BY <1>1, FS_EmptySet
  <2>3. \A t \in P : /\ t.qty # 0 /\ price[t.code] # 0
                     /\ t.side = "SELL" => t.qty <= positions[t.code]
    BY <1>2
  <2>4. \A t, u \in P : t.code = u.code => t = u
    BY <1>2
  <2> HIDE DEF P
  <2> QED
    BY <1>1, <1>3, <2>1, <2>2, <2>3, <2>4 DEF TradeInv
<1>5. EntryInv'
  <2>1. \A c \in Codes : EntryFits(c, positions[c])
    BY <1>3 DEF EngineInv, EntryInv
  <2>2. \A c \in Codes : EntryFits(c, positions[c])'
    BY <1>1, <2>1 DEF EntryFits
  <2> QED
    BY <1>1, <2>2 DEF EngineInv, EntryInv, EntryFits
<1>6. CashInv'
  <2>1. FlowIn(plan)' = FlowTo(target)
    <3>1. FlowIn(plan)' = FlowIn(TradesTo(target))
      BY <1>1 DEF FlowIn, FlowOf, Proceeds, Cost
    <3> QED
      BY <1>2, <3>1
  <2>2. Lean' = Lean
    BY <1>1 DEF Lean
  <2>3. Lean' => cash' + SumOf(FlowIn(plan)', Codes) >= 0
    BY <1>1, <2>1, <2>2
  <2> QED
    BY <1>1, <2>3 DEF EngineInv, CashInv
<1> QED
  BY <1>1, <1>4, <1>5, <1>6 DEF Phases

\* What it leaves when it has nothing to do.
LEMMA SkipInv ==
    ASSUME EngineInv, phase # "trading", NEW next \in Resting, Skip(next),
           UNCHANGED <<strategy, day, recent, bookVars>>, price' \in [Codes -> Nat]
    PROVE  TradeInv' /\ EntryInv' /\ CashInv' /\ phase' \in Phases /\ after' \in Resting
                     /\ phase' # "trading"
<1>1. /\ plan' = plan /\ fills' = fills /\ phase' = next /\ after' = after
      /\ strategy' = strategy /\ cash' = cash /\ positions' = positions
      /\ entry' = entry /\ tax' = tax /\ paid' = paid /\ plan = {} /\ fills = {}
      /\ phase' # "trading"
  BY DEF Skip, bookVars, EngineInv, TradeInv, Resting
<1>2. TradeInv'
  BY <1>1 DEF EngineInv, TradeInv
<1>3. EntryInv'
  <2>1. \A c \in Codes : EntryFits(c, positions[c])
    BY <1>1 DEF EngineInv, EntryInv
  <2>2. \A c \in Codes : EntryFits(c, positions[c])'
    BY <1>1, <2>1 DEF EntryFits
  <2> QED
    BY <1>1, <2>2 DEF EngineInv, EntryInv, EntryFits
<1>4. CashInv'
  BY <1>1 DEF EngineInv, CashInv
<1> QED
  BY <1>1, <1>2, <1>3, <1>4 DEF EngineInv, SignalInv, Resting

LEMMA OpenDayInv ==
    ASSUME EngineInv, NEW q \in Quotes, NEW e \in Exposures, OpenDay(q, e)
    PROVE  EngineInv'
<1>1. /\ phase = "open" /\ phase' = "exits"
      /\ price' = [c \in Codes |-> IF q[c] = NoPrice THEN price[c] ELSE q[c]]
      /\ recent' = IF strategy.regime = "off" THEN recent
                   ELSE IF Len(recent) < Persistence THEN Append(recent, e)
                   ELSE Append(Tail(recent), e)
      /\ UNCHANGED <<strategy, day, after, plan, fills, bookVars, signalVars>>
  BY DEF OpenDay
<1>2. price' \in [Codes -> Nat]
  <2>1. q \in [Codes -> Nat] /\ price \in [Codes -> Nat]
    BY EngineAssumption DEF EngineInv, SignalInv
  <2> QED
    BY <1>1, <2>1
<1>3. recent' \in Seq(Exposures) /\ (strategy.regime # "off" => recent' # <<>>)
  <2>1. recent \in Seq(Exposures) /\ Persistence \in Nat \ {0}
    BY EngineAssumption DEF EngineInv, SignalInv
  <2>2. Append(recent, e) \in Seq(Exposures) /\ Append(recent, e) # <<>>
    BY <2>1, AppendProperties
  <2>3. ASSUME ~(Len(recent) < Persistence)
        PROVE  Append(Tail(recent), e) \in Seq(Exposures) /\ Append(Tail(recent), e) # <<>>
    <3>1. recent # <<>>
      BY <2>1, <2>3
    <3>2. Tail(recent) \in Seq(Exposures)
      BY <2>1, <3>1
    <3> QED
      BY <3>2, AppendProperties
  <2> QED
    BY <1>1, <2>1, <2>2, <2>3
<1>4. TradeInv' /\ EntryInv' /\ CashInv'
  <2>1. plan = {} /\ fills = {}
    BY <1>1 DEF EngineInv, TradeInv
  <2>2. /\ plan' = plan /\ fills' = fills /\ strategy' = strategy /\ cash' = cash
        /\ positions' = positions /\ entry' = entry /\ tax' = tax /\ paid' = paid
    BY <1>1 DEF bookVars
  <2>3. TradeInv'
    BY <1>1, <2>1, <2>2 DEF EngineInv, TradeInv
  <2>4. EntryInv'
    <3>1. \A c \in Codes : EntryFits(c, positions[c])
      BY <2>1 DEF EngineInv, EntryInv
    <3>2. \A c \in Codes : EntryFits(c, positions[c])'
      BY <2>2, <3>1 DEF EntryFits
    <3> QED
      BY <2>1, <2>2, <3>2 DEF EngineInv, EntryInv, EntryFits
  <2>5. CashInv'
    BY <1>1, <2>2 DEF EngineInv, CashInv
  <2> QED
    BY <2>3, <2>4, <2>5
<1>5. SignalInv'
  BY <1>1, <1>2, <1>3 DEF EngineInv, SignalInv, signalVars, Phases
<1> QED
  BY <1>4, <1>5 DEF EngineInv

\* A stage between the day's prices and its close, whose signals are in order.
LEMMA StageInv ==
    ASSUME EngineInv, NEW s \in Resting \ {"open"}, Stage(s), phase' \in Phases, after' \in Resting,
           pending' \in [selected : Seq(Codes), exposure : 0..100, slots : Nat, due : Nat],
           Slotted(pending'.selected, pending'.slots), applied' \in 0..100,
           lastSelected' \in Seq(Codes), lastSlots' \in Nat, Slotted(lastSelected', lastSlots'),
           rebalanced' \in Nat
    PROVE  SignalInv'
<1>1. phase = s /\ strategy' = strategy /\ day' = day /\ price' = price /\ recent' = recent
  BY DEF Stage
<1>2. strategy.regime # "off" => recent # <<>>
  BY <1>1 DEF EngineInv, SignalInv
<1> QED
  BY <1>1, <1>2 DEF EngineInv, SignalInv

LEMMA QuietStageInv ==
    ASSUME EngineInv, NEW s \in Resting \ {"open"}, Stage(s), phase' \in Phases, after' \in Resting,
           UNCHANGED signalVars
    PROVE  SignalInv'
<1>1. /\ pending' = pending /\ applied' = applied /\ lastSelected' = lastSelected
      /\ lastSlots' = lastSlots /\ rebalanced' = rebalanced
  BY DEF signalVars
<1> QED
  BY <1>1, StageInv DEF EngineInv, SignalInv

LEMMA StageIs ==
    ASSUME EngineInv, NEW s \in Resting \ {"open"}, Stage(s)
    PROVE  /\ phase # "trading" /\ UNCHANGED <<strategy, day, price, recent, bookVars>>
           /\ price' \in [Codes -> Nat] /\ Priced /\ positions \in [Codes -> Nat]
           /\ strategy \in Strategies /\ applied \in 0..100
           /\ (strategy.regime # "off" => recent # <<>>) /\ recent \in Seq(Exposures)
<1>1. phase = s /\ UNCHANGED <<strategy, day, price, recent, bookVars>>
  BY DEF Stage
<1>2. phase # "trading" /\ phase # "open"
  BY <1>1 DEF Resting
<1> QED
  BY <1>1, <1>2, PricedHolds DEF EngineInv, SignalInv, TradeInv

LEMMA ExitPositionsInv ==
    ASSUME EngineInv, ExitPositions
    PROVE  EngineInv'
<1>1. "exits" \in Resting \ {"open"} /\ "fill" \in Resting /\ Stage("exits") /\ UNCHANGED signalVars
  BY DEF ExitPositions, Resting, Phases
<1>2. /\ phase # "trading" /\ UNCHANGED <<strategy, day, price, recent, bookVars>>
      /\ price' \in [Codes -> Nat] /\ Priced /\ positions \in [Codes -> Nat]
  BY <1>1, StageIs
<1>3. TradeInv' /\ EntryInv' /\ CashInv' /\ phase' \in Phases /\ after' \in Resting
  <2>1. CASE Exits = {}
    <3>1. Skip("fill")
      BY <2>1 DEF ExitPositions
    <3> QED
      BY <1>1, <1>2, <3>1, SkipInv
  <2>2. CASE Exits # {}
    <3> DEFINE target == [c \in Codes |-> IF c \in Exits THEN 0 ELSE positions[c]]
    <3>1. Pursue(target, "fill")
      BY <2>2 DEF ExitPositions
    <3>2. target \in [Codes -> Nat] /\ \A c \in Codes : target[c] <= positions[c]
      BY <1>2
    <3> HIDE DEF target
    <3>3. Lean => cash + SumOf(FlowTo(target), Codes) >= 0
      <4>1. SumOf(FlowTo(target), Codes) \in Nat
        BY <1>2, <3>2, SalesArePaid
      <4> QED
        BY <1>2, <4>1, LeanHasCash DEF Priced
    <3> QED
      BY <1>1, <1>2, <3>1, <3>2, <3>3, PursueInv
  <2> QED
    BY <2>1, <2>2
<1> QED
  BY <1>1, <1>3, QuietStageInv DEF EngineInv

LEMMA NoOrdersAre ==
    /\ NoOrders \in [selected : Seq(Codes), exposure : 0..100, slots : Nat, due : Nat]
    /\ Slotted(NoOrders.selected, NoOrders.slots) /\ Slotted(<<>>, 0)
<1>1. NoOrders.selected = <<>> /\ NoOrders.slots = 0
  BY DEF NoOrders
<1>2. ToSet(<<>>) = {} /\ <<>> \in Seq(Codes)
  BY DEF ToSet
<1>3. Slotted(<<>>, 0)
  BY <1>2, FS_EmptySet DEF Slotted
<1>4. NoOrders \in [selected : Seq(Codes), exposure : 0..100, slots : Nat, due : Nat]
  BY <1>2 DEF NoOrders
<1> QED
  BY <1>1, <1>3, <1>4

LEMMA FillPendingInv ==
    ASSUME EngineInv, FillPending
    PROVE  EngineInv'
<1>1. "fill" \in Resting \ {"open"} /\ "regime" \in Resting /\ Stage("fill")
      /\ UNCHANGED <<lastSelected, lastSlots, rebalanced>>
  BY DEF FillPending, Resting, Phases
<1>2. /\ phase # "trading" /\ UNCHANGED <<strategy, day, price, recent, bookVars>>
      /\ price' \in [Codes -> Nat] /\ Priced
  BY <1>1, StageIs
<1>3. /\ pending \in [selected : Seq(Codes), exposure : 0..100, slots : Nat, due : Nat]
      /\ Slotted(pending.selected, pending.slots) /\ applied \in 0..100
      /\ lastSelected \in Seq(Codes) /\ lastSlots \in Nat
      /\ Slotted(lastSelected, lastSlots) /\ rebalanced \in Nat
  BY DEF EngineInv, SignalInv
<1>4. CASE pending # NoOrders /\ day >= pending.due
  <2>1. /\ Pursue(EqualWeight(pending.selected, pending.exposure, pending.slots), "regime")
        /\ pending' = NoOrders /\ applied' = pending.exposure
    BY <1>4 DEF FillPending
  <2>2. pending.selected \in Seq(Codes) /\ pending.exposure \in 0..100 /\ pending.slots \in Nat
    BY <1>3
  <2>3. TradeInv' /\ EntryInv' /\ CashInv' /\ phase' \in Phases /\ after' \in Resting
    <3> DEFINE target == EqualWeight(pending.selected, pending.exposure, pending.slots)
    <3>1. target \in [Codes -> Nat]
      BY <1>2, <1>3, <2>2, EqualWeightFits
    <3>2. Lean => cash + SumOf(FlowTo(target), Codes) >= 0
      BY <1>2, <1>3, <2>2, LeanHasCash, EqualWeightIsPaid
    <3> HIDE DEF target
    <3> QED
      BY <1>1, <1>2, <2>1, <3>1, <3>2, PursueInv DEF target
  <2>4. SignalInv'
    BY <1>1, <1>3, <2>1, <2>2, <2>3, NoOrdersAre, StageInv
  <2> QED
    BY <2>3, <2>4 DEF EngineInv
<1>5. CASE ~(pending # NoOrders /\ day >= pending.due)
  <2>1. Skip("regime") /\ UNCHANGED <<pending, applied>>
    BY <1>5 DEF FillPending
  <2>2. TradeInv' /\ EntryInv' /\ CashInv' /\ phase' \in Phases /\ after' \in Resting
    BY <1>1, <1>2, <2>1, SkipInv
  <2>3. SignalInv'
    BY <1>1, <1>3, <2>1, <2>2, StageInv
  <2> QED
    BY <2>2, <2>3 DEF EngineInv
<1> QED
  BY <1>4, <1>5

LEMMA LatestIs ==
    ASSUME recent \in Seq(Exposures), recent # <<>>
    PROVE  Last(recent) \in 0..100
<1>1. Last(recent) = recent[Len(recent)] /\ Exposures \subseteq 0..100
  BY EngineAssumption DEF Last
<1>2. recent[Len(recent)] \in Exposures
  BY ElementOfSeq
<1> QED
  BY <1>1, <1>2

LEMMA AdjustToRegimeInv ==
    ASSUME EngineInv, AdjustToRegime
    PROVE  EngineInv'
<1>1. "regime" \in Resting \ {"open"} /\ "trim" \in Resting /\ Stage("regime")
      /\ UNCHANGED <<pending, lastSelected, lastSlots, rebalanced>>
  BY DEF AdjustToRegime, Resting, Phases
<1>2. /\ phase # "trading" /\ UNCHANGED <<strategy, day, price, recent, bookVars>>
      /\ price' \in [Codes -> Nat] /\ Priced /\ positions \in [Codes -> Nat]
      /\ recent \in Seq(Exposures)
  BY <1>1, StageIs
<1>3. /\ pending \in [selected : Seq(Codes), exposure : 0..100, slots : Nat, due : Nat]
      /\ Slotted(pending.selected, pending.slots) /\ applied \in 0..100
      /\ lastSelected \in Seq(Codes) /\ lastSlots \in Nat
      /\ Slotted(lastSelected, lastSlots) /\ rebalanced \in Nat
  BY DEF EngineInv, SignalInv
<1> DEFINE Follows == /\ strategy.regime = "monthly" /\ BetweenRebalances
                      /\ Confirmed /\ Last(recent) # applied
<1>4. CASE Follows
  <2>1. /\ applied' = Last(recent)
        /\ \/ Last(recent) < applied /\ Pursue(Shrunk(Last(recent)), "trim")
           \/ /\ Last(recent) > applied /\ lastSelected # <<>>
              /\ Pursue(EqualWeight(lastSelected, Last(recent), lastSlots), "trim")
           \/ Last(recent) > applied /\ lastSelected = <<>> /\ Skip("trim")
    BY <1>4 DEF AdjustToRegime
  <2>2. Last(recent) \in 0..100
    <3>1. Len(recent) = Persistence /\ Persistence \in Nat \ {0}
      BY <1>4, EngineAssumption DEF Confirmed
    <3>2. recent # <<>>
      BY <3>1
    <3> QED
      BY <1>2, <3>2, LatestIs
  <2>3. TradeInv' /\ EntryInv' /\ CashInv' /\ phase' \in Phases /\ after' \in Resting
    <3>1. CASE Last(recent) < applied /\ Pursue(Shrunk(Last(recent)), "trim")
      <4> DEFINE e == Last(recent)
                 target == Shrunk(e)
      <4>1. e \in Nat /\ applied \in Nat /\ e < applied
        <5>1. e \in 0..100 /\ applied \in 0..100 /\ e < applied
          BY <1>3, <2>2, <3>1
        <5> HIDE DEF e
        <5> QED
          BY ONLY <5>1
      <4>2. \A n, a, x \in Nat : x < a => (n * x) \div a \in Nat /\ (n * x) \div a <= n
        <5> TAKE n, a, x \in Nat
        <5>1. HAVE x < a
        <5>2. \A y, z \in Nat : y <= z => n * y <= n * z
          OBVIOUS
        <5>3. n * x \in Nat /\ n * a \in Nat /\ n * x <= n * a
          BY <5>1, <5>2
        <5> DEFINE p == n * x
                   r == p \div a
        <5>4. r \in Nat /\ r * a <= p
          <6> HIDE DEF p
          <6> QED
            BY <5>1, <5>3 DEF p
        <5>5. r * a <= n * a
          <6> HIDE DEF r
          <6> QED
            BY <5>3, <5>4
        <5>6. \A y \in Nat : y > n => y * a > n * a
          BY <5>1
        <5> HIDE DEF r
        <5>7. r <= n
          BY <5>4, <5>5, <5>6
        <5> QED
          BY <5>4, <5>7 DEF r
      <4>3. target = [c \in Codes |-> (positions[c] * e) \div applied]
        BY DEF Shrunk
      <4>4. \A c \in Codes : target[c] \in Nat /\ target[c] <= positions[c]
        <5> TAKE c \in Codes
        <5>1. positions[c] \in Nat /\ target[c] = (positions[c] * e) \div applied
          BY <1>2, <4>3
        <5> HIDE DEF e, target
        <5> QED
          BY <4>1, <4>2, <5>1
      <4>5. target \in [Codes -> Nat]
        <5>1. target = [c \in Codes |-> target[c]]
          BY <4>3
        <5> HIDE DEF target
        <5> QED
          BY <4>4, <5>1
      <4>6. Pursue(target, "trim")
        BY <3>1
      <4> HIDE DEF target
      <4>7. Lean => cash + SumOf(FlowTo(target), Codes) >= 0
        <5>1. SumOf(FlowTo(target), Codes) \in Nat
          BY <1>2, <4>4, <4>5, SalesArePaid
        <5> QED
          BY <1>2, <5>1, LeanHasCash DEF Priced
      <4> QED
        BY <1>1, <1>2, <4>5, <4>6, <4>7, PursueInv
    <3>2. CASE Pursue(EqualWeight(lastSelected, Last(recent), lastSlots), "trim")
      <4> DEFINE target == EqualWeight(lastSelected, Last(recent), lastSlots)
      <4>1. target \in [Codes -> Nat]
        BY <1>2, <1>3, <2>2, EqualWeightFits
      <4>2. Lean => cash + SumOf(FlowTo(target), Codes) >= 0
        BY <1>2, <1>3, <2>2, LeanHasCash, EqualWeightIsPaid
      <4> HIDE DEF target
      <4> QED
        BY <1>1, <1>2, <3>2, <4>1, <4>2, PursueInv DEF target
    <3>3. CASE Skip("trim")
      BY <1>1, <1>2, <3>3, SkipInv
    <3> QED
      BY <2>1, <3>1, <3>2, <3>3
  <2>4. SignalInv'
    BY <1>1, <1>3, <2>1, <2>2, <2>3, StageInv
  <2> QED
    BY <2>3, <2>4 DEF EngineInv
<1>5. CASE ~Follows
  <2>1. Skip("trim") /\ UNCHANGED applied
    BY <1>5 DEF AdjustToRegime
  <2>2. TradeInv' /\ EntryInv' /\ CashInv' /\ phase' \in Phases /\ after' \in Resting
    BY <1>1, <1>2, <2>1, SkipInv
  <2>3. SignalInv'
    BY <1>1, <1>3, <2>1, <2>2, StageInv
  <2> QED
    BY <2>2, <2>3 DEF EngineInv
<1> QED
  BY <1>4, <1>5

LEMMA TrimDriftedInv ==
    ASSUME EngineInv, TrimDrifted
    PROVE  EngineInv'
<1>1. "trim" \in Resting \ {"open"} /\ "swap" \in Resting /\ Stage("trim") /\ UNCHANGED signalVars
  BY DEF TrimDrifted, Resting, Phases
<1>2. /\ phase # "trading" /\ UNCHANGED <<strategy, day, price, recent, bookVars>>
      /\ price' \in [Codes -> Nat] /\ Priced /\ positions \in [Codes -> Nat] /\ applied \in 0..100
      /\ strategy \in Strategies
  BY <1>1, StageIs
<1> DEFINE Trims == /\ strategy.bandTrim > 100 /\ BetweenRebalances /\ Held # {} /\ MarkToMarket > 0
                    /\ Drifted(positions, Worth, HeldShare, strategy.bandTrim) # {}
<1>3. TradeInv' /\ EntryInv' /\ CashInv' /\ phase' \in Phases /\ after' \in Resting
  <2>1. CASE ~Trims
    <3>1. Skip("swap")
      BY <2>1 DEF TrimDrifted
    <3> QED
      BY <1>1, <1>2, <3>1, SkipInv
  <2>2. CASE Trims
    <3> DEFINE target == BandTrimTarget(positions, Worth, HeldShare, strategy.bandTrim)
               k == strategy.bandTrim
               h == HeldShare
    <3>1. Pursue(target, "swap")
      BY <2>2 DEF TrimDrifted
    <3>2. h \in Nat
      <4> DEFINE m == MarkToMarket
                 I == (m * 199) \div 200
                 E == (I * (IF applied > 0 THEN applied ELSE 100)) \div 100
                 n == Cardinality(Held)
      <4>1. h = E \div n
        BY DEF HeldShare, Investable
      <4>2. m \in Nat
        <5>1. MarkToMarket \in Int
          BY <1>2, MarkIs
        <5> QED
          BY <2>2, <5>1
      <4>3. n \in Nat /\ n > 0
        <5>1. IsFiniteSet(Held)
          <6>1. Held \in SUBSET Codes
            BY DEF Held
          <6> QED
            BY <6>1, FewCodes, FS_Subset
        <5>2. Held # {}
          BY <2>2
        <5>3. Cardinality(Held) \in Nat /\ Cardinality(Held) # 0
          BY <5>1, <5>2, FS_CardinalityType, FS_EmptySet
        <5> QED
          BY <5>3
      <4> HIDE DEF m, n
      <4>4. I \in Nat
        BY <4>2
      <4> HIDE DEF I
      <4>5. E \in Nat
        BY <1>2, <4>4
      <4> HIDE DEF E, h
      <4> QED
        BY <4>1, <4>3, <4>5
    <3>3. k \in Nat /\ k > 100
      BY <1>2, <2>2, StrategyIs
    <3>4. DOMAIN positions = Codes
      BY <1>2
    <3>5. target = [c \in Codes |-> IF 100 * positions[c] * Worth[c] > h * k
                                    THEN h \div Worth[c] ELSE positions[c]]
      BY <3>4 DEF BandTrimTarget, Drifted
    <3>6. \A c \in Codes : target[c] \in Nat /\ target[c] <= positions[c]
      <4> TAKE c \in Codes
      <4>1. positions[c] \in Nat /\ Worth[c] \in Nat
        BY <1>2, UnitsAre DEF Priced
      <4>2. target[c] = IF 100 * positions[c] * Worth[c] > h * k THEN h \div Worth[c] ELSE positions[c]
        BY <3>5
      <4> HIDE DEF target, h, k
      <4> DEFINE n == positions[c]
                 w == Worth[c]
      <4>3. n \in Nat /\ w \in Nat /\ h \in Nat /\ k \in Nat /\ k > 100
        BY <3>2, <3>3, <4>1
      <4>4. target[c] = IF 100 * n * w > h * k THEN h \div w ELSE n
        BY <4>2
      <4> HIDE DEF n, w
      <4>5. ASSUME 100 * n * w > h * k PROVE h \div w \in Nat /\ h \div w <= n
        <5>1. h * 100 <= h * k
          <6>1. \A x, y \in Nat : x <= y => h * x <= h * y
            BY <4>3
          <6> QED
            BY <4>3, <6>1
        <5>2. n * w \in Nat /\ 100 * n * w = 100 * (n * w) /\ h * k \in Nat
          BY <4>3
        <5>3. h < n * w
          BY <4>3, <4>5, <5>1, <5>2
        <5>4. w > 0
          <6>1. n * 0 = 0
            BY <4>3
          <6> QED
            BY <4>3, <5>3, <6>1
        <5> DEFINE r == h \div w
        <5>5. r \in Nat /\ r * w <= h
          BY <4>3, <5>4
        <5>6. \A y \in Nat : y >= n => y * w >= n * w
          BY <4>3
        <5> HIDE DEF r
        <5>7. r <= n
          BY <4>3, <5>2, <5>3, <5>5, <5>6
        <5> QED
          BY <5>5, <5>7 DEF r
      <4> QED
        <5>1. target[c] \in Nat /\ target[c] <= n
          BY <4>3, <4>4, <4>5
        <5> QED
          BY <5>1 DEF n
    <3>7. target \in [Codes -> Nat]
      <4>1. target = [c \in Codes |-> target[c]]
        BY <3>5
      <4> HIDE DEF target
      <4> QED
        BY <3>6, <4>1
    <3> HIDE DEF target
    <3>8. Lean => cash + SumOf(FlowTo(target), Codes) >= 0
      <4>1. SumOf(FlowTo(target), Codes) \in Nat
        BY <1>2, <3>6, <3>7, SalesArePaid
      <4> QED
        BY <1>2, <4>1, LeanHasCash DEF Priced
    <3> QED
      BY <1>1, <1>2, <3>1, <3>7, <3>8, PursueInv
  <2> QED
    BY <2>1, <2>2
<1> QED
  BY <1>1, <1>3, QuietStageInv DEF EngineInv

LEMMA SwapWeakInv ==
    ASSUME EngineInv, NEW ranking \in Rankings, SwapWeak(ranking)
    PROVE  EngineInv'
<1> DEFINE swaps == ScoreExitSwaps(Ranked(ranking), Held, strategy.replaceBelow)
           target == SwapTarget(swaps)
<1>1. /\ "swap" \in Resting \ {"open"} /\ "rebalance" \in Resting /\ Stage("swap") /\ UNCHANGED signalVars
      /\ \/ Pursue(target, "rebalance")
         \/ Skip("rebalance")
  BY DEF SwapWeak, Resting, Phases
<1>2. /\ phase # "trading" /\ UNCHANGED <<strategy, day, price, recent, bookVars>>
      /\ price' \in [Codes -> Nat] /\ Priced /\ positions \in [Codes -> Nat]
  BY <1>1, StageIs
<1>3. target \in [Codes -> Nat] /\ (Lean => SumOf(FlowTo(target), Codes) >= 0)
  BY <1>2, SwapIsPaid
<1> HIDE DEF target
<1>4. Lean => cash + SumOf(FlowTo(target), Codes) >= 0
  <2>1. SumOf(FlowTo(target), Codes) \in Int /\ cash \in Int
    BY <1>2, <1>3, FlowsSum DEF Priced
  <2>2. Lean => SumOf(FlowTo(target), Codes) >= 0 /\ cash >= 0
    BY <1>3, LeanHasCash
  <2> QED
    BY <2>1, <2>2
<1>5. TradeInv' /\ EntryInv' /\ CashInv' /\ phase' \in Phases /\ after' \in Resting
  <2>1. CASE Pursue(target, "rebalance")
    BY <1>1, <1>2, <1>3, <1>4, <2>1, PursueInv
  <2>2. CASE Skip("rebalance")
    BY <1>1, <1>2, <2>2, SkipInv
  <2> QED
    BY <1>1, <2>1, <2>2
<1> QED
  BY <1>1, <1>5, QuietStageInv DEF EngineInv

LEMMA SlotsAreEnough ==
    ASSUME NEW s \in Seq(Codes), NEW keep \in SUBSET (DOMAIN s)
    PROVE  /\ Chosen(s, keep) \in Seq(Codes)
           /\ Slotted(s, Len(s)) /\ Slotted(Chosen(s, keep), Len(s))
<1> DEFINE R == ToSet(s)
           z == Chosen(s, keep)
<1>1. /\ z \in Seq(Codes) /\ DOMAIN z = 1..Cardinality(keep)
      /\ \A k \in DOMAIN z : InOrder(keep)[k] \in keep /\ z[k] = s[InOrder(keep)[k]]
  BY ChosenIs
<1>2. s \in [1..Len(s) -> R] /\ s \in Surjection(1..Len(s), R)
  <2>1. DOMAIN s = 1..Len(s) /\ s = [i \in 1..Len(s) |-> s[i]]
    OBVIOUS
  <2>2. \A i \in 1..Len(s) : s[i] \in R
    BY <2>1 DEF ToSet
  <2>3. s \in [1..Len(s) -> R]
    <3> HIDE DEF R
    <3> QED
      BY <2>1, <2>2
  <2>4. \A x \in R : \E i \in 1..Len(s) : s[i] = x
    BY <2>1 DEF ToSet
  <2> HIDE DEF R
  <2> QED
    BY <2>3, <2>4 DEF Surjection
<1>3. IsFiniteSet(R) /\ Cardinality(R) <= Len(s) /\ Len(s) \in Nat /\ Cardinality(R) \in Nat
  <2>1. Len(s) \in Nat
    OBVIOUS
  <2>2. IsFiniteSet(1..Len(s)) /\ Cardinality(1..Len(s)) = Len(s)
    <3>1. Cardinality(1..Len(s)) = IF 1 > Len(s) THEN 0 ELSE Len(s) - 1 + 1
      BY <2>1, FS_Interval
    <3> QED
      BY <2>1, <3>1, FS_Interval
  <2> HIDE DEF R
  <2> QED
    BY <1>2, <2>1, <2>2, FS_Surjection, FS_CardinalityType
<1>4. ToSet(z) \in SUBSET R
  <2>1. \A k \in DOMAIN z : z[k] \in R
    <3>1. \A i \in keep : s[i] \in R
      BY DEF ToSet
    <3> HIDE DEF R, z
    <3> QED
      BY <1>1, <3>1
  <2> HIDE DEF z, R
  <2> QED
    BY <2>1 DEF ToSet
<1>5. Cardinality(ToSet(z)) <= Cardinality(R) /\ Cardinality(ToSet(z)) \in Nat
  <2> HIDE DEF R, z
  <2> QED
    BY <1>3, <1>4, FS_Subset, FS_CardinalityType
<1>6. Slotted(s, Len(s))
  BY <1>3 DEF Slotted
<1>7. Slotted(z, Len(s))
  <2> HIDE DEF R, z
  <2> QED
    BY <1>3, <1>5 DEF Slotted
<1> QED
  BY <1>1, <1>6, <1>7

LEMMA ExposureIs ==
    ASSUME EngineInv, phase # "open"
    PROVE  SignalExposure \in 0..100
<1> DEFINE regime == IF strategy.regime = "off" THEN 100 ELSE Last(recent)
           m == RampMonth
           n == strategy.ramp
<1>1. regime \in 0..100
  <2>1. recent \in Seq(Exposures) /\ (strategy.regime # "off" => recent # <<>>)
    BY DEF EngineInv, SignalInv
  <2>2. strategy.regime # "off" => Last(recent) \in 0..100
    BY <2>1, LatestIs
  <2> QED
    BY <2>2
<1>2. m \in Nat /\ n \in Nat
  <2>1. day \in 1..Len(Calendar) /\ strategy \in Strategies
    BY DEF EngineInv, SignalInv, Days
  <2>2. Calendar \in Seq(Nat \ {0}) /\ Calendar # <<>>
        /\ \A d, e \in DOMAIN Calendar : d <= e => Calendar[d] <= Calendar[e]
    BY EngineAssumption
  <2>3. 1 \in DOMAIN Calendar /\ day \in DOMAIN Calendar /\ 1 <= day
    BY <2>1, <2>2
  <2>4. Calendar[1] \in Nat /\ Calendar[day] \in Nat /\ Calendar[1] <= Calendar[day]
    BY <2>2, <2>3
  <2>5. m \in Nat
    BY <2>4 DEF RampMonth, ThisMonth
  <2>6. n \in Nat
    BY <2>1, StrategyIs
  <2> QED
    BY <2>5, <2>6
<1>3. SignalExposure = IF m < n THEN (regime * m) \div n ELSE regime
  BY DEF SignalExposure
<1> HIDE DEF regime, m, n
<1>4. ASSUME m < n PROVE (regime * m) \div n \in 0..100
  <2> DEFINE p == regime * m
             r == p \div n
  <2>1. regime \in Nat /\ regime <= 100
    BY <1>1
  <2>2. p \in Nat /\ p <= 100 * n
    <3>1. regime * m \in Nat /\ 100 * m <= 100 * n
      BY <1>2, <1>4, <2>1
    <3>2. \A x \in Nat : x <= 100 => x * m <= 100 * m
      BY <1>2
    <3>3. regime * m <= 100 * m
      BY <2>1, <3>2
    <3>4. 100 * m \in Nat /\ 100 * n \in Nat
      BY <1>2
    <3> QED
      BY <3>1, <3>3, <3>4
  <2> HIDE DEF p
  <2>3. r \in Nat /\ r * n <= p
    BY <1>2, <1>4, <2>2
  <2>4. \A x \in Nat : x > 100 => x * n > 100 * n
    BY <1>2, <1>4
  <2> HIDE DEF r
  <2>5. r <= 100
    <3>1. r * n <= 100 * n
      <4>1. r * n \in Nat /\ 100 * n \in Nat
        BY <1>2, <2>3
      <4> QED
        BY <2>2, <2>3, <4>1
    <3>2. r * n \in Nat /\ 100 * n \in Nat
      BY <1>2, <2>3
    <3> QED
      BY <2>3, <2>4, <3>1, <3>2
  <2>6. r \in 0..100
    BY <2>3, <2>5
  <2> QED
    BY <2>6 DEF r, p
<1> QED
  BY <1>1, <1>2, <1>3, <1>4

LEMMA RebalanceInv ==
    ASSUME EngineInv, NEW ranking \in Rankings, NEW rising \in SUBSET Codes, Rebalance(ranking, rising)
    PROVE  EngineInv'
<1> DEFINE ranked == Ranked(ranking)
           n == Min({strategy.topN, Len(ranked)})
           best == SubSeq(ranked, 1, n)
           keep == {i \in DOMAIN best : best[i] \in rising}
           selected == IF strategy.gate THEN Chosen(best, keep) ELSE best
           exposure == SignalExposure
           slots == Len(best)
<1>1. "rebalance" \in Resting \ {"open"} /\ "close" \in Resting /\ Stage("rebalance")
  BY DEF Rebalance, Resting, Phases
<1>2. /\ phase # "trading" /\ UNCHANGED <<strategy, day, price, recent, bookVars>>
      /\ price' \in [Codes -> Nat] /\ Priced /\ strategy \in Strategies
  BY <1>1, StageIs
<1>3. /\ pending \in [selected : Seq(Codes), exposure : 0..100, slots : Nat, due : Nat]
      /\ Slotted(pending.selected, pending.slots) /\ applied \in 0..100
      /\ lastSelected \in Seq(Codes) /\ lastSlots \in Nat
      /\ Slotted(lastSelected, lastSlots) /\ rebalanced \in Nat
  BY DEF EngineInv, SignalInv
<1>4. ~IsRebalanceDay \/ IsRebalanceDay
  OBVIOUS
<1>5. CASE ~IsRebalanceDay
  <2>1. Skip("close") /\ UNCHANGED signalVars
    BY <1>5 DEF Rebalance
  <2>2. TradeInv' /\ EntryInv' /\ CashInv' /\ phase' \in Phases /\ after' \in Resting
    BY <1>1, <1>2, <2>1, SkipInv
  <2>3. SignalInv'
    BY <1>1, <2>1, <2>2, QuietStageInv
  <2> QED
    BY <2>2, <2>3 DEF EngineInv
<1>6. CASE IsRebalanceDay
  <2>1. /\ lastSelected' = selected /\ lastSlots' = slots /\ rebalanced' = ThisMonth
        /\ IF strategy.lag > 0
           THEN /\ pending' = [selected |-> selected, exposure |-> exposure,
                               slots |-> slots, due |-> day + strategy.lag]
                /\ Skip("close") /\ UNCHANGED applied
           ELSE /\ Pursue(EqualWeight(selected, exposure, slots), "close")
                /\ applied' = exposure /\ UNCHANGED pending
    BY <1>6 DEF Rebalance
  <2>2. best \in Seq(Codes)
    <3>1. ranked \in Seq(Codes)
      BY RankedAre
    <3>2. strategy.topN \in Nat
      BY <1>2, StrategyIs
    <3> HIDE DEF ranked
    <3>3. Len(ranked) \in Nat
      BY <3>1
    <3>4. n \in Nat /\ n <= Len(ranked)
      <4> DEFINE D == {strategy.topN, Len(ranked)}
      <4>1. D \subseteq Nat /\ D # {} /\ Len(ranked) \in D
        BY <3>2, <3>3
      <4> HIDE DEF D
      <4>2. Min(D) \in D /\ Min(D) <= Len(ranked)
        BY <4>1, LeastIsMin
      <4> QED
        BY <4>1, <4>2 DEF D
    <3> HIDE DEF n
    <3>5. \A i \in 1..n : ranked[i] \in Codes
      BY <3>1, <3>3, <3>4
    <3> QED
      BY <3>4, <3>5, SubSeqProperties
  <2>3. selected \in Seq(Codes) /\ slots \in Nat /\ Slotted(selected, slots)
    <3>1. keep \in SUBSET (DOMAIN best)
      OBVIOUS
    <3> HIDE DEF best, keep
    <3>2. Chosen(best, keep) \in Seq(Codes) /\ Slotted(best, Len(best)) /\ Slotted(Chosen(best, keep), Len(best))
      BY <2>2, <3>1, SlotsAreEnough
    <3> QED
      BY <2>2, <3>2
  <2>4. exposure \in 0..100
    <3>1. phase # "open"
      BY <1>1 DEF Stage
    <3> QED
      BY <3>1, ExposureIs
  <2>5. ThisMonth \in Nat /\ day + strategy.lag \in Nat
    <3>1. day \in 1..Len(Calendar) /\ Calendar \in Seq(Nat \ {0})
      BY EngineAssumption DEF EngineInv, SignalInv, Days
    <3>2. strategy.lag \in Nat
      BY <1>2, StrategyIs
    <3> QED
      BY <3>1, <3>2 DEF ThisMonth
  <2> HIDE DEF selected, exposure, slots
  <2>6. CASE strategy.lag > 0
    <3>1. /\ pending' = [selected |-> selected, exposure |-> exposure,
                         slots |-> slots, due |-> day + strategy.lag]
          /\ Skip("close") /\ applied' = applied
      BY <2>1, <2>6
    <3>2. pending' \in [selected : Seq(Codes), exposure : 0..100, slots : Nat, due : Nat]
          /\ pending'.selected = selected /\ pending'.slots = slots
      BY <2>3, <2>4, <2>5, <3>1
    <3>3. TradeInv' /\ EntryInv' /\ CashInv' /\ phase' \in Phases /\ after' \in Resting
      BY <1>1, <1>2, <3>1, SkipInv
    <3>4. SignalInv'
      BY <1>1, <1>3, <2>1, <2>3, <2>5, <3>1, <3>2, <3>3, StageInv
    <3> QED
      BY <3>3, <3>4 DEF EngineInv
  <2>7. CASE ~(strategy.lag > 0)
    <3>1. /\ Pursue(EqualWeight(selected, exposure, slots), "close")
          /\ applied' = exposure /\ pending' = pending
      BY <2>1, <2>7
    <3>2. TradeInv' /\ EntryInv' /\ CashInv' /\ phase' \in Phases /\ after' \in Resting
      <4> DEFINE target == EqualWeight(selected, exposure, slots)
      <4>1. target \in [Codes -> Nat]
        BY <1>2, <2>3, <2>4, EqualWeightFits
      <4>2. Lean => cash + SumOf(FlowTo(target), Codes) >= 0
        BY <1>2, <2>3, <2>4, LeanHasCash, EqualWeightIsPaid
      <4> HIDE DEF target
      <4> QED
        BY <1>1, <1>2, <3>1, <4>1, <4>2, PursueInv DEF target
    <3>3. SignalInv'
      BY <1>1, <1>3, <2>1, <2>3, <2>4, <2>5, <3>1, <3>2, StageInv
    <3> QED
      BY <3>2, <3>3 DEF EngineInv
  <2> QED
    BY <2>6, <2>7
<1> QED
  BY <1>4, <1>5, <1>6

LEMMA CloseDayInv ==
    ASSUME EngineInv, CloseDay
    PROVE  EngineInv'
<1>1. /\ phase = "close" /\ phase' \in {"open", "finished"}
      /\ UNCHANGED <<strategy, after, price, plan, fills, recent, bookVars, signalVars>>
  BY DEF CloseDay
<1>2. day' \in Days
  <2>1. day \in 1..Len(Calendar) /\ Len(Calendar) \in Nat
    BY EngineAssumption DEF EngineInv, SignalInv, Days
  <2>2. day' = day \/ (day # Len(Calendar) /\ day' = day + 1)
    BY DEF CloseDay
  <2> QED
    BY <2>1, <2>2 DEF Days
<1>3. /\ plan' = plan /\ fills' = fills /\ strategy' = strategy /\ cash' = cash
      /\ positions' = positions /\ entry' = entry /\ tax' = tax /\ paid' = paid
      /\ plan = {} /\ fills = {} /\ price' = price /\ after' = after /\ recent' = recent
      /\ pending' = pending /\ applied' = applied /\ lastSelected' = lastSelected
      /\ lastSlots' = lastSlots /\ rebalanced' = rebalanced
  BY <1>1 DEF bookVars, signalVars, EngineInv, TradeInv
<1>4. TradeInv'
  BY <1>1, <1>3 DEF EngineInv, TradeInv
<1>5. EntryInv'
  <2>1. \A c \in Codes : EntryFits(c, positions[c])
    BY <1>3 DEF EngineInv, EntryInv
  <2>2. \A c \in Codes : EntryFits(c, positions[c])'
    BY <1>3, <2>1 DEF EntryFits
  <2> QED
    BY <1>3, <2>2 DEF EngineInv, EntryInv, EntryFits
<1>6. CashInv'
  BY <1>1, <1>3 DEF EngineInv, CashInv
<1>7. SignalInv'
  BY <1>1, <1>2, <1>3 DEF EngineInv, SignalInv, Phases
<1> QED
  BY <1>4, <1>5, <1>6, <1>7 DEF EngineInv

LEMMA TradeCosts ==
    ASSUME Priced, NEW t \in Trades
    PROVE  Cost(t) \in Nat /\ Proceeds(t) \in Nat /\ FlowOf(t) \in Int
           /\ (t.side = "BUY" => FlowOf(t) = -Cost(t)) /\ (t.side = "SELL" => FlowOf(t) = Proceeds(t))
<1>1. t.code \in Codes /\ t.qty \in Nat
  BY DEF Trades
<1>2. price[t.code] \in Nat /\ strategy \in Strategies
  BY <1>1 DEF Priced
<1>3. Unit + strategy.buyCost \in Nat /\ Unit - strategy.sellCost \in Nat
  <2>1. strategy.sellCost \in 0..Unit /\ strategy.buyCost \in Nat
    BY <1>2, StrategyIs
  <2>2. Unit \in Nat /\ \A m \in Nat : \A n \in 0..m : m - n \in Nat
    BY DEF Unit
  <2> QED
    BY ONLY <2>1, <2>2
<1>4. \A a, b, c \in Nat : a * b * c \in Nat
  OBVIOUS
<1>5. Cost(t) \in Nat /\ Proceeds(t) \in Nat
  BY <1>1, <1>2, <1>3, <1>4 DEF Cost, Proceeds
<1> QED
  BY <1>5 DEF FlowOf

LEMMA FlowsIn ==
    ASSUME Priced, NEW P \in SUBSET Trades, \A t, u \in P : t.code = u.code => t = u
    PROVE  /\ \A c \in Codes : FlowIn(P)[c] \in Int
           /\ \A t \in P : FlowIn(P)[t.code] = FlowOf(t)
           /\ \A c \in Codes : (\A t \in P : t.code # c) => FlowIn(P)[c] = 0
           /\ \A c \in Codes : (\A t \in P : t.side = "BUY") => FlowIn(P)[c] <= 0
<1>1. ASSUME NEW t \in P PROVE FlowIn(P)[t.code] = FlowOf(t) /\ t.code \in Codes
  <2>1. t.code \in Codes
    BY DEF Trades
  <2>2. (CHOOSE u \in P : u.code = t.code) = t
    BY Zenon
  <2> QED
    BY <2>1, <2>2 DEF FlowIn
<1>2. ASSUME NEW c \in Codes, \A t \in P : t.code # c PROVE FlowIn(P)[c] = 0
  BY <1>2 DEF FlowIn
<1>3. ASSUME NEW c \in Codes
      PROVE  FlowIn(P)[c] \in Int /\ ((\A t \in P : t.side = "BUY") => FlowIn(P)[c] <= 0)
  <2>1. CASE \A t \in P : t.code # c
    BY <1>2, <2>1
  <2>2. CASE \E t \in P : t.code = c
    <3>1. PICK t \in P : t.code = c
      BY <2>2
    <3>2. FlowIn(P)[c] = FlowOf(t) /\ t \in Trades
      BY <1>1, <3>1
    <3>3. FlowOf(t) \in Int /\ (t.side = "BUY" => FlowOf(t) = -Cost(t) /\ Cost(t) \in Nat)
      BY <3>2, TradeCosts
    <3> QED
      BY <3>2, <3>3
  <2> QED
    BY <2>1, <2>2
<1> QED
  BY <1>1, <1>2, <1>3

\* Purchases are paid for by what the plan leaves of the cash.
LEMMA BuyIsFunded ==
    ASSUME EngineInv, phase = "trading", Lean, NEW t \in plan, \A u \in plan : Precedes(t, u)
    PROVE  Affordable(t)
<1>1. Priced /\ plan \in SUBSET Trades /\ (\A u, v \in plan : u.code = v.code => u = v) /\ cash \in Int
      /\ cash + SumOf(FlowIn(plan), Codes) >= 0 /\ t \in Trades
  BY PricedHolds DEF EngineInv, TradeInv, CashInv
<1>2. SUFFICES ASSUME t.side = "BUY" PROVE cash >= Cost(t)
  BY <1>1 DEF Affordable, Trades
<1>3. \A u \in plan : u.side = "BUY"
  BY <1>2 DEF Precedes
<1> DEFINE f == FlowIn(plan)
<1>4. /\ \A c \in Codes : f[c] \in Int /\ f[c] <= 0
      /\ f[t.code] = FlowOf(t) /\ t.code \in Codes
  BY <1>1, <1>3, FlowsIn DEF Trades
<1>5. FlowOf(t) = -Cost(t) /\ Cost(t) \in Nat
  BY <1>1, <1>2, TradeCosts
<1> HIDE DEF f
<1>6. SumOf(f, Codes) = f[t.code] + SumOf(f, Codes \ {t.code})
  BY <1>4, FewCodes, SumTakes
<1>7. SumOf(f, Codes \ {t.code}) <= 0 /\ SumOf(f, Codes \ {t.code}) \in Int
  <2> DEFINE R == Codes \ {t.code}
  <2>1. IsFiniteSet(R) /\ \A c \in R : f[c] \in Int /\ f[c] <= 0
    BY <1>4, FewCodes, FS_RemoveElement
  <2> HIDE DEF R
  <2>2. SumOf(f, R) <= 0 * Cardinality(R) /\ SumOf(f, R) \in Int /\ Cardinality(R) \in Nat
    BY <2>1, SumBounded, SumIsInt, FS_CardinalityType
  <2>3. SumOf(f, R) <= 0 /\ SumOf(f, R) \in Int
    BY <2>2
  <2> QED
    BY <2>3 DEF R
<1>8. cash + SumOf(f, Codes) >= 0
  BY <1>1 DEF f
<1> QED
  BY <1>1, <1>4, <1>5, <1>6, <1>7, <1>8

LEMMA ApplyTradeInv ==
    ASSUME EngineInv, NEW t \in plan, ApplyTrade(t)
    PROVE  EngineInv'
<1>1. /\ phase = "trading" /\ phase' = "trading" /\ plan' = plan \ {t}
      /\ strategy' = strategy /\ day' = day /\ after' = after /\ price' = price /\ entry' = entry
      /\ tax' = tax /\ paid' = paid /\ recent' = recent /\ pending' = pending /\ applied' = applied
      /\ lastSelected' = lastSelected /\ lastSlots' = lastSlots /\ rebalanced' = rebalanced
      /\ \A u \in plan : Precedes(t, u)
  BY DEF ApplyTrade, signalVars
<1>2. /\ Priced /\ positions \in [Codes -> Nat] /\ cash \in Int
      /\ plan \in SUBSET Trades /\ IsFiniteSet(plan) /\ fills \in SUBSET Trades /\ IsFiniteSet(fills)
      /\ \A u \in plan \cup fills : u.qty # 0 /\ price[u.code] # 0
      /\ \A u, v \in plan \cup fills : u.code = v.code => u = v
      /\ plan \cap fills = {}
      /\ \A u \in plan : u.side = "SELL" => u.qty <= positions[u.code]
      /\ \A u \in fills : u.side = "BUY" => u.qty <= positions[u.code]
  BY PricedHolds DEF EngineInv, TradeInv, CashInv
<1>3. /\ t.code \in Codes /\ t.side \in {"SELL", "BUY"} /\ t.qty \in Nat /\ positions[t.code] \in Nat
      /\ t \in Trades
  BY <1>2 DEF Trades
<1>4. Cost(t) \in Nat /\ Proceeds(t) \in Nat /\ FlowOf(t) \in Int
      /\ (t.side = "BUY" => FlowOf(t) = -Cost(t)) /\ (t.side = "SELL" => FlowOf(t) = Proceeds(t))
  BY <1>2, <1>3, TradeCosts
<1>5. SignalInv'
  BY <1>1 DEF EngineInv, SignalInv
<1> DEFINE n == IF t.side = "BUY" THEN positions[t.code] + t.qty ELSE positions[t.code] - t.qty
<1>6. ASSUME Affordable(t)
      PROVE  /\ fills' = fills \cup {t} /\ cash' = cash + FlowOf(t)
             /\ positions' = [positions EXCEPT ![t.code] = n] /\ n \in Nat
  <2>1. CASE t.side = "BUY"
    <3>1. /\ fills' = fills \cup {t} /\ cash' = cash - Cost(t)
          /\ positions' = [positions EXCEPT ![t.code] = @ + t.qty]
      BY <1>6, <2>1 DEF ApplyTrade
    <3> QED
      BY <1>2, <1>3, <1>4, <2>1, <3>1
  <2>2. CASE t.side = "SELL"
    <3>1. /\ fills' = fills \cup {t} /\ cash' = cash + Proceeds(t)
          /\ positions' = [positions EXCEPT ![t.code] = @ - t.qty]
      BY <1>6, <2>2 DEF ApplyTrade
    <3>2. t.qty <= positions[t.code]
      BY <1>2, <2>2
    <3> QED
      BY <1>2, <1>3, <1>4, <2>2, <3>1, <3>2
  <2> QED
    BY <1>3, <2>1, <2>2
<1>7. ASSUME ~Affordable(t)
      PROVE  /\ fills' = fills /\ cash' = cash /\ positions' = positions
  BY <1>7 DEF ApplyTrade
<1> HIDE DEF n
<1>8. TradeInv'
  <2>1. IsFiniteSet(plan')
    BY <1>1, <1>2, FS_RemoveElement
  <2>2. CASE Affordable(t)
    <3>1. IsFiniteSet(fills')
      BY <1>2, <1>6, <2>2, FS_AddElement
    <3>2. positions' \in [Codes -> Nat] /\ positions'[t.code] = n
          /\ \A c \in Codes \ {t.code} : positions'[c] = positions[c]
      BY <1>2, <1>3, <1>6, <2>2
    <3>3. \A u \in plan' : u.code # t.code /\ u.code \in Codes
      BY <1>1, <1>2 DEF Trades
    <3>4. \A u \in fills : u.code # t.code /\ u.code \in Codes
      BY <1>2 DEF Trades
    <3>5. \A u \in plan' : u.side = "SELL" => u.qty <= positions'[u.code]
      BY <1>1, <1>2, <3>2, <3>3
    <3>6. \A u \in fills' : u.side = "BUY" => u.qty <= positions'[u.code]
      <4>1. \A u \in fills : u.side = "BUY" => u.qty <= positions'[u.code]
        BY <1>2, <3>2, <3>4
      <4>2. t.side = "BUY" => t.qty <= positions'[t.code]
        BY <1>3, <3>2 DEF n
      <4> QED
        BY <1>6, <2>2, <4>1, <4>2
    <3>7. plan' \in SUBSET Trades /\ fills' \in SUBSET Trades /\ plan' \cap fills' = {}
          /\ plan' \cup fills' = plan \cup fills
      BY <1>1, <1>2, <1>3, <1>6, <2>2
    <3> QED
      BY <1>1, <1>2, <2>1, <3>1, <3>2, <3>5, <3>6, <3>7 DEF TradeInv
  <2>3. CASE ~Affordable(t)
    BY <1>1, <1>2, <1>7, <2>1, <2>3 DEF TradeInv
  <2> QED
    BY <2>2, <2>3
<1>9. EntryInv'
  <2>0. /\ entry \in [Codes -> Nat \X Nat] /\ paid \in [Codes -> SUBSET Nat]
        /\ \A c \in Codes : (\A u \in fills : u.code # c) => EntryFits(c, positions[c])
        /\ \A u \in fills : IF u.side = "BUY" THEN EntryFits(u.code, positions[u.code] - u.qty)
                            ELSE EntryFits(u.code, positions[u.code] + u.qty)
    BY DEF EngineInv, EntryInv
  <2>1. \A c, b : EntryFits(c, b)' = EntryFits(c, b)
    BY <1>1 DEF EntryFits
  <2>2. CASE Affordable(t)
    <3>1. positions'[t.code] = n /\ \A c \in Codes \ {t.code} : positions'[c] = positions[c]
      BY <1>2, <1>3, <1>6, <2>2
    <3>2. \A u \in fills : u.code # t.code /\ u.code \in Codes
      BY <1>2 DEF Trades
    <3>3. \A c \in Codes : (\A u \in fills' : u.code # c) => EntryFits(c, positions'[c])
      BY <1>6, <2>0, <2>2, <3>1
    <3>4. EntryFits(t.code, positions[t.code])
      BY <1>3, <2>0, <3>2
    <3>5. IF t.side = "BUY" THEN EntryFits(t.code, positions'[t.code] - t.qty)
          ELSE EntryFits(t.code, positions'[t.code] + t.qty)
      <4>1. CASE t.side = "BUY"
        <5>1. positions'[t.code] - t.qty = positions[t.code]
          BY <1>3, <3>1, <4>1 DEF n
        <5> QED
          BY <3>4, <4>1, <5>1
      <4>2. CASE t.side # "BUY"
        <5>1. positions'[t.code] + t.qty = positions[t.code]
          BY <1>3, <3>1, <4>2 DEF n
        <5> QED
          BY <3>4, <4>2, <5>1
      <4> QED
        BY <4>1, <4>2
    <3>6. \A u \in fills : IF u.side = "BUY" THEN EntryFits(u.code, positions'[u.code] - u.qty)
                           ELSE EntryFits(u.code, positions'[u.code] + u.qty)
      BY <2>0, <3>1, <3>2
    <3>7. \A u \in fills' : IF u.side = "BUY" THEN EntryFits(u.code, positions'[u.code] - u.qty)
                            ELSE EntryFits(u.code, positions'[u.code] + u.qty)
      BY <1>6, <2>2, <3>5, <3>6
    <3>8. \A c \in Codes : (\A u \in fills' : u.code # c) => EntryFits(c, positions[c])'
      BY <1>1, <3>3 DEF EntryFits
    <3>9. \A u \in fills' : IF u.side = "BUY" THEN EntryFits(u.code, positions[u.code] - u.qty)'
                            ELSE EntryFits(u.code, positions[u.code] + u.qty)'
      BY <1>1, <3>7 DEF EntryFits
    <3> QED
      BY <1>1, <2>0, <3>8, <3>9 DEF EntryInv
  <2>3. CASE ~Affordable(t)
    BY <1>1, <1>7, <2>0, <2>3 DEF EntryInv, EntryFits
  <2> QED
    BY <2>2, <2>3
<1>10. CashInv'
  <2>1. cash' \in Int
    BY <1>2, <1>4, <1>6, <1>7
  <2>2. ASSUME strategy.tax = "none" PROVE cash' >= 0
    <3>1. cash >= 0
      BY <2>2 DEF EngineInv, CashInv
    <3>2. CASE Affordable(t)
      <4>1. t.side = "SELL" \/ cash >= Cost(t)
        BY <3>2 DEF Affordable
      <4> QED
        BY <1>2, <1>3, <1>4, <1>6, <3>1, <3>2, <4>1
    <3> QED
      BY <1>7, <3>1, <3>2
  <2>3. ASSUME Lean PROVE cash' + SumOf(FlowIn(plan'), Codes) >= 0
    <3>1. Affordable(t)
      BY <1>1, <2>3, BuyIsFunded
    <3> DEFINE g == FlowIn(plan)
               h == FlowIn(plan')
    <3>2. /\ \A c \in Codes : g[c] \in Int
          /\ \A u \in plan : g[u.code] = FlowOf(u)
          /\ \A c \in Codes : (\A u \in plan : u.code # c) => g[c] = 0
      BY <1>2, FlowsIn
    <3>3. plan' \in SUBSET Trades /\ \A u, v \in plan' : u.code = v.code => u = v
      BY <1>1, <1>2
    <3>4. /\ \A c \in Codes : h[c] \in Int
          /\ \A u \in plan' : h[u.code] = FlowOf(u)
          /\ \A c \in Codes : (\A u \in plan' : u.code # c) => h[c] = 0
      BY <1>2, <3>3, FlowsIn
    <3>5. g[t.code] = FlowOf(t) /\ h[t.code] = 0
      <4>1. \A u \in plan' : u.code # t.code
        BY <1>1, <1>2
      <4> HIDE DEF g, h
      <4> QED
        BY <1>3, <3>2, <3>4, <4>1
    <3>6. \A c \in Codes \ {t.code} : g[c] = h[c]
      <4> TAKE c \in Codes \ {t.code}
      <4>1. CASE \E u \in plan' : u.code = c
        <5>1. PICK u \in plan' : u.code = c
          BY <4>1
        <5>2. u \in plan
          BY <1>1
        <5> HIDE DEF g, h
        <5> QED
          BY <3>2, <3>4, <5>1, <5>2
      <4>2. CASE ~\E u \in plan' : u.code = c
        <5>1. \A u \in plan : u.code # c
          BY <1>1, <4>2
        <5> HIDE DEF g, h
        <5> QED
          BY <3>2, <3>4, <4>2, <5>1
      <4> QED
        BY <4>1, <4>2
    <3> HIDE DEF g, h
    <3>7. SumOf(h, Codes) = SumOf(g, Codes) + h[t.code] - g[t.code]
      <4>1. \A c \in Codes : g[c] \in Int /\ h[c] \in Int
        BY <3>2, <3>4
      <4>2. t.code \in Codes /\ IsFiniteSet(Codes)
        BY <1>3, FewCodes
      <4> QED
        BY ONLY <3>6, <4>1, <4>2, SumMoves
    <3>8. SumOf(g, Codes) \in Int /\ cash + SumOf(g, Codes) >= 0
      <4>1. SumOf(g, Codes) \in Int
        BY <3>2, FewCodes, SumIsInt
      <4> QED
        BY <1>1, <2>3, <4>1 DEF g, EngineInv, CashInv
    <3>9. cash' + SumOf(h, Codes) >= 0
      BY <1>2, <1>4, <1>6, <3>1, <3>5, <3>7, <3>8
    <3> QED
      BY <3>9 DEF h
  <2>4. Lean' = Lean /\ FlowIn(plan)' = FlowIn(plan')
    BY <1>1 DEF Lean, FlowIn, FlowOf, Cost, Proceeds
  <2>5. Lean' => cash' + SumOf(FlowIn(plan)', Codes) >= 0
    BY <2>3, <2>4
  <2> QED
    BY <1>1, <2>1, <2>2, <2>5 DEF EngineInv, CashInv
<1> QED
  BY <1>5, <1>8, <1>9, <1>10 DEF EngineInv

\* Reducing a fraction changes nothing of what it lies between.
LEMMA ReducedFits ==
    ASSUME NEW a \in Nat, NEW b \in Nat \ {0}
    PROVE  /\ Reduced(<<a, b>>) \in Fraction
           /\ \A m \in Nat : /\ m * b <= a => m * Reduced(<<a, b>>)[2] <= Reduced(<<a, b>>)[1]
                             /\ m * b >= a => m * Reduced(<<a, b>>)[2] >= Reduced(<<a, b>>)[1]
<1> DEFINE D == {k \in 1..b : a % k = 0 /\ b % k = 0}
           d == Max(D)
           x == a \div d
           y == b \div d
<1>1. Reduced(<<a, b>>) = <<x, y>>
  BY DEF Reduced
<1>2. d \in 1..b /\ a % d = 0 /\ b % d = 0
  <2>1. D \subseteq 0..b /\ 1 \in D
    <3>1. a % 1 = 0 /\ b % 1 = 0 /\ 1 \in 1..b
      OBVIOUS
    <3>2. D \subseteq 0..b
      OBVIOUS
    <3> QED
      BY <3>1, <3>2
  <2>2. d \in D
    <3> HIDE DEF D
    <3> QED
      BY <2>1, GreatestIsMax
  <2> HIDE DEF d
  <2> QED
    BY <2>2
<1> HIDE DEF D, d
<1>3. d \in Nat /\ d > 0
  BY <1>2
<1>4. \A n \in Nat : n % d = 0 => n \div d \in Nat /\ n = d * (n \div d)
  BY <1>3
<1>5. x \in Nat /\ y \in Nat /\ a = d * x /\ b = d * y
  BY <1>2, <1>4
<1> HIDE DEF x, y
<1>6. y # 0
  <2>1. d * 0 = 0
    BY <1>3
  <2> QED
    BY <1>5, <2>1
<1>7. ASSUME NEW m \in Nat PROVE (m * b <= a => m * y <= x) /\ (m * b >= a => m * y >= x)
  <2> DEFINE z == m * y
  <2>1. z \in Nat /\ m * b = d * z
    <3>1. m * (d * y) = d * (m * y)
      BY <1>3, <1>5
    <3> QED
      BY <1>5, <3>1
  <2> HIDE DEF z
  <2>2. \A u, v \in Nat : u > v => d * u > d * v
    BY <1>3
  <2>3. d * z \in Nat /\ d * x \in Nat
    BY <1>3, <1>5, <2>1
  <2>4. (m * b <= a => z <= x) /\ (m * b >= a => z >= x)
    BY <1>5, <2>1, <2>2, <2>3
  <2> QED
    BY <2>4 DEF z
<1>8. Reduced(<<a, b>>)[1] = x /\ Reduced(<<a, b>>)[2] = y
  BY <1>1
<1>9. <<x, y>> \in Fraction
  BY <1>5, <1>6 DEF Fraction
<1> QED
  BY <1>1, <1>7, <1>8, <1>9

\* Blending a price in, a fraction stays between prices paid.
LEMMA BlendingFits ==
    ASSUME NEW e1 \in Nat, NEW e2 \in Nat \ {0}, NEW n \in Nat, NEW q \in Nat \ {0}, NEW P \in Nat,
           NEW p \in Nat
    PROVE  /\ n * e1 + q * P * e2 \in Nat /\ e2 * (n + q) \in Nat \ {0}
           /\ p * e2 <= e1 => \E m \in {p, P} : m * (e2 * (n + q)) <= n * e1 + q * P * e2
           /\ p * e2 >= e1 => \E m \in {p, P} : m * (e2 * (n + q)) >= n * e1 + q * P * e2
<1>1. n * e1 \in Nat /\ q * P * e2 \in Nat /\ e2 * n \in Nat /\ e2 * q \in Nat /\ p * e2 \in Nat
      /\ P * e2 \in Nat /\ q * e2 \in Nat
  OBVIOUS
<1>2. e2 * (n + q) = e2 * n + e2 * q
  OBVIOUS
<1>3. e2 * q # 0
  OBVIOUS
<1>4. e2 * (n + q) \in Nat \ {0}
  BY <1>1, <1>2, <1>3
<1>5. \A m \in Nat : m * (e2 * (n + q)) = n * (m * e2) + q * (m * e2)
  OBVIOUS
<1>6. q * P * e2 = q * (P * e2)
  OBVIOUS
<1>7. \A x, y \in Nat : x <= y => n * x <= n * y /\ q * x <= q * y
  OBVIOUS
<1>8. \A x \in Nat : n * x \in Nat /\ q * x \in Nat
  OBVIOUS
<1>9. \A x, y \in Nat : x <= y => x * e2 <= y * e2
  OBVIOUS
<1>10. \A m \in Nat : m * e2 \in Nat
  OBVIOUS
<1>11. ASSUME p * e2 <= e1
       PROVE  \E m \in {p, P} : m * (e2 * (n + q)) <= n * e1 + q * P * e2
  <2>1. CASE p <= P
    <3>1. p * e2 <= P * e2
      BY <1>9, <2>1
    <3>2. n * (p * e2) <= n * e1 /\ q * (p * e2) <= q * (P * e2)
      BY <1>1, <1>7, <1>11, <3>1
    <3>3. n * (p * e2) + q * (p * e2) <= n * e1 + q * (P * e2)
      <4>1. n * (p * e2) \in Nat /\ n * e1 \in Nat /\ q * (p * e2) \in Nat /\ q * (P * e2) \in Nat
        BY <1>1, <1>8
      <4> QED
        BY ONLY <3>2, <4>1
    <3> QED
      BY <1>5, <1>6, <3>3
  <2>2. CASE P <= p
    <3>1. P * e2 <= e1
      <4>1. P * e2 <= p * e2
        BY <1>9, <2>2
      <4> QED
        BY <1>1, <1>11, <4>1
    <3>2. n * (P * e2) <= n * e1
      BY <1>1, <1>7, <3>1
    <3>3. n * (P * e2) + q * (P * e2) <= n * e1 + q * (P * e2)
      <4>1. n * (P * e2) \in Nat /\ n * e1 \in Nat /\ q * (P * e2) \in Nat
        BY <1>1, <1>8
      <4> QED
        BY ONLY <3>2, <4>1
    <3> QED
      BY <1>5, <1>6, <3>3
  <2> QED
    BY <2>1, <2>2
<1>12. ASSUME p * e2 >= e1
       PROVE  \E m \in {p, P} : m * (e2 * (n + q)) >= n * e1 + q * P * e2
  <2>1. CASE P <= p
    <3>1. P * e2 <= p * e2
      BY <1>9, <2>1
    <3>2. n * e1 <= n * (p * e2) /\ q * (P * e2) <= q * (p * e2)
      BY <1>1, <1>7, <1>12, <3>1
    <3>3. n * (p * e2) + q * (p * e2) >= n * e1 + q * (P * e2)
      <4>1. n * (p * e2) \in Nat /\ n * e1 \in Nat /\ q * (p * e2) \in Nat /\ q * (P * e2) \in Nat
        BY <1>1, <1>8
      <4> QED
        BY ONLY <3>2, <4>1
    <3> QED
      BY <1>5, <1>6, <3>3
  <2>2. CASE p <= P
    <3>1. e1 <= P * e2
      <4>1. p * e2 <= P * e2
        BY <1>9, <2>2
      <4> QED
        BY <1>1, <1>12, <4>1
    <3>2. n * e1 <= n * (P * e2)
      BY <1>1, <1>7, <3>1
    <3>3. n * (P * e2) + q * (P * e2) >= n * e1 + q * (P * e2)
      <4>1. n * (P * e2) \in Nat /\ n * e1 \in Nat /\ q * (P * e2) \in Nat
        BY <1>1, <1>8
      <4> QED
        BY ONLY <3>2, <4>1
    <3> QED
      BY <1>5, <1>6, <3>3
  <2> QED
    BY <2>1, <2>2
<1> QED
  BY <1>1, <1>4, <1>11, <1>12

\* Gains and taxes are amounts of money.
LEMMA GainsAre ==
    ASSUME EngineInv, NEW t \in fills, t.side = "SELL"
    PROVE  GainOf(t) \in Int
<1>1. /\ t.code \in Codes /\ t.qty \in Nat /\ t.qty # 0 /\ positions[t.code] \in Nat
      /\ price[t.code] \in Nat
  BY DEF EngineInv, TradeInv, SignalInv, Trades
<1>2. EntryFits(t.code, positions[t.code] + t.qty)
  <2>1. "SELL" # "BUY"
    OBVIOUS
  <2> QED
    BY <2>1 DEF EngineInv, EntryInv
<1>3. positions[t.code] + t.qty # 0
  BY <1>1
<1>4. entry[t.code] \in Fraction
  BY <1>2, <1>3 DEF EntryFits
<1> DEFINE a == entry[t.code][1]
           b == entry[t.code][2]
<1>5. a \in Nat /\ b \in Nat \ {0}
  BY <1>4 DEF Fraction
<1>6. GainOf(t) = IF entry[t.code] = NoEntry THEN 0
                  ELSE ((price[t.code] * b - a) * t.qty * Unit) \div b
  BY DEF GainOf
<1> HIDE DEF a, b
<1>7. price[t.code] * b - a \in Int /\ Unit \in Nat
  BY <1>1, <1>5 DEF Unit
<1>8. \A x \in Int : \A m, n \in Nat : x * m * n \in Int
  OBVIOUS
<1>9. \A x \in Int : \A n \in Nat \ {0} : x \div n \in Int
  OBVIOUS
<1>10. ((price[t.code] * b - a) * t.qty * Unit) \div b \in Int
  BY <1>1, <1>5, <1>7, <1>8, <1>9
<1> QED
  BY <1>6, <1>10

LEMMA RatesAre ==
    ASSUME NEW r \in Nat, NEW x \in Int
    PROVE  (r * Positive(x)) \div 100 \in Int
<1>1. Positive(x) \in Nat
  BY DEF Positive
<1>2. r * Positive(x) \in Nat
  BY <1>1
<1> QED
  BY <1>2

LEMMA GainsSum ==
    ASSUME EngineInv, NEW sales, sales \subseteq fills, \A t \in sales : t.side = "SELL"
    PROVE  MapThenSumSet(GainOf, sales) \in Int
<1> DEFINE g == [t \in sales |-> GainOf(t)]
           Body(u) == u = [s \in SUBSET sales |-> IF s = {} THEN 0
                             ELSE GainOf(CHOOSE x \in s : TRUE) + u[s \ {CHOOSE x \in s : TRUE}]]
<1>0. IsFiniteSet(sales)
  BY FS_Subset DEF EngineInv, TradeInv
<1>1. \A u : IsTable(u, g, sales) <=> Body(u)
  <2> TAKE u
  <2>1. \A s \in SUBSET sales : s # {} => Some(s) \in sales
    BY SomeIsIn
  <2>2. \A s \in SUBSET sales : s # {} => g[Some(s)] = GainOf(Some(s))
    BY <2>1
  <2>3. [s \in SUBSET sales |-> IF s = {} THEN 0 ELSE g[Some(s)] + u[s \ {Some(s)}]]
      = [s \in SUBSET sales |-> IF s = {} THEN 0 ELSE GainOf(Some(s)) + u[s \ {Some(s)}]]
    <3> HIDE DEF g
    <3> QED
      BY <2>2
  <2> QED
    BY <2>3, Zenon DEF IsTable, Some
<1>2. IsTable(CHOOSE u : Body(u), g, sales)
  <2> HIDE DEF Body, g
  <2> QED
    BY <1>0, <1>1, TableExists
<1>3. MapThenSumSet(GainOf, sales) = (CHOOSE u : Body(u))[sales]
  BY DEF MapThenSumSet, MapThenFoldSet
<1>4. SumOf(g, sales) = (CHOOSE u : Body(u))[sales]
  <2> HIDE DEF Body, g
  <2> QED
    BY <1>0, <1>2, SumIsTables
<1>5. \A t \in sales : g[t] \in Int
  BY GainsAre
<1>6. SumOf(g, sales) \in Int
  <2> HIDE DEF g
  <2> QED
    BY <1>0, <1>5, SumIsInt
<1> QED
  BY <1>3, <1>4, <1>6

LEMMA WithheldSum ==
    ASSUME EngineInv, NEW sales, sales \subseteq fills, \A t \in sales : t.side = "SELL"
    PROVE  MapThenSumSet(LAMBDA t : (strategy.rate * Positive(GainOf(t))) \div 100, sales) \in Int
<1> DEFINE Rate(t) == (strategy.rate * Positive(GainOf(t))) \div 100
           g == [t \in sales |-> Rate(t)]
           Body(u) == u = [s \in SUBSET sales |-> IF s = {} THEN 0
                             ELSE Rate(CHOOSE x \in s : TRUE) + u[s \ {CHOOSE x \in s : TRUE}]]
<1>0. IsFiniteSet(sales)
  BY FS_Subset DEF EngineInv, TradeInv
<1>1. \A u : IsTable(u, g, sales) <=> Body(u)
  <2> TAKE u
  <2> HIDE DEF Rate
  <2>1. \A s \in SUBSET sales : s # {} => Some(s) \in sales
    BY SomeIsIn
  <2>2. \A s \in SUBSET sales : s # {} => g[Some(s)] = Rate(Some(s))
    BY <2>1
  <2>3. [s \in SUBSET sales |-> IF s = {} THEN 0 ELSE g[Some(s)] + u[s \ {Some(s)}]]
      = [s \in SUBSET sales |-> IF s = {} THEN 0 ELSE Rate(Some(s)) + u[s \ {Some(s)}]]
    <3> HIDE DEF g
    <3> QED
      BY <2>2
  <2> QED
    BY <2>3, Zenon DEF IsTable, Some
<1>2. IsTable(CHOOSE u : Body(u), g, sales)
  <2> HIDE DEF Body, g
  <2> QED
    BY <1>0, <1>1, TableExists
<1>3. MapThenSumSet(LAMBDA t : (strategy.rate * Positive(GainOf(t))) \div 100, sales)
        = (CHOOSE u : Body(u))[sales]
  BY DEF MapThenSumSet, MapThenFoldSet
<1>4. SumOf(g, sales) = (CHOOSE u : Body(u))[sales]
  <2> HIDE DEF Body, g
  <2> QED
    BY <1>0, <1>2, SumIsTables
<1>5. \A t \in sales : g[t] \in Int
  <2> TAKE t \in sales
  <2>1. GainOf(t) \in Int
    BY GainsAre
  <2>2. strategy.rate \in Nat
    BY StrategyIs DEF EngineInv, SignalInv
  <2> QED
    BY <2>1, <2>2, RatesAre
<1>6. SumOf(g, sales) \in Int
  <2> HIDE DEF g
  <2> QED
    BY <1>0, <1>5, SumIsInt
<1> QED
  BY <1>3, <1>4, <1>6

\* A tax is owed in whole amounts, and without a tax model there is none.
LEMMA TaxesAre ==
    ASSUME EngineInv, NEW sales, sales \subseteq fills, \A t \in sales : t.side = "SELL"
    PROVE  /\ GainsTax(sales).state \in [year : Nat, net : Int, charged : Int]
           /\ GainsTax(sales).due \in Int
           /\ strategy.tax = "none" => GainsTax(sales).due = 0
<1> DEFINE taxable == {t \in sales : t.code \in strategy.taxed}
<1>1. /\ strategy.rate \in Nat /\ strategy.exemption \in Nat
      /\ strategy.tax \in {"none", "etf", "annual", "isa"}
      /\ tax \in [year : Nat, net : Int, charged : Int]
  BY StrategyIs DEF EngineInv, SignalInv, CashInv
<1>2. ThisMonth \div 12 \in Nat
  <2>1. ThisMonth \in Nat
    BY EngineAssumption DEF ThisMonth, EngineInv, SignalInv, Days
  <2> QED
    BY <2>1
<1>3. ASSUME NEW some, some \subseteq sales
      PROVE  Netted(some).state \in [year : Nat, net : Int, charged : Int] /\ Netted(some).due \in Int
  <2> DEFINE carried == IF strategy.tax = "annual" /\ tax.year # ThisMonth \div 12
                        THEN [net |-> 0, charged |-> 0]
                        ELSE [net |-> tax.net, charged |-> tax.charged]
             net == carried.net + MapThenSumSet(GainOf, some)
             owed == (strategy.rate * Positive(net - strategy.exemption)) \div 100
  <2>1. Netted(some) = [state |-> [year |-> ThisMonth \div 12, net |-> net, charged |-> owed],
                        due |-> owed - carried.charged]
    BY DEF Netted
  <2>2. carried.net \in Int /\ carried.charged \in Int
    BY <1>1
  <2>3. MapThenSumSet(GainOf, some) \in Int
    BY <1>3, GainsSum
  <2> HIDE DEF carried
  <2>4. net \in Int
    BY <2>2, <2>3
  <2> HIDE DEF net
  <2>5. net - strategy.exemption \in Int
    BY <1>1, <2>4
  <2>6. owed \in Int
    BY <1>1, <2>5, RatesAre
  <2> HIDE DEF owed
  <2> QED
    BY <1>2, <2>1, <2>2, <2>4, <2>6
<1>4. taxable \subseteq sales
  OBVIOUS
<1>5. MapThenSumSet(LAMBDA t : (strategy.rate * Positive(GainOf(t))) \div 100, taxable) \in Int
  BY <1>4, WithheldSum
<1> DEFINE withheld == MapThenSumSet(LAMBDA t : (strategy.rate * Positive(GainOf(t))) \div 100, taxable)
<1>6. GainsTax(sales) =
         CASE strategy.tax = "none" -> [state |-> tax, due |-> 0]
           [] strategy.tax = "etf" -> [state |-> tax, due |-> withheld]
           [] strategy.tax = "annual" /\ sales # {} -> Netted(sales)
           [] strategy.tax = "isa" /\ taxable # {} -> Netted(taxable)
           [] OTHER -> [state |-> tax, due |-> 0]
  BY DEF GainsTax
<1>7. withheld \in Int
  BY <1>5
<1> HIDE DEF withheld, taxable
<1>8. \/ GainsTax(sales) = [state |-> tax, due |-> 0]
      \/ strategy.tax # "none" /\ GainsTax(sales) = [state |-> tax, due |-> withheld]
      \/ strategy.tax # "none" /\ GainsTax(sales) = Netted(sales)
      \/ strategy.tax # "none" /\ GainsTax(sales) = Netted(taxable)
  BY <1>1, <1>6
<1>9. CASE GainsTax(sales) = [state |-> tax, due |-> 0]
  BY <1>1, <1>9
<1>10. CASE strategy.tax # "none" /\ GainsTax(sales) = [state |-> tax, due |-> withheld]
  BY <1>1, <1>7, <1>10
<1>11. CASE strategy.tax # "none" /\ GainsTax(sales) = Netted(sales)
  BY <1>3, <1>11
<1>12. CASE strategy.tax # "none" /\ GainsTax(sales) = Netted(taxable)
  BY <1>3, <1>4, <1>12
<1> QED
  BY <1>8, <1>9, <1>10, <1>11, <1>12

\* What a settlement makes of the entry price and the prices paid.
PaidAfter(c) ==
    IF positions[c] = 0 THEN {}
    ELSE IF \E t \in fills : t.code = c /\ t.side = "BUY"
         THEN (IF \E t \in fills : t.code = c /\ t.qty = positions[c]
               THEN {} ELSE paid[c]) \cup {price[c]}
         ELSE paid[c]
Between(e, prices) == /\ \E p \in prices : p * e[2] <= e[1]
                      /\ \E p \in prices : p * e[2] >= e[1]

LEMMA SettledFits ==
    ASSUME EngineInv, NEW c \in Codes
    PROVE  /\ PaidAfter(c) \subseteq Nat /\ EntryAfter(c) \in Nat \X Nat
           /\ IF positions[c] = 0 THEN EntryAfter(c) = NoEntry /\ PaidAfter(c) = {}
              ELSE EntryAfter(c) \in Fraction /\ Between(EntryAfter(c), PaidAfter(c))
<1>1. /\ positions[c] \in Nat /\ price[c] \in Nat /\ paid[c] \subseteq Nat /\ entry[c] \in Nat \X Nat
      /\ \A t \in fills : t.code \in Codes /\ t.qty \in Nat /\ t.qty # 0 /\ t.side \in {"BUY", "SELL"}
      /\ \A t, u \in fills : t.code = u.code => t = u
      /\ \A t \in fills : t.side = "BUY" => t.qty <= positions[t.code]
  <2>1. fills \in SUBSET Trades
    BY DEF EngineInv, TradeInv
  <2>2. \A t \in fills : t.code \in Codes /\ t.qty \in Nat /\ t.side \in {"BUY", "SELL"}
    BY <2>1 DEF Trades
  <2> QED
    BY <2>2 DEF EngineInv, TradeInv, EntryInv, SignalInv
<1>2. PaidAfter(c) \subseteq Nat
  BY <1>1 DEF PaidAfter
<1>3. Fraction \subseteq Nat \X Nat /\ NoEntry \in Nat \X Nat /\ NoEntry \notin Fraction
  BY DEF Fraction, NoEntry
<1>4. CASE \E t \in fills : t.code = c /\ t.side = "BUY"
  <2>1. PICK t \in fills : t.code = c /\ t.side = "BUY"
    BY <1>4
  <2>2. (CHOOSE u \in fills : u.code = c) = t
    BY <1>1, <2>1
  <2> DEFINE b == positions[c] - t.qty
             q == t.qty
             P == price[c]
  <2>3. /\ b \in Nat /\ q \in Nat \ {0} /\ positions[c] # 0 /\ P \in Nat
        /\ b = 0 <=> t.qty = positions[c]
    BY <1>1, <2>1
  <2>4. EntryFits(c, b)
    BY <2>1 DEF EngineInv, EntryInv
  <2>5. EntryAfter(c) = Blend(entry[c], b, t)
    BY <1>4, <2>2 DEF EntryAfter
  <2>6. PaidAfter(c) = (IF b = 0 THEN {} ELSE paid[c]) \cup {P}
    <3>1. (\E u \in fills : u.code = c /\ u.qty = positions[c]) <=> t.qty = positions[c]
      BY <1>1, <2>1
    <3> QED
      BY <1>4, <2>3, <3>1 DEF PaidAfter
  <2> HIDE DEF b
  <2>7. CASE b = 0
    <3>1. entry[c] = NoEntry
      BY <2>4, <2>7 DEF EntryFits
    <3>2. EntryAfter(c) = <<P, 1>>
      BY <2>1, <2>5, <3>1 DEF Blend
    <3>3. PaidAfter(c) = {P}
      BY <2>6, <2>7
    <3>4. <<P, 1>> \in Fraction /\ P * 1 = P
      BY <2>3 DEF Fraction
    <3>5. Between(<<P, 1>>, {P})
      BY <2>3, <3>4 DEF Between
    <3> QED
      BY <1>2, <1>3, <2>3, <3>2, <3>3, <3>4, <3>5
  <2>8. CASE b # 0
    <3> DEFINE e1 == entry[c][1]
               e2 == entry[c][2]
               x == b * e1 + q * P * e2
               y == e2 * (b + q)
    <3>1. /\ entry[c] \in Fraction
          /\ \E p \in paid[c] : p * e2 <= e1
          /\ \E p \in paid[c] : p * e2 >= e1
      BY <2>4, <2>8 DEF EntryFits
    <3>2. e1 \in Nat /\ e2 \in Nat \ {0} /\ entry[c] # NoEntry
      BY <1>3, <3>1 DEF Fraction
    <3>3. EntryAfter(c) = Reduced(<<x, y>>)
      BY <2>1, <2>5, <3>2 DEF Blend
    <3>4. PaidAfter(c) = paid[c] \cup {P}
      BY <2>6, <2>8
    <3>5. PICK low \in paid[c] : low * e2 <= e1
      BY <3>1
    <3>6. PICK high \in paid[c] : high * e2 >= e1
      BY <3>1
    <3>7. low \in Nat /\ high \in Nat
      BY <1>1, <3>5, <3>6
    <3> HIDE DEF e1, e2
    <3>8. /\ x \in Nat /\ y \in Nat \ {0}
          /\ \E m \in {low, P} : m * y <= x
      BY <2>3, <3>2, <3>5, <3>7, BlendingFits
    <3>9. \E m \in {high, P} : m * y >= x
      BY <2>3, <3>2, <3>6, <3>7, BlendingFits
    <3> HIDE DEF x, y, P
    <3> DEFINE r == Reduced(<<x, y>>)
    <3>10. /\ r \in Fraction
           /\ \A m \in Nat : /\ m * y <= x => m * r[2] <= r[1]
                             /\ m * y >= x => m * r[2] >= r[1]
      BY <3>8, ReducedFits
    <3>11. P \in Nat
      BY <2>3
    <3> HIDE DEF r
    <3>12. \E m \in {low, P} : m * r[2] <= r[1]
      BY <3>7, <3>8, <3>10, <3>11
    <3>13. \E m \in {high, P} : m * r[2] >= r[1]
      BY <3>7, <3>9, <3>10, <3>11
    <3>14. Between(r, PaidAfter(c))
      BY <3>4, <3>5, <3>6, <3>12, <3>13 DEF Between
    <3> QED
      BY <1>2, <1>3, <2>3, <3>3, <3>10, <3>14 DEF r
  <2> QED
    BY <2>7, <2>8
<1>5. CASE ~\E t \in fills : t.code = c /\ t.side = "BUY"
  <2>1. EntryAfter(c) = IF positions[c] = 0 THEN NoEntry ELSE entry[c]
    BY <1>5 DEF EntryAfter
  <2>2. PaidAfter(c) = IF positions[c] = 0 THEN {} ELSE paid[c]
    BY <1>5 DEF PaidAfter
  <2>3. CASE positions[c] = 0
    BY <1>2, <1>3, <2>1, <2>2, <2>3
  <2>4. CASE positions[c] # 0
    <3>1. \E b \in Nat \ {0} : EntryFits(c, b)
      <4>1. CASE \E t \in fills : t.code = c
        <5>1. PICK t \in fills : t.code = c
          BY <4>1
        <5>2. EntryFits(c, positions[c] + t.qty)
          BY <1>5, <5>1 DEF EngineInv, EntryInv
        <5>3. positions[c] + t.qty \in Nat \ {0}
          BY <1>1, <5>1
        <5> QED
          BY <5>2, <5>3
      <4>2. CASE ~\E t \in fills : t.code = c
        <5>1. EntryFits(c, positions[c])
          BY <4>2 DEF EngineInv, EntryInv
        <5> QED
          BY <1>1, <2>4, <5>1
      <4> QED
        BY <4>1, <4>2
    <3>2. entry[c] \in Fraction /\ Between(entry[c], paid[c])
      BY <3>1 DEF EntryFits, Between
    <3> QED
      BY <1>2, <1>3, <2>1, <2>2, <2>4, <3>2
  <2> QED
    BY <2>3, <2>4
<1> QED
  BY <1>4, <1>5

LEMMA SettleInv ==
    ASSUME EngineInv, Settle
    PROVE  EngineInv'
<1> DEFINE sales == {t \in fills : t.side = "SELL"}
<1>1. /\ phase = "trading" /\ plan = {} /\ plan' = plan /\ fills' = {} /\ phase' = after
      /\ strategy' = strategy /\ day' = day /\ after' = after /\ price' = price
      /\ positions' = positions /\ recent' = recent /\ pending' = pending /\ applied' = applied
      /\ lastSelected' = lastSelected /\ lastSlots' = lastSlots /\ rebalanced' = rebalanced
      /\ cash' = cash - GainsTax(sales).due /\ tax' = GainsTax(sales).state
      /\ entry' = [c \in Codes |-> EntryAfter(c)]
      /\ paid' = [c \in Codes |-> PaidAfter(c)]
  BY DEF Settle, signalVars, PaidAfter
<1>2. after \in Resting /\ after \in Phases /\ after # "trading"
  BY DEF EngineInv, SignalInv, Resting
<1>3. SignalInv'
  <2>1. strategy.regime # "off" => recent # <<>>
    BY <1>1 DEF EngineInv, SignalInv
  <2> QED
    BY <1>1, <1>2, <2>1 DEF EngineInv, SignalInv
<1>4. TradeInv'
  <2>1. IsFiniteSet({})
    BY FS_EmptySet
  <2> QED
    BY <1>1, <2>1 DEF EngineInv, TradeInv
<1>5. EntryInv'
  <2>1. entry' \in [Codes -> Nat \X Nat] /\ paid' \in [Codes -> SUBSET Nat]
    BY <1>1, SettledFits
  <2>2. \A c \in Codes : EntryFits(c, positions[c])'
    <3> TAKE c \in Codes
    <3>1. entry'[c] = EntryAfter(c) /\ paid'[c] = PaidAfter(c)
      BY <1>1
    <3>2. IF positions[c] = 0 THEN EntryAfter(c) = NoEntry /\ PaidAfter(c) = {}
          ELSE EntryAfter(c) \in Fraction /\ Between(EntryAfter(c), PaidAfter(c))
      BY SettledFits
    <3>3. IF positions[c] = 0 THEN entry'[c] = NoEntry /\ paid'[c] = {}
          ELSE entry'[c] \in Fraction /\ Between(entry'[c], paid'[c])
      BY <3>1, <3>2
    <3> QED
      BY <1>1, <3>3 DEF EntryFits, Between
  <2> QED
    BY <1>1, <2>1, <2>2 DEF EntryInv
<1>6. CashInv'
  <2>1. /\ GainsTax(sales).state \in [year : Nat, net : Int, charged : Int]
        /\ GainsTax(sales).due \in Int
        /\ strategy.tax = "none" => GainsTax(sales).due = 0
    <3>1. sales \subseteq fills /\ \A t \in sales : t.side = "SELL"
      OBVIOUS
    <3> HIDE DEF sales
    <3> QED
      BY <3>1, TaxesAre
  <2> HIDE DEF sales
  <2>2. cash \in Int /\ (strategy.tax = "none" => cash >= 0)
    BY DEF EngineInv, CashInv
  <2>3. cash' \in Int /\ (strategy.tax = "none" => cash' >= 0)
    BY <1>1, <2>1, <2>2
  <2> QED
    BY <1>1, <1>2, <2>1, <2>3 DEF CashInv
<1> QED
  BY <1>3, <1>4, <1>5, <1>6 DEF EngineInv

LEMMA EngineInitInv == EngineInit => EngineInv
<1> SUFFICES ASSUME EngineInit PROVE EngineInv
  OBVIOUS
<1>0. /\ 1 \in Days /\ StartCash \in Nat
  <2>1. Calendar \in Seq(Nat \ {0}) /\ Calendar # <<>> /\ StartCash \in Nat
    BY EngineAssumption
  <2>2. Len(Calendar) \in Nat /\ Len(Calendar) # 0
    BY <2>1, EmptySeq, LenProperties
  <2> QED
    BY <2>1, <2>2 DEF Days
<1>1. Cardinality(ToSet(<<>>)) = 0
  <2>1. ToSet(<<>>) = {}
    BY DEF ToSet
  <2> QED
    BY <2>1, FS_EmptySet
<1>2. SignalInv
  <2>1. \A n \in Nat : Cardinality(ToSet(<<>>)) <= n
    BY <1>1
  <2>2. NoOrders \in [selected : Seq(Codes), exposure : 0..100, slots : Nat, due : Nat]
        /\ NoOrders.selected = <<>> /\ NoOrders.slots = 0
    BY DEF NoOrders
  <2>3. [c \in Codes |-> NoPrice] \in [Codes -> Nat]
    BY DEF NoPrice
  <2> QED
    BY <1>0, <2>1, <2>2, <2>3 DEF EngineInit, SignalInv, Phases, Resting, Slotted
<1>3. TradeInv
  BY FS_EmptySet DEF EngineInit, TradeInv
<1>4. EntryInv
  BY DEF EngineInit, EntryInv, EntryFits, NoEntry
<1>5. CashInv
  BY <1>0 DEF EngineInit, CashInv
<1> QED
  BY <1>2, <1>3, <1>4, <1>5 DEF EngineInv

LEMMA EngineQuietInv == EngineInv /\ UNCHANGED engineVars => EngineInv'
<1> SUFFICES ASSUME EngineInv, UNCHANGED engineVars PROVE EngineInv'
  OBVIOUS
<1> USE DEF engineVars, bookVars, signalVars
<1>1. SignalInv'
  BY DEF EngineInv, SignalInv
<1>2. TradeInv'
  BY DEF EngineInv, TradeInv
<1>3. EntryInv'
  BY DEF EngineInv, EntryInv, EntryFits
<1>4. FlowIn(plan)' = FlowIn(plan)
  BY DEF FlowIn, FlowOf, Cost, Proceeds
<1>5. CashInv'
  BY <1>4 DEF EngineInv, CashInv, Lean
<1> QED
  BY <1>1, <1>2, <1>3, <1>5 DEF EngineInv

LEMMA EngineStepInv == EngineInv /\ [EngineNext]_engineVars => EngineInv'
<1> SUFFICES ASSUME EngineInv, [EngineNext]_engineVars PROVE EngineInv'
  OBVIOUS
<1>1. CASE \E q \in Quotes, e \in Exposures : OpenDay(q, e)
  BY <1>1, OpenDayInv
<1>2. CASE ExitPositions
  BY <1>2, ExitPositionsInv
<1>3. CASE FillPending
  BY <1>3, FillPendingInv
<1>4. CASE AdjustToRegime
  BY <1>4, AdjustToRegimeInv
<1>5. CASE TrimDrifted
  BY <1>5, TrimDriftedInv
<1>6. CASE \E r \in Rankings : SwapWeak(r)
  BY <1>6, SwapWeakInv
<1>7. CASE \E r \in Rankings, rising \in SUBSET Codes : Rebalance(r, rising)
  BY <1>7, RebalanceInv
<1>8. CASE CloseDay
  BY <1>8, CloseDayInv
<1>9. CASE \E t \in plan : ApplyTrade(t)
  BY <1>9, ApplyTradeInv
<1>10. CASE Settle
  BY <1>10, SettleInv
<1>11. CASE UNCHANGED engineVars
  BY <1>11, EngineQuietInv
<1> QED
  BY <1>1, <1>2, <1>3, <1>4, <1>5, <1>6, <1>7, <1>8, <1>9, <1>10, <1>11 DEF EngineNext

LEMMA EngineInvHolds == EngineInv => EveryBuyIsFunded /\ EntryIsCost
<1> SUFFICES ASSUME EngineInv PROVE EveryBuyIsFunded /\ EntryIsCost
  OBVIOUS
<1>1. EveryBuyIsFunded
  BY BuyIsFunded DEF EveryBuyIsFunded, Lean
<1>2. ASSUME phase # "trading", NEW c \in Codes
      PROVE  IF positions[c] = 0 THEN entry[c] = NoEntry
             ELSE /\ entry[c] # NoEntry
                  /\ \E p \in paid[c] : p * entry[c][2] <= entry[c][1]
                  /\ \E p \in paid[c] : p * entry[c][2] >= entry[c][1]
  <2>1. EntryFits(c, positions[c])
    BY <1>2 DEF EngineInv, EntryInv, TradeInv
  <2>2. NoEntry \notin Fraction
    BY DEF NoEntry, Fraction
  <2> QED
    BY <2>1, <2>2 DEF EntryFits
<1> QED
  BY <1>1, <1>2 DEF EntryIsCost

LEMMA EngineTyped == EngineInv => EngineTypeOK
<1> SUFFICES ASSUME EngineInv PROVE EngineTypeOK
  OBVIOUS
<1>1. 0..100 \subseteq Nat /\ Resting \subseteq Phases
  BY DEF Resting
<1>2. pending \in [selected : Seq(Codes), exposure : Nat, slots : Nat, due : Nat]
  BY <1>1 DEF EngineInv, SignalInv
<1> QED
  BY <1>1, <1>2 DEF EngineInv, SignalInv, TradeInv, EntryInv, CashInv, EngineTypeOK

-----------------------------------------------------------------------------
(* The books of an account.                                                *)
(*                                                                         *)
(* The rows are the shares filled, counted; a day that is over is kept as  *)
(* it was.  So the curve of a past day is what the account was worth then. *)

\* The library's sum of a function is the sum of DataLemmas.
LEMMA SumFunctionIs ==
    ASSUME NEW S, IsFiniteSet(S), NEW g, DOMAIN g = S
    PROVE  SumFunction(g) = SumOf(g, S)
<1> DEFINE Body(t) == t = [s \in SUBSET S |-> IF s = {} THEN 0
                             ELSE g[CHOOSE x \in s : TRUE] + t[s \ {CHOOSE x \in s : TRUE}]]
<1>1. \A t : IsTable(t, g, S) <=> Body(t)
  BY Zenon DEF IsTable, Some
<1>2. IsTable(CHOOSE t : Body(t), g, S)
  <2> HIDE DEF Body
  <2> QED
    BY <1>1, TableExists
<1>3. SumFunction(g) = (CHOOSE t : Body(t))[S]
  BY DEF SumFunction, SumFunctionOnSet, FoldFunctionOnSet, MapThenFoldSet
<1>4. SumOf(g, S) = (CHOOSE t : Body(t))[S]
  <2> HIDE DEF Body
  <2> QED
    BY <1>2, SumIsTables
<1> QED
  BY <1>3, <1>4

\* What the rows ds say of a code, and of the cash.
Quantity(ds) == [i \in DOMAIN ds |-> IF ds[i].side = "BUY" THEN ds[i].filled ELSE -ds[i].filled]
CashOf(ds) == [i \in DOMAIN ds |->
    ds[i].filled * (IF ds[i].side = "BUY" THEN -(ds[i].price + Fee) ELSE ds[i].price - Fee)]
RowsFor(ds, p, R) == {i \in R : ds[i].paper = p}
PositionIn(ds, p, R) == SumOf(Quantity(ds), RowsFor(ds, p, R))
CashIn(ds, R) == SumOf(CashOf(ds), R)

DealFields == \A ds \in Seq(Deal) : \A i \in DOMAIN ds :
    /\ ds[i].paper \in Papers /\ ds[i].side \in {"BUY", "SELL"} /\ ds[i].filled \in Nat
    /\ ds[i].asked \in Nat /\ ds[i].price \in Nat /\ ds[i].date \in Dates /\ ds[i].stamp \in Nat

LEMMA DealsHaveFields == DealFields
<1>1. \A ds \in Seq(Deal) : \A i \in DOMAIN ds : ds[i] \in Deal
  OBVIOUS
<1> QED
  BY <1>1 DEF DealFields, Deal

LEMMA RowsAreFinite ==
    ASSUME NEW ds \in Seq(Deal), NEW R \in SUBSET (DOMAIN ds)
    PROVE  /\ IsFiniteSet(DOMAIN ds) /\ IsFiniteSet(R)
           /\ \A p : RowsFor(ds, p, R) \subseteq R /\ IsFiniteSet(RowsFor(ds, p, R))
<1>1. DOMAIN ds = 1..Len(ds) /\ Len(ds) \in Nat
  OBVIOUS
<1>2. IsFiniteSet(DOMAIN ds)
  BY <1>1, FS_Interval
<1>3. \A p : RowsFor(ds, p, R) \subseteq R
  BY DEF RowsFor
<1> QED
  BY <1>2, <1>3, FS_Subset

LEMMA DealSums ==
    ASSUME NEW ds \in Seq(Deal), NEW R \in SUBSET (DOMAIN ds)
    PROVE  /\ \A i \in DOMAIN ds : Quantity(ds)[i] \in Int /\ CashOf(ds)[i] \in Int
           /\ CashIn(ds, R) \in Int
           /\ \A p : PositionIn(ds, p, R) \in Int
<1>1. \A i \in DOMAIN ds : Quantity(ds)[i] \in Int
  BY DealsHaveFields DEF DealFields, Quantity
<1>2. \A i \in DOMAIN ds : CashOf(ds)[i] \in Int
  <2> TAKE i \in DOMAIN ds
  <2> DEFINE w == IF ds[i].side = "BUY" THEN -(ds[i].price + Fee) ELSE ds[i].price - Fee
  <2>1. w \in Int /\ ds[i].filled \in Int
    BY DealsHaveFields, LedgerAssumption DEF DealFields
  <2>2. CashOf(ds)[i] = ds[i].filled * w
    BY DEF CashOf
  <2> HIDE DEF w
  <2> QED
    BY <2>1, <2>2
<1>3. CashIn(ds, R) \in Int
  <2> DEFINE g == CashOf(ds)
  <2>1. IsFiniteSet(R) /\ \A i \in R : g[i] \in Int
    BY <1>2, RowsAreFinite
  <2> HIDE DEF g
  <2>2. SumOf(g, R) \in Int
    BY <2>1, SumIsInt
  <2> QED
    BY <2>2 DEF g, CashIn
<1>4. ASSUME NEW p PROVE PositionIn(ds, p, R) \in Int
  <2> DEFINE g == Quantity(ds)
             T == RowsFor(ds, p, R)
  <2>1. IsFiniteSet(T) /\ T \subseteq R
    BY RowsAreFinite
  <2>2. \A i \in T : g[i] \in Int
    BY <1>1, <2>1
  <2> HIDE DEF g, T
  <2>3. SumOf(g, T) \in Int
    BY <2>1, <2>2, SumIsInt
  <2> QED
    BY <2>3 DEF g, T, PositionIn
<1> QED
  BY <1>1, <1>2, <1>3, <1>4

\* Rows that say the same of a deal add up to the same.
SameRows(ds, es, R) == \A i \in R : /\ i \in DOMAIN ds /\ i \in DOMAIN es
                                    /\ ds[i].paper = es[i].paper /\ ds[i].side = es[i].side
                                    /\ ds[i].filled = es[i].filled /\ ds[i].price = es[i].price

LEMMA SameRowsAddUp ==
    ASSUME NEW ds \in Seq(Deal), NEW es \in Seq(Deal), NEW R, SameRows(ds, es, R)
    PROVE  CashIn(ds, R) = CashIn(es, R) /\ \A p : PositionIn(ds, p, R) = PositionIn(es, p, R)
<1>1. R \in SUBSET (DOMAIN ds) /\ R \in SUBSET (DOMAIN es)
  BY DEF SameRows
<1>2. IsFiniteSet(R) /\ \A p : RowsFor(ds, p, R) \subseteq R /\ IsFiniteSet(RowsFor(ds, p, R))
  BY <1>1, RowsAreFinite
<1>3. CashIn(ds, R) = CashIn(es, R)
  <2> DEFINE g == CashOf(ds)
             h == CashOf(es)
  <2>1. \A i \in R : g[i] = h[i]
    BY DEF SameRows, CashOf
  <2> HIDE DEF g, h
  <2>2. SumOf(g, R) = SumOf(h, R)
    BY <1>2, <2>1, SumOfSame
  <2> QED
    BY <2>2 DEF g, h, CashIn
<1>4. ASSUME NEW p PROVE PositionIn(ds, p, R) = PositionIn(es, p, R)
  <2> DEFINE g == Quantity(ds)
             h == Quantity(es)
             T == RowsFor(ds, p, R)
  <2>1. T = RowsFor(es, p, R)
    BY DEF SameRows, RowsFor
  <2>2. \A i \in T : g[i] = h[i]
    BY DEF SameRows, Quantity, RowsFor
  <2>3. IsFiniteSet(T)
    BY <1>2
  <2> HIDE DEF g, h, T
  <2>4. SumOf(g, T) = SumOf(h, T)
    BY <2>2, <2>3, SumOfSame
  <2> QED
    BY <2>1, <2>4 DEF g, h, T, PositionIn
<1> QED
  BY <1>3, <1>4

\* The sums of the model are these.
LEMMA SumsOfRows ==
    ASSUME deals \in Seq(Deal)
    PROVE  \A R \in SUBSET (DOMAIN deals) :
              Cash(R) = CashIn(deals, R) /\ \A p : Position(p, R) = PositionIn(deals, p, R)
<1> SUFFICES ASSUME NEW R \in SUBSET (DOMAIN deals)
             PROVE  Cash(R) = CashIn(deals, R) /\ \A p : Position(p, R) = PositionIn(deals, p, R)
  OBVIOUS
<1>1. IsFiniteSet(R) /\ \A p : RowsFor(deals, p, R) \subseteq R /\ IsFiniteSet(RowsFor(deals, p, R))
  BY RowsAreFinite
<1>2. Cash(R) = CashIn(deals, R)
  <2> DEFINE g == [i \in R |-> deals[i].filled * ShareFlow(i)]
             h == CashOf(deals)
  <2>1. Cash(R) = SumFunction(g) /\ DOMAIN g = R
    BY DEF Cash
  <2>2. \A i \in R : g[i] = h[i]
    BY DEF ShareFlow, CashOf
  <2> HIDE DEF g, h
  <2>3. SumFunction(g) = SumOf(g, R)
    BY <1>1, <2>1, SumFunctionIs
  <2>4. SumOf(g, R) = SumOf(h, R)
    BY <1>1, <2>2, SumOfSame
  <2> QED
    BY <2>1, <2>3, <2>4 DEF h, CashIn
<1>3. ASSUME NEW p PROVE Position(p, R) = PositionIn(deals, p, R)
  <2> DEFINE T == RowsFor(deals, p, R)
             g == [i \in T |-> Signed(i)]
             h == Quantity(deals)
  <2>1. Position(p, R) = SumFunction(g) /\ DOMAIN g = T
    BY DEF Position, RowsFor
  <2>2. \A i \in T : g[i] = h[i]
    BY DEF Signed, Quantity, RowsFor
  <2>3. IsFiniteSet(T)
    BY <1>1
  <2> HIDE DEF g, h, T
  <2>4. SumFunction(g) = SumOf(g, T)
    BY <2>1, <2>3, SumFunctionIs
  <2>5. SumOf(g, T) = SumOf(h, T)
    BY <2>2, <2>3, SumOfSame
  <2> QED
    BY <2>1, <2>4, <2>5 DEF h, T, PositionIn
<1> QED
  BY <1>2, <1>3

\* The shares of a code filled on one side, and those of them filled before another.
SharesAt(p, side) == {y \in DOMAIN shares : deals[shares[y]].paper = p /\ deals[shares[y]].side = side}
SharesBefore(y, p, side) == {z \in SharesAt(p, side) : z < y}

\* What was held of a code and what the account was worth by the rows up to a day.
RowsUpTo(ds, d) == {i \in DOMAIN ds : ds[i].date <= d}
FilledUpTo(ds, d) == {i \in DOMAIN ds : ds[i].filled > 0 /\ ds[i].date <= d}
HeldOn(ds, p, d) == older[p] + PositionIn(ds, p, RowsUpTo(ds, d))
WorthBy(ds, d) == Capital + CashIn(ds, FilledUpTo(ds, d))
                    + SumOf([p \in Papers |-> HeldOn(ds, p, d) * LastPrice(p, d)], Papers)

\* A row has the shares filled of it, no two rows have one time, and none is of a later day.
RowsAreCounted == \A i \in DOMAIN deals : /\ deals[i].date <= date
    /\ deals[i].filled = Cardinality({y \in DOMAIN shares : shares[y] = i})
RowsAreStamped ==
    /\ Len(deals) <= MaxDeals
    /\ \A i \in DOMAIN deals : \/ deals[i].stamp = i
                               \/ MaxDeals < deals[i].stamp /\ deals[i].stamp <= MaxDeals + Len(shares)
    /\ \A i, j \in DOMAIN deals : deals[i].stamp = deals[j].stamp => i = j

\* Nothing is sold that is not held.
HeldIsCounted == \A p \in Papers :
    LET n == older[p] + PositionIn(deals, p, DOMAIN deals)
    IN n >= 0 /\ n = older[p] + Cardinality(SharesAt(p, "BUY")) - Cardinality(SharesAt(p, "SELL"))
NoneIsShort == \A y \in DOMAIN shares : deals[shares[y]].side = "SELL" =>
    LET p == deals[shares[y]].paper
    IN Cardinality(SharesBefore(y, p, "SELL")) < older[p] + Cardinality(SharesBefore(y, p, "BUY"))

\* A past day is as it was at its close.
DaysAreKept == \A d \in Dates :
    IF d < date THEN /\ worth[d] = WorthBy(deals, d) /\ navs[d] \in {-1, worth[d]}
                     /\ \A p \in Papers : HeldOn(deals, p, d) >= 0
                ELSE navs[d] = -1

LedgerInv == LedgerTypeOK /\ RowsAreCounted /\ RowsAreStamped /\ HeldIsCounted /\ NoneIsShort /\ DaysAreKept

LEMMA PricesAreNat ==
    ASSUME market \in Markets, NEW p \in Papers, NEW d \in Dates
    PROVE  LastPrice(p, d) \in Nat /\ LastPrice(p, d) > 0
<1> DEFINE D == {e \in 1..d : market[p][e] # 0}
<1>1. d \in Nat /\ 1 <= d /\ d <= LastDate /\ LastDate \in Nat
  BY LedgerAssumption DEF Dates
<1>2. market[p] \in [1..LastDate -> Nat] /\ market[p][1] > 0
  BY LedgerAssumption
<1>3. D \subseteq 0..d /\ 1 \in D
  BY <1>1, <1>2
<1> HIDE DEF D
<1>4. Max(D) \in D
  BY <1>1, <1>3, GreatestIsMax
<1>5. \A e \in D : e \in 1..LastDate /\ market[p][e] # 0
  BY <1>1 DEF D
<1>6. market[p][Max(D)] \in Nat /\ market[p][Max(D)] > 0
  <2> DEFINE m == Max(D)
             row == market[p]
  <2>1. m \in 1..LastDate /\ row[m] # 0 /\ row \in [1..LastDate -> Nat]
    BY <1>2, <1>4, <1>5
  <2> HIDE DEF m, row
  <2>2. row[m] \in Nat /\ row[m] > 0
    BY <2>1
  <2> QED
    BY <2>2 DEF m, row
<1> QED
  BY <1>6 DEF D, LastPrice

LEMMA WorthIsInt ==
    ASSUME market \in Markets, older \in Inheritances, NEW ds \in Seq(Deal), NEW d \in Dates
    PROVE  WorthBy(ds, d) \in Int /\ \A p \in Papers : HeldOn(ds, p, d) \in Int
<1>1. RowsUpTo(ds, d) \in SUBSET (DOMAIN ds) /\ FilledUpTo(ds, d) \in SUBSET (DOMAIN ds)
  BY DEF RowsUpTo, FilledUpTo
<1>2. \A p \in Papers : older[p] \in Nat
  BY LedgerAssumption
<1>3. ASSUME NEW p \in Papers PROVE HeldOn(ds, p, d) \in Int
  <2>1. PositionIn(ds, p, RowsUpTo(ds, d)) \in Int
    BY <1>1, DealSums
  <2>2. older[p] \in Int
    BY <1>2
  <2> QED
    BY <2>1, <2>2 DEF HeldOn
<1>4. CashIn(ds, FilledUpTo(ds, d)) \in Int
  BY <1>1, DealSums
<1> DEFINE g == [p \in Papers |-> HeldOn(ds, p, d) * LastPrice(p, d)]
<1>5. \A p \in Papers : g[p] \in Int
  <2> TAKE p \in Papers
  <2>1. HeldOn(ds, p, d) \in Int /\ LastPrice(p, d) \in Int
    BY <1>3, PricesAreNat
  <2>2. \A a, b \in Int : a * b \in Int
    OBVIOUS
  <2> QED
    BY <2>1, <2>2
<1> HIDE DEF g
<1>6. SumOf(g, Papers) \in Int
  BY <1>5, SumIsInt, LedgerAssumption
<1>7. Capital \in Int
  BY LedgerAssumption
<1> QED
  BY <1>3, <1>4, <1>6, <1>7 DEF WorthBy, g

\* Days that are over are as they were when their rows are.
LEMMA KeptDays ==
    ASSUME NEW ds \in Seq(Deal), NEW es \in Seq(Deal), NEW d \in Dates,
           RowsUpTo(ds, d) = RowsUpTo(es, d), SameRows(ds, es, RowsUpTo(ds, d))
    PROVE  WorthBy(ds, d) = WorthBy(es, d) /\ \A p : HeldOn(ds, p, d) = HeldOn(es, p, d)
<1>1. \A p : HeldOn(ds, p, d) = HeldOn(es, p, d)
  BY SameRowsAddUp DEF HeldOn
<1>2. FilledUpTo(ds, d) = FilledUpTo(es, d)
  <2>1. \A i : i \in RowsUpTo(ds, d) => ds[i].filled = es[i].filled
    BY DEF SameRows
  <2>2. \A i : i \in FilledUpTo(ds, d) <=> i \in RowsUpTo(ds, d) /\ ds[i].filled > 0
    BY DEF RowsUpTo, FilledUpTo
  <2>3. \A i : i \in FilledUpTo(es, d) <=> i \in RowsUpTo(es, d) /\ es[i].filled > 0
    BY DEF RowsUpTo, FilledUpTo
  <2> QED
    BY <2>1, <2>2, <2>3
<1>3. SameRows(ds, es, FilledUpTo(ds, d))
  BY DEF SameRows, FilledUpTo, RowsUpTo
<1>4. CashIn(ds, FilledUpTo(ds, d)) = CashIn(es, FilledUpTo(es, d))
  BY <1>2, <1>3, SameRowsAddUp
<1> QED
  BY <1>1, <1>4 DEF WorthBy

LEMMA LedgerInitInv == LedgerInit => LedgerInv
<1> SUFFICES ASSUME LedgerInit PROVE LedgerInv
  OBVIOUS
<1>1. /\ market \in Markets /\ older \in Inheritances /\ stamping \in {"order", "fill"}
      /\ date = 1 /\ deals = <<>> /\ shares = <<>>
      /\ navs = [d \in Dates |-> -1] /\ worth = [d \in Dates |-> 0]
  BY DEF LedgerInit
<1>2. LastDate \in Nat /\ 1 \in Dates /\ MaxDeals \in Nat /\ \A p \in Papers : older[p] \in Nat
  BY <1>1, LedgerAssumption DEF Dates
<1>3. DOMAIN deals = {} /\ DOMAIN shares = {} /\ Len(deals) = 0 /\ Len(shares) = 0
  BY <1>1
<1>4. LedgerTypeOK
  <2>1. deals \in Seq(Deal) /\ shares \in Seq(DOMAIN deals)
    BY <1>1
  <2>2. navs \in [Dates -> Int] /\ worth \in [Dates -> Int]
    BY <1>1
  <2> QED
    BY <1>1, <1>2, <2>1, <2>2 DEF LedgerTypeOK
<1>5. RowsAreCounted /\ RowsAreStamped
  BY <1>2, <1>3 DEF RowsAreCounted, RowsAreStamped
<1>6. HeldIsCounted
  <2> SUFFICES ASSUME NEW p \in Papers
               PROVE  /\ older[p] + PositionIn(deals, p, DOMAIN deals) >= 0
                      /\ older[p] + PositionIn(deals, p, DOMAIN deals)
                           = older[p] + Cardinality(SharesAt(p, "BUY")) - Cardinality(SharesAt(p, "SELL"))
    BY DEF HeldIsCounted
  <2>1. SharesAt(p, "BUY") = {} /\ SharesAt(p, "SELL") = {} /\ RowsFor(deals, p, DOMAIN deals) = {}
    BY <1>3 DEF SharesAt, RowsFor
  <2>2. PositionIn(deals, p, DOMAIN deals) = 0
    BY <2>1, SumOfNone DEF PositionIn
  <2>3. Cardinality({}) = 0
    BY FS_EmptySet
  <2>4. older[p] \in Nat
    BY <1>2
  <2> QED
    BY <2>1, <2>2, <2>3, <2>4
<1>7. NoneIsShort
  BY <1>3 DEF NoneIsShort
<1>8. DaysAreKept
  <2> SUFFICES ASSUME NEW d \in Dates PROVE ~(d < date) /\ navs[d] = -1
    BY DEF DaysAreKept
  <2> QED
    BY <1>1, <1>2 DEF Dates
<1> QED
  BY <1>4, <1>5, <1>6, <1>7, <1>8 DEF LedgerInv

LEMMA PlaceDealKeeps ==
    ASSUME LedgerInv, NEW p \in Papers, NEW side \in {"BUY", "SELL"}, NEW n \in Sizes[p],
           PlaceDeal(p, side, n, LastPrice(p, date))
    PROVE  LedgerInv'
<1> DEFINE m == Len(deals) + 1
           new == [paper |-> p, side |-> side, asked |-> n, filled |-> 0,
                   price |-> LastPrice(p, date), date |-> date, stamp |-> m]
<1>1. /\ Len(deals) < MaxDeals /\ deals' = Append(deals, new)
      /\ market' = market /\ older' = older /\ stamping' = stamping /\ date' = date
      /\ shares' = shares /\ navs' = navs /\ worth' = worth
  BY DEF PlaceDeal
<1>2. /\ LedgerTypeOK /\ RowsAreCounted /\ RowsAreStamped /\ HeldIsCounted /\ NoneIsShort
      /\ DaysAreKept
  BY DEF LedgerInv
<1>3. /\ market \in Markets /\ older \in Inheritances /\ stamping \in {"order", "fill"}
      /\ date \in Dates /\ deals \in Seq(Deal) /\ shares \in Seq(DOMAIN deals)
      /\ navs \in [Dates -> Int] /\ worth \in [Dates -> Int]
  BY <1>2 DEF LedgerTypeOK
<1>4. Len(deals) \in Nat /\ MaxDeals \in Nat /\ m \in Nat /\ Len(shares) \in Nat
      /\ DOMAIN deals = 1..Len(deals) /\ m \notin DOMAIN deals
  BY <1>3, LedgerAssumption
<1>5. new \in Deal
  <2>1. LastPrice(p, date) \in Nat /\ n \in Nat
    BY <1>3, PricesAreNat, LedgerAssumption
  <2> QED
    BY <1>3, <1>4, <2>1 DEF Deal
<1>6. /\ deals' \in Seq(Deal) /\ Len(deals') = m /\ DOMAIN deals' = 1..m
      /\ deals'[m] = new /\ \A i \in DOMAIN deals : i \in DOMAIN deals' /\ deals'[i] = deals[i]
  <2> HIDE DEF new
  <2> QED
    BY <1>1, <1>3, <1>5
<1>7. \A i \in DOMAIN deals' : i = m \/ i \in DOMAIN deals
  BY <1>4, <1>6
<1>8. \A y \in DOMAIN shares : shares[y] \in DOMAIN deals /\ deals'[shares[y]] = deals[shares[y]]
  <2>1. \A y \in DOMAIN shares : shares[y] \in DOMAIN deals
    BY <1>3
  <2> QED
    BY <1>6, <2>1
<1>9. new.paper = p /\ new.filled = 0 /\ new.date = date /\ new.stamp = m
  OBVIOUS
<1> HIDE DEF new
<1>10. LedgerTypeOK'
  <2>1. shares' \in Seq(DOMAIN deals')
    <3>1. DOMAIN deals \subseteq DOMAIN deals'
      BY <1>6
    <3> QED
      BY <1>1, <1>3, <3>1
  <2> QED
    BY <1>1, <1>3, <1>6, <2>1 DEF LedgerTypeOK
<1>11. RowsAreCounted'
  <2> SUFFICES ASSUME NEW i \in DOMAIN deals'
               PROVE  /\ deals'[i].date <= date
                      /\ deals'[i].filled = Cardinality({y \in DOMAIN shares : shares[y] = i})
    BY <1>1 DEF RowsAreCounted
  <2>1. CASE i \in DOMAIN deals
    BY <1>2, <1>6, <2>1 DEF RowsAreCounted
  <2>2. CASE i = m
    <3>1. {y \in DOMAIN shares : shares[y] = i} = {}
      BY <1>4, <1>8, <2>2
    <3>2. date <= date
      BY <1>3 DEF Dates
    <3>3. Cardinality({y \in DOMAIN shares : shares[y] = i}) = 0
      BY <3>1, FS_EmptySet
    <3> QED
      BY <1>6, <1>9, <2>2, <3>2, <3>3
  <2> QED
    BY <1>7, <2>1, <2>2
<1>12. RowsAreStamped'
  <2>1. Len(deals') <= MaxDeals
    BY <1>1, <1>4, <1>6
  <2>2. ASSUME NEW i \in DOMAIN deals'
        PROVE  deals'[i].stamp = i \/ (MaxDeals < deals'[i].stamp /\ deals'[i].stamp <= MaxDeals + Len(shares))
    <3>1. CASE i \in DOMAIN deals
      BY <1>2, <1>6, <3>1 DEF RowsAreStamped
    <3>2. CASE i = m
      BY <1>6, <1>9, <3>2
    <3> QED
      BY <1>7, <3>1, <3>2
  <2>3. \A i \in DOMAIN deals : deals[i].stamp \in Nat /\ deals[i].stamp # m
    <3> TAKE i \in DOMAIN deals
    <3>1. deals[i].stamp = i \/ MaxDeals < deals[i].stamp
      BY <1>2 DEF RowsAreStamped
    <3>2. deals[i].stamp \in Nat /\ i \in Nat /\ i < m
      BY <1>3, <1>4, DealsHaveFields DEF DealFields
    <3> QED
      BY <1>1, <1>4, <3>1, <3>2
  <2>4. ASSUME NEW i \in DOMAIN deals', NEW j \in DOMAIN deals', deals'[i].stamp = deals'[j].stamp
        PROVE  i = j
    <3>1. CASE i \in DOMAIN deals /\ j \in DOMAIN deals
      BY <1>2, <1>6, <2>4, <3>1 DEF RowsAreStamped
    <3>2. CASE i = m \/ j = m
      BY <1>6, <1>7, <1>9, <2>3, <2>4, <3>2
    <3> QED
      BY <1>7, <3>1, <3>2
  <2> QED
    BY <1>1, <2>1, <2>2, <2>4 DEF RowsAreStamped
<1>13. \A q, s : SharesAt(q, s)' = SharesAt(q, s)
  <2> SUFFICES ASSUME NEW q, NEW s
               PROVE {y \in DOMAIN shares' : deals'[shares'[y]].paper = q /\ deals'[shares'[y]].side = s}
                   = {y \in DOMAIN shares : deals[shares[y]].paper = q /\ deals[shares[y]].side = s}
    BY DEF SharesAt
  <2> QED
    BY <1>1, <1>8
<1>14. SameRows(deals, deals', DOMAIN deals)
  BY <1>6 DEF SameRows
<1>15. HeldIsCounted'
  <2> SUFFICES ASSUME NEW q \in Papers
               PROVE  PositionIn(deals', q, DOMAIN deals') = PositionIn(deals, q, DOMAIN deals)
    BY <1>1, <1>2, <1>13 DEF HeldIsCounted
  <2>1. PositionIn(deals, q, DOMAIN deals) = PositionIn(deals', q, DOMAIN deals)
    BY <1>3, <1>6, <1>14, SameRowsAddUp
  <2> DEFINE g == Quantity(deals')
             S == RowsFor(deals', q, DOMAIN deals')
             R == RowsFor(deals', q, DOMAIN deals)
  <2>2. IsFiniteSet(S) /\ S \subseteq DOMAIN deals'
    BY <1>6, RowsAreFinite
  <2>3. \A i \in DOMAIN deals' : g[i] \in Int
    BY <1>6, DealSums
  <2>4. R \subseteq S /\ \A i \in S \ R : i = m
    BY <1>6, <1>7 DEF RowsFor
  <2>5. g[m] = 0
    BY <1>6, <1>9 DEF Quantity
  <2> HIDE DEF g, S, R
  <2>6. SumOf(g, S) = SumOf(g, R)
    BY <2>2, <2>3, <2>4, <2>5, SumSkips
  <2> QED
    BY <2>1, <2>6 DEF g, S, R, PositionIn
<1>16. NoneIsShort'
  <2>1. \A y, q, s : SharesBefore(y, q, s)' = SharesBefore(y, q, s)
    BY <1>13 DEF SharesBefore
  <2> QED
    BY <1>1, <1>2, <1>8, <2>1 DEF NoneIsShort
<1>17. DaysAreKept'
  <2> SUFFICES ASSUME NEW d \in Dates, d < date
               PROVE  WorthBy(deals, d)' = WorthBy(deals, d)
                      /\ \A q \in Papers : HeldOn(deals, q, d)' = HeldOn(deals, q, d)
    BY <1>1, <1>2 DEF DaysAreKept
  <2>1. RowsUpTo(deals, d) = RowsUpTo(deals', d)
    <3>1. ~(date <= d)
      BY <1>3 DEF Dates
    <3> QED
      BY <1>6, <1>7, <1>9, <3>1 DEF RowsUpTo
  <2>2. SameRows(deals, deals', RowsUpTo(deals, d))
    BY <1>14 DEF SameRows, RowsUpTo
  <2>3. WorthBy(deals, d) = WorthBy(deals', d) /\ \A q : HeldOn(deals, q, d) = HeldOn(deals', q, d)
    BY <1>3, <1>6, <2>1, <2>2, KeptDays
  <2>4. WorthBy(deals, d)' = WorthBy(deals', d) /\ \A q : HeldOn(deals, q, d)' = HeldOn(deals', q, d)
    BY <1>1, Zenon DEF WorthBy, HeldOn, LastPrice
  <2> QED
    BY <2>3, <2>4
<1> QED
  BY <1>10, <1>11, <1>12, <1>15, <1>16, <1>17 DEF LedgerInv

\* One more of a finite set of places.
LEMMA OneMore ==
    ASSUME NEW S, IsFiniteSet(S), NEW x, x \notin S
    PROVE  Cardinality(S) \in Nat /\ Cardinality(S \cup {x}) = Cardinality(S) + 1
  BY FS_AddElement, FS_CardinalityType

LEMMA SharesAreFinite ==
    ASSUME LedgerTypeOK
    PROVE  /\ \A p, s : SharesAt(p, s) \subseteq DOMAIN shares /\ IsFiniteSet(SharesAt(p, s))
           /\ \A p, s : Cardinality(SharesAt(p, s)) \in Nat
           /\ \A i : IsFiniteSet({y \in DOMAIN shares : shares[y] = i})
<1>1. shares \in Seq(DOMAIN deals)
  BY DEF LedgerTypeOK
<1>2. DOMAIN shares = 1..Len(shares) /\ Len(shares) \in Nat
  BY <1>1
<1>3. IsFiniteSet(DOMAIN shares)
  BY <1>2, FS_Interval
<1>4. \A p, s : SharesAt(p, s) \subseteq DOMAIN shares
  BY DEF SharesAt
<1>5. \A i : {y \in DOMAIN shares : shares[y] = i} \subseteq DOMAIN shares
  OBVIOUS
<1> QED
  BY <1>3, <1>4, <1>5, FS_Subset, FS_CardinalityType

LEMMA FilledDeal ==
    ASSUME NEW r \in Deal, NEW st \in Nat
    PROVE  LET new == [r EXCEPT !.filled = @ + 1, !.stamp = st]
           IN /\ new \in Deal /\ new.filled = r.filled + 1 /\ new.stamp = st
              /\ new.paper = r.paper /\ new.side = r.side /\ new.price = r.price /\ new.date = r.date
<1> DEFINE new == [r EXCEPT !.filled = @ + 1, !.stamp = st]
           mid == [r EXCEPT !.filled = @ + 1]
<1>1. mid \in Deal
  BY DEF Deal
<1>2. [mid EXCEPT !.stamp = st] \in Deal
  BY <1>1 DEF Deal
<1>3. new = [mid EXCEPT !.stamp = st]
  OBVIOUS
<1>5. new.filled = r.filled + 1 
  BY DEF Deal
<1>6. new.stamp = st
  BY DEF Deal
<1>7. new.paper = r.paper /\ new.side = r.side /\ new.price = r.price /\ new.date = r.date
  BY DEF Deal
<1> QED
  BY <1>2, <1>3, <1>5, <1>6, <1>7

LEMMA FillShareKeeps ==
    ASSUME LedgerInv, NEW i \in DOMAIN deals, FillShare(i)
    PROVE  LedgerInv'
<1> SUFFICES ASSUME NEW p, p = deals[i].paper, NEW side, side = deals[i].side,
                    NEW y1, y1 = Len(shares) + 1
             PROVE  LedgerInv'
  OBVIOUS
<1> DEFINE st == IF stamping = "fill" THEN MaxDeals + Len(shares) + 1 ELSE deals[i].stamp
           new == [deals[i] EXCEPT !.filled = @ + 1, !.stamp = st]
<1>1. /\ deals[i].date = date /\ deals[i].filled < deals[i].asked
      /\ deals[i].side = "SELL" => Owned(p) > 0
      /\ shares' = Append(shares, i)
      /\ deals' = [deals EXCEPT ![i].filled = @ + 1, ![i].stamp = st]
      /\ market' = market /\ older' = older /\ stamping' = stamping /\ date' = date
      /\ navs' = navs /\ worth' = worth
  BY DEF FillShare
<1>2. /\ LedgerTypeOK /\ RowsAreCounted /\ RowsAreStamped /\ HeldIsCounted /\ NoneIsShort
      /\ DaysAreKept
  BY DEF LedgerInv
<1>3. /\ market \in Markets /\ older \in Inheritances /\ stamping \in {"order", "fill"}
      /\ date \in Dates /\ deals \in Seq(Deal) /\ shares \in Seq(DOMAIN deals)
      /\ navs \in [Dates -> Int] /\ worth \in [Dates -> Int]
  BY <1>2 DEF LedgerTypeOK
<1>4. /\ Len(deals) \in Nat /\ MaxDeals \in Nat /\ y1 \in Nat /\ Len(shares) \in Nat
      /\ DOMAIN deals = 1..Len(deals) /\ DOMAIN shares = 1..Len(shares) /\ y1 \notin DOMAIN shares
  BY <1>3, LedgerAssumption
<1>5. /\ p \in Papers /\ side \in {"BUY", "SELL"} /\ deals[i] \in Deal
      /\ deals[i].filled \in Nat /\ deals[i].stamp \in Nat
  <2>1. deals[i] \in Deal
    BY <1>3
  <2> QED
    BY <2>1 DEF Deal
<1>6. st \in Nat
  BY <1>4, <1>5
<1> HIDE DEF st
<1>7. /\ new \in Deal /\ new.filled = deals[i].filled + 1 /\ new.stamp = st
      /\ new.paper = p /\ new.side = side /\ new.price = deals[i].price /\ new.date = deals[i].date
  BY <1>5, <1>6, FilledDeal
<1>8. deals' = [deals EXCEPT ![i] = new]
  BY <1>1
<1> HIDE DEF new
<1>9. /\ deals' \in Seq(Deal) /\ DOMAIN deals' = DOMAIN deals /\ Len(deals') = Len(deals)
      /\ deals'[i] = new /\ \A j \in DOMAIN deals : j # i => deals'[j] = deals[j]
  BY <1>3, <1>7, <1>8
<1>10. /\ shares' \in Seq(DOMAIN deals) /\ Len(shares') = y1 /\ DOMAIN shares' = 1..y1
       /\ shares'[y1] = i /\ \A y \in DOMAIN shares : y \in DOMAIN shares' /\ shares'[y] = shares[y]
  BY <1>1, <1>3
<1>11. \A y \in DOMAIN shares' : y = y1 \/ y \in DOMAIN shares
  BY <1>4, <1>10
<1>12. \A y \in DOMAIN shares : shares[y] \in DOMAIN deals
  BY <1>3
<1>13. \A j \in DOMAIN deals : /\ deals'[j].paper = deals[j].paper /\ deals'[j].side = deals[j].side
                               /\ deals'[j].price = deals[j].price /\ deals'[j].date = deals[j].date
  BY <1>7, <1>9
<1>14. LedgerTypeOK'
  BY <1>1, <1>3, <1>9, <1>10 DEF LedgerTypeOK
<1>15. RowsAreCounted'
  <2> SUFFICES ASSUME NEW j \in DOMAIN deals
               PROVE  /\ deals'[j].date <= date
                      /\ deals'[j].filled = Cardinality({y \in DOMAIN shares' : shares'[y] = j})
    BY <1>1, <1>9 DEF RowsAreCounted
  <2> DEFINE T == {y \in DOMAIN shares : shares[y] = j}
             U == {y \in DOMAIN shares' : shares'[y] = j}
  <2>1. deals[j].date <= date /\ deals[j].filled = Cardinality(T)
    BY <1>2 DEF RowsAreCounted
  <2>2. IsFiniteSet(T) /\ y1 \notin T
    BY <1>2, <1>4, SharesAreFinite
  <2>3. U = IF j = i THEN T \cup {y1} ELSE T
    BY <1>10, <1>11
  <2> HIDE DEF T, U
  <2>4. deals'[j].filled = Cardinality(U)
    <3>1. CASE j = i
      <4>1. Cardinality(U) = Cardinality(T) + 1
        BY <2>2, <2>3, <3>1, OneMore
      <4> QED
        BY <1>7, <1>9, <2>1, <3>1, <4>1
    <3>2. CASE j # i
      BY <1>9, <2>1, <2>3, <3>2
    <3> QED
      BY <3>1, <3>2
  <2> QED
    BY <1>13, <2>1, <2>4 DEF U
<1>16. RowsAreStamped'
  <2>1. \A j \in DOMAIN deals : deals[j].stamp \in Nat /\ deals[j].stamp <= MaxDeals + Len(shares)
    <3> TAKE j \in DOMAIN deals
    <3>1. deals[j].stamp = j \/ (MaxDeals < deals[j].stamp /\ deals[j].stamp <= MaxDeals + Len(shares))
      BY <1>2 DEF RowsAreStamped
    <3>2. j <= Len(deals) /\ Len(deals) <= MaxDeals /\ deals[j].stamp \in Nat
      BY <1>2, <1>3, <1>4, DealsHaveFields DEF RowsAreStamped, DealFields
    <3> QED
      BY <1>4, <3>1, <3>2
  <2>2. deals'[i].stamp = st
    BY <1>7, <1>9
  <2>3. st = deals[i].stamp \/ st = MaxDeals + y1
    BY <1>4 DEF st
  <2>4. ASSUME NEW j \in DOMAIN deals
        PROVE  deals'[j].stamp = j \/ (MaxDeals < deals'[j].stamp /\ deals'[j].stamp <= MaxDeals + y1)
    <3>1. deals[j].stamp = j \/ (MaxDeals < deals[j].stamp /\ deals[j].stamp <= MaxDeals + Len(shares))
      BY <1>2 DEF RowsAreStamped
    <3>2. deals[j].stamp \in Nat
      BY <2>1
    <3>3. deals'[j].stamp = deals[j].stamp \/ deals'[j].stamp = MaxDeals + y1
      BY <1>9, <2>2, <2>3
    <3>4. MaxDeals < MaxDeals + y1 /\ MaxDeals + y1 \in Nat
      BY <1>4
    <3> QED
      BY <1>4, <3>1, <3>2, <3>3, <3>4
  <2>5. ASSUME NEW j \in DOMAIN deals, NEW k \in DOMAIN deals, deals'[j].stamp = deals'[k].stamp
        PROVE  j = k
    <3>1. \A j1, kn \in DOMAIN deals : deals[j1].stamp = deals[kn].stamp => j1 = kn
      BY <1>2 DEF RowsAreStamped
    <3>2. \A j1 \in DOMAIN deals : deals[j1].stamp # MaxDeals + y1
      BY <1>4, <2>1
    <3> QED
      BY <1>9, <2>2, <2>3, <2>5, <3>1, <3>2
  <2>6. Len(deals') <= MaxDeals
    BY <1>2, <1>9 DEF RowsAreStamped
  <2> QED
    BY <1>9, <1>10, <2>4, <2>5, <2>6 DEF RowsAreStamped
<1>17. /\ SharesAt(p, side)' = SharesAt(p, side) \cup {y1}
       /\ \A q, s : (q # p \/ s # side) => SharesAt(q, s)' = SharesAt(q, s)
  <2>1. \A q, s : SharesAt(q, s)' = {y \in DOMAIN shares' : deals'[shares'[y]].paper = q
                                                             /\ deals'[shares'[y]].side = s}
    BY DEF SharesAt
  <2>2. \A y \in DOMAIN shares : deals'[shares'[y]].paper = deals[shares[y]].paper
                                 /\ deals'[shares'[y]].side = deals[shares[y]].side
    BY <1>10, <1>12, <1>13
  <2>3. deals'[shares'[y1]].paper = p /\ deals'[shares'[y1]].side = side
    BY <1>7, <1>9, <1>10
  <2>4. y1 \in DOMAIN shares'
    BY <1>4, <1>10
  <2>5. ASSUME NEW q, NEW s, q # p \/ s # side PROVE SharesAt(q, s)' = SharesAt(q, s)
    <3>1. {y \in DOMAIN shares' : deals'[shares'[y]].paper = q /\ deals'[shares'[y]].side = s}
        = {y \in DOMAIN shares : deals[shares[y]].paper = q /\ deals[shares[y]].side = s}
      BY <1>10, <1>11, <2>2, <2>3, <2>4, <2>5
    <3> QED
      BY <2>1, <3>1 DEF SharesAt
  <2>6. {y \in DOMAIN shares' : deals'[shares'[y]].paper = p /\ deals'[shares'[y]].side = side}
      = {y \in DOMAIN shares : deals[shares[y]].paper = p /\ deals[shares[y]].side = side} \cup {y1}
    BY <1>10, <1>11, <2>2, <2>3, <2>4
  <2>7. SharesAt(p, side)' = SharesAt(p, side) \cup {y1}
    BY <2>1, <2>6 DEF SharesAt
  <2> QED
    BY <2>5, <2>7
<1>18. \A q, s : Cardinality(SharesAt(q, s)) \in Nat /\ IsFiniteSet(SharesAt(q, s))
                 /\ y1 \notin SharesAt(q, s)
  BY <1>2, <1>4, SharesAreFinite
<1>19. Cardinality(SharesAt(p, side)') = Cardinality(SharesAt(p, side)) + 1
  BY <1>17, <1>18, OneMore
<1>20. ASSUME NEW q \in Papers
       PROVE  PositionIn(deals', q, DOMAIN deals')
                = PositionIn(deals, q, DOMAIN deals)
                    + (IF q # p THEN 0 ELSE IF side = "BUY" THEN 1 ELSE -1)
  <2> DEFINE g == Quantity(deals)
             h == Quantity(deals')
             S == RowsFor(deals, q, DOMAIN deals)
  <2>1. S = RowsFor(deals', q, DOMAIN deals')
    BY <1>9, <1>13 DEF RowsFor
  <2>2. IsFiniteSet(S) /\ S \subseteq DOMAIN deals
    BY <1>3, RowsAreFinite
  <2>3. \A j \in DOMAIN deals : g[j] \in Int /\ h[j] \in Int
    BY <1>3, <1>9, DealSums
  <2>4. \A j \in DOMAIN deals : j # i => g[j] = h[j]
    BY <1>9 DEF Quantity
  <2>5. i \in S <=> q = p
    BY DEF RowsFor
  <2>6. h[i] - g[i] = IF side = "BUY" THEN 1 ELSE -1
    <3>1. g[i] = IF side = "BUY" THEN deals[i].filled ELSE -deals[i].filled
      BY DEF Quantity
    <3>2. h[i] = IF side = "BUY" THEN deals[i].filled + 1 ELSE -(deals[i].filled + 1)
      BY <1>7, <1>9 DEF Quantity
    <3> HIDE DEF g, h
    <3> QED
      BY <1>5, <3>1, <3>2
  <2>7. PositionIn(deals, q, DOMAIN deals) = SumOf(g, S) /\ PositionIn(deals', q, DOMAIN deals') = SumOf(h, S)
    BY <2>1 DEF PositionIn
  <2> HIDE DEF g, h, S
  <2>8. SumOf(g, S) \in Int
    BY <2>2, <2>3, SumIsInt
  <2>9. CASE q = p
    <3>1. SumOf(h, S) = SumOf(g, S) + h[i] - g[i]
      BY <2>2, <2>3, <2>4, <2>5, <2>9, SumMoves
    <3> QED
      BY <2>3, <2>6, <2>7, <2>8, <2>9, <3>1
  <2>10. CASE q # p
    <3>1. SumOf(h, S) = SumOf(g, S)
      BY <2>2, <2>4, <2>5, <2>10, SumOfSame
    <3> QED
      BY <2>7, <2>8, <2>10, <3>1
  <2> QED
    BY <2>9, <2>10
<1>21. Owned(p) = older[p] + PositionIn(deals, p, DOMAIN deals)
  BY <1>3, SumsOfRows DEF Owned
<1>22. \A q \in Papers : older[q] \in Nat /\ PositionIn(deals, q, DOMAIN deals) \in Int
  BY <1>3, DealSums, LedgerAssumption
<1>23. HeldIsCounted'
  <2> SUFFICES ASSUME NEW q \in Papers
               PROVE  /\ older[q] + PositionIn(deals', q, DOMAIN deals') >= 0
                      /\ older[q] + PositionIn(deals', q, DOMAIN deals')
                           = older[q] + Cardinality(SharesAt(q, "BUY")') - Cardinality(SharesAt(q, "SELL")')
    BY <1>1 DEF HeldIsCounted
  <2> DEFINE n == PositionIn(deals, q, DOMAIN deals)
             n1 == PositionIn(deals', q, DOMAIN deals')
             b == Cardinality(SharesAt(q, "BUY"))
             s == Cardinality(SharesAt(q, "SELL"))
  <2>1. older[q] + n >= 0 /\ older[q] + n = older[q] + b - s
    BY <1>2 DEF HeldIsCounted
  <2>2. n \in Int /\ b \in Nat /\ s \in Nat /\ older[q] \in Nat
    BY <1>18, <1>22
  <2>3. n1 = n + (IF q # p THEN 0 ELSE IF side = "BUY" THEN 1 ELSE -1)
    BY <1>20
  <2>4. CASE q # p
    <3>1. Cardinality(SharesAt(q, "BUY")') = b /\ Cardinality(SharesAt(q, "SELL")') = s
      BY <1>17, <2>4
    <3> HIDE DEF n, n1, b, s
    <3> QED
      BY <2>1, <2>2, <2>3, <2>4, <3>1 DEF n1, n, b, s
  <2>5. CASE q = p /\ side = "BUY"
    <3>1. Cardinality(SharesAt(q, "BUY")') = b + 1 /\ Cardinality(SharesAt(q, "SELL")') = s
      BY <1>17, <1>19, <2>5
    <3>2. n1 = n + 1
      BY <2>3, <2>5
    <3> HIDE DEF n, n1, b, s
    <3> QED
      BY <2>1, <2>2, <3>1, <3>2 DEF n1
  <2>6. CASE q = p /\ side = "SELL"
    <3>1. Cardinality(SharesAt(q, "BUY")') = b /\ Cardinality(SharesAt(q, "SELL")') = s + 1
      BY <1>17, <1>19, <2>6
    <3>2. n1 = n - 1
      BY <2>2, <2>3, <2>6
    <3>3. older[q] + n > 0
      BY <1>1, <1>21, <2>6
    <3> HIDE DEF n, n1, b, s
    <3> QED
      BY <2>1, <2>2, <3>1, <3>2, <3>3 DEF n1
  <2> QED
    BY <1>5, <2>4, <2>5, <2>6
<1>24. NoneIsShort'
  <2> SUFFICES ASSUME NEW y \in DOMAIN shares', NEW q, q = deals'[shares'[y]].paper,
                      deals'[shares'[y]].side = "SELL"
               PROVE  Cardinality(SharesBefore(y, q, "SELL")')
                        < older[q] + Cardinality(SharesBefore(y, q, "BUY")')
    BY <1>1 DEF NoneIsShort, SharesBefore
  <2>1. \A s : SharesBefore(y, q, s)' = {z \in SharesAt(q, s)' : z < y}
    BY DEF SharesBefore
  <2>2. CASE y \in DOMAIN shares
    <3>1. ~(y1 < y)
      BY <1>4, <2>2
    <3>2. ASSUME NEW s PROVE SharesBefore(y, q, s)' = SharesBefore(y, q, s)
      <4>1. SharesAt(q, s)' = SharesAt(q, s) \/ SharesAt(q, s)' = SharesAt(q, s) \cup {y1}
        BY <1>17
      <4>2. {z \in SharesAt(q, s)' : z < y} = {z \in SharesAt(q, s) : z < y}
        BY <3>1, <4>1
      <4> QED
        BY <2>1, <4>2 DEF SharesBefore
    <3>3. q = deals[shares[y]].paper /\ deals[shares[y]].side = "SELL"
      BY <1>10, <1>12, <1>13, <2>2
    <3> QED
      BY <1>2, <2>2, <3>2, <3>3 DEF NoneIsShort
  <2>3. CASE y = y1
    <3>1. q = p /\ side = "SELL"
      BY <1>7, <1>9, <1>10, <2>3
    <3>2. ASSUME NEW s PROVE SharesBefore(y, q, s)' = SharesAt(q, s)
      <4>1. SharesAt(q, s)' = SharesAt(q, s) \/ SharesAt(q, s)' = SharesAt(q, s) \cup {y1}
        BY <1>17
      <4>2. \A z \in SharesAt(q, s) : z < y1
        <5>1. SharesAt(q, s) \subseteq DOMAIN shares
          BY <1>2, SharesAreFinite
        <5> QED
          BY <1>4, <5>1
      <4>3. ~(y1 < y1)
        BY <1>4
      <4>4. SharesAt(q, s) \subseteq SharesAt(q, s)'
        BY <4>1
      <4>5. {z \in SharesAt(q, s)' : z < y} = SharesAt(q, s)
        BY <2>3, <4>1, <4>2, <4>3
      <4> QED
        BY <2>1, <4>5
    <3>3. older[q] + PositionIn(deals, q, DOMAIN deals) > 0
      BY <1>1, <1>21, <3>1
    <3>4. older[q] + PositionIn(deals, q, DOMAIN deals)
            = older[q] + Cardinality(SharesAt(q, "BUY")) - Cardinality(SharesAt(q, "SELL"))
      BY <1>2, <1>5, <3>1 DEF HeldIsCounted
    <3>5. /\ Cardinality(SharesAt(q, "BUY")) \in Nat /\ Cardinality(SharesAt(q, "SELL")) \in Nat
          /\ older[q] \in Nat
      BY <1>5, <1>18, <1>22, <3>1
    <3> QED
      BY <3>2, <3>3, <3>4, <3>5
  <2> QED
    BY <1>11, <2>2, <2>3
<1>25. DaysAreKept'
  <2> SUFFICES ASSUME NEW d \in Dates, d < date
               PROVE  WorthBy(deals, d)' = WorthBy(deals, d)
                      /\ \A q \in Papers : HeldOn(deals, q, d)' = HeldOn(deals, q, d)
    BY <1>1, <1>2 DEF DaysAreKept
  <2>1. RowsUpTo(deals, d) = RowsUpTo(deals', d)
    BY <1>9, <1>13 DEF RowsUpTo
  <2>2. \A j \in RowsUpTo(deals, d) : j \in DOMAIN deals /\ j # i
    <3>1. ~(date <= d)
      BY <1>3 DEF Dates
    <3> QED
      BY <1>1, <3>1 DEF RowsUpTo
  <2>3. SameRows(deals, deals', RowsUpTo(deals, d))
    BY <1>9, <2>2 DEF SameRows
  <2>4. WorthBy(deals, d) = WorthBy(deals', d) /\ \A q : HeldOn(deals, q, d) = HeldOn(deals', q, d)
    BY <1>3, <1>9, <2>1, <2>3, KeptDays
  <2>5. WorthBy(deals, d)' = WorthBy(deals', d) /\ \A q : HeldOn(deals, q, d)' = HeldOn(deals', q, d)
    BY <1>1, Zenon DEF WorthBy, HeldOn, LastPrice
  <2> QED
    BY <2>4, <2>5
<1> QED
  BY <1>14, <1>15, <1>16, <1>23, <1>24, <1>25 DEF LedgerInv

LEMMA EvaluationIsWorth ==
    ASSUME LedgerTypeOK, RowsAreCounted
    PROVE  /\ Evaluation = WorthBy(deals, date)
           /\ \A p : HeldOn(deals, p, date) = older[p] + PositionIn(deals, p, DOMAIN deals)
<1>1. market \in Markets /\ older \in Inheritances /\ date \in Dates /\ deals \in Seq(Deal)
  BY DEF LedgerTypeOK
<1>2. RowsUpTo(deals, date) = DOMAIN deals /\ FilledUpTo(deals, date) = Filled
      /\ Filled \in SUBSET (DOMAIN deals)
  BY DEF RowsAreCounted, RowsUpTo, FilledUpTo, Filled
<1>3. \A p : HeldOn(deals, p, date) = older[p] + PositionIn(deals, p, DOMAIN deals)
  BY <1>2 DEF HeldOn
<1>4. \A p : Owned(p) = HeldOn(deals, p, date)
  BY <1>1, <1>3, SumsOfRows DEF Owned
<1>5. Cash(Filled) = CashIn(deals, FilledUpTo(deals, date))
  BY <1>1, <1>2, SumsOfRows
<1> DEFINE g == [p \in Papers |-> Owned(p) * LastPrice(p, date)]
           h == [p \in Papers |-> HeldOn(deals, p, date) * LastPrice(p, date)]
<1>6. Evaluation = Capital + Cash(Filled) + SumFunction(g) /\ DOMAIN g = Papers
  BY DEF Evaluation
<1>7. \A p \in Papers : g[p] = h[p]
  BY <1>4
<1>8. WorthBy(deals, date) = Capital + CashIn(deals, FilledUpTo(deals, date)) + SumOf(h, Papers)
  BY DEF WorthBy
<1> HIDE DEF g, h
<1>9. SumFunction(g) = SumOf(g, Papers) /\ SumOf(g, Papers) = SumOf(h, Papers)
  BY <1>6, <1>7, SumFunctionIs, SumOfSame, LedgerAssumption
<1> QED
  BY <1>3, <1>5, <1>6, <1>8, <1>9

LEMMA EndOfDayKeeps ==
    ASSUME LedgerInv, EndOfDay
    PROVE  LedgerInv'
<1>1. /\ date < LastDate /\ date' = date + 1
      /\ worth' = [worth EXCEPT ![date] = Evaluation]
      /\ navs' \in {navs, [navs EXCEPT ![date] = Evaluation]}
      /\ market' = market /\ older' = older /\ stamping' = stamping
      /\ deals' = deals /\ shares' = shares
  BY DEF EndOfDay
<1>2. /\ LedgerTypeOK /\ RowsAreCounted /\ RowsAreStamped /\ HeldIsCounted /\ NoneIsShort
      /\ DaysAreKept
  BY DEF LedgerInv
<1>3. /\ market \in Markets /\ older \in Inheritances /\ stamping \in {"order", "fill"}
      /\ date \in Dates /\ deals \in Seq(Deal) /\ shares \in Seq(DOMAIN deals)
      /\ navs \in [Dates -> Int] /\ worth \in [Dates -> Int]
  BY <1>2 DEF LedgerTypeOK
<1>4. date \in Nat /\ date + 1 \in Dates /\ ~(date < date)
  BY <1>1, <1>3, LedgerAssumption DEF Dates
<1>5. Evaluation = WorthBy(deals, date)
      /\ \A p : HeldOn(deals, p, date) = older[p] + PositionIn(deals, p, DOMAIN deals)
  BY <1>2, EvaluationIsWorth
<1>6. WorthBy(deals, date) \in Int
  BY <1>3, WorthIsInt
<1>7. worth' \in [Dates -> Int] /\ navs' \in [Dates -> Int]
  BY <1>1, <1>3, <1>5, <1>6
<1>8. LedgerTypeOK'
  BY <1>1, <1>3, <1>4, <1>7 DEF LedgerTypeOK
<1>9. RowsAreCounted'
  <2> SUFFICES ASSUME NEW i \in DOMAIN deals PROVE deals[i].date <= date + 1
    BY <1>1, <1>2 DEF RowsAreCounted
  <2>1. deals[i].date \in Dates
    BY <1>3, DealsHaveFields DEF DealFields
  <2>2. deals[i].date <= date
    BY <1>2 DEF RowsAreCounted
  <2> QED
    BY <1>4, <2>1, <2>2 DEF Dates
<1>10. RowsAreStamped'
  BY <1>1, <1>2 DEF RowsAreStamped
<1>11. \A p, s : SharesAt(p, s)' = SharesAt(p, s)
  BY <1>1 DEF SharesAt
<1>12. HeldIsCounted'
  BY <1>1, <1>2, <1>11 DEF HeldIsCounted
<1>13. \A y, p, s : SharesBefore(y, p, s)' = SharesBefore(y, p, s)
  BY <1>11 DEF SharesBefore
<1>14. NoneIsShort'
  BY <1>1, <1>2, <1>13 DEF NoneIsShort
<1>15. \A d : WorthBy(deals, d)' = WorthBy(deals, d) /\ \A p : HeldOn(deals, p, d)' = HeldOn(deals, p, d)
  BY <1>1, Zenon DEF WorthBy, HeldOn, LastPrice
<1>16. DaysAreKept'
  <2> SUFFICES ASSUME NEW d \in Dates
               PROVE  IF d < date + 1
                      THEN /\ worth'[d] = WorthBy(deals, d) /\ navs'[d] \in {-1, worth'[d]}
                           /\ \A p \in Papers : HeldOn(deals, p, d) >= 0
                      ELSE navs'[d] = -1
    BY <1>1, <1>15 DEF DaysAreKept
  <2>1. d \in Nat /\ d \in DOMAIN worth /\ d \in DOMAIN navs
    BY <1>3 DEF Dates
  <2>2. IF d < date THEN /\ worth[d] = WorthBy(deals, d) /\ navs[d] \in {-1, worth[d]}
                         /\ \A p \in Papers : HeldOn(deals, p, d) >= 0
                    ELSE navs[d] = -1
    BY <1>2 DEF DaysAreKept
  <2>3. CASE d < date
    <3>1. d < date + 1 /\ d # date
      BY <1>4, <2>1, <2>3
    <3>2. worth'[d] = worth[d] /\ navs'[d] = navs[d]
      BY <1>1, <1>3, <3>1
    <3> QED
      BY <2>2, <2>3, <3>1, <3>2
  <2>4. CASE d = date
    <3>1. d < date + 1 /\ navs[d] = -1
      BY <1>4, <2>2, <2>4
    <3>2. worth'[d] = Evaluation /\ navs'[d] \in {-1, Evaluation}
      BY <1>1, <1>3, <2>1, <2>4, <3>1
    <3>3. \A p \in Papers : HeldOn(deals, p, d) >= 0
      BY <1>2, <1>5, <2>4 DEF HeldIsCounted
    <3> QED
      BY <1>5, <2>4, <3>1, <3>2, <3>3
  <2>5. CASE d > date
    <3>1. ~(d < date + 1) /\ d # date /\ ~(d < date)
      BY <1>4, <2>1, <2>5
    <3>2. navs'[d] = navs[d]
      BY <1>1, <1>3, <3>1
    <3> QED
      BY <2>2, <3>1, <3>2
  <2> QED
    BY <1>4, <2>1, <2>3, <2>4, <2>5
<1> QED
  BY <1>8, <1>9, <1>10, <1>12, <1>14, <1>16 DEF LedgerInv

LEMMA LedgerStepInv ==
    ASSUME LedgerInv, LedgerNext
    PROVE  LedgerInv'
  BY PlaceDealKeeps, FillShareKeeps, EndOfDayKeeps DEF LedgerNext

LEMMA LedgerQuiet ==
    ASSUME LedgerInv, UNCHANGED ledgerVars
    PROVE  LedgerInv'
<1>1. /\ market' = market /\ older' = older /\ stamping' = stamping /\ date' = date
      /\ deals' = deals /\ shares' = shares /\ navs' = navs /\ worth' = worth
  BY DEF ledgerVars
<1>2. \A p, s : SharesAt(p, s)' = SharesAt(p, s)
  BY <1>1 DEF SharesAt
<1>3. \A y, p, s : SharesBefore(y, p, s)' = SharesBefore(y, p, s)
  BY <1>2 DEF SharesBefore
<1>4. \A d : WorthBy(deals, d)' = WorthBy(deals, d) /\ \A p : HeldOn(deals, p, d)' = HeldOn(deals, p, d)
  BY <1>1, Zenon DEF WorthBy, HeldOn, LastPrice
<1>5. LedgerTypeOK' /\ RowsAreCounted' /\ RowsAreStamped'
  BY <1>1 DEF LedgerInv, LedgerTypeOK, RowsAreCounted, RowsAreStamped
<1>6. HeldIsCounted' /\ NoneIsShort'
  BY <1>1, <1>2, <1>3 DEF LedgerInv, HeldIsCounted, NoneIsShort
<1>7. DaysAreKept'
  BY <1>1, <1>4 DEF LedgerInv, DaysAreKept
<1> QED
  BY <1>5, <1>6, <1>7 DEF LedgerInv

LEMMA FirstDateIs ==
    ASSUME LedgerTypeOK, Filled # {}
    PROVE  FirstDate \in Dates /\ \A i \in Filled : FirstDate <= deals[i].date
<1> DEFINE D == {deals[i].date : i \in Filled}
<1>1. \A i \in Filled : deals[i].date \in Dates
  BY DealsHaveFields DEF LedgerTypeOK, DealFields, Filled
<1>2. D \subseteq Dates /\ D # {}
  BY <1>1
<1>3. Dates \subseteq Nat
  BY LedgerAssumption DEF Dates
<1> HIDE DEF D
<1>4. Min(D) \in D /\ \A d \in D : Min(D) <= d
  BY <1>2, <1>3, LeastIsMin
<1> QED
  BY <1>2, <1>4 DEF D, FirstDate

LEMMA CalendarIsDates ==
    ASSUME LedgerTypeOK, Filled # {}
    PROVE  CurveCalendar \subseteq Dates
<1>1. \A i \in Filled : deals[i].date \in Dates
  BY DealsHaveFields DEF LedgerTypeOK, DealFields, Filled
<1>2. \A d \in FirstDate..date : d \in Dates
  <2>1. FirstDate \in Dates /\ date \in Dates
    BY FirstDateIs DEF LedgerTypeOK
  <2> QED
    BY <2>1, LedgerAssumption DEF Dates
<1> QED
  BY <1>1, <1>2 DEF CurveCalendar

\* A code that has a bar since the first fill has its last price there.
LEMMA CloseIsLastPrice ==
    ASSUME LedgerTypeOK, Filled # {}, NEW p \in Papers, NEW d \in Dates
    PROVE  /\ CloseOnOrBefore(p, d) \in Nat
           /\ CloseOnOrBefore(p, d) # 0 => CloseOnOrBefore(p, d) = LastPrice(p, d)
<1> DEFINE K == {e \in FirstDate..d : market[p][e] # 0}
           D == {e \in 1..d : market[p][e] # 0}
<1>1. FirstDate \in Nat /\ 1 <= FirstDate /\ d \in Nat /\ 1 <= d
  BY FirstDateIs, LedgerAssumption DEF Dates
<1>2. D \subseteq 0..d /\ K \subseteq D
  BY <1>1
<1>3. \A e \in D : e >= FirstDate => e \in K
  BY <1>1
<1>4. LastPrice(p, d) = market[p][Max(D)] /\ LastPrice(p, d) \in Nat
  BY PricesAreNat DEF LastPrice, LedgerTypeOK
<1>5. CloseOnOrBefore(p, d) = IF K = {} THEN 0 ELSE market[p][Max(K)]
  BY DEF CloseOnOrBefore
<1>6. (\A e \in K : e \in Nat /\ e >= FirstDate) /\ \A e \in D : e \in Nat
  BY <1>1
<1> HIDE DEF K, D
<1>7. CASE K = {}
  BY <1>5, <1>7
<1>8. CASE K # {}
  <2>1. Max(K) \in K /\ \A e \in K : e <= Max(K)
    BY <1>1, <1>2, <1>8, GreatestIsMax
  <2>2. Max(D) \in D /\ \A e \in D : e <= Max(D)
    BY <1>1, <1>2, <1>8, GreatestIsMax
  <2>3. Max(K) \in Nat /\ Max(D) \in Nat /\ Max(K) >= FirstDate /\ Max(K) <= Max(D)
    <3>1. Max(K) \in Nat /\ Max(K) >= FirstDate
      BY <1>6, <2>1
    <3>2. Max(K) \in D
      BY <1>2, <2>1
    <3>3. Max(D) \in Nat
      BY <1>6, <2>2
    <3> QED
      BY <2>2, <3>1, <3>2, <3>3
  <2>4. Max(D) \in K
    BY <1>1, <1>3, <2>2, <2>3
  <2>5. Max(D) <= Max(K)
    BY <2>1, <2>4
  <2>6. Max(D) = Max(K)
    BY <2>3, <2>5
  <2> QED
    BY <1>4, <1>5, <1>8, <2>6
<1> QED
  BY <1>7, <1>8

LEMMA CurveIsWorth ==
    ASSUME LedgerInv, NEW d \in CurveDays, d < date, Snapshots # {} \/ CurveIsComplete(d)
    PROVE  CurveAt(d) = worth[d]
<1>1. LedgerTypeOK /\ DaysAreKept
  BY DEF LedgerInv
<1>2. CASE Snapshots # {}
  <2>1. d \in Dates /\ navs[d] # -1 /\ CurveAt(d) = navs[d]
    BY <1>2 DEF CurveDays, Snapshots, CurveAt
  <2> QED
    BY <1>1, <2>1 DEF DaysAreKept
<1>3. CASE Snapshots = {}
  <2>1. /\ Filled # {} /\ d \in CurveCalendar /\ CurveAt(d) = EquityOn(d) /\ CurveIsComplete(d)
    BY <1>3 DEF CurveDays, CurveAt
  <2>2. d \in Dates
    BY <1>1, <2>1, CalendarIsDates
  <2>3. worth[d] = WorthBy(deals, d) /\ \A p \in Papers : HeldOn(deals, p, d) >= 0
    BY <1>1, <2>2 DEF DaysAreKept
  <2>4. deals \in Seq(Deal) /\ market \in Markets /\ older \in Inheritances
    BY <1>1 DEF LedgerTypeOK
  <2>5. \A p \in Papers : older[p] = 0
    BY <2>1 DEF CurveIsComplete
  <2> DEFINE F == FilledUpTo(deals, d)
             R == RowsUpTo(deals, d)
  <2>6. F = {i \in Filled : deals[i].date \in CurveCalendar /\ deals[i].date <= d}
    <3>1. \A i \in Filled : deals[i].date <= d => deals[i].date \in CurveCalendar
      BY <2>1 DEF CurveIsComplete
    <3> QED
      BY <3>1 DEF FilledUpTo, Filled
  <2>7. F \in SUBSET R /\ R \in SUBSET (DOMAIN deals) /\ \A i \in R \ F : deals[i].filled = 0
    BY <2>4, DealsHaveFields DEF FilledUpTo, RowsUpTo, DealFields
  <2> HIDE DEF F, R
  <2>8. ASSUME NEW p \in Papers
        PROVE  /\ HeldOn(deals, p, d) = PositionIn(deals, p, F)
               /\ PositionIn(deals, p, F) \in Int /\ PositionIn(deals, p, F) >= 0
    <3> DEFINE g == Quantity(deals)
               S == RowsFor(deals, p, R)
               T == RowsFor(deals, p, F)
    <3>1. T \subseteq S /\ S \subseteq DOMAIN deals /\ IsFiniteSet(S) /\ \A i \in S \ T : i \in R \ F
      BY <2>4, <2>7, RowsAreFinite DEF RowsFor
    <3>2. \A i \in S : g[i] \in Int
      BY <2>4, <3>1, DealSums
    <3>3. \A i \in S \ T : g[i] = 0
      <4> TAKE i \in S \ T
      <4>1. deals[i].filled = 0 /\ i \in DOMAIN deals
        BY <2>7, <3>1
      <4> QED
        BY <4>1 DEF Quantity
    <3>4. PositionIn(deals, p, R) = SumOf(g, S) /\ PositionIn(deals, p, F) = SumOf(g, T)
      BY DEF PositionIn
    <3> HIDE DEF g, S, T
    <3>5. SumOf(g, S) = SumOf(g, T)
      BY <3>1, <3>2, <3>3, SumSkips
    <3>6. PositionIn(deals, p, R) \in Int
      BY <2>4, <2>7, DealSums
    <3>7. HeldOn(deals, p, d) = PositionIn(deals, p, R)
      BY <2>5, <3>6 DEF HeldOn, R
    <3> QED
      BY <2>3, <3>4, <3>5, <3>6, <3>7
  <2>9. Cash(F) = CashIn(deals, F) /\ \A p : Position(p, F) = PositionIn(deals, p, F)
    BY <2>4, <2>7, SumsOfRows
  <2> DEFINE g == [p \in Papers |-> Max({0, Position(p, F)}) * CloseOnOrBefore(p, d)]
             h == [p \in Papers |-> HeldOn(deals, p, d) * LastPrice(p, d)]
  <2>10. EquityOn(d) = Capital + Cash(F) + SumFunction(g) /\ DOMAIN g = Papers
    BY <2>6 DEF EquityOn
  <2>11. WorthBy(deals, d) = Capital + CashIn(deals, F) + SumOf(h, Papers)
    BY DEF WorthBy, F
  <2>12. ASSUME NEW p \in Papers PROVE g[p] = h[p]
    <3> DEFINE n == PositionIn(deals, p, F)
               c == CloseOnOrBefore(p, d)
               l == LastPrice(p, d)
    <3>1. n \in Int /\ n >= 0 /\ HeldOn(deals, p, d) = n
      BY <2>8
    <3>2. Max({0, Position(p, F)}) = n
      <4>1. Position(p, F) = n
        BY <2>9
      <4> HIDE DEF n
      <4>2. Max({0, n}) = n
        BY <3>1, LargerOf
      <4> QED
        BY <4>1, <4>2
    <3>3. g[p] = n * c /\ h[p] = n * l
      BY <3>1, <3>2
    <3>4. c \in Nat /\ l \in Nat /\ (c # 0 => c = l)
      BY <1>1, <2>1, <2>2, <2>4, CloseIsLastPrice, PricesAreNat
    <3>5. n # 0 => c # 0
      <4>1. SUFFICES ASSUME n # 0 PROVE c # 0
        OBVIOUS
      <4>2. RowsFor(deals, p, F) # {}
        BY <4>1, SumOfNone DEF PositionIn
      <4>3. PICK i \in F : deals[i].paper = p
        BY <4>2 DEF RowsFor
      <4>4. i \in Filled /\ deals[i].date <= d
        BY <2>6, <4>3
      <4> QED
        BY <2>1, <4>3, <4>4 DEF CurveIsComplete
    <3> HIDE DEF n, c, l, g, h
    <3> QED
      BY <3>1, <3>3, <3>4, <3>5
  <2> HIDE DEF g, h
  <2>13. SumFunction(g) = SumOf(g, Papers) /\ SumOf(g, Papers) = SumOf(h, Papers)
    BY <2>10, <2>12, SumFunctionIs, SumOfSame, LedgerAssumption
  <2> QED
    BY <2>1, <2>3, <2>9, <2>10, <2>11, <2>13
<1> QED
  BY <1>2, <1>3

-----------------------------------------------------------------------------
(* First in, first out.                                                    *)
(*                                                                         *)
(* The lots of a code are a queue of the shares bought and not yet sold,   *)
(* and the rows in the order of their times take its shares one after the  *)
(* other: a sale takes what was bought first.                              *)

\* A queue of lots: the shares first + 1 to last, of which lot j has those after o[j]
\* up to o[j + 1], and every share x of it outlay[x].
LotsOf == [n : Nat, cost : Int]
Queue(lots, o, first, last, outlay) ==
    /\ lots \in Seq(LotsOf) /\ o \in [1..(Len(lots) + 1) -> Nat]
    /\ o[1] = first /\ o[Len(lots) + 1] = last
    /\ \A j \in DOMAIN lots : lots[j].n > 0 /\ o[j + 1] = o[j] + lots[j].n
    /\ \A j \in DOMAIN lots : \A x \in (o[j] + 1)..o[j + 1] : lots[j].cost = outlay[x]
    /\ \A j, k \in DOMAIN o : j < k => o[j] < o[k]

LEMMA QueueFacts ==
    ASSUME NEW lots, NEW o, NEW first, NEW last, NEW outlay, Queue(lots, o, first, last, outlay)
    PROVE  /\ Len(lots) \in Nat /\ DOMAIN lots = 1..Len(lots) /\ DOMAIN o = 1..(Len(lots) + 1)
           /\ \A j \in DOMAIN lots : /\ lots[j].n \in Nat /\ lots[j].n > 0 /\ lots[j].cost \in Int
                                     /\ j \in Nat /\ j + 1 \in DOMAIN o /\ j \in DOMAIN o
                                     /\ o[j + 1] = o[j] + lots[j].n
           /\ \A j \in DOMAIN o : o[j] \in Nat /\ o[j] >= first /\ o[j] <= last
           /\ first \in Nat /\ last \in Nat /\ first <= last
<1>1. lots \in Seq(LotsOf) /\ o \in [1..(Len(lots) + 1) -> Nat] /\ o[1] = first /\ o[Len(lots) + 1] = last
      /\ \A j, k \in DOMAIN o : j < k => o[j] < o[k]
  BY DEF Queue
<1>2. Len(lots) \in Nat /\ DOMAIN lots = 1..Len(lots) /\ DOMAIN o = 1..(Len(lots) + 1)
  BY <1>1
<1>3. 1 \in DOMAIN o /\ Len(lots) + 1 \in DOMAIN o
  BY <1>2
<1>4. \A j \in DOMAIN o : o[j] \in Nat
  BY <1>1
<1>5. ASSUME NEW j \in DOMAIN o PROVE o[j] >= first /\ o[j] <= last
  <2>1. (j = 1 \/ 1 < j) /\ (j = Len(lots) + 1 \/ j < Len(lots) + 1)
    BY <1>2
  <2>2. o[j] \in Nat /\ first \in Nat /\ last \in Nat
    BY <1>1, <1>3, <1>4
  <2> QED
    BY <1>1, <1>3, <2>1, <2>2
<1>6. ASSUME NEW j \in DOMAIN lots
      PROVE  /\ lots[j].n \in Nat /\ lots[j].n > 0 /\ lots[j].cost \in Int
             /\ j \in Nat /\ j + 1 \in DOMAIN o /\ j \in DOMAIN o /\ o[j + 1] = o[j] + lots[j].n
  <2>1. lots[j] \in LotsOf
    BY <1>1
  <2>2. lots[j].n > 0 /\ o[j + 1] = o[j] + lots[j].n
    BY DEF Queue
  <2>3. j \in Nat /\ j + 1 \in DOMAIN o /\ j \in DOMAIN o
    BY <1>2
  <2> QED
    BY <2>1, <2>2, <2>3 DEF LotsOf
<1>7. first \in Nat /\ last \in Nat /\ first <= last
  BY <1>1, <1>3, <1>4, <1>5
<1> QED
  BY <1>2, <1>4, <1>5, <1>6, <1>7

\* The shares of the lots before one.
LEMMA LotsBefore ==
    ASSUME NEW lots, NEW o, NEW first, NEW last, NEW outlay, Queue(lots, o, first, last, outlay),
           NEW k \in DOMAIN lots
    PROVE  SumFunction([j \in 1..(k - 1) |-> lots[j].n]) = o[k] - first
<1> DEFINE h == [j \in DOMAIN lots |-> lots[j].n]
           n == Len(lots)
           SoFar(m) == SumOf(h, 1..m) = o[m + 1] - first
           G == {m \in 0..n : SoFar(m)}
<1>0. o[1] = first
  BY DEF Queue
<1>1. /\ n \in Nat /\ DOMAIN lots = 1..n /\ DOMAIN o = 1..(n + 1) /\ first \in Nat /\ o[1] = first
      /\ \A j \in DOMAIN lots : lots[j].n \in Nat /\ o[j + 1] = o[j] + lots[j].n
      /\ \A j \in DOMAIN o : o[j] \in Nat
  BY <1>0, QueueFacts
<1>2. \A j \in 1..n : h[j] \in Nat /\ o[j + 1] = o[j] + h[j]
  BY <1>1
<1> HIDE DEF h, n
<1>3. SoFar(0)
  <2>1. 1..0 = {} /\ 0 + 1 = 1
    OBVIOUS
  <2>2. SumOf(h, {}) = 0
    BY SumOfNone
  <2> QED
    BY <1>1, <2>1, <2>2
<1>4. ASSUME NEW m \in 0..(n - 1), SoFar(m) PROVE SoFar(m + 1)
  <2>1. m \in Nat /\ m + 1 \in 1..n /\ m + 1 \in DOMAIN o /\ (m + 1) + 1 \in DOMAIN o
        /\ 1..(m + 1) = (1..m) \cup {m + 1} /\ m + 1 \notin 1..m /\ 1..m \subseteq 1..n
    BY <1>1
  <2>2. IsFiniteSet(1..m) /\ \A y \in (1..m) \cup {m + 1} : h[y] \in Int
    <3>1. IsFiniteSet(1..m)
      BY <2>1, FS_Interval
    <3>2. (1..m) \cup {m + 1} \subseteq 1..n
      BY <2>1
    <3> QED
      BY <1>2, <3>1, <3>2
  <2>3. SumOf(h, 1..(m + 1)) = h[m + 1] + SumOf(h, 1..m)
    BY <2>1, <2>2, SumAdds
  <2>4. SumOf(h, 1..m) = o[m + 1] - first
    BY <1>4
  <2>5. o[(m + 1) + 1] = o[m + 1] + h[m + 1] /\ h[m + 1] \in Nat /\ o[m + 1] \in Nat
    BY <1>1, <1>2, <2>1
  <2> QED
    BY <1>1, <2>3, <2>4, <2>5
<1> HIDE DEF SoFar
<1>5. 0 \in G
  BY <1>1, <1>3
<1>6. \A m \in 0..(n - 1) : m \in G => m + 1 \in G
  <2> TAKE m \in 0..(n - 1)
  <2>1. m + 1 \in 0..n
    BY <1>1
  <2> QED
    BY <1>4, <2>1
<1> HIDE DEF G
<1>7. 0..n \subseteq G
  BY <1>1, <1>5, <1>6, StepByStep
<1>8. k \in Nat /\ k - 1 \in 0..n /\ (k - 1) + 1 = k /\ 1..(k - 1) \subseteq DOMAIN lots
  <2>1. n \in Nat /\ k \in 1..n /\ DOMAIN lots = 1..n
    BY <1>1
  <2> QED
    BY ONLY <2>1
<1>9. SumOf(h, 1..(k - 1)) = o[k] - first
  <2>1. k - 1 \in G
    BY <1>7, <1>8
  <2>2. SoFar(k - 1)
    BY <2>1 DEF G
  <2> QED
    BY <1>8, <2>2 DEF SoFar
<1> DEFINE g == [j \in 1..(k - 1) |-> lots[j].n]
<1>10. DOMAIN g = 1..(k - 1) /\ IsFiniteSet(1..(k - 1)) /\ \A j \in 1..(k - 1) : g[j] = h[j]
  <2>1. k - 1 \in Int
    BY <1>8
  <2>2. IsFiniteSet(1..(k - 1))
    BY <2>1, FS_Interval
  <2>3. \A j \in 1..(k - 1) : g[j] = h[j]
    BY <1>8 DEF h
  <2> QED
    BY <2>2, <2>3
<1> HIDE DEF g
<1> DEFINE S == 1..(k - 1)
<1>11. SumFunction(g) = SumOf(g, S) /\ SumOf(g, S) = SumOf(h, S)
  <2>1. DOMAIN g = S /\ IsFiniteSet(S) /\ \A j \in S : g[j] = h[j]
    BY <1>10
  <2> HIDE DEF S
  <2> QED
    BY <2>1, SumFunctionIs, SumOfSame
<1> QED
  BY <1>9, <1>11 DEF g

\* Where a sale up to a share ends within the lots.
UpTo(o, j, end) == IF o[j] <= end THEN o[j] ELSE end

LEMMA TakenIs ==
    ASSUME NEW lots, NEW o, NEW first, NEW last, NEW outlay, Queue(lots, o, first, last, outlay),
           NEW n \in Nat, NEW k \in DOMAIN lots
    PROVE  /\ DOMAIN Taken(lots, n) = DOMAIN lots
           /\ Taken(lots, n)[k] = UpTo(o, k + 1, first + n) - UpTo(o, k, first + n)
           /\ Taken(lots, n)[k] = lots[k].n <=> o[k + 1] <= first + n
<1> DEFINE before == SumFunction([j \in 1..(k - 1) |-> lots[j].n])
           a == n - before
           b == lots[k].n
<1>1. Taken(lots, n)[k] = Max({0, Min({b, a})}) /\ DOMAIN Taken(lots, n) = DOMAIN lots
  BY DEF Taken
<1>2. before = o[k] - first
  BY LotsBefore
<1>3. b \in Nat /\ b > 0 /\ o[k + 1] = o[k] + b /\ o[k] \in Nat /\ o[k] >= first /\ first \in Nat
  BY QueueFacts
<1> HIDE DEF before, a, b
<1>4. a = first + n - o[k] /\ a \in Int
  BY <1>2, <1>3 DEF a
<1>5. Min({b, a}) = IF b <= a THEN b ELSE a
  BY <1>3, <1>4, SmallerOf
<1>6. Min({b, a}) \in Int
  BY <1>3, <1>4, <1>5
<1>7. Max({0, Min({b, a})}) = IF 0 >= Min({b, a}) THEN 0 ELSE Min({b, a})
  BY <1>6, LargerOf
<1>8. Taken(lots, n)[k] = IF b <= a THEN b ELSE IF a <= 0 THEN 0 ELSE a
  BY <1>1, <1>3, <1>4, <1>5, <1>7
<1>9. UpTo(o, k + 1, first + n) = (IF b <= a THEN o[k] + b ELSE first + n)
      /\ UpTo(o, k, first + n) = (IF 0 <= a THEN o[k] ELSE first + n)
  BY <1>3, <1>4 DEF UpTo
<1>10. o[k + 1] <= first + n <=> b <= a
  BY <1>3, <1>4
<1>11. Taken(lots, n)[k] = UpTo(o, k + 1, first + n) - UpTo(o, k, first + n)
  BY <1>3, <1>4, <1>8, <1>9
<1>12. Taken(lots, n)[k] = b <=> b <= a
  BY <1>3, <1>4, <1>8
<1> QED
  BY <1>1, <1>10, <1>11, <1>12 DEF b

\* The lots of a code bring in what their shares do.
LEMMA GainOfLots ==
    ASSUME NEW lots, NEW o, NEW first, NEW last, NEW outlay, Queue(lots, o, first, last, outlay),
           NEW n \in Nat, first + n <= last, NEW w \in Int, NEW u,
           \A x \in (first + 1)..last : u[x] = w - outlay[x]
    PROVE  SumFunction([k \in DOMAIN lots |-> Taken(lots, n)[k] * (w - lots[k].cost)])
             = SumOf(u, (first + 1)..(first + n))
<1> DEFINE drawn == Taken(lots, n)
           m == Len(lots)
           end == first + n
           g == [k \in DOMAIN lots |-> drawn[k] * (w - lots[k].cost)]
           SoFar(k) == SumOf(g, 1..k) = SumOf(u, (first + 1)..UpTo(o, k + 1, end))
           G == {k \in 0..m : SoFar(k)}
<1>0. o[1] = first /\ o[Len(lots) + 1] = last
  BY DEF Queue
<1>1. /\ m \in Nat /\ DOMAIN lots = 1..m /\ DOMAIN o = 1..(m + 1)
      /\ first \in Nat /\ last \in Nat /\ o[1] = first /\ o[m + 1] = last
      /\ end \in Nat /\ first <= end /\ end <= last
  BY <1>0, QueueFacts
<1>2. \A k \in 1..m : /\ lots[k].cost \in Int /\ lots[k].n \in Nat /\ o[k + 1] = o[k] + lots[k].n
                      /\ k \in DOMAIN o /\ k + 1 \in DOMAIN o
  BY <1>1, QueueFacts
<1>3. \A j \in DOMAIN o : o[j] \in Nat /\ o[j] >= first /\ o[j] <= last
  BY QueueFacts
<1>4. \A j \in DOMAIN o : UpTo(o, j, end) \in Nat /\ UpTo(o, j, end) >= first
                          /\ UpTo(o, j, end) <= o[j] /\ UpTo(o, j, end) <= last
  <2> HIDE DEF end
  <2> QED
    BY <1>1, <1>3 DEF UpTo
<1>5. ASSUME NEW k \in 1..m
      PROVE  /\ drawn[k] = UpTo(o, k + 1, end) - UpTo(o, k, end)
             /\ UpTo(o, k, end) <= UpTo(o, k + 1, end)
             /\ drawn[k] # 0 => UpTo(o, k, end) = o[k]
  <2>1. drawn[k] = UpTo(o, k + 1, end) - UpTo(o, k, end)
    BY <1>1, TakenIs
  <2> HIDE DEF drawn, end
  <2>2. o[k] \in Nat /\ lots[k].n \in Nat /\ o[k + 1] = o[k] + lots[k].n
    BY <1>2, <1>3
  <2> QED
    BY <1>1, <2>1, <2>2 DEF UpTo
<1>6. \A x \in (first + 1)..last : u[x] \in Int
  <2> TAKE x \in (first + 1)..last
  <2> DEFINE L == {j \in 1..m : x \in (o[j] + 1)..o[j + 1]}
             Past == {j \in 0..m : o[j + 1] < x}
  <2>1. \E j \in 1..m : x \in (o[j] + 1)..o[j + 1]
    <3>1. SUFFICES ASSUME \A j \in 1..m : x \notin (o[j] + 1)..o[j + 1] PROVE FALSE
      OBVIOUS
    <3>2. x \in Nat /\ first < x /\ x <= last
      BY <1>1
    <3>3. 0 \in Past
      BY <1>1, <3>2
    <3>4. \A j \in 0..(m - 1) : j \in Past => j + 1 \in Past
      <4> TAKE j \in 0..(m - 1)
      <4>1. j + 1 \in 1..m /\ j + 1 \in 0..m
        BY <1>1
      <4>2. o[(j + 1) + 1] \in Nat /\ o[j + 1] \in Nat
        BY <1>2, <1>3, <4>1
      <4>3. j \in Past => ~(x <= o[(j + 1) + 1])
        BY <3>1, <3>2, <4>1, <4>2
      <4> QED
        BY <3>2, <4>1, <4>2, <4>3
    <3> HIDE DEF Past
    <3>5. 0..m \subseteq Past
      BY <1>1, <3>3, <3>4, StepByStep
    <3>6. m \in Past
      BY <1>1, <3>5
    <3> QED
      BY <1>1, <3>2, <3>6 DEF Past
  <2>2. PICK j \in 1..m : x \in (o[j] + 1)..o[j + 1]
    BY <2>1
  <2>3. lots[j].cost = outlay[x]
    BY <1>1, <2>2 DEF Queue
  <2> QED
    BY <1>2, <2>3
<1>7. \A k \in 1..m : g[k] \in Int /\ g[k] = drawn[k] * (w - lots[k].cost)
  <2> TAKE k \in 1..m
  <2>1. drawn[k] \in Int /\ w - lots[k].cost \in Int
    BY <1>2, <1>4, <1>5
  <2>2. g[k] = drawn[k] * (w - lots[k].cost)
    BY <1>1
  <2> HIDE DEF g, drawn
  <2> QED
    BY <2>1, <2>2
<1> HIDE DEF g, drawn, m, end
<1>8. SoFar(0)
  <2>1. 1..0 = {} /\ 0 + 1 = 1
    OBVIOUS
  <2>2. UpTo(o, 1, end) = first
    BY <1>1 DEF UpTo
  <2>3. (first + 1)..first = {}
    BY <1>1
  <2>4. SumOf(g, {}) = 0 /\ SumOf(u, {}) = 0
    BY SumOfNone
  <2> QED
    BY <2>1, <2>2, <2>3, <2>4
<1>9. ASSUME NEW k \in 0..(m - 1), SoFar(k) PROVE SoFar(k + 1)
  <2> DEFINE j == k + 1
             a == UpTo(o, j, end)
             t == UpTo(o, j + 1, end)
             v == w - lots[j].cost
  <2>1. k \in Nat /\ j \in 1..m /\ 1..j = (1..k) \cup {j} /\ j \notin 1..k /\ 1..k \subseteq 1..m
    BY <1>1
  <2>2. IsFiniteSet(1..k) /\ \A y \in (1..k) \cup {j} : g[y] \in Int
    <3>1. IsFiniteSet(1..k)
      BY <2>1, FS_Interval
    <3>2. (1..k) \cup {j} \subseteq 1..m
      BY <2>1
    <3> HIDE DEF j
    <3> QED
      BY <1>7, <3>1, <3>2
  <2>3. SumOf(g, 1..j) = g[j] + SumOf(g, 1..k)
    <3> HIDE DEF j
    <3> QED
      BY <2>1, <2>2, SumAdds
  <2>4. SumOf(g, 1..k) = SumOf(u, (first + 1)..a)
    BY <1>9
  <2>5. a \in Nat /\ t \in Nat /\ a <= t /\ a >= first /\ t <= last /\ drawn[j] = t - a
        /\ (drawn[j] # 0 => a = o[j]) /\ t <= o[j + 1]
    BY <1>2, <1>4, <1>5, <2>1
  <2>6. v \in Int /\ g[j] = drawn[j] * v
    BY <1>2, <1>7, <2>1
  <2>7. \A x \in (a + 1)..t : u[x] = v
    <3> HIDE DEF j, a, t, v
    <3> TAKE x \in (a + 1)..t
    <3>1. drawn[j] # 0
      BY <2>5
    <3>2. a = o[j] /\ o[j] \in Nat /\ o[j + 1] \in Nat
      BY <1>2, <1>3, <2>1, <2>5, <3>1
    <3>3. x \in (o[j] + 1)..o[j + 1] /\ x \in (first + 1)..last
      BY <1>1, <2>5, <3>2
    <3>4. lots[j].cost = outlay[x]
      BY <1>1, <2>1, <3>3 DEF Queue
    <3> QED
      BY <3>3, <3>4 DEF v
  <2> DEFINE d == t - a
  <2>8. d \in Nat /\ a + d = t /\ first + 1 <= a + 1
    <3> HIDE DEF a, t
    <3> QED
      BY <1>1, <2>5
  <2>9. \A x \in (first + 1)..a : u[x] \in Int
    <3> HIDE DEF a
    <3> QED
      BY <1>1, <1>6, <2>5
  <2> HIDE DEF a, t, v, d
  <2>10. first + 1 \in Int /\ a \in Int
    BY <1>1, <2>5
  <2>12. SumOf(u, (first + 1)..t) = SumOf(u, (first + 1)..a) + (t - a) * v
    <3> DEFINE f == first + 1
    <3>1. f \in Int /\ f <= a + 1 /\ IntsOn(u, f, a) /\ OneValueOn(u, a + 1, t, v)
      BY <2>7, <2>8, <2>9, <2>10 DEF IntsOn, OneValueOn
    <3>2. a \in Int /\ t \in Int /\ v \in Int /\ a <= t
      BY <2>5, <2>6, <2>10
    <3> HIDE DEF f
    <3>3. SumOf(u, f..t) = SumOf(u, f..a) + (t - a) * v
      BY <3>1, <3>2, SumGoesOn
    <3> QED
      BY <3>3 DEF f
  <2>13. SumOf(u, (first + 1)..a) \in Int
    BY <2>9, <2>10, FS_Interval, SumIsInt
  <2>14. drawn[j] = d
    BY <2>5 DEF d
  <2>15. SumOf(g, 1..j) = SumOf(u, (first + 1)..t)
    <3> DEFINE s == SumOf(u, (first + 1)..a)
               e == d * v
    <3>1. SumOf(g, 1..j) = e + s
      BY <2>3, <2>4, <2>6, <2>14
    <3>2. SumOf(u, (first + 1)..t) = s + e
      BY <2>12 DEF d
    <3>3. s \in Int /\ e \in Int
      <4>1. d \in Int /\ v \in Int
        BY <2>6, <2>8
      <4> QED
        BY <2>13, <4>1
    <3> HIDE DEF s, e
    <3> QED
      BY <3>1, <3>2, <3>3
  <2> QED
    BY <2>15 DEF t, j
<1> HIDE DEF SoFar
<1>10. 0 \in G
  BY <1>1, <1>8
<1>11. \A k \in 0..(m - 1) : k \in G => k + 1 \in G
  <2> TAKE k \in 0..(m - 1)
  <2>1. k + 1 \in 0..m
    BY <1>1
  <2> QED
    BY <1>9, <2>1
<1> HIDE DEF G
<1>12. 0..m \subseteq G
  BY <1>1, <1>10, <1>11, StepByStep
<1>13. m \in G
  BY <1>1, <1>12
<1>14. UpTo(o, m + 1, end) = end
  BY <1>1 DEF UpTo
<1>15. SumOf(g, 1..m) = SumOf(u, (first + 1)..end)
  BY <1>13, <1>14 DEF G, SoFar
<1>16. SumFunction(g) = SumOf(g, 1..m)
  <2>1. DOMAIN g = 1..m /\ IsFiniteSet(1..m)
    BY <1>1, FS_Interval DEF g
  <2> QED
    BY <2>1, SumFunctionIs
<1> QED
  BY <1>15, <1>16 DEF g, drawn, end

\* After a sale the queue begins later.
LEMMA LeftIsQueue ==
    ASSUME NEW lots, NEW o, NEW first, NEW last, NEW outlay, Queue(lots, o, first, last, outlay),
           NEW n \in Nat, first + n <= last
    PROVE  \E p : Queue(LotsLeft(lots, n), p, first + n, last, outlay)
<1> SUFFICES ASSUME NEW end, end = first + n
             PROVE  \E p : Queue(LotsLeft(lots, n), p, end, last, outlay)
  OBVIOUS
<1> DEFINE drawn == Taken(lots, n)
           m == Len(lots)
           U == {k \in DOMAIN lots : drawn[k] = lots[k].n}
           used == Cardinality(U)
           left == [k \in 1..(m - used) |-> [lots[used + k] EXCEPT !.n = @ - drawn[used + k]]]
           p == [k \in 1..(m - used + 1) |-> IF k = 1 THEN end ELSE o[used + k]]
<1>0. o[1] = first /\ o[Len(lots) + 1] = last /\ lots \in Seq(LotsOf)
  BY DEF Queue
<1>1. /\ m \in Nat /\ DOMAIN lots = 1..m /\ DOMAIN o = 1..(m + 1)
      /\ first \in Nat /\ last \in Nat /\ o[1] = first /\ o[m + 1] = last
      /\ end \in Nat /\ first <= end /\ end <= last
  BY <1>0, QueueFacts
<1>2. \A k \in 1..m : /\ lots[k].cost \in Int /\ lots[k].n \in Nat /\ lots[k].n > 0 /\ o[k + 1] = o[k] + lots[k].n
                      /\ k \in DOMAIN o /\ k + 1 \in DOMAIN o
  BY <1>1, QueueFacts
<1>3. \A j \in DOMAIN o : o[j] \in Nat
  BY QueueFacts
<1>4. \A j, k \in DOMAIN o : j < k => o[j] < o[k]
  BY DEF Queue
<1>5. ASSUME NEW k \in 1..m
      PROVE  /\ drawn[k] = UpTo(o, k + 1, end) - UpTo(o, k, end)
             /\ drawn[k] = lots[k].n <=> o[k + 1] <= end
  <2>1. k \in DOMAIN lots
    BY <1>1
  <2>2. /\ drawn[k] = UpTo(o, k + 1, first + n) - UpTo(o, k, first + n)
        /\ drawn[k] = lots[k].n <=> o[k + 1] <= first + n
    BY <2>1, TakenIs
  <2> QED
    BY <2>2
<1>6. LotsLeft(lots, n) = left
  BY DEF LotsLeft
<1>7. U = {k \in 1..m : o[k + 1] <= end}
  BY <1>1, <1>5
<1> HIDE DEF drawn, m
<1>8. used \in 0..m /\ U = 1..used
  <2>1. U \in SUBSET (1..m)
    BY <1>7
  <2>2. \A x \in U : \A w \in 1..m : w < x => w \in U
    <3> TAKE x \in U
    <3> TAKE w \in 1..m
    <3>1. x \in 1..m /\ o[x + 1] <= end
      BY <1>7
    <3>2. w < x => o[w + 1] < o[x + 1]
      <4>1. w + 1 \in DOMAIN o /\ x + 1 \in DOMAIN o /\ (w < x => w + 1 < x + 1)
        BY <1>1, <3>1
      <4> QED
        BY <1>4, <4>1
    <3>3. o[w + 1] \in Nat /\ o[x + 1] \in Nat
      BY <1>2, <1>3, <3>1
    <3> QED
      BY <1>1, <1>7, <3>1, <3>2, <3>3
  <2> HIDE DEF U
  <2> QED
    BY <1>1, <2>1, <2>2, FirstPlaces
<1>9. used \in Nat /\ used <= m /\ m - used \in Nat
  BY <1>1, <1>8
<1> HIDE DEF used, U
<1>10. used + 1 \in DOMAIN o /\ o[used + 1] <= end
  <2>1. CASE used = 0
    BY <1>1, <2>1
  <2>2. CASE used # 0
    <3>1. used \in U /\ used \in 1..m
      BY <1>8, <1>9, <2>2
    <3> QED
      BY <1>2, <1>7, <3>1
  <2> QED
    BY <2>1, <2>2
<1>11. \A k \in 1..m : k > used => o[k + 1] > end
  <2> TAKE k \in 1..m
  <2>1. k > used => k \notin U
    BY <1>8
  <2>2. o[k + 1] \in Nat
    BY <1>2, <1>3
  <2> QED
    BY <1>1, <1>7, <2>1, <2>2
<1>12. ASSUME NEW k \in 1..(m - used)
       PROVE  /\ used + k \in 1..m /\ k + 1 \in 1..(m - used + 1) /\ k \in 1..(m - used + 1)
              /\ p[k + 1] = o[used + k + 1] /\ p[k] <= p[k + 1]
              /\ p[k + 1] = p[k] + (lots[used + k].n - drawn[used + k])
              /\ lots[used + k].n - drawn[used + k] \in Nat /\ lots[used + k].n - drawn[used + k] > 0
              /\ o[used + k] <= p[k]
  <2>1. used + k \in 1..m /\ k + 1 \in 1..(m - used + 1) /\ k \in 1..(m - used + 1) /\ k + 1 # 1
        /\ used + (k + 1) = used + k + 1 /\ k \in Nat
    BY <1>1, <1>9
  <2>2. p[k + 1] = o[used + k + 1]
    BY <2>1
  <2>3. p[k] = IF k = 1 THEN end ELSE o[used + k]
    BY <2>1
  <2> DEFINE j == used + k
  <2>4. j \in 1..m /\ j > used
    BY <1>9, <2>1
  <2>5. /\ lots[j].n \in Nat /\ lots[j].n > 0 /\ o[j] \in Nat /\ o[j + 1] \in Nat /\ o[j + 1] = o[j] + lots[j].n
        /\ o[j + 1] > end
    BY <1>2, <1>3, <1>11, <2>4
  <2>6. drawn[j] = UpTo(o, j + 1, end) - UpTo(o, j, end)
    BY <1>5, <2>4
  <2> HIDE DEF p, j
  <2> DEFINE Goal == /\ p[k] <= p[k + 1] /\ p[k + 1] = p[k] + (lots[j].n - drawn[j])
                     /\ lots[j].n - drawn[j] \in Nat /\ lots[j].n - drawn[j] > 0
                     /\ o[j] <= p[k]
  <2>7. ASSUME k = 1 PROVE Goal
    <3>1. o[j] <= end
      BY <1>10, <2>7 DEF j
    <3>2. drawn[j] = end - o[j]
      BY <1>1, <2>5, <2>6, <3>1 DEF UpTo
    <3>9. end \in Nat
      BY <1>1
    <3>3. p[k] = end /\ p[k + 1] = o[j + 1]
      BY <2>2, <2>3, <2>7 DEF j
    <3> QED
      BY ONLY <2>5, <3>1, <3>2, <3>3, <3>9
  <2>8. ASSUME k # 1 PROVE Goal
    <3>1. j - 1 \in 1..m /\ j - 1 > used /\ (j - 1) + 1 = j
      <4>1. k > 1 /\ used \in Nat
        BY <1>9, <2>1, <2>8
      <4>2. j - 1 > used /\ (j - 1) + 1 = j /\ j - 1 >= 1
        BY <2>1, <4>1 DEF j
      <4> QED
        BY <1>1, <2>4, <4>2
    <3>2. o[j] > end
      BY <1>11, <3>1
    <3>3. drawn[j] = 0
      BY <1>1, <2>5, <2>6, <3>2 DEF UpTo
    <3>9. end \in Nat
      BY <1>1
    <3>4. p[k] = o[j] /\ p[k + 1] = o[j + 1]
      BY <2>2, <2>3, <2>8 DEF j
    <3> QED
      BY ONLY <2>5, <3>2, <3>3, <3>4, <3>9
  <2>9. Goal
    BY <2>7, <2>8
  <2> QED
    BY <2>1, <2>2, <2>9 DEF j
<1>13. ASSUME NEW k \in 1..(m - used)
       PROVE  /\ left[k] \in LotsOf /\ left[k].n = lots[used + k].n - drawn[used + k]
              /\ left[k].cost = lots[used + k].cost
  <2>1. left[k] = [lots[used + k] EXCEPT !.n = @ - drawn[used + k]]
    OBVIOUS
  <2>2. lots[used + k] \in LotsOf /\ lots[used + k].n - drawn[used + k] \in Nat
    <3>1. used + k \in DOMAIN lots /\ lots[used + k].n - drawn[used + k] \in Nat
      BY <1>1, <1>12
    <3> QED
      BY <1>0, <3>1
  <2> HIDE DEF left
  <2> QED
    BY <2>1, <2>2 DEF LotsOf
<1>14. left \in Seq(LotsOf) /\ Len(left) = m - used /\ DOMAIN left = 1..(m - used)
  <2>1. left \in [1..(m - used) -> LotsOf]
    BY <1>13
  <2> HIDE DEF left
  <2> QED
    BY <1>9, <2>1
<1> HIDE DEF left
<1>15. p \in [1..(Len(left) + 1) -> Nat] /\ DOMAIN p = 1..(m - used + 1)
  <2>1. \A k \in 1..(m - used + 1) : p[k] \in Nat
    <3> TAKE k \in 1..(m - used + 1)
    <3>1. used + k \in DOMAIN o
      BY <1>1, <1>9
    <3> QED
      BY <1>1, <1>3, <3>1
  <2> QED
    BY <1>14, <2>1
<1>16. p[1] = end
  BY <1>9
<1>17. p[Len(left) + 1] = last
  <2>1. m - used + 1 \in 1..(m - used + 1) /\ used + (m - used + 1) = m + 1
    BY <1>1, <1>9
  <2>2. CASE m - used = 0
    <3>1. end = last
      BY <1>1, <1>9, <1>10, <2>2
    <3> QED
      BY <1>14, <1>16, <2>2, <3>1
  <2>3. CASE m - used # 0
    <3>1. m - used + 1 # 1
      BY <1>9, <2>3
    <3> QED
      BY <1>1, <1>14, <2>1, <3>1
  <2> QED
    BY <2>2, <2>3
<1> HIDE DEF p
<1>18. \A k \in DOMAIN left : left[k].n > 0 /\ p[k + 1] = p[k] + left[k].n
  BY <1>12, <1>13, <1>14
<1>19. \A k \in DOMAIN left : \A x \in (p[k] + 1)..p[k + 1] : left[k].cost = outlay[x]
  <2> TAKE k \in DOMAIN left
  <2> TAKE x \in (p[k] + 1)..p[k + 1]
  <2>1. k \in 1..(m - used)
    BY <1>14
  <2>2. used + k \in DOMAIN lots /\ p[k + 1] = o[(used + k) + 1] /\ o[used + k] <= p[k]
    BY <1>1, <1>12, <2>1
  <2>3. p[k] \in Nat /\ p[k + 1] \in Nat /\ o[used + k] \in Nat
    <3>1. k \in 1..(m - used + 1) /\ k + 1 \in 1..(m - used + 1)
      BY <1>12, <2>1
    <3>2. p[k] \in Nat /\ p[k + 1] \in Nat
      BY <1>14, <1>15, <3>1
    <3>3. o[used + k] \in Nat
      BY <1>1, <1>2, <1>3, <2>2
    <3> QED
      BY <3>2, <3>3
  <2>4. x \in (o[used + k] + 1)..o[(used + k) + 1]
    BY <2>2, <2>3
  <2>5. lots[used + k].cost = outlay[x]
    BY <2>2, <2>4 DEF Queue
  <2> QED
    BY <1>13, <2>1, <2>5
<1>20. \A j, k \in DOMAIN p : j < k => p[j] < p[k]
  <2> TAKE j, k \in DOMAIN p
  <2>1. SUFFICES ASSUME j < k PROVE p[j] < p[k]
    OBVIOUS
  <2>2. j \in 1..(m - used + 1) /\ k \in 1..(m - used + 1) /\ k # 1 /\ j \in Nat /\ k \in Nat
    BY <1>9, <1>15, <2>1
  <2>3. p[k] = o[used + k] /\ (p[j] = IF j = 1 THEN end ELSE o[used + j])
    BY <2>2 DEF p
  <2>4. used + k \in DOMAIN o /\ used + j \in DOMAIN o /\ used + j < used + k
    BY <1>1, <1>9, <2>1, <2>2
  <2>5. used + k - 1 \in 1..m /\ used + k - 1 > used /\ (used + k - 1) + 1 = used + k
    BY <1>1, <1>9, <2>1, <2>2
  <2>6. o[used + k] > end
    BY <1>11, <2>5
  <2>7. o[used + j] < o[used + k]
    BY <1>4, <2>4
  <2> QED
    BY <1>1, <1>3, <2>3, <2>4, <2>6, <2>7
<1>21. Queue(left, p, end, last, outlay)
  BY <1>14, <1>15, <1>16, <1>17, <1>18, <1>19, <1>20 DEF Queue
<1> QED
  BY <1>6, <1>21

\* After a purchase it ends later.
LEMMA BoughtIsQueue ==
    ASSUME NEW lots, NEW o, NEW first, NEW last, NEW outlay, Queue(lots, o, first, last, outlay),
           NEW n \in Nat, n > 0, NEW v \in Int, \A x \in (last + 1)..(last + n) : outlay[x] = v
    PROVE  \E p : Queue(Append(lots, [n |-> n, cost |-> v]), p, first, last + n, outlay)
<1> DEFINE m == Len(lots)
           lot == [n |-> n, cost |-> v]
           more == Append(lots, lot)
           p == [k \in 1..(m + 2) |-> IF k = m + 2 THEN last + n ELSE o[k]]
<1>0. o[1] = first /\ o[Len(lots) + 1] = last /\ lots \in Seq(LotsOf)
  BY DEF Queue
<1>1. /\ m \in Nat /\ DOMAIN lots = 1..m /\ DOMAIN o = 1..(m + 1)
      /\ first \in Nat /\ last \in Nat /\ o[1] = first /\ o[m + 1] = last
  BY <1>0, QueueFacts
<1>2. \A j \in DOMAIN o : o[j] \in Nat /\ o[j] <= last
  BY QueueFacts
<1>3. lot \in LotsOf
  BY DEF LotsOf
<1>4. lot.n = n /\ lot.cost = v
  OBVIOUS
<1> HIDE DEF lot, m
<1>5. /\ more \in Seq(LotsOf) /\ Len(more) = m + 1 /\ DOMAIN more = 1..(m + 1)
      /\ more[m + 1] = lot /\ \A k \in 1..m : more[k] = lots[k]
  BY <1>0, <1>1, <1>3 DEF m
<1> HIDE DEF more
<1>6. p \in [1..(Len(more) + 1) -> Nat] /\ DOMAIN p = 1..(m + 2)
  <2>1. \A k \in 1..(m + 2) : p[k] \in Nat
    <3> TAKE k \in 1..(m + 2)
    <3>1. k = m + 2 \/ k \in DOMAIN o
      BY <1>1
    <3> QED
      BY <1>1, <1>2, <3>1
  <2>2. Len(more) + 1 = m + 2
    BY <1>1, <1>5
  <2> QED
    BY <2>1, <2>2
<1>7. p[m + 2] = last + n /\ (\A k \in 1..(m + 1) : p[k] = o[k] /\ k \in 1..(m + 2))
  BY <1>1
<1> HIDE DEF p
<1>8. p[1] = first /\ p[Len(more) + 1] = last + n
  <2>1. 1 \in 1..(m + 1) /\ Len(more) + 1 = m + 2
    BY <1>1, <1>5
  <2> QED
    BY <1>1, <1>7, <2>1
<1>9. ASSUME NEW k \in DOMAIN more
      PROVE  /\ more[k].n > 0 /\ p[k + 1] = p[k] + more[k].n
             /\ \A x \in (p[k] + 1)..p[k + 1] : more[k].cost = outlay[x]
  <2>1. CASE k = m + 1
    <3>1. p[k] = last /\ p[k + 1] = last + n /\ more[k].n = n /\ more[k].cost = v
      <4>1. m + 1 \in 1..(m + 1) /\ (m + 1) + 1 = m + 2
        BY <1>1
      <4> QED
        BY <1>1, <1>4, <1>5, <1>7, <2>1, <4>1
    <3> QED
      BY <3>1
  <2>2. CASE k # m + 1
    <3>1. k \in 1..m /\ k \in 1..(m + 1) /\ k + 1 \in 1..(m + 1)
      BY <1>1, <1>5, <2>2
    <3>2. p[k] = o[k] /\ p[k + 1] = o[k + 1] /\ more[k] = lots[k] /\ k \in DOMAIN lots
      BY <1>1, <1>5, <1>7, <3>1
    <3> QED
      BY <3>2 DEF Queue
  <2> QED
    BY <2>1, <2>2
<1>10. ASSUME NEW j \in DOMAIN p, NEW k \in DOMAIN p, j < k PROVE p[j] < p[k]
  <2>1. j \in 1..(m + 1) /\ j \in DOMAIN o /\ p[j] = o[j] /\ o[j] \in Nat /\ o[j] <= last
    <3>1. j \in 1..(m + 1)
      BY <1>1, <1>6, <1>10
    <3> QED
      BY <1>1, <1>2, <1>7, <3>1
  <2>2. CASE k = m + 2
    BY <1>1, <1>7, <2>1, <2>2
  <2>3. CASE k # m + 2
    <3>1. k \in 1..(m + 1)
      BY <1>1, <1>6, <2>3
    <3>2. p[k] = o[k] /\ k \in DOMAIN o
      BY <1>1, <1>7, <3>1
    <3>3. o[j] < o[k]
      BY <1>10, <2>1, <3>2 DEF Queue
    <3> QED
      BY <2>1, <3>2, <3>3
  <2> QED
    BY <2>2, <2>3
<1>11. Queue(more, p, first, last + n, outlay)
  BY <1>5, <1>6, <1>8, <1>9, <1>10 DEF Queue
<1> QED
  BY <1>11 DEF more, lot

\* The places of some members are as many as they.
PlacesIn(S, T) == {x \in 1..Cardinality(S) : InOrder(S)[x] \in T}

LEMMA PlacesOf ==
    ASSUME NEW S, S \subseteq Nat, IsFiniteSet(S), NEW T \in SUBSET S
    PROVE  Cardinality(PlacesIn(S, T)) = Cardinality(T)
<1> DEFINE s == InOrder(S)
           n == Cardinality(S)
           D == {x \in 1..n : s[x] \in T}
           f == [x \in D |-> s[x]]
<1>1. /\ n \in Nat /\ \A x \in S : \E i \in 1..n : s[i] = x
      /\ \A i, j \in 1..n : i < j => s[i] < s[j]
  BY InOrderIs
<1>0. \A i \in 1..n : s[i] \in Int
  <2>1. s \in Seq(S) /\ Len(s) = n /\ S \subseteq Nat
    BY InOrderIs
  <2> HIDE DEF s, n
  <2>2. \A i \in 1..n : s[i] \in S
    BY <2>1
  <2>3. \A x \in S : x \in Int
    OBVIOUS
  <2> QED
    BY <2>2, <2>3
<1>2. \A i, j \in 1..n : s[i] = s[j] => i = j
  <2> TAKE i, j \in 1..n
  <2>1. HAVE s[i] = s[j]
  <2>2. CASE s[i] \in Int
    BY <1>1, <2>1, <2>2
  <2>3. s[i] \in Int
    BY <1>0
  <2> QED
    BY <2>2, <2>3
<1> HIDE DEF s, n
<1>3. IsFiniteSet(D)
  BY <1>1, FS_Interval, FS_Subset
<1>4. f \in [D -> T]
  OBVIOUS
<1>5. \A x \in T : \E i \in D : f[i] = x
  <2> TAKE x \in T
  <2>1. PICK i \in 1..n : s[i] = x
    BY <1>1
  <2>2. i \in D
    BY <2>1
  <2> QED
    BY <2>1, <2>2
<1>6. \A i, j \in D : f[i] = f[j] => i = j
  BY <1>2
<1> HIDE DEF f, D
<1>7. ExistsBijection(D, T)
  BY <1>4, <1>5, <1>6 DEF ExistsBijection, Bijection, Injection, Surjection, IsInjective
<1>8. Cardinality(T) = Cardinality(D)
  BY <1>3, <1>7, FS_Bijection
<1> QED
  BY <1>8 DEF D, n, s, PlacesIn

\* The rows come in the order of their times, each once.
RowsAreOrdered(dealt) ==
    /\ dealt \in Seq(Filled) /\ \A i \in Filled : \E k \in DOMAIN dealt : dealt[k] = i
    /\ \A j, k \in DOMAIN dealt : j < k => deals[dealt[j]].stamp < deals[dealt[k]].stamp

LEMMA RowsInOrder ==
    ASSUME LedgerInv
    PROVE  RowsAreOrdered(FilledTrades)
<1> DEFINE S == {deals[i].stamp : i \in Filled}
           n == Cardinality(S)
           s == InOrder(S)
           dealt == FilledTrades
<1>1. deals \in Seq(Deal) /\ Filled \subseteq DOMAIN deals
  BY DEF LedgerInv, LedgerTypeOK, Filled
<1>2. IsFiniteSet(Filled) /\ \A i \in Filled : deals[i].stamp \in Nat
  <2>1. IsFiniteSet(Filled)
    BY <1>1, RowsAreFinite
  <2> QED
    BY <1>1, <2>1, DealsHaveFields DEF DealFields
<1>3. S \subseteq Nat /\ IsFiniteSet(S)
  <2>1. S \subseteq Nat
    BY <1>2
  <2>2. IsFiniteSet(S)
    <3>1. MaxDeals \in Int /\ Len(shares) \in Nat /\ Len(deals) <= MaxDeals /\ DOMAIN deals = 1..Len(deals)
          /\ \A i \in DOMAIN deals : deals[i].stamp = i \/ deals[i].stamp <= MaxDeals + Len(shares)
      <4>1. shares \in Seq(DOMAIN deals)
        BY DEF LedgerInv, LedgerTypeOK
      <4>2. Len(shares) \in Nat /\ DOMAIN deals = 1..Len(deals) /\ MaxDeals \in Int
        BY <1>1, <4>1, LedgerAssumption
      <4> QED
        BY <4>2 DEF LedgerInv, RowsAreStamped
    <3>2. S \subseteq 0..(MaxDeals + Len(shares))
      <4>1. ASSUME NEW i \in Filled PROVE deals[i].stamp \in 0..(MaxDeals + Len(shares))
        BY <1>1, <1>2, <3>1
      <4> QED
        BY <4>1
    <3>3. IsFiniteSet(0..(MaxDeals + Len(shares)))
      BY <3>1, FS_Interval
    <3> HIDE DEF S
    <3> QED
      BY <3>2, <3>3, FS_Subset
  <2> QED
    BY <2>1, <2>2
<1>4. /\ s \in Seq(S) /\ DOMAIN s = 1..n /\ n \in Nat /\ \A x \in S : \E i \in 1..n : s[i] = x
      /\ \A i, j \in 1..n : i < j => s[i] < s[j]
  BY <1>3, InOrderIs
<1>5. dealt = [k \in 1..n |-> CHOOSE i \in Filled : deals[i].stamp = s[k]]
  <2>1. DOMAIN s = 1..n
    BY <1>4
  <2>2. dealt = [k \in DOMAIN s |-> CHOOSE i \in Filled : deals[i].stamp = s[k]]
    BY DEF FilledTrades
  <2> HIDE DEF s, n, dealt
  <2>3. DOMAIN dealt = 1..n
    BY <2>1, <2>2
  <2> QED
    BY <2>1, <2>2, Zenon
<1>6. \A k \in 1..n : s[k] \in S
  <2> HIDE DEF s, n, S
  <2> QED
    BY <1>4
<1>7. \A i, j \in Filled : deals[i].stamp = deals[j].stamp => i = j
  BY <1>1 DEF LedgerInv, RowsAreStamped
<1> HIDE DEF s, n
<1>8. ASSUME NEW k \in 1..n PROVE dealt[k] \in Filled /\ deals[dealt[k]].stamp = s[k]
  <2>1. \E i \in Filled : deals[i].stamp = s[k]
    BY <1>6
  <2>2. dealt[k] = CHOOSE i \in Filled : deals[i].stamp = s[k]
    BY <1>5
  <2> QED
    BY <2>1, <2>2
<1>9. dealt \in Seq(Filled) /\ DOMAIN dealt = 1..n
  <2>1. dealt \in [1..n -> Filled]
    BY <1>5, <1>8
  <2> HIDE DEF dealt
  <2> QED
    BY <1>4, <2>1
<1>10. \A i \in Filled : \E k \in 1..n : dealt[k] = i
  <2> TAKE i \in Filled
  <2>1. deals[i].stamp \in S
    OBVIOUS
  <2>2. PICK k \in 1..n : s[k] = deals[i].stamp
    BY <1>4, <2>1
  <2> QED
    BY <1>7, <1>8, <2>2
<1>11. \A j, k \in 1..n : j < k => deals[dealt[j]].stamp < deals[dealt[k]].stamp
  BY <1>4, <1>8
<1> HIDE DEF dealt
<1> QED
  BY <1>9, <1>10, <1>11 DEF RowsAreOrdered, dealt

\* A list of the rows of the shares of a code filled on one side: it has a row as often as
\* shares of it are filled, and goes by the times of the rows.
ListsShares(F, p, side) ==
    /\ F \in Seq(Filled)
    /\ \A x \in DOMAIN F : deals[F[x]].paper = p /\ deals[F[x]].side = side
    /\ \A w, x \in DOMAIN F : w < x => deals[F[w]].stamp <= deals[F[x]].stamp
    /\ \A i \in Filled : deals[i].paper = p /\ deals[i].side = side =>
          Cardinality({x \in DOMAIN F : F[x] = i}) = deals[i].filled

LEMMA SharesAreFilled ==
    ASSUME LedgerInv
    PROVE  shares \in Seq(Filled)
<1>1. shares \in Seq(DOMAIN deals) /\ deals \in Seq(Deal)
  BY DEF LedgerInv, LedgerTypeOK
<1>2. ASSUME NEW y \in DOMAIN shares PROVE shares[y] \in Filled
  <2> DEFINE Y == {z \in DOMAIN shares : shares[z] = shares[y]}
  <2>1. shares[y] \in DOMAIN deals
    BY <1>1
  <2>2. deals[shares[y]].filled = Cardinality(Y)
    BY <2>1 DEF LedgerInv, RowsAreCounted
  <2>3. IsFiniteSet(Y) /\ y \in Y
    BY SharesAreFinite DEF LedgerInv
  <2> HIDE DEF Y
  <2>4. Cardinality(Y) \in Nat /\ Cardinality(Y) # 0
    BY <2>3, FS_CardinalityType, FS_EmptySet
  <2> QED
    BY <2>1, <2>2, <2>4 DEF Filled
<1>3. shares \in [1..Len(shares) -> Filled] /\ Len(shares) \in Nat
  <2>1. DOMAIN shares = 1..Len(shares) /\ Len(shares) \in Nat /\ shares = [y \in DOMAIN shares |-> shares[y]]
    BY <1>1
  <2> QED
    BY <1>2, <2>1
<1> QED
  BY <1>3

\* Where the rows say in which order the shares of a code were filled.
InTime(p) == \A z, y \in DOMAIN shares :
    (deals[shares[z]].paper = p /\ deals[shares[y]].paper = p /\ z < y) =>
        deals[shares[z]].stamp <= deals[shares[y]].stamp

\* A list of shares, and the places it has them from.
PlacesFor(p, sides) ==
    {y \in DOMAIN shares : deals[shares[y]].paper = p /\ deals[shares[y]].side \in sides}
ListsPlaces(F, Q) ==
    /\ Q \in SUBSET Nat /\ IsFiniteSet(Q) /\ F \in Seq(Filled) /\ DOMAIN F = 1..Cardinality(Q)
    /\ Cardinality(Q) \in Nat
    /\ \A x \in DOMAIN F : InOrder(Q)[x] \in Q /\ F[x] = shares[InOrder(Q)[x]]
    /\ \A w, x \in DOMAIN F : w < x => InOrder(Q)[w] < InOrder(Q)[x]
    /\ \A y \in Q : \E x \in DOMAIN F : InOrder(Q)[x] = y

LEMMA SharesOfIs ==
    ASSUME LedgerInv, NEW p, NEW sides
    PROVE  ListsPlaces(SharesOf(p, sides), PlacesFor(p, sides))
<1> DEFINE Q == PlacesFor(p, sides)
           F == SharesOf(p, sides)
<1>1. shares \in Seq(Filled) /\ Q \in SUBSET (DOMAIN shares)
  BY SharesAreFilled DEF PlacesFor
<1>2. F = Chosen(shares, Q)
  BY DEF SharesOf, PlacesFor
<1>3. DOMAIN shares = 1..Len(shares) /\ Len(shares) \in Nat /\ IsFiniteSet(DOMAIN shares)
  <2>1. DOMAIN shares = 1..Len(shares) /\ Len(shares) \in Nat
    BY <1>1
  <2> QED
    BY <2>1, FS_Interval
<1> HIDE DEF Q, F
<1>4. Q \in SUBSET Nat /\ IsFiniteSet(Q)
  BY <1>1, <1>3, FS_Subset
<1>5. /\ F \in Seq(Filled) /\ DOMAIN F = 1..Cardinality(Q) /\ Cardinality(Q) \in Nat
      /\ \A x \in DOMAIN F : InOrder(Q)[x] \in Q /\ F[x] = shares[InOrder(Q)[x]]
      /\ \A w, x \in DOMAIN F : w < x => InOrder(Q)[w] < InOrder(Q)[x]
  BY <1>1, <1>2, ChosenIs
<1>6. \A y \in Q : \E x \in 1..Cardinality(Q) : InOrder(Q)[x] = y
  BY <1>4, InOrderIs
<1> QED
  BY <1>4, <1>5, <1>6 DEF Q, F, ListsPlaces

LEMMA FilledInTime ==
    ASSUME LedgerInv, NEW p, FilledInOrder(p)
    PROVE  InTime(p)
<1> DEFINE Q == PlacesFor(p, {"BUY", "SELL"})
           F == SharesOf(p, {"BUY", "SELL"})
<1>1. /\ Q \in SUBSET Nat /\ DOMAIN F = 1..Cardinality(Q) /\ Cardinality(Q) \in Nat
      /\ \A x \in DOMAIN F : InOrder(Q)[x] \in Q /\ F[x] = shares[InOrder(Q)[x]]
      /\ \A w, x \in DOMAIN F : w < x => InOrder(Q)[w] < InOrder(Q)[x]
      /\ \A y \in Q : \E x \in DOMAIN F : InOrder(Q)[x] = y
  BY SharesOfIs DEF ListsPlaces
<1>2. \A j, k \in DOMAIN F : j < k => deals[F[j]].stamp <= deals[F[k]].stamp
  BY DEF FilledInOrder
<1>3. \A y \in DOMAIN shares : deals[shares[y]].side \in {"BUY", "SELL"}
  <2>1. shares \in Seq(DOMAIN deals) /\ deals \in Seq(Deal)
    BY DEF LedgerInv, LedgerTypeOK
  <2>2. \A y \in DOMAIN shares : shares[y] \in DOMAIN deals
    BY <2>1
  <2> QED
    BY <2>1, <2>2, DealsHaveFields DEF DealFields
<1>4. ASSUME NEW z \in DOMAIN shares, NEW y \in DOMAIN shares,
             deals[shares[z]].paper = p, deals[shares[y]].paper = p, z < y
      PROVE  deals[shares[z]].stamp <= deals[shares[y]].stamp
  <2>1. z \in Q /\ y \in Q
    BY <1>3, <1>4 DEF PlacesFor
  <2> HIDE DEF Q, F
  <2>2. PICK w \in DOMAIN F : InOrder(Q)[w] = z
    BY <1>1, <2>1
  <2>3. PICK x \in DOMAIN F : InOrder(Q)[x] = y
    BY <1>1, <2>1
  <2>4. w < x
    <3>1. w \in Nat /\ x \in Nat /\ z \in Nat /\ y \in Nat
      <4>1. w \in 1..Cardinality(Q) /\ x \in 1..Cardinality(Q) /\ Q \in SUBSET Nat
        BY <1>1
      <4> QED
        BY <2>1, <4>1
    <3>2. ~(x < w) /\ x # w
      BY <1>1, <1>4, <2>2, <2>3, <3>1
    <3> QED
      BY <3>1, <3>2
  <2>5. F[w] = shares[z] /\ F[x] = shares[y]
    BY <1>1, <2>2, <2>3
  <2> QED
    BY <1>2, <2>4, <2>5
<1> QED
  BY <1>4 DEF InTime

LEMMA SharesAreListed ==
    ASSUME LedgerInv, NEW p, InTime(p), NEW side
    PROVE  ListsShares(SharesOf(p, {side}), p, side)
<1> DEFINE Q == PlacesFor(p, {side})
           F == SharesOf(p, {side})
           idx == InOrder(Q)
<1>1. /\ Q \in SUBSET Nat /\ IsFiniteSet(Q) /\ F \in Seq(Filled)
      /\ DOMAIN F = 1..Cardinality(Q) /\ Cardinality(Q) \in Nat
      /\ \A x \in DOMAIN F : idx[x] \in Q /\ F[x] = shares[idx[x]]
      /\ \A w, x \in DOMAIN F : w < x => idx[w] < idx[x]
  BY SharesOfIs DEF ListsPlaces
<1> HIDE DEF F, idx
<1>2. \A x \in DOMAIN F : deals[F[x]].paper = p /\ deals[F[x]].side = side /\ idx[x] \in DOMAIN shares
  BY <1>1 DEF PlacesFor
<1>3. \A w, x \in DOMAIN F : w < x => deals[F[w]].stamp <= deals[F[x]].stamp
  <2> TAKE w, x \in DOMAIN F
  <2>1. HAVE w < x
  <2>2. idx[w] < idx[x] /\ F[w] = shares[idx[w]] /\ F[x] = shares[idx[x]]
    BY <1>1, <2>1
  <2> QED
    BY <1>2, <2>2 DEF InTime
<1>4. ASSUME NEW i \in Filled, deals[i].paper = p, deals[i].side = side
      PROVE  Cardinality({x \in DOMAIN F : F[x] = i}) = deals[i].filled
  <2> DEFINE T == {y \in DOMAIN shares : shares[y] = i}
             D == PlacesIn(Q, T)
  <2>1. T \subseteq Q
    BY <1>4 DEF PlacesFor
  <2>2. i \in DOMAIN deals
    BY DEF Filled
  <2>3. deals[i].filled = Cardinality(T)
    BY <2>2 DEF LedgerInv, RowsAreCounted
  <2>4. {x \in DOMAIN F : F[x] = i} = D
    BY <1>1, <1>2 DEF PlacesIn, idx
  <2> HIDE DEF T, Q
  <2>5. Cardinality(D) = Cardinality(T)
    BY <1>1, <2>1, PlacesOf
  <2> QED
    BY <2>3, <2>4, <2>5
<1> HIDE DEF Q
<1>5. ListsShares(F, p, side)
  BY <1>1, <1>2, <1>3, <1>4 DEF ListsShares
<1> QED
  BY <1>5 DEF F

\* The shares that are of the first rows.
Done(F, dealt, k) == {x \in DOMAIN F : \E j \in 1..k : F[x] = dealt[j]}
DoneTo(F, dealt, k) == Cardinality(Done(F, dealt, k))

\* They are the first shares, and each row of the code and the side adds its own.
DoneGoesOn(F, dealt, p, side) ==
    /\ Len(dealt) \in Nat /\ Len(F) \in Nat
    /\ \A k \in 0..Len(dealt) : /\ DoneTo(F, dealt, k) \in 0..Len(F)
                               /\ Done(F, dealt, k) = 1..DoneTo(F, dealt, k)
    /\ DoneTo(F, dealt, 0) = 0 /\ DoneTo(F, dealt, Len(dealt)) = Len(F)
    /\ \A k \in 1..Len(dealt) :
          IF deals[dealt[k]].paper = p /\ deals[dealt[k]].side = side
          THEN /\ DoneTo(F, dealt, k) = DoneTo(F, dealt, k - 1) + deals[dealt[k]].filled
               /\ \A x \in (DoneTo(F, dealt, k - 1) + 1)..DoneTo(F, dealt, k) : F[x] = dealt[k]
          ELSE DoneTo(F, dealt, k) = DoneTo(F, dealt, k - 1)

LEMMA SharesGoByRows ==
    ASSUME LedgerInv, NEW F, NEW dealt, NEW p, NEW side, ListsShares(F, p, side), RowsAreOrdered(dealt)
    PROVE  DoneGoesOn(F, dealt, p, side)
<1> DEFINE n == Len(dealt)
           D(k) == Done(F, dealt, k)
<1>1. /\ n \in Nat /\ Len(F) \in Nat /\ DOMAIN dealt = 1..n /\ DOMAIN F = 1..Len(F)
      /\ \A x \in DOMAIN F : F[x] \in Filled
      /\ \A k \in DOMAIN dealt : dealt[k] \in Filled
  <2>1. F \in Seq(Filled) /\ dealt \in Seq(Filled)
    BY DEF ListsShares, RowsAreOrdered
  <2> QED
    BY <2>1
<1>2. \A i \in Filled : deals[i].stamp \in Int /\ deals[i].filled \in Nat /\ deals[i].filled > 0
  <2>1. \A i \in Filled : i \in DOMAIN deals /\ deals[i].filled > 0
    BY DEF Filled
  <2>2. deals \in Seq(Deal)
    BY DEF LedgerInv, LedgerTypeOK
  <2> QED
    BY <2>1, <2>2, DealsHaveFields DEF DealFields
<1>3. \A j, k \in DOMAIN dealt : j < k => deals[dealt[j]].stamp < deals[dealt[k]].stamp
  BY DEF RowsAreOrdered
<1>4. \A i \in Filled : \E k \in DOMAIN dealt : dealt[k] = i
  BY DEF RowsAreOrdered
<1>5. ASSUME NEW k \in 0..n PROVE Cardinality(D(k)) \in 0..Len(F) /\ D(k) = 1..Cardinality(D(k))
  <2>1. D(k) \in SUBSET (1..Len(F))
    BY <1>1 DEF Done
  <2>2. ASSUME NEW x \in D(k), NEW w \in 1..Len(F), w < x PROVE w \in D(k)
    <3>1. x \in DOMAIN F /\ w \in DOMAIN F
      BY <1>1, <2>1
    <3>2. PICK j \in 1..k : F[x] = dealt[j]
      BY DEF Done
    <3>3. PICK i \in DOMAIN dealt : dealt[i] = F[w]
      BY <1>1, <1>4, <3>1
    <3>4. deals[F[w]].stamp <= deals[F[x]].stamp
      BY <2>2, <3>1 DEF ListsShares
    <3>5. j \in DOMAIN dealt /\ j \in Nat /\ i \in Nat
      BY <1>1
    <3>6. ~(j < i)
      <4>1. ~(deals[dealt[j]].stamp < deals[dealt[i]].stamp)
        <5>1. deals[F[w]].stamp \in Int /\ deals[F[x]].stamp \in Int
          BY <1>1, <1>2, <3>1
        <5> QED
          BY <3>2, <3>3, <3>4, <5>1
      <4> QED
        BY <1>3, <3>5, <4>1
    <3>7. i \in 1..k
      BY <1>1, <3>5, <3>6
    <3> QED
      BY <3>1, <3>3, <3>7 DEF Done
  <2> HIDE DEF D
  <2>3. \A x \in D(k) : \A w \in 1..Len(F) : w < x => w \in D(k)
    BY <2>2
  <2> QED
    BY <1>1, <2>1, <2>3, FirstPlaces
<1>6. D(0) = {}
  <2>1. 1..0 = {}
    OBVIOUS
  <2> QED
    BY <2>1 DEF Done
<1>7. Cardinality(D(0)) = 0
  BY <1>6, FS_EmptySet
<1>8. Cardinality(D(n)) = Len(F)
  <2>1. D(n) = DOMAIN F
    <3>1. \A x \in DOMAIN F : \E j \in 1..n : F[x] = dealt[j]
      BY <1>1, <1>4
    <3> QED
      BY <3>1 DEF Done
  <2> HIDE DEF D, n
  <2>2. Cardinality(1..Len(F)) = Len(F)
    <3>1. ASSUME NEW m \in Nat PROVE Cardinality(1..m) = m
      <4>1. Cardinality(1..m) = IF 1 > m THEN 0 ELSE m - 1 + 1
        BY FS_Interval
      <4> QED
        BY <4>1
    <3> QED
      BY <1>1, <3>1
  <2> QED
    BY <1>1, <2>1, <2>2
<1>9. ASSUME NEW k \in 1..n
      PROVE  IF deals[dealt[k]].paper = p /\ deals[dealt[k]].side = side
             THEN /\ Cardinality(D(k)) = Cardinality(D(k - 1)) + deals[dealt[k]].filled
                  /\ \A x \in (Cardinality(D(k - 1)) + 1)..Cardinality(D(k)) : F[x] = dealt[k]
             ELSE Cardinality(D(k)) = Cardinality(D(k - 1))
  <2> DEFINE R == {x \in DOMAIN F : F[x] = dealt[k]}
  <2>1. D(k) = D(k - 1) \cup R
    <3>1. \A j : j \in 1..k <=> j \in 1..(k - 1) \/ j = k
      BY <1>1
    <3> QED
      BY <3>1 DEF Done
  <2>2. D(k - 1) \cap R = {}
    <3>1. \A j \in 1..(k - 1) : dealt[j] # dealt[k]
      <4> TAKE j \in 1..(k - 1)
      <4>1. j \in DOMAIN dealt /\ k \in DOMAIN dealt /\ j < k
        BY <1>1
      <4>2. deals[dealt[j]].stamp < deals[dealt[k]].stamp /\ deals[dealt[k]].stamp \in Int
        BY <1>1, <1>2, <1>3, <4>1
      <4> QED
        BY <4>2
    <3> QED
      BY <3>1 DEF Done
  <2>3. dealt[k] \in Filled /\ k - 1 \in 0..n /\ k \in 0..n
    BY <1>1
  <2> DEFINE a == Cardinality(D(k - 1))
             b == Cardinality(D(k))
  <2>4. a \in 0..Len(F) /\ b \in 0..Len(F) /\ D(k - 1) = 1..a /\ D(k) = 1..b
    <3>1. a \in 0..Len(F) /\ D(k - 1) = 1..a
      BY <1>5, <2>3
    <3>2. b \in 0..Len(F) /\ D(k) = 1..b
      BY <1>5, <2>3
    <3> QED
      BY <3>1, <3>2
  <2> HIDE DEF D, a, b
  <2>5. CASE deals[dealt[k]].paper = p /\ deals[dealt[k]].side = side
    <3>1. Cardinality(R) = deals[dealt[k]].filled
      BY <2>3, <2>5 DEF ListsShares
    <3>2. IsFiniteSet(D(k - 1)) /\ IsFiniteSet(R)
      <4>2. \A m \in Nat : IsFiniteSet(1..m)
        BY FS_Interval
      <4>1. IsFiniteSet(DOMAIN F) /\ R \subseteq DOMAIN F /\ IsFiniteSet(1..a)
        BY <1>1, <2>4, <4>2
      <4> HIDE DEF R
      <4> QED
        BY <2>4, <4>1, FS_Subset
    <3> HIDE DEF R
    <3>3. Cardinality(D(k - 1) \cup R) = Cardinality(D(k - 1)) + Cardinality(R) - Cardinality(D(k - 1) \cap R)
      BY <3>2, FS_Union
    <3>4. Cardinality(D(k - 1) \cap R) = 0
      BY <2>2, FS_EmptySet
    <3>5. b = a + deals[dealt[k]].filled
      <4>1. deals[dealt[k]].filled \in Nat
        BY <1>2, <2>3
      <4>2. b = a + deals[dealt[k]].filled - 0
        BY <2>1, <3>1, <3>3, <3>4 DEF a, b
      <4> QED
        BY <2>4, <4>1, <4>2
    <3>6. \A x \in (a + 1)..b : F[x] = dealt[k]
      <4> TAKE x \in (a + 1)..b
      <4>1. x \in D(k) /\ x \notin D(k - 1)
        BY <2>4
      <4>2. x \in R
        BY <2>1, <4>1
      <4> QED
        BY <4>2 DEF R
    <3> QED
      BY <2>5, <3>5, <3>6 DEF a, b
  <2>6. CASE ~(deals[dealt[k]].paper = p /\ deals[dealt[k]].side = side)
    <3>1. R = {}
      BY <2>6 DEF ListsShares
    <3> HIDE DEF R
    <3>2. D(k) = D(k - 1)
      BY <2>1, <3>1
    <3> QED
      BY <2>6, <3>2 DEF a, b
  <2> QED
    BY <2>5, <2>6
<1> QED
  BY <1>1, <1>5, <1>7, <1>8, <1>9 DEF DoneGoesOn, DoneTo

\* What the rows up to a sale sold, the rows before it bought.
LEMMA SoldAreBought ==
    ASSUME LedgerInv, NEW p \in Papers, older[p] = 0, InTime(p), NEW dealt, RowsAreOrdered(dealt),
           NEW k \in 1..Len(dealt), deals[dealt[k]].paper = p, deals[dealt[k]].side = "SELL"
    PROVE  DoneTo(SharesOf(p, {"SELL"}), dealt, k) <= DoneTo(SharesOf(p, {"BUY"}), dealt, k - 1)
<1> DEFINE S == SharesOf(p, {"SELL"})
           B == SharesOf(p, {"BUY"})
           QS == PlacesFor(p, {"SELL"})
           QB == PlacesFor(p, {"BUY"})
           m == DoneTo(S, dealt, k)
           y == InOrder(QS)[m]
           T1 == {z \in QS : z < y}
           T2 == {z \in QB : z < y}
           X1 == PlacesIn(QS, T1)
           X2 == PlacesIn(QB, T2)
<1>1. DoneGoesOn(S, dealt, p, "SELL") /\ DoneGoesOn(B, dealt, p, "BUY")
  BY SharesAreListed, SharesGoByRows
<1>2. ListsPlaces(S, QS) /\ ListsPlaces(B, QB)
  BY SharesOfIs
<1> HIDE DEF S, B
<1>3. k - 1 \in 0..Len(dealt) /\ k \in 0..Len(dealt) /\ Len(dealt) \in Nat /\ DOMAIN dealt = 1..Len(dealt)
      /\ dealt[k] \in Filled
  <2>1. Len(dealt) \in Nat /\ dealt \in Seq(Filled)
    BY DEF RowsAreOrdered
  <2> QED
    BY <2>1
<1>4. m \in Nat /\ m >= 1 /\ m <= Len(S) /\ S[m] = dealt[k] /\ Len(S) \in Nat
  <2> DEFINE a == DoneTo(S, dealt, k - 1)
  <2>1. a \in 0..Len(S) /\ m \in 0..Len(S) /\ Len(S) \in Nat
    BY <1>1, <1>3 DEF DoneGoesOn
  <2>2. m = a + deals[dealt[k]].filled /\ \A x \in (a + 1)..m : S[x] = dealt[k]
    BY <1>1 DEF DoneGoesOn
  <2>3. deals[dealt[k]].filled \in Nat /\ deals[dealt[k]].filled > 0
    <3>1. dealt[k] \in DOMAIN deals /\ deals[dealt[k]].filled > 0 /\ deals \in Seq(Deal)
      BY <1>3 DEF Filled, LedgerInv, LedgerTypeOK
    <3> QED
      BY <3>1, DealsHaveFields DEF DealFields
  <2> HIDE DEF a, m
  <2>4. m \in (a + 1)..m
    BY <2>1, <2>2, <2>3
  <2> QED
    BY <2>1, <2>2, <2>4
<1> HIDE DEF m
<1>5. /\ QS \in SUBSET Nat /\ IsFiniteSet(QS) /\ Cardinality(QS) \in Nat /\ DOMAIN S = 1..Cardinality(QS)
      /\ S \in Seq(Filled)
      /\ \A x \in DOMAIN S : InOrder(QS)[x] \in QS /\ S[x] = shares[InOrder(QS)[x]]
      /\ \A w, x \in DOMAIN S : w < x => InOrder(QS)[w] < InOrder(QS)[x]
  BY <1>2 DEF ListsPlaces
<1>6. /\ QB \in SUBSET Nat /\ IsFiniteSet(QB) /\ Cardinality(QB) \in Nat /\ DOMAIN B = 1..Cardinality(QB)
      /\ B \in Seq(Filled)
      /\ \A x \in DOMAIN B : InOrder(QB)[x] \in QB /\ B[x] = shares[InOrder(QB)[x]]
  BY <1>2 DEF ListsPlaces
<1>7. m \in DOMAIN S /\ y \in QS /\ shares[y] = dealt[k]
  <2>1. m \in DOMAIN S
    BY <1>4, <1>5
  <2> QED
    BY <1>4, <1>5, <2>1
<1>8. y \in DOMAIN shares /\ deals[shares[y]].paper = p /\ deals[shares[y]].side = "SELL"
  BY <1>7 DEF PlacesFor
<1> HIDE DEF QS, QB
<1>9. Cardinality(T1) < Cardinality(T2)
  <2>1. SharesBefore(y, p, "SELL") = T1 /\ SharesBefore(y, p, "BUY") = T2
    BY DEF SharesBefore, SharesAt, PlacesFor, QS, QB
  <2> HIDE DEF y, T1, T2
  <2>2. Cardinality(SharesBefore(y, p, "SELL")) < older[p] + Cardinality(SharesBefore(y, p, "BUY"))
    BY <1>8 DEF LedgerInv, NoneIsShort
  <2>3. Cardinality(SharesBefore(y, p, "BUY")) \in Nat
    <3>1. IsFiniteSet(T2)
      BY <1>6, FS_Subset DEF T2
    <3> QED
      BY <2>1, <3>1, FS_CardinalityType
  <2> QED
    BY <2>1, <2>2, <2>3
<1>10. Cardinality(T1) = m - 1
  <2>1. X1 = 1..(m - 1)
    <3>1. ASSUME NEW x \in 1..Cardinality(QS)
          PROVE  InOrder(QS)[x] < y <=> x < m
      <4>1. x \in DOMAIN S /\ x \in Nat
        BY <1>5
      <4>2. InOrder(QS)[x] \in Int /\ y \in Int
        <5>1. \A z \in QS : z \in Int
          BY <1>5
        <5>2. InOrder(QS)[x] \in QS
          BY <1>5, <4>1
        <5> HIDE DEF y
        <5> QED
          BY <1>7, <5>1, <5>2
      <4>3. x < m => InOrder(QS)[x] < y
        BY <1>5, <1>7, <4>1
      <4>4. m < x => y < InOrder(QS)[x]
        BY <1>5, <1>7, <4>1
      <4> HIDE DEF y
      <4>5. x = m => InOrder(QS)[x] = y
        BY DEF y
      <4> QED
        BY <1>4, <4>1, <4>2, <4>3, <4>4, <4>5
    <3>2. \A x \in 1..Cardinality(QS) : InOrder(QS)[x] \in QS
      BY <1>5
    <3>3. m - 1 <= Cardinality(QS) /\ m \in 1..Cardinality(QS)
      BY <1>4, <1>5, <1>7
    <3> HIDE DEF y
    <3>4. X1 = {x \in 1..Cardinality(QS) : x < m}
      BY <3>1, <3>2 DEF PlacesIn
    <3> HIDE DEF X1
    <3> QED
      BY <1>4, <1>5, <3>3, <3>4
  <2>2. Cardinality(1..(m - 1)) = m - 1
    <3>1. m - 1 \in Int /\ (1 > m - 1 => m - 1 = 0)
      BY <1>4
    <3>2. Cardinality(1..(m - 1)) = IF 1 > m - 1 THEN 0 ELSE (m - 1) - 1 + 1
      BY <3>1, FS_Interval
    <3> QED
      BY <1>4, <3>1, <3>2
  <2>3. T1 \in SUBSET QS
    OBVIOUS
  <2>5. QS \subseteq Nat /\ IsFiniteSet(QS)
    BY <1>5
  <2> HIDE DEF T1
  <2>4. Cardinality(X1) = Cardinality(T1)
    BY <2>3, <2>5, PlacesOf
  <2> QED
    BY <2>1, <2>2, <2>4
<1>11. X2 \subseteq Done(B, dealt, k - 1)
  <2> SUFFICES ASSUME NEW x \in X2 PROVE x \in Done(B, dealt, k - 1)
    OBVIOUS
  <2> DEFINE z == InOrder(QB)[x]
  <2>1. x \in DOMAIN B /\ z \in QB /\ z < y /\ B[x] = shares[z]
    BY <1>6 DEF PlacesIn
  <2>2. z \in DOMAIN shares /\ deals[shares[z]].paper = p /\ deals[shares[z]].side = "BUY"
    BY <2>1 DEF QB, PlacesFor
  <2> HIDE DEF z, y
  <2>3. deals[shares[z]].stamp <= deals[shares[y]].stamp
    BY <1>8, <2>1, <2>2 DEF InTime
  <2>4. B[x] \in Filled
    BY <1>6, <2>1
  <2>5. PICK i \in DOMAIN dealt : dealt[i] = B[x]
    BY <2>4 DEF RowsAreOrdered
  <2>6. i # k
    BY <1>7, <1>8, <2>1, <2>2, <2>5
  <2>7. ~(k < i)
    <3>1. deals[dealt[i]].stamp \in Int /\ deals[dealt[k]].stamp \in Int
      <4>1. dealt[i] \in DOMAIN deals /\ dealt[k] \in DOMAIN deals /\ deals \in Seq(Deal)
        BY <1>3, <2>4, <2>5 DEF Filled, LedgerInv, LedgerTypeOK
      <4> QED
        BY <4>1, DealsHaveFields DEF DealFields
    <3>2. deals[dealt[i]].stamp <= deals[dealt[k]].stamp
      BY <1>7, <2>1, <2>3, <2>5
    <3>3. ~(deals[dealt[k]].stamp < deals[dealt[i]].stamp)
      BY <3>1, <3>2
    <3> QED
      BY <1>3, <3>3 DEF RowsAreOrdered
  <2>8. i \in 1..(k - 1)
    BY <1>3, <2>6, <2>7
  <2> QED
    BY <2>1, <2>5, <2>8 DEF Done
<1>12. Cardinality(X2) = Cardinality(T2)
  <2>1. T2 \in SUBSET QB
    OBVIOUS
  <2>2. QB \subseteq Nat /\ IsFiniteSet(QB)
    BY <1>6
  <2> HIDE DEF T2
  <2> QED
    BY <2>1, <2>2, PlacesOf
<1>13. Cardinality(X2) \in Nat /\ Cardinality(X2) <= DoneTo(B, dealt, k - 1) /\ DoneTo(B, dealt, k - 1) \in Nat
  <2>1. DoneTo(B, dealt, k - 1) \in 0..Len(B) /\ Done(B, dealt, k - 1) = 1..DoneTo(B, dealt, k - 1)
    BY <1>1, <1>3 DEF DoneGoesOn
  <2>2. DoneTo(B, dealt, k - 1) \in Nat
    BY <2>1
  <2>3. IsFiniteSet(1..DoneTo(B, dealt, k - 1))
    BY <2>2, FS_Interval
  <2>4. IsFiniteSet(Done(B, dealt, k - 1))
    BY <2>1, <2>3
  <2> HIDE DEF X2
  <2>5. IsFiniteSet(X2) /\ Cardinality(X2) <= Cardinality(Done(B, dealt, k - 1))
    BY <1>11, <2>4, FS_Subset
  <2> QED
    BY <2>2, <2>5, FS_CardinalityType DEF DoneTo
<1>14. m <= DoneTo(B, dealt, k - 1)
  BY <1>4, <1>9, <1>10, <1>12, <1>13
<1> QED
  BY <1>14 DEF m, S, B

\* The lots and the profit after each row.
FirstBooks == [lots |-> [q \in Papers |-> <<>>], sum |-> 0]
AreBooks(b, dealt, days, papers) ==
    b = [k \in 0..Len(dealt) |-> IF k = 0 THEN FirstBooks ELSE Matched(b[k - 1], dealt[k], days, papers)]

LEMMA BooksExist ==
    ASSUME NEW dealt, Len(dealt) \in Nat, NEW days, NEW papers
    PROVE  \E b : AreBooks(b, dealt, days, papers)
<1> DEFINE n == Len(dealt)
           Next1(s, k) == Matched(s, dealt[k], days, papers)
           Has(m, b) == b = [k \in 0..m |-> IF k = 0 THEN FirstBooks ELSE Next1(b[k - 1], k)]
           G == {m \in 0..n : \E b : Has(m, b)}
<1> HIDE DEF Next1, n
<1>0. n \in Nat
  BY DEF n
<1>1. 0 \in G
  <2>1. Has(0, [k \in 0..0 |-> FirstBooks])
    OBVIOUS
  <2> HIDE DEF Has
  <2> QED
    BY <1>0, <2>1
<1>2. ASSUME NEW m \in 0..(n - 1), NEW b, Has(m, b) PROVE \E c : Has(m + 1, c)
  <2> DEFINE c == [k \in 0..(m + 1) |-> IF k = m + 1 THEN Next1(b[m], m + 1) ELSE b[k]]
  <2>1. ASSUME NEW k \in 0..(m + 1)
        PROVE  c[k] = IF k = 0 THEN FirstBooks ELSE Next1(c[k - 1], k)
    <3>0. m \in Nat /\ k \in Nat /\ 0 # m + 1 /\ 0 \in 0..(m + 1)
      BY <1>0
    <3>1. CASE k = 0
      <4>1. c[0] = b[0]
        BY <3>0
      <4>2. 0 \in 0..m
        BY <3>0
      <4>3. b[0] = FirstBooks
        BY <1>2, <4>2
      <4> HIDE DEF c
      <4> QED
        BY <3>1, <4>1, <4>3
    <3>2. CASE k # 0 /\ k # m + 1
      <4>1. k \in 0..m /\ k - 1 \in 0..(m + 1) /\ k - 1 # m + 1
        BY <3>0, <3>2
      <4>2. c[k] = b[k] /\ c[k - 1] = b[k - 1]
        BY <3>2, <4>1
      <4>3. b[k] = Next1(b[k - 1], k)
        BY <1>2, <3>2, <4>1
      <4> HIDE DEF c
      <4> QED
        BY <3>2, <4>2, <4>3
    <3>3. CASE k = m + 1
      <4>1. k - 1 = m /\ m \in 0..(m + 1) /\ m # m + 1 /\ k # 0
        BY <3>0, <3>3
      <4>2. c[k] = Next1(b[m], k) /\ c[m] = b[m]
        BY <3>3, <4>1
      <4> HIDE DEF c
      <4> QED
        BY <4>1, <4>2
    <3> QED
      BY <3>1, <3>2, <3>3
  <2>2. c = [k \in 0..(m + 1) |-> c[k]]
    OBVIOUS
  <2> HIDE DEF c
  <2>3. Has(m + 1, c)
    BY <2>1, <2>2
  <2> QED
    BY <2>3
<1> HIDE DEF Has
<1>3. \A m \in 0..(n - 1) : m \in G => m + 1 \in G
  <2> TAKE m \in 0..(n - 1)
  <2>1. m + 1 \in 0..n
    BY <1>0
  <2> QED
    BY <1>2, <2>1
<1> HIDE DEF G
<1>4. 0..n \subseteq G
  BY <1>0, <1>1, <1>3, StepByStep
<1>5. n \in G
  BY <1>0, <1>4
<1>6. PICK b : Has(n, b)
  BY <1>5 DEF G
<1>7. AreBooks(b, dealt, days, papers)
  BY <1>6 DEF Has, Next1, n, AreBooks
<1> QED
  BY <1>7

LEMMA RealizedIs ==
    ASSUME NEW from, NEW to, NEW papers, Len(FilledTrades) \in Nat
    PROVE  \E b : /\ AreBooks(b, FilledTrades, from..to, papers)
                  /\ RealizedBetween(from, to, papers) = b[Len(FilledTrades)].sum
<1> DEFINE b == CHOOSE b : AreBooks(b, FilledTrades, from..to, papers)
<1>1. AreBooks(b, FilledTrades, from..to, papers)
  BY BooksExist
<1>2. RealizedBetween(from, to, papers) = b[Len(FilledTrades)].sum
  BY DEF RealizedBetween, AreBooks, FirstBooks
<1> QED
  BY <1>1, <1>2

\* Where the books of a code stand: the shares that are sold and bought, and the profit.
StandAt(state, p, first, last, outlay, sum) == \E l :
    /\ state = [lots |-> l, sum |-> sum] /\ l = [q \in Papers |-> l[q]]
    /\ \E o : Queue(l[p], o, first, last, outlay)

LEMMA OthersMatched ==
    ASSUME NEW state, NEW p \in Papers, NEW first, NEW last, NEW outlay, NEW sum,
           StandAt(state, p, first, last, outlay, sum),
           NEW i, deals[i].paper \in Papers, deals[i].paper # p, NEW days
    PROVE  StandAt(Matched(state, i, days, {p}), p, first, last, outlay, sum)
<1>1. PICK l : /\ state = [lots |-> l, sum |-> sum] /\ l = [q \in Papers |-> l[q]]
               /\ \E o : Queue(l[p], o, first, last, outlay)
  BY DEF StandAt
<1> DEFINE w == deals[i].paper
<1>2. CASE deals[i].side = "BUY"
  <2> DEFINE lot == [n |-> deals[i].filled, cost |-> -ShareFlow(i)]
             m == [l EXCEPT ![w] = Append(@, lot)]
  <2>1. Matched(state, i, days, {p}) = [state EXCEPT !.lots[w] = Append(@, lot)]
    BY <1>2 DEF Matched
  <2> HIDE DEF lot
  <2>2. [state EXCEPT !.lots[w] = Append(@, lot)] = [lots |-> m, sum |-> sum]
    <3>1. state = [lots |-> l, sum |-> sum]
      BY <1>1
    <3> QED
      BY ONLY <3>1
  <2>3. m[p] = l[p] /\ m = [q \in Papers |-> m[q]]
    BY <1>1
  <2> HIDE DEF m
  <2> QED
    BY <1>1, <2>1, <2>2, <2>3 DEF StandAt
<1>3. CASE deals[i].side # "BUY"
  <2> DEFINE x == LotsLeft(l[w], deals[i].filled)
             m == [l EXCEPT ![w] = x]
  <2>1. Matched(state, i, days, {p}) = [lots |-> m, sum |-> sum]
    BY <1>1, <1>3 DEF Matched
  <2> HIDE DEF x
  <2>3. m[p] = l[p] /\ m = [q \in Papers |-> m[q]]
    BY <1>1
  <2> HIDE DEF m
  <2> QED
    BY <1>1, <2>1, <2>3 DEF StandAt
<1> QED
  BY <1>2, <1>3

DrawnCosts(outlay, from, to, v) == \A x \in from..to : outlay[x] = v

LEMMA BuyMatched ==
    ASSUME NEW state, NEW p \in Papers, NEW first, NEW last, NEW outlay, NEW sum,
           StandAt(state, p, first, last, outlay, sum),
           NEW i, deals[i].paper = p, deals[i].side = "BUY", NEW days,
           NEW n, n = deals[i].filled, n \in Nat, n > 0, ShareFlow(i) \in Int,
           DrawnCosts(outlay, last + 1, last + n, -ShareFlow(i))
    PROVE  StandAt(Matched(state, i, days, {p}), p, first, last + n, outlay, sum)
<1>1. PICK l : /\ state = [lots |-> l, sum |-> sum] /\ l = [q \in Papers |-> l[q]]
               /\ \E o : Queue(l[p], o, first, last, outlay)
  BY DEF StandAt
<1> DEFINE v == -ShareFlow(i)
           lot == [n |-> n, cost |-> v]
           x == Append(l[p], lot)
           m == [l EXCEPT ![p] = Append(@, lot)]
<1>2. Matched(state, i, days, {p}) = [state EXCEPT !.lots[p] = Append(@, lot)]
  BY DEF Matched
<1> HIDE DEF lot
<1>3. [state EXCEPT !.lots[p] = Append(@, lot)] = [lots |-> m, sum |-> sum]
  <2>1. state = [lots |-> l, sum |-> sum]
    BY <1>1
  <2> QED
    BY ONLY <2>1
<1>4. v \in Int /\ \A y \in (last + 1)..(last + n) : outlay[y] = v
  BY DEF DrawnCosts
<1> HIDE DEF v
<1>5. \E o : Queue(x, o, first, last + n, outlay)
  BY <1>1, <1>4, BoughtIsQueue DEF lot
<1>6. m[p] = x /\ m = [q \in Papers |-> m[q]]
  BY <1>1
<1> HIDE DEF x
<1> HIDE DEF m
<1> QED
  BY <1>2, <1>3, <1>5, <1>6 DEF StandAt

DrawnGains(u, from, to, w, outlay) == \A x \in from..to : u[x] = w - outlay[x]

LEMMA SellMatched ==
    ASSUME NEW state, NEW p \in Papers, NEW first, NEW last, NEW outlay, NEW sum,
           StandAt(state, p, first, last, outlay, sum),
           NEW i, deals[i].paper = p, deals[i].side = "SELL", NEW days,
           NEW n, n = deals[i].filled, n \in Nat, first + n <= last, ShareFlow(i) \in Int,
           NEW u, DrawnGains(u, first + 1, last, ShareFlow(i), outlay)
    PROVE  StandAt(Matched(state, i, days, {p}), p, first + n, last, outlay,
                   IF deals[i].date \in days THEN sum + SumOf(u, (first + 1)..(first + n)) ELSE sum)
<1>1. PICK l : /\ state = [lots |-> l, sum |-> sum] /\ l = [q \in Papers |-> l[q]]
               /\ \E o : Queue(l[p], o, first, last, outlay)
  BY DEF StandAt
<1> DEFINE x == LotsLeft(l[p], n)
           m == [l EXCEPT ![p] = x]
           gain == LotGain(i, l[p])
           t == IF deals[i].date \in days THEN sum + gain ELSE sum
           w == ShareFlow(i)
<1>2. Matched(state, i, days, {p}) = [lots |-> m, sum |-> t]
  BY <1>1 DEF Matched
<1>3. \E o : Queue(x, o, first + n, last, outlay)
  BY <1>1, LeftIsQueue
<1>4. gain = SumOf(u, (first + 1)..(first + n))
  <2>1. gain = SumFunction([k \in DOMAIN l[p] |-> Taken(l[p], n)[k] * (w - l[p][k].cost)])
    BY DEF LotGain
  <2>2. w \in Int /\ \A y \in (first + 1)..last : u[y] = w - outlay[y]
    BY DEF DrawnGains
  <2> HIDE DEF w, gain
  <2> DEFINE lots == l[p]
  <2>3. PICK o : Queue(lots, o, first, last, outlay)
    BY <1>1
  <2>4. gain = SumFunction([k \in DOMAIN lots |-> Taken(lots, n)[k] * (w - lots[k].cost)])
    BY <2>1
  <2> HIDE DEF lots
  <2>5. n \in Nat /\ first + n <= last
    OBVIOUS
  <2>6. SumFunction([k \in DOMAIN lots |-> Taken(lots, n)[k] * (w - lots[k].cost)])
             = SumOf(u, (first + 1)..(first + n))
    BY ONLY <2>2, <2>3, <2>5, GainOfLots, SMTT(40)
  <2> QED
    BY <2>4, <2>6
<1> HIDE DEF x, gain
<1>5. m[p] = x /\ m = [q \in Papers |-> m[q]]
  BY <1>1
<1> HIDE DEF m
<1>6. StandAt([lots |-> m, sum |-> t], p, first + n, last, outlay, t)
  BY <1>3, <1>5 DEF StandAt
<1> QED
  BY <1>2, <1>4, <1>6

\* What the shares bought cost, and what those sold on a day gain.
CostOf(B) == [x \in DOMAIN B |-> -ShareFlow(B[x])]
GainOn(S, B, d) ==
    [x \in DOMAIN S |-> IF deals[S[x]].date = d THEN ShareFlow(S[x]) + ShareFlow(B[x]) ELSE 0]

LEMMA FilledAre ==
    ASSUME LedgerInv, NEW i \in Filled
    PROVE  /\ ShareFlow(i) \in Int /\ deals[i].paper \in Papers /\ deals[i].side \in {"BUY", "SELL"}
           /\ deals[i].filled \in Nat /\ deals[i].filled > 0 /\ deals[i].date \in Dates
<1>1. i \in DOMAIN deals /\ deals[i].filled > 0 /\ deals \in Seq(Deal)
  BY DEF Filled, LedgerInv, LedgerTypeOK
<1>2. /\ deals[i].paper \in Papers /\ deals[i].side \in {"BUY", "SELL"} /\ deals[i].filled \in Nat
      /\ deals[i].price \in Nat /\ deals[i].date \in Dates
  BY <1>1, DealsHaveFields DEF DealFields
<1>3. deals[i].price + Fee \in Int /\ deals[i].price - Fee \in Int
  BY <1>2, LedgerAssumption
<1>4. ShareFlow(i) \in Int
  BY <1>3 DEF ShareFlow
<1> QED
  BY <1>1, <1>2, <1>4

\* No more shares are sold than bought, and each gains a number.
GainsFit(S, B, d) ==
    /\ Len(S) \in Nat /\ Len(B) \in Nat /\ Len(S) <= Len(B)
    /\ DOMAIN S = 1..Len(S) /\ DOMAIN B = 1..Len(B)
    /\ \A x \in DOMAIN S : S[x] \in Filled /\ ShareFlow(S[x]) \in Int
    /\ \A x \in DOMAIN B : B[x] \in Filled /\ ShareFlow(B[x]) \in Int
    /\ \A x \in DOMAIN S : GainOn(S, B, d)[x] \in Int

LEMMA GainsAreInts ==
    ASSUME LedgerInv, NEW p \in Papers, older[p] = 0, InTime(p), NEW d
    PROVE  GainsFit(SharesOf(p, {"SELL"}), SharesOf(p, {"BUY"}), d)
<1> DEFINE S == SharesOf(p, {"SELL"})
           B == SharesOf(p, {"BUY"})
<1>1. ListsPlaces(S, PlacesFor(p, {"SELL"})) /\ ListsPlaces(B, PlacesFor(p, {"BUY"}))
  BY SharesOfIs
<1>2. PlacesFor(p, {"SELL"}) = SharesAt(p, "SELL") /\ PlacesFor(p, {"BUY"}) = SharesAt(p, "BUY")
  BY DEF PlacesFor, SharesAt
<1> HIDE DEF S, B
<1>3. S \in Seq(Filled) /\ B \in Seq(Filled)
  BY <1>1 DEF ListsPlaces
<1>4. /\ Len(S) \in Nat /\ Len(B) \in Nat /\ DOMAIN S = 1..Len(S) /\ DOMAIN B = 1..Len(B)
      /\ (\A x \in DOMAIN S : S[x] \in Filled) /\ (\A x \in DOMAIN B : B[x] \in Filled)
  BY <1>3
<1>5. /\ DOMAIN S = 1..Cardinality(SharesAt(p, "SELL")) /\ Cardinality(SharesAt(p, "SELL")) \in Nat
      /\ DOMAIN B = 1..Cardinality(SharesAt(p, "BUY")) /\ Cardinality(SharesAt(p, "BUY")) \in Nat
  BY <1>1, <1>2 DEF ListsPlaces
<1>6. 0 + Cardinality(SharesAt(p, "BUY")) - Cardinality(SharesAt(p, "SELL")) >= 0
  BY DEF LedgerInv, HeldIsCounted
<1>7. Len(S) <= Len(B)
  BY <1>4, <1>5, <1>6
<1>8. (\A x \in DOMAIN S : ShareFlow(S[x]) \in Int) /\ (\A x \in DOMAIN B : ShareFlow(B[x]) \in Int)
  BY <1>4, FilledAre
<1>9. \A x \in DOMAIN S : GainOn(S, B, d)[x] \in Int
  <2> TAKE x \in DOMAIN S
  <2>1. x \in DOMAIN B
    BY <1>4, <1>7
  <2>2. ShareFlow(S[x]) \in Int /\ ShareFlow(B[x]) \in Int
    BY <1>8, <2>1
  <2>3. \A a, b \in Int : a + b \in Int
    OBVIOUS
  <2>4. ShareFlow(S[x]) + ShareFlow(B[x]) \in Int
    BY <2>2, <2>3
  <2> QED
    BY <2>4 DEF GainOn
<1> QED
  BY <1>4, <1>7, <1>8, <1>9 DEF S, B, GainsFit

\* Where the books of a code stand after some rows.
BooksAfter(state, dealt, k, p, d) ==
    LET S == SharesOf(p, {"SELL"})
        B == SharesOf(p, {"BUY"})
    IN StandAt(state, p, DoneTo(S, dealt, k), DoneTo(B, dealt, k), CostOf(B),
               SumOf(GainOn(S, B, d), 1..DoneTo(S, dealt, k)))

LEMMA RowMatched ==
    ASSUME LedgerInv, NEW p \in Papers, older[p] = 0, InTime(p), NEW d \in Dates,
           NEW dealt, RowsAreOrdered(dealt), NEW k \in 1..Len(dealt), NEW state,
           BooksAfter(state, dealt, k - 1, p, d)
    PROVE  BooksAfter(Matched(state, dealt[k], d..d, {p}), dealt, k, p, d)
<1> DEFINE S == SharesOf(p, {"SELL"})
           B == SharesOf(p, {"BUY"})
           outlay == CostOf(B)
           v == GainOn(S, B, d)
           i == dealt[k]
           a == DoneTo(S, dealt, k - 1)
           b == DoneTo(B, dealt, k - 1)
           a1 == DoneTo(S, dealt, k)
           b1 == DoneTo(B, dealt, k)
           s == SumOf(v, 1..a)
           new == Matched(state, i, d..d, {p})
<1>1. DoneGoesOn(S, dealt, p, "SELL") /\ DoneGoesOn(B, dealt, p, "BUY")
  BY SharesAreListed, SharesGoByRows
<1>2. GainsFit(S, B, d)
  BY GainsAreInts
<1>3. StandAt(state, p, a, b, outlay, s)
  BY DEF BooksAfter
<1>4. SUFFICES StandAt(new, p, a1, b1, outlay, SumOf(v, 1..a1))
  BY DEF BooksAfter
<1>5. deals[i].paper = p /\ deals[i].side = "SELL" => a1 <= b
  BY SoldAreBought
<1> HIDE DEF S, B
<1>6. k - 1 \in 0..Len(dealt) /\ k \in 0..Len(dealt) /\ i \in Filled
  <2>1. Len(dealt) \in Nat /\ dealt \in Seq(Filled)
    BY DEF RowsAreOrdered
  <2> QED
    BY <2>1
<1>7. /\ ShareFlow(i) \in Int /\ deals[i].paper \in Papers /\ deals[i].side \in {"BUY", "SELL"}
      /\ deals[i].filled \in Nat /\ deals[i].filled > 0 /\ deals[i].date \in Dates
  BY <1>6, FilledAre
<1>8. /\ Len(S) \in Nat /\ Len(B) \in Nat /\ a \in 0..Len(S) /\ a1 \in 0..Len(S)
      /\ b \in 0..Len(B) /\ b1 \in 0..Len(B)
  BY <1>1, <1>6 DEF DoneGoesOn
<1>9. IF deals[i].paper = p /\ deals[i].side = "SELL"
      THEN a1 = a + deals[i].filled /\ \A x \in (a + 1)..a1 : S[x] = i
      ELSE a1 = a
  BY <1>1 DEF DoneGoesOn
<1>10. IF deals[i].paper = p /\ deals[i].side = "BUY"
       THEN b1 = b + deals[i].filled /\ \A x \in (b + 1)..b1 : B[x] = i
       ELSE b1 = b
  BY <1>1 DEF DoneGoesOn
<1>11. /\ DOMAIN S = 1..Len(S) /\ DOMAIN B = 1..Len(B) /\ Len(S) <= Len(B)
       /\ (\A x \in DOMAIN B : ShareFlow(B[x]) \in Int)
       /\ (\A x \in DOMAIN S : v[x] \in Int)
  BY <1>2 DEF GainsFit
<1>12. /\ (\A x \in DOMAIN B : outlay[x] = -ShareFlow(B[x]))
       /\ (\A x \in DOMAIN S : v[x] = IF deals[S[x]].date = d THEN ShareFlow(S[x]) + ShareFlow(B[x]) ELSE 0)
  BY DEF CostOf, GainOn
<1> HIDE DEF outlay, v, i, a, b, a1, b1, new
<1>13. CASE deals[i].paper # p
  <2>1. StandAt(new, p, a, b, outlay, s)
    <3> HIDE DEF s
    <3> QED
      BY <1>3, <1>7, <1>13, OthersMatched DEF new
  <2>2. a1 = a /\ b1 = b
    BY <1>9, <1>10, <1>13
  <2> QED
    BY <2>1, <2>2
<1>14. CASE deals[i].paper = p /\ deals[i].side = "BUY"
  <2> DEFINE n == deals[i].filled
  <2>1. a1 = a /\ b1 = b + n /\ \A x \in (b + 1)..(b + n) : B[x] = i
    BY <1>9, <1>10, <1>14
  <2>2. DrawnCosts(outlay, b + 1, b + n, -ShareFlow(i))
    <3>1. ASSUME NEW x \in (b + 1)..(b + n) PROVE outlay[x] = -ShareFlow(i)
      <4>1. x \in DOMAIN B
        BY <1>7, <1>8, <1>11, <2>1
      <4>2. B[x] = i
        BY <2>1
      <4> QED
        BY <1>12, <4>1, <4>2
    <3> QED
      BY <3>1 DEF DrawnCosts
  <2>3. StandAt(new, p, a, b + n, outlay, s)
    <3>1. n = deals[i].filled /\ n \in Nat /\ n > 0
      BY <1>7
    <3> HIDE DEF s, n
    <3> QED
      BY <1>3, <1>7, <1>14, <2>2, <3>1, BuyMatched DEF new
  <2> QED
    BY <2>1, <2>3
<1>15. CASE deals[i].paper = p /\ deals[i].side = "SELL"
  <2> DEFINE n == deals[i].filled
             w == ShareFlow(i)
             u == [x \in (a + 1)..b |-> w - outlay[x]]
             t == IF deals[i].date \in d..d THEN s + SumOf(u, (a + 1)..(a + n)) ELSE s
  <2>1. a1 = a + n /\ b1 = b /\ \A x \in (a + 1)..(a + n) : S[x] = i
    BY <1>9, <1>10, <1>15
  <2>2. a + n <= b /\ n \in Nat /\ n > 0 /\ a \in Nat /\ b \in Nat
    BY <1>5, <1>7, <1>8, <1>15, <2>1 DEF i
  <2>3. DrawnGains(u, a + 1, b, w, outlay)
    BY DEF DrawnGains
  <2>4. StandAt(new, p, a + n, b, outlay, t)
    <3>1. n = deals[i].filled
      OBVIOUS
    <3> HIDE DEF s, n, u
    <3> QED
      BY <1>3, <1>7, <1>15, <2>2, <2>3, <3>1, SellMatched DEF new
  <2>5. SumOf(v, 1..a1) = s + SumOf(v, (a + 1)..(a + n))
    <3>1. IntsOn(v, 1, a1) /\ a \in Nat /\ a1 \in Nat /\ a <= a1
      <4>1. a \in Nat /\ a1 \in Nat /\ a <= a1 /\ \A x \in 1..a1 : x \in DOMAIN S
        BY <1>8, <1>11, <2>1, <2>2
      <4> QED
        BY <1>11, <4>1 DEF IntsOn
    <3>2. SumOf(v, 1..a1) = SumOf(v, 1..a) + SumOf(v, (a + 1)..a1)
      BY <3>1, SumSplits
    <3> QED
      BY <2>1, <3>2
  <2> DEFINE T == (a + 1)..(a + n)
  <2>6. IsFiniteSet(T) /\ \A x \in T : x \in DOMAIN S /\ x \in DOMAIN B /\ x \in (a + 1)..b /\ S[x] = i
    <3>1. a + 1 \in Int /\ a + n \in Int
      BY <2>2
    <3>2. IsFiniteSet(T)
      BY <3>1, FS_Interval
    <3>3. \A x \in T : x \in DOMAIN S /\ x \in DOMAIN B /\ x \in (a + 1)..b
      BY <1>8, <1>11, <2>1, <2>2
    <3> HIDE DEF T, n
    <3> QED
      BY <2>1, <3>2, <3>3 DEF T
  <2> HIDE DEF T
  <2>7. SumOf(v, 1..a1) = t
    <3>1. CASE deals[i].date = d
      <4>1. \A x \in T : u[x] = v[x]
        <5> TAKE x \in T
        <5>1. v[x] = w + ShareFlow(B[x]) /\ outlay[x] = -ShareFlow(B[x]) /\ ShareFlow(B[x]) \in Int
          BY <1>11, <1>12, <2>6, <3>1
        <5>2. u[x] = w - outlay[x]
          BY <2>6
        <5>3. w \in Int
          BY <1>7
        <5> HIDE DEF u, w
        <5> QED
          BY <5>1, <5>2, <5>3
      <4> HIDE DEF u
      <4>2. SumOf(u, T) = SumOf(v, T)
        BY <2>6, <4>1, SumOfSame
      <4>3. deals[i].date \in d..d
        BY <1>7, <3>1, LedgerAssumption DEF Dates
      <4> QED
        BY <2>5, <4>2, <4>3 DEF T
    <3>2. CASE deals[i].date # d
      <4>1. \A x \in T : v[x] = 0
        BY <1>12, <2>6, <3>2
      <4>2. SumOf(v, T) = 0
        <5>1. \A x \in T : v[x] \in Int
          BY <4>1
        <5>2. SumOf(v, T) = SumOf(v, {})
          BY <2>6, <4>1, <5>1, SumSkips
        <5> QED
          BY <5>2, SumOfNone
      <4>3. deals[i].date \notin d..d
        <5>1. deals[i].date \in Int /\ d \in Int
          BY <1>7, LedgerAssumption DEF Dates
        <5> QED
          BY <3>2, <5>1
      <4>4. s \in Int
        <5>1. \A x \in 1..a : x \in DOMAIN S
          BY <1>8, <1>11, <2>2
        <5>2. a \in Int
          BY <2>2
        <5>3. IsFiniteSet(1..a)
          BY ONLY <5>2, FS_Interval
        <5> QED
          BY <1>11, <5>1, <5>3, SumIsInt
      <4> HIDE DEF s
      <4>5. SumOf(v, 1..a1) = s + 0
        BY <2>5, <4>2 DEF T
      <4> QED
        BY <4>3, <4>4, <4>5
    <3> QED
      BY <3>1, <3>2
  <2> QED
    BY <2>1, <2>4, <2>7
<1> QED
  BY <1>7, <1>13, <1>14, <1>15

\* For a code all of whose shares have a row, filled in the order of the dealt, the
\* profit of a day is that of the shares sold, each against the share bought first.
LEMMA ProfitIsByShare ==
    ASSUME LedgerInv, NEW p \in Papers, older[p] = 0, FilledInOrder(p), NEW d \in Dates
    PROVE  RealizedBetween(d, d, {p}) = GainByShare(p, d)
<1> DEFINE S == SharesOf(p, {"SELL"})
           B == SharesOf(p, {"BUY"})
           v == GainOn(S, B, d)
           dealt == FilledTrades
           n == Len(dealt)
<1>1. InTime(p)
  BY FilledInTime
<1>2. RowsAreOrdered(dealt)
  BY RowsInOrder
<1>3. DoneGoesOn(S, dealt, p, "SELL") /\ DoneGoesOn(B, dealt, p, "BUY")
  BY <1>1, <1>2, SharesAreListed, SharesGoByRows
<1>4. GainsFit(S, B, d)
  BY <1>1, GainsAreInts
<1>5. n \in Nat
  <2>1. dealt \in Seq(Filled)
    BY <1>2 DEF RowsAreOrdered
  <2> QED
    BY <2>1
<1>6. PICK b : AreBooks(b, dealt, d..d, {p}) /\ RealizedBetween(d, d, {p}) = b[n].sum
  <2>1. Len(FilledTrades) \in Nat
    BY <1>5
  <2>2. \E b : /\ AreBooks(b, FilledTrades, d..d, {p})
               /\ RealizedBetween(d, d, {p}) = b[Len(FilledTrades)].sum
    <3> DEFINE P == {p}
    <3> HIDE DEF P
    <3>1. \E b : /\ AreBooks(b, FilledTrades, d..d, P)
                 /\ RealizedBetween(d, d, P) = b[Len(FilledTrades)].sum
      BY <2>1, RealizedIs
    <3> QED
      BY <3>1 DEF P
  <2> QED
    BY <2>2
<1> HIDE DEF dealt, n
<1>7. /\ b[0] = FirstBooks
      /\ \A k \in 1..n : b[k] = Matched(b[k - 1], dealt[k], d..d, {p})
  <2>1. b = [k \in 0..n |-> IF k = 0 THEN FirstBooks ELSE Matched(b[k - 1], dealt[k], d..d, {p})]
    BY <1>6 DEF AreBooks, n
  <2>2. 0 \in 0..n /\ \A k \in 1..n : k \in 0..n /\ k # 0
    BY <1>5
  <2> DEFINE e(k) == IF k = 0 THEN FirstBooks ELSE Matched(b[k - 1], dealt[k], d..d, {p})
  <2>3. \A k \in 0..n : b[k] = e(k)
    BY <2>1, Zenon
  <2> HIDE DEF e
  <2>4. b[0] = e(0) /\ \A k \in 1..n : b[k] = e(k)
    BY <2>2, <2>3
  <2> QED
    BY <2>2, <2>4 DEF e
<1> DEFINE G == {k \in 0..n : BooksAfter(b[k], dealt, k, p, d)}
<1>8. 0 \in G
  <2>1. DoneTo(S, dealt, 0) = 0 /\ DoneTo(B, dealt, 0) = 0
    BY <1>3 DEF DoneGoesOn
  <2>2. 1..0 = {} /\ 0 \in 0..n
    BY <1>5
  <2>3. SumOf(v, {}) = 0
    BY SumOfNone
  <2> DEFINE l == [q \in Papers |-> <<>>]
             o == [j \in 1..1 |-> 0]
  <2>4. Queue(l[p], o, 0, 0, CostOf(B))
    <3>1. l[p] = <<>> /\ Len(<<>>) = 0 /\ DOMAIN o = 1..1 /\ <<>> \in Seq(LotsOf)
      OBVIOUS
    <3>2. o \in [1..(Len(<<>>) + 1) -> Nat] /\ o[1] = 0 /\ o[Len(<<>>) + 1] = 0
      OBVIOUS
    <3>3. \A j, k \in DOMAIN o : ~(j < k)
      OBVIOUS
    <3>4. \A j : j \notin DOMAIN <<>>
      OBVIOUS
    <3> HIDE DEF l, o
    <3> QED
      BY <3>1, <3>2, <3>3, <3>4 DEF Queue
  <2>5. StandAt(FirstBooks, p, 0, 0, CostOf(B), 0)
    <3>1. FirstBooks = [lots |-> l, sum |-> 0] /\ l = [q \in Papers |-> l[q]]
      BY DEF FirstBooks
    <3> HIDE DEF l, o
    <3> QED
      BY <2>4, <3>1 DEF StandAt
  <2> QED
    BY <1>7, <2>1, <2>2, <2>3, <2>5 DEF BooksAfter
<1>9. \A k \in 0..(n - 1) : k \in G => k + 1 \in G
  <2> TAKE k \in 0..(n - 1)
  <2>1. HAVE k \in G
  <2>2. k + 1 \in 1..n /\ k + 1 \in 0..n /\ (k + 1) - 1 = k
    BY <1>5
  <2>3. BooksAfter(b[(k + 1) - 1], dealt, (k + 1) - 1, p, d)
    BY <2>1, <2>2
  <2> DEFINE m == k + 1
  <2>4. m \in 1..Len(dealt) /\ BooksAfter(b[m - 1], dealt, m - 1, p, d)
    BY <2>2, <2>3 DEF n
  <2>5. b[m] = Matched(b[m - 1], dealt[m], d..d, {p})
    BY <1>7, <2>2
  <2> HIDE DEF m
  <2>6. BooksAfter(Matched(b[m - 1], dealt[m], d..d, {p}), dealt, m, p, d)
    BY <1>1, <1>2, <2>4, RowMatched
  <2> QED
    BY <2>2, <2>5, <2>6 DEF m
<1> HIDE DEF G
<1>10. n \in G
  <2>1. 0..n \subseteq G
    BY <1>5, <1>8, <1>9, StepByStep
  <2> QED
    BY <1>5, <2>1
<1>11. StandAt(b[n], p, Len(S), Len(B), CostOf(B), SumOf(v, 1..Len(S)))
  <2>1. DoneTo(S, dealt, n) = Len(S) /\ DoneTo(B, dealt, n) = Len(B)
    BY <1>3 DEF DoneGoesOn, n
  <2>2. BooksAfter(b[n], dealt, n, p, d)
    BY <1>10 DEF G
  <2> QED
    BY <2>1, <2>2 DEF BooksAfter
<1> HIDE DEF S, B
<1>12. b[n].sum = SumOf(v, 1..Len(S))
  <2> HIDE DEF v
  <2> QED
    BY <1>11 DEF StandAt
<1>13. GainByShare(p, d) = SumOf(v, 1..Len(S))
  <2> DEFINE K == {k \in DOMAIN S : k > older[p] /\ deals[S[k]].date = d}
             g == [k \in K |-> ShareFlow(S[k]) + ShareFlow(B[k - older[p]])]
  <2>1. GainByShare(p, d) = SumFunction(g)
    BY DEF GainByShare, S, B
  <2>2. /\ Len(S) \in Nat /\ DOMAIN S = 1..Len(S) /\ \A x \in DOMAIN S : v[x] \in Int
    BY <1>4 DEF GainsFit
  <2>3. IsFiniteSet(1..Len(S)) /\ K \subseteq 1..Len(S)
    BY <2>2, FS_Interval
  <2>4. IsFiniteSet(K)
    <3> HIDE DEF K
    <3> QED
      BY <2>3, FS_Subset
  <2>5. \A k \in K : g[k] = v[k]
    <3> TAKE k \in K
    <3>1. k - older[p] = k
      BY <2>2
    <3> QED
      BY <3>1 DEF GainOn
  <2>6. \A x \in (1..Len(S)) \ K : v[x] = 0
    BY <2>2 DEF GainOn
  <2>7. \A x \in 1..Len(S) : v[x] \in Int
    BY <2>2
  <2>8. DOMAIN g = K
    OBVIOUS
  <2> HIDE DEF K, g, v
  <2>9. SumFunction(g) = SumOf(g, K)
    BY <2>4, <2>8, SumFunctionIs
  <2>10. SumOf(g, K) = SumOf(v, K)
    BY <2>4, <2>5, SumOfSame
  <2>11. SumOf(v, 1..Len(S)) = SumOf(v, K)
    <3> DEFINE T == 1..Len(S)
    <3>1. IsFiniteSet(T) /\ K \subseteq T /\ (\A x \in T : v[x] \in Int) /\ \A x \in T \ K : v[x] = 0
      BY <2>3, <2>6, <2>7
    <3> HIDE DEF T
    <3>2. SumOf(v, T) = SumOf(v, K)
      BY <3>1, SumSkips
    <3> QED
      BY <3>2 DEF T
  <2> QED
    BY <2>1, <2>9, <2>10, <2>11
<1> QED
  BY <1>6, <1>12, <1>13 DEF n, dealt

\* The two halves of what the books promise.
LEMMA LedgerBooksAgree ==
    ASSUME LedgerInv
    PROVE  BooksAgree
<1>1. date \in Dates /\ \A d \in 1..date : d \in Dates
  <2>1. date \in Dates
    BY DEF LedgerInv, LedgerTypeOK
  <2> QED
    BY <2>1, LedgerAssumption DEF Dates
<1>2. ASSUME NEW p \in Papers, older[p] = 0, FilledInOrder(p), NEW d \in 1..date
      PROVE  RealizedBetween(d, d, {p}) = GainByShare(p, d)
  BY <1>1, <1>2, ProfitIsByShare
<1>3. ASSUME NEW d \in CurveDays, d < date, Snapshots # {} \/ CurveIsComplete(d)
      PROVE  CurveAt(d) = worth[d]
  BY <1>3, CurveIsWorth
<1> QED
  BY <1>2, <1>3 DEF BooksAgree

================================================================================

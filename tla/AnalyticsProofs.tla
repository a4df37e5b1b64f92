---------------------------- MODULE AnalyticsProofs ----------------------------
(***************************************************************************)
(* Theorems about the equity figures, for every history of trades and      *)
(* snapshots, and about the indicators, for every series of candles.       *)
(* What a loop of EquityAgent computes is a fold over a sequence.  The     *)
(* proofs unfold it once, as one turn after the turns before, and then     *)
(* follow the loop with an invariant, as one would the code.               *)
(*                                                                         *)
(* The indicators are of fractions in lowest terms.  The last part shows   *)
(* that Euclid's recursion brings them there, that the operations on them  *)
(* are those of fractions, and from this that no average leaves what it    *)
(* averages and that a mirrored market is judged alike.                    *)
(***************************************************************************)
EXTENDS MCAnalytics, TLAPS, FiniteSetTheorems, NaturalsInduction, WellFoundedInduction,
        SequenceTheorems

Positive == Nat \ {0}

-----------------------------------------------------------------------------
(* Induction without an operator: the least counterexample                 *)

\* A set of naturals has a smallest member.
LEMMA Smallest ==
  ASSUME NEW S, S \subseteq Nat, S # {}
  PROVE  \E m \in S : \A k \in S : m <= k
<1>1. PICK m \in S : \A k \in S : ~ (<<k, m>> \in OpToRel(<, Nat))
  BY NatLessThanWellFounded, WFMin
<1>2. ASSUME NEW k \in S PROVE m <= k
  <2>1. k \in Nat /\ m \in Nat
    OBVIOUS
  <2>2. ~ (k < m)
    BY <1>1, <2>1 DEF OpToRel
  <2> QED
    BY <2>1, <2>2
<1> QED
  BY <1>2

\* What holds before the first turn, and after a turn if before it, holds after n turns.
LEMMA Turns ==
  ASSUME NEW n \in Nat, NEW G, 0 \in G, \A k \in 0 .. n - 1 : k \in G => k + 1 \in G
  PROVE  0 .. n \subseteq G
<1> DEFINE Bad == (0 .. n) \ G
<1> SUFFICES ASSUME Bad # {} PROVE FALSE
  OBVIOUS
<1>1. Bad \subseteq Nat
  OBVIOUS
<1>2. PICK m \in Bad : \A k \in Bad : m <= k
  <2> HIDE DEF Bad
  <2> QED
    BY <1>1, Smallest
<1>3. m \in 1 .. n
  BY <1>2
<1>4. m - 1 \in 0 .. n - 1 /\ m - 1 \in 0 .. n /\ ~ (m <= m - 1)
  BY <1>3
<1>5. m - 1 \in G
  BY <1>2, <1>4
<1>6. (m - 1) + 1 \in G
  BY <1>4, <1>5
<1> QED
  BY <1>2, <1>3, <1>6

\* What holds of a set when it holds of the smaller ones within holds of every subset.
LEMMA Subsets ==
  ASSUME NEW U, IsFiniteSet(U), NEW G,
         \A S \in SUBSET U : (\A T \in SUBSET S : T # S => T \in G) => S \in G
  PROVE  SUBSET U \subseteq G
<1> DEFINE Bad == (SUBSET U) \ G
<1> SUFFICES ASSUME Bad # {} PROVE FALSE
  OBVIOUS
<1>1. IsWellFoundedOn(StrictSubsetOrdering(U), SUBSET U)
  <2>1. IsWellFoundedOn(StrictSubsetOrdering(U), FiniteSubsetsOf(U))
    BY FS_StrictSubsetOrderingWellFounded
  <2>2. FiniteSubsetsOf(U) = SUBSET U
    BY FS_FiniteSubsetsOfFinite
  <2> QED
    BY <2>1, <2>2
<1>2. PICK S \in Bad : \A T \in Bad : ~ (<<T, S>> \in StrictSubsetOrdering(U))
  <2> HIDE DEF Bad
  <2>1. Bad \subseteq SUBSET U
    BY DEF Bad
  <2> QED
    BY <1>1, <2>1, WFMin
<1>3. ASSUME NEW T \in SUBSET S, T # S PROVE T \in G
  BY <1>2, <1>3 DEF StrictSubsetOrdering
<1> QED
  BY <1>2, <1>3

\* A table has an entry for every subset of U.
Table(g, U) == g = [s \in SUBSET U |-> g[s]]

\* Two tables that agree on a set as soon as they do on it without one of its members.
Alike(g, h, U) ==
  \A s \in SUBSET U :
    g[s] = h[s] \/ \E x \in s : g[s \ {x}] = h[s \ {x}] => g[s] = h[s]

\* Tables that are alike are one.
LEMMA TablesMatch ==
  ASSUME NEW U, IsFiniteSet(U), NEW g, NEW h, Table(g, U), Table(h, U), Alike(g, h, U)
  PROVE  g = h
<1> DEFINE G == {s \in SUBSET U : g[s] = h[s]}
<1>1. ASSUME NEW S \in SUBSET U, \A T \in SUBSET S : T # S => T \in G
      PROVE  S \in G
  <2>1. ASSUME NEW x \in S PROVE g[S \ {x}] = h[S \ {x}]
    <3>1. S \ {x} \in SUBSET S /\ S \ {x} # S
      BY <2>1
    <3>2. S \ {x} \in G
      BY <1>1, <3>1
    <3> QED
      BY <3>2
  <2>2. g[S] = h[S]
    BY <2>1 DEF Alike
  <2> QED
    BY <2>2
<1>2. SUBSET U \subseteq G
  <2> HIDE DEF G
  <2> QED
    BY <1>1, Subsets
<1>3. \A s \in SUBSET U : g[s] = h[s]
  BY <1>2
<1> QED
  BY <1>3 DEF Table

-----------------------------------------------------------------------------
(* The largest of a set                                                    *)

\* The largest of a set of numbers is what one of them is and none exceeds.
LEMMA MaxIs ==
  ASSUME NEW S, NEW x \in S, S \subseteq Int, \A y \in S : y <= x
  PROVE  Max(S) = x
<1>1. \A y \in S : x >= y
  OBVIOUS
<1>2. \A z \in S : (\A y \in S : z >= y) => z = x
  OBVIOUS
<1> QED
  BY <1>1, <1>2 DEF Max

\* The larger of two.
LEMMA MaxOfTwo ==
  ASSUME NEW x \in Int, NEW y \in Int
  PROVE  Max({x, y}) = IF x < y THEN y ELSE x
<1>1. CASE x < y
  BY <1>1, MaxIs
<1>2. CASE ~ (x < y)
  BY <1>2, MaxIs
<1> QED
  BY <1>1, <1>2

\* The largest index of some.
LEMMA MaxIndex ==
  ASSUME NEW n \in Nat, NEW s \in SUBSET (1 .. n), s # {}
  PROVE  Max(s) \in s /\ \A k \in s : k <= Max(s)
<1> DEFINE Left == {n - k : k \in s}
<1>1. Left \subseteq Nat /\ Left # {}
  OBVIOUS
<1>2. PICK m \in Left : \A k \in Left : m <= k
  <2> HIDE DEF Left
  <2> QED
    BY <1>1, Smallest
<1>3. PICK x \in s : m = n - x
  OBVIOUS
<1>4. \A k \in s : k <= x
  <2> TAKE k \in s
  <2>1. m <= n - k
    BY <1>2
  <2> QED
    BY <2>1, <1>3
<1>5. s \subseteq Int
  OBVIOUS
<1>6. Max(s) = x
  BY <1>4, <1>5, MaxIs
<1> QED
  BY <1>4, <1>6

\* A finite set of numbers with a largest in each part of it.
Indices(U) == IsFiniteSet(U) /\ \A s \in SUBSET U : s # {} => Max(s) \in s

\* The indices of a sequence are one.
LEMMA AllIndices == ASSUME NEW n \in Nat PROVE Indices(1 .. n)
<1>1. IsFiniteSet(1 .. n)
  BY FS_Interval
<1>2. ASSUME NEW s \in SUBSET (1 .. n), s # {} PROVE Max(s) \in s
  BY <1>2, MaxIndex
<1> QED
  BY <1>1, <1>2 DEF Indices

\* The first k indices but for the last of them.
LEMMA FirstIndices ==
  ASSUME NEW k \in Positive
  PROVE  1 .. k # {} /\ Max(1 .. k) = k /\ (1 .. k) \ {k} = 1 .. k - 1
<1>1. k \in 1 .. k /\ 1 .. k \subseteq Int /\ \A y \in 1 .. k : y <= k
  BY DEF Positive
<1>2. Max(1 .. k) = k
  BY <1>1, MaxIs
<1> QED
  BY <1>1, <1>2 DEF Positive

-----------------------------------------------------------------------------
(* What the closed trades bring                                            *)

\* The trade SumOf takes out next.
Pick(S) == CHOOSE i \in S : TRUE

\* The function FoldSet computes: the sums over all subsets of S.
SumTable(g, S) ==
  g = [s \in SUBSET S |-> IF s = {} THEN 0 ELSE Pnl(Pick(s)) + g[s \ {Pick(s)}]]

\* The sum is the entry for the whole set in its table.
LEMMA SumInTable ==
  ASSUME NEW S
  PROVE  SumOf(S) = (CHOOSE g : SumTable(g, S))[S]
BY DEF SumOf, FoldSet, MapThenFoldSet, SumTable, Pick

\* The equation of the sum: one result and the sum of the others.
LEMMA SumEquation ==
  ASSUME NEW U, IsFiniteSet(U)
  PROVE  SumOf(U) = IF U = {} THEN 0 ELSE Pnl(Pick(U)) + SumOf(U \ {Pick(U)})
<1> DEFINE Turn(s) == IF s = {} THEN 0 ELSE Pnl(Pick(s)) + SumOf(s \ {Pick(s)})
           G == {s \in SUBSET U : SumOf(s) = Turn(s)}
<1>1. ASSUME NEW S \in SUBSET U, \A T \in SUBSET S : T # S => T \in G
      PROVE  S \in G
  <2> DEFINE g == [s \in SUBSET S |-> Turn(s)]
  <2>1. \A s \in SUBSET S : s # {} => Pick(s) \in s /\ s \ {Pick(s)} \in SUBSET S
                                     /\ s \ {Pick(s)} # S
    BY DEF Pick
  <2>2. \A T \in SUBSET S : T # S => g[T] = SumOf(T)
    BY <1>1
  <2>3. SumTable(g, S)
    <3>1. \A s \in SUBSET S : g[s] = IF s = {} THEN 0
                                     ELSE Pnl(Pick(s)) + g[s \ {Pick(s)}]
      BY <2>1, <2>2
    <3>2. g = [s \in SUBSET S |-> g[s]]
      OBVIOUS
    <3> HIDE DEF g
    <3> QED
      BY <3>1, <3>2 DEF SumTable
  <2>4. ASSUME NEW h, SumTable(h, S) PROVE h = g
    <3> HIDE DEF g
    <3>1. IsFiniteSet(S) /\ Table(g, S) /\ Table(h, S)
      BY <2>3, <2>4, FS_Subset DEF SumTable, Table
    <3>2. Alike(h, g, S)
      <4> SUFFICES ASSUME NEW s \in SUBSET S
                   PROVE  \/ h[s] = g[s]
                          \/ \E x \in s : h[s \ {x}] = g[s \ {x}] => h[s] = g[s]
        BY DEF Alike
      <4>1. CASE s = {}
        BY <2>3, <2>4, <4>1 DEF SumTable
      <4>2. CASE s # {}
        <5>1. /\ h[s] = Pnl(Pick(s)) + h[s \ {Pick(s)}]
              /\ g[s] = Pnl(Pick(s)) + g[s \ {Pick(s)}]
          BY <2>3, <2>4, <4>2 DEF SumTable
        <5> QED
          BY <2>1, <4>2, <5>1
      <4> QED
        BY <4>1, <4>2
    <3> QED
      BY <3>1, <3>2, TablesMatch
  <2>5. (CHOOSE h : SumTable(h, S)) = g
    <3> HIDE DEF g
    <3> QED
      BY <2>3, <2>4
  <2>6. SumOf(S) = Turn(S)
    BY <2>5, SumInTable
  <2> QED
    BY <2>6
<1>2. SUBSET U \subseteq G
  <2> HIDE DEF G
  <2> QED
    BY <1>1, Subsets
<1> QED
  BY <1>2

\* A sum of whole results is whole.
LEMMA SumWhole ==
  ASSUME NEW U, IsFiniteSet(U), \A i \in U : Pnl(i) \in Int
  PROVE  SumOf(U) \in Int
<1> DEFINE G == {S \in SUBSET U : SumOf(S) \in Int}
<1>1. ASSUME NEW S \in SUBSET U, \A T \in SUBSET S : T # S => T \in G
      PROVE  S \in G
  <2>1. IsFiniteSet(S)
    BY FS_Subset
  <2>2. CASE S = {}
    <3>1. SumOf(S) = 0
      BY <2>1, <2>2, SumEquation
    <3> QED
      BY <3>1
  <2>3. CASE S # {}
    <3>1. Pick(S) \in S
      BY <2>3 DEF Pick
    <3>2. S \ {Pick(S)} \in G
      BY <1>1, <3>1
    <3>3. SumOf(S) = Pnl(Pick(S)) + SumOf(S \ {Pick(S)})
      BY <2>1, <2>3, SumEquation
    <3>4. Pnl(Pick(S)) \in Int /\ SumOf(S \ {Pick(S)}) \in Int
      BY <3>1, <3>2
    <3> QED
      BY <3>3, <3>4
  <2> QED
    BY <2>2, <2>3
<1>2. SUBSET U \subseteq G
  <2> HIDE DEF G
  <2> QED
    BY <1>1, Subsets
<1> QED
  BY <1>2

-----------------------------------------------------------------------------
(* Types                                                                   *)

Rows == [pnl : Pnls \cup {0}, closed : Nat]

\* The trades are rows with results, closed in the order of the clock or open.
TradesType == trades \in Seq(Rows) /\ Len(trades) <= MaxTrades /\ clock \in Nat

\* The snapshots written, and the one that is to be, are amounts.
SnapsType == snaps \in Seq(Int) /\ reading \in Seq(Int)

\* The trades keep their type.
LEMMA TradesStep ==
  ASSUME TradesType, [EquityNext]_equityVars
  PROVE  TradesType'
<1>1. OpenTrade \in Rows
  BY DEF OpenTrade, Rows
<1>2. CASE Open
  BY <1>1, <1>2, EquityType DEF TradesType, Open
<1>3. ASSUME NEW i \in DOMAIN trades, NEW pnl \in Pnls, NEW t \in {clock, clock + 1},
             Close(i, pnl, t)
      PROVE  TradesType'
  <2>1. t \in Nat
    BY DEF TradesType
  <2>2. [pnl |-> pnl, closed |-> t] \in Rows
    BY <2>1 DEF Rows
  <2>3. trades' \in Seq(Rows) /\ Len(trades') = Len(trades)
    BY <1>3, <2>2 DEF TradesType, Close
  <2> QED
    BY <1>3, <2>1, <2>3 DEF TradesType, Close
<1>4. CASE UNCHANGED <<trades, clock>>
  BY <1>4 DEF TradesType
<1> QED
  BY <1>2, <1>3, <1>4 DEF EquityNext, equityVars, ReadEquity, WriteSnapshot, LoseSnapshot

\* Closing times and results are numbers.
LEMMA ClosedTypes ==
  ASSUME TradesType
  PROVE  /\ IsFiniteSet(ClosedIds)
         /\ \A i \in ClosedIds : i \in Nat /\ trades[i].closed \in Nat /\ Pnl(i) \in Int
<1>1. /\ DOMAIN trades = 1 .. Len(trades) /\ Len(trades) \in Nat
      /\ \A i \in DOMAIN trades : trades[i] \in Rows
  BY DEF TradesType
<1>2. ClosedIds \in SUBSET (1 .. Len(trades))
  BY <1>1 DEF ClosedIds
<1>3. IsFiniteSet(1 .. Len(trades))
  BY <1>1, FS_Interval
<1>4. Pnls \subseteq Int
  BY EquityType
<1>5. IsFiniteSet(ClosedIds)
  BY <1>2, <1>3, FS_Subset
<1>6. \A i \in ClosedIds : i \in Nat /\ trades[i] \in Rows
  BY <1>1, <1>2
<1>7. \A i \in ClosedIds : i \in Nat /\ trades[i].closed \in Nat /\ trades[i].pnl \in Pnls \cup {0}
  BY <1>6 DEF Rows
<1>8. \A p \in Pnls \cup {0} : p \in Int
  BY <1>4
<1>9. \A i \in ClosedIds : i \in Nat /\ trades[i].closed \in Nat /\ Pnl(i) \in Int
  BY <1>7, <1>8 DEF Pnl
<1> QED
  BY <1>5, <1>9

\* The snapshots keep their type.
LEMMA SnapsStep ==
  ASSUME TradesType, SnapsType, [EquityNext]_equityVars
  PROVE  SnapsType'
<1>1. CASE ReadEquity
  <2>1. CurrentEquity \in Int
    BY ClosedTypes, SumWhole, EquityType DEF CurrentEquity, Realized
  <2>2. reading' = <<CurrentEquity>> /\ snaps' = snaps
    BY <1>1 DEF ReadEquity
  <2>3. \A e \in Int : <<e>> \in Seq(Int)
    OBVIOUS
  <2> QED
    BY <2>1, <2>2, <2>3 DEF SnapsType
<1>2. CASE reading' = Idle /\ snaps' \in {snaps, snaps \o reading}
  <2>1. Idle \in Seq(Int)
    BY DEF Idle
  <2>2. snaps \o reading \in Seq(Int)
    BY DEF SnapsType
  <2> QED
    BY <1>2, <2>1, <2>2 DEF SnapsType
<1>3. CASE UNCHANGED <<snaps, reading>>
  BY <1>3 DEF SnapsType
<1> QED
  BY <1>1, <1>2, <1>3
     DEF EquityNext, equityVars, Open, Close, WriteSnapshot, LoseSnapshot

\* What the run checks of the equity figures is a part of what is said of them here: its
\* behaviours are behaviours of EquitySpec.
THEOREM AnalyticsTrades == FiguresSpec => EquitySpec
<1>1. FiguresInit => EquityInit
  BY DEF FiguresInit
<1>2. [FiguresNext]_figureVars => [EquityNext]_equityVars
  BY DEF FiguresNext, NextCandle, Trade, figureVars, equityVars
<1> QED
  BY <1>1, <1>2, PTL DEF FiguresSpec, EquitySpec

\* The trades are well typed at all times.
THEOREM TradesTyped == EquitySpec => []TradesType
<1>1. EquityInit => TradesType
  <2>1. <<>> \in Seq(Rows)
    OBVIOUS
  <2> QED
    BY <2>1, EquityType DEF EquityInit, TradesType
<1>2. TradesType /\ [EquityNext]_equityVars => TradesType'
  BY TradesStep
<1> QED
  BY <1>1, <1>2, PTL DEF EquitySpec

\* The snapshots are well typed at all times.
THEOREM SnapsTyped == EquitySpec => []SnapsType
<1>1. EquityInit => SnapsType
  <2>1. <<>> \in Seq(Int)
    OBVIOUS
  <2> QED
    BY <2>1 DEF EquityInit, SnapsType, Idle
<1>2. TradesType /\ SnapsType /\ [EquityNext]_equityVars => SnapsType'
  BY SnapsStep
<1> QED
  BY <1>1, <1>2, TradesTyped, PTL DEF EquitySpec

-----------------------------------------------------------------------------
(* The loop over drawdowns                                                 *)

\* The loop over the entries of q that are in S.
FallOver(base, q, S) ==
  MapThenFoldSet(LAMBDA x, y : Fall(y, x), base, LAMBDA k : q[k], LAMBDA s : Max(s), S)

FallTable(g, base, q, S) ==
  g = [s \in SUBSET S |-> IF s = {} THEN base ELSE Fall(g[s \ {Max(s)}], q[Max(s)])]

\* The loop ends with the entry for the whole set in its table.
LEMMA FallInTable ==
  ASSUME NEW base, NEW q, NEW S
  PROVE  FallOver(base, q, S) = (CHOOSE g : FallTable(g, base, q, S))[S]
BY DEF FallOver, MapThenFoldSet, FallTable

\* The last turn of the loop follows those before it.
LEMMA FallEquation ==
  ASSUME NEW U, Indices(U), NEW base, NEW q
  PROVE  \A S \in SUBSET U :
           FallOver(base, q, S)
             = IF S = {} THEN base ELSE Fall(FallOver(base, q, S \ {Max(S)}), q[Max(S)])
<1> DEFINE Turn(s) == IF s = {} THEN base ELSE Fall(FallOver(base, q, s \ {Max(s)}), q[Max(s)])
           G == {s \in SUBSET U : FallOver(base, q, s) = Turn(s)}
<1>1. ASSUME NEW S \in SUBSET U, \A T \in SUBSET S : T # S => T \in G
      PROVE  S \in G
  <2> DEFINE g == [s \in SUBSET S |-> Turn(s)]
  <2>1. \A s \in SUBSET S : s # {} => /\ Max(s) \in s /\ s \ {Max(s)} \in SUBSET S
                                      /\ s \ {Max(s)} # S
    BY DEF Indices
  <2>2. \A T \in SUBSET S : T # S => g[T] = FallOver(base, q, T)
    BY <1>1
  <2>3. FallTable(g, base, q, S)
    <3>1. \A s \in SUBSET S : g[s] = IF s = {} THEN base
                                     ELSE Fall(g[s \ {Max(s)}], q[Max(s)])
      BY <2>1, <2>2
    <3>2. g = [s \in SUBSET S |-> g[s]]
      OBVIOUS
    <3> HIDE DEF g
    <3> QED
      BY <3>1, <3>2 DEF FallTable
  <2>4. ASSUME NEW h, FallTable(h, base, q, S) PROVE h = g
    <3> HIDE DEF g
    <3>1. IsFiniteSet(S) /\ Table(g, S) /\ Table(h, S)
      BY <2>3, <2>4, FS_Subset DEF FallTable, Table, Indices
    <3>2. Alike(h, g, S)
      <4> SUFFICES ASSUME NEW s \in SUBSET S
                   PROVE  \/ h[s] = g[s]
                          \/ \E x \in s : h[s \ {x}] = g[s \ {x}] => h[s] = g[s]
        BY DEF Alike
      <4>1. CASE s = {}
        BY <2>3, <2>4, <4>1 DEF FallTable
      <4>2. CASE s # {}
        <5>1. /\ h[s] = Fall(h[s \ {Max(s)}], q[Max(s)])
              /\ g[s] = Fall(g[s \ {Max(s)}], q[Max(s)])
          BY <2>3, <2>4, <4>2 DEF FallTable
        <5> QED
          BY <2>1, <4>2, <5>1
      <4> QED
        BY <4>1, <4>2
    <3> QED
      BY <3>1, <3>2, TablesMatch
  <2>5. (CHOOSE h : FallTable(h, base, q, S)) = g
    <3> HIDE DEF g
    <3> QED
      BY <2>3, <2>4
  <2>6. FallOver(base, q, S) = Turn(S)
    BY <2>5, FallInTable
  <2> QED
    BY <2>6
<1>2. SUBSET U \subseteq G
  <2>1. IsFiniteSet(U)
    BY DEF Indices
  <2> HIDE DEF G
  <2> QED
    BY <1>1, <2>1, Subsets
<1> QED
  BY <1>2

\* What the loop holds after k turns over q: the highest value so far, and the largest fall
\* from a value above zero to a later one.
Fallen(q, k, d) ==
  /\ d.peak \in Int /\ d.max \in Nat
  /\ \E i \in 1 .. Len(q) : (i = 1 \/ i <= k) /\ d.peak = q[i]
  /\ \A i \in 1 .. Len(q) : i = 1 \/ i <= k => q[i] <= d.peak
  /\ d.max = 0 \/ \E j \in 1 .. k : \E i \in 1 .. j - 1 : q[i] > 0 /\ d.max = q[i] - q[j]
  /\ \A j \in 1 .. k : \A i \in 1 .. j - 1 : q[i] > 0 => q[i] - q[j] <= d.max

\* One turn of the loop.
LEMMA FallTurn ==
  ASSUME NEW q \in Seq(Int), NEW k \in 0 .. Len(q) - 1, NEW d, Fallen(q, k, d)
  PROVE  Fallen(q, k + 1, Fall(d, q[k + 1]))
<1> DEFINE n == Len(q)
           x == q[k + 1]
           peak == IF x > d.peak THEN x ELSE d.peak
           e == Fall(d, x)
<1>1. n \in Nat /\ k \in Nat /\ k + 1 \in 1 .. n /\ x \in Int
  OBVIOUS
<1>2. \A i \in 1 .. n : q[i] \in Int
  OBVIOUS
<1>3. d.peak \in Int /\ d.max \in Nat /\ peak \in Int
  BY <1>1 DEF Fallen
<1>4. /\ e.peak = peak
      /\ e.max = IF peak > 0 /\ d.max < peak - x THEN peak - x ELSE d.max
  <2>1. e = [peak |-> peak, max |-> IF peak > 0 THEN Max({d.max, peak - x}) ELSE d.max]
    BY DEF Fall
  <2>2. d.max \in Int /\ peak - x \in Int
    BY <1>1, <1>3
  <2> HIDE DEF peak, e
  <2>3. Max({d.max, peak - x}) = IF d.max < peak - x THEN peak - x ELSE d.max
    BY <2>2, MaxOfTwo
  <2> QED
    BY <2>1, <2>3
<1>5. /\ e.peak \in Int /\ e.max \in Nat
      /\ d.max <= e.max /\ (peak > 0 => peak - x <= e.max)
  BY <1>1, <1>3, <1>4
<1>6. \E i \in 1 .. n : (i = 1 \/ i <= k + 1) /\ e.peak = q[i]
  <2>1. CASE x > d.peak
    BY <1>1, <1>4, <2>1
  <2>2. CASE ~ (x > d.peak)
    BY <1>1, <1>4, <2>2 DEF Fallen
  <2> QED
    BY <2>1, <2>2
<1>7. ASSUME NEW i \in 1 .. n, i = 1 \/ i <= k + 1 PROVE q[i] <= e.peak
  <2>1. CASE i = k + 1
    BY <1>1, <1>3, <1>4, <2>1
  <2>2. CASE i # k + 1
    <3>1. i = 1 \/ i <= k
      BY <1>1, <1>7, <2>2
    <3>2. q[i] <= d.peak
      BY <3>1 DEF Fallen
    <3> QED
      BY <1>1, <1>2, <1>3, <1>4, <3>2
  <2> QED
    BY <2>1, <2>2
<1>8. e.max = 0 \/ \E j \in 1 .. k + 1 : \E i \in 1 .. j - 1 : q[i] > 0 /\ e.max = q[i] - q[j]
  <2>1. CASE ~ (peak > 0 /\ d.max < peak - x)
    <3>1. e.max = d.max
      BY <1>4, <2>1
    <3>2. \A j \in 1 .. k : j \in 1 .. k + 1
      BY <1>1
    <3> QED
      BY <3>1, <3>2 DEF Fallen
  <2>2. CASE peak > 0 /\ d.max < peak - x
    <3>1. peak = d.peak /\ e.max = d.peak - x /\ d.peak > x /\ d.peak > 0
      BY <1>1, <1>3, <1>4, <2>2
    <3>2. PICK i \in 1 .. n : (i = 1 \/ i <= k) /\ d.peak = q[i]
      BY DEF Fallen
    <3>3. i \in 1 .. k
      BY <1>1, <1>2, <3>1, <3>2
    <3>4. k + 1 \in 1 .. k + 1 /\ i \in 1 .. (k + 1) - 1
      BY <1>1, <3>3
    <3>5. q[i] > 0 /\ e.max = q[i] - q[k + 1]
      BY <3>1, <3>2
    <3> QED
      BY <3>4, <3>5
  <2> QED
    BY <2>1, <2>2
<1>9. ASSUME NEW j \in 1 .. k + 1, NEW i \in 1 .. j - 1, q[i] > 0 PROVE q[i] - q[j] <= e.max
  <2>1. i \in 1 .. n /\ j \in 1 .. n /\ i <= k
    BY <1>1
  <2>2. q[i] \in Int /\ q[j] \in Int
    BY <1>2, <2>1
  <2>3. CASE j = k + 1
    <3>1. q[i] <= peak
      BY <1>4, <1>7, <2>1, <1>1
    <3>2. peak > 0 /\ peak - x <= e.max
      <4> HIDE DEF peak, e
      <4> QED
        BY <1>3, <1>5, <1>9, <2>2, <3>1
    <3> HIDE DEF peak, e
    <3> QED
      BY <1>1, <1>3, <1>5, <2>2, <2>3, <3>1, <3>2
  <2>4. CASE j # k + 1
    <3>1. q[i] - q[j] <= d.max
      <4>1. j \in 1 .. k
        BY <1>1, <2>4
      <4> QED
        BY <1>9, <4>1 DEF Fallen
    <3> HIDE DEF peak, e
    <3> QED
      BY <1>3, <1>5, <2>2, <3>1
  <2> QED
    BY <2>3, <2>4
<1> HIDE DEF e, peak
<1> QED
  BY <1>5, <1>6, <1>7, <1>8, <1>9 DEF Fallen, e

\* All turns of the loop.
LEMMA FallLoop ==
  ASSUME NEW q \in Seq(Int), q # <<>>
  PROVE  Fallen(q, Len(q), FoldLeft(Fall, [peak |-> q[1], max |-> 0], q))
<1> DEFINE n == Len(q)
           base == [peak |-> q[1], max |-> 0]
           After(k) == FallOver(base, q, 1 .. k)
           G == {k \in 0 .. n : Fallen(q, k, After(k))}
<1>1. n \in Positive /\ DOMAIN q = 1 .. n /\ 1 \in 1 .. n /\ q[1] \in Int
  BY DEF Positive
<1>2. 0 \in G
  <2>1. 1 .. 0 = {} /\ Indices({})
    BY FS_EmptySet DEF Indices
  <2>2. After(0) = base
    BY <2>1, FallEquation
  <2>3. \A i \in 1 .. n : i = 1 \/ i <= 0 => i = 1
    OBVIOUS
  <2>4. Fallen(q, 0, base)
    BY <1>1, <2>1, <2>3 DEF Fallen, Positive
  <2> QED
    BY <1>1, <2>2, <2>4 DEF Positive
<1>3. ASSUME NEW k \in 0 .. n - 1, k \in G PROVE k + 1 \in G
  <2>1. k + 1 \in 1 .. n /\ k + 1 \in Positive /\ (k + 1) - 1 = k
    BY <1>1 DEF Positive
  <2>2. After(k + 1) = Fall(After(k), q[k + 1])
    <3>1. /\ 1 .. k + 1 # {} /\ Max(1 .. k + 1) = k + 1
          /\ (1 .. k + 1) \ {k + 1} = 1 .. k
      BY <2>1, FirstIndices
    <3>2. Indices(1 .. k + 1)
      BY <2>1, AllIndices DEF Positive
    <3>3. FallOver(base, q, 1 .. k + 1)
            = Fall(FallOver(base, q, (1 .. k + 1) \ {Max(1 .. k + 1)}), q[Max(1 .. k + 1)])
      <4> DEFINE U == 1 .. k + 1
      <4>1. U # {} /\ Indices(U) /\ U \in SUBSET U
        BY <3>1, <3>2
      <4> HIDE DEF U, base
      <4>2. FallOver(base, q, U) = Fall(FallOver(base, q, U \ {Max(U)}), q[Max(U)])
        BY <4>1, FallEquation
      <4> QED
        BY <4>2 DEF U
    <3> QED
      BY <3>1, <3>3
  <2>3. Fallen(q, k + 1, Fall(After(k), q[k + 1]))
    BY <1>3, FallTurn
  <2> QED
    BY <2>1, <2>2, <2>3
<1>4. 0 .. n \subseteq G
  <2> HIDE DEF G
  <2>1. n \in Nat
    BY <1>1 DEF Positive
  <2> HIDE DEF n
  <2> QED
    BY <1>2, <1>3, <2>1, Turns
<1>5. n \in G
  BY <1>1, <1>4 DEF Positive
<1>6. FoldLeft(Fall, base, q) = After(n)
  BY <1>1 DEF FoldLeft, FallOver
<1> QED
  BY <1>5, <1>6

-----------------------------------------------------------------------------
(* The series of peaks                                                     *)

\* There is a highest, and the next value is either higher or leaves it.
LEMMA Highest ==
  ASSUME NEW h \in Seq(Int), NEW n \in Nat, n <= Len(h)
  PROVE  \A k \in 1 .. n : \E m \in 1 .. k : Until(h, k) = h[m] /\ \A i \in 1 .. k : h[i] <= h[m]
<1> DEFINE Topped(k) == \E m \in 1 .. k : \A i \in 1 .. k : h[i] <= h[m]
           G == {k \in 0 .. n : k = 0 \/ Topped(k)}
<1>1. \A i \in 1 .. n : h[i] \in Int
  BY DEF Positive
<1>2. ASSUME NEW k \in 0 .. n - 1, k \in G PROVE k + 1 \in G
  <2>1. k + 1 \in 1 .. k + 1 /\ k + 1 \in 1 .. n /\ \A i \in 1 .. k + 1 : i \in 1 .. n
    OBVIOUS
  <2>2. \A i \in 1 .. k + 1 : i = k + 1 \/ i \in 1 .. k
    OBVIOUS
  <2>3. CASE k = 0
    <3>1. \A i \in 1 .. k + 1 : i = k + 1
      BY <2>3
    <3>2. \A i \in 1 .. k + 1 : h[i] <= h[k + 1]
      BY <1>1, <2>1, <3>1
    <3> QED
      BY <2>1, <3>2
  <2>4. CASE k # 0
    <3>1. PICK m \in 1 .. k : \A i \in 1 .. k : h[i] <= h[m]
      BY <1>2, <2>4
    <3>2. m \in 1 .. k + 1
      OBVIOUS
    <3>3. CASE h[k + 1] <= h[m]
      <4>1. \A i \in 1 .. k + 1 : h[i] <= h[m]
        BY <2>2, <3>1, <3>3
      <4> QED
        BY <2>1, <3>2, <4>1
    <3>4. CASE ~ (h[k + 1] <= h[m])
      <4>1. \A i \in 1 .. k + 1 : h[i] <= h[k + 1]
        BY <1>1, <2>1, <2>2, <3>1, <3>2, <3>4
      <4> QED
        BY <2>1, <4>1
    <3> QED
      BY <3>3, <3>4
  <2> QED
    BY <2>3, <2>4
<1>3. 0 .. n \subseteq G
  <2>1. 0 \in G
    OBVIOUS
  <2> HIDE DEF G
  <2> QED
    BY <1>2, <2>1, Turns
<1> SUFFICES ASSUME NEW k \in 1 .. n
             PROVE  \E m \in 1 .. k : Until(h, k) = h[m] /\ \A i \in 1 .. k : h[i] <= h[m]
  OBVIOUS
<1>4. PICK m \in 1 .. k : \A i \in 1 .. k : h[i] <= h[m]
  <2>1. k \in 0 .. n /\ k # 0
    OBVIOUS
  <2> QED
    BY <1>3, <2>1
<1>5. Until(h, k) = h[m]
  <2> DEFINE S == {h[i] : i \in 1 .. k}
  <2>1. S \subseteq Int /\ h[m] \in S /\ \A y \in S : y <= h[m]
    BY <1>1, <1>4
  <2> HIDE DEF S
  <2>2. Max(S) = h[m]
    BY <2>1, MaxIs
  <2> QED
    BY <2>2 DEF Until, S
<1> QED
  BY <1>4, <1>5

\* The highest of the first k values from the highest of those before.
LEMMA UntilNext ==
  ASSUME NEW h \in Seq(Int), NEW k \in 1 .. Len(h)
  PROVE  Until(h, k) = IF k = 1 \/ h[k] > Until(h, k - 1) THEN h[k] ELSE Until(h, k - 1)
<1>1. Len(h) \in Nat /\ \A i \in 1 .. Len(h) : h[i] \in Int
  BY DEF Positive
<1>2. PICK m \in 1 .. k : Until(h, k) = h[m] /\ \A i \in 1 .. k : h[i] <= h[m]
  BY <1>1, Highest
<1>3. CASE k = 1
  BY <1>2, <1>3
<1>4. CASE k # 1
  <2>1. k - 1 \in 1 .. Len(h) /\ k \in 1 .. k
    BY <1>1, <1>4
  <2>2. PICK l \in 1 .. k - 1 : /\ Until(h, k - 1) = h[l]
                                /\ \A i \in 1 .. k - 1 : h[i] <= h[l]
    <3> DEFINE j == k - 1
    <3>1. j \in 1 .. Len(h)
      BY <2>1
    <3> HIDE DEF j
    <3>2. \E l \in 1 .. j : Until(h, j) = h[l] /\ \A i \in 1 .. j : h[i] <= h[l]
      BY <1>1, <3>1, Highest
    <3> QED
      BY <3>2 DEF j
  <2>3. l \in 1 .. k /\ h[l] <= h[m] /\ h[k] <= h[m]
    BY <1>2, <2>1
  <2>4. m = k \/ h[m] <= h[l]
    BY <2>2
  <2>5. h[l] \in Int /\ h[m] \in Int /\ h[k] \in Int
    BY <1>1, <2>3
  <2> QED
    BY <1>2, <1>4, <2>2, <2>3, <2>4, <2>5
<1> QED
  BY <1>3, <1>4

\* What the series holds as the peak of each entry.
PeakSeries(h) ==
  CHOOSE p : p = [k \in DOMAIN h |-> IF k = 1 \/ h[k] > p[k - 1] THEN h[k] ELSE p[k - 1]]

\* It is the highest value so far.
LEMMA PeaksAreHighest ==
  ASSUME NEW h \in Seq(Int)
  PROVE  \A k \in 1 .. Len(h) : PeakSeries(h)[k] = Until(h, k)
<1> DEFINE n == Len(h)
           IsSeries(p) ==
             p = [k \in DOMAIN h |-> IF k = 1 \/ h[k] > p[k - 1] THEN h[k] ELSE p[k - 1]]
           u == [k \in 1 .. n |-> Until(h, k)]
<1>1. n \in Nat /\ DOMAIN h = 1 .. n
  OBVIOUS
<1>2. IsSeries(u)
  <2>1. \A k \in 1 .. n : k = 1 \/ k - 1 \in 1 .. n
    BY <1>1
  <2>2. \A k \in 1 .. n : u[k] = IF k = 1 \/ h[k] > u[k - 1] THEN h[k] ELSE u[k - 1]
    <3> TAKE k \in 1 .. n
    <3>1. u[k] = Until(h, k) /\ (k # 1 => u[k - 1] = Until(h, k - 1))
      BY <2>1
    <3> HIDE DEF u
    <3> QED
      BY <3>1, UntilNext
  <2>3. u = [k \in 1 .. n |-> u[k]]
    OBVIOUS
  <2> HIDE DEF u, n
  <2> QED
    BY <1>1, <2>2, <2>3
<1>3. ASSUME NEW p, IsSeries(p) PROVE \A k \in 1 .. n : p[k] = u[k]
  <2> DEFINE G == {k \in 0 .. n : k = 0 \/ p[k] = u[k]}
  <2> HIDE DEF u
  <2>1. \A k \in 1 .. n : p[k] = IF k = 1 \/ h[k] > p[k - 1] THEN h[k] ELSE p[k - 1]
    BY <1>1, <1>3
  <2>2. \A k \in 1 .. n : u[k] = IF k = 1 \/ h[k] > u[k - 1] THEN h[k] ELSE u[k - 1]
    BY <1>1, <1>2
  <2>3. ASSUME NEW k \in 0 .. n - 1, k \in G PROVE k + 1 \in G
    <3>1. k + 1 \in 1 .. n /\ (k + 1) - 1 = k /\ (k + 1 = 1 \/ p[k] = u[k])
      BY <1>1, <2>3
    <3>2. p[k + 1] = u[k + 1]
      BY <2>1, <2>2, <3>1
    <3> QED
      BY <3>1, <3>2
  <2>4. 0 .. n \subseteq G
    <3>1. 0 \in G
      BY <1>1
    <3> HIDE DEF G, n
    <3> QED
      BY <1>1, <2>3, <3>1, Turns
  <2> TAKE k \in 1 .. n
  <2>5. k \in 0 .. n /\ k # 0
    OBVIOUS
  <2> QED
    BY <2>4, <2>5
<1>4. IsSeries(PeakSeries(h))
  <2> HIDE DEF u
  <2> QED
    BY <1>2 DEF PeakSeries
<1> QED
  BY <1>3, <1>4

-----------------------------------------------------------------------------
(* Drawdowns                                                               *)

\* Snapshots are kept if there are any, and the rows read are these, newest first.
LEMMA KeptType ==
  ASSUME snaps \in Seq(Int)
  PROVE  /\ Kept \in Seq(Int) /\ Len(Kept) \in Nat /\ DOMAIN Kept = 1 .. Len(Kept)
         /\ snaps = <<>> <=> Len(Kept) = 0
         /\ Newest \in Seq(Int) /\ Len(Newest) = Len(Kept)
         /\ \A i \in 1 .. Len(Kept) : /\ Newest[i] = Kept[Len(Kept) + 1 - i]
                                      /\ Kept[i] = Newest[Len(Kept) + 1 - i]
         /\ Reverse(Newest) = Kept
<1> DEFINE l == Len(snaps)
           a == Max({0, l - Limit})
           n == Len(Kept)
<1>1. l \in Nat /\ Limit \in Positive /\ \A i \in 1 .. l : snaps[i] \in Int
  BY EquityType DEF Positive
<1>2. a \in 0 .. l /\ (l > 0 => a < l)
  <2>1. a = IF 0 < l - Limit THEN l - Limit ELSE 0
    BY <1>1, MaxOfTwo DEF Positive
  <2> QED
    BY <2>1, <1>1 DEF Positive
<1> HIDE DEF a
<1>3. Kept = [i \in 1 .. l - a |-> snaps[i + a]]
  <2>1. Kept = SubSeq(snaps, a + 1, l)
    BY DEF Kept, a
  <2>2. SubSeq(snaps, a + 1, l) = [i \in 1 .. l - a |-> snaps[i + a]]
    <3>1. SubSeq(snaps, a + 1, l) = [i \in 1 .. 1 + l - (a + 1) |-> snaps[i + (a + 1) - 1]]
      BY <1>1, <1>2
    <3>2. 1 + l - (a + 1) = l - a /\ \A i \in Int : i + (a + 1) - 1 = i + a
      BY <1>1, <1>2
    <3> QED
      BY <3>1, <3>2
  <2> QED
    BY <2>1, <2>2
<1>4. /\ Kept \in Seq(Int) /\ n = l - a /\ n \in Nat /\ DOMAIN Kept = 1 .. n
  <2>1. l - a \in Nat /\ \A i \in 1 .. l - a : snaps[i + a] \in Int
    BY <1>1, <1>2
  <2> QED
    BY <1>3, <2>1
<1>5. snaps = <<>> <=> n = 0
  <2>1. snaps = <<>> <=> l = 0
    OBVIOUS
  <2> QED
    BY <2>1, <1>1, <1>2, <1>4
<1>6. Newest = [i \in 1 .. n |-> Kept[(n - i) + 1]]
  BY DEF Newest, Reverse
<1> HIDE DEF n
<1>7. \A i \in 1 .. n : (n - i) + 1 = n + 1 - i /\ n + 1 - i \in 1 .. n /\ (n + 1) - (n + 1 - i) = i
  BY <1>4
<1>8. /\ Newest \in Seq(Int) /\ Len(Newest) = n
      /\ \A i \in 1 .. n : Newest[i] = Kept[n + 1 - i]
  <2>1. \A i \in 1 .. n : Kept[(n - i) + 1] \in Int /\ Kept[(n - i) + 1] = Kept[n + 1 - i]
    BY <1>4, <1>7
  <2>2. Newest \in [1 .. n -> Int]
    BY <1>6, <2>1
  <2>3. Newest \in Seq(Int) /\ Len(Newest) = n
    BY <1>4, <2>2
  <2> QED
    BY <1>6, <2>1, <2>3
<1>9. \A i \in 1 .. n : Kept[i] = Newest[n + 1 - i]
  <2> TAKE i \in 1 .. n
  <2> DEFINE j == n + 1 - i
  <2>1. j \in 1 .. n /\ (n + 1) - j = i
    BY <1>7
  <2> HIDE DEF j
  <2>2. Newest[j] = Kept[i]
    BY <1>8, <2>1
  <2> QED
    BY <2>2 DEF j
<1>10. Reverse(Newest) = Kept
  <2>1. Reverse(Newest) = [i \in 1 .. n |-> Newest[(n - i) + 1]]
    BY <1>8 DEF Reverse
  <2>2. \A i \in 1 .. n : Newest[(n - i) + 1] = Kept[i]
    BY <1>7, <1>9
  <2>3. Kept = [i \in 1 .. n |-> Kept[i]]
    BY <1>4
  <2> QED
    BY <2>1, <2>2, <2>3
<1> QED
  BY <1>4, <1>5, <1>8, <1>9, <1>10 DEF n

\* The largest rise from a value to a later one above zero.
LargestRise(values) ==
  LET all == DOMAIN values
      later == {q \in all \X all : q[1] < q[2] /\ values[q[2]] > 0}
  IN Max({0} \cup {values[p[2]] - values[p[1]] : p \in later})

\* The loop over drawdowns finds the highest snapshot, and as it gets the newest first, the
\* largest rise.
LEMMA DrawdownFound ==
  ASSUME snaps \in Seq(Int)
  PROVE  /\ snaps # <<>> => Drawdown.peak = Until(Kept, Len(Kept))
         /\ Drawdown.max = LargestRise(Kept)
<1> DEFINE n == Len(Kept)
           Pairs == {q \in (DOMAIN Kept) \X (DOMAIN Kept) : q[1] < q[2] /\ Kept[q[2]] > 0}
           Rises == {0} \cup {Kept[p[2]] - Kept[p[1]] : p \in Pairs}
           d == Drawdown
<1>1. /\ Kept \in Seq(Int) /\ n \in Nat /\ DOMAIN Kept = 1 .. n
      /\ Newest \in Seq(Int) /\ Len(Newest) = n
      /\ snaps = <<>> <=> n = 0
  BY KeptType
<1>2. \A i \in 1 .. n : /\ Newest[i] = Kept[n + 1 - i] /\ Kept[i] = Newest[n + 1 - i]
                        /\ Kept[i] \in Int /\ Newest[i] \in Int
  BY KeptType
<1>3. /\ \A p \in Pairs : /\ p[1] \in DOMAIN Kept /\ p[2] \in DOMAIN Kept /\ p[1] < p[2]
                          /\ Kept[p[2]] > 0
      /\ \A a, b \in DOMAIN Kept : a < b /\ Kept[b] > 0 => <<a, b>> \in Pairs
  <2> DEFINE all == DOMAIN Kept
  <2> HIDE DEF all
  <2>1. Pairs = {q \in all \X all : q[1] < q[2] /\ Kept[q[2]] > 0}
    BY DEF all
  <2>2. /\ \A p \in Pairs : p[1] \in all /\ p[2] \in all /\ p[1] < p[2] /\ Kept[p[2]] > 0
        /\ \A a, b \in all : a < b /\ Kept[b] > 0 => <<a, b>> \in Pairs
    BY <2>1
  <2> QED
    BY <2>2 DEF all
<1> HIDE DEF Pairs
<1>4. \A p \in Pairs : p[1] \in 1 .. n /\ p[2] \in 1 .. n /\ p[1] < p[2] /\ Kept[p[2]] > 0
  BY <1>1, <1>3
<1>5. \A a, b \in 1 .. n : a < b /\ Kept[b] > 0 => <<a, b>> \in Pairs
  BY <1>1, <1>3
<1>6. CASE snaps = <<>>
  <2>1. d.max = 0
    BY <1>6 DEF Drawdown
  <2>2. Pairs = {}
    <3>1. 1 .. n = {}
      BY <1>1, <1>6
    <3> QED
      BY <1>4, <3>1
  <2>3. Rises = {0}
    BY <2>2
  <2>4. Max({0}) = 0
    <3>1. {0, 0} = {0} /\ Max({0, 0}) = 0
      BY MaxOfTwo
    <3> QED
      BY <3>1
  <2> QED
    BY <1>6, <2>1, <2>3, <2>4 DEF LargestRise, Pairs
<1>7. CASE snaps # <<>>
  <2>1. Fallen(Newest, n, d)
    <3>1. Newest # <<>>
      BY <1>1, <1>7
    <3>2. d = FoldLeft(Fall, [peak |-> Newest[1], max |-> 0], Newest)
      BY <1>7 DEF Drawdown
    <3> QED
      BY <1>1, <3>1, <3>2, FallLoop
  <2> HIDE DEF n, d
  <2>2. d.peak = Until(Kept, n)
    <3>1. PICK i \in 1 .. n : d.peak = Newest[i]
      BY <1>1, <2>1 DEF Fallen
    <3>2. \A k \in 1 .. n : Newest[k] <= d.peak
      BY <1>1, <2>1 DEF Fallen
    <3> DEFINE S == {Kept[k] : k \in 1 .. n}
    <3>3. \A k \in 1 .. n : n + 1 - k \in 1 .. n
      BY <1>1
    <3>4. d.peak \in S
      BY <1>2, <3>1, <3>3
    <3>5. \A k \in 1 .. n : Kept[k] \in Int /\ Kept[k] <= d.peak
      BY <1>2, <3>2, <3>3
    <3>6. S \subseteq Int /\ \A y \in S : y <= d.peak
      BY <3>5
    <3> HIDE DEF S
    <3>7. Max(S) = d.peak
      BY <3>4, <3>6, MaxIs
    <3> QED
      BY <3>7 DEF Until, S
  <2>3. d.max \in Rises
    <3>1. CASE d.max = 0
      BY <3>1
    <3>2. CASE d.max # 0
      <4>1. PICK j \in 1 .. n : \E i \in 1 .. j - 1 : Newest[i] > 0 /\ d.max = Newest[i] - Newest[j]
        BY <2>1, <3>2 DEF Fallen
      <4>2. PICK i \in 1 .. j - 1 : Newest[i] > 0 /\ d.max = Newest[i] - Newest[j]
        BY <4>1
      <4>3. /\ i \in 1 .. n /\ n + 1 - j \in 1 .. n /\ n + 1 - i \in 1 .. n
            /\ n + 1 - j < n + 1 - i
        BY <1>1
      <4>6. Kept[n + 1 - i] > 0
        BY <1>2, <4>2, <4>3
      <4>4. <<n + 1 - j, n + 1 - i>> \in Pairs
        BY <1>5, <4>3, <4>6
      <4>5. d.max = Kept[n + 1 - i] - Kept[n + 1 - j]
        BY <1>2, <4>2, <4>3
      <4> QED
        BY <4>4, <4>5
    <3> QED
      BY <3>1, <3>2
  <2>4. ASSUME NEW p \in Pairs PROVE Kept[p[2]] - Kept[p[1]] <= d.max
    <3> DEFINE j == n + 1 - p[1]
               i == n + 1 - p[2]
    <3>1. p[1] \in 1 .. n /\ p[2] \in 1 .. n /\ p[1] < p[2] /\ Kept[p[2]] > 0
      BY <1>4
    <3>2. j \in 1 .. n /\ i \in 1 .. j - 1
      <4>1. \A a, b \in 1 .. n : a < b => n + 1 - a \in 1 .. n /\ n + 1 - b \in 1 .. (n + 1 - a) - 1
        BY <1>1
      <4> QED
        BY <3>1, <4>1
    <3>3. Kept[p[2]] = Newest[i] /\ Kept[p[1]] = Newest[j]
      BY <1>2, <3>1
    <3> HIDE DEF i, j
    <3>4. Newest[i] > 0
      BY <3>1, <3>3
    <3>5. Newest[i] - Newest[j] <= d.max
      BY <2>1, <3>2, <3>4 DEF Fallen
    <3> QED
      BY <3>3, <3>5
  <2>5. Rises \subseteq Int /\ \A y \in Rises : y <= d.max
    <3>1. d.max \in Nat
      BY <2>1 DEF Fallen
    <3>2. \A p \in Pairs : Kept[p[2]] - Kept[p[1]] \in Int
      BY <1>2, <1>4
    <3> QED
      BY <2>4, <3>1, <3>2
  <2> HIDE DEF Rises
  <2>6. Max(Rises) = d.max
    BY <2>3, <2>5, MaxIs
  <2> QED
    BY <2>2, <2>6 DEF LargestRise, Rises, Pairs, n, d
<1> QED
  BY <1>6, <1>7

\* Each entry of the series shows a snapshot and the fall to it from the highest until then.
LEMMA SeriesFound ==
  ASSUME snaps \in Seq(Int), NEW k \in DOMAIN Kept
  PROVE  /\ DrawdownSeries[k].equity = Kept[k]
         /\ DrawdownSeries[k].drawdown = IF Until(Kept, k) = 0 THEN 0 ELSE Until(Kept, k) - Kept[k]
<1>1. /\ Kept \in Seq(Int) /\ Len(Kept) \in Nat /\ DOMAIN Kept = 1 .. Len(Kept)
      /\ Reverse(Newest) = Kept
  BY KeptType
<1> DEFINE peak == PeakSeries(Kept)
<1>2. DrawdownSeries =
        [j \in DOMAIN Kept |-> [equity |-> Kept[j], peak |-> peak[j],
                                drawdown |-> IF peak[j] = 0 THEN 0 ELSE peak[j] - Kept[j]]]
  BY <1>1 DEF DrawdownSeries, PeakSeries
<1>3. peak[k] = Until(Kept, k)
  BY <1>1, PeaksAreHighest
<1> HIDE DEF peak
<1> QED
  BY <1>2, <1>3

\* The peak the dashboard shows is that of the snapshots kept, and each entry of the
\* series the fall from the highest until then.
THEOREM DrawdownsSeen == EquitySpec => []DrawdownSeen
<1>1. SnapsType => DrawdownSeen
  <2> SUFFICES ASSUME SnapsType PROVE DrawdownSeen
    OBVIOUS
  <2>1. snaps \in Seq(Int)
    BY DEF SnapsType
  <2>2. snaps # <<>> => Drawdown.peak = Until(Kept, Len(Kept))
    BY <2>1, DrawdownFound
  <2>3. \A k \in DOMAIN Kept : /\ DrawdownSeries[k].equity = Kept[k]
                               /\ DrawdownSeries[k].drawdown
                                    = IF Until(Kept, k) = 0 THEN 0 ELSE Until(Kept, k) - Kept[k]
    BY <2>1, SeriesFound
  <2> QED
    BY <2>2, <2>3 DEF DrawdownSeen
<1> QED
  BY <1>1, SnapsTyped, PTL

\* What the dashboard shows as the maximum drawdown is the largest rise to a later
\* snapshot above zero, whatever the history: get_equity_snapshots answers the newest
\* first, and the loop takes what comes first for the past.
THEOREM MaxDrawdownIsRise == EquitySpec => [](Drawdown.max = LargestRise(Kept))
<1>1. SnapsType => Drawdown.max = LargestRise(Kept)
  BY DrawdownFound DEF SnapsType
<1> QED
  BY <1>1, SnapsTyped, PTL

-----------------------------------------------------------------------------
(* The order of closing                                                    *)

\* Of some closed trades, one closed last.
LEMMA LastClosed ==
  ASSUME TradesType, NEW U \in SUBSET ClosedIds, U # {}
  PROVE  \E x \in U : \A y \in U : y # x => Before(y, x)
<1> DEFINE IsLast(x, S) == \A y \in S : y # x => Before(y, x)
           G == {S \in SUBSET U : S = {} \/ \E x \in S : IsLast(x, S)}
<1>1. IsFiniteSet(U) /\ \A i \in U : i \in Nat /\ trades[i].closed \in Nat
  BY ClosedTypes, FS_Subset
<1>2. ASSUME NEW S \in SUBSET U, \A T \in SUBSET S : T # S => T \in G
      PROVE  S \in G
  <2> SUFFICES ASSUME S # {} PROVE \E x \in S : IsLast(x, S)
    OBVIOUS
  <2>1. PICK y \in S : TRUE
    OBVIOUS
  <2>2. S \ {y} \in G
    BY <1>2, <2>1
  <2>3. CASE S \ {y} = {}
    BY <2>1, <2>3
  <2>4. CASE S \ {y} # {}
    <3>1. PICK z \in S \ {y} : IsLast(z, S \ {y})
      BY <2>2, <2>4
    <3>2. CASE Before(y, z)
      BY <3>1, <3>2
    <3>3. CASE ~ Before(y, z)
      <4>1. Before(z, y)
        BY <1>1, <2>1, <3>1, <3>3 DEF Before
      <4>2. \A w \in S : w # y => Before(w, y)
        BY <1>1, <2>1, <3>1, <4>1 DEF Before
      <4> QED
        BY <2>1, <4>2
    <3> QED
      BY <3>2, <3>3
  <2> QED
    BY <2>3, <2>4
<1>3. SUBSET U \subseteq G
  <2> HIDE DEF G
  <2> QED
    BY <1>1, <1>2, Subsets
<1>4. U \in G
  BY <1>3
<1> QED
  BY <1>4

\* A row of the trades in S, each once, in the order of closing.
InTurn(row, S) ==
  /\ row \in SetToSeqs(S)
  /\ \A k, l \in DOMAIN row : k < l => Before(row[k], row[l])

\* The closed trades have an order of closing.
LEMMA OrderExists ==
  ASSUME TradesType
  PROVE  \E row : InTurn(row, ClosedIds)
<1> DEFINE G == {S \in SUBSET ClosedIds : \E row : InTurn(row, S)}
<1>1. IsFiniteSet(ClosedIds)
  BY ClosedTypes
<1>2. ASSUME NEW S \in SUBSET ClosedIds, \A T \in SUBSET S : T # S => T \in G
      PROVE  S \in G
  <2>1. IsFiniteSet(S) /\ Cardinality(S) \in Nat
    BY <1>1, FS_Subset, FS_CardinalityType
  <2>2. CASE S = {}
    <3>1. 1 .. Cardinality(S) = {}
      BY <2>2, FS_EmptySet
    <3> DEFINE row == [k \in {} |-> 0]
    <3>2. row \in SetToSeqs(S)
      BY <3>1 DEF SetToSeqs
    <3>3. InTurn(row, S)
      BY <3>2 DEF InTurn
    <3> QED
      BY <3>3
  <2>3. CASE S # {}
    <3>1. PICK x \in S : \A y \in S : y # x => Before(y, x)
      BY <2>3, LastClosed
    <3> DEFINE R == S \ {x}
               m == Cardinality(R)
    <3>2. R \in G
      BY <1>2
    <3>3. PICK r : InTurn(r, R)
      BY <3>2
    <3>4. m \in Nat /\ Cardinality(S) = m + 1
      <4>1. IsFiniteSet(R) /\ m = Cardinality(S) - 1
        BY <2>1, FS_RemoveElement
      <4> QED
        BY <2>1, <4>1, FS_CardinalityType
    <3>5. /\ r \in [1 .. m -> R]
          /\ \A i, j \in 1 .. m : i # j => r[i] # r[j]
          /\ \A k, l \in 1 .. m : k < l => Before(r[k], r[l])
      BY <3>3 DEF InTurn, SetToSeqs
    <3> DEFINE row == [k \in 1 .. m + 1 |-> IF k = m + 1 THEN x ELSE r[k]]
    <3> HIDE DEF m
    <3>6. \A k \in 1 .. m + 1 : k = m + 1 \/ k \in 1 .. m
      BY <3>4
    <3>7. \A k \in 1 .. m : row[k] = r[k] /\ r[k] \in R
      BY <3>4, <3>5
    <3>8. row[m + 1] = x
      BY <3>4
    <3>9. row \in [1 .. m + 1 -> S]
      <4>1. \A k \in 1 .. m + 1 : row[k] \in S
        BY <3>6, <3>7, <3>8
      <4> QED
        BY <4>1
    <3>10. DOMAIN row = 1 .. m + 1
      OBVIOUS
    <3> HIDE DEF row
    <3>11. \A i, j \in 1 .. m + 1 : i # j => row[i] # row[j]
      BY <3>5, <3>6, <3>7, <3>8
    <3>12. \A k, l \in 1 .. m + 1 : k < l => Before(row[k], row[l])
      <4> TAKE k, l \in 1 .. m + 1
      <4> HAVE k < l
      <4>1. k \in 1 .. m
        BY <3>4
      <4>2. CASE l = m + 1
        BY <3>1, <3>7, <3>8, <4>1, <4>2
      <4>3. CASE l # m + 1
        BY <3>5, <3>6, <3>7, <4>1, <4>3
      <4> QED
        BY <4>2, <4>3
    <3>13. row \in SetToSeqs(S)
      BY <3>4, <3>9, <3>11 DEF SetToSeqs
    <3>14. InTurn(row, S)
      BY <3>10, <3>12, <3>13 DEF InTurn
    <3> QED
      BY <3>14
  <2> QED
    BY <2>2, <2>3
<1>3. SUBSET ClosedIds \subseteq G
  <2> HIDE DEF G
  <2> QED
    BY <1>1, <1>2, Subsets
<1>4. ClosedIds \in G
  BY <1>3
<1> QED
  BY <1>4

\* Ordered is one.
LEMMA OrderedType ==
  ASSUME TradesType
  PROVE  /\ InTurn(Ordered, ClosedIds)
         /\ Cardinality(ClosedIds) \in Nat
         /\ Ordered \in [1 .. Cardinality(ClosedIds) -> ClosedIds]
<1>1. InTurn(Ordered, ClosedIds)
  BY OrderExists DEF InTurn, Ordered
<1>2. Cardinality(ClosedIds) \in Nat
  BY ClosedTypes, FS_CardinalityType
<1> QED
  BY <1>1, <1>2 DEF InTurn, SetToSeqs

-----------------------------------------------------------------------------
(* The loop over streaks                                                   *)

\* After k turns over q a streak of c members of W has come to its end, if not all have
\* been in it, and the longest so far is m.
Counted(q, W, k, c, m) ==
  /\ c \in 0 .. k /\ m \in 0 .. k
  /\ \A j \in k - c + 1 .. k : q[j] \in W
  /\ c < k => q[k - c] \notin W
  /\ \E a \in 1 .. k - m + 1 : \A j \in a .. a + m - 1 : q[j] \in W
  /\ \A a, b \in 1 .. k : (\A j \in a .. b : q[j] \in W) => b - a + 1 <= m

\* One turn: the streak goes on or starts again from nothing.
LEMMA CountTurn ==
  ASSUME NEW q, NEW W, NEW k \in Nat, NEW c, NEW m, Counted(q, W, k, c, m)
  PROVE  LET d == IF q[k + 1] \in W THEN c + 1 ELSE 0
         IN Counted(q, W, k + 1, d, Max({m, d}))
<1> DEFINE d == IF q[k + 1] \in W THEN c + 1 ELSE 0
           e == Max({m, d})
<1>1. c \in 0 .. k /\ m \in 0 .. k /\ d \in 0 .. k + 1
  BY DEF Counted
<1>2. e = IF m < d THEN d ELSE m
  BY <1>1, MaxOfTwo
<1>3. e \in 0 .. k + 1
  BY <1>1, <1>2
<1>4. \A j \in (k + 1) - d + 1 .. k + 1 : q[j] \in W
  <2>1. CASE q[k + 1] \in W
    <3>1. d = c + 1
      BY <2>1
    <3>2. \A j \in (k + 1) - (c + 1) + 1 .. k + 1 : j = k + 1 \/ j \in k - c + 1 .. k
      BY <1>1
    <3>3. \A j \in k - c + 1 .. k : q[j] \in W
      BY DEF Counted
    <3> QED
      BY <2>1, <3>1, <3>2, <3>3
  <2>2. CASE q[k + 1] \notin W
    <3>1. d = 0 /\ (k + 1) - 0 + 1 .. k + 1 = {}
      BY <2>2
    <3> QED
      BY <3>1
  <2> QED
    BY <2>1, <2>2
<1>5. d < k + 1 => q[(k + 1) - d] \notin W
  <2>1. CASE q[k + 1] \in W
    <3>1. d = c + 1 /\ (k + 1) - (c + 1) = k - c
      BY <1>1, <2>1
    <3>2. c < k => q[k - c] \notin W
      BY DEF Counted
    <3> QED
      BY <1>1, <3>1, <3>2
  <2>2. CASE q[k + 1] \notin W
    BY <2>2
  <2> QED
    BY <2>1, <2>2
<1>6. \E a \in 1 .. (k + 1) - e + 1 : \A j \in a .. a + e - 1 : q[j] \in W
  <2>1. CASE m < d
    <3>1. e = d /\ d = c + 1
      BY <1>1, <1>2, <2>1
    <3>2. (k + 1) - d + 1 \in 1 .. (k + 1) - e + 1
      BY <1>1, <3>1
    <3>3. ((k + 1) - d + 1) + e - 1 = k + 1
      BY <1>1, <3>1
    <3> QED
      BY <1>4, <3>2, <3>3
  <2>2. CASE ~ (m < d)
    <3>1. e = m
      BY <1>2, <2>2
    <3>2. PICK a \in 1 .. k - m + 1 : \A j \in a .. a + m - 1 : q[j] \in W
      BY DEF Counted
    <3>3. a \in 1 .. (k + 1) - m + 1
      BY <1>1
    <3> QED
      BY <3>1, <3>2, <3>3
  <2> QED
    BY <2>1, <2>2
<1>7. ASSUME NEW a \in 1 .. k + 1, NEW b \in 1 .. k + 1, \A j \in a .. b : q[j] \in W
      PROVE  b - a + 1 <= e
  <2>1. CASE b \in 1 .. k
    <3>1. CASE a \in 1 .. k
      <4>1. b - a + 1 <= m
        BY <1>7, <2>1, <3>1 DEF Counted
      <4> QED
        BY <1>1, <1>2, <4>1
    <3>2. CASE a = k + 1
      BY <1>3, <2>1, <3>2
    <3> QED
      BY <3>1, <3>2
  <2>2. CASE b = k + 1
    <3>1. b \in a .. b
      BY <2>2
    <3>2. d = c + 1
      BY <1>7, <2>2, <3>1
    <3>3. ~ (c < k /\ a <= k - c)
      <4> SUFFICES ASSUME c < k, a <= k - c PROVE FALSE
        OBVIOUS
      <4>1. k - c \in a .. b
        BY <1>1, <2>2
      <4>2. q[k - c] \in W
        BY <1>7, <4>1
      <4> QED
        BY <4>2 DEF Counted
    <3>4. b - a + 1 <= c + 1
      BY <1>1, <2>2, <3>3
    <3> QED
      BY <1>1, <1>2, <3>2, <3>4
  <2> QED
    BY <2>1, <2>2
<1> HIDE DEF d, e
<1>8. Counted(q, W, k + 1, d, e)
  BY <1>1, <1>3, <1>4, <1>5, <1>6, <1>7 DEF Counted
<1> QED
  BY <1>8 DEF d, e

-----------------------------------------------------------------------------
(* The streaks reported                                                    *)

\* The loop over the trades at the places in S of a row q.
CountOver(base, q, S) ==
  MapThenFoldSet(LAMBDA x, y : CountStreak(y, x), base, LAMBDA k : q[k], LAMBDA s : Max(s), S)

CountTable(g, base, q, S) ==
  g = [s \in SUBSET S |-> IF s = {} THEN base ELSE CountStreak(g[s \ {Max(s)}], q[Max(s)])]

\* The loop ends with the entry for the whole set in its table.
LEMMA CountInTable ==
  ASSUME NEW base, NEW q, NEW S
  PROVE  CountOver(base, q, S) = (CHOOSE g : CountTable(g, base, q, S))[S]
BY DEF CountOver, MapThenFoldSet, CountTable

\* The last turn of the loop follows those before it.
LEMMA CountEquation ==
  ASSUME NEW U, Indices(U), NEW base, NEW q
  PROVE  \A S \in SUBSET U :
           CountOver(base, q, S)
             = IF S = {} THEN base ELSE CountStreak(CountOver(base, q, S \ {Max(S)}), q[Max(S)])
<1> DEFINE Turn(s) ==
             IF s = {} THEN base ELSE CountStreak(CountOver(base, q, s \ {Max(s)}), q[Max(s)])
           G == {s \in SUBSET U : CountOver(base, q, s) = Turn(s)}
<1>1. ASSUME NEW S \in SUBSET U, \A T \in SUBSET S : T # S => T \in G
      PROVE  S \in G
  <2> DEFINE g == [s \in SUBSET S |-> Turn(s)]
  <2>1. \A s \in SUBSET S : s # {} => /\ Max(s) \in s /\ s \ {Max(s)} \in SUBSET S
                                      /\ s \ {Max(s)} # S
    BY DEF Indices
  <2>2. \A T \in SUBSET S : T # S => g[T] = CountOver(base, q, T)
    BY <1>1
  <2>3. CountTable(g, base, q, S)
    <3>1. \A s \in SUBSET S : g[s] = IF s = {} THEN base
                                     ELSE CountStreak(g[s \ {Max(s)}], q[Max(s)])
      BY <2>1, <2>2
    <3>2. g = [s \in SUBSET S |-> g[s]]
      OBVIOUS
    <3> HIDE DEF g
    <3> QED
      BY <3>1, <3>2 DEF CountTable
  <2>4. ASSUME NEW h, CountTable(h, base, q, S) PROVE h = g
    <3> HIDE DEF g
    <3>1. IsFiniteSet(S) /\ Table(g, S) /\ Table(h, S)
      BY <2>3, <2>4, FS_Subset DEF CountTable, Table, Indices
    <3>2. Alike(h, g, S)
      <4> SUFFICES ASSUME NEW s \in SUBSET S
                   PROVE  \/ h[s] = g[s]
                          \/ \E x \in s : h[s \ {x}] = g[s \ {x}] => h[s] = g[s]
        BY DEF Alike
      <4>1. CASE s = {}
        BY <2>3, <2>4, <4>1 DEF CountTable
      <4>2. CASE s # {}
        <5>1. /\ h[s] = CountStreak(h[s \ {Max(s)}], q[Max(s)])
              /\ g[s] = CountStreak(g[s \ {Max(s)}], q[Max(s)])
          BY <2>3, <2>4, <4>2 DEF CountTable
        <5> QED
          BY <2>1, <4>2, <5>1
      <4> QED
        BY <4>1, <4>2
    <3> QED
      BY <3>1, <3>2, TablesMatch
  <2>5. (CHOOSE h : CountTable(h, base, q, S)) = g
    <3> HIDE DEF g
    <3> QED
      BY <2>3, <2>4
  <2>6. CountOver(base, q, S) = Turn(S)
    BY <2>5, CountInTable
  <2> QED
    BY <2>6
<1>2. SUBSET U \subseteq G
  <2>1. IsFiniteSet(U)
    BY DEF Indices
  <2> HIDE DEF G
  <2> QED
    BY <1>1, <2>1, Subsets
<1> QED
  BY <1>2

\* What the loop holds after k turns over the trades in the order of closing.
Streaking(k, s) ==
  Counted(Ordered, Wins, k, s.wins, s.maxWins) /\ Counted(Ordered, Losses, k, s.losses, s.maxLosses)

\* All turns of the loop.
LEMMA StreakLoop ==
  ASSUME TradesType
  PROVE  Streaking(Cardinality(ClosedIds), Streaks)
<1> DEFINE n == Cardinality(ClosedIds)
           q == Ordered
           After(k) == CountOver(NoStreaks, q, 1 .. k)
           G == {k \in 0 .. n : Streaking(k, After(k))}
<1>1. n \in Nat /\ q \in [1 .. n -> ClosedIds] /\ DOMAIN q = 1 .. n
  BY OrderedType
<1>2. 0 \in G
  <2>1. 1 .. 0 = {} /\ Indices({})
    BY FS_EmptySet DEF Indices
  <2>2. After(0) = NoStreaks
    BY <2>1, CountEquation
  <2>3. \A W : Counted(q, W, 0, 0, 0)
    <3>1. /\ 0 \in 0 .. 0 /\ 0 - 0 + 1 .. 0 = {} /\ 1 \in 1 .. 0 - 0 + 1
          /\ 1 .. 1 + 0 - 1 = {} /\ ~ (0 < 0)
      OBVIOUS
    <3> QED
      BY <2>1, <3>1 DEF Counted
  <2>4. Streaking(0, NoStreaks)
    BY <2>3 DEF Streaking, NoStreaks
  <2> QED
    BY <1>1, <2>2, <2>4
<1>3. ASSUME NEW k \in 0 .. n - 1, k \in G PROVE k + 1 \in G
  <2> DEFINE s == After(k)
             i == q[k + 1]
             w == IF Pnl(i) > 0 THEN s.wins + 1 ELSE 0
             l == IF Pnl(i) < 0 THEN s.losses + 1 ELSE 0
  <2>1. k \in Nat /\ k + 1 \in 1 .. n /\ k + 1 \in Positive /\ (k + 1) - 1 = k
    BY <1>1 DEF Positive
  <2>2. After(k + 1) = CountStreak(s, i)
    <3> DEFINE U == 1 .. k + 1
    <3>1. U # {} /\ Max(U) = k + 1 /\ U \ {k + 1} = 1 .. k
      BY <2>1, FirstIndices
    <3>2. Indices(U)
      BY <2>1, AllIndices DEF Positive
    <3>3. U \in SUBSET U
      OBVIOUS
    <3> HIDE DEF U
    <3>4. CountOver(NoStreaks, q, U) = CountStreak(CountOver(NoStreaks, q, U \ {Max(U)}), q[Max(U)])
      BY <3>1, <3>2, <3>3, CountEquation
    <3> QED
      BY <3>1, <3>4 DEF U
  <2>3. CountStreak(s, i) = [wins |-> w, losses |-> l, maxWins |-> Max({s.maxWins, w}),
                             maxLosses |-> Max({s.maxLosses, l})]
    BY DEF CountStreak
  <2>4. (i \in Wins <=> Pnl(i) > 0) /\ (i \in Losses <=> Pnl(i) < 0)
    <3>1. i \in ClosedIds
      BY <1>1, <2>1
    <3> QED
      BY <3>1 DEF Wins, Losses
  <2>5. Streaking(k, s)
    BY <1>3
  <2> HIDE DEF s, q
  <2>6. Counted(q, Wins, k + 1, w, Max({s.maxWins, w}))
    <3>1. Counted(q, Wins, k, s.wins, s.maxWins)
      BY <2>5 DEF Streaking, q
    <3>2. w = IF q[k + 1] \in Wins THEN s.wins + 1 ELSE 0
      BY <2>4
    <3> HIDE DEF w, i
    <3> QED
      BY <2>1, <3>1, <3>2, CountTurn
  <2>7. Counted(q, Losses, k + 1, l, Max({s.maxLosses, l}))
    <3>1. Counted(q, Losses, k, s.losses, s.maxLosses)
      BY <2>5 DEF Streaking, q
    <3>2. l = IF q[k + 1] \in Losses THEN s.losses + 1 ELSE 0
      BY <2>4
    <3> HIDE DEF l, i
    <3> QED
      BY <2>1, <3>1, <3>2, CountTurn
  <2> HIDE DEF w, l, i
  <2>8. Streaking(k + 1, CountStreak(s, i))
    BY <2>3, <2>6, <2>7 DEF Streaking, q
  <2>9. Streaking(k + 1, After(k + 1))
    BY <2>2, <2>8
  <2> QED
    BY <1>1, <2>1, <2>9
<1>4. 0 .. n \subseteq G
  <2> HIDE DEF G, n
  <2> QED
    BY <1>1, <1>2, <1>3, Turns
<1>5. n \in G
  BY <1>1, <1>4
<1>6. Streaks = After(n)
  BY <1>1 DEF Streaks, FoldLeft, CountOver
<1> QED
  BY <1>5, <1>6

\* Trades that closed in a row: none outside closed between two of them.
InRow(U) ==
  \A k \in ClosedIds \ U : (\A i \in U : Before(i, k)) \/ (\A i \in U : Before(k, i))

\* The sorted trades are all that closed, each at one place, and Before tells the places.
LEMMA PlacesType ==
  ASSUME TradesType
  PROVE  LET n == Cardinality(ClosedIds)
         IN /\ n \in Nat
            /\ \A j \in 1 .. n : Ordered[j] \in ClosedIds
            /\ \A j, k \in 1 .. n : Ordered[j] = Ordered[k] => j = k
            /\ \A i \in ClosedIds : \E j \in 1 .. n : i = Ordered[j]
            /\ \A j, k \in 1 .. n : Before(Ordered[j], Ordered[k]) <=> j < k
<1> DEFINE n == Cardinality(ClosedIds)
           q == Ordered
<1>1. /\ n \in Nat /\ q \in [1 .. n -> ClosedIds] /\ InTurn(q, ClosedIds)
      /\ IsFiniteSet(ClosedIds)
  BY OrderedType, ClosedTypes
<1>2. /\ \A j, k \in 1 .. n : j # k => q[j] # q[k]
      /\ \A j, k \in 1 .. n : j < k => Before(q[j], q[k])
  BY <1>1 DEF InTurn, SetToSeqs
<1> HIDE DEF q, n
<1>3. q \in Surjection(1 .. n, ClosedIds)
  <2>1. q \in Injection(1 .. n, ClosedIds)
    BY <1>1, <1>2 DEF Injection, IsInjective
  <2>2. Cardinality(1 .. n) = n
    BY <1>1, FS_Interval
  <2>3. Cardinality(1 .. n) = Cardinality(ClosedIds)
    BY <2>2 DEF n
  <2> QED
    BY <1>1, <2>1, <2>3, FS_Injection
<1>4. \A i \in ClosedIds : \E j \in 1 .. n : i = q[j]
  BY <1>3 DEF Surjection
<1>5. \A i, k \in ClosedIds : Before(i, k) => ~ Before(k, i)
  BY ClosedTypes DEF Before
<1>6. \A j, k \in 1 .. n : Before(q[j], q[k]) => j < k
  <2> TAKE j, k \in 1 .. n
  <2> HAVE Before(q[j], q[k])
  <2>1. ~ Before(q[k], q[j])
    BY <1>1, <1>5
  <2>2. ~ (k < j) /\ k # j
    BY <1>2, <2>1
  <2> QED
    BY <1>1, <2>2
<1> QED
  BY <1>1, <1>2, <1>4, <1>6 DEF n, q

\* So many trades are at as many places.
LEMMA PlacesCounted ==
  ASSUME TradesType, NEW a \in Nat, NEW b \in Nat,
         a .. b \subseteq 1 .. Cardinality(ClosedIds)
  PROVE  Cardinality({Ordered[j] : j \in a .. b}) = Cardinality(a .. b)
<1> DEFINE q == Ordered
           U == {q[j] : j \in a .. b}
           f == [j \in a .. b |-> q[j]]
<1>1. \A j, k \in a .. b : q[j] = q[k] => j = k
  BY PlacesType
<1> HIDE DEF q
<1>2. f \in Bijection(a .. b, U)
  BY <1>1 DEF Bijection, Injection, IsInjective, Surjection
<1>3. ExistsBijection(a .. b, U)
  BY <1>2 DEF ExistsBijection
<1>4. IsFiniteSet(a .. b)
  BY FS_Interval
<1> HIDE DEF U
<1>5. Cardinality(U) = Cardinality(a .. b)
  BY <1>3, <1>4, FS_Bijection
<1> QED
  BY <1>5 DEF U, q

\* Trades at neighbouring places closed in a row.
LEMMA PlacesInRow ==
  ASSUME TradesType, NEW a \in Nat, NEW b \in Nat,
         a .. b \subseteq 1 .. Cardinality(ClosedIds)
  PROVE  InRow({Ordered[j] : j \in a .. b})
<1> DEFINE n == Cardinality(ClosedIds)
           q == Ordered
           U == {q[j] : j \in a .. b}
<1> SUFFICES ASSUME NEW k \in ClosedIds \ U
             PROVE  (\A i \in U : Before(i, k)) \/ (\A i \in U : Before(k, i))
  BY DEF InRow
<1>1. PICK x \in 1 .. n : k = q[x]
  BY PlacesType
<1>2. n \in Nat /\ \A j, l \in 1 .. n : Before(q[j], q[l]) <=> j < l
  BY PlacesType
<1> HIDE DEF q, n
<1>3. x \notin a .. b
  BY <1>1
<1>4. CASE x < a
  <2>1. \A j \in a .. b : x < j /\ j \in 1 .. n
    BY <1>2, <1>4 DEF n
  <2> QED
    BY <1>1, <1>2, <2>1
<1>5. CASE b < x
  <2>1. \A j \in a .. b : j < x /\ j \in 1 .. n
    BY <1>2, <1>5 DEF n
  <2> QED
    BY <1>1, <1>2, <2>1
<1> QED
  BY <1>2, <1>3, <1>4, <1>5

\* Trades that closed in a row are at neighbouring places.
LEMMA RowsHavePlaces ==
  ASSUME TradesType, NEW U \in SUBSET ClosedIds, U # {}, InRow(U)
  PROVE  \E a, b \in 1 .. Cardinality(ClosedIds) :
           a <= b /\ U = {Ordered[j] : j \in a .. b}
<1> DEFINE n == Cardinality(ClosedIds)
           q == Ordered
           S == {j \in 1 .. n : q[j] \in U}
           Gaps == {n - j : j \in S}
<1>1. /\ n \in Nat /\ \A j \in 1 .. n : q[j] \in ClosedIds
      /\ \A i \in ClosedIds : \E j \in 1 .. n : i = q[j]
      /\ \A j, k \in 1 .. n : Before(q[j], q[k]) <=> j < k
  BY PlacesType
<1> HIDE DEF n, q
<1>2. S # {} /\ S \subseteq Nat /\ Gaps # {} /\ Gaps \subseteq Nat
  BY <1>1
<1>3. PICK a \in S : \A k \in S : a <= k
  BY <1>2, Smallest
<1>4. PICK g \in Gaps : \A k \in Gaps : g <= k
  <2> HIDE DEF Gaps
  <2> QED
    BY <1>2, Smallest
<1>5. PICK b \in S : g = n - b
  OBVIOUS
<1>6. \A k \in S : k <= b
  <2> TAKE k \in S
  <2>1. n - b <= n - k
    BY <1>4, <1>5
  <2> QED
    BY <1>1, <2>1
<1>7. a \in 1 .. n /\ b \in 1 .. n /\ q[a] \in U /\ q[b] \in U /\ a <= b
  BY <1>3, <1>5
<1>8. ASSUME NEW j \in a .. b PROVE q[j] \in U
  <2> SUFFICES ASSUME q[j] \notin U PROVE FALSE
    OBVIOUS
  <2>1. j \in 1 .. n /\ q[j] \in ClosedIds \ U
    BY <1>1, <1>7
  <2>2. Before(q[b], q[j]) \/ Before(q[j], q[a])
    BY <1>7, <2>1 DEF InRow
  <2>3. b < j \/ j < a
    BY <1>1, <1>7, <2>1, <2>2
  <2> QED
    BY <1>7, <2>3
<1>9. ASSUME NEW i \in U PROVE \E j \in a .. b : i = q[j]
  <2>1. PICK j \in 1 .. n : i = q[j]
    BY <1>1
  <2>2. j \in S
    BY <2>1
  <2>3. a <= j /\ j <= b
    BY <1>3, <1>6, <2>2
  <2> QED
    BY <1>7, <2>1, <2>3
<1>10. U = {q[j] : j \in a .. b}
  BY <1>8, <1>9
<1> QED
  BY <1>7, <1>10 DEF n, q

\* The longest streak counted is the longest row.
LEMMA LongestCounted ==
  ASSUME TradesType, NEW W \in SUBSET ClosedIds, NEW c, NEW m,
         Counted(Ordered, W, Cardinality(ClosedIds), c, m)
  PROVE  m = LongestRow(W)
<1> DEFINE n == Cardinality(ClosedIds)
           q == Ordered
           Sets == {T \in SUBSET W : InRow(T)}
           Lens == {Cardinality(U) : U \in Sets}
<1>1. n \in Nat /\ IsFiniteSet(ClosedIds) /\ \A j \in 1 .. n : q[j] \in ClosedIds
  BY PlacesType, ClosedTypes
<1>2. /\ m \in 0 .. n
      /\ \E a \in 1 .. n - m + 1 : \A j \in a .. a + m - 1 : q[j] \in W
      /\ \A a, b \in 1 .. n : (\A j \in a .. b : q[j] \in W) => b - a + 1 <= m
  BY DEF Counted
<1> HIDE DEF n, q
<1>3. m \in Lens
  <2>1. PICK a \in 1 .. n - m + 1 : \A j \in a .. a + m - 1 : q[j] \in W
    BY <1>2
  <2> DEFINE b == a + m - 1
             U == {q[j] : j \in a .. b}
  <2>2. a \in Nat /\ b \in Nat /\ a .. b \subseteq 1 .. n
    BY <1>1, <1>2
  <2>3. Cardinality(a .. b) = m
    <3>1. (a > b <=> m = 0) /\ (a <= b => b - a + 1 = m)
      BY <1>1, <1>2
    <3> HIDE DEF b
    <3>2. a \in Int /\ b \in Int
      BY <2>2
    <3>3. Cardinality(a .. b) = IF a > b THEN 0 ELSE b - a + 1
      BY <3>2, FS_Interval
    <3> QED
      BY <3>1, <3>2, <3>3
  <2>4. U \subseteq W
    BY <2>1
  <2> HIDE DEF b
  <2>5. InRow(U)
    BY <2>2, PlacesInRow DEF n, q
  <2>6. Cardinality(U) = m
    BY <2>2, <2>3, PlacesCounted DEF n, q
  <2> HIDE DEF U
  <2> QED
    BY <2>4, <2>5, <2>6
<1>4. ASSUME NEW U \in Sets PROVE Cardinality(U) \in Int /\ Cardinality(U) <= m
  <2>1. U \in SUBSET ClosedIds /\ U \in SUBSET W /\ InRow(U)
    OBVIOUS
  <2>2. CASE U = {}
    BY <1>1, <1>2, <2>2, FS_EmptySet
  <2>3. CASE U # {}
    <3>1. PICK a, b \in 1 .. n : a <= b /\ U = {q[j] : j \in a .. b}
      BY <2>1, <2>3, RowsHavePlaces DEF n, q
    <3>2. a \in Nat /\ b \in Nat /\ a .. b \subseteq 1 .. n
      BY <1>1
    <3>3. Cardinality(U) = Cardinality(a .. b)
      BY <3>1, <3>2, PlacesCounted DEF n, q
    <3>4. Cardinality(a .. b) = b - a + 1
      BY <3>1, <3>2, FS_Interval
    <3>5. \A j \in a .. b : q[j] \in W
      BY <2>1, <3>1
    <3>6. b - a + 1 <= m
      BY <1>2, <3>5
    <3> QED
      BY <3>2, <3>3, <3>4, <3>6
  <2> QED
    BY <2>2, <2>3
<1>5. LongestRow(W) = Max(Lens)
  BY DEF LongestRow, InRow
<1> HIDE DEF Sets
<1>6. Lens \subseteq Int /\ \A y \in Lens : y <= m
  BY <1>4
<1> HIDE DEF Lens
<1> QED
  BY <1>3, <1>5, <1>6, MaxIs

\* The streaks reported are the longest rows, for every history of trades.
THEOREM StreaksAreLongest == EquitySpec => []StreaksFound
<1>1. TradesType => StreaksFound
  <2> SUFFICES ASSUME TradesType PROVE StreaksFound
    OBVIOUS
  <2>1. Streaking(Cardinality(ClosedIds), Streaks)
    BY StreakLoop
  <2>2. Wins \in SUBSET ClosedIds /\ Losses \in SUBSET ClosedIds
    BY DEF Wins, Losses
  <2>3. Streaks.maxWins = LongestRow(Wins) /\ Streaks.maxLosses = LongestRow(Losses)
    BY <2>1, <2>2, LongestCounted DEF Streaking
  <2> QED
    BY <2>3 DEF StreaksFound
<1> QED
  BY <1>1, TradesTyped, PTL

-----------------------------------------------------------------------------
(* Indices in order                                                        *)

\* Those of S that come before i.
Below(S, i) == {j \in S : j < i}

\* An index after all others comes after exactly these, and before none.
LEMMA BelowLast ==
  ASSUME NEW T, T \subseteq Int, NEW m \in Int, \A i \in T : i < m
  PROVE  /\ m \notin T /\ Below(T \cup {m}, m) = T
         /\ \A i \in T : Below(T \cup {m}, i) = Below(T, i)
<1>1. m \notin T
  <2>1. ~ (m < m)
    OBVIOUS
  <2> QED
    BY <2>1
<1>2. Below(T \cup {m}, m) = T
  <2>1. ~ (m < m)
    OBVIOUS
  <2>2. \A j : j \in T \cup {m} /\ j < m <=> j \in T
    BY <2>1
  <2> QED
    BY <2>2 DEF Below
<1>3. ASSUME NEW i \in T PROVE Below(T \cup {m}, i) = Below(T, i)
  <2>1. ~ (m < i)
    BY <1>3
  <2>2. \A j : j \in T \cup {m} /\ j < i <=> j \in T /\ j < i
    BY <2>1
  <2> QED
    BY <2>2 DEF Below
<1> QED
  BY <1>1, <1>2, <1>3

\* Indices are finitely many.
LEMMA IndicesFinite ==
  ASSUME NEW n \in Nat, NEW U \in SUBSET (1 .. n)
  PROVE  IsFiniteSet(U) /\ Cardinality(U) \in Nat /\ U \subseteq Int
<1>1. IsFiniteSet(1 .. n)
  BY FS_Interval
<1>2. IsFiniteSet(U)
  BY <1>1, FS_Subset
<1>3. 1 .. n \subseteq Int
  OBVIOUS
<1> QED
  BY <1>2, <1>3, FS_CardinalityType

\* A set of indices has a first, a second and so on.
LEMMA NthExists ==
  ASSUME NEW n \in Nat, NEW U \in SUBSET (1 .. n)
  PROVE  \A k \in 1 .. Cardinality(U) : Nth(U, k) \in U
<1> DEFINE Each(S) == \A k \in 1 .. Cardinality(S) : \E i \in S : Cardinality(Below(S, i)) = k - 1
           G == {S \in SUBSET U : Each(S)}
<1>1. IsFiniteSet(U)
  BY IndicesFinite
<1>2. ASSUME NEW S \in SUBSET U, \A T \in SUBSET S : T # S => T \in G
      PROVE  S \in G
  <2>1. IsFiniteSet(S) /\ Cardinality(S) \in Nat /\ S \subseteq 1 .. n
    BY <1>1, FS_Subset, FS_CardinalityType
  <2>2. CASE S = {}
    <3>1. Cardinality(S) = 0
      BY <2>2, FS_EmptySet
    <3>2. 1 .. 0 = {}
      OBVIOUS
    <3>3. Each(S)
      BY <3>1, <3>2
    <3> QED
      BY <3>3
  <2>3. CASE S # {}
    <3> DEFINE m == Max(S)
               T == S \ {m}
    <3>1. m \in S /\ \A i \in S : i <= m
      BY <2>1, <2>3, MaxIndex
    <3>2. T \in SUBSET S /\ T # S
      BY <3>1
    <3>3. T \in G
      BY <1>2, <3>2
    <3>4. Cardinality(T) = Cardinality(S) - 1
      BY <2>1, <3>1, FS_RemoveElement
    <3>5. Below(S, m) = T /\ \A i \in T : Below(S, i) = Below(T, i)
      <4> HIDE DEF m
      <4>1. T \subseteq Int /\ m \in Int /\ \A i \in T : i < m
        BY <2>1, <3>1
      <4>2. S = T \cup {m}
        BY <3>1
      <4> HIDE DEF T
      <4> QED
        BY <4>1, <4>2, BelowLast
    <3>7. ASSUME NEW k \in 1 .. Cardinality(S)
          PROVE  \E i \in S : Cardinality(Below(S, i)) = k - 1
      <4>1. CASE k = Cardinality(S)
        BY <3>1, <3>4, <3>5, <4>1
      <4>2. CASE k # Cardinality(S)
        <5>1. k \in 1 .. Cardinality(T)
          BY <2>1, <3>4, <4>2
        <5>2. PICK i \in T : Cardinality(Below(T, i)) = k - 1
          BY <3>3, <5>1
        <5> QED
          BY <3>2, <3>5, <5>2
      <4> QED
        BY <4>1, <4>2
    <3> HIDE DEF m, T
    <3> QED
      BY <3>7
  <2> QED
    BY <2>2, <2>3
<1>3. SUBSET U \subseteq G
  <2> HIDE DEF G
  <2> QED
    BY <1>1, <1>2, Subsets
<1>4. Each(U)
  BY <1>3
<1> QED
  BY <1>4 DEF Nth, Below

\* An index after all others goes to the end.
LEMMA NthAppended ==
  ASSUME NEW n \in Nat, NEW U \in SUBSET (1 .. n), NEW m \in Nat, \A i \in U : i < m
  PROVE  InOrder(U \cup {m}) = Append(InOrder(U), m)
<1> DEFINE c == Cardinality(U)
           V == U \cup {m}
<1>1. IsFiniteSet(U) /\ c \in Nat /\ m \notin U /\ U \subseteq Int
  <2>1. IsFiniteSet(U) /\ Cardinality(U) \in Nat /\ U \subseteq Int
    BY IndicesFinite
  <2>2. m \notin U
    BY <2>1, BelowLast
  <2> QED
    BY <2>1, <2>2
<1>2. Cardinality(V) = c + 1
  BY <1>1, FS_AddElement
<1>3. Below(V, m) = U /\ \A i \in U : Below(V, i) = Below(U, i)
  <2>1. U \subseteq Int /\ m \in Int
    BY <1>1
  <2> QED
    BY <2>1, BelowLast
<1>4. \A i \in U : Cardinality(Below(U, i)) \in Nat /\ Cardinality(Below(U, i)) < c
  <2> TAKE i \in U
  <2>1. Below(U, i) \subseteq U /\ Below(U, i) # U
    BY <1>1 DEF Below
  <2> QED
    BY <1>1, <2>1, FS_Subset, FS_CardinalityType
<1> HIDE DEF c
<1>5. ASSUME NEW k \in 1 .. c PROVE Nth(V, k) = Nth(U, k)
  <2>1. \A i \in V : Cardinality(Below(V, i)) = k - 1 => i \in U
    <3>1. Cardinality(Below(V, m)) = c
      BY <1>3 DEF c
    <3> QED
      BY <1>1, <3>1
  <2>2. \A i : i \in V /\ Cardinality(Below(V, i)) = k - 1
               <=> i \in U /\ Cardinality(Below(U, i)) = k - 1
    BY <1>3, <2>1
  <2>3. (CHOOSE i : i \in V /\ Cardinality(Below(V, i)) = k - 1)
          = (CHOOSE i : i \in U /\ Cardinality(Below(U, i)) = k - 1)
    BY <2>2
  <2> QED
    BY <2>3 DEF Nth, Below
<1>6. Nth(V, c + 1) = m
  <2>1. m \in V /\ Cardinality(Below(V, m)) = (c + 1) - 1
    BY <1>1, <1>3 DEF c
  <2>2. \A i \in V : Cardinality(Below(V, i)) = (c + 1) - 1 => i = m
    BY <1>1, <1>3, <1>4
  <2>3. (CHOOSE i \in V : Cardinality(Below(V, i)) = (c + 1) - 1) = m
    BY <2>1, <2>2
  <2> QED
    BY <2>3 DEF Nth, Below
<1> DEFINE r == InOrder(U)
<1>7. r = [k \in 1 .. c |-> Nth(U, k)] /\ InOrder(V) = [k \in 1 .. c + 1 |-> Nth(V, k)]
  BY <1>2 DEF InOrder, c
<1>8. Append(r, m) = [k \in 1 .. c + 1 |-> IF k = c + 1 THEN m ELSE r[k]]
  <2> HIDE DEF r
  <2>1. Len(r) = c
    BY <1>1, <1>7
  <2> QED
    BY <2>1, <1>1, <1>7
<1>9. \A k \in 1 .. c + 1 : Nth(V, k) = IF k = c + 1 THEN m ELSE r[k]
  <2> TAKE k \in 1 .. c + 1
  <2>1. CASE k = c + 1
    BY <1>6, <2>1
  <2>2. CASE k # c + 1
    <3>1. k \in 1 .. c
      BY <1>1, <2>2
    <3> QED
      BY <1>5, <1>7, <2>2, <3>1
  <2> QED
    BY <2>1, <2>2
<1> HIDE DEF r, V
<1>10. InOrder(V) = Append(r, m)
  BY <1>7, <1>8, <1>9
<1> QED
  BY <1>10 DEF r, V

\* The newest of some values and one more are the newest of their newest and that one.
LEMMA LatestAppended ==
  ASSUME NEW S, NEW xs \in Seq(S), NEW x \in S, NEW n \in Nat
  PROVE  Latest(Append(xs, x), n) = Latest(Append(Latest(xs, n), x), n)
<1> DEFINE l == Len(xs)
           ys == Append(xs, x)
           kept == Latest(xs, n)
           zs == Append(kept, x)
<1>1. /\ l \in Nat /\ Len(ys) = l + 1 /\ ys \in Seq(S)
      /\ ys[l + 1] = x /\ \A i \in 1 .. l : ys[i] = xs[i] /\ xs[i] \in S
  OBVIOUS
<1>2. CASE l < n
  <2>1. Max({0, l - n}) = 0
    BY <1>1, <1>2, MaxOfTwo
  <2>2. kept = xs
    <3>1. kept = SubSeq(xs, 0 + 1, l)
      BY <2>1 DEF Latest
    <3>2. SubSeq(xs, 0 + 1, l) = [i \in 1 .. 1 + l - (0 + 1) |-> xs[i + (0 + 1) - 1]]
      BY <1>1
    <3>3. 1 + l - (0 + 1) = l /\ \A i \in Int : i + (0 + 1) - 1 = i
      BY <1>1
    <3>4. xs = [i \in 1 .. l |-> xs[i]]
      OBVIOUS
    <3> HIDE DEF kept
    <3> QED
      BY <3>1, <3>2, <3>3, <3>4
  <2> QED
    BY <2>2
<1>3. CASE ~ (l < n)
  <2>1. Max({0, l - n}) = l - n
    <3>1. l - n \in Int /\ 0 \in Int
      BY <1>1
    <3>2. Max({0, l - n}) = IF 0 < l - n THEN l - n ELSE 0
      BY <3>1, MaxOfTwo
    <3> QED
      BY <1>1, <1>3, <3>2
  <2>2. kept = [i \in 1 .. n |-> xs[i + (l - n)]]
    <3>1. kept = SubSeq(xs, (l - n) + 1, l)
      BY <2>1 DEF Latest
    <3>2. SubSeq(xs, (l - n) + 1, l)
            = [i \in 1 .. 1 + l - ((l - n) + 1) |-> xs[i + ((l - n) + 1) - 1]]
      BY <1>1, <1>3
    <3>3. 1 + l - ((l - n) + 1) = n /\ \A i \in Int : i + ((l - n) + 1) - 1 = i + (l - n)
      BY <1>1, <1>3
    <3> QED
      BY <3>1, <3>2, <3>3
  <2>3. \A i \in 1 .. n : i + (l - n) \in 1 .. l
    BY <1>1, <1>3
  <2>4. kept \in Seq(S) /\ Len(kept) = n
    <3>1. \A i \in 1 .. n : xs[i + (l - n)] \in S
      BY <1>1, <2>3
    <3> HIDE DEF kept
    <3> QED
      BY <2>2, <3>1
  <2>5. /\ zs \in Seq(S) /\ Len(zs) = n + 1 /\ zs[n + 1] = x
        /\ \A i \in 1 .. n : zs[i] = xs[i + (l - n)]
    <3> HIDE DEF kept
    <3> QED
      BY <2>2, <2>4
  <2>6. Max({0, (l + 1) - n}) = (l + 1) - n /\ Max({0, (n + 1) - n}) = 1
    <3>1. (l + 1) - n \in Int /\ (n + 1) - n = 1 /\ 0 \in Int /\ 1 \in Int
      BY <1>1
    <3>2. Max({0, (l + 1) - n}) = IF 0 < (l + 1) - n THEN (l + 1) - n ELSE 0
      BY <3>1, MaxOfTwo
    <3>3. Max({0, 1}) = 1
      BY MaxOfTwo
    <3> QED
      BY <1>1, <1>3, <3>1, <3>2, <3>3
  <2> HIDE DEF kept, zs, ys, l
  <2>7. Latest(ys, n) = [i \in 1 .. n |-> ys[i + ((l + 1) - n)]]
    <3>1. Latest(ys, n) = SubSeq(ys, ((l + 1) - n) + 1, l + 1)
      BY <1>1, <2>6 DEF Latest
    <3>2. SubSeq(ys, ((l + 1) - n) + 1, l + 1)
            = [i \in 1 .. 1 + (l + 1) - (((l + 1) - n) + 1) |-> ys[i + (((l + 1) - n) + 1) - 1]]
      BY <1>1, <1>3
    <3>3. /\ 1 + (l + 1) - (((l + 1) - n) + 1) = n
          /\ \A i \in Int : i + (((l + 1) - n) + 1) - 1 = i + ((l + 1) - n)
      BY <1>1, <1>3
    <3> QED
      BY <3>1, <3>2, <3>3
  <2>8. Latest(zs, n) = [i \in 1 .. n |-> zs[i + 1]]
    <3>1. Latest(zs, n) = SubSeq(zs, 1 + 1, n + 1)
      BY <2>5, <2>6 DEF Latest
    <3>2. SubSeq(zs, 1 + 1, n + 1) = [i \in 1 .. 1 + (n + 1) - (1 + 1) |-> zs[i + (1 + 1) - 1]]
      BY <2>5
    <3>3. 1 + (n + 1) - (1 + 1) = n /\ \A i \in Int : i + (1 + 1) - 1 = i + 1
      OBVIOUS
    <3> QED
      BY <3>1, <3>2, <3>3
  <2>9. ASSUME NEW i \in 1 .. n PROVE ys[i + ((l + 1) - n)] = zs[i + 1]
    <3>1. CASE i = n
      <4>1. i + ((l + 1) - n) = l + 1
        BY <1>1, <3>1
      <4> QED
        BY <1>1, <2>5, <3>1, <4>1
    <3>2. CASE i # n
      <4> DEFINE j == i + 1
      <4>1. j \in 1 .. n
        BY <3>2
      <4>2. i + ((l + 1) - n) = j + (l - n)
        BY <1>1
      <4>3. j + (l - n) \in 1 .. l
        BY <2>3, <4>1
      <4> HIDE DEF j
      <4>4. zs[j] = xs[j + (l - n)] /\ ys[j + (l - n)] = xs[j + (l - n)]
        BY <1>1, <2>5, <4>1, <4>3
      <4> QED
        BY <4>2, <4>4 DEF j
    <3> QED
      BY <3>1, <3>2
  <2>10. Latest(ys, n) = Latest(zs, n)
    BY <2>7, <2>8, <2>9
  <2> QED
    BY <2>10 DEF ys, zs, kept
<1> QED
  BY <1>2, <1>3

-----------------------------------------------------------------------------
(* Swing levels                                                            *)

Bars == [high : Int, low : Int, close : Int, volume : Int]

\* Extremes(new) are those of before, and perhaps the one candle whose neighbours are
\* complete now.
Grow(old, new, n, m) ==
  /\ old \in SUBSET (1 .. n) /\ \A i \in old : i < m
  /\ new = old \/ (m \in 1 .. n + 1 /\ new = old \cup {m})

\* One candle more.
LEMMA CandleAdded ==
  ASSUME NEW cs \in Seq(Bars), NEW c \in Bars
  PROVE  LET ds == Append(cs, c)
             n == Len(cs)
         IN /\ n \in Nat /\ DOMAIN cs = 1 .. n /\ DOMAIN ds = 1 .. n + 1
            /\ Len(ds) = n + 1 /\ \A i \in 1 .. n : ds[i] = cs[i]
OBVIOUS

\* Where a candle and its neighbours are among those of before, they are the same later.
LEMMA SwingGrows ==
  ASSUME NEW cs \in Seq(Bars), NEW c \in Bars, NEW left \in Nat, NEW right \in Nat
  PROVE  LET ds == Append(cs, c)
             n == Len(cs)
             m == n + 1 - right
         IN /\ SwingCandidates(cs, left, right) \in SUBSET (1 .. n)
            /\ \A i \in SwingCandidates(cs, left, right) :
                 /\ i < m /\ i \in SwingCandidates(ds, left, right)
                 /\ Around(i, left, right) \cap DOMAIN ds = Around(i, left, right) \cap DOMAIN cs
            /\ \A i \in SwingCandidates(ds, left, right) :
                 \/ i \in SwingCandidates(cs, left, right)
                 \/ i = m /\ m \in 1 .. n + 1
<1> DEFINE ds == Append(cs, c)
           n == Len(cs)
           m == n + 1 - right
<1>1. /\ n \in Nat /\ DOMAIN cs = 1 .. n /\ DOMAIN ds = 1 .. n + 1 /\ Len(ds) = n + 1
  BY CandleAdded
<1> HIDE DEF ds, n
<1>2. /\ SwingCandidates(cs, left, right) = left + 1 .. n - right
      /\ SwingCandidates(ds, left, right) = left + 1 .. (n + 1) - right
  BY <1>1 DEF SwingCandidates, n
<1>3. left + 1 .. n - right \subseteq 1 .. n
  BY <1>1
<1>4. ASSUME NEW i \in left + 1 .. n - right
      PROVE  /\ i < m /\ i \in left + 1 .. (n + 1) - right
             /\ Around(i, left, right) \cap DOMAIN ds = Around(i, left, right) \cap DOMAIN cs
  <2>1. i < m /\ i \in left + 1 .. (n + 1) - right /\ i + right <= n
    BY <1>1
  <2>2. \A j \in i - left .. i + right : j \in 1 .. n + 1 <=> j \in 1 .. n
    BY <1>1, <2>1
  <2> QED
    BY <1>1, <2>1, <2>2 DEF Around
<1>5. \A i \in left + 1 .. (n + 1) - right :
        i \in left + 1 .. n - right \/ (i = m /\ m \in 1 .. n + 1)
  BY <1>1
<1> HIDE DEF m
<1> QED
  BY <1>2, <1>3, <1>4, <1>5 DEF ds, n, m

\* So the highs and the lows grow.
LEMMA ExtremesGrow ==
  ASSUME NEW cs \in Seq(Bars), NEW c \in Bars, NEW left \in Nat, NEW right \in Nat
  PROVE  LET ds == Append(cs, c)
             n == Len(cs)
             m == n + 1 - right
         IN /\ Grow(Highs(cs, left, right), Highs(ds, left, right), n, m)
            /\ Grow(Lows(cs, left, right), Lows(ds, left, right), n, m)
<1> DEFINE ds == Append(cs, c)
           n == Len(cs)
           m == n + 1 - right
           old == SwingCandidates(cs, left, right)
           new == SwingCandidates(ds, left, right)
           By(i) == Around(i, left, right) \cap DOMAIN cs
<1>1. /\ n \in Nat /\ DOMAIN cs = 1 .. n /\ \A i \in 1 .. n : ds[i] = cs[i]
  BY CandleAdded
<1>2. /\ old \in SUBSET (1 .. n)
      /\ \A i \in old : i < m /\ i \in new /\ Around(i, left, right) \cap DOMAIN ds = By(i)
      /\ \A i \in new : i \in old \/ (i = m /\ m \in 1 .. n + 1)
  BY SwingGrows
<1>3. \A i \in old : By(i) \subseteq 1 .. n
  BY <1>1
<1>4. \A i \in old : i \in Highs(ds, left, right) <=> i \in Highs(cs, left, right)
  <2> TAKE i \in old
  <2>1. \A j \in By(i) : ds[j] = cs[j] /\ ds[i] = cs[i]
    BY <1>1, <1>2, <1>3
  <2> QED
    BY <1>2, <2>1 DEF Highs
<1>5. \A i \in old : i \in Lows(ds, left, right) <=> i \in Lows(cs, left, right)
  <2> TAKE i \in old
  <2>1. \A j \in By(i) : ds[j] = cs[j] /\ ds[i] = cs[i]
    BY <1>1, <1>2, <1>3
  <2> QED
    BY <1>2, <2>1 DEF Lows
<1>6. /\ Highs(cs, left, right) \subseteq old /\ Lows(cs, left, right) \subseteq old
      /\ Highs(ds, left, right) \subseteq new /\ Lows(ds, left, right) \subseteq new
  BY DEF Highs, Lows
<1>7. ASSUME NEW A, NEW B, A \subseteq old, B \subseteq new, \A i \in old : i \in B <=> i \in A
      PROVE  Grow(A, B, n, m)
  <2> HIDE DEF old, new, By, ds, n, m
  <2>1. A \in SUBSET (1 .. n) /\ \A i \in A : i < m
    BY <1>2, <1>7
  <2>2. \A i \in B : i \in A \/ (i = m /\ m \in 1 .. n + 1)
    BY <1>2, <1>7
  <2>3. A \subseteq B
    BY <1>7
  <2>4. B = A \/ (m \in 1 .. n + 1 /\ B = A \cup {m})
    BY <2>2, <2>3
  <2> QED
    BY <2>1, <2>4 DEF Grow
<1> HIDE DEF old, new, By
<1> QED
  BY <1>4, <1>5, <1>6, <1>7

\* The prices p has at some indices, in order.
Priced(p, S) == [k \in 1 .. Cardinality(S) |-> p[Nth(S, k)]]

\* The prices q are those of p and one more.
Longer(p, q, n, V) == (\A i \in 1 .. n : q[i] = p[i]) /\ \A i \in 1 .. n + 1 : q[i] \in V

\* The newest values now are those of before, or these with one more of V.
Follow(now, before, max, V) ==
  now = before \/ \E x \in V : now = Latest(Append(before, x), max)

\* Where indices grow, the newest of their prices follow from the newest of before.
LEMMA LevelsFollow ==
  ASSUME NEW n \in Nat, NEW m, NEW old, NEW new, Grow(old, new, n, m), NEW V, NEW p, NEW q,
         Longer(p, q, n, V), NEW max \in Nat
  PROVE  Follow(Latest(Priced(q, new), max), Latest(Priced(p, old), max), max, V)
<1> DEFINE c == Cardinality(old)
           a == Priced(p, old)
           b == Priced(q, new)
<1>1. old \in SUBSET (1 .. n) /\ c \in Nat /\ \A i \in old : i < m
  BY IndicesFinite DEF Grow
<1>2. \A k \in 1 .. c : Nth(old, k) \in 1 .. n
  BY <1>1, NthExists
<1>3. \A k \in 1 .. c : q[Nth(old, k)] = p[Nth(old, k)] /\ p[Nth(old, k)] \in V
  <2> TAKE k \in 1 .. c
  <2>1. Nth(old, k) \in 1 .. n /\ Nth(old, k) \in 1 .. n + 1
    BY <1>2
  <2>2. q[Nth(old, k)] = p[Nth(old, k)] /\ q[Nth(old, k)] \in V
    BY <2>1 DEF Longer
  <2> QED
    BY <2>2
<1>4. CASE new = old
  <2>1. b = a
    BY <1>3, <1>4 DEF Priced
  <2> QED
    BY <2>1 DEF Follow
<1>5. CASE m \in 1 .. n + 1 /\ new = old \cup {m}
  <2> DEFINE r == InOrder(old)
  <2>1. InOrder(new) = Append(r, m)
    <3>1. m \in Nat
      BY <1>5
    <3>2. InOrder(old \cup {m}) = Append(InOrder(old), m)
      BY <1>1, <3>1, NthAppended
    <3> QED
      BY <1>5, <3>2
  <2>2. Cardinality(new) = c + 1
    <3>1. IsFiniteSet(old)
      BY <1>1, IndicesFinite
    <3>2. m \notin old
      BY <1>1, <1>5
    <3> QED
      BY <1>1, <1>5, <3>1, <3>2, FS_AddElement
  <2> HIDE DEF c
  <2>3. r = [k \in 1 .. c |-> Nth(old, k)]
    BY DEF InOrder, c
  <2>4. \A k \in 1 .. c + 1 : Nth(new, k) = IF k = c + 1 THEN m ELSE Nth(old, k)
    <3>1. InOrder(new) = [k \in 1 .. c + 1 |-> Nth(new, k)]
      BY <2>2 DEF InOrder
    <3>2. Append(r, m) = [k \in 1 .. c + 1 |-> IF k = c + 1 THEN m ELSE r[k]]
      <4> HIDE DEF r
      <4>1. Len(r) = c
        BY <1>1, <2>3
      <4> QED
        BY <4>1, <1>1, <2>3
    <3>3. \A k \in 1 .. c + 1 : Nth(new, k) = IF k = c + 1 THEN m ELSE r[k]
      <4> HIDE DEF r
      <4>1. \A k \in 1 .. c + 1 : InOrder(new)[k] = Nth(new, k)
        BY <3>1
      <4>2. \A k \in 1 .. c + 1 : Append(r, m)[k] = IF k = c + 1 THEN m ELSE r[k]
        BY <3>2
      <4> QED
        BY <2>1, <4>1, <4>2
    <3>4. \A k \in 1 .. c + 1 : k = c + 1 \/ k \in 1 .. c
      BY <1>1
    <3>5. \A k \in 1 .. c : r[k] = Nth(old, k)
      BY <2>3
    <3> HIDE DEF r
    <3> QED
      BY <3>3, <3>4, <3>5
  <2>5. a = [k \in 1 .. c |-> p[Nth(old, k)]] /\ a \in Seq(V) /\ Len(a) = c
    <3>1. a = [k \in 1 .. c |-> p[Nth(old, k)]]
      BY DEF Priced, c
    <3> HIDE DEF a
    <3> QED
      BY <1>1, <1>3, <3>1 DEF c
  <2>6. b = Append(a, q[m])
    <3>1. b = [k \in 1 .. c + 1 |-> q[Nth(new, k)]]
      BY <2>2 DEF Priced
    <3>2. \A k \in 1 .. c + 1 : q[Nth(new, k)] = IF k = c + 1 THEN q[m] ELSE a[k]
      <4> TAKE k \in 1 .. c + 1
      <4>1. CASE k = c + 1
        BY <2>4, <4>1
      <4>2. CASE k # c + 1
        <5>1. k \in 1 .. c
          BY <1>1, <4>2 DEF c
        <5>2. Nth(new, k) = Nth(old, k)
          BY <2>4, <4>2
        <5>3. q[Nth(old, k)] = p[Nth(old, k)]
          BY <1>3, <5>1 DEF c
        <5>4. a[k] = p[Nth(old, k)]
          BY <2>5, <5>1
        <5> QED
          BY <4>2, <5>2, <5>3, <5>4
      <4> QED
        BY <4>1, <4>2
    <3> HIDE DEF a, b
    <3>3. Append(a, q[m]) = [k \in 1 .. c + 1 |-> IF k = c + 1 THEN q[m] ELSE a[k]]
      BY <1>1, <2>5 DEF c
    <3> QED
      BY <3>1, <3>2, <3>3
  <2>7. q[m] \in V
    BY <1>5 DEF Longer
  <2> HIDE DEF a, b
  <2>8. Latest(b, max) = Latest(Append(Latest(a, max), q[m]), max)
    BY <2>5, <2>6, <2>7, LatestAppended
  <2> QED
    BY <2>7, <2>8 DEF a, b, Follow
<1> QED
  BY <1>1, <1>4, <1>5 DEF Grow

\* The highs and lows of candles are in V.
Within(bars, V) == \A i \in DOMAIN bars : bars[i].high \in V /\ bars[i].low \in V

\* For any candles, any neighbourhood and any number of levels: one candle more leaves
\* the levels as they are, or adds one to them, for which the oldest may go.
THEOREM SwingLevelsFollow ==
  ASSUME NEW cs \in Seq(Bars), NEW c \in Bars, NEW left \in Nat, NEW right \in Nat,
         NEW max \in Nat, NEW V, Within(Append(cs, c), V)
  PROVE  LET old == SwingLevels(cs, left, right, max)
             new == SwingLevels(Append(cs, c), left, right, max)
         IN Follow(new.res, old.res, max, V) /\ Follow(new.sup, old.sup, max, V)
<1> DEFINE ds == Append(cs, c)
           n == Len(cs)
           m == n + 1 - right
           H(bars) == [i \in DOMAIN bars |-> bars[i].high]
           L(bars) == [i \in DOMAIN bars |-> bars[i].low]
           hs == Highs(cs, left, right)
           ls == Lows(cs, left, right)
           hs2 == Highs(ds, left, right)
           ls2 == Lows(ds, left, right)
<1>1. /\ n \in Nat /\ DOMAIN cs = 1 .. n /\ DOMAIN ds = 1 .. n + 1
      /\ \A i \in 1 .. n : ds[i] = cs[i]
  BY CandleAdded
<1>2. Grow(hs, hs2, n, m) /\ Grow(ls, ls2, n, m)
  BY ExtremesGrow
<1>3. ASSUME NEW S, NEW k \in Nat, S \in SUBSET (1 .. k)
      PROVE  \A j \in DOMAIN InOrder(S) : InOrder(S)[j] = Nth(S, j) /\ Nth(S, j) \in 1 .. k
  <2>1. \A j \in 1 .. Cardinality(S) : Nth(S, j) \in S
    BY <1>3, NthExists
  <2> QED
    BY <1>3, <2>1 DEF InOrder
<1>4. ASSUME NEW S, NEW bars, NEW k \in Nat, S \in SUBSET (1 .. k), DOMAIN bars = 1 .. k
      PROVE  /\ [j \in DOMAIN InOrder(S) |-> bars[InOrder(S)[j]].high] = Priced(H(bars), S)
             /\ [j \in DOMAIN InOrder(S) |-> bars[InOrder(S)[j]].low] = Priced(L(bars), S)
  <2>1. \A j \in DOMAIN InOrder(S) : InOrder(S)[j] = Nth(S, j) /\ Nth(S, j) \in DOMAIN bars
    BY <1>3, <1>4
  <2>2. DOMAIN InOrder(S) = 1 .. Cardinality(S)
    BY DEF InOrder
  <2> QED
    BY <2>1, <2>2 DEF Priced
<1>5. hs \in SUBSET (1 .. n) /\ ls \in SUBSET (1 .. n)
      /\ hs2 \in SUBSET (1 .. n + 1) /\ ls2 \in SUBSET (1 .. n + 1)
  <2> HIDE DEF hs, ls, hs2, ls2, m, n
  <2>1. 1 .. n \subseteq 1 .. n + 1
    BY <1>1
  <2> QED
    BY <1>2, <2>1 DEF Grow
<1>6. n + 1 \in Nat
  BY <1>1
<1>7. /\ SwingLevels(cs, left, right, max)
           = [res |-> Latest(Priced(H(cs), hs), max), sup |-> Latest(Priced(L(cs), ls), max)]
      /\ SwingLevels(ds, left, right, max)
           = [res |-> Latest(Priced(H(ds), hs2), max), sup |-> Latest(Priced(L(ds), ls2), max)]
  <2> DEFINE Of(bars, S, T) ==
               [res |-> Latest([j \in DOMAIN InOrder(S) |-> bars[InOrder(S)[j]].high], max),
                sup |-> Latest([j \in DOMAIN InOrder(T) |-> bars[InOrder(T)[j]].low], max)]
  <2>1. /\ SwingLevels(cs, left, right, max) = Of(cs, hs, ls)
        /\ SwingLevels(ds, left, right, max) = Of(ds, hs2, ls2)
    BY DEF SwingLevels
  <2> HIDE DEF H, L, hs, ls, hs2, ls2, ds, n
  <2>2. Of(cs, hs, ls)
          = [res |-> Latest(Priced(H(cs), hs), max), sup |-> Latest(Priced(L(cs), ls), max)]
    BY <1>1, <1>4, <1>5
  <2>3. Of(ds, hs2, ls2)
          = [res |-> Latest(Priced(H(ds), hs2), max), sup |-> Latest(Priced(L(ds), ls2), max)]
    BY <1>1, <1>4, <1>5, <1>6
  <2> QED
    BY <2>1, <2>2, <2>3
<1>8. Longer(H(cs), H(ds), n, V) /\ Longer(L(cs), L(ds), n, V)
  <2>1. \A i \in 1 .. n : i \in 1 .. n + 1
    BY <1>1
  <2>2. \A i \in 1 .. n + 1 : ds[i].high \in V /\ ds[i].low \in V
    BY <1>1 DEF Within
  <2> HIDE DEF ds, n
  <2> QED
    BY <1>1, <2>1, <2>2 DEF Longer
<1> HIDE DEF H, L, hs, ls, hs2, ls2, ds, n, m
<1>9. Follow(Latest(Priced(H(ds), hs2), max), Latest(Priced(H(cs), hs), max), max, V)
  BY <1>1, <1>2, <1>8, LevelsFollow
<1>10. Follow(Latest(Priced(L(ds), ls2), max), Latest(Priced(L(cs), ls), max), max, V)
  BY <1>1, <1>2, <1>8, LevelsFollow
<1> QED
  BY <1>7, <1>9, <1>10 DEF ds

-----------------------------------------------------------------------------
(* The levels of a growing series                                          *)

\* The series consists of candles.
CandlesType == candles \in Seq(Shapes)

\* The series is well typed at all times.
THEOREM CandlesTyped == FiguresSpec => []CandlesType
<1>1. FiguresInit => CandlesType
  BY DEF FiguresInit, CandlesType
<1>2. CandlesType /\ [FiguresNext]_figureVars => CandlesType'
  <2> SUFFICES ASSUME CandlesType, [FiguresNext]_figureVars PROVE CandlesType'
    OBVIOUS
  <2>1. CASE NextCandle
    BY <2>1 DEF CandlesType, NextCandle
  <2>2. CASE UNCHANGED candles
    BY <2>2 DEF CandlesType
  <2> QED
    BY <2>1, <2>2 DEF FiguresNext, Trade, figureVars
<1> QED
  BY <1>1, <1>2, PTL DEF FiguresSpec

\* The levels of a series stay while it grows, however long it gets.
THEOREM LevelsKept == FiguresSpec => LevelsStay
<1> DEFINE Levels(cs) == SwingLevels(cs, 1, 1, 2)
           V == 1 .. Top
           Kind == [high : V, low : V, close : Int, volume : Int]
<1>1. Shapes \subseteq Kind /\ Kind \subseteq Bars
  BY ShapesType DEF SoundBars, Bars
<1>2. ASSUME CandlesType, [FiguresNext]_figureVars, candles' # candles
      PROVE  /\ Follow(Levels(candles').res, Levels(candles).res, 2, V)
             /\ Follow(Levels(candles').sup, Levels(candles).sup, 2, V)
  <2>1. PICK c \in Shapes : candles' = Append(candles, c)
    BY <1>2 DEF FiguresNext, NextCandle, Trade, figureVars
  <2>2. candles \in Seq(Kind) /\ candles \in Seq(Bars) /\ c \in Kind /\ c \in Bars
    <3> HIDE DEF Kind
    <3> QED
      BY <1>1, <1>2 DEF CandlesType
  <2>3. Within(Append(candles, c), V)
    <3>1. \A i \in DOMAIN Append(candles, c) : Append(candles, c)[i] \in Kind
      <4> HIDE DEF Kind
      <4> QED
        BY <2>2
    <3> QED
      BY <3>1 DEF Within
  <2> HIDE DEF Kind, V
  <2>4. /\ Follow(SwingLevels(Append(candles, c), 1, 1, 2).res, Levels(candles).res, 2, V)
        /\ Follow(SwingLevels(Append(candles, c), 1, 1, 2).sup, Levels(candles).sup, 2, V)
    <3>1. 1 \in Nat /\ 2 \in Nat
      OBVIOUS
    <3> QED
      BY <2>2, <2>3, <3>1, SwingLevelsFollow
  <2> QED
    BY <2>1, <2>4
<1>3. CandlesType /\ [FiguresNext]_figureVars =>
        [LET old == SwingLevels(candles, 1, 1, 2)
             new == SwingLevels(candles', 1, 1, 2)
             follows(a, b) == b = a \/ \E x \in 1 .. Top : b = Latest(Append(a, x), 2)
         IN follows(old.res, new.res) /\ follows(old.sup, new.sup)]_candles
  BY <1>2 DEF Follow
<1> QED
  BY <1>3, CandlesTyped, PTL DEF FiguresSpec, LevelsStay

-----------------------------------------------------------------------------
(* Euclid's recursion, and fractions in lowest terms                       *)

\* What is left of a product, and the parts of a division.
LEMMA DivExact ==
  ASSUME NEW u \in Int, NEW g \in Positive
  PROVE  (g * u) \div g = u
BY DEF Positive

\* Division with a remainder.
LEMMA DivMod ==
  ASSUME NEW a \in Int, NEW b \in Positive
  PROVE  a \div b \in Int /\ (a % b) \in 0 .. b - 1 /\ a = b * (a \div b) + (a % b)
BY DEF Positive

\* The remainder grows with both.
LEMMA ModScaled ==
  ASSUME NEW a \in Nat, NEW b \in Positive, NEW k \in Positive
  PROVE  (k * a) % (k * b) = k * (a % b)
BY DEF Positive

\* The numbers that divide both.
Divides(g, a) == \E u \in Int : a = g * u
Common(a, b) == {g \in Positive : Divides(g, a) /\ Divides(g, b)}
Greatest(a, b) == IF a = 0 /\ b = 0 THEN 0
                  ELSE CHOOSE g \in Common(a, b) : \A h \in Common(a, b) : h <= g

\* A turn of Euclid's recursion leaves the common divisors as they are.
LEMMA CommonTurn ==
  ASSUME NEW a \in Nat, NEW b \in Positive
  PROVE  Common(a, b) = Common(b, a % b)
<1> DEFINE q == a \div b
           r == a % b
<1>1. q \in Int /\ r \in Int /\ a = b * q + r
  BY DivMod
<1> HIDE DEF q, r
<1>2. ASSUME NEW g \in Positive, Divides(g, a), Divides(g, b) PROVE Divides(g, r)
  <2>1. PICK u \in Int : a = g * u
    BY <1>2 DEF Divides
  <2>2. PICK v \in Int : b = g * v
    BY <1>2 DEF Divides
  <2>3. g \in Int
    BY DEF Positive
  <2>4. r = g * (u - v * q)
    BY <1>1, <2>1, <2>2, <2>3
  <2>5. u - v * q \in Int
    BY <1>1
  <2> QED
    BY <2>4, <2>5 DEF Divides
<1>3. ASSUME NEW g \in Positive, Divides(g, b), Divides(g, r) PROVE Divides(g, a)
  <2>1. PICK u \in Int : r = g * u
    BY <1>3 DEF Divides
  <2>2. PICK v \in Int : b = g * v
    BY <1>3 DEF Divides
  <2>3. g \in Int
    BY DEF Positive
  <2>4. a = g * (u + v * q)
    BY <1>1, <2>1, <2>2, <2>3
  <2>5. u + v * q \in Int
    BY <1>1
  <2> QED
    BY <2>4, <2>5 DEF Divides
<1>4. Common(a, b) = Common(b, r)
  BY <1>2, <1>3 DEF Common
<1> QED
  BY <1>4 DEF r

\* With nothing on the other side the number itself is the greatest.
LEMMA GreatestWhole == ASSUME NEW a \in Nat PROVE Greatest(a, 0) = a
<1>1. CASE a = 0
  BY <1>1 DEF Greatest
<1>2. CASE a # 0
  <2>1. a \in Positive /\ a = a * 1 /\ 0 = a * 0
    BY <1>2 DEF Positive
  <2>2. a \in Common(a, 0)
    BY <2>1 DEF Common, Divides
  <2>3. ASSUME NEW h \in Common(a, 0) PROVE h <= a
    <3>1. h \in Positive /\ Divides(h, a)
      BY DEF Common
    <3>2. PICK u \in Int : a = h * u
      BY <3>1 DEF Divides
    <3>3. h \in Int /\ h > 0 /\ a > 0
      BY <1>2, <3>1 DEF Positive
    <3>4. u >= 1
      BY <3>2, <3>3
    <3> QED
      BY <3>2, <3>3, <3>4
  <2>4. \A g \in Common(a, 0) : (\A h \in Common(a, 0) : h <= g) => g = a
    <3> TAKE g \in Common(a, 0)
    <3> HAVE \A h \in Common(a, 0) : h <= g
    <3>1. a <= g /\ g <= a /\ g \in Int
      BY <2>2, <2>3 DEF Common, Positive
    <3> QED
      BY <3>1
  <2> QED
    BY <1>2, <2>2, <2>3, <2>4 DEF Greatest
<1> QED
  BY <1>1, <1>2

\* Euclid's recursion has a solution, and Gcd is one.
LEMMA GcdTurn ==
  \A a, b \in Nat : Gcd[<<a, b>>] = IF b = 0 THEN a ELSE Gcd[<<b, a % b>>]
<1> DEFINE IsGcd(g) ==
             g = [p \in Nat \X Nat |-> IF p[2] = 0 THEN p[1] ELSE g[<<p[2], p[1] % p[2]>>]]
           best == [p \in Nat \X Nat |-> Greatest(p[1], p[2])]
<1>1. ASSUME NEW a \in Nat, NEW b \in Nat
      PROVE  best[<<a, b>>] = IF b = 0 THEN a ELSE best[<<b, a % b>>]
  <2>1. CASE b = 0
    <3>1. best[<<a, b>>] = Greatest(a, b)
      OBVIOUS
    <3> QED
      BY <2>1, <3>1, GreatestWhole
  <2>2. CASE b # 0
    <3>1. b \in Positive
      BY <2>2 DEF Positive
    <3>2. (a % b) \in Nat
      BY <3>1, DivMod
    <3>3. best[<<a, b>>] = Greatest(a, b) /\ best[<<b, a % b>>] = Greatest(b, a % b)
      BY <3>2
    <3>4. Common(a, b) = Common(b, a % b)
      BY <3>1, CommonTurn
    <3>5. Greatest(a, b) = Greatest(b, a % b)
      BY <2>2, <3>4 DEF Greatest
    <3> HIDE DEF best
    <3> QED
      BY <2>2, <3>1, <3>3, <3>5
  <2> QED
    BY <2>1, <2>2
<1>2. IsGcd(best)
  <2>1. best = [p \in Nat \X Nat |-> best[p]]
    OBVIOUS
  <2>2. \A p \in Nat \X Nat : best[p] = IF p[2] = 0 THEN p[1] ELSE best[<<p[2], p[1] % p[2]>>]
    BY <1>1
  <2> HIDE DEF best
  <2> QED
    BY <2>1, <2>2
<1>3. IsGcd(CHOOSE g : IsGcd(g))
  <2> HIDE DEF best, IsGcd
  <2> QED
    BY <1>2
<1>4. Gcd = CHOOSE g : IsGcd(g)
  BY DEF Gcd
<1>5. IsGcd(Gcd)
  <2> HIDE DEF IsGcd
  <2> QED
    BY <1>3, <1>4
<1> QED
  BY <1>5

\* What holds of a number when it holds of all smaller ones holds of every number.
LEMMA Strong ==
  ASSUME NEW G, \A n \in Nat : (\A k \in 0 .. n - 1 : k \in G) => n \in G
  PROVE  Nat \subseteq G
<1> DEFINE Bad == Nat \ G
<1> SUFFICES ASSUME Bad # {} PROVE FALSE
  OBVIOUS
<1>1. PICK m \in Bad : \A k \in Bad : m <= k
  <2>1. Bad \subseteq Nat
    OBVIOUS
  <2> HIDE DEF Bad
  <2> QED
    BY <2>1, Smallest
<1>2. ASSUME NEW k \in 0 .. m - 1 PROVE k \in G
  <2>1. k \in Nat /\ ~ (m <= k)
    OBVIOUS
  <2> QED
    BY <1>1, <2>1
<1>3. m \in G
  BY <1>2
<1> QED
  BY <1>3

\* The greatest common divisor divides both and, unless both are zero, is one to divide by.
Divisor(a, b) ==
  /\ Gcd[<<a, b>>] \in Nat
  /\ a > 0 \/ b > 0 => Gcd[<<a, b>>] > 0
  /\ Divides(Gcd[<<a, b>>], a) /\ Divides(Gcd[<<a, b>>], b)

\* Euclid's recursion finds a common divisor.
LEMMA GcdDivides == ASSUME NEW a \in Nat, NEW b \in Nat PROVE Divisor(a, b)
<1> DEFINE G == {n \in Nat : \A m \in Nat : Divisor(m, n)}
<1>1. ASSUME NEW n \in Nat, \A k \in 0 .. n - 1 : k \in G PROVE n \in G
  <2> SUFFICES ASSUME NEW m \in Nat PROVE Divisor(m, n)
    OBVIOUS
  <2>1. CASE n = 0
    <3>1. Gcd[<<m, n>>] = m
      BY <2>1, GcdTurn
    <3>2. Divides(m, m) /\ Divides(m, 0)
      <4>1. m = m * 1 /\ 0 = m * 0
        OBVIOUS
      <4> QED
        BY <4>1 DEF Divides
    <3> QED
      BY <2>1, <3>1, <3>2 DEF Divisor
  <2>2. CASE n # 0
    <3> DEFINE q == m \div n
               r == m % n
               g == Gcd[<<n, r>>]
    <3>1. n \in Positive
      BY <2>2 DEF Positive
    <3>2. q \in Int /\ r \in 0 .. n - 1 /\ r \in Nat /\ m = n * q + r
      BY <3>1, DivMod
    <3>3. Gcd[<<m, n>>] = g
      BY <2>2, GcdTurn
    <3> HIDE DEF q, r
    <3>4. Divisor(n, r)
      BY <1>1, <3>2
    <3>5. g \in Nat /\ g > 0 /\ Divides(g, n) /\ Divides(g, r)
      BY <2>2, <3>4 DEF Divisor
    <3>6. Divides(g, m)
      <4> HIDE DEF g
      <4>1. PICK u \in Int : n = g * u
        BY <3>5 DEF Divides
      <4>2. PICK v \in Int : r = g * v
        BY <3>5 DEF Divides
      <4>3. m = g * (u * q + v) /\ u * q + v \in Int
        BY <3>2, <3>5, <4>1, <4>2
      <4> QED
        BY <4>3 DEF Divides
    <3> QED
      BY <3>3, <3>5, <3>6 DEF Divisor
  <2> QED
    BY <2>1, <2>2
<1>2. Nat \subseteq G
  <2> HIDE DEF G
  <2> QED
    BY <1>1, Strong
<1> QED
  BY <1>2

\* It grows with both: lowest terms do not depend on what a fraction was made of.
THEOREM GcdScaled ==
  ASSUME NEW k \in Positive, NEW a \in Nat, NEW b \in Nat
  PROVE  Gcd[<<k * a, k * b>>] = k * Gcd[<<a, b>>]
<1> DEFINE G == {n \in Nat : \A m \in Nat : Gcd[<<k * m, k * n>>] = k * Gcd[<<m, n>>]}
<1>0. k \in Nat /\ k > 0
  BY DEF Positive
<1>1. ASSUME NEW n \in Nat, \A j \in 0 .. n - 1 : j \in G PROVE n \in G
  <2> SUFFICES ASSUME NEW m \in Nat PROVE Gcd[<<k * m, k * n>>] = k * Gcd[<<m, n>>]
    OBVIOUS
  <2>0. k * m \in Nat /\ k * n \in Nat
    BY <1>0
  <2>1. CASE n = 0
    <3>1. k * n = 0
      BY <1>0, <2>1
    <3>2. Gcd[<<m, n>>] = m /\ Gcd[<<k * m, k * n>>] = k * m
      BY <2>0, <2>1, <3>1, GcdTurn
    <3> QED
      BY <3>2
  <2>2. CASE n # 0
    <3> DEFINE r == m % n
    <3>0. n \in Positive
      BY <2>2 DEF Positive
    <3>1. k * n # 0
      BY <1>0, <2>2
    <3>2. r \in 0 .. n - 1 /\ r \in Nat
      BY <3>0, DivMod
    <3>3. (k * m) % (k * n) = k * r
      BY <3>0, ModScaled
    <3>4. Gcd[<<m, n>>] = Gcd[<<n, r>>]
      BY <2>2, GcdTurn
    <3>5. Gcd[<<k * m, k * n>>] = Gcd[<<k * n, k * r>>]
      BY <2>0, <3>1, <3>3, GcdTurn
    <3> HIDE DEF r
    <3>6. Gcd[<<k * n, k * r>>] = k * Gcd[<<n, r>>]
      BY <1>1, <3>2
    <3> QED
      BY <3>4, <3>5, <3>6
  <2> QED
    BY <2>1, <2>2
<1>2. Nat \subseteq G
  <2> HIDE DEF G
  <2> QED
    BY <1>1, Strong
<1> QED
  BY <1>2

-----------------------------------------------------------------------------
(* Fractions                                                               *)

\* What Frac answers for whole numbers.
Quotients == {Frac(n, d) : n \in Int, d \in Positive}

\* What Frac answers: both numbers divided by the same.
LEMMA FracParts ==
  ASSUME NEW n \in Int, NEW d \in Positive
  PROVE  \E g \in Positive, u \in Int, v \in Positive :
            /\ Frac(n, d) = [num |-> u, den |-> v]
            /\ n = g * u /\ d = g * v
<1> DEFINE a == Abs(n)
           g == Gcd[<<a, d>>]
<1>1. a \in Nat /\ d \in Nat /\ d > 0
  BY DEF Abs, Positive
<1>2. (a = n \/ a = -n)
  BY DEF Abs
<1> HIDE DEF a
<1>3. g \in Positive /\ Divides(g, a) /\ Divides(g, d)
  BY <1>1, GcdDivides DEF Divisor, Positive
<1>4. Frac(n, d) = [num |-> n \div g, den |-> d \div g]
  BY DEF Frac, a
<1> HIDE DEF g
<1>5. PICK u \in Int : a = g * u
  BY <1>3 DEF Divides
<1>6. PICK v \in Int : d = g * v
  BY <1>3 DEF Divides
<1>7. PICK w \in Int : n = g * w
  <2>1. n = g * u \/ n = g * (-u)
    BY <1>2, <1>3, <1>5 DEF Positive
  <2> QED
    BY <2>1
<1>8. v > 0
  BY <1>1, <1>3, <1>6 DEF Positive
<1>9. n \div g = w /\ d \div g = v
  BY <1>3, <1>6, <1>7, DivExact
<1>10. v \in Positive /\ Frac(n, d) = [num |-> w, den |-> v]
  BY <1>4, <1>8, <1>9 DEF Positive
<1> QED
  BY <1>3, <1>6, <1>7, <1>10

\* A fraction is the same whatever both numbers are multiplied with.
LEMMA FracScaled ==
  ASSUME NEW n \in Int, NEW d \in Positive, NEW k \in Positive
  PROVE  Frac(k * n, k * d) = Frac(n, d)
<1> DEFINE a == Abs(n)
           g == Gcd[<<a, d>>]
<1>1. a \in Nat /\ d \in Nat /\ d > 0 /\ k \in Nat /\ k > 0
  BY DEF Abs, Positive
<1>2. Abs(k * n) = k * a
  BY <1>1 DEF Abs
<1>3. g \in Positive /\ Divides(g, a) /\ Divides(g, d)
  BY <1>1, GcdDivides DEF Divisor, Positive
<1>4. Gcd[<<k * a, k * d>>] = k * g
  BY <1>1, GcdScaled
<1>5. Frac(n, d) = [num |-> n \div g, den |-> d \div g]
  BY DEF Frac
<1>6. Frac(k * n, k * d) = [num |-> (k * n) \div (k * g), den |-> (k * d) \div (k * g)]
  BY <1>2, <1>4 DEF Frac
<1>7. a = n \/ a = -n
  BY DEF Abs
<1> HIDE DEF a, g
<1>8. PICK u \in Int : a = g * u
  BY <1>3 DEF Divides
<1>9. PICK v \in Int : d = g * v
  BY <1>3 DEF Divides
<1>10. PICK w \in Int : n = g * w
  <2>1. n = g * u \/ n = g * (-u)
    BY <1>7, <1>3, <1>8 DEF Positive
  <2> QED
    BY <2>1
<1>11. g \in Int /\ k * g \in Positive
  BY <1>1, <1>3 DEF Positive
<1>12. k * n = (k * g) * w /\ k * d = (k * g) * v
  BY <1>1, <1>9, <1>10, <1>11
<1>13. n \div g = w /\ d \div g = v
  BY <1>3, <1>9, <1>10, DivExact
<1>14. (k * n) \div (k * g) = w /\ (k * d) \div (k * g) = v
  BY <1>11, <1>12, DivExact
<1> QED
  BY <1>5, <1>6, <1>13, <1>14

\* A product of positive numbers is one.
LEMMA PositiveProduct ==
  ASSUME NEW d \in Positive, NEW e \in Positive
  PROVE  d * e \in Positive
<1>1. d \in Int /\ e \in Int /\ d > 0 /\ e > 0
  BY DEF Positive
<1>2. d * e \in Int /\ d * e > 0
  BY <1>1
<1> QED
  BY <1>2 DEF Positive

\* The parts of a fraction: a whole number, a positive one, in the proportion it was made of.
LEMMA FracType ==
  ASSUME NEW n \in Int, NEW d \in Positive
  PROVE  /\ Frac(n, d) \in Quotients
         /\ Frac(n, d).num \in Int /\ Frac(n, d).den \in Positive
         /\ Frac(n, d) = [num |-> Frac(n, d).num, den |-> Frac(n, d).den]
         /\ Frac(n, d).num * d = n * Frac(n, d).den
         /\ Frac(Frac(n, d).num, Frac(n, d).den) = Frac(n, d)
<1>1. PICK g \in Positive, u \in Int, v \in Positive :
        Frac(n, d) = [num |-> u, den |-> v] /\ n = g * u /\ d = g * v
  BY FracParts
<1>2. Frac(n, d) \in Quotients
  BY DEF Quotients
<1>3. u * d = n * v
  BY <1>1 DEF Positive
<1>4. Frac(u, v) = Frac(n, d)
  BY <1>1, FracScaled
<1>5. Frac(n, d).num = u /\ Frac(n, d).den = v
  BY <1>1
<1> QED
  BY <1>1, <1>2, <1>3, <1>4, <1>5

\* A fraction is made of its parts.
LEMMA QuotientParts ==
  ASSUME NEW x \in Quotients
  PROVE  /\ x.num \in Int /\ x.den \in Positive
         /\ x = [num |-> x.num, den |-> x.den] /\ x = Frac(x.num, x.den)
<1>1. PICK n \in Int, d \in Positive : x = Frac(n, d)
  BY DEF Quotients
<1> QED
  BY <1>1, FracType

\* Fractions are equal when they are crosswise.
THEOREM SameFrac ==
  ASSUME NEW n \in Int, NEW d \in Positive, NEW m \in Int, NEW e \in Positive
  PROVE  Frac(n, d) = Frac(m, e) <=> n * e = m * d
<1>0. d \in Int /\ e \in Int /\ d > 0 /\ e > 0 /\ d * e \in Positive
  BY PositiveProduct DEF Positive
<1>1. ASSUME n * e = m * d PROVE Frac(n, d) = Frac(m, e)
  <2>1. Frac(n, d) = Frac(e * n, e * d)
    BY FracScaled
  <2>2. Frac(m, e) = Frac(d * m, d * e)
    BY FracScaled
  <2>3. e * n = d * m /\ e * d = d * e
    BY <1>0, <1>1
  <2> QED
    BY <2>1, <2>2, <2>3
<1>2. ASSUME Frac(n, d) = Frac(m, e) PROVE n * e = m * d
  <2> DEFINE x == Frac(n, d)
             u == x.num
             v == x.den
  <2>1. u \in Int /\ v \in Positive /\ u * d = n * v /\ u * e = m * v
    BY <1>2, FracType
  <2> HIDE DEF x, u, v
  <2>2. v \in Int /\ v > 0
    BY <2>1 DEF Positive
  <2>3. (n * e) * v = (n * v) * e /\ (m * d) * v = (m * v) * d
    BY <1>0, <2>2
  <2>4. (n * v) * e = (u * d) * e /\ (m * v) * d = (u * e) * d
    BY <2>1
  <2>5. (u * d) * e = (u * e) * d
    BY <1>0, <2>1
  <2>6. (n * e) * v = (m * d) * v
    BY <2>3, <2>4, <2>5
  <2>7. n * e \in Int /\ m * d \in Int
    BY <1>0
  <2> DEFINE p == n * e
             q == m * d
  <2> HIDE DEF p, q
  <2>8. p * v = q * v /\ p \in Int /\ q \in Int
    BY <2>6, <2>7 DEF p, q
  <2>9. p = q
    BY <2>2, <2>8
  <2> QED
    BY <2>9 DEF p, q
<1> QED
  BY <1>1, <1>2

\* The sign of a fraction is that of what it is made of.
LEMMA FracSign ==
  ASSUME NEW n \in Int, NEW d \in Positive
  PROVE  /\ Frac(n, d).num > 0 <=> n > 0
         /\ Frac(n, d).num < 0 <=> n < 0
         /\ Frac(n, d).num = 0 <=> n = 0
<1>1. PICK g \in Positive, u \in Int, v \in Positive :
        Frac(n, d) = [num |-> u, den |-> v] /\ n = g * u /\ d = g * v
  BY FracParts
<1>2. g \in Int /\ g > 0
  BY DEF Positive
<1>3. Frac(n, d).num = u
  BY <1>1
<1>4. (u > 0 <=> g * u > 0) /\ (u < 0 <=> g * u < 0) /\ (u = 0 <=> g * u = 0)
  BY <1>2
<1> QED
  BY <1>1, <1>3, <1>4

\* Fractions are added crosswise, whatever common divisor the code takes out.
LEMMA PlusFrac ==
  ASSUME NEW n \in Int, NEW d \in Positive, NEW m \in Int, NEW e \in Positive
  PROVE  Plus(Frac(n, d), Frac(m, e)) = Frac(n * e + m * d, d * e)
<1> DEFINE x == Frac(n, d)
           y == Frac(m, e)
<1>1. PICK h \in Positive, u \in Int, v \in Positive :
        x = [num |-> u, den |-> v] /\ n = h * u /\ d = h * v
  BY FracParts
<1>2. PICK k \in Positive, p \in Int, q \in Positive :
        y = [num |-> p, den |-> q] /\ m = k * p /\ e = k * q
  BY FracParts
<1> HIDE DEF x, y
<1>3. x.num = u /\ x.den = v /\ y.num = p /\ y.den = q
  BY <1>1, <1>2
<1> DEFINE g == Gcd[<<v, q>>]
<1>4. v \in Nat /\ q \in Nat /\ v > 0 /\ q > 0 /\ h \in Int /\ h > 0 /\ k \in Int /\ k > 0
  BY DEF Positive
<1>5. g \in Positive /\ Divides(g, v) /\ Divides(g, q)
  BY <1>4, GcdDivides DEF Divisor, Positive
<1>6. Plus(x, y) = Frac(u * (q \div g) + p * (v \div g), v * (q \div g))
  BY <1>3 DEF Plus
<1> HIDE DEF g
<1>7. PICK w \in Int : v = g * w
  BY <1>5 DEF Divides
<1>8. PICK z \in Int : q = g * z
  BY <1>5 DEF Divides
<1>9. v \div g = w /\ q \div g = z
  BY <1>5, <1>7, <1>8, DivExact
<1>10. g \in Int /\ g > 0 /\ w > 0 /\ z > 0
  <2>1. g \in Int /\ g > 0
    BY <1>5 DEF Positive
  <2>2. w > 0
    BY <2>1, <1>4, <1>7
  <2>3. z > 0
    BY <2>1, <1>4, <1>8
  <2> QED
    BY <2>1, <2>2, <2>3
<1>11. Plus(x, y) = Frac(u * z + p * w, v * z)
  BY <1>6, <1>9
<1>12. z \in Positive /\ v * z \in Positive /\ d * e \in Positive
  BY <1>10, PositiveProduct DEF Positive
<1>13. d \in Int /\ e \in Int
  BY DEF Positive
<1>14. (u * z + p * w) * (d * e) = (n * e + m * d) * (v * z)
  <2>1. (u * z + p * w) * ((h * (g * w)) * (k * (g * z)))
          = ((h * u) * (k * (g * z)) + (k * p) * (h * (g * w))) * ((g * w) * z)
    BY <1>4, <1>10
  <2> QED
    BY <2>1, <1>1, <1>2, <1>7, <1>8
<1>15. Frac(u * z + p * w, v * z) = Frac(n * e + m * d, d * e)
  <2>1. u * z + p * w \in Int /\ n * e + m * d \in Int
    BY <1>13
  <2> QED
    BY <2>1, <1>12, <1>14, SameFrac
<1> QED
  BY <1>11, <1>15 DEF x, y

\* Fractions are multiplied part by part.
LEMMA TimesFrac ==
  ASSUME NEW n \in Int, NEW d \in Positive, NEW m \in Int, NEW e \in Positive
  PROVE  Times(Frac(n, d), Frac(m, e)) = Frac(n * m, d * e)
<1> DEFINE x == Frac(n, d)
           y == Frac(m, e)
<1>1. PICK h \in Positive, u \in Int, v \in Positive :
        x = [num |-> u, den |-> v] /\ n = h * u /\ d = h * v
  BY FracParts
<1>2. PICK k \in Positive, p \in Int, q \in Positive :
        y = [num |-> p, den |-> q] /\ m = k * p /\ e = k * q
  BY FracParts
<1> HIDE DEF x, y
<1>3. Times(x, y) = Frac(u * p, v * q)
  BY <1>1, <1>2 DEF Times
<1>4. v * q \in Positive /\ d * e \in Positive /\ u * p \in Int /\ n * m \in Int
  BY PositiveProduct
<1>5. v \in Int /\ q \in Int /\ h \in Int /\ k \in Int
  BY DEF Positive
<1>6. (u * p) * ((h * v) * (k * q)) = ((h * u) * (k * p)) * (v * q)
  BY <1>5
<1>7. (u * p) * (d * e) = (n * m) * (v * q)
  BY <1>1, <1>2, <1>6
<1> QED
  BY <1>3, <1>4, <1>7, SameFrac DEF x, y

\* The sign turns.
LEMMA NegFrac ==
  ASSUME NEW n \in Int, NEW d \in Positive
  PROVE  Neg(Frac(n, d)) = Frac(-n, d)
<1> DEFINE a == Abs(n)
           g == Gcd[<<a, d>>]
<1>1. a \in Nat /\ d \in Nat /\ d > 0 /\ Abs(-n) = a
  BY DEF Abs, Positive
<1>2. a = n \/ a = -n
  BY DEF Abs
<1>3. g \in Positive /\ Divides(g, a)
  BY <1>1, GcdDivides DEF Divisor, Positive
<1>4. Frac(n, d) = [num |-> n \div g, den |-> d \div g]
  BY DEF Frac
<1>5. Frac(-n, d) = [num |-> (-n) \div g, den |-> d \div g]
  BY <1>1 DEF Frac
<1> HIDE DEF a, g
<1>6. PICK u \in Int : a = g * u
  BY <1>3 DEF Divides
<1>7. PICK w \in Int : n = g * w
  <2>1. n = g * u \/ n = g * (-u)
    BY <1>2, <1>3, <1>6 DEF Positive
  <2> QED
    BY <2>1
<1>8. -n = g * (-w)
  BY <1>3, <1>7 DEF Positive
<1>9. n \div g = w /\ (-n) \div g = -w
  BY <1>3, <1>7, <1>8, DivExact
<1> QED
  BY <1>4, <1>5, <1>9 DEF Neg

\* With a denominator in common the numerators tell all.
LEMMA PlusSame ==
  ASSUME NEW n \in Int, NEW m \in Int, NEW d \in Positive
  PROVE  Plus(Frac(n, d), Frac(m, d)) = Frac(n + m, d)
<1>1. d \in Int
  BY DEF Positive
<1>2. Plus(Frac(n, d), Frac(m, d)) = Frac(n * d + m * d, d * d)
  BY PlusFrac
<1>3. n * d + m * d = d * (n + m)
  BY <1>1
<1> QED
  BY <1>2, <1>3, FracScaled

\* So are differences taken.
LEMMA LessSame ==
  ASSUME NEW n \in Int, NEW m \in Int, NEW d \in Positive
  PROVE  Less(Frac(n, d), Frac(m, d)) = Frac(n - m, d)
<1>1. Less(Frac(n, d), Frac(m, d)) = Plus(Frac(n, d), Frac(-m, d))
  BY NegFrac DEF Less
<1>2. Plus(Frac(n, d), Frac(-m, d)) = Frac(n + (-m), d)
  BY PlusSame
<1>3. n + (-m) = n - m
  OBVIOUS
<1> QED
  BY <1>1, <1>2, <1>3

\* So they are compared.
LEMMA AtMostSame ==
  ASSUME NEW n \in Int, NEW m \in Int, NEW d \in Positive
  PROVE  AtMost(Frac(n, d), Frac(m, d)) <=> n <= m
<1>1. Less(Frac(n, d), Frac(m, d)) = Frac(n - m, d)
  BY LessSame
<1>2. PICK k \in Int : k = n - m
  OBVIOUS
<1>3. Frac(k, d).num \in Int /\ (Frac(k, d).num > 0 <=> k > 0)
  BY FracType, FracSign
<1> QED
  BY <1>1, <1>2, <1>3 DEF AtMost

\* So they are equal.
LEMMA EqualSame ==
  ASSUME NEW n \in Int, NEW m \in Int, NEW d \in Positive
  PROVE  Frac(n, d) = Frac(m, d) <=> n = m
<1>1. d \in Int /\ d > 0
  BY DEF Positive
<1>2. Frac(n, d) = Frac(m, d) <=> n * d = m * d
  BY SameFrac
<1>3. n * d = m * d <=> n = m
  BY <1>1
<1> QED
  BY <1>2, <1>3

\* Zero with any denominator.
LEMMA ZeroFrac ==
  ASSUME NEW d \in Positive
  PROVE  Zero = Frac(0, d)
<1>1. 1 \in Positive /\ 0 * d = 0 * 1
  BY DEF Positive
<1> QED
  BY <1>1, SameFrac DEF Zero, Whole

\* A whole number with any denominator.
LEMMA WholeFrac ==
  ASSUME NEW n \in Int, NEW d \in Positive
  PROVE  Whole(n) = Frac(n * d, d)
<1>1. 1 \in Positive /\ n * d = (n * d) * 1 /\ n * d \in Int
  BY DEF Positive
<1> QED
  BY <1>1, SameFrac DEF Whole

\* Division, by what is not zero.
LEMMA OverFrac ==
  ASSUME NEW n \in Int, NEW d \in Positive, NEW m \in Int, m > 0, NEW e \in Positive
  PROVE  Over(Frac(n, d), Frac(m, e)) = Frac(n * e, d * m)
<1> DEFINE x == Frac(n, d)
           y == Frac(m, e)
<1>0. m \in Positive /\ e \in Int /\ d \in Int
  BY DEF Positive
<1>1. PICK h \in Positive, u \in Int, v \in Positive :
        x = [num |-> u, den |-> v] /\ n = h * u /\ d = h * v
  BY FracParts
<1>2. PICK k \in Positive, p \in Int, q \in Positive :
        y = [num |-> p, den |-> q] /\ m = k * p /\ e = k * q
  BY FracParts
<1>3. p > 0
  <2>1. y.num > 0
    BY FracSign
  <2> QED
    BY <1>2, <2>1
<1> HIDE DEF x, y
<1>4. Over(x, y) = Frac(u * q, v * p)
  BY <1>1, <1>2, <1>3 DEF Over
<1>5. p \in Positive
  BY <1>3 DEF Positive
<1>6. v * p \in Positive /\ d * m \in Positive /\ u * q \in Int /\ n * e \in Int
  BY <1>0, <1>5, PositiveProduct DEF Positive
<1>7. v \in Int /\ q \in Int /\ h \in Int /\ k \in Int
  BY DEF Positive
<1>8. (u * q) * ((h * v) * (k * p)) = ((h * u) * (k * q)) * (v * p)
  BY <1>7
<1>9. (u * q) * (d * m) = (n * e) * (v * p)
  BY <1>1, <1>2, <1>8
<1> QED
  BY <1>4, <1>6, <1>9, SameFrac DEF x, y

\* With a denominator in common it drops out.
LEMMA OverSame ==
  ASSUME NEW n \in Int, NEW d \in Positive, NEW m \in Positive
  PROVE  Over(Frac(n, d), Frac(m, d)) = Frac(n, m)
<1>1. Over(Frac(n, d), Frac(m, d)) = Frac(n * d, d * m)
  BY OverFrac DEF Positive
<1>2. n * d = d * n
  BY DEF Positive
<1> QED
  BY <1>1, <1>2, FracScaled

\* Division by a whole number.
LEMMA OverWhole ==
  ASSUME NEW n \in Int, NEW d \in Positive, NEW p \in Positive
  PROVE  Over(Frac(n, d), Whole(p)) = Frac(n, d * p)
<1>1. 1 \in Positive /\ n * 1 = n
  BY DEF Positive
<1> QED
  BY <1>1, OverFrac DEF Whole, Positive

\* Any two fractions, and any three, have a denominator in common.
LEMMA TwoCommon ==
  ASSUME NEW x \in Quotients, NEW y \in Quotients
  PROVE  \E d \in Positive, n, m \in Int : x = Frac(n, d) /\ y = Frac(m, d)
<1>1. PICK n \in Int, d \in Positive : x = Frac(n, d)
  BY DEF Quotients
<1>2. PICK m \in Int, e \in Positive : y = Frac(m, e)
  BY DEF Quotients
<1>3. x = Frac(e * n, e * d) /\ y = Frac(d * m, d * e)
  BY <1>1, <1>2, FracScaled
<1>4. e * d = d * e /\ e * n \in Int /\ d * m \in Int
  BY DEF Positive
<1>5. d * e \in Positive
  BY PositiveProduct
<1> QED
  BY <1>3, <1>4, <1>5

\* So have any three.
LEMMA ThreeCommon ==
  ASSUME NEW x \in Quotients, NEW y \in Quotients, NEW z \in Quotients
  PROVE  \E d \in Positive, n, m, k \in Int :
            x = Frac(n, d) /\ y = Frac(m, d) /\ z = Frac(k, d)
<1>1. PICK d \in Positive, n \in Int, m \in Int : x = Frac(n, d) /\ y = Frac(m, d)
  BY TwoCommon
<1>2. PICK k \in Int, e \in Positive : z = Frac(k, e)
  BY DEF Quotients
<1>3. x = Frac(e * n, e * d) /\ y = Frac(e * m, e * d) /\ z = Frac(d * k, d * e)
  BY <1>1, <1>2, FracScaled
<1>4. e * d = d * e /\ e * n \in Int /\ e * m \in Int /\ d * k \in Int
  BY DEF Positive
<1>5. d * e \in Positive
  BY PositiveProduct
<1> QED
  BY <1>3, <1>4, <1>5

\* The operations lead from fractions to fractions.
LEMMA OpsType ==
  ASSUME NEW x \in Quotients, NEW y \in Quotients
  PROVE  /\ Plus(x, y) \in Quotients /\ Neg(x) \in Quotients /\ Less(x, y) \in Quotients
         /\ Times(x, y) \in Quotients
<1>1. PICK d \in Positive, n \in Int, m \in Int : x = Frac(n, d) /\ y = Frac(m, d)
  BY TwoCommon
<1>2. Plus(x, y) = Frac(n + m, d) /\ Neg(x) = Frac(-n, d) /\ Less(x, y) = Frac(n - m, d)
  BY <1>1, PlusSame, NegFrac, LessSame
<1>3. Times(x, y) = Frac(n * m, d * d) /\ d * d \in Positive /\ n * m \in Int
  BY <1>1, TimesFrac, PositiveProduct
<1>4. n + m \in Int /\ -n \in Int /\ n - m \in Int
  OBVIOUS
<1> QED
  BY <1>2, <1>3, <1>4 DEF Quotients

\* Whole numbers are fractions.
LEMMA WholeType ==
  ASSUME NEW n \in Int PROVE Whole(n) \in Quotients /\ Zero \in Quotients
BY DEF Whole, Zero, Quotients, Positive

\* Division leads to a fraction too, unless it is by nothing or less.
LEMMA OverType ==
  ASSUME NEW x \in Quotients, NEW y \in Quotients, y.num > 0
  PROVE  Over(x, y) \in Quotients
<1>1. x.num \in Int /\ x.den \in Positive /\ y.num \in Int /\ y.den \in Positive
  BY QuotientParts
<1>2. x.num * y.den \in Int
  BY <1>1 DEF Positive
<1>3. x.den * y.num \in Positive
  BY <1>1, PositiveProduct DEF Positive
<1>4. Over(x, y) = Frac(x.num * y.den, x.den * y.num)
  BY DEF Over
<1> QED
  BY <1>2, <1>3, <1>4 DEF Quotients

-----------------------------------------------------------------------------
(* Order                                                                   *)

\* Fractions are in order: any two compare, and the order carries over.
LEMMA AtMostOrder ==
  ASSUME NEW x \in Quotients, NEW y \in Quotients, NEW z \in Quotients
  PROVE  /\ AtMost(x, x)
         /\ AtMost(x, y) \/ AtMost(y, x)
         /\ AtMost(x, y) /\ AtMost(y, z) => AtMost(x, z)
         /\ AtMost(x, y) /\ AtMost(y, x) => x = y
<1>1. PICK d \in Positive, n \in Int, m \in Int, k \in Int :
        x = Frac(n, d) /\ y = Frac(m, d) /\ z = Frac(k, d)
  BY ThreeCommon
<1>2. /\ AtMost(x, x) <=> n <= n
      /\ AtMost(x, y) <=> n <= m
      /\ AtMost(y, x) <=> m <= n
      /\ AtMost(y, z) <=> m <= k
      /\ AtMost(x, z) <=> n <= k
  BY <1>1, AtMostSame
<1> QED
  BY <1>1, <1>2

\* The step of the exponential average, and that of Wilder's.
Blend(x, avg, p) == Plus(Times(x, Frac(2, p + 1)), Times(avg, Less(Whole(1), Frac(2, p + 1))))
Smooth(avg, x, p) == Over(Plus(Times(avg, Whole(p - 1)), x), Whole(p))

\* The parts of a step of the exponential average.
LEMMA BlendFrac ==
  ASSUME NEW n \in Int, NEW m \in Int, NEW d \in Positive, NEW p \in Positive
  PROVE  /\ Blend(Frac(n, d), Frac(m, d), p) = Frac(2 * n + (p - 1) * m, d * (p + 1))
         /\ d * (p + 1) \in Positive /\ 2 * n + (p - 1) * m \in Int
<1>1. p \in Int /\ p > 0 /\ p + 1 \in Positive /\ p - 1 \in Int /\ 2 \in Int
  BY DEF Positive
<1>2. d * (p + 1) \in Positive
  BY <1>1, PositiveProduct
<1>3. Whole(1) = Frac(p + 1, p + 1)
  <2>1. Whole(1) = Frac(1 * (p + 1), p + 1)
    BY <1>1, WholeFrac
  <2> QED
    BY <1>1, <2>1
<1>4. Less(Whole(1), Frac(2, p + 1)) = Frac(p - 1, p + 1)
  <2>1. Less(Whole(1), Frac(2, p + 1)) = Frac((p + 1) - 2, p + 1)
    BY <1>1, <1>3, LessSame
  <2>2. (p + 1) - 2 = p - 1
    BY <1>1
  <2> QED
    BY <2>1, <2>2
<1>5. Times(Frac(n, d), Frac(2, p + 1)) = Frac(n * 2, d * (p + 1))
  BY <1>1, TimesFrac
<1>6. Times(Frac(m, d), Frac(p - 1, p + 1)) = Frac(m * (p - 1), d * (p + 1))
  BY <1>1, TimesFrac
<1>7. n * 2 \in Int /\ m * (p - 1) \in Int
  BY <1>1
<1>8. Plus(Frac(n * 2, d * (p + 1)), Frac(m * (p - 1), d * (p + 1)))
        = Frac(n * 2 + m * (p - 1), d * (p + 1))
  BY <1>2, <1>7, PlusSame
<1>9. n * 2 + m * (p - 1) = 2 * n + (p - 1) * m
  BY <1>1
<1>10. 2 * n + (p - 1) * m \in Int
  BY <1>1
<1> QED
  BY <1>2, <1>4, <1>5, <1>6, <1>8, <1>9, <1>10 DEF Blend

\* The parts of a step of Wilder's average.
LEMMA SmoothFrac ==
  ASSUME NEW n \in Int, NEW m \in Int, NEW d \in Positive, NEW p \in Positive
  PROVE  /\ Smooth(Frac(m, d), Frac(n, d), p) = Frac((p - 1) * m + n, d * p)
         /\ d * p \in Positive /\ (p - 1) * m + n \in Int
<1>1. p \in Int /\ p > 0 /\ p - 1 \in Int /\ d \in Int /\ 1 \in Positive
  BY DEF Positive
<1>2. Times(Frac(m, d), Whole(p - 1)) = Frac(m * (p - 1), d * 1)
  BY <1>1, TimesFrac DEF Whole
<1>3. m * (p - 1) \in Int /\ d * 1 = d /\ m * (p - 1) = (p - 1) * m
  BY <1>1
<1>4. Plus(Frac((p - 1) * m, d), Frac(n, d)) = Frac((p - 1) * m + n, d)
  BY <1>3, PlusSame
<1>5. (p - 1) * m + n \in Int
  BY <1>1
<1>6. Over(Frac((p - 1) * m + n, d), Whole(p)) = Frac((p - 1) * m + n, d * p)
  BY <1>5, OverWhole
<1>7. d * p \in Positive
  BY PositiveProduct
<1> QED
  BY <1>2, <1>3, <1>4, <1>5, <1>6, <1>7 DEF Smooth

\* A weighted mean lies between.
Amid(x, y, z) == /\ z \in Quotients
                 /\ AtMost(x, y) => AtMost(x, z) /\ AtMost(z, y)
                 /\ AtMost(y, x) => AtMost(y, z) /\ AtMost(z, x)

\* If a weighted sum is of weights v and w that add up to k, it lies between.
LEMMA Weighted ==
  ASSUME NEW n \in Int, NEW m \in Int, NEW v \in Nat, NEW w \in Nat, NEW k \in Positive,
         k = v + w, NEW d \in Positive
  PROVE  Amid(Frac(n, d), Frac(m, d), Frac(v * n + w * m, d * k))
<1> DEFINE s == v * n + w * m
<1>1. k \in Int /\ k > 0 /\ d \in Int /\ d > 0 /\ k * n \in Int /\ k * m \in Int
  BY DEF Positive
<1>2. s \in Int /\ d * k \in Positive
  BY PositiveProduct
<1>3. d * k = k * d
  BY <1>1
<1>4. Frac(n, d) = Frac(k * n, d * k) /\ Frac(m, d) = Frac(k * m, d * k)
  <2>1. Frac(k * n, k * d) = Frac(n, d) /\ Frac(k * m, k * d) = Frac(m, d)
    BY FracScaled
  <2> QED
    BY <1>3, <2>1
<1>5. n <= m => k * n <= s /\ s <= k * m
  <2> HAVE n <= m
  <2>1. k * n = v * n + w * n /\ k * m = v * m + w * m
    OBVIOUS
  <2>2. w * n <= w * m /\ v * n <= v * m
    OBVIOUS
  <2> QED
    BY <2>1, <2>2
<1>6. m <= n => k * m <= s /\ s <= k * n
  <2> HAVE m <= n
  <2>1. k * n = v * n + w * n /\ k * m = v * m + w * m
    OBVIOUS
  <2>2. w * m <= w * n /\ v * m <= v * n
    OBVIOUS
  <2> QED
    BY <2>1, <2>2
<1>7. Frac(s, d * k) \in Quotients
  BY <1>2 DEF Quotients
<1> HIDE DEF s
<1>8. /\ AtMost(Frac(n, d), Frac(m, d)) <=> n <= m
      /\ AtMost(Frac(m, d), Frac(n, d)) <=> m <= n
  BY AtMostSame
<1>9. /\ AtMost(Frac(n, d), Frac(s, d * k)) <=> k * n <= s
      /\ AtMost(Frac(s, d * k), Frac(n, d)) <=> s <= k * n
      /\ AtMost(Frac(m, d), Frac(s, d * k)) <=> k * m <= s
      /\ AtMost(Frac(s, d * k), Frac(m, d)) <=> s <= k * m
  BY <1>1, <1>2, <1>4, AtMostSame
<1>10. Amid(Frac(n, d), Frac(m, d), Frac(s, d * k))
  BY <1>5, <1>6, <1>7, <1>8, <1>9 DEF Amid
<1> QED
  BY <1>10 DEF s

\* A step of the exponential average lies between the value and the average before.
LEMMA BlendAmid ==
  ASSUME NEW x \in Quotients, NEW y \in Quotients, NEW p \in Positive
  PROVE  Amid(x, y, Blend(x, y, p))
<1>1. PICK d \in Positive, n \in Int, m \in Int : x = Frac(n, d) /\ y = Frac(m, d)
  BY TwoCommon
<1>2. Blend(x, y, p) = Frac(2 * n + (p - 1) * m, d * (p + 1))
  BY <1>1, BlendFrac
<1>3. 2 \in Nat /\ p - 1 \in Nat /\ p + 1 \in Positive /\ p + 1 = 2 + (p - 1)
  BY DEF Positive
<1> QED
  BY <1>1, <1>2, <1>3, Weighted

\* So does a step of Wilder's.
LEMMA SmoothAmid ==
  ASSUME NEW x \in Quotients, NEW y \in Quotients, NEW p \in Positive
  PROVE  Amid(x, y, Smooth(x, y, p))
<1>1. PICK d \in Positive, n \in Int, m \in Int : x = Frac(n, d) /\ y = Frac(m, d)
  BY TwoCommon
<1>2. Smooth(x, y, p) = Frac((p - 1) * n + m, d * p)
  BY <1>1, SmoothFrac
<1>3. 1 \in Nat /\ p - 1 \in Nat /\ p = (p - 1) + 1 /\ 1 * m = m
  BY DEF Positive
<1> QED
  BY <1>1, <1>2, <1>3, Weighted

-----------------------------------------------------------------------------
(* What a function that is defined in terms of itself computes             *)

\* Values step by step: from base on, each of the one before.
Steps(f, n, base, step) == f[0] = base /\ \A i \in 1 .. n : f[i] = step[<<i, f[i - 1]>>]

\* There are such values, by induction on their number.
LEMMA StepsExist ==
  ASSUME NEW n \in Nat, NEW V, NEW base \in V, NEW step \in [(1 .. n) \X V -> V]
  PROVE  \E f \in [0 .. n -> V] : Steps(f, n, base, step)
<1> DEFINE G == {k \in 0 .. n : \E f \in [0 .. k -> V] : Steps(f, k, base, step)}
<1>1. 0 \in G
  <2> DEFINE f == [i \in 0 .. 0 |-> base]
  <2>1. f \in [0 .. 0 -> V] /\ Steps(f, 0, base, step)
    BY DEF Steps
  <2> HIDE DEF f
  <2> QED
    BY <2>1
<1>2. ASSUME NEW k \in 0 .. n - 1, k \in G PROVE k + 1 \in G
  <2>1. PICK f \in [0 .. k -> V] : Steps(f, k, base, step)
    BY <1>2
  <2> DEFINE next == step[<<k + 1, f[k]>>]
             g == [i \in 0 .. k + 1 |-> IF i = k + 1 THEN next ELSE f[i]]
  <2>2. k \in 0 .. k /\ k + 1 \in 1 .. n /\ k \in Nat
    OBVIOUS
  <2>3. next \in V
    BY <2>1, <2>2
  <2>4. g \in [0 .. k + 1 -> V]
    <3> HIDE DEF next
    <3> QED
      BY <2>1, <2>3
  <2>5. g[0] = base
    BY <2>1, <2>2 DEF Steps
  <2>6. ASSUME NEW i \in 1 .. k + 1 PROVE g[i] = step[<<i, g[i - 1]>>]
    <3>1. CASE i = k + 1
      <4>1. i - 1 = k /\ k # k + 1 /\ k \in 0 .. k + 1 /\ i \in 0 .. k + 1
        BY <3>1
      <4>2. g[i] = next /\ g[i - 1] = f[k]
        BY <4>1, <3>1
      <4> QED
        BY <3>1, <4>2
    <3>2. CASE i # k + 1
      <4>1. i \in 1 .. k /\ i \in 0 .. k + 1 /\ i - 1 \in 0 .. k + 1 /\ i - 1 # k + 1
        BY <3>2
      <4>2. g[i] = f[i] /\ g[i - 1] = f[i - 1]
        BY <4>1, <3>2
      <4> QED
        BY <2>1, <4>1, <4>2 DEF Steps
    <3> QED
      BY <3>1, <3>2
  <2>7. Steps(g, k + 1, base, step)
    <3> HIDE DEF g
    <3> QED
      BY <2>5, <2>6 DEF Steps
  <2>8. k + 1 \in 0 .. n
    OBVIOUS
  <2> HIDE DEF g
  <2> QED
    BY <2>4, <2>7, <2>8
<1>3. 0 .. n \subseteq G
  <2> HIDE DEF G
  <2> QED
    BY <1>1, <1>2, Turns
<1> QED
  BY <1>3

\* Values for sets of indices: each of the value without the last of them.
Rests(g, n, base, step) ==
  \A s \in SUBSET (1 .. n) :
    g[s] = IF s = {} THEN base ELSE step[<<Max(s), g[s \ {Max(s)}]>>]

\* There are values for every set of indices.
Rest(n, V, base, step) == \E g \in [SUBSET (1 .. n) -> V] : Rests(g, n, base, step)

\* So there are for sets, by induction on the sets within.
LEMMA RestsExist ==
  ASSUME NEW n \in Nat, NEW V, NEW base \in V, NEW step \in [(1 .. n) \X V -> V]
  PROVE  Rest(n, V, base, step)
<1> DEFINE G == {k \in 0 .. n : Rest(k, V, base, step)}
<1>1. 0 \in G
  <2> DEFINE g == [s \in SUBSET (1 .. 0) |-> base]
  <2>1. \A s \in SUBSET (1 .. 0) : s = {}
    OBVIOUS
  <2>2. g \in [SUBSET (1 .. 0) -> V] /\ Rests(g, 0, base, step)
    BY <2>1 DEF Rests
  <2>3. Rest(0, V, base, step)
    <3> HIDE DEF g
    <3> QED
      BY <2>2 DEF Rest
  <2> QED
    BY <2>3
<1>2. ASSUME NEW k \in 0 .. n - 1, k \in G PROVE k + 1 \in G
  <2>1. PICK f \in [SUBSET (1 .. k) -> V] : Rests(f, k, base, step)
    BY <1>2 DEF Rest
  <2> DEFINE g == [s \in SUBSET (1 .. k + 1) |->
                     IF k + 1 \in s THEN step[<<k + 1, f[s \ {k + 1}]>>] ELSE f[s]]
  <2>2. k \in Nat /\ k + 1 \in 1 .. n
    OBVIOUS
  <2>3. \A s \in SUBSET (1 .. k + 1) : s \ {k + 1} \in SUBSET (1 .. k)
    BY <2>2
  <2>4. g \in [SUBSET (1 .. k + 1) -> V]
    <3>1. ASSUME NEW s \in SUBSET (1 .. k + 1) PROVE g[s] \in V
      <4>1. f[s \ {k + 1}] \in V
        BY <2>1, <2>3
      <4>2. step[<<k + 1, f[s \ {k + 1}]>>] \in V
        BY <2>2, <4>1
      <4>3. k + 1 \notin s => s \ {k + 1} = s
        OBVIOUS
      <4> QED
        BY <4>1, <4>2, <4>3
    <3>2. g = [s \in SUBSET (1 .. k + 1) |-> g[s]]
      OBVIOUS
    <3> HIDE DEF g
    <3> QED
      BY <3>1, <3>2
  <2>5. ASSUME NEW s \in SUBSET (1 .. k + 1)
        PROVE  g[s] = IF s = {} THEN base ELSE step[<<Max(s), g[s \ {Max(s)}]>>]
    <3>1. CASE k + 1 \in s
      <4>1. s \subseteq Int /\ \A y \in s : y <= k + 1
        OBVIOUS
      <4>2. Max(s) = k + 1
        BY <3>1, <4>1, MaxIs
      <4>3. s \ {k + 1} \in SUBSET (1 .. k + 1) /\ k + 1 \notin s \ {k + 1}
        OBVIOUS
      <4>4. g[s \ {k + 1}] = f[s \ {k + 1}]
        BY <4>3
      <4>5. g[s] = step[<<k + 1, f[s \ {k + 1}]>>]
        BY <3>1
      <4> QED
        BY <3>1, <4>2, <4>4, <4>5
    <3>2. CASE k + 1 \notin s
      <4>1. s \in SUBSET (1 .. k)
        BY <2>3, <3>2
      <4>2. s \ {Max(s)} \in SUBSET (1 .. k + 1) /\ k + 1 \notin s \ {Max(s)}
        BY <3>2
      <4>3. g[s] = f[s] /\ g[s \ {Max(s)}] = f[s \ {Max(s)}]
        BY <3>2, <4>2
      <4> QED
        BY <2>1, <4>1, <4>3 DEF Rests
    <3> QED
      BY <3>1, <3>2
  <2>6. Rests(g, k + 1, base, step)
    <3> HIDE DEF g
    <3> QED
      BY <2>5 DEF Rests
  <2>7. k + 1 \in 0 .. n
    OBVIOUS
  <2> HIDE DEF g
  <2> QED
    BY <2>4, <2>6, <2>7 DEF Rest
<1>3. 0 .. n \subseteq G
  <2> HIDE DEF G
  <2> QED
    BY <1>1, <1>2, Turns
<1> QED
  BY <1>3

\* A function of the numbers to n.
Tabled(e, n) == e = [i \in 1 .. n |-> e[i]]

\* An exponential average: the first value, then each blended into what was before.
Averages(e, xs, p) ==
  /\ DOMAIN e = 1 .. Len(xs) /\ Tabled(e, Len(xs))
  /\ \A i \in 1 .. Len(xs) :
       e[i] \in Quotients /\ e[i] = IF i = 1 THEN xs[1] ELSE Blend(xs[i], e[i - 1], p)

\* Ema is one, whose recursion has a solution.
LEMMA EmaTurns ==
  ASSUME NEW xs \in Seq(Quotients), NEW p \in Positive
  PROVE  Averages(Ema(xs, p), xs, p)
<1> DEFINE n == Len(xs)
           Solves(e) == e = [i \in 1 .. n |-> IF i = 1 THEN xs[1] ELSE Blend(xs[i], e[i - 1], p)]
           step == [q \in (1 .. n) \X Quotients |->
                      IF q[1] = 1 THEN xs[1] ELSE Blend(xs[q[1]], q[2], p)]
<1>1. n \in Nat /\ \A i \in 1 .. n : xs[i] \in Quotients
  OBVIOUS
<1>2. Zero \in Quotients
  BY WholeType
<1> HIDE DEF n
<1>3. \A x, y \in Quotients : Blend(x, y, p) \in Quotients
  BY BlendAmid DEF Amid
<1>4. step \in [(1 .. n) \X Quotients -> Quotients]
  BY <1>1, <1>3
<1>5. PICK f \in [0 .. n -> Quotients] : Steps(f, n, Zero, step)
  <2> HIDE DEF step
  <2> QED
    BY <1>1, <1>2, <1>4, StepsExist
<1>6. \A i \in 1 .. n : f[i] = IF i = 1 THEN xs[1] ELSE Blend(xs[i], f[i - 1], p)
  <2> TAKE i \in 1 .. n
  <2>1. f[i] = step[<<i, f[i - 1]>>]
    BY <1>5 DEF Steps
  <2>2. f[i - 1] \in Quotients
    BY <1>5, <1>1
  <2> QED
    BY <2>1, <2>2
<1>7. Solves([i \in 1 .. n |-> f[i]])
  BY <1>1, <1>6
<1>8. Ema(xs, p) = CHOOSE e : Solves(e)
  BY DEF Ema, Blend, n
<1>9. Solves(Ema(xs, p))
  <2> HIDE DEF Solves
  <2> QED
    BY <1>7, <1>8
<1> DEFINE e == Ema(xs, p)
<1>10. DOMAIN e = 1 .. n
       /\ \A i \in 1 .. n : e[i] = IF i = 1 THEN xs[1] ELSE Blend(xs[i], e[i - 1], p)
  BY <1>9
<1>13. Tabled(e, n)
  BY <1>9 DEF Tabled
<1> HIDE DEF e, Solves
<1> DEFINE G == {k \in 0 .. n : k = 0 \/ e[k] \in Quotients}
<1>11. 0 .. n \subseteq G
  <2>1. 0 \in G
    BY <1>1
  <2>2. ASSUME NEW k \in 0 .. n - 1, k \in G PROVE k + 1 \in G
    <3>1. k + 1 \in 1 .. n /\ (k + 1) - 1 = k /\ (k + 1 = 1 \/ e[k] \in Quotients)
      BY <1>1, <2>2
    <3>2. e[k + 1] \in Quotients
      BY <1>1, <1>3, <1>10, <3>1
    <3> QED
      BY <3>1, <3>2
  <2> HIDE DEF G
  <2> QED
    BY <1>1, <2>1, <2>2, Turns
<1>12. ASSUME NEW i \in 1 .. n PROVE e[i] \in Quotients
  <2>1. i \in 0 .. n /\ i # 0
    BY <1>1
  <2> QED
    BY <1>11, <2>1
<1> QED
  BY <1>10, <1>12, <1>13 DEF Averages, n, e

\* The values for the first indices are values step by step.
Into(g, n, V) == g \in [SUBSET (1 .. n) -> V]
Chain(n, V, base, step, last) ==
  \E t \in [0 .. n -> V] : Steps(t, n, base, step) /\ t[n] = last

\* The value for all indices is where the steps lead.
LEMMA RestsChain ==
  ASSUME NEW n \in Nat, NEW V, NEW base, NEW step, NEW g, Into(g, n, V),
         Rests(g, n, base, step)
  PROVE  Chain(n, V, base, step, g[1 .. n])
<1> DEFINE t == [k \in 0 .. n |-> g[1 .. k]]
<1>1. \A k \in 0 .. n : 1 .. k \in SUBSET (1 .. n)
  OBVIOUS
<1>2. t \in [0 .. n -> V] /\ n \in 0 .. n /\ t[n] = g[1 .. n]
  BY <1>1 DEF Into
<1>3. t[0] = base
  <2>1. 1 .. 0 = {} /\ 1 .. 0 \in SUBSET (1 .. n) /\ 0 \in 0 .. n
    OBVIOUS
  <2> QED
    BY <2>1 DEF Rests
<1>4. ASSUME NEW i \in 1 .. n PROVE t[i] = step[<<i, t[i - 1]>>]
  <2>1. i \in Positive
    BY DEF Positive
  <2>2. 1 .. i # {} /\ Max(1 .. i) = i /\ (1 .. i) \ {i} = 1 .. i - 1
    BY <2>1, FirstIndices
  <2>3. 1 .. i \in SUBSET (1 .. n) /\ i \in 0 .. n /\ i - 1 \in 0 .. n
    OBVIOUS
  <2>4. g[1 .. i] = step[<<i, g[1 .. i - 1]>>]
    BY <2>2, <2>3 DEF Rests
  <2> QED
    BY <2>3, <2>4
<1> HIDE DEF t
<1> QED
  BY <1>2, <1>3, <1>4 DEF Steps, Chain

\* Sums: nothing, then each value added to the sum before.
Sums(t, xs) ==
  /\ t \in [0 .. Len(xs) -> Quotients] /\ t[0] = Zero
  /\ \A i \in 1 .. Len(xs) : t[i] = Plus(t[i - 1], xs[i])

\* The function behind the fold of a total.
TotalTable(h, xs) ==
  h = [s \in SUBSET DOMAIN xs |-> IF s = {} THEN Zero ELSE Plus(h[s \ {Max(s)}], xs[Max(s)])]

\* Total is what that function has for all indices.
LEMMA TotalInTable ==
  ASSUME NEW xs
  PROVE  Total(xs) = (CHOOSE h : TotalTable(h, xs))[DOMAIN xs]
BY DEF Total, FoldLeft, MapThenFoldSet, TotalTable

\* A total is the last of the sums.
LEMMA TotalTurns ==
  ASSUME NEW xs \in Seq(Quotients)
  PROVE  \E t : Sums(t, xs) /\ Total(xs) = t[Len(xs)]
<1> DEFINE n == Len(xs)
           step == [q \in (1 .. n) \X Quotients |-> Plus(q[2], xs[q[1]])]
<1>1. n \in Nat /\ DOMAIN xs = 1 .. n /\ \A i \in 1 .. n : xs[i] \in Quotients
  OBVIOUS
<1> HIDE DEF n
<1>2. Zero \in Quotients
  BY WholeType
<1>3. step \in [(1 .. n) \X Quotients -> Quotients]
  BY <1>1, OpsType
<1>4. \A i \in 1 .. n, x \in Quotients : step[<<i, x>>] = Plus(x, xs[i])
  OBVIOUS
<1> HIDE DEF step
<1>5. PICK g \in [SUBSET (1 .. n) -> Quotients] : Rests(g, n, Zero, step)
  BY <1>1, <1>2, <1>3, RestsExist DEF Rest
<1>6. TotalTable(g, xs)
  <2>1. ASSUME NEW s \in SUBSET (1 .. n)
        PROVE  g[s] = IF s = {} THEN Zero ELSE Plus(g[s \ {Max(s)}], xs[Max(s)])
    <3>1. s # {} => Max(s) \in 1 .. n
      BY <1>1, MaxIndex
    <3>2. g[s \ {Max(s)}] \in Quotients
      BY <1>5
    <3> QED
      BY <1>4, <1>5, <3>1, <3>2 DEF Rests
  <2>2. g = [s \in SUBSET (1 .. n) |-> g[s]]
    OBVIOUS
  <2> QED
    BY <1>1, <2>1, <2>2 DEF TotalTable
<1>7. ASSUME NEW h, TotalTable(h, xs) PROVE h = g
  <2>1. Table(g, 1 .. n) /\ IsFiniteSet(1 .. n)
    BY <1>1, FS_Interval DEF Table
  <2>3. Table(h, 1 .. n)
    BY <1>1, <1>7 DEF TotalTable, Table
  <2>2. Alike(h, g, 1 .. n)
    <3> SUFFICES ASSUME NEW s \in SUBSET (1 .. n)
                 PROVE  h[s] = g[s] \/ \E x \in s : h[s \ {x}] = g[s \ {x}] => h[s] = g[s]
      BY DEF Alike
    <3>1. s # {} => Max(s) \in s
      BY <1>1, MaxIndex
    <3>2. /\ h[s] = IF s = {} THEN Zero ELSE Plus(h[s \ {Max(s)}], xs[Max(s)])
          /\ g[s] = IF s = {} THEN Zero ELSE Plus(g[s \ {Max(s)}], xs[Max(s)])
      BY <1>1, <1>6, <1>7 DEF TotalTable
    <3> QED
      BY <3>1, <3>2
  <2> QED
    BY <2>1, <2>2, <2>3, TablesMatch
<1>8. Total(xs) = g[1 .. n]
  <2>1. (CHOOSE h : TotalTable(h, xs)) = g
    BY <1>6, <1>7
  <2> QED
    BY <1>1, <2>1, TotalInTable
<1>9. PICK t \in [0 .. n -> Quotients] : Steps(t, n, Zero, step) /\ t[n] = g[1 .. n]
  <2>1. Into(g, n, Quotients)
    BY DEF Into
  <2>2. Chain(n, Quotients, Zero, step, g[1 .. n])
    BY <1>1, <1>5, <2>1, RestsChain
  <2> QED
    BY <2>2 DEF Chain
<1>10. ASSUME NEW i \in 1 .. n PROVE t[i] = Plus(t[i - 1], xs[i])
  <2>1. t[i - 1] \in Quotients
    BY <1>1, <1>9
  <2> QED
    BY <1>4, <1>9, <2>1 DEF Steps
<1>11. t[0] = Zero
  BY <1>9 DEF Steps
<1> QED
  BY <1>8, <1>9, <1>10, <1>11 DEF Sums, n

\* Wilder's averages from a first one on.
Smoothings(t, b, xs, p) ==
  /\ t \in [0 .. Len(xs) -> Quotients] /\ t[0] = b
  /\ \A i \in 1 .. Len(xs) : t[i] = Smooth(t[i - 1], xs[i], p)

\* Wilder's average from b on, as a fold.
SmoothOver(b, xs, p) == FoldLeft(LAMBDA avg, x : Smooth(avg, x, p), b, xs)

\* The function behind that fold.
SmoothTable(h, b, xs, p) ==
  h = [s \in SUBSET DOMAIN xs |-> IF s = {} THEN b ELSE Smooth(h[s \ {Max(s)}], xs[Max(s)], p)]

\* The fold is what the function has for all indices.
LEMMA SmoothInTable ==
  ASSUME NEW xs, NEW b, NEW p
  PROVE  SmoothOver(b, xs, p) = (CHOOSE h : SmoothTable(h, b, xs, p))[DOMAIN xs]
BY DEF SmoothOver, FoldLeft, MapThenFoldSet, SmoothTable

\* Wilder's average is the last of the averages.
LEMMA SmoothTurns ==
  ASSUME NEW xs \in Seq(Quotients), NEW b \in Quotients, NEW p \in Positive
  PROVE  \E t : Smoothings(t, b, xs, p) /\ SmoothOver(b, xs, p) = t[Len(xs)]
<1> DEFINE n == Len(xs)
           step == [q \in (1 .. n) \X Quotients |-> Smooth(q[2], xs[q[1]], p)]
<1>1. n \in Nat /\ DOMAIN xs = 1 .. n /\ \A i \in 1 .. n : xs[i] \in Quotients
  OBVIOUS
<1> HIDE DEF n
<1>2. \A x, y \in Quotients : Smooth(x, y, p) \in Quotients
  BY SmoothAmid DEF Amid
<1>3. step \in [(1 .. n) \X Quotients -> Quotients]
  BY <1>1, <1>2
<1>4. \A i \in 1 .. n, x \in Quotients : step[<<i, x>>] = Smooth(x, xs[i], p)
  OBVIOUS
<1> HIDE DEF step
<1>5. PICK g \in [SUBSET (1 .. n) -> Quotients] : Rests(g, n, b, step)
  BY <1>1, <1>3, RestsExist DEF Rest
<1>6. SmoothTable(g, b, xs, p)
  <2>1. ASSUME NEW s \in SUBSET (1 .. n)
        PROVE  g[s] = IF s = {} THEN b ELSE Smooth(g[s \ {Max(s)}], xs[Max(s)], p)
    <3>1. s # {} => Max(s) \in 1 .. n
      BY <1>1, MaxIndex
    <3>2. g[s \ {Max(s)}] \in Quotients
      BY <1>5
    <3> QED
      BY <1>4, <1>5, <3>1, <3>2 DEF Rests
  <2>2. g = [s \in SUBSET (1 .. n) |-> g[s]]
    OBVIOUS
  <2> QED
    BY <1>1, <2>1, <2>2 DEF SmoothTable
<1>7. ASSUME NEW h, SmoothTable(h, b, xs, p) PROVE h = g
  <2>1. Table(g, 1 .. n) /\ IsFiniteSet(1 .. n)
    BY <1>1, FS_Interval DEF Table
  <2>3. Table(h, 1 .. n)
    BY <1>1, <1>7 DEF SmoothTable, Table
  <2>2. Alike(h, g, 1 .. n)
    <3> SUFFICES ASSUME NEW s \in SUBSET (1 .. n)
                 PROVE  h[s] = g[s] \/ \E x \in s : h[s \ {x}] = g[s \ {x}] => h[s] = g[s]
      BY DEF Alike
    <3>1. s # {} => Max(s) \in s
      BY <1>1, MaxIndex
    <3>2. /\ h[s] = IF s = {} THEN b ELSE Smooth(h[s \ {Max(s)}], xs[Max(s)], p)
          /\ g[s] = IF s = {} THEN b ELSE Smooth(g[s \ {Max(s)}], xs[Max(s)], p)
      BY <1>1, <1>6, <1>7 DEF SmoothTable
    <3> QED
      BY <3>1, <3>2
  <2> QED
    BY <2>1, <2>2, <2>3, TablesMatch
<1>8. SmoothOver(b, xs, p) = g[1 .. n]
  <2>1. (CHOOSE h : SmoothTable(h, b, xs, p)) = g
    BY <1>6, <1>7
  <2> QED
    BY <1>1, <2>1, SmoothInTable
<1>9. PICK t \in [0 .. n -> Quotients] : Steps(t, n, b, step) /\ t[n] = g[1 .. n]
  <2>1. Into(g, n, Quotients)
    BY DEF Into
  <2>2. Chain(n, Quotients, b, step, g[1 .. n])
    BY <1>1, <1>5, <2>1, RestsChain
  <2> QED
    BY <2>2 DEF Chain
<1>10. ASSUME NEW i \in 1 .. n PROVE t[i] = Smooth(t[i - 1], xs[i], p)
  <2>1. t[i - 1] \in Quotients
    BY <1>1, <1>9
  <2> QED
    BY <1>4, <1>9, <2>1 DEF Steps
<1>11. t[0] = b
  BY <1>9 DEF Steps
<1> QED
  BY <1>8, <1>9, <1>10, <1>11 DEF Smoothings, n

\* Wilder starts from the mean of the first values.
LEMMA WilderFolds ==
  ASSUME NEW xs, NEW p
  PROVE  Wilder(xs, p) = SmoothOver(Mean(SubSeq(xs, 1, p)), SubSeq(xs, p + 1, Len(xs)), p)
BY DEF Wilder, SmoothOver, Smooth

-----------------------------------------------------------------------------
(* Averages lie between what they average                                  *)

\* Some member of S is not above x and some is not below.
Held(x, S) == (\E y \in S : AtMost(y, x)) /\ (\E y \in S : AtMost(x, y))

\* A member is held by the set.
LEMMA HeldMember ==
  ASSUME NEW S, S \subseteq Quotients, NEW x \in S PROVE Held(x, S)
BY AtMostOrder DEF Held

\* What a set holds a larger one holds.
LEMMA HeldMore ==
  ASSUME NEW S, NEW T, S \subseteq T, NEW x, Held(x, S) PROVE Held(x, T)
BY DEF Held

\* What lies between two that are held is held.
LEMMA HeldAmid ==
  ASSUME NEW S, S \subseteq Quotients, NEW x \in Quotients, NEW y \in Quotients,
         Held(x, S), Held(y, S), NEW z, Amid(x, y, z)
  PROVE  Held(z, S)
<1>1. PICK a \in S : AtMost(a, x)
  BY DEF Held
<1>2. PICK b \in S : AtMost(x, b)
  BY DEF Held
<1>3. PICK c \in S : AtMost(c, y)
  BY DEF Held
<1>4. PICK d \in S : AtMost(y, d)
  BY DEF Held
<1>5. z \in Quotients /\ a \in Quotients /\ b \in Quotients /\ c \in Quotients /\ d \in Quotients
  BY DEF Amid
<1>6. CASE AtMost(x, y)
  <2>1. AtMost(x, z) /\ AtMost(z, y)
    BY <1>6 DEF Amid
  <2>2. AtMost(a, z) /\ AtMost(z, d)
    BY <1>1, <1>4, <1>5, <2>1, AtMostOrder
  <2> QED
    BY <2>2 DEF Held
<1>7. CASE AtMost(y, x)
  <2>1. AtMost(y, z) /\ AtMost(z, x)
    BY <1>7 DEF Amid
  <2>2. AtMost(c, z) /\ AtMost(z, b)
    BY <1>2, <1>3, <1>5, <2>1, AtMostOrder
  <2> QED
    BY <2>2 DEF Held
<1> QED
  BY <1>6, <1>7, AtMostOrder

\* The values so far.
First(xs, k) == {xs[i] : i \in 1 .. k}

\* The exponential average does not leave the values it has seen.
THEOREM EmaHeld ==
  ASSUME NEW xs \in Seq(Quotients), NEW p \in Positive, NEW i \in 1 .. Len(xs)
  PROVE  Ema(xs, p)[i] \in Quotients /\ Held(Ema(xs, p)[i], First(xs, i))
<1> DEFINE e == Ema(xs, p)
           n == Len(xs)
           G == {k \in 0 .. n : k = 0 \/ Held(e[k], First(xs, k))}
<1>1. n \in Nat /\ \A j \in 1 .. n : xs[j] \in Quotients
  OBVIOUS
<1>2. Averages(e, xs, p)
  BY EmaTurns
<1> HIDE DEF e
<1>3. \A k \in 1 .. n : First(xs, k) \subseteq Quotients /\ xs[k] \in First(xs, k)
  BY <1>1 DEF First
<1>4. ASSUME NEW k \in 0 .. n - 1, k \in G PROVE k + 1 \in G
  <2>1. k + 1 \in 1 .. n /\ (k + 1) - 1 = k /\ k \in Nat
    BY <1>1
  <2>2. Held(xs[k + 1], First(xs, k + 1))
    BY <1>3, <2>1, HeldMember
  <2>3. CASE k = 0
    <3>1. e[k + 1] = xs[k + 1]
      BY <1>2, <2>1, <2>3 DEF Averages
    <3> QED
      BY <2>1, <2>2, <3>1
  <2>4. CASE k # 0
    <3>1. k \in 1 .. n /\ k + 1 # 1
      BY <2>1, <2>4
    <3>2. e[k + 1] = Blend(xs[k + 1], e[k], p) /\ e[k] \in Quotients
      BY <1>2, <2>1, <3>1 DEF Averages
    <3>3. Held(e[k], First(xs, k))
      BY <1>4, <2>4
    <3>4. First(xs, k) \subseteq First(xs, k + 1)
      BY <2>1 DEF First
    <3>5. Held(e[k], First(xs, k + 1))
      BY <3>3, <3>4, HeldMore
    <3>6. xs[k + 1] \in Quotients /\ First(xs, k + 1) \subseteq Quotients
      BY <1>1, <1>3, <2>1
    <3>7. Amid(xs[k + 1], e[k], Blend(xs[k + 1], e[k], p))
      BY <3>2, <3>6, BlendAmid
    <3>8. Held(e[k + 1], First(xs, k + 1))
      BY <2>2, <3>2, <3>5, <3>6, <3>7, HeldAmid
    <3> QED
      BY <2>1, <3>8
  <2> QED
    BY <2>3, <2>4
<1>5. 0 .. n \subseteq G
  <2>1. 0 \in G
    BY <1>1
  <2> HIDE DEF G, n
  <2> QED
    BY <1>1, <1>4, <2>1, Turns
<1>6. i \in 0 .. n /\ i # 0
  OBVIOUS
<1>7. Held(e[i], First(xs, i))
  BY <1>5, <1>6
<1>8. e[i] \in Quotients
  BY <1>2 DEF Averages
<1> QED
  BY <1>7, <1>8 DEF e

\* The mean of one more value is that step of Wilder's average.
LEMMA MeanStep ==
  ASSUME NEW s \in Quotients, NEW x \in Quotients, NEW k \in Positive
  PROVE  Over(Plus(s, x), Whole(k + 1)) = Smooth(Over(s, Whole(k)), x, k + 1)
<1>1. PICK d \in Positive, n \in Int, m \in Int : s = Frac(n, d) /\ x = Frac(m, d)
  BY TwoCommon
<1>2. k \in Int /\ k > 0 /\ k + 1 \in Positive /\ d \in Int /\ (k + 1) - 1 = k
  BY DEF Positive
<1>3. Over(s, Whole(k)) = Frac(n, d * k) /\ d * k \in Positive
  BY <1>1, OverWhole, PositiveProduct
<1>4. x = Frac(k * m, d * k)
  <2>1. x = Frac(k * m, k * d)
    BY <1>1, FracScaled
  <2>2. k * d = d * k
    BY <1>2
  <2> QED
    BY <2>1, <2>2
<1>5. k * m \in Int
  BY <1>2
<1>6. Smooth(Frac(n, d * k), Frac(k * m, d * k), k + 1)
        = Frac(((k + 1) - 1) * n + k * m, (d * k) * (k + 1))
  BY <1>2, <1>3, <1>5, SmoothFrac
<1>7. Plus(s, x) = Frac(n + m, d) /\ n + m \in Int
  BY <1>1, PlusSame
<1>8. Over(Plus(s, x), Whole(k + 1)) = Frac(n + m, d * (k + 1))
  BY <1>2, <1>7, OverWhole
<1>9. d * (k + 1) \in Positive
  BY <1>2, PositiveProduct
<1>10. Frac(k * (n + m), k * (d * (k + 1))) = Frac(n + m, d * (k + 1))
  BY <1>7, <1>9, FracScaled
<1>11. k * (n + m) = ((k + 1) - 1) * n + k * m /\ k * (d * (k + 1)) = (d * k) * (k + 1)
  BY <1>2
<1> QED
  BY <1>3, <1>4, <1>6, <1>8, <1>10, <1>11

\* Nothing added.
LEMMA ZeroPlus == ASSUME NEW x \in Quotients PROVE Plus(Zero, x) = x /\ Plus(x, Zero) = x
<1>1. PICK n \in Int, d \in Positive : x = Frac(n, d)
  BY DEF Quotients
<1>2. Zero = Frac(0, d)
  BY ZeroFrac
<1>3. Plus(Frac(0, d), Frac(n, d)) = Frac(0 + n, d) /\ Plus(Frac(n, d), Frac(0, d)) = Frac(n + 0, d)
  BY PlusSame
<1> QED
  BY <1>1, <1>2, <1>3

\* Division by one.
LEMMA OverOne == ASSUME NEW x \in Quotients PROVE Over(x, Whole(1)) = x
<1>1. PICK n \in Int, d \in Positive : x = Frac(n, d)
  BY DEF Quotients
<1>2. 1 \in Positive /\ d * 1 = d
  BY DEF Positive
<1> QED
  BY <1>1, <1>2, OverWhole

\* The mean does not leave the values it is taken of.
LEMMA MeanHeld ==
  ASSUME NEW xs \in Seq(Quotients), Len(xs) > 0
  PROVE  Mean(xs) \in Quotients /\ Held(Mean(xs), First(xs, Len(xs)))
<1> DEFINE n == Len(xs)
<1>1. n \in Nat /\ n > 0 /\ \A j \in 1 .. n : xs[j] \in Quotients
  OBVIOUS
<1>2. PICK t : Sums(t, xs) /\ Total(xs) = t[n]
  BY TotalTurns
<1> DEFINE S == First(xs, n)
           m(k) == Over(t[k], Whole(k))
           G == {k \in 0 .. n : k = 0 \/ (m(k) \in Quotients /\ Held(m(k), S))}
<1>3. S \subseteq Quotients /\ \A k \in 1 .. n : xs[k] \in S
  BY <1>1 DEF First
<1> HIDE DEF S
<1>4. ASSUME NEW k \in 0 .. n - 1, k \in G PROVE k + 1 \in G
  <2>1. k + 1 \in 1 .. n /\ (k + 1) - 1 = k /\ k \in Nat
    BY <1>1
  <2>2. xs[k + 1] \in Quotients /\ Held(xs[k + 1], S)
    BY <1>1, <1>3, <2>1, HeldMember
  <2>3. t[k + 1] = Plus(t[k], xs[k + 1]) /\ t[k] \in Quotients
    BY <1>1, <1>2, <2>1 DEF Sums
  <2>4. CASE k = 0
    <3>1. t[k] = Zero
      BY <1>2, <2>4 DEF Sums
    <3>2. t[k + 1] = xs[k + 1]
      BY <2>2, <2>3, <3>1, ZeroPlus
    <3>3. m(k + 1) = xs[k + 1]
      BY <2>2, <2>4, <3>2, OverOne
    <3> QED
      BY <2>1, <2>2, <3>3
  <2>5. CASE k # 0
    <3>1. k \in Positive
      BY <2>1, <2>5 DEF Positive
    <3>2. m(k + 1) = Smooth(m(k), xs[k + 1], k + 1)
      BY <2>2, <2>3, <3>1, MeanStep
    <3>3. m(k) \in Quotients /\ Held(m(k), S)
      BY <1>4, <2>5
    <3>4. k + 1 \in Positive
      BY <2>1 DEF Positive
    <3> HIDE DEF m
    <3>5. Amid(m(k), xs[k + 1], Smooth(m(k), xs[k + 1], k + 1))
      BY <2>2, <3>3, <3>4, SmoothAmid
    <3>6. Held(m(k + 1), S)
      BY <1>3, <2>2, <3>2, <3>3, <3>5, HeldAmid
    <3>7. m(k + 1) \in Quotients
      BY <3>2, <3>5 DEF Amid
    <3> QED
      BY <2>1, <3>6, <3>7
  <2> QED
    BY <2>4, <2>5
<1>5. 0 .. n \subseteq G
  <2>1. 0 \in G
    BY <1>1
  <2> HIDE DEF G, n
  <2> QED
    BY <1>1, <1>4, <2>1, Turns
<1>6. n \in 0 .. n /\ n # 0
  BY <1>1
<1>7. m(n) \in Quotients /\ Held(m(n), S)
  BY <1>5, <1>6
<1>8. Mean(xs) = m(n)
  BY <1>2 DEF Mean
<1> QED
  BY <1>7, <1>8 DEF S

\* Wilder's average does not leave what its start and its values are in.
LEMMA SmoothHeld ==
  ASSUME NEW xs \in Seq(Quotients), NEW b \in Quotients, NEW p \in Positive,
         NEW S, S \subseteq Quotients, Held(b, S), First(xs, Len(xs)) \subseteq S
  PROVE  SmoothOver(b, xs, p) \in Quotients /\ Held(SmoothOver(b, xs, p), S)
<1> DEFINE n == Len(xs)
<1>1. n \in Nat /\ \A j \in 1 .. n : xs[j] \in Quotients /\ xs[j] \in S
  BY DEF First
<1>2. PICK t : Smoothings(t, b, xs, p) /\ SmoothOver(b, xs, p) = t[n]
  BY SmoothTurns
<1> DEFINE G == {k \in 0 .. n : Held(t[k], S)}
<1>3. ASSUME NEW k \in 0 .. n - 1, k \in G PROVE k + 1 \in G
  <2>1. k + 1 \in 1 .. n /\ (k + 1) - 1 = k /\ k \in 0 .. n /\ k + 1 \in 0 .. n
    BY <1>1
  <2>2. xs[k + 1] \in Quotients /\ Held(xs[k + 1], S)
    BY <1>1, <2>1, HeldMember
  <2>3. t[k + 1] = Smooth(t[k], xs[k + 1], p) /\ t[k] \in Quotients
    BY <1>2, <2>1 DEF Smoothings
  <2>4. Amid(t[k], xs[k + 1], Smooth(t[k], xs[k + 1], p))
    BY <2>2, <2>3, SmoothAmid
  <2>5. Held(t[k + 1], S)
    BY <1>3, <2>2, <2>3, <2>4, HeldAmid
  <2> QED
    BY <2>1, <2>5
<1>4. 0 .. n \subseteq G
  <2>1. 0 \in G
    BY <1>1, <1>2 DEF Smoothings
  <2> HIDE DEF G, n
  <2> QED
    BY <1>1, <1>3, <2>1, Turns
<1>5. n \in 0 .. n
  BY <1>1
<1>6. Held(t[n], S) /\ t[n] \in Quotients
  BY <1>2, <1>4, <1>5 DEF Smoothings
<1> QED
  BY <1>2, <1>6

\* Wilder's average does not leave the values it is taken of.
THEOREM WilderHeld ==
  ASSUME NEW xs \in Seq(Quotients), NEW p \in Positive, p <= Len(xs)
  PROVE  Wilder(xs, p) \in Quotients /\ Held(Wilder(xs, p), First(xs, Len(xs)))
<1> DEFINE as == SubSeq(xs, 1, p)
           bs == SubSeq(xs, p + 1, Len(xs))
           S == First(xs, Len(xs))
<1>1. p \in Nat /\ p > 0
  BY DEF Positive
<1>2. /\ as \in Seq(Quotients) /\ Len(as) = p
      /\ \A i \in 1 .. p : as[i] = xs[i]
  BY <1>1
<1>3. /\ bs \in Seq(Quotients) /\ Len(bs) = Len(xs) - p
      /\ \A i \in 1 .. Len(xs) - p : bs[i] = xs[p + i]
  BY <1>1
<1> HIDE DEF as, bs
<1>4. S \subseteq Quotients /\ First(as, Len(as)) \subseteq S /\ First(bs, Len(bs)) \subseteq S
  <2>1. \A i \in 1 .. Len(xs) : xs[i] \in Quotients /\ xs[i] \in S
    BY DEF First
  <2>2. S \subseteq Quotients
    BY <2>1 DEF First
  <2> HIDE DEF S
  <2>3. \A i \in 1 .. p : as[i] \in S
    <3> TAKE i \in 1 .. p
    <3>1. i \in 1 .. Len(xs)
      BY <1>1
    <3> QED
      BY <1>2, <2>1, <3>1
  <2>4. \A i \in 1 .. Len(xs) - p : bs[i] \in S
    <3> TAKE i \in 1 .. Len(xs) - p
    <3>1. p + i \in 1 .. Len(xs)
      BY <1>1
    <3> QED
      BY <1>3, <2>1, <3>1
  <2> QED
    BY <1>2, <1>3, <2>2, <2>3, <2>4 DEF First
<1> HIDE DEF S
<1>5. Mean(as) \in Quotients /\ Held(Mean(as), S)
  BY <1>1, <1>2, <1>4, MeanHeld, HeldMore
<1>6. SmoothOver(Mean(as), bs, p) \in Quotients /\ Held(SmoothOver(Mean(as), bs, p), S)
  BY <1>3, <1>4, <1>5, SmoothHeld
<1> QED
  BY <1>6, WilderFolds DEF as, bs, S

-----------------------------------------------------------------------------
(* Signs                                                                   *)

\* Fractions that are not below zero.
Unsigned == {x \in Quotients : x.num >= 0}

\* They are those whose numerator is not.
LEMMA UnsignedFrac ==
  ASSUME NEW n \in Int, NEW d \in Positive
  PROVE  Frac(n, d) \in Unsigned <=> n >= 0
<1>1. Frac(n, d) \in Quotients /\ Frac(n, d).num \in Int
  BY FracType
<1>2. Frac(n, d).num < 0 <=> n < 0
  BY FracSign
<1> QED
  BY <1>1, <1>2 DEF Unsigned

\* Zero is the fraction with nothing on top.
LEMMA ZeroIs ==
  ASSUME NEW x \in Quotients
  PROVE  x = Zero <=> x.num = 0
<1>1. PICK n \in Int, d \in Positive : x = Frac(n, d)
  BY DEF Quotients
<1>2. Zero = Frac(0, d)
  BY ZeroFrac
<1>3. x = Zero <=> n = 0
  BY <1>1, <1>2, EqualSame
<1>4. x.num = 0 <=> n = 0
  BY <1>1, FracSign
<1> QED
  BY <1>3, <1>4

\* Zero is the least of them.
LEMMA ZeroLeast ==
  ASSUME NEW x \in Quotients
  PROVE  AtMost(Zero, x) <=> x \in Unsigned
<1>1. PICK n \in Int, d \in Positive : x = Frac(n, d)
  BY DEF Quotients
<1>2. Zero = Frac(0, d)
  BY ZeroFrac
<1>3. AtMost(Zero, x) <=> 0 <= n
  BY <1>1, <1>2, AtMostSame
<1>4. x \in Unsigned <=> n >= 0
  BY <1>1, UnsignedFrac
<1> QED
  BY <1>3, <1>4

\* A share of the whole.
IsShare(x) == x.num >= 0 /\ x.num <= x.den

\* The parts of a share.
LEMMA ShareFrac ==
  ASSUME NEW n \in Int, NEW d \in Positive
  PROVE  IsShare(Frac(n, d)) <=> 0 <= n /\ n <= d
<1>1. PICK g \in Positive, u \in Int, v \in Positive :
        Frac(n, d) = [num |-> u, den |-> v] /\ n = g * u /\ d = g * v
  BY FracParts
<1>2. g \in Int /\ g > 0 /\ v \in Int
  BY DEF Positive
<1>3. (u >= 0 <=> g * u >= 0) /\ (u <= v <=> g * u <= g * v)
  BY <1>2
<1> QED
  BY <1>1, <1>3 DEF IsShare

\* It lies between none and all.
LEMMA ShareBetween ==
  ASSUME NEW x \in Quotients
  PROVE  IsShare(x) <=> AtMost(Zero, x) /\ AtMost(x, Whole(1))
<1>1. PICK n \in Int, d \in Positive : x = Frac(n, d)
  BY DEF Quotients
<1>2. d \in Int /\ Zero = Frac(0, d) /\ Whole(1) = Frac(1 * d, d) /\ 1 * d = d
  BY ZeroFrac, WholeFrac DEF Positive
<1>3. (AtMost(Zero, x) <=> 0 <= n) /\ (AtMost(x, Whole(1)) <=> n <= d)
  BY <1>1, <1>2, AtMostSame
<1> QED
  BY <1>1, <1>3, ShareFrac

\* What values that are not negative hold is not negative.
LEMMA HeldUnsigned ==
  ASSUME NEW S, S \subseteq Unsigned, NEW x \in Quotients, Held(x, S)
  PROVE  x \in Unsigned
<1>1. PICK y \in S : AtMost(y, x)
  BY DEF Held
<1>2. y \in Quotients /\ Zero \in Quotients
  BY WholeType DEF Unsigned
<1>3. AtMost(Zero, y)
  BY <1>2, ZeroLeast
<1>4. AtMost(Zero, x)
  BY <1>1, <1>2, <1>3, AtMostOrder
<1> QED
  BY <1>4, ZeroLeast

\* What shares hold is a share.
LEMMA HeldShare ==
  ASSUME NEW S, S \subseteq Quotients, \A y \in S : IsShare(y), NEW x \in Quotients, Held(x, S)
  PROVE  IsShare(x)
<1>0. Zero \in Quotients /\ Whole(1) \in Quotients
  BY WholeType
<1>1. PICK y \in S : AtMost(y, x)
  BY DEF Held
<1>2. PICK z \in S : AtMost(x, z)
  BY DEF Held
<1>3. AtMost(Zero, y) /\ AtMost(z, Whole(1))
  BY ShareBetween
<1>4. AtMost(Zero, x)
  BY <1>0, <1>1, <1>3, AtMostOrder
<1>5. AtMost(x, Whole(1))
  BY <1>0, <1>2, <1>3, AtMostOrder
<1> QED
  BY <1>4, <1>5, ShareBetween

\* A sum is zero only if both are.
LEMMA PlusUnsigned ==
  ASSUME NEW x \in Unsigned, NEW y \in Unsigned
  PROVE  Plus(x, y) \in Unsigned /\ (Plus(x, y) = Zero <=> x = Zero /\ y = Zero)
<1>1. x \in Quotients /\ y \in Quotients
  BY DEF Unsigned
<1>2. PICK d \in Positive, n \in Int, m \in Int : x = Frac(n, d) /\ y = Frac(m, d)
  BY <1>1, TwoCommon
<1>3. n >= 0 /\ m >= 0
  BY <1>2, UnsignedFrac
<1>4. PICK k \in Int : k = n + m
  OBVIOUS
<1>5. Plus(x, y) = Frac(k, d)
  BY <1>2, <1>4, PlusSame
<1>6. Frac(k, d) \in Unsigned
  BY <1>3, <1>4, UnsignedFrac
<1>7. Zero = Frac(0, d)
  BY ZeroFrac
<1>8. (Frac(k, d) = Zero <=> k = 0) /\ (x = Zero <=> n = 0) /\ (y = Zero <=> m = 0)
  BY <1>2, <1>7, EqualSame
<1>9. k = 0 <=> n = 0 /\ m = 0
  BY <1>3, <1>4
<1> QED
  BY <1>5, <1>6, <1>8, <1>9

\* A step of Wilder's average is zero only if both are.
LEMMA SmoothUnsigned ==
  ASSUME NEW x \in Unsigned, NEW y \in Unsigned, NEW p \in Positive, p > 1
  PROVE  Smooth(x, y, p) \in Unsigned /\ (Smooth(x, y, p) = Zero <=> x = Zero /\ y = Zero)
<1>1. x \in Quotients /\ y \in Quotients
  BY DEF Unsigned
<1>2. PICK d \in Positive, n \in Int, m \in Int : x = Frac(n, d) /\ y = Frac(m, d)
  BY <1>1, TwoCommon
<1>3. n >= 0 /\ m >= 0
  BY <1>2, UnsignedFrac
<1>4. p \in Int /\ p - 1 > 0
  BY DEF Positive
<1>5. PICK k \in Int : k = (p - 1) * n + m
  BY <1>4
<1>6. PICK e \in Positive : e = d * p
  BY PositiveProduct
<1>7. Smooth(x, y, p) = Frac(k, e)
  BY <1>2, <1>5, <1>6, SmoothFrac
<1>8. (p - 1) * n >= 0 /\ ((p - 1) * n = 0 <=> n = 0)
  BY <1>3, <1>4
<1>9. k >= 0 /\ (k = 0 <=> n = 0 /\ m = 0)
  <2> DEFINE w == (p - 1) * n
  <2>1. w \in Int /\ k = w + m /\ w >= 0 /\ (w = 0 <=> n = 0)
    BY <1>4, <1>5, <1>8
  <2> HIDE DEF w
  <2> QED
    BY <1>3, <2>1
<1>10. Frac(k, e) \in Unsigned
  BY <1>9, UnsignedFrac
<1>11. Zero = Frac(0, d) /\ Zero = Frac(0, e)
  BY ZeroFrac
<1>12. (Frac(k, e) = Zero <=> k = 0) /\ (x = Zero <=> n = 0) /\ (y = Zero <=> m = 0)
  BY <1>2, <1>11, EqualSame
<1> QED
  BY <1>7, <1>9, <1>10, <1>12

\* So is a share of it.
LEMMA OverWholeUnsigned ==
  ASSUME NEW x \in Unsigned, NEW p \in Positive
  PROVE  Over(x, Whole(p)) \in Unsigned /\ (Over(x, Whole(p)) = Zero <=> x = Zero)
<1>1. PICK n \in Int, d \in Positive : x = Frac(n, d)
  BY DEF Quotients, Unsigned
<1>2. PICK e \in Positive : e = d * p
  BY PositiveProduct
<1>3. Over(x, Whole(p)) = Frac(n, e)
  BY <1>1, <1>2, OverWhole
<1>4. Zero = Frac(0, d) /\ Zero = Frac(0, e)
  BY ZeroFrac
<1> QED
  BY <1>1, <1>3, <1>4, EqualSame, UnsignedFrac

\* Nothing in a sequence.
AllZero(xs) == \A i \in 1 .. Len(xs) : xs[i] = Zero

\* A total of values that are not negative is zero only if all are.
LEMMA TotalUnsigned ==
  ASSUME NEW xs \in Seq(Unsigned)
  PROVE  Total(xs) \in Unsigned /\ (Total(xs) = Zero <=> AllZero(xs))
<1> DEFINE n == Len(xs)
<1>1. n \in Nat /\ \A i \in 1 .. n : xs[i] \in Unsigned
  OBVIOUS
<1>2. xs \in Seq(Quotients)
  BY DEF Unsigned
<1>3. PICK t : Sums(t, xs) /\ Total(xs) = t[n]
  BY <1>2, TotalTurns
<1> DEFINE Good(k) == t[k] \in Unsigned /\ (t[k] = Zero <=> \A i \in 1 .. k : xs[i] = Zero)
           G == {k \in 0 .. n : Good(k)}
<1>4. ASSUME NEW k \in 0 .. n - 1, k \in G PROVE k + 1 \in G
  <2>1. k + 1 \in 1 .. n /\ (k + 1) - 1 = k /\ k + 1 \in 0 .. n /\ k \in Nat
    BY <1>1
  <2>2. t[k + 1] = Plus(t[k], xs[k + 1])
    BY <1>3, <2>1 DEF Sums
  <2>3. t[k] \in Unsigned /\ (t[k] = Zero <=> \A i \in 1 .. k : xs[i] = Zero)
    BY <1>4
  <2>4. xs[k + 1] \in Unsigned
    BY <1>1, <2>1
  <2>5. t[k + 1] \in Unsigned /\ (t[k + 1] = Zero <=> t[k] = Zero /\ xs[k + 1] = Zero)
    BY <2>2, <2>3, <2>4, PlusUnsigned
  <2>6. (\A i \in 1 .. k + 1 : xs[i] = Zero)
          <=> (\A i \in 1 .. k : xs[i] = Zero) /\ xs[k + 1] = Zero
    BY <2>1
  <2> QED
    BY <2>1, <2>3, <2>5, <2>6
<1>5. 0 .. n \subseteq G
  <2>1. 0 \in G
    <3>1. t[0] = Zero /\ 0 \in 0 .. n
      BY <1>1, <1>3 DEF Sums
    <3>2. Zero \in Quotients
      BY WholeType
    <3>3. Zero.num = 0
      BY <3>2, ZeroIs
    <3> QED
      BY <3>1, <3>2, <3>3 DEF Unsigned
  <2> HIDE DEF G, n
  <2> QED
    BY <1>1, <1>4, <2>1, Turns
<1>6. n \in 0 .. n
  BY <1>1
<1>7. Good(n)
  BY <1>5, <1>6
<1> QED
  BY <1>3, <1>7 DEF AllZero

\* So is Wilder's average from a start on.
LEMMA SmoothOverUnsigned ==
  ASSUME NEW xs \in Seq(Unsigned), NEW b \in Unsigned, NEW p \in Positive, p > 1
  PROVE  /\ SmoothOver(b, xs, p) \in Unsigned
         /\ SmoothOver(b, xs, p) = Zero <=> b = Zero /\ AllZero(xs)
<1> DEFINE n == Len(xs)
<1>1. n \in Nat /\ \A i \in 1 .. n : xs[i] \in Unsigned
  OBVIOUS
<1>2. xs \in Seq(Quotients) /\ b \in Quotients
  BY DEF Unsigned
<1>3. PICK t : Smoothings(t, b, xs, p) /\ SmoothOver(b, xs, p) = t[n]
  BY <1>2, SmoothTurns
<1> DEFINE Good(k) == /\ t[k] \in Unsigned
                      /\ t[k] = Zero <=> b = Zero /\ \A i \in 1 .. k : xs[i] = Zero
           G == {k \in 0 .. n : Good(k)}
<1>4. ASSUME NEW k \in 0 .. n - 1, k \in G PROVE k + 1 \in G
  <2>1. k + 1 \in 1 .. n /\ (k + 1) - 1 = k /\ k + 1 \in 0 .. n /\ k \in Nat
    BY <1>1
  <2>2. t[k + 1] = Smooth(t[k], xs[k + 1], p)
    BY <1>3, <2>1 DEF Smoothings
  <2>3. /\ t[k] \in Unsigned
        /\ t[k] = Zero <=> b = Zero /\ \A i \in 1 .. k : xs[i] = Zero
    BY <1>4
  <2>4. xs[k + 1] \in Unsigned
    BY <1>1, <2>1
  <2>5. t[k + 1] \in Unsigned /\ (t[k + 1] = Zero <=> t[k] = Zero /\ xs[k + 1] = Zero)
    <3> DEFINE x == t[k]
               y == xs[k + 1]
    <3>1. x \in Unsigned /\ y \in Unsigned
      BY <2>3, <2>4
    <3> HIDE DEF x, y
    <3>2. Smooth(x, y, p) \in Unsigned /\ (Smooth(x, y, p) = Zero <=> x = Zero /\ y = Zero)
      BY <3>1, SmoothUnsigned
    <3> QED
      BY <2>2, <3>2 DEF x, y
  <2>6. (\A i \in 1 .. k + 1 : xs[i] = Zero)
          <=> (\A i \in 1 .. k : xs[i] = Zero) /\ xs[k + 1] = Zero
    BY <2>1
  <2> QED
    BY <2>1, <2>3, <2>5, <2>6
<1>5. 0 .. n \subseteq G
  <2>1. 0 \in G
    BY <1>1, <1>3 DEF Smoothings
  <2> HIDE DEF G, n
  <2> QED
    BY <1>1, <1>4, <2>1, Turns
<1>6. n \in 0 .. n
  BY <1>1
<1>7. Good(n)
  BY <1>5, <1>6
<1> QED
  BY <1>3, <1>7 DEF AllZero

\* Wilder's average of values that are not negative is zero only if all are.
LEMMA WilderUnsigned ==
  ASSUME NEW xs \in Seq(Unsigned), NEW p \in Positive, p > 1, p <= Len(xs)
  PROVE  Wilder(xs, p) \in Unsigned /\ (Wilder(xs, p) = Zero <=> AllZero(xs))
<1> DEFINE as == SubSeq(xs, 1, p)
           bs == SubSeq(xs, p + 1, Len(xs))
<1>1. p \in Nat /\ p > 0
  BY DEF Positive
<1>2. /\ as \in Seq(Unsigned) /\ Len(as) = p
      /\ \A i \in 1 .. p : as[i] = xs[i]
  BY <1>1
<1>3. /\ bs \in Seq(Unsigned) /\ Len(bs) = Len(xs) - p
      /\ \A i \in 1 .. Len(xs) - p : bs[i] = xs[p + i]
  BY <1>1
<1> HIDE DEF as, bs
<1>4. AllZero(xs) <=> AllZero(as) /\ AllZero(bs)
  <2>1. ASSUME AllZero(xs) PROVE AllZero(as) /\ AllZero(bs)
    <3>1. \A i \in 1 .. p : i \in 1 .. Len(xs)
      BY <1>1
    <3>2. \A i \in 1 .. Len(xs) - p : p + i \in 1 .. Len(xs)
      BY <1>1
    <3> QED
      BY <1>2, <1>3, <2>1, <3>1, <3>2 DEF AllZero
  <2>2. ASSUME AllZero(as), AllZero(bs), NEW i \in 1 .. Len(xs) PROVE xs[i] = Zero
    <3>1. CASE i <= p
      <4>1. i \in 1 .. p
        BY <1>1, <3>1
      <4> QED
        BY <1>2, <2>2, <4>1 DEF AllZero
    <3>2. CASE i > p
      <4>1. PICK j \in 1 .. Len(xs) - p : i = p + j
        <5>1. i - p \in 1 .. Len(xs) - p /\ i = p + (i - p)
          BY <1>1, <3>2
        <5> QED
          BY <5>1
      <4> QED
        BY <1>3, <2>2, <4>1 DEF AllZero
    <3> QED
      BY <1>1, <3>1, <3>2
  <2> QED
    BY <2>1, <2>2 DEF AllZero
<1>5. Mean(as) \in Unsigned /\ (Mean(as) = Zero <=> AllZero(as))
  <2>1. Total(as) \in Unsigned /\ (Total(as) = Zero <=> AllZero(as))
    BY <1>2, TotalUnsigned
  <2>2. Mean(as) = Over(Total(as), Whole(p))
    BY <1>2 DEF Mean
  <2> QED
    BY <2>1, <2>2, OverWholeUnsigned
<1>6. /\ SmoothOver(Mean(as), bs, p) \in Unsigned
      /\ SmoothOver(Mean(as), bs, p) = Zero <=> Mean(as) = Zero /\ AllZero(bs)
  BY <1>3, <1>5, SmoothOverUnsigned
<1>7. Wilder(xs, p) = SmoothOver(Mean(as), bs, p)
  BY WilderFolds DEF as, bs
<1> QED
  BY <1>4, <1>5, <1>6, <1>7

\* A function of the first indices is a sequence.
Listed(g, n, V) == DOMAIN g = 1 .. n /\ g = [i \in 1 .. n |-> g[i]] /\ \A i \in 1 .. n : g[i] \in V

\* Such a table is a sequence of that length.
LEMMA ListedSeq ==
  ASSUME NEW n \in Nat, NEW V, NEW g, Listed(g, n, V)
  PROVE  g \in Seq(V) /\ Len(g) = n
<1>1. g \in [1 .. n -> V]
  BY DEF Listed
<1> QED
  BY <1>1

-----------------------------------------------------------------------------
(* RSI                                                                     *)

\* What rsi averages.
Gains(xs) == [i \in 1 .. Len(xs) - 1 |-> Up(Move(xs, i))]
Drops(xs) == [i \in 1 .. Len(xs) - 1 |-> Up(Neg(Move(xs, i)))]

\* RSI from the two averages.
RsiOf(gain, loss) ==
  IF loss = Zero THEN Whole(1)
  ELSE Less(Whole(1), Over(Whole(1), Plus(Whole(1), Over(gain, loss))))

\* Rsi is made of the averages of gains and losses.
LEMMA RsiIs ==
  ASSUME NEW xs, NEW p
  PROVE  Rsi(xs, p) = IF Len(xs) < p + 1 THEN Missing
                      ELSE RsiOf(Wilder(Gains(xs), p), Wilder(Drops(xs), p))
BY DEF Rsi, RsiOf, Gains, Drops

\* It is the gain's part of the two.
LEMMA RsiFrac ==
  ASSUME NEW n \in Nat, NEW m \in Nat, NEW d \in Positive
  PROVE  RsiOf(Frac(n, d), Frac(m, d)) = IF m = 0 THEN Whole(1) ELSE Frac(n, n + m)
<1>1. Zero = Frac(0, d)
  BY ZeroFrac
<1>2. Frac(m, d) = Zero <=> m = 0
  BY <1>1, EqualSame
<1>3. CASE m = 0
  BY <1>2, <1>3 DEF RsiOf
<1>4. CASE m # 0
  <2>1. m \in Positive
    BY <1>4 DEF Positive
  <2>2. Over(Frac(n, d), Frac(m, d)) = Frac(n, m)
    BY <2>1, OverSame
  <2>3. Whole(1) = Frac(m, m)
    <3>1. Whole(1) = Frac(1 * m, m)
      BY <2>1, WholeFrac
    <3> QED
      BY <3>1
  <2>4. PICK k \in Positive : k = n + m
    <3>1. n + m \in Positive
      BY <1>4 DEF Positive
    <3> QED
      BY <3>1
  <2>5. k \in Int /\ m + n = k /\ k - m = n
    BY <2>4
  <2>6. Plus(Whole(1), Frac(n, m)) = Frac(k, m)
    BY <2>1, <2>3, <2>5, PlusSame
  <2>7. Over(Whole(1), Frac(k, m)) = Frac(m, k)
    BY <2>1, <2>3, OverSame
  <2>8. Whole(1) = Frac(k, k)
    <3>1. Whole(1) = Frac(1 * k, k)
      BY <2>5, WholeFrac
    <3>2. 1 * k = k
      BY <2>5
    <3> QED
      BY <3>1, <3>2
  <2>9. Less(Frac(k, k), Frac(m, k)) = Frac(n, k)
    BY <2>5, LessSame
  <2> QED
    BY <1>2, <1>4, <2>2, <2>4, <2>6, <2>7, <2>8, <2>9 DEF RsiOf
<1> QED
  BY <1>3, <1>4

\* What there is of it: a share, all of it only without a loss, and with gains and losses
\* exchanged what is left.
RsiFacts(g, l) ==
  /\ IsShare(RsiOf(g, l)) /\ RsiOf(g, l) # Missing /\ RsiOf(g, l) \in Quotients
  /\ RsiOf(g, l) = Whole(1) <=> l = Zero
  /\ RsiOf(l, g) = IF g = Zero /\ l = Zero THEN RsiOf(g, l) ELSE Less(Whole(1), RsiOf(g, l))

\* A fraction is not a missing value.
LEMMA NotMissing == ASSUME NEW x \in Quotients PROVE x # Missing
<1>1. x.den > 0
  BY QuotientParts DEF Positive
<1> QED
  BY <1>1 DEF Missing

\* These are the facts for any averages that are not negative.
LEMMA RsiShare ==
  ASSUME NEW g \in Unsigned, NEW l \in Unsigned
  PROVE  RsiFacts(g, l)
<1>1. PICK d \in Positive, n \in Int, m \in Int : g = Frac(n, d) /\ l = Frac(m, d)
  BY TwoCommon DEF Unsigned
<1>2. n >= 0 /\ m >= 0
  BY <1>1, UnsignedFrac
<1>3. n \in Nat /\ m \in Nat
  BY <1>2
<1>4. Zero = Frac(0, d)
  BY ZeroFrac
<1>5. (g = Zero <=> n = 0) /\ (l = Zero <=> m = 0)
  BY <1>1, <1>4, EqualSame
<1>6. RsiOf(g, l) = IF m = 0 THEN Whole(1) ELSE Frac(n, n + m)
  BY <1>1, <1>3, RsiFrac
<1>7. RsiOf(l, g) = IF n = 0 THEN Whole(1) ELSE Frac(m, m + n)
  BY <1>1, <1>3, RsiFrac
<1>8. 1 \in Positive /\ Whole(1) = Frac(1, 1)
  BY DEF Positive, Whole
<1>9. IsShare(Whole(1)) /\ Whole(1) \in Quotients
  <2>1. IsShare(Frac(1, 1))
    BY <1>8, ShareFrac
  <2>2. Frac(1, 1) \in Quotients
    BY <1>8, WholeType
  <2> QED
    BY <1>8, <2>1, <2>2
<1>10. CASE n = 0 /\ m = 0
  <2>1. RsiOf(g, l) = Whole(1) /\ RsiOf(l, g) = Whole(1)
    BY <1>6, <1>7, <1>10
  <2> QED
    BY <1>5, <1>9, <1>10, <2>1, NotMissing DEF RsiFacts
<1>11. CASE ~ (n = 0 /\ m = 0)
  <2>1. PICK k \in Positive : k = n + m
    <3>1. n + m \in Positive
      BY <1>3, <1>11 DEF Positive
    <3> QED
      BY <3>1
  <2>2. k \in Int /\ m + n = k /\ k - n = m
    BY <1>3, <2>1
  <2>3. Whole(1) = Frac(k, k)
    <3>1. Whole(1) = Frac(1 * k, k)
      BY <2>2, WholeFrac
    <3>2. 1 * k = k
      BY <2>2
    <3> QED
      BY <3>1, <3>2
  <2>4. RsiOf(g, l) = Frac(n, k)
    <3>1. m = 0 => n = k
      BY <1>3, <2>1
    <3> QED
      BY <1>6, <2>1, <2>3, <3>1
  <2>5. RsiOf(l, g) = Frac(m, k)
    <3>1. n = 0 => m = k
      BY <1>3, <2>1
    <3> QED
      BY <1>7, <2>2, <2>3, <3>1
  <2>6. Less(Whole(1), Frac(n, k)) = Frac(m, k)
    BY <2>2, <2>3, LessSame
  <2>7. IsShare(Frac(n, k)) /\ Frac(n, k) \in Quotients
    <3>1. 0 <= n /\ n <= k
      BY <1>3, <2>1
    <3> QED
      BY <3>1, ShareFrac, FracType
  <2>8. Frac(n, k) = Whole(1) <=> m = 0
    <3>1. Frac(n, k) = Frac(k, k) <=> n = k
      BY <2>2, EqualSame
    <3> QED
      BY <1>3, <2>1, <2>3, <3>1
  <2> QED
    BY <1>5, <1>11, <2>4, <2>5, <2>6, <2>7, <2>8, NotMissing DEF RsiFacts
<1> QED
  BY <1>10, <1>11

\* What a move up, or down, brings.
LEMMA MoveIs ==
  ASSUME NEW xs \in Seq(Quotients), NEW i \in 1 .. Len(xs) - 1
  PROVE  /\ Move(xs, i) \in Quotients
         /\ Up(Move(xs, i)) \in Unsigned /\ Up(Neg(Move(xs, i))) \in Unsigned
         /\ Up(Move(xs, i)) = Zero <=> AtMost(xs[i + 1], xs[i])
         /\ Up(Neg(Move(xs, i))) = Zero <=> AtMost(xs[i], xs[i + 1])
<1>1. xs[i] \in Quotients /\ xs[i + 1] \in Quotients
  OBVIOUS
<1>2. PICK d \in Positive, n \in Int, m \in Int : xs[i] = Frac(n, d) /\ xs[i + 1] = Frac(m, d)
  BY <1>1, TwoCommon
<1>3. PICK k \in Int, j \in Int : k = m - n /\ j = -k
  OBVIOUS
<1>4. Move(xs, i) = Frac(k, d)
  BY <1>2, <1>3, LessSame DEF Move
<1>5. Neg(Move(xs, i)) = Frac(j, d)
  BY <1>3, <1>4, NegFrac
<1>6. Zero = Frac(0, d) /\ Zero \in Quotients /\ Zero \in Unsigned
  BY ZeroFrac, WholeType, UnsignedFrac
<1>7. \A z \in Int : /\ Up(Frac(z, d)) \in Unsigned
                     /\ Up(Frac(z, d)) = Zero <=> z <= 0
  <2> TAKE z \in Int
  <2>1. (Frac(z, d).num > 0 <=> z > 0) /\ (Frac(z, d) = Zero <=> z = 0)
    BY <1>6, FracSign, EqualSame
  <2>2. z >= 0 => Frac(z, d) \in Unsigned
    BY UnsignedFrac
  <2> QED
    BY <1>6, <2>1, <2>2 DEF Up
<1>8. /\ AtMost(xs[i + 1], xs[i]) <=> m <= n
      /\ AtMost(xs[i], xs[i + 1]) <=> n <= m
  BY <1>2, AtMostSame
<1>9. Frac(k, d) \in Quotients
  BY FracType
<1> QED
  BY <1>3, <1>4, <1>5, <1>7, <1>8, <1>9

\* Gains and losses are not negative, and nothing only where no value rises, or falls.
LEMMA GainsType ==
  ASSUME NEW xs \in Seq(Quotients), Len(xs) > 0
  PROVE  /\ Gains(xs) \in Seq(Unsigned) /\ Len(Gains(xs)) = Len(xs) - 1
         /\ Drops(xs) \in Seq(Unsigned) /\ Len(Drops(xs)) = Len(xs) - 1
         /\ AllZero(Gains(xs)) <=> \A i \in 1 .. Len(xs) - 1 : AtMost(xs[i + 1], xs[i])
         /\ AllZero(Drops(xs)) <=> \A i \in 1 .. Len(xs) - 1 : AtMost(xs[i], xs[i + 1])
<1> DEFINE n == Len(xs) - 1
           g == Gains(xs)
           l == Drops(xs)
<1>1. n \in Nat
  OBVIOUS
<1>2. /\ \A i \in 1 .. n : g[i] = Up(Move(xs, i)) /\ l[i] = Up(Neg(Move(xs, i)))
      /\ g = [i \in 1 .. n |-> g[i]] /\ l = [i \in 1 .. n |-> l[i]]
  BY DEF Gains, Drops
<1> HIDE DEF g, l
<1>3. \A i \in 1 .. n : /\ g[i] \in Unsigned /\ l[i] \in Unsigned
                        /\ g[i] = Zero <=> AtMost(xs[i + 1], xs[i])
                        /\ l[i] = Zero <=> AtMost(xs[i], xs[i + 1])
  BY <1>2, MoveIs
<1> HIDE DEF n
<1>4. g \in Seq(Unsigned) /\ Len(g) = n /\ l \in Seq(Unsigned) /\ Len(l) = n
  <2>1. Listed(g, n, Unsigned) /\ Listed(l, n, Unsigned)
    BY <1>2, <1>3 DEF Listed
  <2> QED
    BY <1>1, <2>1, ListedSeq
<1>5. /\ AllZero(g) <=> \A i \in 1 .. n : AtMost(xs[i + 1], xs[i])
      /\ AllZero(l) <=> \A i \in 1 .. n : AtMost(xs[i], xs[i + 1])
  BY <1>3, <1>4 DEF AllZero
<1> QED
  BY <1>4, <1>5 DEF g, l, n

-----------------------------------------------------------------------------
(* Candles                                                                 *)

\* The candles of the runs are of these.
LEMMA CandlesSound == Shapes \subseteq SoundBars
BY ShapesType

\* The numbers of a sound candle.
LEMMA SoundParts ==
  ASSUME NEW c \in SoundBars
  PROVE  /\ c.high \in Int /\ c.low \in Int /\ c.close \in Int /\ c.volume \in Nat
         /\ 0 < c.low /\ c.low <= c.close /\ c.close <= c.high /\ c.high < Top
BY ShapesType DEF SoundBars

-----------------------------------------------------------------------------
(* Ranges                                                                  *)

\* The largest of three numbers is at least the first.
LEMMA LargestOfThree ==
  ASSUME NEW x \in Int, NEW y \in Int, NEW z \in Int
  PROVE  Max({x, y, z}) \in Int /\ Max({x, y, z}) >= x
<1>1. PICK m \in {x, y, z} : \A k \in {x, y, z} : k <= m
  <2>1. CASE x <= y /\ y <= z
    BY <2>1
  <2>2. CASE x <= z /\ z <= y
    BY <2>2
  <2>3. CASE y <= x /\ x <= z
    BY <2>3
  <2>4. CASE y <= x /\ z <= x
    BY <2>4
  <2>5. CASE x <= y /\ z <= y
    BY <2>5
  <2> QED
    BY <2>1, <2>2, <2>3, <2>4, <2>5
<1>2. {x, y, z} \subseteq Int
  OBVIOUS
<1>3. Max({x, y, z}) = m
  BY <1>1, <1>2, MaxIs
<1> QED
  BY <1>1, <1>2, <1>3

\* A true range is a number.
LEMMA TrueRangeType ==
  ASSUME NEW cs \in Seq(SoundBars), NEW i \in 2 .. Len(cs)
  PROVE  TrueRange(cs, i) \in Nat
<1>1. i \in 1 .. Len(cs) /\ i - 1 \in 1 .. Len(cs)
  OBVIOUS
<1>2. cs[i] \in SoundBars /\ cs[i - 1] \in SoundBars
  BY <1>1
<1> DEFINE x == cs[i].high - cs[i].low
           y == Abs(cs[i].high - cs[i - 1].close)
           z == Abs(cs[i].low - cs[i - 1].close)
<1>3. x \in Int /\ y \in Int /\ z \in Int /\ x >= 0
  <2>1. /\ cs[i].high \in Int /\ cs[i].low \in Int /\ cs[i].low <= cs[i].high
        /\ cs[i - 1].close \in Int
    <3>1. cs[i].low <= cs[i].close /\ cs[i].close <= cs[i].high /\ cs[i].close \in Int
      BY <1>2, SoundParts
    <3>2. cs[i].high \in Int /\ cs[i].low \in Int
      BY <1>2, SoundParts
    <3>3. cs[i - 1].close \in Int
      BY <1>2, SoundParts
    <3> QED
      BY <3>1, <3>2, <3>3
  <2> DEFINE u == cs[i].high - cs[i - 1].close
             v == cs[i].low - cs[i - 1].close
  <2>2. u \in Int /\ v \in Int
    BY <2>1
  <2> HIDE DEF u, v
  <2>3. Abs(u) \in Int /\ Abs(v) \in Int
    BY <2>2 DEF Abs
  <2>4. y = Abs(u) /\ z = Abs(v)
    BY DEF u, v
  <2>5. x \in Int /\ x >= 0
    BY <2>1
  <2> HIDE DEF y, z
  <2> QED
    BY <2>3, <2>4, <2>5
<1>4. TrueRange(cs, i) = Max({x, y, z})
  BY DEF TrueRange
<1> HIDE DEF x, y, z
<1>5. Max({x, y, z}) \in Int /\ Max({x, y, z}) >= x
  BY <1>3, LargestOfThree
<1> QED
  BY <1>3, <1>4, <1>5

\* A number as a fraction is not negative.
LEMMA WholeUnsigned == ASSUME NEW n \in Nat PROVE Whole(n) \in Unsigned
BY UnsignedFrac DEF Whole, Positive

\* There is one true range less than there are candles.
LEMMA TrueRangesType ==
  ASSUME NEW cs \in Seq(SoundBars), Len(cs) > 0
  PROVE  TrueRanges(cs) \in Seq(Unsigned) /\ Len(TrueRanges(cs)) = Len(cs) - 1
<1> DEFINE n == Len(cs) - 1
           t == TrueRanges(cs)
<1>1. n \in Nat
  OBVIOUS
<1>2. ASSUME NEW i \in 1 .. n PROVE Whole(TrueRange(cs, i + 1)) \in Unsigned
  <2>1. i + 1 \in 2 .. Len(cs)
    OBVIOUS
  <2> QED
    BY <2>1, TrueRangeType, WholeUnsigned
<1>3. t = [i \in 1 .. n |-> Whole(TrueRange(cs, i + 1))]
  BY DEF TrueRanges
<1> HIDE DEF n, t
<1>4. Listed(t, n, Unsigned)
  BY <1>2, <1>3 DEF Listed
<1> QED
  BY <1>1, <1>4, ListedSeq DEF n, t

\* Movements up and down.
PlusMoves(cs) == [i \in 1 .. Len(cs) - 1 |-> Whole(Moves(cs, i + 1).plus)]
MinusMoves(cs) == [i \in 1 .. Len(cs) - 1 |-> Whole(Moves(cs, i + 1).minus)]

\* Movements are numbers.
LEMMA MovesType ==
  ASSUME NEW cs \in Seq(SoundBars), NEW i \in 2 .. Len(cs)
  PROVE  Moves(cs, i).plus \in Nat /\ Moves(cs, i).minus \in Nat
<1>1. i \in 1 .. Len(cs) /\ i - 1 \in 1 .. Len(cs)
  OBVIOUS
<1>2. cs[i] \in SoundBars /\ cs[i - 1] \in SoundBars
  BY <1>1
<1> DEFINE up == cs[i].high - cs[i - 1].high
           down == cs[i - 1].low - cs[i].low
<1>3. up \in Int /\ down \in Int
  BY <1>2, SoundParts
<1>4. Moves(cs, i) = [plus |-> IF up > down /\ up > 0 THEN up ELSE 0,
                      minus |-> IF down > up /\ down > 0 THEN down ELSE 0]
  BY DEF Moves
<1> HIDE DEF up, down
<1> QED
  BY <1>3, <1>4

\* There is one movement less than there are candles.
LEMMA MovesSeq ==
  ASSUME NEW cs \in Seq(SoundBars), Len(cs) > 0
  PROVE  /\ PlusMoves(cs) \in Seq(Unsigned) /\ Len(PlusMoves(cs)) = Len(cs) - 1
         /\ MinusMoves(cs) \in Seq(Unsigned) /\ Len(MinusMoves(cs)) = Len(cs) - 1
<1> DEFINE n == Len(cs) - 1
           p == PlusMoves(cs)
           m == MinusMoves(cs)
<1>1. n \in Nat
  OBVIOUS
<1>2. ASSUME NEW i \in 1 .. n
      PROVE  Whole(Moves(cs, i + 1).plus) \in Unsigned /\ Whole(Moves(cs, i + 1).minus) \in Unsigned
  <2>1. i + 1 \in 2 .. Len(cs)
    OBVIOUS
  <2> QED
    BY <2>1, MovesType, WholeUnsigned
<1>3. /\ p = [i \in 1 .. n |-> Whole(Moves(cs, i + 1).plus)]
      /\ m = [i \in 1 .. n |-> Whole(Moves(cs, i + 1).minus)]
  BY DEF PlusMoves, MinusMoves
<1> HIDE DEF n, p, m
<1>4. Listed(p, n, Unsigned) /\ Listed(m, n, Unsigned)
  BY <1>2, <1>3 DEF Listed
<1> QED
  BY <1>1, <1>4, ListedSeq DEF n, p, m

-----------------------------------------------------------------------------
(* Sums over windows                                                       *)

\* The sum over the next window.
Slide(x, y, p) == Plus(Less(x, Over(x, Whole(p))), y)

\* A sum that slides does not turn negative.
LEMMA SlideUnsigned ==
  ASSUME NEW x \in Unsigned, NEW y \in Unsigned, NEW p \in Positive
  PROVE  Slide(x, y, p) \in Unsigned
<1>1. PICK n \in Int, d \in Positive : x = Frac(n, d)
  BY DEF Unsigned, Quotients
<1>2. n >= 0 /\ p \in Int /\ p > 0 /\ d \in Int
  BY <1>1, UnsignedFrac DEF Positive
<1>3. Over(x, Whole(p)) = Frac(n, d * p) /\ d * p \in Positive
  BY <1>1, OverWhole, PositiveProduct
<1>4. x = Frac(p * n, d * p)
  <2>1. Frac(p * n, p * d) = x
    BY <1>1, FracScaled
  <2>2. p * d = d * p
    BY <1>2
  <2> QED
    BY <2>1, <2>2
<1>5. p * n \in Int /\ p * n - n \in Int /\ p * n - n >= 0
  <2>1. p * n - n = (p - 1) * n /\ p - 1 >= 0
    BY <1>2
  <2>2. (p - 1) * n >= 0
    BY <1>2, <2>1
  <2> QED
    BY <1>2, <2>1, <2>2
<1>6. Less(x, Over(x, Whole(p))) = Frac(p * n - n, d * p)
  BY <1>3, <1>4, <1>5, LessSame
<1>7. Frac(p * n - n, d * p) \in Unsigned
  BY <1>3, <1>5, UnsignedFrac
<1>8. Less(x, Over(x, Whole(p))) \in Unsigned
  BY <1>6, <1>7
<1> QED
  BY <1>8, PlusUnsigned DEF Slide

\* The windows are as many as fit, and their sums are not negative.
LEMMA WilderSumsType ==
  ASSUME NEW xs \in Seq(Unsigned), NEW p \in Positive, p <= Len(xs)
  PROVE  /\ DOMAIN WilderSums(xs, p) = 1 .. Len(xs) - p + 1
         /\ \A i \in 1 .. Len(xs) - p + 1 : WilderSums(xs, p)[i] \in Unsigned
<1> DEFINE n == Len(xs) - p
           b == Total(SubSeq(xs, 1, p))
           Solves(t) == t = [i \in 0 .. n |-> IF i = 0 THEN b ELSE Slide(t[i - 1], xs[p + i], p)]
           step == [q \in (1 .. n) \X Unsigned |-> Slide(q[2], xs[p + q[1]], p)]
<1>1. n \in Nat /\ p \in Nat
  BY DEF Positive
<1>2. \A i \in 1 .. n : xs[p + i] \in Unsigned
  <2> TAKE i \in 1 .. n
  <2>1. p + i \in 1 .. Len(xs)
    BY <1>1
  <2> QED
    BY <2>1
<1>3. b \in Unsigned
  <2>1. SubSeq(xs, 1, p) \in Seq(Unsigned)
    BY <1>1
  <2> QED
    BY <2>1, TotalUnsigned
<1>4. WilderSums(xs, p) = [i \in 1 .. n + 1 |-> (CHOOSE t : Solves(t))[i - 1]]
  BY DEF WilderSums, Slide
<1> HIDE DEF n, b
<1>5. step \in [(1 .. n) \X Unsigned -> Unsigned]
  BY <1>2, SlideUnsigned
<1>6. \A i \in 1 .. n, x \in Unsigned : step[<<i, x>>] = Slide(x, xs[p + i], p)
  OBVIOUS
<1> HIDE DEF step
<1>7. PICK f \in [0 .. n -> Unsigned] : Steps(f, n, b, step)
  BY <1>1, <1>3, <1>5, StepsExist
<1>8. Solves(f)
  <2>1. \A i \in 0 .. n : f[i] = IF i = 0 THEN b ELSE Slide(f[i - 1], xs[p + i], p)
    <3> TAKE i \in 0 .. n
    <3>1. CASE i = 0
      BY <1>7, <3>1 DEF Steps
    <3>2. CASE i # 0
      <4>1. i \in 1 .. n /\ f[i - 1] \in Unsigned
        BY <1>1, <1>7, <3>2
      <4> QED
        BY <1>6, <1>7, <3>2, <4>1 DEF Steps
    <3> QED
      BY <3>1, <3>2
  <2>2. f = [i \in 0 .. n |-> f[i]]
    OBVIOUS
  <2> QED
    BY <2>1, <2>2
<1> DEFINE t == CHOOSE t : Solves(t)
<1>9. Solves(t)
  <2> HIDE DEF Solves
  <2> QED
    BY <1>8
<1>10. \A i \in 0 .. n : t[i] = IF i = 0 THEN b ELSE Slide(t[i - 1], xs[p + i], p)
  <2> HIDE DEF t
  <2> QED
    BY <1>9
<1>11. WilderSums(xs, p) = [i \in 1 .. n + 1 |-> t[i - 1]]
  BY <1>4
<1> HIDE DEF t, Solves
<1> DEFINE G == {k \in 0 .. n : t[k] \in Unsigned}
<1>12. 0 .. n \subseteq G
  <2>1. 0 \in G
    BY <1>1, <1>3, <1>10
  <2>2. ASSUME NEW k \in 0 .. n - 1, k \in G PROVE k + 1 \in G
    <3>1. k + 1 \in 1 .. n /\ k + 1 \in 0 .. n /\ k + 1 # 0 /\ (k + 1) - 1 = k /\ t[k] \in Unsigned
      BY <1>1, <2>2
    <3>2. t[k + 1] = Slide(t[k], xs[p + (k + 1)], p)
      BY <1>10, <3>1
    <3>3. t[k + 1] \in Unsigned
      BY <1>2, <3>1, <3>2, SlideUnsigned
    <3> QED
      BY <3>1, <3>3
  <2> HIDE DEF G
  <2> QED
    BY <1>1, <2>1, <2>2, Turns
<1>13. \A i \in 1 .. n + 1 : WilderSums(xs, p)[i] \in Unsigned
  <2> TAKE i \in 1 .. n + 1
  <2>1. i - 1 \in 0 .. n
    BY <1>1
  <2>2. t[i - 1] \in Unsigned
    BY <1>12, <2>1
  <2> QED
    BY <1>11, <2>2
<1>14. DOMAIN WilderSums(xs, p) = 1 .. n + 1
  BY <1>11
<1> QED
  BY <1>13, <1>14 DEF n

-----------------------------------------------------------------------------
(* Directional indices                                                     *)

\* The directional index of a window, of its movements and its range.
IndexOf(a, b, r) ==
  LET pdi == Over(a, r)
      mdi == Over(b, r)
      gap == Less(pdi, mdi)
  IN Over(IF gap.num < 0 THEN Neg(gap) ELSE gap, Plus(pdi, mdi))

\* Fractions that are shares.
Shares == {x \in Quotients : IsShare(x)}

\* It is what the movements differ by, of what they are together.
LEMMA IndexFrac ==
  ASSUME NEW n \in Nat, NEW m \in Nat, NEW k \in Positive, NEW d \in Positive, n + m > 0
  PROVE  IndexOf(Frac(n, d), Frac(m, d), Frac(k, d)) = Frac(Abs(n - m), n + m)
<1>1. Over(Frac(n, d), Frac(k, d)) = Frac(n, k) /\ Over(Frac(m, d), Frac(k, d)) = Frac(m, k)
  BY OverSame
<1>2. PICK j \in Int : j = n - m
  OBVIOUS
<1>3. PICK s \in Int : s = n + m
  OBVIOUS
<1>4. s \in Positive
  BY <1>3 DEF Positive
<1>5. Less(Frac(n, k), Frac(m, k)) = Frac(j, k)
  BY <1>2, LessSame
<1>6. Plus(Frac(n, k), Frac(m, k)) = Frac(s, k)
  BY <1>3, PlusSame
<1>7. Neg(Frac(j, k)) = Frac(-j, k) /\ (Frac(j, k).num < 0 <=> j < 0)
  BY NegFrac, FracSign
<1>8. PICK a \in Int : a = Abs(j) /\ a = (IF j < 0 THEN -j ELSE j)
  BY DEF Abs
<1>9. (IF Frac(j, k).num < 0 THEN Neg(Frac(j, k)) ELSE Frac(j, k)) = Frac(a, k)
  BY <1>7, <1>8
<1>10. Over(Frac(a, k), Frac(s, k)) = Frac(a, s)
  BY <1>4, OverSame
<1>11. IndexOf(Frac(n, d), Frac(m, d), Frac(k, d)) = Over(Frac(a, k), Frac(s, k))
  BY <1>1, <1>5, <1>6, <1>9 DEF IndexOf
<1> QED
  BY <1>2, <1>3, <1>8, <1>10, <1>11

\* It is a share, whichever movement comes first.
LEMMA IndexShare ==
  ASSUME NEW a \in Unsigned, NEW b \in Unsigned, NEW r \in Unsigned, r # Zero,
         Plus(a, b) # Zero
  PROVE  IndexOf(a, b, r) \in Shares /\ IndexOf(b, a, r) = IndexOf(a, b, r)
         /\ Plus(b, a) # Zero
<1>1. PICK d \in Positive, n \in Int, m \in Int, k \in Int :
        a = Frac(n, d) /\ b = Frac(m, d) /\ r = Frac(k, d)
  BY ThreeCommon DEF Unsigned
<1>2. n >= 0 /\ m >= 0 /\ k >= 0
  BY <1>1, UnsignedFrac
<1>3. Zero = Frac(0, d)
  BY ZeroFrac
<1>4. k # 0
  BY <1>1, <1>3
<1>5. a # Zero \/ b # Zero
  BY PlusUnsigned
<1>6. n # 0 \/ m # 0
  BY <1>1, <1>3, <1>5
<1>7. n \in Nat /\ m \in Nat /\ k \in Positive /\ n + m > 0 /\ m + n > 0
  BY <1>2, <1>4, <1>6 DEF Positive
<1>8. PICK s \in Positive : s = n + m /\ s = m + n
  <2>1. n + m \in Positive /\ n + m = m + n
    BY <1>7 DEF Positive
  <2> QED
    BY <2>1
<1>9. PICK j \in Nat : j = Abs(n - m) /\ j = Abs(m - n) /\ j <= s
  <2>1. Abs(n - m) \in Nat /\ Abs(n - m) = Abs(m - n) /\ Abs(n - m) <= n + m
    BY <1>7 DEF Abs
  <2> QED
    BY <1>8, <2>1
<1>10. IndexOf(a, b, r) = Frac(Abs(n - m), n + m) /\ IndexOf(b, a, r) = Frac(Abs(m - n), m + n)
  BY <1>1, <1>7, IndexFrac
<1>11. Frac(j, s) \in Quotients
  BY FracType
<1>12. IsShare(Frac(j, s))
  BY <1>9, ShareFrac
<1> QED
  BY <1>5, <1>8, <1>9, <1>10, <1>11, <1>12, PlusUnsigned DEF Shares

\* The windows that count, and their indices in order.
Counting(range, plus, minus) ==
  {i \in DOMAIN range : range[i] # Zero /\ Plus(plus[i], minus[i]) # Zero}
Indexed(range, plus, minus) ==
  LET some == InOrder(Counting(range, plus, minus))
  IN [k \in DOMAIN some |-> IndexOf(plus[some[k]], minus[some[k]], range[some[k]])]

\* DirectionalIndices are these, of the windows of ranges and movements.
LEMMA DirectionalIs ==
  ASSUME NEW cs, NEW p
  PROVE  DirectionalIndices(cs, p)
           = Indexed(WilderSums(TrueRanges(cs), p), WilderSums(PlusMoves(cs), p),
                     WilderSums(MinusMoves(cs), p))
<1> DEFINE moves == [i \in 1 .. Len(cs) - 1 |-> Moves(cs, i + 1)]
<1>1. /\ [i \in DOMAIN moves |-> Whole(moves[i].plus)] = PlusMoves(cs)
      /\ [i \in DOMAIN moves |-> Whole(moves[i].minus)] = MinusMoves(cs)
  BY DEF PlusMoves, MinusMoves
<1>2. DirectionalIndices(cs, p)
        = Indexed(WilderSums(TrueRanges(cs), p),
                  WilderSums([i \in DOMAIN moves |-> Whole(moves[i].plus)], p),
                  WilderSums([i \in DOMAIN moves |-> Whole(moves[i].minus)], p))
  BY DEF DirectionalIndices, Indexed, Counting, IndexOf
<1> HIDE DEF moves
<1> QED
  BY <1>1, <1>2

\* A table of n unsigned values.
Sized(f, n) == DOMAIN f = 1 .. n /\ \A i \in 1 .. n : f[i] \in Unsigned

\* The indices are shares, and the same with the movements exchanged.
LEMMA IndexedShares ==
  ASSUME NEW n \in Nat, NEW r, NEW a, NEW b, Sized(r, n), Sized(a, n), Sized(b, n)
  PROVE  Indexed(r, a, b) \in Seq(Shares) /\ Indexed(r, b, a) = Indexed(r, a, b)
<1> DEFINE U == Counting(r, a, b)
           some == InOrder(U)
           c == Cardinality(U)
<1>1. \A i \in 1 .. n : r[i] \in Unsigned /\ a[i] \in Unsigned /\ b[i] \in Unsigned
  BY DEF Sized
<1>2. DOMAIN r = 1 .. n
  BY DEF Sized
<1>3. U \in SUBSET (1 .. n) /\ \A i \in U : r[i] # Zero /\ Plus(a[i], b[i]) # Zero
  BY <1>2 DEF Counting
<1>4. \A i \in U : IndexOf(a[i], b[i], r[i]) \in Shares
                   /\ IndexOf(b[i], a[i], r[i]) = IndexOf(a[i], b[i], r[i])
  BY <1>1, <1>3, IndexShare
<1>5. Counting(r, b, a) = U
  <2>1. \A i \in 1 .. n : Plus(b[i], a[i]) # Zero <=> Plus(a[i], b[i]) # Zero
    BY <1>1, PlusUnsigned
  <2> QED
    BY <1>2, <2>1 DEF Counting
<1> HIDE DEF U
<1>6. c \in Nat
  BY <1>3, IndicesFinite
<1>7. DOMAIN some = 1 .. c /\ \A k \in 1 .. c : some[k] \in U
  BY <1>3, NthExists DEF InOrder
<1>8. /\ Indexed(r, a, b) = [k \in 1 .. c |-> IndexOf(a[some[k]], b[some[k]], r[some[k]])]
      /\ Indexed(r, b, a) = [k \in 1 .. c |-> IndexOf(b[some[k]], a[some[k]], r[some[k]])]
  BY <1>5, <1>7 DEF Indexed, U
<1> HIDE DEF some, c
<1>9. Listed(Indexed(r, a, b), c, Shares)
  BY <1>4, <1>7, <1>8 DEF Listed
<1>10. Indexed(r, b, a) = Indexed(r, a, b)
  BY <1>4, <1>7, <1>8
<1> QED
  BY <1>6, <1>9, <1>10, ListedSeq

\* The windows of a series of candles.
LEMMA WindowsSized ==
  ASSUME NEW cs \in Seq(SoundBars), NEW p \in Positive, Len(cs) > p
  PROVE  /\ Sized(WilderSums(TrueRanges(cs), p), Len(cs) - p)
         /\ Sized(WilderSums(PlusMoves(cs), p), Len(cs) - p)
         /\ Sized(WilderSums(MinusMoves(cs), p), Len(cs) - p)
<1>1. p \in Nat /\ p > 0 /\ Len(cs) \in Nat /\ Len(cs) > 0 /\ p <= Len(cs) - 1
  BY DEF Positive
<1>2. (Len(cs) - 1) - p + 1 = Len(cs) - p
  BY <1>1
<1>3. ASSUME NEW xs \in Seq(Unsigned), Len(xs) = Len(cs) - 1
      PROVE  Sized(WilderSums(xs, p), Len(cs) - p)
  <2>1. p <= Len(xs) /\ Len(xs) - p + 1 = Len(cs) - p
    BY <1>1, <1>2, <1>3
  <2> QED
    BY <2>1, WilderSumsType DEF Sized
<1> QED
  BY <1>1, <1>3, TrueRangesType, MovesSeq

\* ADX is a share.
THEOREM AdxShare ==
  ASSUME NEW cs \in Seq(SoundBars), NEW p \in Positive
  PROVE  Adx(cs, p) = Missing \/ Adx(cs, p) \in Shares
<1> DEFINE dxs == DirectionalIndices(cs, p)
<1>1. Adx(cs, p) = IF Len(cs) < 2 * p + 1 \/ Len(dxs) < p THEN Missing ELSE Wilder(dxs, p)
  BY DEF Adx
<1>2. CASE Len(cs) < 2 * p + 1 \/ Len(dxs) < p
  BY <1>1, <1>2
<1>3. CASE ~ (Len(cs) < 2 * p + 1 \/ Len(dxs) < p)
  <2>0. p \in Nat /\ p > 0
    BY DEF Positive
  <2>1. Len(cs) > p /\ Len(cs) - p \in Nat
    BY <1>3, <2>0
  <2>2. dxs \in Seq(Shares)
    BY <2>1, WindowsSized, IndexedShares, DirectionalIs
  <2> HIDE DEF dxs
  <2>3. dxs \in Seq(Quotients) /\ Len(dxs) \in Nat /\ p <= Len(dxs)
    BY <1>3, <2>0, <2>2 DEF Shares
  <2>4. Wilder(dxs, p) \in Quotients /\ Held(Wilder(dxs, p), First(dxs, Len(dxs)))
    BY <2>3, WilderHeld
  <2>5. First(dxs, Len(dxs)) \subseteq Shares
    BY <2>2 DEF First
  <2>6. First(dxs, Len(dxs)) \subseteq Quotients /\ \A y \in First(dxs, Len(dxs)) : IsShare(y)
    BY <2>5 DEF Shares
  <2>7. IsShare(Wilder(dxs, p))
    BY <2>4, <2>6, HeldShare
  <2> QED
    BY <1>1, <1>3, <2>4, <2>7 DEF Shares
<1> QED
  BY <1>2, <1>3

-----------------------------------------------------------------------------
(* Two averages of which one starts later                                  *)

\* A step towards the same value leaves that part of the gap of two averages.
LEMMA BlendDifference ==
  ASSUME NEW x \in Quotients, NEW a \in Quotients, NEW b \in Quotients, NEW p \in Positive
  PROVE  Less(Blend(x, a, p), Blend(x, b, p)) = Times(Less(a, b), Frac(p - 1, p + 1))
<1>1. PICK d \in Positive, n \in Int, m \in Int, k \in Int :
        x = Frac(n, d) /\ a = Frac(m, d) /\ b = Frac(k, d)
  BY ThreeCommon
<1>2. p \in Int /\ p - 1 \in Int /\ p + 1 \in Positive
  BY DEF Positive
<1>3. PICK e \in Positive : e = d * (p + 1)
  BY <1>2, PositiveProduct
<1>4. PICK u \in Int : u = 2 * n + (p - 1) * m
  BY <1>2
<1>5. PICK v \in Int : v = 2 * n + (p - 1) * k
  BY <1>2
<1>6. Blend(x, a, p) = Frac(u, e) /\ Blend(x, b, p) = Frac(v, e)
  BY <1>1, <1>3, <1>4, <1>5, BlendFrac
<1>7. Less(Frac(u, e), Frac(v, e)) = Frac(u - v, e)
  BY LessSame
<1>8. Less(a, b) = Frac(m - k, d) /\ m - k \in Int
  BY <1>1, LessSame
<1>9. Times(Frac(m - k, d), Frac(p - 1, p + 1)) = Frac((m - k) * (p - 1), e)
  BY <1>2, <1>3, <1>8, TimesFrac
<1>10. u - v = (m - k) * (p - 1)
  BY <1>2, <1>4, <1>5
<1> QED
  BY <1>6, <1>7, <1>8, <1>9, <1>10

\* No further from nothing than that, up or down.
NoFurther(g, most) == AtMost(g, most) /\ AtMost(Neg(g), most)

\* The gap stays within what is left when both shrink alike.
LEMMA NoFurtherShrinks ==
  ASSUME NEW g \in Quotients, NEW l \in Quotients, NEW r \in Unsigned, NEW w \in Int,
         NoFurther(g, Times(l, Whole(w)))
  PROVE  NoFurther(Times(g, r), Times(Times(l, r), Whole(w)))
<1>1. PICK d \in Positive, n \in Int, m \in Int : g = Frac(n, d) /\ l = Frac(m, d)
  BY TwoCommon
<1>2. PICK k \in Int, e \in Positive : r = Frac(k, e)
  BY DEF Unsigned, Quotients
<1>3. k >= 0
  BY <1>2, UnsignedFrac
<1>4. 1 \in Positive /\ Whole(w) = Frac(w, 1) /\ d \in Int
  BY DEF Positive, Whole
<1>5. PICK z \in Int : z = m * w
  OBVIOUS
<1>6. Times(l, Whole(w)) = Frac(z, d)
  <2>1. Times(l, Whole(w)) = Frac(m * w, d * 1)
    BY <1>1, <1>4, TimesFrac
  <2> QED
    BY <1>4, <1>5, <2>1
<1>7. n <= z /\ -n <= z
  <2>1. Neg(g) = Frac(-n, d)
    BY <1>1, NegFrac
  <2>2. PICK j \in Int : j = -n
    OBVIOUS
  <2>3. (AtMost(Frac(n, d), Frac(z, d)) <=> n <= z) /\ (AtMost(Frac(j, d), Frac(z, d)) <=> j <= z)
    BY AtMostSame
  <2> QED
    BY <1>1, <1>6, <2>1, <2>2, <2>3 DEF NoFurther
<1>8. PICK f \in Positive : f = d * e
  BY PositiveProduct
<1>9. PICK a \in Int, c \in Int, b \in Int : a = n * k /\ c = m * k /\ b = z * k
  OBVIOUS
<1>10. Times(g, r) = Frac(a, f) /\ Times(l, r) = Frac(c, f)
  BY <1>1, <1>2, <1>8, <1>9, TimesFrac
<1>11. Times(Times(l, r), Whole(w)) = Frac(b, f)
  <2>1. Times(Frac(c, f), Whole(w)) = Frac(c * w, f * 1)
    BY <1>4, TimesFrac
  <2>2. f * 1 = f
    BY DEF Positive
  <2>3. c * w = b
    BY <1>5, <1>9
  <2> QED
    BY <1>10, <2>1, <2>2, <2>3
<1>12. a <= b /\ -a <= b
  <2>1. n * k <= z * k
    BY <1>3, <1>7
  <2>2. (-n) * k <= z * k
    BY <1>3, <1>7
  <2>3. (-n) * k = -(n * k)
    OBVIOUS
  <2> QED
    BY <1>9, <2>1, <2>2, <2>3
<1>13. PICK j \in Int : j = -a
  OBVIOUS
<1>14. Neg(Frac(a, f)) = Frac(j, f)
  BY <1>13, NegFrac
<1>15. AtMost(Frac(a, f), Frac(b, f)) /\ AtMost(Frac(j, f), Frac(b, f))
  BY <1>12, <1>13, AtMostSame
<1> QED
  BY <1>10, <1>11, <1>14, <1>15 DEF NoFurther

\* What is left of the weight of a value.
Weights(left, n, r) ==
  /\ left[0] = Whole(1)
  /\ \A k \in 1 .. n : left[k] = Times(left[k - 1], r)

\* Weights are fractions.
LEMMA WeightsType ==
  ASSUME NEW n \in Nat, NEW r \in Quotients, NEW left, Weights(left, n, r)
  PROVE  \A k \in 0 .. n : left[k] \in Quotients
<1> DEFINE G == {k \in 0 .. n : left[k] \in Quotients}
<1>1. 0 \in G
  BY WholeType DEF Weights
<1>2. ASSUME NEW k \in 0 .. n - 1, k \in G PROVE k + 1 \in G
  <2>1. k + 1 \in 1 .. n /\ k + 1 \in 0 .. n /\ (k + 1) - 1 = k /\ left[k] \in Quotients
    BY <1>2
  <2>2. left[k + 1] = Times(left[k], r)
    BY <2>1 DEF Weights
  <2>3. left[k + 1] \in Quotients
    BY <2>1, <2>2, OpsType
  <2> QED
    BY <2>1, <2>3
<1>3. 0 .. n \subseteq G
  <2> HIDE DEF G
  <2> QED
    BY <1>1, <1>2, Turns
<1> QED
  BY <1>3

\* The function of the weights, as its definition has it.
LEMMA WeightsExist ==
  ASSUME NEW n \in Nat, NEW r \in Quotients
  PROVE  Weights(CHOOSE left : left = [k \in 0 .. n |->
                    IF k = 0 THEN Whole(1) ELSE Times(left[k - 1], r)], n, r)
<1> DEFINE Solves(left) == left = [k \in 0 .. n |->
                             IF k = 0 THEN Whole(1) ELSE Times(left[k - 1], r)]
           step == [q \in (1 .. n) \X Quotients |-> Times(q[2], r)]
<1>1. Whole(1) \in Quotients
  BY WholeType
<1>2. step \in [(1 .. n) \X Quotients -> Quotients]
  BY OpsType
<1>3. \A i \in 1 .. n, x \in Quotients : step[<<i, x>>] = Times(x, r)
  OBVIOUS
<1> HIDE DEF step
<1>4. PICK f \in [0 .. n -> Quotients] : Steps(f, n, Whole(1), step)
  BY <1>1, <1>2, StepsExist
<1>5. \A k \in 0 .. n : f[k] = IF k = 0 THEN Whole(1) ELSE Times(f[k - 1], r)
  <2> TAKE k \in 0 .. n
  <2>1. CASE k = 0
    BY <1>4, <2>1 DEF Steps
  <2>2. CASE k # 0
    <3>1. k \in 1 .. n /\ f[k - 1] \in Quotients
      BY <1>4, <2>2
    <3> QED
      BY <1>3, <1>4, <2>2, <3>1 DEF Steps
  <2> QED
    BY <2>1, <2>2
<1>6. Solves(f)
  BY <1>5
<1>7. Solves(CHOOSE left : Solves(left))
  <2> HIDE DEF Solves
  <2> QED
    BY <1>6
<1> DEFINE left == CHOOSE left : Solves(left)
<1>8. \A k \in 0 .. n : left[k] = IF k = 0 THEN Whole(1) ELSE Times(left[k - 1], r)
  <2> HIDE DEF left
  <2> QED
    BY <1>7 DEF left
<1>9. Weights(left, n, r)
  <2> HIDE DEF left
  <2> QED
    BY <1>8 DEF Weights
<1> QED
  BY <1>9

\* Their gap shrinks with the weight of the values before.
THEOREM GapShrinks ==
  ASSUME NEW xs \in Seq(Quotients), NEW p \in Positive, NEW s \in 1 .. Len(xs), NEW w \in Int,
         NEW left, Weights(left, Len(xs), Frac(p - 1, p + 1)),
         NoFurther(Less(Ema(xs, p)[s], xs[s]), Whole(w))
  PROVE  \A k \in 0 .. Len(xs) - s :
            NoFurther(Less(Ema(xs, p)[s + k], Ema(SubSeq(xs, s, Len(xs)), p)[k + 1]),
                      Times(left[k], Whole(w)))
<1> DEFINE n == Len(xs)
           ys == SubSeq(xs, s, n)
           e == Ema(xs, p)
           f == Ema(ys, p)
           r == Frac(p - 1, p + 1)
           G == {k \in 0 .. n - s : NoFurther(Less(e[s + k], f[k + 1]), Times(left[k], Whole(w)))}
<1>1. n \in Nat /\ s \in Nat /\ s > 0 /\ s <= n /\ n - s \in Nat
  OBVIOUS
<1>2. /\ ys \in Seq(Quotients) /\ Len(ys) = n - s + 1
      /\ \A k \in 0 .. n - s : ys[k + 1] = xs[s + k]
  <2>1. ys \in Seq(Quotients) /\ Len(ys) = n - s + 1
    BY <1>1
  <2>2. \A i \in 1 .. n - s + 1 : ys[i] = xs[s + i - 1]
    BY <1>1
  <2>3. \A k \in 0 .. n - s : k + 1 \in 1 .. n - s + 1 /\ s + (k + 1) - 1 = s + k
    BY <1>1
  <2> HIDE DEF ys
  <2> QED
    BY <2>1, <2>2, <2>3
<1>3. Averages(e, xs, p)
  BY EmaTurns
<1> HIDE DEF ys
<1>4. Averages(f, ys, p)
  BY <1>2, EmaTurns
<1>5. r \in Quotients /\ r \in Unsigned
  <2>1. p - 1 \in Int /\ p - 1 >= 0 /\ p + 1 \in Positive
    BY DEF Positive
  <2> QED
    BY <2>1, UnsignedFrac, FracType
<1>6. \A k \in 0 .. n : left[k] \in Quotients
  BY <1>1, <1>5, WeightsType
<1>7. \A k \in 1 .. n : left[k] = Times(left[k - 1], r)
  BY DEF Weights
<1>8. \A i \in 1 .. n : e[i] \in Quotients /\ (i # 1 => e[i] = Blend(xs[i], e[i - 1], p))
  BY <1>3 DEF Averages
<1>9. \A k \in 0 .. n - s : f[k + 1] \in Quotients
                            /\ (k # 0 => f[k + 1] = Blend(xs[s + k], f[k], p))
  <2> TAKE k \in 0 .. n - s
  <2>1. k + 1 \in 1 .. Len(ys) /\ (k # 0 => k + 1 # 1) /\ (k + 1) - 1 = k
    BY <1>1, <1>2
  <2> QED
    BY <1>2, <1>4, <2>1 DEF Averages
<1>10. f[1] = xs[s] /\ xs[s] \in Quotients
  <2>1. 1 \in 1 .. Len(ys) /\ 0 \in 0 .. n - s
    BY <1>1, <1>2
  <2>2. f[1] = ys[1]
    BY <1>4, <2>1 DEF Averages
  <2>3. ys[0 + 1] = xs[s + 0]
    BY <1>2, <2>1
  <2> QED
    BY <1>1, <2>2, <2>3
<1>11. left[0] = Whole(1)
  BY DEF Weights
<1> HIDE DEF e, f, r
<1>12. 0 \in G
  <2>1. Times(Whole(1), Whole(w)) = Whole(w)
    <3>1. 1 \in Positive /\ 1 * w = w /\ 1 * 1 = 1
      BY DEF Positive
    <3>2. Times(Frac(1, 1), Frac(w, 1)) = Frac(1 * w, 1 * 1)
      BY <3>1, TimesFrac
    <3> QED
      BY <3>1, <3>2 DEF Whole
  <2>2. NoFurther(Less(e[s], xs[s]), Whole(w))
    BY DEF e
  <2>3. s + 0 = s /\ 0 + 1 = 1 /\ 0 \in 0 .. n - s
    BY <1>1
  <2> QED
    BY <1>10, <1>11, <2>1, <2>2, <2>3
<1>13. ASSUME NEW k \in 0 .. (n - s) - 1, k \in G PROVE k + 1 \in G
  <2>1. /\ k \in 0 .. n - s /\ k + 1 \in 0 .. n - s /\ k + 1 \in 1 .. n /\ k \in 0 .. n
        /\ (k + 1) - 1 = k /\ k + 1 # 0
    BY <1>1
  <2>2. /\ s + k \in 1 .. n /\ s + (k + 1) \in 1 .. n /\ s + (k + 1) # 1
        /\ (s + (k + 1)) - 1 = s + k
    BY <1>1, <2>1
  <2> DEFINE a == e[s + k]
             b == f[k + 1]
             x == xs[s + (k + 1)]
  <2>3. e[s + (k + 1)] = Blend(x, a, p) /\ a \in Quotients
    BY <1>8, <2>2
  <2>4. f[(k + 1) + 1] = Blend(x, b, p) /\ b \in Quotients
    BY <1>9, <2>1
  <2>5. x \in Quotients
    BY <2>2
  <2>6. NoFurther(Less(a, b), Times(left[k], Whole(w)))
    BY <1>13
  <2> HIDE DEF a, b, x
  <2>7. Less(Blend(x, a, p), Blend(x, b, p)) = Times(Less(a, b), r)
    BY <2>3, <2>4, <2>5, BlendDifference DEF r
  <2>8. Less(a, b) \in Quotients /\ left[k] \in Quotients
    BY <1>6, <2>1, <2>3, <2>4, OpsType
  <2>9. NoFurther(Times(Less(a, b), r), Times(Times(left[k], r), Whole(w)))
    BY <1>5, <2>6, <2>8, NoFurtherShrinks
  <2>10. left[k + 1] = Times(left[k], r)
    BY <1>7, <2>1
  <2> QED
    BY <2>1, <2>3, <2>4, <2>7, <2>9, <2>10
<1>14. 0 .. n - s \subseteq G
  <2> HIDE DEF G, n
  <2> QED
    BY <1>1, <1>12, <1>13, Turns
<1> QED
  BY <1>14 DEF e, f, ys

-----------------------------------------------------------------------------
(* Everything is bounded                                                   *)

\* The closes are whole prices.
LEMMA ClosesType ==
  ASSUME NEW cs \in Seq(SoundBars)
  PROVE  /\ Closes(cs) \in Seq(Quotients) /\ Len(Closes(cs)) = Len(cs)
         /\ DOMAIN Closes(cs) = 1 .. Len(cs)
         /\ \A i \in 1 .. Len(cs) : /\ cs[i] \in SoundBars /\ cs[i].close \in Int
                                    /\ 0 < cs[i].close /\ cs[i].close < Top
                                    /\ Closes(cs)[i] = Whole(cs[i].close)
<1> DEFINE xs == Closes(cs)
           n == Len(cs)
<1>1. n \in Nat /\ \A i \in 1 .. n : cs[i] \in SoundBars
  OBVIOUS
<1>2. \A i \in 1 .. n : cs[i].close \in Int /\ 0 < cs[i].close /\ cs[i].close < Top
  BY <1>1, SoundParts, ShapesType
<1>3. xs = [i \in 1 .. n |-> Whole(cs[i].close)]
  BY DEF Closes
<1>4. Listed(xs, n, Quotients)
  <2>1. \A i \in 1 .. n : Whole(cs[i].close) \in Quotients
    BY <1>2, WholeType
  <2> QED
    BY <1>3, <2>1 DEF Listed
<1> HIDE DEF xs, n
<1>5. xs \in Seq(Quotients) /\ Len(xs) = n
  BY <1>1, <1>4, ListedSeq
<1> QED
  BY <1>1, <1>2, <1>3, <1>5 DEF xs, n

\* What the property says of a sequence is said of its values.
LEMMA BetweenHeld ==
  ASSUME NEW xs \in Seq(Quotients), NEW x
  PROVE  Between(x, xs) <=> Held(x, First(xs, Len(xs)))
BY DEF Between, Held, First, ToSet

\* So is what is said of its first values.
LEMMA BetweenFirst ==
  ASSUME NEW xs \in Seq(Quotients), NEW i \in 1 .. Len(xs), NEW x
  PROVE  Between(x, SubSeq(xs, 1, i)) <=> Held(x, First(xs, i))
<1>1. /\ SubSeq(xs, 1, i) \in Seq(Quotients) /\ Len(SubSeq(xs, 1, i)) = i
      /\ \A j \in 1 .. i : SubSeq(xs, 1, i)[j] = xs[j]
  OBVIOUS
<1>2. First(SubSeq(xs, 1, i), i) = First(xs, i)
  BY <1>1 DEF First
<1> QED
  BY <1>1, <1>2, BetweenHeld

\* The comparison of whole values is that of the numbers.
LEMMA WholeOrder ==
  ASSUME NEW a \in Int, NEW b \in Int
  PROVE  /\ AtMost(Whole(a), Whole(b)) <=> a <= b
         /\ Whole(a) = Whole(b) <=> a = b
         /\ Less(Whole(a), Whole(b)) = Whole(a - b)
BY AtMostSame, EqualSame, LessSame DEF Whole, Positive

\* Two values within the top are no further apart than that.
LEMMA NearTop ==
  ASSUME NEW x \in Quotients, NEW y \in Quotients, NEW S, S \subseteq Quotients,
         \A z \in S : \E c \in Int : z = Whole(c) /\ 0 <= c /\ c <= Top,
         Held(x, S), Held(y, S)
  PROVE  NoFurther(Less(x, y), Whole(Top))
<1>1. PICK d \in Positive, n \in Int, m \in Int : x = Frac(n, d) /\ y = Frac(m, d)
  BY TwoCommon
<1>2. Top \in Int /\ Whole(Top) \in Quotients /\ Zero \in Quotients /\ Zero = Whole(0)
  BY WholeType, ShapesType DEF Zero
<1>3. \A z \in S : z \in Quotients /\ AtMost(Zero, z) /\ AtMost(z, Whole(Top))
  BY <1>2, WholeOrder
<1>4. ASSUME NEW z \in Quotients, Held(z, S) PROVE AtMost(Zero, z) /\ AtMost(z, Whole(Top))
  BY <1>2, <1>3, <1>4, AtMostOrder DEF Held
<1>5. AtMost(Zero, x) /\ AtMost(x, Whole(Top)) /\ AtMost(Zero, y) /\ AtMost(y, Whole(Top))
  BY <1>4
<1>6. d \in Int /\ d > 0
  BY DEF Positive
<1>7. Zero = Frac(0, d) /\ Whole(Top) = Frac(Top * d, d) /\ Top * d \in Int
  BY <1>2, <1>6, ZeroFrac, WholeFrac
<1>8. 0 <= n /\ n <= Top * d /\ 0 <= m /\ m <= Top * d
  BY <1>1, <1>5, <1>7, AtMostSame
<1>9. PICK k \in Int : k = n - m
  OBVIOUS
<1>10. PICK j \in Int : j = -k
  OBVIOUS
<1>11. PICK t \in Int : t = Top * d
  BY <1>7
<1>12. Less(x, y) = Frac(k, d) /\ Neg(Frac(k, d)) = Frac(j, d)
  BY <1>1, <1>9, <1>10, LessSame, NegFrac
<1>13. k <= t /\ j <= t
  BY <1>8, <1>9, <1>10, <1>11
<1> QED
  BY <1>7, <1>11, <1>12, <1>13, AtMostSame DEF NoFurther

\* The last value of an exponential average, and how long it is.
LEMMA EmaLength ==
  ASSUME NEW xs \in Seq(Quotients), NEW p \in Positive
  PROVE  /\ Ema(xs, p) \in Seq(Quotients) /\ Len(Ema(xs, p)) = Len(xs)
         /\ Last(Ema(xs, p)) = Ema(xs, p)[Len(xs)]
<1>1. Averages(Ema(xs, p), xs, p) /\ Len(xs) \in Nat
  BY EmaTurns
<1>2. Listed(Ema(xs, p), Len(xs), Quotients)
  BY <1>1 DEF Listed, Averages, Tabled
<1> QED
  BY <1>1, <1>2, ListedSeq DEF Last

\* The average that starts later is no further off than what is left of the first weights.
LEMMA GapBounded ==
  ASSUME NEW cs \in Seq(SoundBars), NEW p \in Positive, NEW s \in 1 .. Len(cs),
         NEW left, Weights(left, Len(cs), Frac(p - 1, p + 1))
  PROVE  NoFurther(Less(Last(Ema(Closes(cs), p)), Last(Ema(SubSeq(Closes(cs), s, Len(cs)), p))),
                   Times(left[Len(cs) - s], Whole(Top)))
<1> DEFINE xs == Closes(cs)
           n == Len(cs)
           ys == SubSeq(xs, s, n)
           S == First(xs, s)
<1>1. /\ xs \in Seq(Quotients) /\ Len(xs) = n
      /\ \A i \in 1 .. n : /\ xs[i] \in Quotients
                          /\ \E c \in Int : xs[i] = Whole(c) /\ 0 <= c /\ c <= Top
  <2>1. Top \in Int
    BY ShapesType
  <2> QED
    BY <2>1, ClosesType
<1>2. n \in Nat /\ s \in 1 .. n
  OBVIOUS
<1> HIDE DEF xs, n
<1>3. /\ ys \in Seq(Quotients) /\ Len(ys) = n - s + 1 /\ Len(ys) \in Nat \ {0}
  BY <1>1, <1>2
<1>4. Ema(xs, p)[s] \in Quotients /\ Held(Ema(xs, p)[s], S)
  BY <1>1, <1>2, EmaHeld
<1>5. /\ S \subseteq Quotients /\ xs[s] \in S
      /\ \A z \in S : \E c \in Int : z = Whole(c) /\ 0 <= c /\ c <= Top
  BY <1>1, <1>2 DEF First
<1>6. Held(xs[s], S)
  BY <1>5, HeldMember
<1>7. NoFurther(Less(Ema(xs, p)[s], xs[s]), Whole(Top))
  <2> HIDE DEF S
  <2>1. xs[s] \in Quotients
    BY <1>1, <1>2
  <2> QED
    BY <1>4, <1>5, <1>6, <2>1, NearTop
<1>8. Top \in Int
  BY ShapesType
<1>9. \A k \in 0 .. n - s :
            NoFurther(Less(Ema(xs, p)[s + k], Ema(ys, p)[k + 1]), Times(left[k], Whole(Top)))
  <2>1. /\ Weights(left, Len(xs), Frac(p - 1, p + 1))
        /\ s \in 1 .. Len(xs) /\ ys = SubSeq(xs, s, Len(xs))
    BY <1>1, <1>2 DEF n
  <2> HIDE DEF ys
  <2>2. \A k \in 0 .. Len(xs) - s :
            NoFurther(Less(Ema(xs, p)[s + k], Ema(SubSeq(xs, s, Len(xs)), p)[k + 1]),
                      Times(left[k], Whole(Top)))
    BY <1>1, <1>7, <1>8, <2>1, GapShrinks
  <2> QED
    BY <1>1, <2>1, <2>2
<1>10. Last(Ema(xs, p)) = Ema(xs, p)[n] /\ Last(Ema(ys, p)) = Ema(ys, p)[n - s + 1]
  <2> HIDE DEF ys
  <2> QED
    BY <1>1, <1>3, EmaLength
<1>11. n - s \in 0 .. n - s /\ s + (n - s) = n /\ (n - s) + 1 = n - s + 1
  BY <1>2
<1> QED
  BY <1>9, <1>10, <1>11 DEF xs, n, ys

\* RSI over closes: a share, and all of it exactly where none fell.
LEMMA RsiBounded ==
  ASSUME NEW cs \in Seq(SoundBars), NEW p \in Positive, p > 1
  PROVE  /\ Rsi(Closes(cs), p) = Missing \/ IsShare(Rsi(Closes(cs), p))
         /\ Len(cs) > p =>
              (Rsi(Closes(cs), p) = Whole(1)
                 <=> \A i \in 2 .. Len(cs) : cs[i].close >= cs[i - 1].close)
<1> DEFINE xs == Closes(cs)
           n == Len(cs)
           g == Wilder(Gains(xs), p)
           l == Wilder(Drops(xs), p)
<1>1. /\ xs \in Seq(Quotients) /\ Len(xs) = n /\ n \in Nat
      /\ \A i \in 1 .. n : cs[i].close \in Int /\ xs[i] = Whole(cs[i].close)
  BY ClosesType
<1>2. p \in Int
  BY DEF Positive
<1> HIDE DEF xs
<1>3. CASE n < p + 1
  <2>1. Rsi(xs, p) = Missing /\ ~ (n > p)
    BY <1>1, <1>2, <1>3, RsiIs
  <2> QED
    BY <2>1 DEF xs
<1>4. CASE ~ (n < p + 1)
  <2>1. n > 0 /\ p <= n - 1
    BY <1>1, <1>2, <1>4
  <2>2. /\ Gains(xs) \in Seq(Unsigned) /\ Len(Gains(xs)) = n - 1
        /\ Drops(xs) \in Seq(Unsigned) /\ Len(Drops(xs)) = n - 1
        /\ AllZero(Drops(xs)) <=> \A i \in 1 .. n - 1 : AtMost(xs[i], xs[i + 1])
    BY <1>1, <2>1, GainsType
  <2>3. g \in Unsigned /\ l \in Unsigned /\ (l = Zero <=> AllZero(Drops(xs)))
    BY <2>1, <2>2, WilderUnsigned
  <2>4. Rsi(xs, p) = RsiOf(g, l)
    BY <1>1, <1>4, RsiIs
  <2> HIDE DEF g, l
  <2>5. IsShare(RsiOf(g, l)) /\ (RsiOf(g, l) = Whole(1) <=> l = Zero)
    BY <2>3, RsiShare DEF RsiFacts
  <2>6. (\A i \in 1 .. n - 1 : AtMost(xs[i], xs[i + 1]))
          <=> \A i \in 2 .. n : cs[i].close >= cs[i - 1].close
    <3>1. ASSUME NEW i \in 1 .. n - 1
          PROVE AtMost(xs[i], xs[i + 1]) <=> cs[i].close <= cs[i + 1].close
      <4>1. i \in 1 .. n /\ i + 1 \in 1 .. n
        BY <1>1
      <4>2. PICK a \in Int, b \in Int : a = cs[i].close /\ b = cs[i + 1].close
        BY <1>1, <4>1
      <4>3. xs[i] = Whole(a) /\ xs[i + 1] = Whole(b)
        BY <1>1, <4>1, <4>2
      <4>4. AtMost(Whole(a), Whole(b)) <=> a <= b
        BY WholeOrder
      <4> QED
        BY <4>2, <4>3, <4>4
    <3>2. (\A i \in 1 .. n - 1 : cs[i].close <= cs[i + 1].close)
            <=> \A i \in 2 .. n : cs[i].close >= cs[i - 1].close
      <4>1. ASSUME \A i \in 1 .. n - 1 : cs[i].close <= cs[i + 1].close, NEW i \in 2 .. n
            PROVE cs[i].close >= cs[i - 1].close
        <5>1. i - 1 \in 1 .. n - 1 /\ (i - 1) + 1 = i /\ i \in 1 .. n /\ i - 1 \in 1 .. n
          BY <1>1
        <5>2. cs[i - 1].close <= cs[i].close
          BY <4>1, <5>1
        <5> QED
          BY <1>1, <5>1, <5>2
      <4>2. ASSUME \A i \in 2 .. n : cs[i].close >= cs[i - 1].close, NEW i \in 1 .. n - 1
            PROVE cs[i].close <= cs[i + 1].close
        <5>1. i + 1 \in 2 .. n /\ (i + 1) - 1 = i /\ i \in 1 .. n /\ i + 1 \in 1 .. n
          BY <1>1
        <5>2. cs[i + 1].close >= cs[i].close
          BY <4>2, <5>1
        <5> QED
          BY <1>1, <5>1, <5>2
      <4> QED
        BY <4>1, <4>2
    <3> QED
      BY <3>1, <3>2
  <2> QED
    BY <2>2, <2>3, <2>4, <2>5, <2>6 DEF xs
<1> QED
  BY <1>3, <1>4

\* The average true ranges lie between the ranges they average.
LEMMA AtrBounded ==
  ASSUME NEW cs \in Seq(SoundBars), NEW p \in Positive, Len(cs) > p
  PROVE  /\ Between(Atr(cs, p), LastOf(TrueRanges(cs), p))
         /\ Between(AtrWilder(cs, p), TrueRanges(cs))
<1> DEFINE ts == TrueRanges(cs)
           us == LastOf(ts, p)
<1>1. Len(cs) \in Nat /\ p \in Int /\ p > 0 /\ ~ (Len(cs) < p + 1) /\ Len(cs) > 0
  BY DEF Positive
<1>2. ts \in Seq(Quotients) /\ Len(ts) = Len(cs) - 1
  <2>1. ts \in Seq(Unsigned) /\ Len(ts) = Len(cs) - 1
    BY <1>1, TrueRangesType
  <2>2. Unsigned \subseteq Quotients
    BY DEF Unsigned
  <2> HIDE DEF ts
  <2> QED
    BY <2>1, <2>2
<1>3. Atr(cs, p) = Mean(us) /\ AtrWilder(cs, p) = Wilder(ts, p)
  BY <1>1 DEF Atr, AtrWilder
<1> HIDE DEF ts
<1>4. us \in Seq(Quotients) /\ Len(us) = p
  <2>1. Len(ts) - p + 1 \in 1 .. Len(ts) /\ Len(ts) \in Nat
    BY <1>1, <1>2
  <2> QED
    BY <1>1, <1>2, <2>1 DEF LastOf
<1> HIDE DEF us
<1>5. Held(Mean(us), First(us, Len(us)))
  BY <1>1, <1>4, MeanHeld
<1>6. Held(Wilder(ts, p), First(ts, Len(ts)))
  <2>1. p <= Len(ts)
    BY <1>1, <1>2
  <2> QED
    BY <1>2, <2>1, WilderHeld
<1> QED
  BY <1>2, <1>3, <1>4, <1>5, <1>6, BetweenHeld DEF ts, us

-----------------------------------------------------------------------------
(* The volume-weighted price                                               *)

\* The typical price of a candle, and what was traded at it.
Typical(c) == Frac(c.high + c.low + c.close, 3)
Worth(cs) == [i \in DOMAIN cs |-> Times(Typical(cs[i]), Whole(cs[i].volume))]

\* Vwap is what was traded, by its volume.
LEMMA VwapIs ==
  ASSUME NEW cs
  PROVE  Vwap(cs) = IF Total(Volumes(cs)) = Zero THEN Missing
                    ELSE Over(Total(Worth(cs)), Total(Volumes(cs)))
BY DEF Vwap, Worth, Typical

\* The sum of two.
LEMMA TotalTwo ==
  ASSUME NEW xs \in Seq(Quotients), Len(xs) = 2
  PROVE  Total(xs) = Plus(xs[1], xs[2])
<1>1. PICK t : Sums(t, xs) /\ Total(xs) = t[2]
  BY TotalTurns
<1>2. xs[1] \in Quotients /\ xs[2] \in Quotients
  OBVIOUS
<1>3. t[0] = Zero /\ t[1] = Plus(t[0], xs[1]) /\ t[2] = Plus(t[1], xs[2])
  <2>1. \A i \in 1 .. 2 : t[i] = Plus(t[i - 1], xs[i])
    BY <1>1 DEF Sums
  <2>2. t[0] = Zero
    BY <1>1 DEF Sums
  <2>3. 1 \in 1 .. 2 /\ 2 \in 1 .. 2 /\ 1 - 1 = 0 /\ 2 - 1 = 1
    OBVIOUS
  <2> QED
    BY <2>1, <2>2, <2>3
<1>4. t[1] = xs[1]
  BY <1>2, <1>3, ZeroPlus
<1> QED
  BY <1>1, <1>3, <1>4

\* Two candles: what they were worth by what was traded.
LEMMA VwapTwo ==
  ASSUME NEW cs \in Seq(SoundBars), Len(cs) = 2
  PROVE  LET v == cs[1].volume
             w == cs[2].volume
             n == cs[1].high + cs[1].low + cs[1].close
             m == cs[2].high + cs[2].low + cs[2].close
         IN Vwap(cs) = IF v + w = 0 THEN Missing ELSE Frac(v * n + w * m, 3 * (v + w))
<1>1. cs[1] \in SoundBars /\ cs[2] \in SoundBars
  OBVIOUS
<1>2. PICK v \in Int : v = cs[1].volume /\ v >= 0
  BY <1>1, SoundParts
<1>3. PICK w \in Int : w = cs[2].volume /\ w >= 0
  BY <1>1, SoundParts
<1>4. PICK n \in Int : n = cs[1].high + cs[1].low + cs[1].close
  BY <1>1, SoundParts
<1>5. PICK m \in Int : m = cs[2].high + cs[2].low + cs[2].close
  BY <1>1, SoundParts
<1>6. 3 \in Positive /\ 1 \in Positive /\ DOMAIN cs = 1 .. 2
  BY DEF Positive
<1>7. PICK a \in Int : a = n * v
  OBVIOUS
<1>8. PICK b \in Int : b = m * w
  OBVIOUS
<1>9. PICK s \in Int : s = v + w /\ s >= 0
  BY <1>2, <1>3
<1>10. PICK t \in Int : t = a + b
  OBVIOUS
<1>11. Volumes(cs) \in Seq(Quotients) /\ Len(Volumes(cs)) = 2
       /\ Volumes(cs)[1] = Whole(v) /\ Volumes(cs)[2] = Whole(w)
  <2>1. Listed(Volumes(cs), 2, Quotients)
    <3>1. \A i \in 1 .. 2 : Whole(cs[i].volume) \in Quotients
      <4>1. \A i \in 1 .. 2 : i = 1 \/ i = 2
        OBVIOUS
      <4> QED
        BY <1>2, <1>3, <4>1, WholeType
    <3> QED
      BY <1>6, <3>1 DEF Listed, Volumes
  <2>2. Volumes(cs)[1] = Whole(v) /\ Volumes(cs)[2] = Whole(w)
    BY <1>2, <1>3, <1>6 DEF Volumes
  <2> QED
    BY <2>1, <2>2, ListedSeq
<1>12. Total(Volumes(cs)) = Whole(s)
  <2>1. Plus(Whole(v), Whole(w)) = Whole(s)
    BY <1>6, <1>9, PlusSame DEF Whole
  <2> QED
    BY <1>11, <2>1, TotalTwo
<1>13. Typical(cs[1]) = Frac(n, 3) /\ Typical(cs[2]) = Frac(m, 3)
  BY <1>4, <1>5 DEF Typical
<1>14. Times(Frac(n, 3), Whole(v)) = Frac(a, 3) /\ Times(Frac(m, 3), Whole(w)) = Frac(b, 3)
  <2>1. 3 * 1 = 3
    OBVIOUS
  <2> QED
    BY <1>6, <1>7, <1>8, <2>1, TimesFrac DEF Whole
<1>15. /\ Worth(cs) \in Seq(Quotients) /\ Len(Worth(cs)) = 2
       /\ Worth(cs)[1] = Frac(a, 3) /\ Worth(cs)[2] = Frac(b, 3)
  <2>1. Worth(cs)[1] = Frac(a, 3) /\ Worth(cs)[2] = Frac(b, 3)
    BY <1>2, <1>3, <1>6, <1>13, <1>14 DEF Worth
  <2>2. DOMAIN Worth(cs) = 1 .. 2 /\ Worth(cs) = [i \in 1 .. 2 |-> Worth(cs)[i]]
    BY <1>6 DEF Worth
  <2>3. Frac(a, 3) \in Quotients /\ Frac(b, 3) \in Quotients
    BY <1>6, FracType
  <2>4. \A i \in 1 .. 2 : Worth(cs)[i] \in Quotients
    BY <2>1, <2>3
  <2>5. Listed(Worth(cs), 2, Quotients)
    BY <2>2, <2>4 DEF Listed
  <2> QED
    BY <2>1, <2>5, ListedSeq
<1>16. Total(Worth(cs)) = Frac(t, 3)
  <2>1. Plus(Frac(a, 3), Frac(b, 3)) = Frac(t, 3)
    BY <1>6, <1>10, PlusSame
  <2> QED
    BY <1>15, <2>1, TotalTwo
<1>17. Whole(s) = Zero <=> s = 0
  BY WholeOrder DEF Zero
<1>18. s # 0 => Over(Frac(t, 3), Whole(s)) = Frac(t, 3 * s)
  <2>1. s # 0 => s \in Positive
    BY <1>9 DEF Positive
  <2> QED
    BY <1>6, <2>1, OverWhole
<1>19. Vwap(cs) = IF s = 0 THEN Missing ELSE Frac(t, 3 * s)
  BY <1>12, <1>16, <1>17, <1>18, VwapIs
<1>20. t = v * n + w * m
  BY <1>7, <1>8, <1>10
<1> QED
  BY <1>2, <1>3, <1>4, <1>5, <1>9, <1>19, <1>20

\* It lies between the lowest low and the highest high.
LEMMA VwapBounded ==
  ASSUME NEW cs \in Seq(SoundBars), Len(cs) = 2, Vwap(cs) # Missing
  PROVE  /\ Vwap(cs) \in Quotients
         /\ \E i \in 1 .. 2 : AtMost(Whole(cs[i].low), Vwap(cs))
         /\ \E i \in 1 .. 2 : AtMost(Vwap(cs), Whole(cs[i].high))
<1>1. cs[1] \in SoundBars /\ cs[2] \in SoundBars
  OBVIOUS
<1>2. PICK v \in Nat : v = cs[1].volume
  BY <1>1, SoundParts
<1>3. PICK w \in Nat : w = cs[2].volume
  BY <1>1, SoundParts
<1>4. PICK n \in Int : n = cs[1].high + cs[1].low + cs[1].close
  BY <1>1, SoundParts
<1>5. PICK m \in Int : m = cs[2].high + cs[2].low + cs[2].close
  BY <1>1, SoundParts
<1>6. PICK s \in Nat : s = v + w
  OBVIOUS
<1>7. Vwap(cs) = IF s = 0 THEN Missing ELSE Frac(v * n + w * m, 3 * s)
  BY <1>2, <1>3, <1>4, <1>5, <1>6, VwapTwo
<1>8. s \in Positive /\ 3 \in Positive /\ Vwap(cs) = Frac(v * n + w * m, 3 * s)
  BY <1>6, <1>7 DEF Positive
<1>9. Amid(Frac(n, 3), Frac(m, 3), Vwap(cs))
  BY <1>6, <1>8, Weighted
<1>10. /\ Frac(n, 3) \in Quotients /\ Frac(m, 3) \in Quotients
       /\ AtMost(Frac(n, 3), Frac(m, 3)) \/ AtMost(Frac(m, 3), Frac(n, 3))
  BY <1>8, FracType, AtMostOrder
<1>11. ASSUME NEW c \in SoundBars, NEW k \in Int, k = c.high + c.low + c.close
       PROVE  /\ Whole(c.low) \in Quotients /\ Whole(c.high) \in Quotients
              /\ AtMost(Whole(c.low), Frac(k, 3)) /\ AtMost(Frac(k, 3), Whole(c.high))
  <2>1. PICK lo \in Int, hi \in Int : lo = c.low /\ hi = c.high /\ 3 * lo <= k /\ k <= 3 * hi
    BY <1>11, SoundParts
  <2>2. PICK lo3 \in Int, hi3 \in Int : lo3 = lo * 3 /\ hi3 = hi * 3
    OBVIOUS
  <2>3. Whole(lo) = Frac(lo3, 3) /\ Whole(hi) = Frac(hi3, 3)
    BY <1>8, <2>2, WholeFrac
  <2>4. lo3 <= k /\ k <= hi3
    BY <2>1, <2>2
  <2> QED
    BY <1>8, <2>1, <2>3, <2>4, AtMostSame, WholeType
<1>12. /\ AtMost(Whole(cs[1].low), Frac(n, 3)) /\ AtMost(Frac(n, 3), Whole(cs[1].high))
       /\ AtMost(Whole(cs[2].low), Frac(m, 3)) /\ AtMost(Frac(m, 3), Whole(cs[2].high))
       /\ \A i \in 1 .. 2 : Whole(cs[i].low) \in Quotients /\ Whole(cs[i].high) \in Quotients
  <2>1. \A i \in 1 .. 2 : i = 1 \/ i = 2
    OBVIOUS
  <2> QED
    BY <1>1, <1>4, <1>5, <1>11, <2>1
<1>13. Vwap(cs) \in Quotients /\ 1 \in 1 .. 2 /\ 2 \in 1 .. 2
  BY <1>9 DEF Amid
<1>14. CASE AtMost(Frac(n, 3), Frac(m, 3))
  <2>1. AtMost(Frac(n, 3), Vwap(cs)) /\ AtMost(Vwap(cs), Frac(m, 3))
    BY <1>9, <1>14 DEF Amid
  <2>2. AtMost(Whole(cs[1].low), Vwap(cs)) /\ AtMost(Vwap(cs), Whole(cs[2].high))
    BY <1>10, <1>12, <1>13, <2>1, AtMostOrder
  <2> QED
    BY <1>13, <2>2
<1>15. CASE AtMost(Frac(m, 3), Frac(n, 3))
  <2>1. AtMost(Frac(m, 3), Vwap(cs)) /\ AtMost(Vwap(cs), Frac(n, 3))
    BY <1>9, <1>15 DEF Amid
  <2>2. AtMost(Whole(cs[2].low), Vwap(cs)) /\ AtMost(Vwap(cs), Whole(cs[1].high))
    BY <1>10, <1>12, <1>13, <2>1, AtMostOrder
  <2> QED
    BY <1>13, <2>2
<1> QED
  BY <1>10, <1>14, <1>15

\* The values of two sequences of two put together.
LEMMA TwoAndTwo ==
  ASSUME NEW V, NEW a \in Seq(V), NEW b \in Seq(V), Len(a) = 2, Len(b) = 2
  PROVE  /\ a \o b \in Seq(V) /\ Len(a \o b) = 4
         /\ \A k \in 1 .. 2 : /\ a[k] \in V /\ b[k] \in V
                             /\ (a \o b)[k] = a[k] /\ (a \o b)[k + 2] = b[k]
<1>1. a \o b \in Seq(V)
  OBVIOUS
<1>2. /\ Len(a \o b) = 4
      /\ \A i \in 1 .. 4 : (a \o b)[i] = IF i <= 2 THEN a[i] ELSE b[i - 2]
  <2>1. /\ Len(a \o b) = Len(a) + Len(b)
        /\ \A i \in 1 .. Len(a) + Len(b) :
             (a \o b)[i] = IF i <= Len(a) THEN a[i] ELSE b[i - Len(a)]
    BY ConcatProperties, Zenon
  <2>2. Len(a) + Len(b) = 4
    OBVIOUS
  <2> QED
    BY <2>1, <2>2, Zenon
<1>3. a[1] \in V /\ b[1] \in V /\ a[2] \in V /\ b[2] \in V
  OBVIOUS
<1>4. \A k \in 1 .. 2 : (a \o b)[k] = a[k] /\ (a \o b)[k + 2] = b[k]
  <2>1. \A k \in 1 .. 2 : k \in 1 .. 4 /\ k + 2 \in 1 .. 4 /\ (k + 2) - 2 = k /\ k <= 2
                         /\ ~ (k + 2 <= 2)
    OBVIOUS
  <2> QED
    BY <1>2, <2>1
<1>6. \A k \in 1 .. 2 : k = 1 \/ k = 2
  OBVIOUS
<1> QED
  BY <1>1, <1>2, <1>3, <1>4, <1>6

\* The price lies between the lows and highs of the last two candles.
LEMMA RollingBounded ==
  ASSUME NEW cs \in Seq(SoundBars), RollingVwap(cs, P) # Missing
  PROVE  Between(RollingVwap(cs, P),
                 Fractions([i \in 1 .. P |-> LastOf(cs, P)[i].low])
                   \o Fractions([i \in 1 .. P |-> LastOf(cs, P)[i].high]))
<1> DEFINE ls == LastOf(cs, P)
           lows == Fractions([i \in 1 .. P |-> ls[i].low])
           highs == Fractions([i \in 1 .. P |-> ls[i].high])
           x == Vwap(ls)
<1>1. P = 2 /\ Len(cs) \in Nat /\ Len(cs) >= P
  BY DEF RollingVwap, P
<1>2. ls \in Seq(SoundBars) /\ Len(ls) = 2
  BY <1>1 DEF LastOf
<1>3. x # Missing /\ RollingVwap(cs, P) = x
  BY <1>1 DEF RollingVwap
<1> HIDE DEF ls
<1>4. PICK i \in 1 .. 2 : AtMost(Whole(ls[i].low), x)
  BY <1>2, <1>3, VwapBounded
<1>5. PICK j \in 1 .. 2 : AtMost(x, Whole(ls[j].high))
  BY <1>2, <1>3, VwapBounded
<1>6. /\ x \in Quotients
      /\ \A k \in 1 .. 2 : /\ ls[k].low \in Int /\ ls[k].high \in Int /\ ls[k].low <= ls[k].high
                           /\ Whole(ls[k].low) \in Quotients /\ Whole(ls[k].high) \in Quotients
  <2>1. \A k \in 1 .. 2 : ls[k] \in SoundBars
    BY <1>2, TwoAndTwo
  <2>2. \A k \in 1 .. 2 : ls[k].low \in Int /\ ls[k].high \in Int /\ ls[k].low <= ls[k].high
    <3> SUFFICES ASSUME NEW k \in 1 .. 2
                 PROVE  ls[k].low \in Int /\ ls[k].high \in Int /\ ls[k].low <= ls[k].high
      OBVIOUS
    <3>1. PICK c \in SoundBars : c = ls[k]
      BY <2>1
    <3>2. /\ c.high \in Int /\ c.low \in Int /\ c.close \in Int
          /\ c.low <= c.close /\ c.close <= c.high
      BY SoundParts
    <3> QED
      BY <3>1, <3>2
  <2> QED
    BY <1>2, <1>3, <2>2, VwapBounded, WholeType
<1>7. lows \in Seq(Quotients) /\ Len(lows) = 2 /\ \A k \in 1 .. 2 : lows[k] = Whole(ls[k].low)
  <2>1. Listed(lows, 2, Quotients) /\ \A k \in 1 .. 2 : lows[k] = Whole(ls[k].low)
    BY <1>1, <1>6 DEF Fractions, Listed
  <2> HIDE DEF lows
  <2> QED
    BY <2>1, ListedSeq
<1>8. highs \in Seq(Quotients) /\ Len(highs) = 2 /\ \A k \in 1 .. 2 : highs[k] = Whole(ls[k].high)
  <2>1. Listed(highs, 2, Quotients) /\ \A k \in 1 .. 2 : highs[k] = Whole(ls[k].high)
    BY <1>1, <1>6 DEF Fractions, Listed
  <2> HIDE DEF highs
  <2> QED
    BY <2>1, ListedSeq
<1> HIDE DEF lows, highs, x
<1>9. /\ lows \o highs \in Seq(Quotients) /\ Len(lows \o highs) = 4
      /\ (lows \o highs)[i] = Whole(ls[i].low)
      /\ (lows \o highs)[j + 2] = Whole(ls[j].high)
      /\ i \in 1 .. 4 /\ j + 2 \in 1 .. 4
  <2>1. /\ lows \o highs \in Seq(Quotients) /\ Len(lows \o highs) = 4
        /\ (lows \o highs)[i] = lows[i] /\ (lows \o highs)[j + 2] = highs[j]
    BY <1>7, <1>8, TwoAndTwo
  <2> QED
    BY <1>7, <1>8, <2>1
<1>10. Whole(ls[i].low) \in First(lows \o highs, 4) /\ Whole(ls[j].high) \in First(lows \o highs, 4)
  BY <1>9 DEF First
<1>11. Held(x, First(lows \o highs, 4))
  BY <1>4, <1>5, <1>10 DEF Held
<1> QED
  BY <1>3, <1>9, <1>11, BetweenHeld DEF lows, highs, ls

\* Every series of sound candles has its indicators within bounds.
THEOREM SoundBounded == candles \in Seq(SoundBars) => Bounded
<1> SUFFICES ASSUME candles \in Seq(SoundBars) PROVE Bounded
  OBVIOUS
<1> DEFINE xs == Closes(candles)
           n == Len(candles)
           ex == Ema(xs, P)
           trs == TrueRanges(candles)
           share(x) == x = Missing \/ (x.num >= 0 /\ x.num <= x.den)
           left[k \in 0 .. n] ==
             IF k = 0 THEN Whole(1) ELSE Times(left[k - 1], Frac(P - 1, P + 1))
           gap(s) == Less(Last(ex), Last(Ema(SubSeq(xs, s, n), P)))
           most(s) == Times(left[n - s], Whole(Top))
<1>1. P = 2 /\ P \in Positive /\ P > 1 /\ n \in Nat
  BY DEF P, Positive
<1>2. xs \in Seq(Quotients) /\ Len(xs) = n /\ DOMAIN xs = 1 .. n
  BY ClosesType
<1>3. \A i \in DOMAIN xs : Between(ex[i], SubSeq(xs, 1, i))
  <2> HIDE DEF xs
  <2>1. ASSUME NEW i \in 1 .. n PROVE Between(ex[i], SubSeq(xs, 1, i))
    <3>1. i \in 1 .. Len(xs)
      BY <1>2
    <3>2. Held(Ema(xs, P)[i], First(xs, i))
      BY <1>1, <1>2, <3>1, EmaHeld
    <3> QED
      BY <1>2, <3>1, <3>2, BetweenFirst
  <2> QED
    BY <1>2, <2>1
<1>4. \A s \in 2 .. n : AtMost(gap(s), most(s)) /\ AtMost(Neg(gap(s)), most(s))
  <2>1. Frac(P - 1, P + 1) \in Quotients
    <3>1. P - 1 \in Int /\ P + 1 \in Positive
      BY <1>1 DEF Positive
    <3> QED
      BY <3>1, FracType
  <2>2. Weights(left, n, Frac(P - 1, P + 1))
    BY <1>1, <2>1, WeightsExist
  <2> HIDE DEF left
  <2>3. ASSUME NEW s \in 2 .. n PROVE NoFurther(gap(s), most(s))
    <3>1. s \in 1 .. n
      BY <1>1
    <3> QED
      BY <1>1, <2>2, <3>1, GapBounded
  <2> HIDE DEF gap, most
  <2> QED
    BY <2>3 DEF NoFurther
<1>5. share(Rsi(xs, P)) /\ (n > P => (Rsi(xs, P) = Whole(1)
                <=> \A i \in 2 .. n : candles[i].close >= candles[i - 1].close))
  <2>1. Rsi(xs, P) = Missing \/ IsShare(Rsi(xs, P))
    BY <1>1, RsiBounded
  <2>2. n > P => (Rsi(xs, P) = Whole(1)
                <=> \A i \in 2 .. n : candles[i].close >= candles[i - 1].close)
    BY <1>1, RsiBounded
  <2> QED
    BY <2>1, <2>2 DEF IsShare
<1>6. share(Adx(candles, P))
  BY <1>1, AdxShare DEF Shares, IsShare
<1>7. n > P => Between(Atr(candles, P), LastOf(trs, P)) /\ Between(AtrWilder(candles, P), trs)
  BY <1>1, AtrBounded
<1>8. RollingVwap(candles, P) # Missing =>
          Between(RollingVwap(candles, P),
                  Fractions([i \in 1 .. P |-> LastOf(candles, P)[i].low])
                    \o Fractions([i \in 1 .. P |-> LastOf(candles, P)[i].high]))
  BY RollingBounded
<1> QED
  BY <1>3, <1>4, <1>5, <1>6, <1>7, <1>8 DEF Bounded

\* The series of a behaviour is one of sound candles.
THEOREM CandlesAreSound == FiguresSpec => [](candles \in Seq(SoundBars))
<1>1. CandlesType => candles \in Seq(SoundBars)
  BY CandlesSound DEF CandlesType
<1> QED
  BY <1>1, CandlesTyped, PTL

\* The indicators stay within their bounds.
THEOREM IndicatorsBounded == FiguresSpec => []Bounded
<1>1. candles \in Seq(SoundBars) => Bounded
  BY SoundBounded
<1> QED
  BY <1>1, CandlesAreSound, PTL

-----------------------------------------------------------------------------
(* The mirrored market                                                     *)

\* It is a market too, of prices that are what is left to the top.
LEMMA MirroredType ==
  ASSUME NEW cs \in Seq(SoundBars)
  PROVE  /\ Mirrored(cs) \in Seq(SoundBars) /\ Len(Mirrored(cs)) = Len(cs)
         /\ DOMAIN cs = 1 .. Len(cs) /\ DOMAIN Mirrored(cs) = 1 .. Len(cs)
         /\ \A i \in 1 .. Len(cs) :
              /\ cs[i] \in SoundBars
              /\ Mirrored(cs)[i].high = Top - cs[i].low /\ Mirrored(cs)[i].low = Top - cs[i].high
              /\ Mirrored(cs)[i].close = Top - cs[i].close
              /\ Mirrored(cs)[i].volume = cs[i].volume
<1> DEFINE ms == Mirrored(cs)
           n == Len(cs)
           bar(i) == [high |-> Top - cs[i].low, low |-> Top - cs[i].high,
                      close |-> Top - cs[i].close, volume |-> cs[i].volume]
<1>1. n \in Nat /\ DOMAIN cs = 1 .. n /\ \A i \in 1 .. n : cs[i] \in SoundBars
  OBVIOUS
<1>2. ms = [i \in 1 .. n |-> bar(i)]
  BY <1>1 DEF Mirrored
<1>3. ASSUME NEW i \in 1 .. n PROVE bar(i) \in SoundBars
  <2>1. PICK c \in SoundBars : c = cs[i]
    BY <1>1
  <2>2. /\ c.high \in Int /\ c.low \in Int /\ c.close \in Int /\ c.volume \in Nat
        /\ 0 < c.low /\ c.low <= c.close /\ c.close <= c.high /\ c.high < Top /\ Top \in Nat
    BY SoundParts, ShapesType
  <2>3. PICK hi \in Int, lo \in Int, cl \in Int : hi = c.high /\ lo = c.low /\ cl = c.close
    BY <2>2
  <2>4. /\ Top - lo \in 1 .. Top - 1 /\ Top - hi \in 1 .. Top - 1
        /\ Top - cl \in 1 .. Top - 1
        /\ Top - hi <= Top - cl /\ Top - cl <= Top - lo
    <3>1. 0 < lo /\ lo <= cl /\ cl <= hi /\ hi < Top /\ Top \in Int
      BY <2>2, <2>3
    <3> QED
      BY <3>1
  <2>5. bar(i) = [high |-> Top - lo, low |-> Top - hi, close |-> Top - cl, volume |-> c.volume]
    BY <2>1, <2>2, <2>3
  <2>6. PICK a \in 1 .. Top - 1, b \in 1 .. Top - 1, d \in 1 .. Top - 1 :
          a = Top - lo /\ b = Top - hi /\ d = Top - cl
    BY <2>4
  <2>7. b <= d /\ d <= a
    BY <2>4, <2>6
  <2>8. bar(i) = [high |-> a, low |-> b, close |-> d, volume |-> c.volume]
    BY <2>5, <2>6
  <2> HIDE DEF bar
  <2>9. bar(i) \in [high : 1 .. Top - 1, low : 1 .. Top - 1, close : 1 .. Top - 1, volume : Nat]
    BY <2>2, <2>6, <2>8
  <2>10. bar(i).low = b /\ bar(i).close = d /\ bar(i).high = a
    BY <2>8
  <2> QED
    BY <2>7, <2>9, <2>10 DEF SoundBars
<1>4. Listed(ms, n, SoundBars)
  <2> HIDE DEF bar
  <2> QED
    BY <1>2, <1>3 DEF Listed
<1> HIDE DEF ms, n
<1>5. ms \in Seq(SoundBars) /\ Len(ms) = n
  BY <1>1, <1>4, ListedSeq
<1>6. \A i \in 1 .. n : ms[i] = bar(i)
  <2> HIDE DEF bar
  <2> QED
    BY <1>2
<1> QED
  BY <1>1, <1>2, <1>5, <1>6 DEF ms, n

\* What is left to a whole w: differences turn.
LEMMA LeftTurns ==
  ASSUME NEW x \in Quotients, NEW y \in Quotients, NEW w \in Int
  PROVE  /\ Less(Whole(w), x) \in Quotients
         /\ Less(Less(Whole(w), x), Less(Whole(w), y)) = Neg(Less(x, y))
<1>1. PICK d \in Positive, n \in Int, m \in Int : x = Frac(n, d) /\ y = Frac(m, d)
  BY TwoCommon
<1>2. d \in Int
  BY DEF Positive
<1>3. PICK v \in Int : v = w * d
  BY <1>2
<1>4. PICK a \in Int, b \in Int, c \in Int : a = v - n /\ b = v - m /\ c = n - m
  OBVIOUS
<1>5. Less(Whole(w), x) = Frac(a, d) /\ Less(Whole(w), y) = Frac(b, d)
  <2>1. Whole(w) = Frac(v, d)
    BY <1>3, WholeFrac
  <2> QED
    BY <1>1, <1>4, <2>1, LessSame
<1>6. Less(x, y) = Frac(c, d) /\ Neg(Frac(c, d)) = Frac(-c, d)
  BY <1>1, <1>4, LessSame, NegFrac
<1>7. Less(Frac(a, d), Frac(b, d)) = Frac(a - b, d) /\ a - b = -c
  BY <1>4, LessSame
<1> QED
  BY <1>5, <1>6, <1>7, FracType

\* The negative is what is left to zero.
LEMMA NegLeft ==
  ASSUME NEW x \in Quotients
  PROVE  Neg(x) = Less(Whole(0), x)
<1>1. Neg(x) \in Quotients
  BY OpsType
<1> QED
  BY <1>1, ZeroPlus DEF Less, Zero

\* The average of what is left is what is left of the average.
LEMMA BlendLeft ==
  ASSUME NEW x \in Quotients, NEW y \in Quotients, NEW w \in Int, NEW p \in Positive
  PROVE  Blend(Less(Whole(w), x), Less(Whole(w), y), p) = Less(Whole(w), Blend(x, y, p))
<1>1. PICK d \in Positive, n \in Int, m \in Int : x = Frac(n, d) /\ y = Frac(m, d)
  BY TwoCommon
<1>2. d \in Int /\ p \in Int
  BY DEF Positive
<1>3. PICK v \in Int : v = w * d
  BY <1>2
<1>4. PICK a \in Int, b \in Int : a = v - n /\ b = v - m
  OBVIOUS
<1>5. Less(Whole(w), x) = Frac(a, d) /\ Less(Whole(w), y) = Frac(b, d)
  <2>1. Whole(w) = Frac(v, d)
    BY <1>3, WholeFrac
  <2> QED
    BY <1>1, <1>4, <2>1, LessSame
<1>6. PICK e \in Positive : e = d * (p + 1)
  BY BlendFrac
<1>7. PICK s \in Int : s = 2 * n + (p - 1) * m
  BY <1>2
<1>8. PICK t \in Int : t = 2 * a + (p - 1) * b
  BY <1>2
<1>9. Blend(x, y, p) = Frac(s, e) /\ Blend(Frac(a, d), Frac(b, d), p) = Frac(t, e)
  BY <1>1, <1>6, <1>7, <1>8, BlendFrac
<1>10. e \in Int
  BY DEF Positive
<1>11. PICK u \in Int : u = w * e
  BY <1>10
<1>12. Less(Whole(w), Frac(s, e)) = Frac(u - s, e)
  <2>1. Whole(w) = Frac(u, e)
    BY <1>11, WholeFrac
  <2> QED
    BY <2>1, LessSame
<1>13. t = u - s
  <2>1. u = v * (p + 1)
    BY <1>2, <1>3, <1>6, <1>11
  <2> QED
    BY <1>2, <1>4, <1>7, <1>8, <2>1
<1> QED
  BY <1>5, <1>9, <1>12, <1>13

\* Two sequences of which the one has what is left to w.
Opposite(ys, xs, w) ==
  /\ xs \in Seq(Quotients) /\ ys \in Seq(Quotients) /\ Len(ys) = Len(xs)
  /\ \A i \in 1 .. Len(xs) : ys[i] = Less(Whole(w), xs[i])

\* Their exponential averages are so too.
LEMMA EmaOpposite ==
  ASSUME NEW xs, NEW ys, NEW w \in Int, Opposite(ys, xs, w), NEW p \in Positive
  PROVE  \A i \in 1 .. Len(xs) : Ema(ys, p)[i] = Less(Whole(w), Ema(xs, p)[i])
<1> DEFINE n == Len(xs)
           e == Ema(xs, p)
           f == Ema(ys, p)
           G == {k \in 0 .. n : k > 0 => f[k] = Less(Whole(w), e[k])}
<1>1. /\ xs \in Seq(Quotients) /\ ys \in Seq(Quotients) /\ Len(ys) = n /\ n \in Nat
      /\ \A i \in 1 .. n : ys[i] = Less(Whole(w), xs[i]) /\ xs[i] \in Quotients
  BY DEF Opposite
<1>2. Averages(e, xs, p) /\ Averages(f, ys, p)
  BY <1>1, EmaTurns
<1> HIDE DEF e, f
<1>3. \A i \in 1 .. n : /\ e[i] \in Quotients
                        /\ e[i] = IF i = 1 THEN xs[1] ELSE Blend(xs[i], e[i - 1], p)
                        /\ f[i] = IF i = 1 THEN ys[1] ELSE Blend(ys[i], f[i - 1], p)
  BY <1>1, <1>2 DEF Averages
<1> HIDE DEF n
<1>4. 0 \in G
  BY <1>1
<1>5. ASSUME NEW k \in 0 .. n - 1, k \in G PROVE k + 1 \in G
  <2>1. k + 1 \in 1 .. n /\ k + 1 \in 0 .. n /\ (k + 1) - 1 = k
    BY <1>1
  <2>2. CASE k = 0
    BY <1>1, <1>3, <2>1, <2>2
  <2>3. CASE k # 0
    <3>1. k \in 1 .. n /\ k > 0 /\ k + 1 # 1
      BY <1>1, <2>3
    <3>2. f[k] = Less(Whole(w), e[k])
      BY <1>5, <3>1
    <3>3. f[k + 1] = Blend(ys[k + 1], f[k], p) /\ e[k + 1] = Blend(xs[k + 1], e[k], p)
      BY <1>3, <2>1, <3>1
    <3>4. ys[k + 1] = Less(Whole(w), xs[k + 1]) /\ xs[k + 1] \in Quotients /\ e[k] \in Quotients
      BY <1>1, <1>3, <2>1, <3>1
    <3>5. Blend(Less(Whole(w), xs[k + 1]), Less(Whole(w), e[k]), p)
            = Less(Whole(w), Blend(xs[k + 1], e[k], p))
      BY <3>4, BlendLeft
    <3> QED
      BY <2>1, <3>2, <3>3, <3>4, <3>5
  <2> QED
    BY <2>2, <2>3
<1> HIDE DEF G
<1>6. 0 .. n \subseteq G
  BY <1>1, <1>4, <1>5, Turns
<1>7. \A i \in 1 .. n : i \in G
  BY <1>1, <1>6
<1> QED
  BY <1>1, <1>7 DEF G, e, f, n

\* The closes of the mirrored market are what is left to the top.
LEMMA ClosesOpposite ==
  ASSUME NEW cs \in Seq(SoundBars)
  PROVE  Opposite(Closes(Mirrored(cs)), Closes(cs), Top)
<1> DEFINE ms == Mirrored(cs)
<1>1. /\ ms \in Seq(SoundBars) /\ Len(ms) = Len(cs)
      /\ \A i \in 1 .. Len(cs) : ms[i].close = Top - cs[i].close
  BY MirroredType
<1> HIDE DEF ms
<1>2. /\ Closes(cs) \in Seq(Quotients) /\ Len(Closes(cs)) = Len(cs)
      /\ \A i \in 1 .. Len(cs) : cs[i].close \in Int /\ Closes(cs)[i] = Whole(cs[i].close)
  BY ClosesType
<1>3. /\ Closes(ms) \in Seq(Quotients) /\ Len(Closes(ms)) = Len(cs)
      /\ \A i \in 1 .. Len(cs) : Closes(ms)[i] = Whole(ms[i].close)
  BY <1>1, ClosesType
<1>4. Top \in Int
  BY ShapesType
<1>5. ASSUME NEW i \in 1 .. Len(cs) PROVE Closes(ms)[i] = Less(Whole(Top), Closes(cs)[i])
  <2>1. PICK c \in Int : c = cs[i].close
    BY <1>2
  <2>2. Less(Whole(Top), Whole(c)) = Whole(Top - c)
    BY <1>4, WholeOrder
  <2> QED
    BY <1>1, <1>2, <1>3, <2>1, <2>2
<1> QED
  BY <1>2, <1>3, <1>5 DEF Opposite, ms

\* Gains and losses change places.
LEMMA MovesOpposite ==
  ASSUME NEW xs, NEW ys, NEW w \in Int, Opposite(ys, xs, w)
  PROVE  Gains(ys) = Drops(xs) /\ Drops(ys) = Gains(xs)
<1>1. /\ xs \in Seq(Quotients) /\ ys \in Seq(Quotients) /\ Len(ys) = Len(xs) /\ Len(xs) \in Nat
      /\ \A i \in 1 .. Len(xs) : ys[i] = Less(Whole(w), xs[i]) /\ xs[i] \in Quotients
  BY DEF Opposite
<1>2. ASSUME NEW i \in 1 .. Len(xs) - 1
      PROVE  Move(ys, i) = Neg(Move(xs, i)) /\ Neg(Move(ys, i)) = Move(xs, i)
  <2>1. i \in 1 .. Len(xs) /\ i + 1 \in 1 .. Len(xs)
    BY <1>1
  <2>2. PICK x \in Quotients, y \in Quotients : x = xs[i] /\ y = xs[i + 1]
    BY <1>1, <2>1
  <2>3. Less(Less(Whole(w), y), Less(Whole(w), x)) = Neg(Less(y, x))
    BY LeftTurns
  <2>4. Move(ys, i) = Neg(Less(y, x)) /\ Move(xs, i) = Less(y, x)
    BY <1>1, <2>1, <2>2, <2>3 DEF Move
  <2>5. Neg(Neg(Less(y, x))) = Less(y, x)
    <3>1. PICK d \in Positive, n \in Int : Less(y, x) = Frac(n, d)
      BY OpsType DEF Quotients
    <3>2. PICK m \in Int : m = -n
      OBVIOUS
    <3>3. -m = n
      BY <3>2
    <3> QED
      BY <3>1, <3>2, <3>3, NegFrac
  <2> QED
    BY <2>4, <2>5
<1> QED
  BY <1>1, <1>2 DEF Gains, Drops

\* Neighbours are all equal exactly where all are.
LEMMA AllEqual ==
  ASSUME NEW xs \in Seq(Quotients)
  PROVE  (\A i \in 1 .. Len(xs) - 1 : xs[i + 1] = xs[i])
           <=> \A i, j \in 1 .. Len(xs) : xs[i] = xs[j]
<1> DEFINE n == Len(xs)
           G == {k \in 0 .. n - 1 : xs[k + 1] = xs[1]}
<1>1. n \in Nat
  OBVIOUS
<1> HIDE DEF n
<1>2. ASSUME \A i \in 1 .. n - 1 : xs[i + 1] = xs[i], n > 0
      PROVE  \A i \in 1 .. n : xs[i] = xs[1]
  <2>1. 0 \in G
    BY <1>1, <1>2
  <2>2. ASSUME NEW k \in 0 .. (n - 1) - 1, k \in G PROVE k + 1 \in G
    <3>1. k + 1 \in 0 .. n - 1 /\ k + 1 \in 1 .. n - 1
      BY <1>1
    <3>2. xs[(k + 1) + 1] = xs[k + 1] /\ xs[k + 1] = xs[1]
      BY <1>2, <2>2, <3>1
    <3> QED
      BY <3>1, <3>2
  <2>3. n - 1 \in Nat
    BY <1>1, <1>2
  <2> HIDE DEF G
  <2>4. 0 .. n - 1 \subseteq G
    BY <2>1, <2>2, <2>3, Turns
  <2>5. ASSUME NEW i \in 1 .. n PROVE xs[i] = xs[1]
    <3>1. i - 1 \in 0 .. n - 1 /\ (i - 1) + 1 = i
      BY <1>1
    <3> QED
      BY <2>4, <3>1 DEF G
  <2> QED
    BY <2>5
<1>3. ASSUME \A i \in 1 .. n - 1 : xs[i + 1] = xs[i] PROVE \A i, j \in 1 .. n : xs[i] = xs[j]
  <2>1. CASE n > 0
    BY <1>2, <1>3, <2>1
  <2>2. CASE n = 0
    BY <2>2
  <2> QED
    BY <1>1, <2>1, <2>2
<1>4. ASSUME \A i, j \in 1 .. n : xs[i] = xs[j] PROVE \A i \in 1 .. n - 1 : xs[i + 1] = xs[i]
  <2> TAKE i \in 1 .. n - 1
  <2>1. i \in 1 .. n /\ i + 1 \in 1 .. n
    BY <1>1
  <2> QED
    BY <1>4, <2>1
<1> QED
  BY <1>3, <1>4 DEF n

\* RSI is what is left to one, but where no value ever moved.
THEOREM RsiOpposite ==
  ASSUME NEW xs, NEW ys, NEW w \in Int, Opposite(ys, xs, w), NEW p \in Positive, p > 1
  PROVE  Rsi(ys, p) = IF \A i, j \in 1 .. Len(xs) : xs[i] = xs[j]
                      THEN Rsi(xs, p) ELSE LeftOf(Rsi(xs, p), Whole(1))
<1> DEFINE n == Len(xs)
           g == Wilder(Gains(xs), p)
           l == Wilder(Drops(xs), p)
<1>1. /\ xs \in Seq(Quotients) /\ Len(ys) = n /\ n \in Nat /\ p \in Int
      /\ Gains(ys) = Drops(xs) /\ Drops(ys) = Gains(xs)
  <2>1. xs \in Seq(Quotients) /\ Len(ys) = n /\ n \in Nat
    BY DEF Opposite
  <2>2. Gains(ys) = Drops(xs) /\ Drops(ys) = Gains(xs)
    BY MovesOpposite
  <2>3. p \in Int
    BY DEF Positive
  <2> QED
    BY <2>1, <2>2, <2>3
<1>2. CASE n < p + 1
  <2>1. Rsi(xs, p) = Missing /\ Rsi(ys, p) = Missing
    BY <1>1, <1>2, RsiIs
  <2> QED
    BY <2>1 DEF LeftOf
<1>3. CASE ~ (n < p + 1)
  <2>1. n > 0 /\ p <= n - 1
    BY <1>1, <1>3
  <2>2. Rsi(xs, p) = RsiOf(g, l) /\ Rsi(ys, p) = RsiOf(l, g)
    BY <1>1, <1>3, RsiIs
  <2>3. /\ Gains(xs) \in Seq(Unsigned) /\ Len(Gains(xs)) = n - 1
        /\ Drops(xs) \in Seq(Unsigned) /\ Len(Drops(xs)) = n - 1
        /\ AllZero(Gains(xs)) <=> \A i \in 1 .. n - 1 : AtMost(xs[i + 1], xs[i])
        /\ AllZero(Drops(xs)) <=> \A i \in 1 .. n - 1 : AtMost(xs[i], xs[i + 1])
    BY <1>1, <2>1, GainsType
  <2>4. /\ g \in Unsigned /\ (g = Zero <=> AllZero(Gains(xs)))
        /\ l \in Unsigned /\ (l = Zero <=> AllZero(Drops(xs)))
    BY <2>1, <2>3, WilderUnsigned
  <2> HIDE DEF g, l
  <2>5. RsiFacts(g, l)
    BY <2>4, RsiShare
  <2>6. g = Zero /\ l = Zero <=> \A i \in 1 .. n - 1 : xs[i + 1] = xs[i]
    <3>1. ASSUME NEW i \in 1 .. n - 1
          PROVE  AtMost(xs[i + 1], xs[i]) /\ AtMost(xs[i], xs[i + 1]) <=> xs[i + 1] = xs[i]
      <4>1. i \in 1 .. n /\ i + 1 \in 1 .. n
        BY <1>1
      <4>2. PICK x \in Quotients, y \in Quotients : x = xs[i] /\ y = xs[i + 1]
        BY <1>1, <4>1
      <4>3. AtMost(x, y) /\ AtMost(y, x) <=> x = y
        BY AtMostOrder
      <4> QED
        BY <4>2, <4>3
    <3> QED
      BY <2>3, <2>4, <3>1
  <2>7. g = Zero /\ l = Zero <=> \A i, j \in 1 .. n : xs[i] = xs[j]
    BY <1>1, <2>6, AllEqual
  <2>8. RsiOf(g, l) # Missing
        /\ RsiOf(l, g) = IF g = Zero /\ l = Zero THEN RsiOf(g, l) ELSE Less(Whole(1), RsiOf(g, l))
    BY <2>5 DEF RsiFacts
  <2> QED
    BY <2>2, <2>7, <2>8 DEF LeftOf
<1> QED
  BY <1>2, <1>3

\* The sign of a quotient is that of what is divided, if by more than nothing.
LEMMA OverSign ==
  ASSUME NEW x \in Quotients, NEW y \in Quotients, y.num > 0
  PROVE  /\ Over(x, y).num > 0 <=> x.num > 0
         /\ Over(x, y).num < 0 <=> x.num < 0
<1>1. PICK n \in Int, d \in Positive, m \in Int, e \in Positive :
         /\ n = x.num /\ d = x.den /\ m = y.num /\ e = y.den
         /\ x = Frac(n, d) /\ y = Frac(m, e)
  BY QuotientParts
<1>2. m > 0 /\ d \in Int /\ e \in Int /\ d > 0 /\ e > 0
  BY <1>1 DEF Positive
<1>3. PICK k \in Int : k = n * e
  BY <1>2
<1>4. PICK j \in Int : j = d * m
  BY <1>2
<1>5. j \in Positive /\ (k > 0 <=> n > 0) /\ (k < 0 <=> n < 0)
  BY <1>2, <1>3, <1>4 DEF Positive
<1>6. Over(x, y) = Frac(k, j)
  <2>1. Over(Frac(n, d), Frac(m, e)) = Frac(n * e, d * m)
    BY <1>2, OverFrac
  <2> QED
    BY <1>1, <1>3, <1>4, <2>1
<1> QED
  BY <1>1, <1>5, <1>6, FracSign

\* An average over positive prices slopes the other way in the mirrored market.
LEMMA SlopeOpposite ==
  ASSUME NEW e \in Seq(Quotients), NEW f, NEW w \in Int, Opposite(f, e, w), Len(e) > 1,
         \A i \in 1 .. Len(e) : e[i].num > 0 /\ f[i].num > 0
  PROVE  /\ EmaSlope(e, 1).num > 0 <=> EmaSlope(f, 1).num < 0
         /\ EmaSlope(e, 1).num < 0 <=> EmaSlope(f, 1).num > 0
<1> DEFINE n == Len(e)
<1>1. /\ n \in Nat /\ f \in Seq(Quotients) /\ Len(f) = n /\ n \in 1 .. n /\ n - 1 \in 1 .. n
      /\ ~ (n < 1 + 1)
  BY DEF Opposite
<1>2. PICK x \in Quotients, y \in Quotients, u \in Quotients, v \in Quotients :
         x = e[n - 1] /\ y = e[n] /\ u = f[n - 1] /\ v = f[n]
  BY <1>1
<1>3. u = Less(Whole(w), x) /\ v = Less(Whole(w), y) /\ x.num > 0 /\ u.num > 0
  BY <1>1, <1>2 DEF Opposite
<1>4. x # Zero /\ u # Zero
  BY <1>3, ZeroIs
<1>5. EmaSlope(e, 1) = Over(Less(y, x), x) /\ EmaSlope(f, 1) = Over(Less(v, u), u)
  BY <1>1, <1>2, <1>4 DEF EmaSlope, Last
<1>6. Less(v, u) = Neg(Less(y, x)) /\ Less(v, u) \in Quotients /\ Less(y, x) \in Quotients
  BY <1>3, LeftTurns, OpsType
<1>7. PICK d \in Quotients : d = Less(y, x)
  BY <1>6
<1>8. PICK c \in Quotients : c = Less(v, u)
  BY <1>6
<1>9. c.num = - d.num /\ d.num \in Int
  <2>1. PICK m \in Int, k \in Positive : d = [num |-> m, den |-> k]
    BY QuotientParts
  <2> QED
    BY <1>6, <1>7, <1>8, <2>1 DEF Neg
<1>10. /\ Over(d, x).num > 0 <=> d.num > 0
       /\ Over(d, x).num < 0 <=> d.num < 0
  BY <1>3, OverSign
<1>11. /\ Over(c, u).num > 0 <=> c.num > 0
       /\ Over(c, u).num < 0 <=> c.num < 0
  BY <1>3, OverSign
<1>12. (d.num > 0 <=> c.num < 0) /\ (d.num < 0 <=> c.num > 0)
  BY <1>9
<1> QED
  BY <1>5, <1>7, <1>8, <1>10, <1>11, <1>12

\* The line of MACD and what it differs by from its own average.
Line(xs, fast, slow) == [i \in DOMAIN xs |-> Less(Ema(xs, fast)[i], Ema(xs, slow)[i])]
Hist(xs, fast, slow, signal) ==
  Less(Last(Line(xs, fast, slow)), Last(Ema(Line(xs, fast, slow), signal)))

\* Macd is made of these.
LEMMA MacdIs ==
  ASSUME NEW xs, NEW fast, NEW slow, NEW signal
  PROVE  Macd(xs, fast, slow, signal)
           = IF Len(xs) < slow + signal THEN Missing
             ELSE [line |-> Last(Line(xs, fast, slow)),
                   sig |-> Last(Ema(Line(xs, fast, slow), signal)),
                   hist |-> Hist(xs, fast, slow, signal)]
BY DEF Macd, Line, Hist

\* Over opposite values the lines are opposite to zero.
LEMMA LineOpposite ==
  ASSUME NEW xs, NEW ys, NEW w \in Int, Opposite(ys, xs, w),
         NEW fast \in Positive, NEW slow \in Positive
  PROVE  Opposite(Line(ys, fast, slow), Line(xs, fast, slow), 0)
         /\ Len(Line(xs, fast, slow)) = Len(xs)
<1> DEFINE n == Len(xs)
           k == Line(xs, fast, slow)
           l == Line(ys, fast, slow)
<1>1. /\ xs \in Seq(Quotients) /\ ys \in Seq(Quotients) /\ Len(ys) = n /\ n \in Nat
      /\ DOMAIN xs = 1 .. n /\ DOMAIN ys = 1 .. n
  BY DEF Opposite
<1>2. /\ Averages(Ema(xs, fast), xs, fast) /\ Averages(Ema(xs, slow), xs, slow)
      /\ Averages(Ema(ys, fast), ys, fast) /\ Averages(Ema(ys, slow), ys, slow)
  BY <1>1, EmaTurns
<1>3. \A i \in 1 .. n : /\ Ema(xs, fast)[i] \in Quotients /\ Ema(xs, slow)[i] \in Quotients
                        /\ Ema(ys, fast)[i] \in Quotients /\ Ema(ys, slow)[i] \in Quotients
  BY <1>1, <1>2 DEF Averages
<1>4. \A i \in 1 .. n : /\ Ema(ys, fast)[i] = Less(Whole(w), Ema(xs, fast)[i])
                        /\ Ema(ys, slow)[i] = Less(Whole(w), Ema(xs, slow)[i])
  BY EmaOpposite
<1> HIDE DEF n
<1>5. /\ k = [i \in 1 .. n |-> Less(Ema(xs, fast)[i], Ema(xs, slow)[i])]
      /\ l = [i \in 1 .. n |-> Less(Ema(ys, fast)[i], Ema(ys, slow)[i])]
  BY <1>1 DEF Line
<1> HIDE DEF k, l
<1>6. ASSUME NEW i \in 1 .. n
      PROVE  k[i] \in Quotients /\ l[i] \in Quotients /\ l[i] = Less(Whole(0), k[i])
  <2>1. PICK a \in Quotients, b \in Quotients : a = Ema(xs, fast)[i] /\ b = Ema(xs, slow)[i]
    BY <1>3
  <2>2. k[i] = Less(a, b) /\ l[i] = Less(Less(Whole(w), a), Less(Whole(w), b))
    BY <1>4, <1>5, <2>1
  <2>3. l[i] = Neg(Less(a, b))
    BY <2>2, LeftTurns
  <2>4. Less(a, b) \in Quotients
    BY OpsType
  <2>5. PICK c \in Quotients : c = Less(a, b)
    BY <2>4
  <2>6. Neg(c) = Less(Whole(0), c) /\ Neg(c) \in Quotients
    BY NegLeft, OpsType
  <2> QED
    BY <2>2, <2>3, <2>5, <2>6
<1>7. Listed(k, n, Quotients) /\ Listed(l, n, Quotients)
  BY <1>5, <1>6 DEF Listed
<1>8. k \in Seq(Quotients) /\ Len(k) = n /\ l \in Seq(Quotients) /\ Len(l) = n
  BY <1>1, <1>7, ListedSeq
<1> QED
  BY <1>6, <1>8 DEF Opposite, n, k, l

\* So are the histograms.
LEMMA HistOpposite ==
  ASSUME NEW xs, NEW ys, NEW w \in Int, Opposite(ys, xs, w), Len(xs) > 0,
         NEW fast \in Positive, NEW slow \in Positive, NEW signal \in Positive
  PROVE  Hist(ys, fast, slow, signal) = Neg(Hist(xs, fast, slow, signal))
<1> DEFINE n == Len(xs)
           k == Line(xs, fast, slow)
           l == Line(ys, fast, slow)
<1>1. Opposite(l, k, 0) /\ Len(k) = n
  BY LineOpposite
<1>2. n \in Nat /\ n \in 1 .. n
  BY DEF Opposite
<1> HIDE DEF k, l, n
<1>3. /\ k \in Seq(Quotients) /\ l \in Seq(Quotients) /\ Len(l) = n
      /\ l[n] = Less(Whole(0), k[n]) /\ k[n] \in Quotients
  BY <1>1, <1>2 DEF Opposite
<1>4. Last(k) = k[n] /\ Last(l) = l[n]
  BY <1>1, <1>3 DEF Last
<1>5. /\ Last(Ema(k, signal)) = Ema(k, signal)[n] /\ Last(Ema(l, signal)) = Ema(l, signal)[n]
      /\ Ema(k, signal) \in Seq(Quotients) /\ Len(Ema(k, signal)) = n
  BY <1>1, <1>3, EmaLength
<1>6. Ema(l, signal)[n] = Less(Whole(0), Ema(k, signal)[n])
  BY <1>1, <1>2, EmaOpposite
<1>7. Ema(k, signal)[n] \in Quotients
  BY <1>2, <1>5
<1>8. PICK a \in Quotients, b \in Quotients : a = k[n] /\ b = Ema(k, signal)[n]
  BY <1>3, <1>7
<1>9. Less(Less(Whole(0), a), Less(Whole(0), b)) = Neg(Less(a, b))
  BY LeftTurns
<1>10. Less(Last(l), Last(Ema(l, signal))) = Neg(Less(Last(k), Last(Ema(k, signal))))
  BY <1>3, <1>4, <1>5, <1>6, <1>8, <1>9
<1> QED
  BY <1>10 DEF Hist, k, l

-----------------------------------------------------------------------------
(* Ranges and volumes stay                                                 *)

\* A mirrored candle ranges as far.
LEMMA TrueRangeStays ==
  ASSUME NEW cs \in Seq(SoundBars)
  PROVE  TrueRanges(Mirrored(cs)) = TrueRanges(cs)
<1> DEFINE ms == Mirrored(cs)
<1>1. /\ Len(ms) = Len(cs) /\ Len(cs) \in Nat
      /\ \A i \in 1 .. Len(cs) :
           /\ cs[i] \in SoundBars
           /\ ms[i].high = Top - cs[i].low /\ ms[i].low = Top - cs[i].high
           /\ ms[i].close = Top - cs[i].close
  BY MirroredType
<1>2. Top \in Int
  BY ShapesType
<1> HIDE DEF ms
<1>3. ASSUME NEW i \in 2 .. Len(cs) PROVE TrueRange(ms, i) = TrueRange(cs, i)
  <2>1. i \in 1 .. Len(cs) /\ i - 1 \in 1 .. Len(cs)
    BY <1>1
  <2>2. PICK hi \in Int, lo \in Int, cl \in Int :
           hi = cs[i].high /\ lo = cs[i].low /\ cl = cs[i - 1].close
    BY <1>1, <2>1, SoundParts
  <2>3. ms[i].high = Top - lo /\ ms[i].low = Top - hi /\ ms[i - 1].close = Top - cl
    BY <1>1, <2>1, <2>2
  <2>4. /\ (Top - lo) - (Top - hi) = hi - lo
        /\ (Top - lo) - (Top - cl) = cl - lo /\ (Top - hi) - (Top - cl) = cl - hi
    BY <1>2
  <2>5. Abs(cl - lo) = Abs(lo - cl) /\ Abs(cl - hi) = Abs(hi - cl)
    BY DEF Abs
  <2>6. TrueRange(ms, i) = Max({hi - lo, Abs(cl - lo), Abs(cl - hi)})
    BY <2>3, <2>4 DEF TrueRange
  <2>7. TrueRange(cs, i) = Max({hi - lo, Abs(hi - cl), Abs(lo - cl)})
    BY <2>2 DEF TrueRange
  <2>8. {hi - lo, Abs(cl - lo), Abs(cl - hi)} = {hi - lo, Abs(hi - cl), Abs(lo - cl)}
    BY <2>5
  <2> QED
    BY <2>6, <2>7, <2>8
<1>4. ASSUME NEW i \in 1 .. Len(cs) - 1 PROVE TrueRange(ms, i + 1) = TrueRange(cs, i + 1)
  <2>1. i + 1 \in 2 .. Len(cs)
    BY <1>1
  <2> QED
    BY <1>3, <2>1
<1> QED
  BY <1>1, <1>4 DEF TrueRanges, ms

\* Movements up and down change places.
LEMMA MovementsTurn ==
  ASSUME NEW cs \in Seq(SoundBars)
  PROVE  PlusMoves(Mirrored(cs)) = MinusMoves(cs) /\ MinusMoves(Mirrored(cs)) = PlusMoves(cs)
<1> DEFINE ms == Mirrored(cs)
<1>1. /\ Len(ms) = Len(cs) /\ Len(cs) \in Nat
      /\ \A i \in 1 .. Len(cs) :
           /\ cs[i] \in SoundBars
           /\ ms[i].high = Top - cs[i].low /\ ms[i].low = Top - cs[i].high
  BY MirroredType
<1>2. Top \in Int
  BY ShapesType
<1> HIDE DEF ms
<1>3. ASSUME NEW i \in 2 .. Len(cs)
      PROVE  Moves(ms, i).plus = Moves(cs, i).minus /\ Moves(ms, i).minus = Moves(cs, i).plus
  <2>1. i \in 1 .. Len(cs) /\ i - 1 \in 1 .. Len(cs)
    BY <1>1
  <2>2. PICK hi \in Int, lo \in Int : hi = cs[i].high /\ lo = cs[i].low
    BY <1>1, <2>1, SoundParts
  <2>3. PICK hi0 \in Int, lo0 \in Int : hi0 = cs[i - 1].high /\ lo0 = cs[i - 1].low
    BY <1>1, <2>1, SoundParts
  <2>4. /\ ms[i].high = Top - lo /\ ms[i].low = Top - hi
        /\ ms[i - 1].high = Top - lo0 /\ ms[i - 1].low = Top - hi0
    BY <1>1, <2>1, <2>2, <2>3
  <2>5. PICK up \in Int, down \in Int : up = hi - hi0 /\ down = lo0 - lo
    OBVIOUS
  <2>6. (Top - lo) - (Top - lo0) = down /\ (Top - hi0) - (Top - hi) = up
    BY <1>2, <2>5
  <2>7. Moves(cs, i) = [plus |-> IF up > down /\ up > 0 THEN up ELSE 0,
                        minus |-> IF down > up /\ down > 0 THEN down ELSE 0]
    BY <2>2, <2>3, <2>5 DEF Moves
  <2>8. Moves(ms, i) = [plus |-> IF down > up /\ down > 0 THEN down ELSE 0,
                        minus |-> IF up > down /\ up > 0 THEN up ELSE 0]
    BY <2>4, <2>6 DEF Moves
  <2> QED
    BY <2>7, <2>8
<1>4. ASSUME NEW i \in 1 .. Len(cs) - 1
      PROVE  /\ Moves(ms, i + 1).plus = Moves(cs, i + 1).minus
             /\ Moves(ms, i + 1).minus = Moves(cs, i + 1).plus
  <2>1. i + 1 \in 2 .. Len(cs)
    BY <1>1
  <2> QED
    BY <1>3, <2>1
<1> QED
  BY <1>1, <1>4 DEF PlusMoves, MinusMoves, ms

\* The averages of ranges, and the volume ratio, stay.
LEMMA RangesStay ==
  ASSUME NEW cs \in Seq(SoundBars), NEW p \in Positive
  PROVE  /\ Atr(Mirrored(cs), p) = Atr(cs, p) /\ AtrWilder(Mirrored(cs), p) = AtrWilder(cs, p)
         /\ VolumeRatio(Mirrored(cs), p) = VolumeRatio(cs, p)
<1>1. Len(Mirrored(cs)) = Len(cs) /\ TrueRanges(Mirrored(cs)) = TrueRanges(cs)
  BY MirroredType, TrueRangeStays
<1>2. Volumes(Mirrored(cs)) = Volumes(cs)
  <2>1. /\ DOMAIN cs = 1 .. Len(cs) /\ DOMAIN Mirrored(cs) = 1 .. Len(cs)
        /\ \A i \in 1 .. Len(cs) : Mirrored(cs)[i].volume = cs[i].volume
    BY MirroredType
  <2> QED
    BY <2>1 DEF Volumes
<1> QED
  BY <1>1, <1>2 DEF Atr, AtrWilder, VolumeRatio

\* ADX does not tell up from down.
LEMMA AdxStays ==
  ASSUME NEW cs \in Seq(SoundBars), NEW p \in Positive
  PROVE  Adx(Mirrored(cs), p) = Adx(cs, p)
<1> DEFINE ms == Mirrored(cs)
<1>1. Len(ms) = Len(cs) /\ Len(cs) \in Nat /\ p \in Int /\ p > 0
  BY MirroredType DEF Positive
<1>2. /\ TrueRanges(ms) = TrueRanges(cs)
      /\ PlusMoves(ms) = MinusMoves(cs) /\ MinusMoves(ms) = PlusMoves(cs)
  BY TrueRangeStays, MovementsTurn
<1> HIDE DEF ms
<1>3. CASE Len(cs) < 2 * p + 1
  BY <1>1, <1>3 DEF Adx, ms
<1>4. CASE ~ (Len(cs) < 2 * p + 1)
  <2>1. Len(cs) > p
    BY <1>1, <1>4
  <2>2. PICK n \in Nat : n = Len(cs) - p
    BY <1>1, <2>1
  <2>3. /\ Sized(WilderSums(TrueRanges(cs), p), n)
        /\ Sized(WilderSums(PlusMoves(cs), p), n)
        /\ Sized(WilderSums(MinusMoves(cs), p), n)
    BY <2>1, <2>2, WindowsSized
  <2>4. Indexed(WilderSums(TrueRanges(cs), p), WilderSums(MinusMoves(cs), p),
                WilderSums(PlusMoves(cs), p))
          = Indexed(WilderSums(TrueRanges(cs), p), WilderSums(PlusMoves(cs), p),
                    WilderSums(MinusMoves(cs), p))
    BY <2>3, IndexedShares
  <2>5. DirectionalIndices(ms, p) = DirectionalIndices(cs, p)
    BY <1>2, <2>4, DirectionalIs
  <2> QED
    BY <1>1, <2>5 DEF Adx, ms
<1> QED
  BY <1>3, <1>4

\* One candle is the mirror image of another.
Facing(m, c) == /\ m.high = Top - c.low /\ m.low = Top - c.high
                /\ m.close = Top - c.close /\ m.volume = c.volume

\* The volume-weighted price is what is left to the top.
LEMMA VwapOpposite ==
  ASSUME NEW cs \in Seq(SoundBars), NEW ms \in Seq(SoundBars), Len(cs) = 2, Len(ms) = 2,
         Facing(ms[1], cs[1]), Facing(ms[2], cs[2])
  PROVE  Vwap(ms) = LeftOf(Vwap(cs), Whole(Top))
<1>1. cs[1] \in SoundBars /\ cs[2] \in SoundBars /\ 1 \in 1 .. 2 /\ 2 \in 1 .. 2
  OBVIOUS
<1>2. PICK v \in Nat : v = cs[1].volume
  BY <1>1, SoundParts
<1>3. PICK w \in Nat : w = cs[2].volume
  BY <1>1, SoundParts
<1>4. PICK n \in Int : n = cs[1].high + cs[1].low + cs[1].close
  BY <1>1, SoundParts
<1>5. PICK m \in Int : m = cs[2].high + cs[2].low + cs[2].close
  BY <1>1, SoundParts
<1>6. Top \in Int
  BY ShapesType
<1>7. PICK s \in Nat : s = v + w
  OBVIOUS
<1>8. PICK n2 \in Int, m2 \in Int : n2 = 3 * Top - n /\ m2 = 3 * Top - m
  <2>1. 3 * Top - n \in Int /\ 3 * Top - m \in Int
    BY <1>6
  <2> QED
    BY <2>1
<1>9. ms[1].high + ms[1].low + ms[1].close = n2 /\ ms[2].high + ms[2].low + ms[2].close = m2
  <2>1. ASSUME NEW m1, NEW c \in SoundBars, Facing(m1, c)
        PROVE  m1.high + m1.low + m1.close = 3 * Top - (c.high + c.low + c.close)
    <3>1. PICK hi \in Int, lo \in Int, cl \in Int : hi = c.high /\ lo = c.low /\ cl = c.close
      BY SoundParts
    <3>2. m1.high = Top - lo /\ m1.low = Top - hi /\ m1.close = Top - cl
      BY <2>1, <3>1 DEF Facing
    <3>3. (Top - lo) + (Top - hi) + (Top - cl) = 3 * Top - (hi + lo + cl)
      BY <1>6
    <3> QED
      BY <3>1, <3>2, <3>3
  <2> QED
    BY <1>1, <1>4, <1>5, <1>8, <2>1
<1>10. ms[1].volume = v /\ ms[2].volume = w
  BY <1>2, <1>3 DEF Facing
<1>11. PICK a \in Int, b \in Int : a = v * n + w * m /\ b = v * n2 + w * m2
  OBVIOUS
<1>12. Vwap(cs) = IF s = 0 THEN Missing ELSE Frac(a, 3 * s)
  BY <1>2, <1>3, <1>4, <1>5, <1>7, <1>11, VwapTwo
<1>13. Vwap(ms) = IF s = 0 THEN Missing ELSE Frac(b, 3 * s)
  BY <1>7, <1>9, <1>10, <1>11, VwapTwo
<1>14. CASE s = 0
  BY <1>12, <1>13, <1>14 DEF LeftOf
<1>15. CASE s # 0
  <2>1. PICK d \in Positive : d = 3 * s
    BY <1>15 DEF Positive
  <2>2. PICK t \in Int : t = Top * d
    BY <1>6 DEF Positive
  <2>3. Less(Whole(Top), Frac(a, d)) = Frac(t - a, d)
    BY <1>6, <2>2, WholeFrac, LessSame
  <2>4. b = t - a
    <3>1. PICK x \in Int : x = 3 * Top
      BY <1>6
    <3>2. t = x * s
      BY <1>6, <2>1, <2>2, <3>1
    <3>3. x * s = v * x + w * x
      BY <1>7
    <3>4. v * n2 = v * x - v * n /\ w * m2 = w * x - w * m
      BY <1>8, <3>1
    <3> QED
      BY <1>11, <3>2, <3>3, <3>4
  <2>5. Frac(a, d) # Missing
    BY FracType, NotMissing
  <2> QED
    BY <1>12, <1>13, <1>15, <2>1, <2>3, <2>4, <2>5 DEF LeftOf
<1> QED
  BY <1>14, <1>15

\* So it is over the last candles of a series.
LEMMA RollingOpposite ==
  ASSUME NEW cs \in Seq(SoundBars)
  PROVE  RollingVwap(Mirrored(cs), P) = LeftOf(RollingVwap(cs, P), Whole(Top))
<1> DEFINE ms == Mirrored(cs)
           n == Len(cs)
           ls == LastOf(cs, P)
           os == LastOf(ms, P)
<1>1. /\ ms \in Seq(SoundBars) /\ Len(ms) = n /\ n \in Nat
      /\ \A i \in 1 .. n :
           /\ ms[i].high = Top - cs[i].low /\ ms[i].low = Top - cs[i].high
           /\ ms[i].close = Top - cs[i].close /\ ms[i].volume = cs[i].volume
  BY MirroredType
<1>2. P = 2
  BY DEF P
<1> HIDE DEF ms
<1>3. CASE n < P
  <2>1. RollingVwap(cs, P) = Missing /\ RollingVwap(ms, P) = Missing
    BY <1>1, <1>3 DEF RollingVwap
  <2> QED
    BY <2>1 DEF LeftOf, ms
<1>4. CASE ~ (n < P)
  <2>1. RollingVwap(cs, P) = Vwap(ls) /\ RollingVwap(ms, P) = Vwap(os)
    BY <1>1, <1>4 DEF RollingVwap
  <2>2. /\ ls \in Seq(SoundBars) /\ Len(ls) = 2 /\ \A i \in 1 .. 2 : ls[i] = cs[n - 2 + i]
        /\ os \in Seq(SoundBars) /\ Len(os) = 2 /\ \A i \in 1 .. 2 : os[i] = ms[n - 2 + i]
    BY <1>1, <1>2, <1>4 DEF LastOf
  <2>3. \A i \in 1 .. 2 : n - 2 + i \in 1 .. n
    BY <1>1, <1>2, <1>4
  <2> HIDE DEF ls, os, n
  <2>4. Facing(os[1], ls[1]) /\ Facing(os[2], ls[2])
    BY <1>1, <2>2, <2>3 DEF Facing
  <2>5. Vwap(os) = LeftOf(Vwap(ls), Whole(Top))
    BY <2>2, <2>4, VwapOpposite
  <2> QED
    BY <2>1, <2>5 DEF ms
<1> QED
  BY <1>3, <1>4

-----------------------------------------------------------------------------
(* Highs and lows change places                                            *)

\* The highs of the mirrored market are the lows.
LEMMA ExtremesTurn ==
  ASSUME NEW cs \in Seq(SoundBars), NEW left \in Nat, NEW right \in Nat
  PROVE  /\ Highs(Mirrored(cs), left, right) = Lows(cs, left, right)
         /\ Lows(Mirrored(cs), left, right) = Highs(cs, left, right)
         /\ Highs(cs, left, right) \in SUBSET (1 .. Len(cs))
         /\ Lows(cs, left, right) \in SUBSET (1 .. Len(cs))
<1> DEFINE ms == Mirrored(cs)
           n == Len(cs)
<1>1. /\ Len(ms) = n /\ n \in Nat /\ DOMAIN cs = 1 .. n /\ DOMAIN ms = 1 .. n
      /\ \A i \in 1 .. n : /\ cs[i] \in SoundBars
                           /\ ms[i].high = Top - cs[i].low /\ ms[i].low = Top - cs[i].high
  BY MirroredType
<1> HIDE DEF ms, n
<1>2. /\ SwingCandidates(ms, left, right) = left + 1 .. n - right
      /\ SwingCandidates(cs, left, right) = left + 1 .. n - right
      /\ left + 1 .. n - right \subseteq 1 .. n
  BY <1>1 DEF SwingCandidates, n
<1>3. ASSUME NEW i \in 1 .. n, NEW j \in 1 .. n
      PROVE  /\ ms[j].high <= ms[i].high <=> cs[j].low >= cs[i].low
             /\ ms[j].low >= ms[i].low <=> cs[j].high <= cs[i].high
  <2>1. PICK a \in Int, b \in Int, c \in Int, d \in Int :
           a = cs[i].low /\ b = cs[j].low /\ c = cs[i].high /\ d = cs[j].high
    BY <1>1, SoundParts
  <2>2. /\ ms[i].high = Top - a /\ ms[j].high = Top - b
        /\ ms[i].low = Top - c /\ ms[j].low = Top - d
    BY <1>1, <2>1
  <2>3. (Top - b <= Top - a <=> b >= a) /\ (Top - d >= Top - c <=> d <= c)
    BY ShapesType
  <2> QED
    BY <2>1, <2>2, <2>3
<1>4. ASSUME NEW i \in left + 1 .. n - right
      PROVE  /\ (\A j \in Around(i, left, right) \cap 1 .. n : ms[j].high <= ms[i].high)
                  <=> (\A j \in Around(i, left, right) \cap 1 .. n : cs[j].low >= cs[i].low)
             /\ (\A j \in Around(i, left, right) \cap 1 .. n : ms[j].low >= ms[i].low)
                  <=> (\A j \in Around(i, left, right) \cap 1 .. n : cs[j].high <= cs[i].high)
  <2>1. i \in 1 .. n
    BY <1>2
  <2> QED
    BY <1>3, <2>1
<1> QED
  BY <1>1, <1>2, <1>4 DEF Highs, Lows, ms, n

\* A sequence without its first a values.
LEMMA TailType ==
  ASSUME NEW V, NEW s \in Seq(V), NEW a \in Nat, a <= Len(s)
  PROVE  /\ SubSeq(s, a + 1, Len(s)) \in Seq(V) /\ Len(SubSeq(s, a + 1, Len(s))) = Len(s) - a
         /\ \A i \in 1 .. Len(s) - a : SubSeq(s, a + 1, Len(s))[i] = s[a + i]
OBVIOUS

\* The last values of what is left are what is left of the last.
LEMMA LatestReflects ==
  ASSUME NEW s \in Seq(1 .. Top - 1), NEW n \in Nat
  PROVE  /\ Latest(Reflect(s), n) = Reflect(Latest(s, n))
         /\ Latest(s, n) \in Seq(1 .. Top - 1)
<1> DEFINE l == Len(s)
           r == Reflect(s)
           V == 1 .. Top - 1
<1>1. l \in Nat /\ DOMAIN s = 1 .. l /\ V = 1 .. Top - 1 /\ Top \in Nat /\ s \in Seq(V)
      /\ \A i \in 1 .. l : s[i] \in V
  BY ShapesType
<1>2. r = [i \in 1 .. l |-> Top - s[i]]
  BY <1>1 DEF Reflect
<1> HIDE DEF l, r
<1>3. \A i \in 1 .. l : Top - s[i] \in V
  BY <1>1
<1>4. Listed(r, l, V)
  <2> HIDE DEF V
  <2> QED
    BY <1>2, <1>3 DEF Listed
<1> HIDE DEF V
<1>5. r \in Seq(V) /\ Len(r) = l
  BY <1>1, <1>4, ListedSeq
<1>6. PICK a \in Nat : a = Max({0, l - n}) /\ a <= l
  <2>1. l - n \in Int
    BY <1>1
  <2>2. Max({0, l - n}) = IF 0 < l - n THEN l - n ELSE 0
    BY <2>1, MaxOfTwo
  <2> QED
    BY <1>1, <2>2
<1>7. Latest(s, n) = SubSeq(s, a + 1, l) /\ Latest(r, n) = SubSeq(r, a + 1, l)
  BY <1>5, <1>6 DEF Latest, l
<1> DEFINE ss == SubSeq(s, a + 1, l)
           rr == SubSeq(r, a + 1, l)
<1>8. /\ ss \in Seq(V) /\ Len(ss) = l - a /\ \A i \in 1 .. l - a : ss[i] = s[a + i]
      /\ rr \in Seq(V) /\ Len(rr) = l - a /\ \A i \in 1 .. l - a : rr[i] = r[a + i]
  <2>1. a <= Len(s) /\ a <= Len(r) /\ Len(r) = Len(s)
    BY <1>5, <1>6 DEF l
  <2>2. /\ SubSeq(s, a + 1, Len(s)) \in Seq(V) /\ Len(SubSeq(s, a + 1, Len(s))) = Len(s) - a
        /\ \A i \in 1 .. Len(s) - a : SubSeq(s, a + 1, Len(s))[i] = s[a + i]
    <3>1. s \in Seq(V)
      BY <1>1
    <3> QED
      BY <2>1, <3>1, TailType
  <2>3. /\ SubSeq(r, a + 1, Len(r)) \in Seq(V) /\ Len(SubSeq(r, a + 1, Len(r))) = Len(r) - a
        /\ \A i \in 1 .. Len(r) - a : SubSeq(r, a + 1, Len(r))[i] = r[a + i]
    BY <1>5, <2>1, TailType
  <2>4. l = Len(s) /\ l = Len(r)
    BY <1>5 DEF l
  <2> QED
    BY <2>2, <2>3, <2>4, Zenon
<1>9. DOMAIN ss = 1 .. l - a /\ DOMAIN rr = 1 .. l - a
  BY <1>8
<1>10. rr = [i \in 1 .. l - a |-> rr[i]]
  BY <1>8, <1>9
<1> HIDE DEF ss, rr
<1>11. \A i \in 1 .. l - a : a + i \in 1 .. l
  BY <1>1, <1>6
<1>12. \A i \in 1 .. l - a : rr[i] = Top - ss[i]
  BY <1>2, <1>8, <1>11
<1>13. Reflect(ss) = [i \in 1 .. l - a |-> Top - ss[i]]
  BY <1>9 DEF Reflect
<1>14. rr = Reflect(ss)
  BY <1>10, <1>12, <1>13
<1> QED
  BY <1>7, <1>8, <1>14 DEF r, ss, rr, V

\* The prices of some candles in order, and prices of which one is what is left of the other.
At(p, U) == [k \in DOMAIN InOrder(U) |-> p[InOrder(U)[k]]]
Leaves(q, p, n) == \A i \in 1 .. n : q[i] = Top - p[i] /\ p[i] \in 1 .. Top - 1

\* At the same candles the one is what is left of the other too.
LEMMA PricesReflect ==
  ASSUME NEW n \in Nat, NEW U \in SUBSET (1 .. n), NEW p, NEW q, Leaves(q, p, n)
  PROVE  At(q, U) = Reflect(At(p, U)) /\ At(p, U) \in Seq(1 .. Top - 1)
<1> DEFINE idx == InOrder(U)
           c == Cardinality(U)
           s == [k \in DOMAIN idx |-> p[idx[k]]]
           V == 1 .. Top - 1
<1>0. \A i \in 1 .. n : q[i] = Top - p[i] /\ p[i] \in V
  BY DEF Leaves
<1>1. c \in Nat
  BY IndicesFinite
<1>2. DOMAIN idx = 1 .. c /\ \A k \in 1 .. c : idx[k] \in 1 .. n
  <2>1. \A k \in 1 .. c : Nth(U, k) \in U
    BY NthExists
  <2> QED
    BY <2>1 DEF InOrder
<1>9. At(p, U) = s /\ At(q, U) = [k \in DOMAIN idx |-> q[idx[k]]]
  BY DEF At
<1> HIDE DEF idx, c
<1>3. /\ \A k \in 1 .. c : s[k] = p[idx[k]] /\ s[k] \in V
      /\ s = [k \in 1 .. c |-> p[idx[k]]]
  BY <1>0, <1>2
<1>4. Reflect(s) = [k \in 1 .. c |-> Top - p[idx[k]]]
  BY <1>2, <1>3 DEF Reflect
<1>5. \A k \in 1 .. c : q[idx[k]] = Top - p[idx[k]]
  BY <1>0, <1>2
<1>6. [k \in DOMAIN idx |-> q[idx[k]]] = [k \in 1 .. c |-> Top - p[idx[k]]]
  BY <1>2, <1>5
<1>7. Listed(s, c, V)
  <2> HIDE DEF V
  <2> QED
    BY <1>3 DEF Listed
<1> HIDE DEF s, V
<1>8. s \in Seq(V)
  BY <1>1, <1>7, ListedSeq
<1> QED
  BY <1>4, <1>6, <1>8, <1>9 DEF V

\* Resistance and support of the mirrored market are support and resistance, reflected.
LEMMA LevelsReflect ==
  ASSUME NEW cs \in Seq(SoundBars), NEW left \in Nat, NEW right \in Nat, NEW max \in Nat
  PROVE  LET here == SwingLevels(cs, left, right, max)
             there == SwingLevels(Mirrored(cs), left, right, max)
         IN /\ there.res = Reflect(here.sup) /\ there.sup = Reflect(here.res)
            /\ here.sup \in Seq(1 .. Top - 1)
<1> DEFINE ms == Mirrored(cs)
           n == Len(cs)
           hi == InOrder(Highs(cs, left, right))
           lo == InOrder(Lows(cs, left, right))
           hs == [k \in DOMAIN hi |-> cs[hi[k]].high]
           ls == [k \in DOMAIN lo |-> cs[lo[k]].low]
           mhs == [k \in DOMAIN lo |-> ms[lo[k]].high]
           mls == [k \in DOMAIN hi |-> ms[hi[k]].low]
           H == [i \in 1 .. n |-> cs[i].high]
           L == [i \in 1 .. n |-> cs[i].low]
           MH == [i \in 1 .. n |-> ms[i].high]
           ML == [i \in 1 .. n |-> ms[i].low]
<1>1. /\ Highs(ms, left, right) = Lows(cs, left, right)
      /\ Lows(ms, left, right) = Highs(cs, left, right)
      /\ Highs(cs, left, right) \in SUBSET (1 .. n) /\ Lows(cs, left, right) \in SUBSET (1 .. n)
  BY ExtremesTurn
<1>2. /\ n \in Nat
      /\ \A i \in 1 .. n : /\ cs[i] \in SoundBars
                           /\ ms[i].high = Top - cs[i].low /\ ms[i].low = Top - cs[i].high
  BY MirroredType
<1>3. /\ SwingLevels(cs, left, right, max) = [res |-> Latest(hs, max), sup |-> Latest(ls, max)]
      /\ SwingLevels(ms, left, right, max) = [res |-> Latest(mhs, max), sup |-> Latest(mls, max)]
  BY <1>1 DEF SwingLevels
<1>4. ASSUME NEW U \in SUBSET (1 .. n)
      PROVE  \A k \in DOMAIN InOrder(U) : InOrder(U)[k] \in 1 .. n
  <2>1. \A k \in 1 .. Cardinality(U) : Nth(U, k) \in U
    BY <1>2, <1>4, NthExists
  <2> QED
    BY <1>4, <2>1 DEF InOrder
<1>5. \A i \in 1 .. n : cs[i].high \in 1 .. Top - 1 /\ cs[i].low \in 1 .. Top - 1
  BY <1>2 DEF SoundBars
<1> HIDE DEF ms, n
<1>6. /\ \A k \in DOMAIN hi : hi[k] \in 1 .. n
      /\ \A k \in DOMAIN lo : lo[k] \in 1 .. n
  BY <1>1, <1>4
<1>7. Leaves(MH, L, n) /\ Leaves(ML, H, n)
  BY <1>2, <1>5 DEF Leaves
<1>8. /\ hs = At(H, Highs(cs, left, right)) /\ ls = At(L, Lows(cs, left, right))
      /\ mhs = At(MH, Lows(cs, left, right)) /\ mls = At(ML, Highs(cs, left, right))
  BY <1>6 DEF At
<1> HIDE DEF hs, ls, mhs, mls, H, L, MH, ML, hi, lo
<1>9. mhs = Reflect(ls) /\ ls \in Seq(1 .. Top - 1)
  BY <1>1, <1>2, <1>7, <1>8, PricesReflect
<1>10. mls = Reflect(hs) /\ hs \in Seq(1 .. Top - 1)
  BY <1>1, <1>2, <1>7, <1>8, PricesReflect
<1>11. /\ Latest(mhs, max) = Reflect(Latest(ls, max)) /\ Latest(ls, max) \in Seq(1 .. Top - 1)
       /\ Latest(mls, max) = Reflect(Latest(hs, max))
  BY <1>9, <1>10, LatestReflects
<1> QED
  BY <1>3, <1>11 DEF ms

\* The level under a price is, mirrored, the one over it.
LEMMA NearestReflects ==
  ASSUME NEW s \in Seq(1 .. Top - 1), NEW price \in 1 .. Top - 1
  PROVE  NearestLevel(Reflect(s), Top - price, "below")
           = LeftOf(NearestLevel(s, price, "above"), Whole(Top))
<1> DEFINE S == {s[i] : i \in DOMAIN s}
           under == {l \in S : l < price}
           over == {l \in ToSet(Reflect(s)) : l > Top - price}
<1>1. Top \in Nat /\ S = ToSet(s) /\ price \in Int /\ S \subseteq 1 .. Top - 1
  BY ShapesType DEF ToSet
<1>2. ToSet(Reflect(s)) = {Top - l : l \in S}
  <2>1. DOMAIN Reflect(s) = DOMAIN s /\ \A i \in DOMAIN s : Reflect(s)[i] = Top - s[i]
    BY DEF Reflect
  <2> QED
    BY <2>1 DEF ToSet
<1> HIDE DEF S
<1>3. \A l \in S : l \in Int /\ (l < price <=> Top - l > Top - price)
  BY <1>1
<1>4. over = {Top - l : l \in under}
  BY <1>2, <1>3
<1>5. under \in SUBSET (1 .. Top - 1)
  BY <1>1
<1>6. /\ NearestLevel(s, price, "above") = IF under = {} THEN Missing ELSE Whole(Max(under))
      /\ NearestLevel(Reflect(s), Top - price, "below")
           = IF over = {} THEN Missing ELSE Whole(Min(over))
  BY <1>1 DEF NearestLevel
<1> HIDE DEF under, over
<1>7. CASE under = {}
  BY <1>4, <1>6, <1>7 DEF LeftOf
<1>8. CASE under # {}
  <2> Top - 1 \in Nat
    BY <1>1, <1>5, <1>8
  <2>1. PICK m \in under : m = Max(under) /\ \A k \in under : k <= m
    BY <1>5, <1>8, MaxIndex
  <2>2. m \in Int /\ \A k \in under : k \in Int
    BY <1>5
  <2>3. Top - m \in over /\ \A k \in over : Top - m <= k
    BY <1>1, <1>4, <2>1, <2>2
  <2>4. \A z \in over : (\A k \in over : z <= k) => z = Top - m
    <3>1. Top - m \in Int /\ \A z \in over : z \in Int
      BY <1>1, <1>4, <2>2
    <3>2. ASSUME NEW z \in over, \A k \in over : z <= k PROVE z = Top - m
      <4>1. z \in Int /\ z <= Top - m /\ Top - m <= z
        BY <2>3, <3>1, <3>2
      <4> QED
        BY <3>1, <4>1
    <3> QED
      BY <3>2
  <2>5. Min(over) = Top - m
    BY <2>3, <2>4 DEF Min
  <2>6. over # {}
    BY <2>3
  <2>7. Whole(m) # Missing /\ Less(Whole(Top), Whole(m)) = Whole(Top - m)
    <3>1. Top \in Int
      BY <1>1
    <3>2. Whole(m) \in Quotients
      BY <2>2, WholeType
    <3>3. Whole(m) # Missing
      BY <3>2, NotMissing
    <3> QED
      BY <2>2, <3>1, <3>3, WholeOrder
  <2> QED
    BY <1>6, <1>8, <2>1, <2>5, <2>6, <2>7 DEF LeftOf
<1> QED
  BY <1>7, <1>8

\* Averages over positive closes are positive.
LEMMA EmaPositive ==
  ASSUME NEW cs \in Seq(SoundBars), NEW p \in Positive, NEW i \in 1 .. Len(cs)
  PROVE  Ema(Closes(cs), p)[i].num > 0
<1> DEFINE xs == Closes(cs)
           x == Ema(xs, p)[i]
<1>1. /\ xs \in Seq(Quotients) /\ Len(xs) = Len(cs) /\ i \in 1 .. Len(xs)
      /\ \A j \in 1 .. Len(cs) :
           cs[j].close \in Int /\ 0 < cs[j].close /\ xs[j] = Whole(cs[j].close)
  BY ClosesType
<1>2. x \in Quotients /\ Held(x, First(xs, i))
  BY <1>1, EmaHeld
<1> HIDE DEF xs, x
<1>3. PICK j \in 1 .. i : AtMost(xs[j], x)
  BY <1>2 DEF Held, First
<1>4. j \in 1 .. Len(cs)
  OBVIOUS
<1>5. PICK c \in Int : c > 0 /\ xs[j] = Whole(c)
  BY <1>1, <1>4
<1>6. PICK d \in Positive, n \in Int : x = Frac(n, d)
  BY <1>2 DEF Quotients
<1>7. d \in Int /\ d > 0
  BY DEF Positive
<1>8. PICK k \in Int : k = c * d
  BY <1>7
<1>9. k > 0
  BY <1>5, <1>7, <1>8
<1>10. Whole(c) = Frac(k, d)
  BY <1>8, WholeFrac
<1>11. k <= n
  BY <1>3, <1>5, <1>6, <1>10, AtMostSame
<1>12. n > 0
  BY <1>9, <1>11
<1> QED
  BY <1>6, <1>12, FracSign DEF x, xs

\* Every series of sound candles is judged like its mirror image.
THEOREM SoundMirror == candles \in Seq(SoundBars) => MirrorImage
<1> SUFFICES ASSUME candles \in Seq(SoundBars) PROVE MirrorImage
  OBVIOUS
<1> DEFINE m == Mirrored(candles)
           n == Len(candles)
           xs == Closes(candles)
           ys == Closes(m)
           ex == Ema(xs, P)
           ey == Ema(ys, P)
           here == SwingLevels(candles, 1, 1, 2)
           there == SwingLevels(m, 1, 1, 2)
<1>1. P = 2 /\ P \in Positive /\ P > 1 /\ 1 \in Positive /\ Top \in Int /\ n \in Nat
  BY ShapesType DEF P, Positive
<1>2. /\ xs \in Seq(Quotients) /\ Len(xs) = n /\ DOMAIN xs = 1 .. n
      /\ m \in Seq(SoundBars) /\ Len(m) = n /\ ys \in Seq(Quotients) /\ Len(ys) = n
  BY ClosesType, MirroredType
<1>3. Opposite(ys, xs, Top)
  BY ClosesOpposite
<1> HIDE DEF m
<1>4. Rsi(ys, P) = IF \A i, j \in DOMAIN xs : xs[i] = xs[j]
                   THEN Rsi(xs, P) ELSE LeftOf(Rsi(xs, P), Whole(1))
  <2> HIDE DEF xs, ys
  <2> QED
    BY <1>1, <1>2, <1>3, RsiOpposite
<1>5. \A i \in 1 .. n : ey[i] = Less(Whole(Top), ex[i])
  <2> HIDE DEF xs, ys
  <2> QED
    BY <1>1, <1>2, <1>3, EmaOpposite
<1>6. Len(xs) > 1 => /\ EmaSlope(ex, 1).num > 0 <=> EmaSlope(ey, 1).num < 0
                     /\ EmaSlope(ex, 1).num < 0 <=> EmaSlope(ey, 1).num > 0
  <2>1. \A i \in 1 .. n : ex[i].num > 0 /\ ey[i].num > 0
    BY <1>1, <1>2, EmaPositive
  <2> HIDE DEF xs, ys, n
  <2>2. /\ ex \in Seq(Quotients) /\ Len(ex) = n /\ ey \in Seq(Quotients) /\ Len(ey) = n
    BY <1>1, <1>2, EmaLength
  <2> HIDE DEF ex, ey
  <2>3. Opposite(ey, ex, Top)
    BY <1>5, <2>2 DEF Opposite
  <2> QED
    BY <1>1, <1>2, <2>1, <2>2, <2>3, SlopeOpposite
<1>7. Macd(xs, 1, P, 1) # Missing => Macd(ys, 1, P, 1).hist = Neg(Macd(xs, 1, P, 1).hist)
  <2> HIDE DEF xs, ys, n
  <2>1. CASE n < P + 1
    BY <1>2, <2>1, MacdIs
  <2>2. CASE ~ (n < P + 1)
    <3>1. Macd(xs, 1, P, 1).hist = Hist(xs, 1, P, 1) /\ Macd(ys, 1, P, 1).hist = Hist(ys, 1, P, 1)
      BY <1>2, <2>2, MacdIs
    <3>2. Len(xs) > 0
      BY <1>1, <1>2, <2>2
    <3>3. Hist(ys, 1, P, 1) = Neg(Hist(xs, 1, P, 1))
      BY <1>1, <1>3, <3>2, HistOpposite
    <3> QED
      BY <3>1, <3>3
  <2> QED
    BY <2>1, <2>2
<1>8. /\ Atr(m, P) = Atr(candles, P) /\ AtrWilder(m, P) = AtrWilder(candles, P)
      /\ VolumeRatio(m, P) = VolumeRatio(candles, P)
  BY <1>1, RangesStay DEF m
<1>9. Adx(m, P) = Adx(candles, P)
  BY <1>1, AdxStays DEF m
<1>10. RollingVwap(m, P) = LeftOf(RollingVwap(candles, P), Whole(Top))
  BY RollingOpposite DEF m
<1>11. /\ there.res = Reflect(here.sup) /\ there.sup = Reflect(here.res)
       /\ here.sup \in Seq(1 .. Top - 1)
  BY LevelsReflect DEF m
<1>12. \A price \in 1 .. Top - 1 :
          NearestLevel(there.res, Top - price, "below")
            = LeftOf(NearestLevel(here.sup, price, "above"), Whole(Top))
  <2> HIDE DEF here, there
  <2> QED
    BY <1>11, NearestReflects
<1> QED
  BY <1>2, <1>4, <1>5, <1>6, <1>7, <1>8, <1>9, <1>10, <1>11, <1>12 DEF MirrorImage, m

\* Long and short are judged alike.
THEOREM MirroredAlike == FiguresSpec => []MirrorImage
<1>1. candles \in Seq(SoundBars) => MirrorImage
  BY SoundMirror
<1> QED
  BY <1>1, CandlesAreSound, PTL
=============================================================================

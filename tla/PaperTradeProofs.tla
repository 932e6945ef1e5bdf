-------------------------- MODULE PaperTradeProofs --------------------------
(***************************************************************************)
(* Proofs about PaperTrade, for every choice of plans, books and candles,  *)
(* every slippage, fee, trail and holding time, and every length of the    *)
(* window.                                                                 *)
(*                                                                         *)
(* LossBounded speaks of trades that are over.  It holds because a sale    *)
(* brings no less than the planned stop would have brought for the units   *)
(* sold: the loss so far is bounded by that of the units sold so far, and  *)
(* this bound is additive where the amount itself is a long sum.           *)
(*                                                                         *)
(* At the end: SharedStore, where the rows of such trades lie among those  *)
(* of live positions.                                                      *)
(***************************************************************************)
EXTENDS PaperTrade, SharedStore, FiniteSetTheorems, SequenceTheorems, WellFoundedInduction, TLAPS

-----------------------------------------------------------------------------
(* Arithmetic. *)

\* A nonempty finite set of integers has a least element.
LEMMA MinOfFinite ==
  ASSUME NEW T \in SUBSET Int, IsFiniteSet(T), T # {}
  PROVE  Min(T) \in T /\ \A y \in T : Min(T) <= y
  <1> DEFINE Below(x) == {y \in T : y < x}
             Family == {Below(x) : x \in T}
  <1>1. Family \subseteq FiniteSubsetsOf(T) /\ Family # {}
    <2>1. \A x \in T : Below(x) \in SUBSET T /\ IsFiniteSet(Below(x))
      BY FS_Subset
    <2> QED BY <2>1 DEF FiniteSubsetsOf
  <1>2. PICK B \in Family : \A A \in Family : ~(<<A, B>> \in StrictSubsetOrdering(T))
    BY <1>1, FS_StrictSubsetOrderingWellFounded, WFMin
  <1>3. PICK x \in T : B = Below(x)
    BY <1>2
  <1>4. ASSUME NEW z \in T, z < x PROVE FALSE
    <2>1. Below(z) \in Family /\ Below(z) \in SUBSET T /\ Below(x) \in SUBSET T
      OBVIOUS
    <2>2. x \in Int /\ \A y \in T : y \in Int
      OBVIOUS
    <2>3. Below(z) \subseteq Below(x)
      <3>1. \A y \in T : y < z => y < x
        BY <1>4, <2>2
      <3> QED BY <3>1
    <2>4. z \in Below(x) /\ z \notin Below(z)
      BY <1>4, <2>2
    <2> QED BY <1>2, <1>3, <2>1, <2>3, <2>4 DEF StrictSubsetOrdering
  <1>5. \A y \in T : x <= y
    BY <1>4
  <1> QED BY <1>5 DEF Min

\* Of an interval's subset, too.
LEMMA MinOfSome ==
  ASSUME NEW n \in Nat, NEW T \in SUBSET (1 .. n), T # {}
  PROVE  Min(T) \in T /\ \A y \in T : Min(T) <= y
  <1>1. IsFiniteSet(1 .. n)
    BY FS_Interval
  <1>2. IsFiniteSet(T)
    BY <1>1, FS_Subset
  <1>3. T \in SUBSET Int
    OBVIOUS
  <1> QED BY <1>2, <1>3, MinOfFinite

LEMMA MinOfTwo ==
  ASSUME NEW a \in Int, NEW b \in Int
  PROVE  Min({a, b}) = IF a <= b THEN a ELSE b
  BY DEF Min

LEMMA MaxOfTwo ==
  ASSUME NEW a \in Int, NEW b \in Int
  PROVE  Max({a, b}) = IF a >= b THEN a ELSE b
  BY DEF Max

\* Products of naturals are naturals.
LEMMA ProductNat == \A a, b \in Nat : a * b \in Nat
  OBVIOUS

\* Slippage keeps the order of prices.
LEMMA SlippedMonotone ==
  ASSUME NEW side \in Sides, NEW a \in Int, NEW b \in Int, Gain(side, b, a) >= 0
  PROVE  /\ Slipped(side, a) \in Int /\ Slipped(side, b) \in Int
         /\ Gain(side, Slipped(side, b), Slipped(side, a)) >= 0
  <1>1. SlipDen \in Nat /\ SlipDen - 1 \in Nat /\ SlipDen + 1 \in Nat
    BY ExitAssumption
  <1>2. CASE side = "LONG"
    <2>1. a - b \in Nat
      BY <1>2 DEF Gain
    <2>2. (a - b) * (SlipDen - 1) \in Nat
      BY <1>1, <2>1, ProductNat
    <2>3. (a * SlipDen - a) - (b * SlipDen - b) = (a - b) * (SlipDen - 1)
      BY <1>1
    <2> QED BY <1>1, <1>2, <2>2, <2>3 DEF Gain, Slipped, Further
  <1>3. CASE side = "SHORT"
    <2>1. b - a \in Nat
      BY <1>3 DEF Gain
    <2>2. (b - a) * (SlipDen + 1) \in Nat
      BY <1>1, <2>1, ProductNat
    <2>3. (b * SlipDen + b) - (a * SlipDen + a) = (b - a) * (SlipDen + 1)
      BY <1>1
    <2> QED BY <1>1, <1>3, <2>2, <2>3 DEF Gain, Slipped, Further
  <1> QED BY <1>2, <1>3 DEF Sides

\* A price itself is no worse than a worse one after slippage.
LEMMA UnslippedIsBetter ==
  ASSUME NEW side \in Sides, NEW a \in Int, NEW b \in Nat, Gain(side, b, a) >= 0
  PROVE  /\ a * SlipDen \in Int
         /\ Gain(side, Slipped(side, b), a * SlipDen) >= 0
  <1>1. SlipDen \in Nat
    BY ExitAssumption
  <1>2. CASE side = "LONG"
    <2>1. a - b \in Nat
      BY <1>2 DEF Gain
    <2>2. (a - b) * SlipDen \in Nat
      BY <1>1, <2>1, ProductNat
    <2>3. a * SlipDen - (b * SlipDen - b) = (a - b) * SlipDen + b
      BY <1>1
    <2> QED BY <1>1, <1>2, <2>2, <2>3 DEF Gain, Slipped, Further
  <1>3. CASE side = "SHORT"
    <2>1. b - a \in Nat
      BY <1>3 DEF Gain
    <2>2. (b - a) * SlipDen \in Nat
      BY <1>1, <2>1, ProductNat
    <2>3. (b * SlipDen + b) - a * SlipDen = (b - a) * SlipDen + b
      BY <1>1
    <2> QED BY <1>1, <1>3, <2>2, <2>3 DEF Gain, Slipped, Further
  <1> QED BY <1>2, <1>3 DEF Sides

\* A better price brings no less, exit fee included.
LEMMA CashMonotone ==
  ASSUME NEW p, p.side \in Sides, p.entry \in Int, NEW q \in Nat,
         NEW a \in Int, NEW b \in Int, Gain(p.side, b, a) >= 0
  PROVE  Cash(p, a, q) \in Int /\ Cash(p, b, q) \in Int /\ Cash(p, a, q) >= Cash(p, b, q)
  <1> DEFINE e == p.entry * SlipDen
  <1>1. /\ FeeDen \in Nat /\ FeeDen - 1 \in Nat /\ FeeDen + 1 \in Nat
        /\ e \in Int
    BY ExitAssumption
  <1> HIDE DEF e
  <1>2. CASE p.side = "LONG"
    <2>1. a - b \in Nat
      BY <1>2 DEF Gain
    <2>2. (a - b) * q \in Nat
      BY <2>1, ProductNat
    <2>3. ((a - b) * q) * (FeeDen - 1) \in Nat
      BY <1>1, <2>2, ProductNat
    <2>4. ((a - e) * q * FeeDen - a * q) - ((b - e) * q * FeeDen - b * q)
            = ((a - b) * q) * (FeeDen - 1)
      BY <1>1
    <2>5. (a - e) * q * FeeDen - a * q \in Int /\ (b - e) * q * FeeDen - b * q \in Int
      BY <1>1
    <2>6. /\ Cash(p, a, q) = (a - e) * q * FeeDen - a * q
          /\ Cash(p, b, q) = (b - e) * q * FeeDen - b * q
      BY <1>2 DEF Cash, Gain, e
    <2> QED BY <2>3, <2>4, <2>5, <2>6
  <1>3. CASE p.side = "SHORT"
    <2>1. b - a \in Nat
      BY <1>3 DEF Gain
    <2>2. (b - a) * q \in Nat
      BY <2>1, ProductNat
    <2>3. ((b - a) * q) * (FeeDen + 1) \in Nat
      BY <1>1, <2>2, ProductNat
    <2>4. ((e - a) * q * FeeDen - a * q) - ((e - b) * q * FeeDen - b * q)
            = ((b - a) * q) * (FeeDen + 1)
      BY <1>1
    <2>5. (e - a) * q * FeeDen - a * q \in Int /\ (e - b) * q * FeeDen - b * q \in Int
      BY <1>1
    <2>6. /\ Cash(p, a, q) = (e - a) * q * FeeDen - a * q
          /\ Cash(p, b, q) = (e - b) * q * FeeDen - b * q
      BY <1>3 DEF Cash, Gain, e, Sides
    <2> QED BY <2>3, <2>4, <2>5, <2>6
  <1> QED BY <1>2, <1>3 DEF Sides

\* What units bring at one price adds up.
LEMMA CashAdds ==
  ASSUME NEW p, p.side \in Sides, p.entry \in Int, NEW q \in Int, NEW r \in Int,
         NEW a \in Int
  PROVE  /\ Cash(p, a, q) \in Int /\ Cash(p, a, r) \in Int
         /\ Cash(p, a, q + r) = Cash(p, a, q) + Cash(p, a, r)
         /\ Cash(p, a, 0) = 0
  <1> DEFINE g == Gain(p.side, p.entry * SlipDen, a)
  <1>1. FeeDen \in Nat /\ g \in Int
    BY ExitAssumption DEF Gain
  <1> HIDE DEF g
  <1>2. \A n \in Int : Cash(p, a, n) = g * n * FeeDen - a * n
    BY DEF Cash, g
  <1>3. /\ g * (q + r) * FeeDen - a * (q + r)
             = (g * q * FeeDen - a * q) + (g * r * FeeDen - a * r)
        /\ g * q * FeeDen - a * q \in Int /\ g * r * FeeDen - a * r \in Int
        /\ g * 0 * FeeDen - a * 0 = 0
    BY <1>1
  <1> QED BY <1>2, <1>3

\* A partial exit sells at least a unit and at most what is held.
LEMMA PartialQtyRange ==
  ASSUME NEW qty \in Nat \ {0}
  PROVE  PartialQty(qty) \in 1 .. qty
  <1> DEFINE coins == qty \div (2 * Lot)
             rest == qty % (2 * Lot)
             half == IF rest > Lot \/ (rest = Lot /\ coins % 2 = 1) THEN coins + 1 ELSE coins
             some == IF half = 0 THEN 1 ELSE half
  <1>1. 2 * Lot \in Nat \ {0} /\ Lot \in Nat \ {0}
    BY ExitAssumption
  <1>2. coins \in Nat
    BY <1>1
  <1> HIDE DEF coins, rest
  <1>3. some \in Nat \ {0}
    BY <1>2
  <1> HIDE DEF some
  <1>4. Lot * some \in Nat /\ Lot * some >= 1
    <2>1. Lot - 1 \in Nat /\ some - 1 \in Nat
      BY <1>1, <1>3
    <2>2. (Lot - 1) * some \in Nat
      BY <1>3, <2>1, ProductNat
    <2>3. Lot * some = (Lot - 1) * some + some
      BY <1>1, <1>3
    <2> QED BY <1>3, <2>2, <2>3
  <1>5. PartialQty(qty) = Min({qty, Lot * some})
    BY DEF PartialQty, coins, rest, half, some
  <1> QED BY <1>4, <1>5, MinOfTwo

-----------------------------------------------------------------------------
(* Recursive functions over an interval. *)

\* Induction over the naturals, for a set in place of a predicate: its
\* complement would have a least element.
LEMMA SetInduction ==
  ASSUME NEW S, 0 \in S, \A n \in Nat : n \in S => n + 1 \in S
  PROVE  Nat \subseteq S
  <1> DEFINE Less == OpToRel(<, Nat)
             Rest == Nat \ S
  <1>1. IsWellFoundedOn(Less, Nat)
    BY NatLessThanWellFounded
  <1>2. \A x, y \in Nat : y < x => <<y, x>> \in Less
    BY DEF OpToRel
  <1> HIDE DEF Less
  <1>3. SUFFICES ASSUME Rest # {} PROVE FALSE
    OBVIOUS
  <1>4. PICK x \in Rest : \A y \in Rest : ~(<<y, x>> \in Less)
    <2>1. Rest \subseteq Nat
      OBVIOUS
    <2> HIDE DEF Rest
    <2> QED BY <1>1, <1>3, <2>1, WFMin
  <1>5. x # 0 /\ x - 1 \in Nat /\ x - 1 < x
    OBVIOUS
  <1>6. x - 1 \in Rest
    BY <1>5
  <1> QED BY <1>2, <1>4, <1>5, <1>6

\* The functions that make the value at a place of that at the place before.
StepFunctions(n, T) == [(1 .. n) \X T -> T]

\* What such a function defines, from a first value on.
Follows(f, n, T, base, step) ==
  /\ f \in [0 .. n -> T]
  /\ f[0] = base /\ \A i \in 1 .. n : f[i] = step[<<i, f[i - 1]>>]

\* A recursive definition over an interval, given by the function that makes one
\* value of the one before, has a solution.
LEMMA Recursion ==
  ASSUME NEW n \in Nat, NEW T, NEW base \in T, NEW step \in StepFunctions(n, T)
  PROVE  \E f : Follows(f, n, T, base, step)
  <1> USE DEF StepFunctions
  <1> DEFINE Solved(m) == \E f \in [0 .. m -> T] :
               f[0] = base /\ \A i \in 1 .. m : f[i] = step[<<i, f[i - 1]>>]
             S == {m \in Nat : m <= n => Solved(m)}
  <1>1. 0 \in S
    <2> DEFINE f == [i \in 0 .. 0 |-> base]
    <2>1. f \in [0 .. 0 -> T] /\ f[0] = base
      OBVIOUS
    <2>2. 1 .. 0 = {}
      OBVIOUS
    <2>3. \A i \in 1 .. 0 : f[i] = step[<<i, f[i - 1]>>]
      BY <2>2
    <2> HIDE DEF f
    <2>4. Solved(0)
      BY <2>1, <2>3
    <2> QED BY <2>4
  <1>2. ASSUME NEW m \in Nat, m \in S PROVE m + 1 \in S
    <2>1. SUFFICES ASSUME m + 1 <= n PROVE Solved(m + 1)
      OBVIOUS
    <2>2. PICK f \in [0 .. m -> T] :
            f[0] = base /\ \A i \in 1 .. m : f[i] = step[<<i, f[i - 1]>>]
      BY <1>2, <2>1
    <2> DEFINE next == step[<<m + 1, f[m]>>]
               g == [i \in 0 .. m + 1 |-> IF i = m + 1 THEN next ELSE f[i]]
    <2>3. next \in T
      BY <2>1
    <2>4. g \in [0 .. m + 1 -> T]
      BY <2>3
    <2>5. g[m + 1] = next /\ \A j \in 0 .. m : g[j] = f[j]
      BY <2>3
    <2> HIDE DEF g
    <2>6. ASSUME NEW i \in 1 .. m + 1
          PROVE  g[i] = step[<<i, g[i - 1]>>]
      <3>1. CASE i = m + 1
        <4>1. i - 1 = m /\ m \in 0 .. m
          BY <3>1
        <4> QED BY <2>5, <3>1, <4>1
      <3>2. CASE i # m + 1
        <4>1. i \in 1 .. m /\ i \in 0 .. m /\ i - 1 \in 0 .. m
          BY <3>2
        <4> QED BY <2>2, <2>5, <4>1
      <3> QED BY <3>1, <3>2
    <2>7. g[0] = base
      BY <2>2, <2>5
    <2> QED BY <2>4, <2>6, <2>7
  <1>3. Nat \subseteq S
    <2> HIDE DEF S
    <2> QED BY <1>1, <1>2, SetInduction
  <1> QED BY <1>3 DEF Follows

\* The partial sums of a sequence.
LEMMA TotalDef ==
  ASSUME NEW v \in Seq(Int)
  PROVE  \E f \in [0 .. Len(v) -> Int] :
           /\ f[0] = 0
           /\ \A i \in 1 .. Len(v) : f[i] = f[i - 1] + v[i]
           /\ Total(v) = f[Len(v)]
  <1> DEFINE n == Len(v)
             step == [p \in (1 .. n) \X Int |-> p[2] + v[p[1]]]
             Sums(f) == f = [i \in 0 .. n |-> IF i = 0 THEN 0 ELSE f[i - 1] + v[i]]
             sums == CHOOSE f : Sums(f)
  <1>1. n \in Nat /\ \A i \in 1 .. n : v[i] \in Int
    OBVIOUS
  <1>2. Total(v) = sums[n]
    BY DEF Total
  <1> HIDE DEF n
  <1>3. step \in StepFunctions(n, Int)
    BY <1>1 DEF StepFunctions
  <1>4. \A i \in 1 .. n, x \in Int : step[<<i, x>>] = x + v[i]
    OBVIOUS
  <1> HIDE DEF step
  <1>5. PICK f : Follows(f, n, Int, 0, step)
    <2>1. 0 \in Int
      OBVIOUS
    <2> QED BY <1>1, <1>3, <2>1, Recursion
  <1>6. Sums(f)
    <2> DEFINE h == [i \in 0 .. n |-> IF i = 0 THEN 0 ELSE f[i - 1] + v[i]]
    <2>1. ASSUME NEW i \in 0 .. n PROVE f[i] = h[i]
      <3>1. CASE i = 0
        BY <1>5, <3>1 DEF Follows
      <3>2. CASE i # 0
        <4>1. i \in 1 .. n /\ i - 1 \in 0 .. n
          BY <1>1, <3>2
        <4> QED BY <1>4, <1>5, <3>2, <4>1 DEF Follows
      <3> QED BY <3>1, <3>2
    <2>2. h = [i \in 0 .. n |-> h[i]]
      OBVIOUS
    <2> HIDE DEF h
    <2>3. f = h
      BY <1>5, <2>1, <2>2 DEF Follows
    <2> QED BY <2>3 DEF h
  <1>7. Sums(sums)
    <2> HIDE DEF Sums
    <2> QED BY <1>6
  <1> HIDE DEF sums
  <1>8. sums = [i \in 0 .. n |-> IF i = 0 THEN 0 ELSE sums[i - 1] + v[i]]
    BY <1>7
  <1>9. sums[0] = 0 /\ \A i \in 1 .. n : sums[i] = sums[i - 1] + v[i]
    BY <1>1, <1>8
  <1>10. \A i \in 0 .. n : sums[i] \in Int
    <2> DEFINE S == {m \in Nat : m <= n => sums[m] \in Int}
    <2>1. 0 \in S
      BY <1>9
    <2>2. ASSUME NEW m \in Nat, m \in S PROVE m + 1 \in S
      <3>1. SUFFICES ASSUME m + 1 <= n PROVE sums[m + 1] \in Int
        OBVIOUS
      <3>2. m + 1 \in 1 .. n /\ (m + 1) - 1 = m /\ sums[m] \in Int
        BY <1>1, <2>2, <3>1
      <3>3. sums[m + 1] = sums[m] + v[m + 1] /\ v[m + 1] \in Int
        BY <1>1, <1>9, <3>2
      <3> QED BY <3>2, <3>3
    <2>3. Nat \subseteq S
      <3> HIDE DEF S
      <3> QED BY <2>1, <2>2, SetInduction
    <2> QED BY <1>1, <2>3
  <1>11. sums \in [0 .. n -> Int]
    BY <1>8, <1>10
  <1> QED BY <1>2, <1>9, <1>11 DEF n

\* A sum is a number, the empty one is zero, and a further element adds to it.
LEMMA TotalAppend ==
  ASSUME NEW v \in Seq(Int), NEW x \in Int
  PROVE  Total(v) \in Int /\ Total(<<>>) = 0 /\ Total(Append(v, x)) = Total(v) + x
  <1> DEFINE n == Len(v)
             w == Append(v, x)
  <1>1. n \in Nat /\ w \in Seq(Int) /\ Len(w) = n + 1 /\ w[n + 1] = x
        /\ \A i \in 1 .. n : w[i] = v[i]
    OBVIOUS
  <1>2. PICK f \in [0 .. n -> Int] :
          f[0] = 0 /\ (\A i \in 1 .. n : f[i] = f[i - 1] + v[i]) /\ Total(v) = f[n]
    BY TotalDef
  <1> HIDE DEF w
  <1>3. PICK g \in [0 .. Len(w) -> Int] :
          /\ g[0] = 0 /\ \A i \in 1 .. Len(w) : g[i] = g[i - 1] + w[i]
          /\ Total(w) = g[Len(w)]
    BY <1>1, TotalDef
  <1> HIDE DEF n
  <1>4. \A i \in 1 .. n + 1 : g[i] = g[i - 1] + w[i]
    BY <1>1, <1>3
  <1>5. \A i \in 0 .. n : f[i] = g[i]
    <2> DEFINE S == {m \in Nat : m <= n => f[m] = g[m]}
    <2>1. 0 \in S
      BY <1>2, <1>3
    <2>2. ASSUME NEW m \in Nat, m \in S PROVE m + 1 \in S
      <3>1. SUFFICES ASSUME m + 1 <= n PROVE f[m + 1] = g[m + 1]
        OBVIOUS
      <3>2. m + 1 \in 1 .. n /\ m + 1 \in 1 .. n + 1 /\ (m + 1) - 1 = m
        BY <1>1, <3>1
      <3>3. f[m + 1] = f[m] + v[m + 1] /\ g[m + 1] = g[m] + w[m + 1]
        BY <1>2, <1>4, <3>2
      <3>4. f[m] = g[m] /\ v[m + 1] = w[m + 1]
        BY <1>1, <2>2, <3>1, <3>2
      <3> QED BY <3>3, <3>4
    <2>3. Nat \subseteq S
      <3> HIDE DEF S
      <3> QED BY <2>1, <2>2, SetInduction
    <2> QED BY <1>1, <2>3
  <1>6. g[n + 1] = g[n] + x
    <2>1. n + 1 \in 1 .. n + 1 /\ (n + 1) - 1 = n
      BY <1>1
    <2> QED BY <1>1, <1>4, <2>1
  <1>7. Total(w) = Total(v) + x /\ Total(v) \in Int
    <2>1. n \in 0 .. n
      BY <1>1
    <2> QED BY <1>1, <1>2, <1>3, <1>5, <1>6, <2>1
  <1>8. Total(<<>>) = 0
    <2>1. <<>> \in Seq(Int) /\ Len(<<>>) = 0
      OBVIOUS
    <2> QED BY <2>1, TotalDef
  <1> QED BY <1>7, <1>8 DEF w

-----------------------------------------------------------------------------
(* What a market order gets from the book. *)

Levels == Seq([price: Nat, qty: Nat])

\* The best price comes first: the asks upwards, the bids downwards.
BestFirst(side, levels) ==
  \A i, j \in 1 .. Len(levels) : i <= j => Gain(side, levels[i].price, levels[j].price) >= 0

\* Any way to take no more from a level than is there.
WayThrough(way, levels) ==
  /\ way \in Levels /\ Len(way) = Len(levels)
  /\ \A i \in 1 .. Len(levels) :
       way[i].price = levels[i].price /\ way[i].qty <= levels[i].qty

LEMMA LevelsTyped ==
  ASSUME NEW levels \in Levels
  PROVE  /\ Len(levels) \in Nat /\ DOMAIN levels = 1 .. Len(levels)
         /\ \A i \in 1 .. Len(levels) : /\ levels[i] \in [price: Nat, qty: Nat]
                                       /\ levels[i].price \in Nat /\ levels[i].qty \in Nat
  <1> DEFINE Level == [price: Nat, qty: Nat]
  <1>1. \A level \in Level : level.price \in Nat /\ level.qty \in Nat
    OBVIOUS
  <1>2. levels \in Seq(Level)
    BY DEF Levels
  <1> HIDE DEF Level
  <1>3. \A i \in 1 .. Len(levels) : levels[i] \in Level
    BY <1>2, ElementOfSeq
  <1> QED BY <1>1, <1>2, <1>3, LenProperties DEF Level

\* What an order of qty has, and what it has after another level.
Amounts(qty) == [filled: 0 .. qty, cost: Nat]

Bought(so, level, qty) ==
  LET take == Min({qty - so.filled, level.qty})
  IN  [filled |-> so.filled + take, cost |-> so.cost + level.price * take]

\* A level adds the lesser of what is wanted and what is there.
LEMMA BoughtAdds ==
  ASSUME NEW qty \in Nat, NEW so \in Amounts(qty), NEW level \in [price: Nat, qty: Nat]
  PROVE  \E take \in Nat :
           /\ take = IF qty - so.filled <= level.qty THEN qty - so.filled ELSE level.qty
           /\ Bought(so, level, qty).filled = so.filled + take
           /\ Bought(so, level, qty).cost = so.cost + level.price * take
           /\ Bought(so, level, qty) \in Amounts(qty)
  <1> DEFINE take == Min({qty - so.filled, level.qty})
  <1>1. /\ so.filled \in 0 .. qty /\ so.cost \in Nat /\ level.qty \in Nat /\ level.price \in Nat
        /\ qty - so.filled \in Nat
    BY DEF Amounts
  <1>2. take = IF qty - so.filled <= level.qty THEN qty - so.filled ELSE level.qty
    BY <1>1, MinOfTwo
  <1>3. /\ Bought(so, level, qty) = [filled |-> so.filled + take,
                                     cost |-> so.cost + level.price * take]
    BY DEF Bought
  <1> HIDE DEF take
  <1>4. take \in Nat /\ so.filled + take \in 0 .. qty
    BY <1>1, <1>2
  <1>5. level.price * take \in Nat
    BY <1>1, <1>4, ProductNat
  <1>6. so.cost + level.price * take \in Nat
    BY <1>1, <1>5
  <1> QED BY <1>2, <1>3, <1>4, <1>6 DEF Amounts

\* An order's way through the book, level after level.
Walk(levels, qty, g) ==
  /\ g \in [0 .. Len(levels) -> Amounts(qty)]
  /\ g[0].filled = 0 /\ g[0].cost = 0
  /\ \A i \in 1 .. Len(levels) : \E take \in Nat :
       /\ take = IF qty - g[i - 1].filled <= levels[i].qty
                 THEN qty - g[i - 1].filled ELSE levels[i].qty
       /\ g[i].filled = g[i - 1].filled + take
       /\ g[i].cost = g[i - 1].cost + levels[i].price * take

LEMMA FillIsWalk ==
  ASSUME NEW levels \in Levels, NEW qty \in Nat
  PROVE  \E g : Walk(levels, qty, g) /\ MarketFill(levels, qty) = g[Len(levels)]
  <1> DEFINE n == Len(levels)
             T == Amounts(qty)
             base == [filled |-> 0, cost |-> 0]
             step == [p \in (1 .. n) \X T |-> Bought(p[2], levels[p[1]], qty)]
             Fills(g) == g = [i \in 0 .. n |->
                IF i = 0 THEN [filled |-> 0, cost |-> 0]
                ELSE LET so == g[i - 1]
                         take == Min({qty - so.filled, levels[i].qty})
                     IN  [filled |-> so.filled + take, cost |-> so.cost + levels[i].price * take]]
             Steps(g) == g = [i \in 0 .. n |->
                IF i = 0 THEN base ELSE Bought(g[i - 1], levels[i], qty)]
             after == CHOOSE g : Fills(g)
  <1>1. n \in Nat /\ \A i \in 1 .. n : levels[i] \in [price: Nat, qty: Nat]
    BY LevelsTyped
  <1>2. MarketFill(levels, qty) = after[n]
    BY DEF MarketFill
  <1>3. \A g : Fills(g) <=> Steps(g)
    BY DEF Bought
  <1> HIDE DEF n, Fills
  <1>4. base \in T
    BY DEF Amounts
  <1>5. \A i \in 1 .. n, so \in T : Bought(so, levels[i], qty) \in T
    BY <1>1, BoughtAdds
  <1> HIDE DEF T, base
  <1>6. step \in StepFunctions(n, T)
    BY <1>5 DEF StepFunctions
  <1>7. \A i \in 1 .. n, so \in T : step[<<i, so>>] = Bought(so, levels[i], qty)
    OBVIOUS
  <1> HIDE DEF step
  <1>8. PICK f : Follows(f, n, T, base, step)
    BY <1>1, <1>4, <1>6, Recursion
  <1>9. Steps(f)
    <2> DEFINE h == [i \in 0 .. n |-> IF i = 0 THEN base ELSE Bought(f[i - 1], levels[i], qty)]
    <2>1. ASSUME NEW i \in 0 .. n PROVE f[i] = h[i]
      <3>1. CASE i = 0
        BY <1>8, <3>1 DEF Follows
      <3>2. CASE i # 0
        <4>1. i \in 1 .. n /\ i - 1 \in 0 .. n
          BY <1>1, <3>2
        <4> QED BY <1>7, <1>8, <3>2, <4>1 DEF Follows
      <3> QED BY <3>1, <3>2
    <2>2. h = [i \in 0 .. n |-> h[i]]
      OBVIOUS
    <2> HIDE DEF h
    <2>3. f = h
      BY <1>8, <2>1, <2>2 DEF Follows
    <2> QED BY <2>3 DEF h
  <1>10. Steps(after)
    <2>1. \E g : Fills(g)
      BY <1>3, <1>9
    <2>2. Fills(after)
      BY <2>1
    <2> QED BY <1>3, <2>2
  <1> HIDE DEF after
  <1>11. /\ DOMAIN after = 0 .. n /\ after = [i \in 0 .. n |-> after[i]]
         /\ after[0] = base /\ \A i \in 1 .. n : after[i] = Bought(after[i - 1], levels[i], qty)
    <2>1. after = [i \in 0 .. n |->
                     IF i = 0 THEN base ELSE Bought(after[i - 1], levels[i], qty)]
      BY <1>10
    <2> HIDE DEF Steps
    <2>2. DOMAIN after = 0 .. n /\ after = [i \in 0 .. n |-> after[i]]
      BY <2>1
    <2>3. \A i \in 0 .. n :
            after[i] = IF i = 0 THEN base ELSE Bought(after[i - 1], levels[i], qty)
      BY <2>1
    <2>4. 0 \in 0 .. n /\ \A i \in 1 .. n : i \in 0 .. n /\ i # 0
      BY <1>1
    <2> QED BY <2>2, <2>3, <2>4
  <1> HIDE DEF Steps
  <1>12. \A i \in 0 .. n : after[i] \in T
    <2> DEFINE S == {m \in Nat : m <= n => after[m] \in T}
    <2>1. 0 \in S
      BY <1>4, <1>11
    <2>2. ASSUME NEW m \in Nat, m \in S PROVE m + 1 \in S
      <3>1. SUFFICES ASSUME m + 1 <= n PROVE after[m + 1] \in T
        OBVIOUS
      <3>2. m + 1 \in 1 .. n /\ (m + 1) - 1 = m /\ after[m] \in T
        BY <1>1, <2>2, <3>1
      <3> QED BY <1>5, <1>11, <3>2
    <2>3. Nat \subseteq S
      <3> HIDE DEF S
      <3> QED BY <2>1, <2>2, SetInduction
    <2> QED BY <1>1, <2>3
  <1>13. after \in [0 .. n -> T]
    BY <1>11, <1>12
  <1>14. after[0].filled = 0 /\ after[0].cost = 0
    BY <1>11 DEF base
  <1>15. ASSUME NEW i \in 1 .. n
         PROVE  \E take \in Nat :
                  /\ take = IF qty - after[i - 1].filled <= levels[i].qty
                            THEN qty - after[i - 1].filled ELSE levels[i].qty
                  /\ after[i].filled = after[i - 1].filled + take
                  /\ after[i].cost = after[i - 1].cost + levels[i].price * take
    <2>1. i - 1 \in 0 .. n
      BY <1>1
    <2>2. after[i - 1] \in Amounts(qty)
      BY <1>12, <2>1 DEF T
    <2>3. after[i] = Bought(after[i - 1], levels[i], qty)
      BY <1>11
    <2> QED BY <1>1, <2>2, <2>3, BoughtAdds
  <1>16. Walk(levels, qty, after)
    BY <1>13, <1>14, <1>15 DEF Walk, n, T
  <1> QED BY <1>2, <1>16 DEF n

\* The partial sums of what a sequence of fills sells, and what for.
LEMMA FillSums ==
  ASSUME NEW fills \in Levels
  PROVE  \E u, t \in [0 .. Len(fills) -> Int] :
           /\ u[0] = 0 /\ t[0] = 0
           /\ \A i \in 1 .. Len(fills) :
                u[i] = u[i - 1] + fills[i].qty /\ t[i] = t[i - 1] + fills[i].price * fills[i].qty
           /\ Units(fills) = u[Len(fills)] /\ Turnover(fills) = t[Len(fills)]
  <1> DEFINE n == Len(fills)
             units == [i \in DOMAIN fills |-> fills[i].qty]
             money == [i \in DOMAIN fills |-> fills[i].price * fills[i].qty]
  <1>1. /\ n \in Nat /\ DOMAIN fills = 1 .. n
        /\ \A i \in 1 .. n : fills[i].price \in Nat /\ fills[i].qty \in Nat
    BY LevelsTyped
  <1>2. \A i \in 1 .. n : fills[i].price * fills[i].qty \in Int
    <2> SUFFICES ASSUME NEW i \in 1 .. n PROVE fills[i].price * fills[i].qty \in Int
      OBVIOUS
    <2>1. fills[i].price * fills[i].qty \in Nat
      BY <1>1, ProductNat
    <2> QED BY <2>1
  <1> HIDE DEF n
  <1>3. units \in [1 .. n -> Int] /\ money \in [1 .. n -> Int]
    BY <1>1, <1>2
  <1>4. units \in Seq(Int) /\ Len(units) = n /\ money \in Seq(Int) /\ Len(money) = n
    BY <1>1, <1>3
  <1>5. \A i \in 1 .. n : units[i] = fills[i].qty /\ money[i] = fills[i].price * fills[i].qty
    BY <1>1
  <1>6. Units(fills) = Total(units) /\ Turnover(fills) = Total(money)
    BY DEF Units, Turnover
  <1> HIDE DEF units, money
  <1>7. PICK u \in [0 .. n -> Int] :
          u[0] = 0 /\ (\A i \in 1 .. n : u[i] = u[i - 1] + units[i]) /\ Total(units) = u[n]
    BY <1>4, TotalDef
  <1>8. PICK t \in [0 .. n -> Int] :
          t[0] = 0 /\ (\A i \in 1 .. n : t[i] = t[i - 1] + money[i]) /\ Total(money) = t[n]
    BY <1>4, TotalDef
  <1> QED BY <1>5, <1>6, <1>7, <1>8 DEF n

\* A simulated market order takes all that is wanted, or all there is.
THEOREM FillTakesAllItCan ==
  ASSUME NEW levels \in Levels, NEW qty \in Nat
  PROVE  MarketFill(levels, qty).filled = Min({qty, Units(levels)})
  <1> DEFINE n == Len(levels)
  <1>1. n \in Nat /\ \A i \in 1 .. n : levels[i].qty \in Nat
    BY LevelsTyped
  <1>2. PICK g : Walk(levels, qty, g) /\ MarketFill(levels, qty) = g[n]
    BY FillIsWalk
  <1>3. PICK u \in [0 .. n -> Int] :
          /\ u[0] = 0 /\ \A i \in 1 .. n : u[i] = u[i - 1] + levels[i].qty
          /\ Units(levels) = u[n]
    BY FillSums
  <1> HIDE DEF n
  <1>4. \A i \in 0 .. n : g[i].filled \in 0 .. qty
    BY <1>2 DEF Walk, Amounts, n
  <1> DEFINE S == {m \in Nat : m <= n => g[m].filled = IF qty <= u[m] THEN qty ELSE u[m]}
  <1>5. 0 \in S
    BY <1>2, <1>3 DEF Walk
  <1>6. ASSUME NEW m \in Nat, m \in S PROVE m + 1 \in S
    <2>1. SUFFICES ASSUME m + 1 <= n
                   PROVE  g[m + 1].filled = IF qty <= u[m + 1] THEN qty ELSE u[m + 1]
      OBVIOUS
    <2>2. m + 1 \in 1 .. n /\ (m + 1) - 1 = m /\ m \in 0 .. n
          /\ g[m].filled = IF qty <= u[m] THEN qty ELSE u[m]
      BY <1>1, <1>6, <2>1
    <2>3. PICK take \in Nat :
            /\ take = IF qty - g[m].filled <= levels[m + 1].qty
                      THEN qty - g[m].filled ELSE levels[m + 1].qty
            /\ g[m + 1].filled = g[m].filled + take
      BY <1>2, <2>2 DEF Walk, n
    <2>4. u[m + 1] = u[m] + levels[m + 1].qty /\ levels[m + 1].qty \in Nat /\ u[m] \in Int
      BY <1>1, <1>3, <2>2
    <2>5. g[m].filled \in 0 .. qty
      BY <1>4, <2>2
    <2> QED BY <2>2, <2>3, <2>4, <2>5
  <1>7. n \in S
    <2> HIDE DEF S
    <2> QED BY <1>1, <1>5, <1>6, SetInduction
  <1>8. u[n] \in Int
    BY <1>1, <1>3
  <1>9. Min({qty, u[n]}) = IF qty <= u[n] THEN qty ELSE u[n]
    BY <1>8, MinOfTwo
  <1>10. g[n].filled = IF qty <= u[n] THEN qty ELSE u[n]
    BY <1>1, <1>7
  <1> QED BY <1>2, <1>3, <1>9, <1>10

\* Who has bought more at better prices stays ahead at the next level's price.
LEMMA LeadKeeps ==
  ASSUME NEW side \in Sides, NEW c \in Int, NEW t \in Int, NEW p \in Nat, NEW q \in Nat,
         NEW lead \in Nat, NEW take \in Nat, NEW took \in Nat, lead + take - took \in Nat,
         Gain(side, p, q) >= 0, Gain(side, c, t + p * lead) >= 0
  PROVE  Gain(side, c + q * take, (t + q * took) + q * (lead + take - took)) >= 0
  <1>1. q * (lead + take - took) = q * lead + q * take - q * took
    OBVIOUS
  <1>2. p * lead \in Nat /\ q * lead \in Nat /\ q * take \in Nat /\ q * took \in Nat
    BY ProductNat
  <1>3. Gain(side, p * lead, q * lead) >= 0
    <2>1. CASE side = "LONG"
      <3>1. q - p \in Nat
        BY <2>1 DEF Gain
      <3>2. (q - p) * lead \in Nat
        BY <3>1, ProductNat
      <3>3. (q - p) * lead = q * lead - p * lead
        OBVIOUS
      <3> QED BY <1>2, <2>1, <3>2, <3>3 DEF Gain
    <2>2. CASE side # "LONG"
      <3>1. p - q \in Nat
        BY <2>2 DEF Gain
      <3>2. (p - q) * lead \in Nat
        BY <3>1, ProductNat
      <3>3. (p - q) * lead = p * lead - q * lead
        OBVIOUS
      <3> QED BY <1>2, <2>2, <3>2, <3>3 DEF Gain
    <2> QED BY <2>1, <2>2
  <1> QED BY <1>1, <1>2, <1>3 DEF Gain

\* In a book that has its best price first, a simulated market order gets its
\* quantity for the best money there is: a buyer cannot have it cheaper, a seller
\* cannot have more for it.
THEOREM FillIsBest ==
  ASSUME NEW side \in Sides, NEW levels \in Levels, NEW qty \in Nat, BestFirst(side, levels),
         NEW way, WayThrough(way, levels), Units(way) = MarketFill(levels, qty).filled
  PROVE  Gain(side, MarketFill(levels, qty).cost, Turnover(way)) >= 0
  <1> DEFINE n == Len(levels)
  <1>1. /\ n \in Nat /\ n = Len(way) /\ way \in Levels
        /\ \A i \in 1 .. n : /\ levels[i].qty \in Nat /\ levels[i].price \in Nat
                             /\ way[i].qty \in Nat /\ way[i].qty <= levels[i].qty
                             /\ way[i].price = levels[i].price
    BY LevelsTyped DEF WayThrough
  <1>2. PICK g : Walk(levels, qty, g) /\ MarketFill(levels, qty) = g[n]
    BY FillIsWalk
  <1>3. PICK u, t \in [0 .. Len(way) -> Int] :
          /\ u[0] = 0 /\ t[0] = 0
          /\ \A i \in 1 .. Len(way) :
               u[i] = u[i - 1] + way[i].qty /\ t[i] = t[i - 1] + way[i].price * way[i].qty
          /\ Units(way) = u[Len(way)] /\ Turnover(way) = t[Len(way)]
    BY <1>1, FillSums
  <1>4. \A i \in 0 .. n : g[i].filled \in 0 .. qty /\ g[i].cost \in Nat
    BY <1>2 DEF Walk, Amounts
  <1>5. \A i \in 0 .. n : u[i] \in Int /\ t[i] \in Int
    BY <1>1, <1>3
  <1> HIDE DEF n
  <1> DEFINE Ahead(m) == Gain(side, g[m].cost, t[m] + levels[m].price * (g[m].filled - u[m])) >= 0
             S == {m \in Nat : m <= n /\ u[m] <= qty
                                 => u[m] <= g[m].filled /\ (m # 0 => Ahead(m))}
  <1>6. 0 \in S
    BY <1>2, <1>3 DEF Walk
  <1>7. ASSUME NEW m \in Nat, m \in S PROVE m + 1 \in S
    <2>1. SUFFICES ASSUME m + 1 <= n, u[m + 1] <= qty
                   PROVE  u[m + 1] <= g[m + 1].filled /\ Ahead(m + 1)
      BY <1>7
    <2>2. m + 1 \in 1 .. n /\ (m + 1) - 1 = m /\ m \in 0 .. n /\ m + 1 \in 0 .. n
      BY <1>1, <2>1
    <2> DEFINE q == levels[m + 1].price
               there == levels[m + 1].qty
               took == way[m + 1].qty
    <2>3. PICK take \in Nat :
            /\ take = IF qty - g[m].filled <= there THEN qty - g[m].filled ELSE there
            /\ g[m + 1].filled = g[m].filled + take
            /\ g[m + 1].cost = g[m].cost + q * take
      BY <1>2, <2>2 DEF Walk, n
    <2>4. u[m + 1] = u[m] + took /\ t[m + 1] = t[m] + q * took
      BY <1>1, <1>3, <2>2
    <2>5. /\ q \in Nat /\ there \in Nat /\ took \in Nat /\ took <= there
          /\ u[m] \in Int /\ t[m] \in Int /\ g[m].filled \in 0 .. qty /\ g[m].cost \in Nat
      BY <1>1, <1>4, <1>5, <2>2
    <2> HIDE DEF q, there, took
    <2>6. u[m] <= qty /\ m <= n
      BY <2>1, <2>2, <2>4, <2>5
    <2>7. u[m] <= g[m].filled /\ (m # 0 => Ahead(m))
      BY <1>7, <2>6
    <2> DEFINE lead == g[m].filled - u[m]
    <2>8. lead \in Nat
      BY <2>5, <2>7
    <2>9. u[m + 1] <= g[m + 1].filled
      <3>1. g[m].filled \in Int /\ u[m] + took <= qty
        BY <2>1, <2>4, <2>5
      <3>2. CASE qty - g[m].filled <= there
        <4>1. g[m + 1].filled = qty
          BY <2>3, <3>1, <3>2
        <4> QED BY <2>1, <4>1
      <3>3. CASE ~(qty - g[m].filled <= there)
        <4>1. g[m + 1].filled = g[m].filled + there
          BY <2>3, <3>3
        <4> QED BY <2>4, <2>5, <2>7, <3>1, <4>1
      <3> QED BY <3>2, <3>3
    <2>10. lead + take - took \in Nat /\ g[m + 1].filled - u[m + 1] = lead + take - took
      <3> DEFINE a == g[m].filled
                 b == u[m]
      <3>1. a \in Int /\ b \in Int /\ lead = a - b
        BY <2>5
      <3>2. b + took <= a + take /\ g[m + 1].filled = a + take /\ u[m + 1] = b + took
        BY <2>3, <2>4, <2>9
      <3> HIDE DEF a, b, lead
      <3>3. lead + take - took \in Nat /\ (a + take) - (b + took) = lead + take - took
        BY <2>5, <3>1, <3>2
      <3> QED BY <3>2, <3>3
    <2>11. \E p \in Nat : Gain(side, p, q) >= 0 /\ Gain(side, g[m].cost, t[m] + p * lead) >= 0
      <3>1. CASE m = 0
        <4>1. lead = 0 /\ g[m].cost = 0 /\ t[m] = 0
          BY <1>2, <1>3, <3>1 DEF Walk
        <4>2. q * lead = 0
          BY <2>5, <4>1
        <4>3. Gain(side, q, q) >= 0
          BY <2>5 DEF Gain
        <4>4. Gain(side, g[m].cost, t[m] + q * lead) >= 0
          <5> HIDE DEF lead
          <5> QED BY <4>1, <4>2 DEF Gain
        <4> QED BY <2>5, <4>3, <4>4
      <3>2. CASE m # 0
        <4>1. m \in 1 .. n
          BY <2>2, <3>2
        <4>2. Gain(side, levels[m].price, q) >= 0
          <5>1. m <= m + 1
            OBVIOUS
          <5> QED BY <2>2, <4>1, <5>1 DEF BestFirst, q, n
        <4> QED BY <1>1, <2>7, <3>2, <4>1, <4>2
      <3> QED BY <3>1, <3>2
    <2> HIDE DEF lead
    <2>12. Gain(side, g[m].cost + q * take,
                (t[m] + q * took) + q * (lead + take - took)) >= 0
      <3>1. PICK p \in Nat : Gain(side, p, q) >= 0 /\ Gain(side, g[m].cost, t[m] + p * lead) >= 0
        BY <2>11
      <3>2. g[m].cost \in Int
        BY <2>5
      <3> QED BY <2>5, <2>8, <2>10, <3>1, <3>2, LeadKeeps
    <2>13. Ahead(m + 1)
      BY <2>3, <2>4, <2>10, <2>12 DEF q
    <2> QED BY <2>9, <2>13
  <1>8. n \in S
    <2> HIDE DEF S
    <2> QED BY <1>1, <1>6, <1>7, SetInduction
  <1>9. u[n] = g[n].filled /\ Turnover(way) = t[n] /\ n \in 0 .. n
    BY <1>1, <1>2, <1>3
  <1>10. g[n].filled - u[n] = 0 /\ u[n] <= qty
    BY <1>4, <1>9
  <1>11. CASE n = 0
    <2>1. g[n].cost = 0 /\ t[n] = 0
      BY <1>2, <1>3, <1>11 DEF Walk
    <2> QED BY <1>2, <1>9, <2>1 DEF Gain
  <1>12. CASE n # 0
    <2>1. Ahead(n)
      BY <1>1, <1>8, <1>10, <1>12
    <2>2. levels[n].price * (g[n].filled - u[n]) = 0
      <3>1. n \in 1 .. n
        BY <1>1, <1>12
      <3>2. levels[n].price \in Nat
        BY <1>1, <3>1
      <3> QED BY <1>10, <3>2
    <2>3. t[n] + levels[n].price * (g[n].filled - u[n]) = t[n]
      BY <1>5, <1>9, <2>2
    <2> QED BY <1>2, <1>9, <2>1, <2>3
  <1> QED BY <1>11, <1>12

-----------------------------------------------------------------------------
(* Positions. *)

Reasons == {"none", "emergency_exit", "stop_hit", "full_tp", "partial_tp",
            "invalidation_exit", "backtest_window_end"}

Positions ==
  [status: {"open", "partial_exit", "closed"}, side: Sides, qty: Nat, initial: Nat \ {0},
   entry: Nat, stop: Int, planned: Nat, targets: Seq(Nat), taken: SUBSET Nat, mfe: Nat,
   age: Nat, realized: Int, reason: Reasons, fills: Seq([price: Int, qty: Nat]), sold: Int]

\* The units sold so far have brought no less than they would have brought, with
\* slippage and fees, at the stop the position was opened with.
Bounded(p) ==
  p.realized >= Cash(p, Slipped(p.side, p.planned), p.initial - p.qty)
                  - EntryFee(p.entry, p.initial)

\* Nothing is held exactly when it is closed, notes are of targets before the
\* last, and every target lies beyond the planned stop.
Kempt(p) ==
  /\ p.targets # <<>>
  /\ p.qty <= p.initial /\ (p.qty = 0 <=> p.status = "closed")
  /\ p.taken \subseteq {p.targets[i] : i \in 1 .. Len(p.targets) - 1}
  /\ \A i \in 1 .. Len(p.targets) : Gain(p.side, p.planned, p.targets[i]) >= 0

\* The stop is never on the wrong side of the planned one.
Stopped(p) == Gain(p.side, p.planned, p.stop) >= 0

\* What never changes in the life of a position.
SamePlan(p, q) ==
  /\ q.side = p.side /\ q.initial = p.initial /\ q.entry = p.entry
  /\ q.planned = p.planned /\ q.targets = p.targets

\* What a sale does.
LEMMA SellKeeps ==
  ASSUME NEW p \in Positions, NEW kind \in Reasons, NEW price \in Int, NEW qty \in 1 .. p.qty,
         Bounded(p), Kempt(p)
  PROVE  /\ Sell(p, kind, price, qty) \in Positions
         /\ SamePlan(p, Sell(p, kind, price, qty))
         /\ Kempt(Sell(p, kind, price, qty))
         /\ Sell(p, kind, price, qty).qty = p.qty - qty
         /\ Sell(p, kind, price, qty).age = p.age
         /\ Sell(p, kind, price, qty).stop = p.stop
         /\ Sell(p, kind, price, qty).taken = p.taken
         /\ qty = p.qty => Sell(p, kind, price, qty).reason = kind
         /\ Gain(p.side, Slipped(p.side, p.planned), price) >= 0
              => Bounded(Sell(p, kind, price, qty))
  <1> DEFINE s == Sell(p, kind, price, qty)
             worst == Slipped(p.side, p.planned)
  <1>1. /\ p.side \in Sides /\ p.entry \in Nat /\ p.qty \in Nat /\ qty \in Nat
        /\ p.planned \in Nat /\ p.initial \in Nat \ {0} /\ p.realized \in Int
        /\ p.fills \in Seq([price: Int, qty: Nat]) /\ p.qty <= p.initial
    BY DEF Positions, Kempt
  <1>2. worst \in Int
    <2>1. Gain(p.side, p.planned, p.planned) >= 0
      BY <1>1 DEF Gain
    <2> QED BY <1>1, <2>1, SlippedMonotone
  <1>3. Cash(p, price, qty) \in Int
    BY <1>1, CashAdds
  <1>4. Append(p.fills, [price |-> price, qty |-> qty]) \in Seq([price: Int, qty: Nat])
    BY <1>1, AppendProperties
  <1>5. s = [p EXCEPT !.qty = p.qty - qty, !.realized = p.realized + Cash(p, price, qty),
                      !.fills = Append(p.fills, [price |-> price, qty |-> qty]),
                      !.status = IF qty = p.qty THEN "closed" ELSE "partial_exit",
                      !.reason = IF qty = p.qty THEN kind ELSE p.reason]
    BY DEF Sell
  <1>6. /\ s.qty = p.qty - qty /\ s.realized = p.realized + Cash(p, price, qty)
        /\ s.status = IF qty = p.qty THEN "closed" ELSE "partial_exit"
        /\ qty = p.qty => s.reason = kind
        /\ s.age = p.age /\ s.stop = p.stop /\ s.taken = p.taken
        /\ SamePlan(p, s)
    BY <1>5 DEF Positions, SamePlan
  <1>7. s \in Positions
    <2>1. p.qty - qty \in Nat /\ p.realized + Cash(p, price, qty) \in Int
      BY <1>1, <1>3
    <2>2. p.reason \in Reasons
      BY DEF Positions
    <2> HIDE DEF s
    <2> QED BY <1>4, <1>5, <2>1, <2>2 DEF Positions
  <1> HIDE DEF s
  <1>8. Kempt(s)
    BY <1>1, <1>6 DEF Kempt, SamePlan
  <1>9. ASSUME Gain(p.side, worst, price) >= 0 PROVE Bounded(s)
    <2>1. Cash(p, price, qty) >= Cash(p, worst, qty)
      BY <1>1, <1>2, <1>9, CashMonotone
    <2>2. /\ Cash(p, worst, p.initial - p.qty) \in Int /\ Cash(p, worst, qty) \in Int
          /\ Cash(p, worst, (p.initial - p.qty) + qty)
               = Cash(p, worst, p.initial - p.qty) + Cash(p, worst, qty)
      <3>1. p.initial - p.qty \in Int /\ qty \in Int /\ p.entry \in Int
        BY <1>1
      <3> QED BY <1>1, <1>2, <3>1, CashAdds
    <2>3. EntryFee(p.entry, p.initial) \in Int
      BY <1>1, ExitAssumption DEF EntryFee
    <2>4. p.realized >= Cash(p, worst, p.initial - p.qty) - EntryFee(p.entry, p.initial)
      BY DEF Bounded
    <2>5. s.initial - s.qty = (p.initial - p.qty) + qty
      BY <1>1, <1>6 DEF SamePlan
    <2>6. Cash(s, worst, s.initial - s.qty) = Cash(p, worst, (p.initial - p.qty) + qty)
      BY <1>6, <2>5 DEF Cash, SamePlan
    <2>7. s.realized >= Cash(p, worst, (p.initial - p.qty) + qty) - EntryFee(p.entry, p.initial)
      BY <1>1, <1>3, <1>6, <2>1, <2>2, <2>3, <2>4
    <2>8. Slipped(s.side, s.planned) = worst /\ EntryFee(s.entry, s.initial) = EntryFee(p.entry, p.initial)
      BY <1>6 DEF SamePlan
    <2> QED BY <2>6, <2>7, <2>8 DEF Bounded
  <1> QED BY <1>6, <1>7, <1>8, <1>9 DEF s

\* Marking a position changes its MFE and its age.
LEMMA MarkedKeeps ==
  ASSUME NEW p \in Positions, NEW candle \in Candles
  PROVE  /\ Marked(p, candle) \in Positions
         /\ SamePlan(p, Marked(p, candle))
         /\ Marked(p, candle).age = p.age + 1
         /\ Marked(p, candle).qty = p.qty /\ Marked(p, candle).status = p.status
         /\ Marked(p, candle).stop = p.stop /\ Marked(p, candle).taken = p.taken
         /\ Marked(p, candle).realized = p.realized
  <1> DEFINE gain == Gain(p.side, p.entry, candle.close) * p.qty
             best == Max({p.mfe, gain})
             m == Marked(p, candle)
  <1>1. p.mfe \in Nat /\ p.age \in Nat /\ p.qty \in Nat /\ p.entry \in Nat
    BY DEF Positions
  <1>2. gain \in Int
    BY <1>1, PaperAssumption DEF Gain
  <1>3. best \in Nat /\ p.age + 1 \in Nat
    BY <1>1, <1>2, MaxOfTwo
  <1>4. m = [p EXCEPT !.mfe = best, !.age = p.age + 1]
    BY DEF Marked
  <1> HIDE DEF gain, best, m
  <1>5. m \in Positions
    BY <1>3, <1>4 DEF Positions
  <1>6. /\ m.age = p.age + 1 /\ m.qty = p.qty /\ m.status = p.status /\ m.stop = p.stop
        /\ m.taken = p.taken /\ m.realized = p.realized /\ SamePlan(p, m)
    BY <1>4 DEF Positions, SamePlan
  <1> QED BY <1>5, <1>6 DEF m

\* decide_from_candle() decides what applies, and nothing that comes before it
\* does: it looks at the stop before anything but an emergency.
LEMMA DecideFirst ==
  ASSUME NEW p, NEW candle, NEW atr, NEW emergency
  PROVE  /\ Decide(p, candle, atr, emergency) \in
              {"emergency_exit", "stop_hit", "full_tp", "partial_tp", "trail_stop",
               "invalidation_exit", "hold"}
         /\ Applies(Decide(p, candle, atr, emergency), p, candle, atr, emergency)
         /\ Decide(p, candle, atr, emergency) \in {"emergency_exit", "stop_hit"}
              \/ ~Applies("stop_hit", p, candle, atr, emergency)
  <1> DEFINE I == {i \in DOMAIN Precedence : Applies(Precedence[i], p, candle, atr, emergency)}
             m == Min(I)
  <1>1. DOMAIN Precedence = 1 .. 7
    BY DEF Precedence
  <1>2. /\ Precedence[1] = "emergency_exit" /\ Precedence[2] = "stop_hit"
        /\ Precedence[3] = "full_tp" /\ Precedence[4] = "partial_tp"
        /\ Precedence[5] = "trail_stop" /\ Precedence[6] = "invalidation_exit"
        /\ Precedence[7] = "hold"
    BY DEF Precedence
  <1>3. 7 \in I
    BY <1>1, <1>2 DEF Applies
  <1>4. m \in I /\ \A i \in I : m <= i
    BY <1>1, <1>3, MinOfSome
  <1>5. Decide(p, candle, atr, emergency) = Precedence[m]
    BY DEF Decide
  <1>6. m \in 1 .. 7 /\ Applies(Precedence[m], p, candle, atr, emergency)
    BY <1>1, <1>4
  <1>7. Applies("stop_hit", p, candle, atr, emergency) => m <= 2
    BY <1>1, <1>2, <1>4
  <1> HIDE DEF m, I
  <1>8. m = 1 \/ m = 2 \/ m = 3 \/ m = 4 \/ m = 5 \/ m = 6 \/ m = 7
    BY <1>6
  <1>9. Precedence[m] \in {"emergency_exit", "stop_hit", "full_tp", "partial_tp", "trail_stop",
                           "invalidation_exit", "hold"}
    BY <1>2, <1>8
  <1>10. m <= 2 => Precedence[m] \in {"emergency_exit", "stop_hit"}
    BY <1>2, <1>8
  <1> QED BY <1>5, <1>6, <1>7, <1>9, <1>10

\* Where a decision fills,
LEMMA Fills ==
  ASSUME NEW p, NEW candle
  PROVE  /\ FillPrice("stop_hit", p, candle) = p.stop * SlipDen
         /\ FillPrice("full_tp", p, candle) = Slipped(p.side, p.targets[Len(p.targets)])
         /\ FillPrice("partial_tp", p, candle)
              = Slipped(p.side, p.targets[Min(OpenTargets(p, candle))])
         /\ FillPrice("emergency_exit", p, candle) = Slipped(p.side, candle.close)
         /\ FillPrice("invalidation_exit", p, candle) = Slipped(p.side, candle.close)
  BY DEF FillPrice

\* and what is sold there, if it ends the position.
LEMMA Ends ==
  ASSUME NEW p, NEW candle, NEW atr,
         NEW kind \in {"emergency_exit", "stop_hit", "full_tp", "invalidation_exit"}
  PROVE  Applied(p, kind, candle, atr) = Sell(p, kind, FillPrice(kind, p, candle), p.qty)
  BY DEF Applied

\* What a decision does to an open position.  Unless an emergency ends it, no
\* unit is sold for less than the planned stop would have brought.
LEMMA AppliedKeeps ==
  ASSUME NEW p \in Positions, Kempt(p), Bounded(p), Stopped(p), p.qty > 0,
         NEW candle \in Candles, NEW atr \in Nat, NEW emergency \in BOOLEAN,
         NEW r, r = Applied(p, Decide(p, candle, atr, emergency), candle, atr)
  PROVE  /\ r \in Positions /\ SamePlan(p, r) /\ Kempt(r) /\ r.age = p.age
         /\ r.status # "closed" \/ r.reason # "emergency_exit" => Bounded(r)
         /\ Gain(p.side, p.planned, p.entry) >= 0 => Stopped(r)
  <1> DEFINE k == Decide(p, candle, atr, emergency)
  <1>1. /\ k \in {"emergency_exit", "stop_hit", "full_tp", "partial_tp", "trail_stop",
                  "invalidation_exit", "hold"}
        /\ Applies(k, p, candle, atr, emergency)
        /\ k \in {"emergency_exit", "stop_hit"}
             \/ ~Applies("stop_hit", p, candle, atr, emergency)
    BY DecideFirst
  <1> HIDE DEF k
  <1>2. r = Applied(p, k, candle, atr)
    BY DEF k
  <1>3. /\ p.side \in Sides /\ p.entry \in Nat /\ p.qty \in Nat \ {0} /\ p.stop \in Int
        /\ p.planned \in Nat /\ p.initial \in Nat \ {0} /\ p.targets \in Seq(Nat)
        /\ p.taken \in SUBSET Nat
    BY DEF Positions
  <1>4. /\ candle.low \in Nat /\ candle.close \in Nat /\ candle.high \in Nat
        /\ candle.low <= candle.close /\ candle.close <= candle.high
    BY PaperAssumption
  <1>5. Len(p.targets) \in Nat \ {0} /\ \A i \in 1 .. Len(p.targets) : p.targets[i] \in Nat
    BY <1>3, EmptySeq, ElementOfSeq DEF Kempt
  <1>6. SamePlan(p, p)
    BY DEF SamePlan
  <1>7. ASSUME NEW kind \in Reasons, NEW price \in Int, r = Sell(p, kind, price, p.qty),
               kind = "emergency_exit" \/ Gain(p.side, Slipped(p.side, p.planned), price) >= 0
        PROVE  /\ r \in Positions /\ SamePlan(p, r) /\ Kempt(r) /\ r.age = p.age
               /\ r.status # "closed" \/ r.reason # "emergency_exit" => Bounded(r)
               /\ Gain(p.side, p.planned, p.entry) >= 0 => Stopped(r)
    <2>1. p.qty \in 1 .. p.qty
      BY <1>3
    <2>2. /\ r \in Positions /\ SamePlan(p, r) /\ Kempt(r) /\ r.qty = p.qty - p.qty
          /\ r.age = p.age /\ r.stop = p.stop /\ r.reason = kind
          /\ Gain(p.side, Slipped(p.side, p.planned), price) >= 0 => Bounded(r)
      BY <1>7, <2>1, SellKeeps
    <2>3. r.status = "closed"
      BY <1>3, <2>2 DEF Kempt
    <2>4. Stopped(r)
      BY <2>2 DEF Stopped, SamePlan
    <2> QED BY <1>7, <2>2, <2>3, <2>4
  <1>8. ASSUME NEW price \in Nat
        PROVE  /\ Slipped(p.side, price) \in Int
               /\ Gain(p.side, p.planned, price) >= 0
                    => Gain(p.side, Slipped(p.side, p.planned), Slipped(p.side, price)) >= 0
    <2>1. Gain(p.side, price, price) >= 0
      BY <1>3 DEF Gain
    <2> QED BY <1>3, <2>1, SlippedMonotone
  <1>9. CASE k = "hold"
    <2>1. r = p
      BY <1>2, <1>9 DEF Applied
    <2> QED BY <1>6, <2>1
  <1>10. CASE k = "trail_stop"
    <2> DEFINE t == TrailedStop(p, candle, atr)
    <2>1. Gain(p.side, p.stop, t) > 0
      BY <1>1, <1>10 DEF Applies, Trails
    <2>2. t \in Int
      BY <1>3, <1>4, ExitAssumption DEF TrailedStop, Further, Best
    <2>3. r = [p EXCEPT !.stop = t]
      BY <1>2, <1>10 DEF Applied
    <2> HIDE DEF t
    <2>4. /\ r \in Positions /\ SamePlan(p, r) /\ r.age = p.age /\ r.stop = t
          /\ r.qty = p.qty /\ r.status = p.status /\ r.taken = p.taken
          /\ r.realized = p.realized
      BY <2>2, <2>3 DEF Positions, SamePlan
    <2>5. Kempt(r)
      BY <2>4 DEF Kempt, SamePlan
    <2>6. Bounded(r)
      BY <2>4 DEF Bounded, SamePlan, Cash
    <2>7. Stopped(r)
      BY <1>3, <2>1, <2>2, <2>4 DEF Stopped, SamePlan, Gain, Sides
    <2> QED BY <2>4, <2>5, <2>6, <2>7
  <1>11. CASE k = "partial_tp"
    <2> DEFINE i == Min(OpenTargets(p, candle))
               price == Slipped(p.side, p.targets[i])
               some == PartialQty(p.qty)
               q == Sell(p, "partial_tp", price, some)
    <2>1. OpenTargets(p, candle) # {}
      BY <1>1, <1>11 DEF Applies
    <2>2. OpenTargets(p, candle) \in SUBSET (1 .. Len(p.targets) - 1) /\ Len(p.targets) - 1 \in Nat
      BY <1>5 DEF OpenTargets
    <2>3. i \in 1 .. Len(p.targets) - 1
      BY <2>1, <2>2, MinOfSome
    <2> HIDE DEF i
    <2>4. /\ p.targets[i] \in Nat /\ Gain(p.side, p.planned, p.targets[i]) >= 0
      BY <1>5, <2>3 DEF Kempt
    <2>5. price \in Int /\ Gain(p.side, Slipped(p.side, p.planned), price) >= 0
      BY <1>8, <2>4
    <2>6. some \in 1 .. p.qty
      BY <1>3, PartialQtyRange
    <2> HIDE DEF price, some
    <2>7. /\ q \in Positions /\ SamePlan(p, q) /\ Kempt(q) /\ Bounded(q)
          /\ q.age = p.age /\ q.taken = p.taken
      <3>1. "partial_tp" \in Reasons
        BY DEF Reasons
      <3> QED BY <2>5, <2>6, <3>1, SellKeeps
    <2>8. r = [q EXCEPT !.stop = p.entry, !.taken = @ \cup {p.targets[i]}]
      <3>1. r = Applied(p, "partial_tp", candle, atr)
        BY <1>2, <1>11
      <3>2. FillPrice("partial_tp", p, candle) = price
        BY Fills DEF i, price
      <3> QED BY <3>1, <3>2 DEF Applied, i, some
    <2> HIDE DEF q
    <2>9. r = [q EXCEPT !.stop = p.entry, !.taken = q.taken \cup {p.targets[i]}]
      BY <2>8
    <2>10. p.entry \in Int /\ q.taken \cup {p.targets[i]} \in SUBSET Nat
      BY <1>3, <2>4, <2>7
    <2>11. r \in Positions
      BY <2>7, <2>9, <2>10 DEF Positions
    <2>12. /\ SamePlan(p, r) /\ r.age = p.age /\ r.stop = p.entry
           /\ r.qty = q.qty /\ r.status = q.status /\ r.realized = q.realized
           /\ r.taken = p.taken \cup {p.targets[i]}
      BY <2>7, <2>9 DEF Positions, SamePlan
    <2>13. Kempt(r)
      BY <2>3, <2>7, <2>12 DEF Kempt, SamePlan
    <2>14. Bounded(r)
      BY <2>7, <2>12 DEF Bounded, SamePlan, Cash
    <2>15. Gain(p.side, p.planned, p.entry) >= 0 => Stopped(r)
      BY <2>12 DEF Stopped, SamePlan
    <2> QED BY <2>11, <2>12, <2>13, <2>14, <2>15
  <1>12. CASE k = "stop_hit"
    <2>1. /\ p.stop * SlipDen \in Int
          /\ Gain(p.side, Slipped(p.side, p.planned), p.stop * SlipDen) >= 0
      BY <1>3, UnslippedIsBetter DEF Stopped
    <2>2. r = Sell(p, "stop_hit", p.stop * SlipDen, p.qty)
      <3>1. r = Sell(p, "stop_hit", FillPrice("stop_hit", p, candle), p.qty)
        BY <1>2, <1>12, Ends
      <3> QED BY <3>1, Fills
    <2>9. "stop_hit" \in Reasons
      BY DEF Reasons
    <2> QED BY <1>7, <2>1, <2>2, <2>9
  <1>13. CASE k = "full_tp"
    <2> DEFINE last_target == p.targets[Len(p.targets)]
    <2>1. last_target \in Nat /\ Gain(p.side, p.planned, last_target) >= 0
      BY <1>5 DEF Kempt
    <2>2. r = Sell(p, "full_tp", Slipped(p.side, last_target), p.qty)
      <3>1. r = Sell(p, "full_tp", FillPrice("full_tp", p, candle), p.qty)
        BY <1>2, <1>13, Ends
      <3> QED BY <3>1, Fills
    <2> HIDE DEF last_target
    <2>9. "full_tp" \in Reasons
      BY DEF Reasons
    <2> QED BY <1>7, <1>8, <2>1, <2>2, <2>9
  <1>14. CASE k = "invalidation_exit"
    <2>1. ~Applies("stop_hit", p, candle, atr, emergency)
      BY <1>1, <1>14
    <2>2. ~(Gain(p.side, p.stop, Worst(p.side, candle)) <= 0)
      BY <2>1 DEF Applies
    <2>3. Gain(p.side, p.planned, candle.close) >= 0
      BY <1>3, <1>4, <2>2 DEF Gain, Worst, Stopped, Sides
    <2>4. r = Sell(p, "invalidation_exit", Slipped(p.side, candle.close), p.qty)
      <3>1. r = Sell(p, "invalidation_exit", FillPrice("invalidation_exit", p, candle), p.qty)
        BY <1>2, <1>14, Ends
      <3> QED BY <3>1, Fills
    <2>9. "invalidation_exit" \in Reasons
      BY DEF Reasons
    <2> QED BY <1>4, <1>7, <1>8, <2>3, <2>4, <2>9
  <1>15. CASE k = "emergency_exit"
    <2>1. r = Sell(p, "emergency_exit", Slipped(p.side, candle.close), p.qty)
      <3>1. r = Sell(p, "emergency_exit", FillPrice("emergency_exit", p, candle), p.qty)
        BY <1>2, <1>15, Ends
      <3> QED BY <3>1, Fills
    <2>9. "emergency_exit" \in Reasons
      BY DEF Reasons
    <2> QED BY <1>4, <1>7, <1>8, <2>1, <2>9
  <1> QED BY <1>1, <1>9, <1>10, <1>11, <1>12, <1>13, <1>14, <1>15

\* One look at an open position.
LEMMA ManagedKeeps ==
  ASSUME NEW p \in Positions, Kempt(p), Bounded(p), Stopped(p), IsOpen(p),
         NEW candle \in Candles, NEW atr \in Nat, NEW emergency \in BOOLEAN,
         NEW r, r = Managed(p, candle, atr, emergency)
  PROVE  /\ r \in Positions /\ SamePlan(p, r) /\ Kempt(r) /\ r.age = p.age + 1
         /\ r.status # "closed" \/ r.reason # "emergency_exit" => Bounded(r)
         /\ Gain(p.side, p.planned, p.entry) >= 0 => Stopped(r)
  <1> DEFINE m == Marked(p, candle)
             a == Applied(m, Decide(m, candle, atr, emergency), candle, atr)
  <1>1. /\ m \in Positions /\ SamePlan(p, m) /\ m.age = p.age + 1
        /\ m.qty = p.qty /\ m.status = p.status /\ m.stop = p.stop /\ m.taken = p.taken
        /\ m.realized = p.realized
    BY MarkedKeeps
  <1> HIDE DEF m
  <1>2. Kempt(m)
    BY <1>1 DEF Kempt, SamePlan
  <1>3. Bounded(m)
    BY <1>1 DEF Bounded, SamePlan, Cash
  <1>4. Stopped(m)
    BY <1>1 DEF Stopped, SamePlan
  <1>5. p.qty \in Nat /\ p.status # "closed"
    BY DEF Positions, IsOpen
  <1>6. m.qty > 0
    BY <1>1, <1>5 DEF Kempt
  <1>7. /\ a \in Positions /\ SamePlan(m, a) /\ Kempt(a) /\ a.age = m.age
        /\ a.status # "closed" \/ a.reason # "emergency_exit" => Bounded(a)
        /\ Gain(m.side, m.planned, m.entry) >= 0 => Stopped(a)
    BY <1>1, <1>2, <1>3, <1>4, <1>6, AppliedKeeps
  <1>8. r = [a EXCEPT !.sold = @ + (p.qty - a.qty)]
    BY DEF Managed, m
  <1> HIDE DEF a
  <1>9. a.sold \in Int /\ a.qty \in Nat
    BY <1>7 DEF Positions
  <1>10. r = [a EXCEPT !.sold = a.sold + (p.qty - a.qty)] /\ a.sold + (p.qty - a.qty) \in Int
    BY <1>5, <1>8, <1>9
  <1>11. r \in Positions
    BY <1>7, <1>10 DEF Positions
  <1>12. /\ SamePlan(a, r) /\ r.age = a.age /\ r.stop = a.stop /\ r.qty = a.qty
         /\ r.status = a.status /\ r.realized = a.realized /\ r.taken = a.taken
         /\ r.reason = a.reason
    BY <1>7, <1>10 DEF Positions, SamePlan
  <1>13. Kempt(r)
    BY <1>7, <1>12 DEF Kempt, SamePlan
  <1>14. Bounded(a) => Bounded(r)
    BY <1>12 DEF Bounded, SamePlan, Cash
  <1>15. Stopped(a) => Stopped(r)
    BY <1>12 DEF Stopped, SamePlan
  <1>16. SamePlan(p, r)
    BY <1>1, <1>7, <1>12 DEF SamePlan
  <1>17. Gain(m.side, m.planned, m.entry) = Gain(p.side, p.planned, p.entry)
    BY <1>1 DEF SamePlan
  <1> QED BY <1>1, <1>7, <1>11, <1>12, <1>13, <1>14, <1>15, <1>16, <1>17

-----------------------------------------------------------------------------
(* The programs. *)

\* The position under way: its stop is where it was planned or better, and under
\* the backtester, which buys at the planned price, the entry is beyond it.
Holding ==
  pos # None =>
    /\ pos \in Positions /\ Kempt(pos) /\ Bounded(pos) /\ Stopped(pos) /\ IsOpen(pos)
    /\ pos.age <= bar
    /\ keeper = "backtest" => Gain(pos.side, pos.planned, pos.entry) >= 0

\* The one the last step closed.
Booked ==
  trade # None =>
    /\ trade \in Positions /\ Kempt(trade) /\ trade.status = "closed"
    /\ trade.age <= bar
    /\ trade.reason \notin {"emergency_exit", "backtest_window_end"} => Bounded(trade)

Program == keeper \in Keepers /\ bar \in 0 .. MaxBars /\ over \in BOOLEAN /\ last \in Int

TradeInv == Program /\ Holding /\ Booked

LEMMA NoneIsNoPosition == None \notin Positions
  <1>1. \A p \in Positions : p.status # "none"
    BY DEF Positions
  <1> QED BY <1>1 DEF None

\* A position of an approved plan, whatever it cost.
LEMMA OpenedIsFine ==
  ASSUME NEW plan \in Plans, NEW entry \in Nat, NEW p, p = Opened(plan, entry)
  PROVE  /\ p \in Positions /\ Kempt(p) /\ Bounded(p) /\ Stopped(p) /\ IsOpen(p) /\ p.age = 0
         /\ entry = plan.entry => Gain(p.side, p.planned, p.entry) >= 0
  <1>1. Sound(plan)
    BY PaperAssumption
  <1>2. /\ plan.side \in Sides /\ plan.qty \in Nat \ {0} /\ plan.entry \in Nat
        /\ plan.stop \in Nat /\ plan.targets \in Seq(Nat) /\ plan.targets # <<>>
        /\ Gain(plan.side, plan.entry, plan.stop) < 0
        /\ \A i \in DOMAIN plan.targets : Gain(plan.side, plan.entry, plan.targets[i]) > 0
    BY <1>1 DEF Sound
  <1>3. EntryFee(entry, plan.qty) \in Nat
    BY <1>2, ExitAssumption, ProductNat DEF EntryFee
  <1>4. -EntryFee(entry, plan.qty) \in Int
    BY <1>3
  <1>5. "none" \in Reasons
    BY DEF Reasons
  <1>6. <<>> \in Seq([price: Int, qty: Nat])
    BY EmptySeq
  <1>7. p \in Positions
    BY <1>2, <1>4, <1>5, <1>6 DEF Opened, Positions
  <1>8. /\ p.side = plan.side /\ p.qty = plan.qty /\ p.initial = plan.qty /\ p.entry = entry
        /\ p.stop = plan.stop /\ p.planned = plan.stop /\ p.targets = plan.targets
        /\ p.taken = {} /\ p.status = "open" /\ p.age = 0
        /\ p.realized = -EntryFee(entry, plan.qty)
    BY DEF Opened
  <1> HIDE DEF Opened
  <1>9. Kempt(p)
    <2>1. /\ Len(plan.targets) \in Nat /\ DOMAIN plan.targets = 1 .. Len(plan.targets)
          /\ \A i \in 1 .. Len(plan.targets) : plan.targets[i] \in Nat
      BY <1>2, LenProperties, ElementOfSeq
    <2>2. ASSUME NEW i \in 1 .. Len(plan.targets)
          PROVE  Gain(plan.side, plan.stop, plan.targets[i]) >= 0
      <3> DEFINE target == plan.targets[i]
      <3>1. target \in Nat /\ Gain(plan.side, plan.entry, target) > 0
        BY <1>2, <2>1
      <3> HIDE DEF target
      <3>2. Gain(plan.side, plan.stop, target) >= 0
        BY <1>2, <3>1 DEF Gain, Sides
      <3> QED BY <3>2 DEF target
    <2>3. p.targets # <<>> /\ p.taken = {} /\ p.status = "open"
      BY <1>2, <1>8
    <2>4. p.qty <= p.initial /\ p.qty # 0
      BY <1>2, <1>8
    <2>5. \A i \in 1 .. Len(p.targets) : Gain(p.side, p.planned, p.targets[i]) >= 0
      BY <1>8, <2>2
    <2> QED BY <2>3, <2>4, <2>5 DEF Kempt
  <1>10. Bounded(p)
    <2> DEFINE worst == Slipped(p.side, p.planned)
    <2>1. Gain(p.side, p.planned, p.planned) >= 0
      BY <1>2, <1>8 DEF Gain
    <2>2. worst \in Int
      BY <1>2, <1>8, <2>1, SlippedMonotone
    <2> HIDE DEF worst
    <2>3. p.side \in Sides /\ p.entry \in Int /\ 0 \in Int
      BY <1>2, <1>8
    <2>4. Cash(p, worst, 0) = 0
      BY <2>2, <2>3, CashAdds
    <2>5. p.initial - p.qty = 0
      BY <1>2, <1>8
    <2> QED BY <1>3, <1>8, <2>4, <2>5 DEF Bounded, worst
  <1>11. Stopped(p)
    BY <1>2, <1>8 DEF Stopped, Gain
  <1>12. entry = plan.entry => Gain(p.side, p.planned, p.entry) >= 0
    BY <1>2, <1>8 DEF Gain, Sides
  <1> QED BY <1>7, <1>8, <1>9, <1>10, <1>11, <1>12 DEF IsOpen

LEMMA TradeInit == Init => TradeInv
  <1> SUFFICES ASSUME Init PROVE TradeInv
    OBVIOUS
  <1>1. bar \in 0 .. MaxBars /\ last \in Int
    BY PaperAssumption DEF Init
  <1>2. keeper \in Keepers /\ over \in BOOLEAN
    BY DEF Init
  <1>3. Holding /\ Booked
    BY DEF Init, Holding, Booked
  <1> QED BY <1>1, <1>2, <1>3 DEF TradeInv, Program

\* What the backtester may look for is none, or a position like any other.
LEMMA NextHolding ==
  ASSUME NEW p \in NextBacktest, p # None
  PROVE  /\ p \in Positions /\ Kempt(p) /\ Bounded(p) /\ Stopped(p) /\ IsOpen(p) /\ p.age = 0
         /\ Gain(p.side, p.planned, p.entry) >= 0
  <1>1. PICK plan \in Plans : p = Opened(plan, plan.entry)
    BY DEF NextBacktest
  <1>2. plan.entry \in Nat
    BY PaperAssumption DEF Sound
  <1> QED BY <1>1, <1>2, OpenedIsFine

LEMMA BacktestBarKeeps == TradeInv /\ BacktestBar => TradeInv'
  <1> SUFFICES ASSUME TradeInv, BacktestBar PROVE TradeInv'
    OBVIOUS
  <1> USE DEF TradeInv
  <1>1. PICK candle \in Candles, atr \in Atrs :
          /\ last' = candle.close
          /\ IF pos = None
             THEN trade' = None /\ pos' \in NextBacktest
             ELSE LET managed == Managed(pos, candle, atr, FALSE)
                  IN  IF IsOpen(managed)
                      THEN trade' = None /\ pos' = managed
                      ELSE trade' = managed /\ pos' \in NextBacktest
    BY DEF BacktestBar
  <1>2. /\ keeper' = keeper /\ keeper = "backtest" /\ over' = over
        /\ bar \in Nat /\ bar' = bar + 1 /\ bar' \in 0 .. MaxBars
    BY PaperAssumption DEF BacktestBar, Program
  <1>3. Program'
    BY <1>1, <1>2, PaperAssumption DEF Program
  <1>4. ASSUME pos' \in NextBacktest PROVE Holding'
    BY <1>2, <1>4, NextHolding DEF Holding
  <1>5. ASSUME trade' = None PROVE Booked'
    BY <1>5 DEF Booked
  <1>6. CASE pos = None
    BY <1>1, <1>3, <1>4, <1>5, <1>6
  <1>7. CASE pos # None
    <2> DEFINE m == Managed(pos, candle, atr, FALSE)
    <2>1. atr \in Nat /\ FALSE \in BOOLEAN
      BY PaperAssumption
    <2>2. /\ pos \in Positions /\ Kempt(pos) /\ Bounded(pos) /\ Stopped(pos) /\ IsOpen(pos)
          /\ pos.age \in Nat /\ pos.age <= bar
          /\ Gain(pos.side, pos.planned, pos.entry) >= 0
      BY <1>2, <1>7 DEF Holding, Positions
    <2>3. /\ m \in Positions /\ SamePlan(pos, m) /\ Kempt(m) /\ m.age = pos.age + 1
          /\ m.status # "closed" \/ m.reason # "emergency_exit" => Bounded(m)
          /\ Stopped(m)
      BY <2>1, <2>2, ManagedKeeps
    <2>4. CASE IsOpen(m)
      <3>1. trade' = None /\ pos' = m
        BY <1>1, <1>7, <2>4
      <3> HIDE DEF m
      <3>2. m.status # "closed"
        BY <2>4 DEF IsOpen
      <3>3. Gain(m.side, m.planned, m.entry) >= 0
        BY <2>2, <2>3 DEF SamePlan
      <3>4. m.age <= bar'
        BY <1>2, <2>2, <2>3
      <3>5. Holding'
        BY <2>3, <2>4, <3>1, <3>2, <3>3, <3>4 DEF Holding
      <3> QED BY <1>3, <1>5, <3>1, <3>5
    <2>5. CASE ~IsOpen(m)
      <3>1. trade' = m /\ pos' \in NextBacktest
        BY <1>1, <1>7, <2>5
      <3> HIDE DEF m
      <3>2. m.status = "closed"
        BY <2>3, <2>5 DEF IsOpen, Positions
      <3>3. m.age <= bar'
        BY <1>2, <2>2, <2>3
      <3>4. Booked'
        BY <2>3, <3>1, <3>2, <3>3 DEF Booked
      <3> QED BY <1>3, <1>4, <3>1, <3>4
    <2> QED BY <2>4, <2>5
  <1> QED BY <1>6, <1>7

LEMMA WindowEndsKeeps == TradeInv /\ WindowEnds => TradeInv'
  <1> SUFFICES ASSUME TradeInv, WindowEnds PROVE TradeInv'
    OBVIOUS
  <1> USE DEF TradeInv
  <1>1. /\ pos' = None /\ over' = TRUE /\ UNCHANGED <<keeper, bar, last>>
        /\ trade' = IF pos = None THEN None
                    ELSE [Liquidated(pos, last * SlipDen) EXCEPT !.sold = @ + pos.qty]
    BY DEF WindowEnds
  <1>2. Program'
    BY <1>1 DEF Program
  <1>3. Holding'
    BY <1>1 DEF Holding
  <1>4. CASE pos = None
    BY <1>1, <1>2, <1>3, <1>4 DEF Booked
  <1>5. CASE pos # None
    <2> DEFINE price == last * SlipDen
               s == Sell(pos, "backtest_window_end", price, pos.qty)
    <2>1. price \in Int
      BY ExitAssumption DEF Program
    <2>2. "backtest_window_end" \in Reasons
      BY DEF Reasons
    <2>3. /\ pos \in Positions /\ Kempt(pos) /\ Bounded(pos) /\ pos.age <= bar
          /\ pos.qty \in Nat /\ pos.status # "closed"
      BY <1>5 DEF Holding, Positions, IsOpen
    <2>4. pos.qty \in 1 .. pos.qty
      BY <2>3 DEF Kempt
    <2> HIDE DEF price
    <2>5. /\ s \in Positions /\ Kempt(s) /\ s.qty = pos.qty - pos.qty /\ s.age = pos.age
          /\ s.reason = "backtest_window_end"
      BY <2>1, <2>2, <2>3, <2>4, SellKeeps
    <2>6. trade' = [s EXCEPT !.sold = @ + pos.qty]
      BY <1>1, <1>5 DEF Liquidated, price
    <2> HIDE DEF s
    <2>7. s.sold + pos.qty \in Int
      <3>1. s.sold \in Int
        BY <2>5 DEF Positions
      <3> QED BY <2>3, <3>1
    <2>8. trade' = [s EXCEPT !.sold = s.sold + pos.qty]
      BY <2>6
    <2>9. trade' \in Positions
      BY <2>5, <2>7, <2>8 DEF Positions
    <2>10. /\ trade'.qty = s.qty /\ trade'.age = s.age /\ trade'.reason = s.reason
           /\ trade'.status = s.status /\ trade'.initial = s.initial /\ trade'.taken = s.taken
           /\ trade'.targets = s.targets /\ trade'.side = s.side /\ trade'.planned = s.planned
      BY <2>5, <2>8 DEF Positions
    <2>11. Kempt(trade')
      BY <2>5, <2>10 DEF Kempt
    <2>12. trade'.status = "closed"
      BY <2>3, <2>5, <2>10 DEF Kempt
    <2>13. Booked'
      BY <1>1, <2>3, <2>5, <2>9, <2>10, <2>11, <2>12 DEF Booked
    <2> QED BY <1>2, <1>3, <2>13
  <1> QED BY <1>4, <1>5

LEMMA PaperOpenKeeps == TradeInv /\ PaperOpen => TradeInv'
  <1> SUFFICES ASSUME TradeInv, PaperOpen PROVE TradeInv'
    OBVIOUS
  <1> USE DEF TradeInv
  <1>1. PICK plan \in Plans, average \in Prices : pos' = Opened(plan, average)
    BY DEF PaperOpen
  <1>2. /\ keeper = "watcher" /\ trade' = None /\ UNCHANGED <<keeper, bar, last, over>>
        /\ bar \in Nat /\ average \in Nat
    BY PaperAssumption DEF PaperOpen, Program
  <1>3. /\ pos' \in Positions /\ Kempt(pos') /\ Bounded(pos') /\ Stopped(pos')
        /\ IsOpen(pos') /\ pos'.age = 0
    BY <1>1, <1>2, OpenedIsFine
  <1>4. Holding'
    BY <1>2, <1>3 DEF Holding
  <1> QED BY <1>2, <1>4 DEF Program, Booked

LEMMA WatcherTickKeeps == TradeInv /\ WatcherTick => TradeInv'
  <1> SUFFICES ASSUME TradeInv, WatcherTick PROVE TradeInv'
    OBVIOUS
  <1> USE DEF TradeInv
  <1>1. PICK candle \in Candles, atr \in Atrs, emergency \in BOOLEAN :
          LET managed == Managed(pos, candle, atr, emergency)
          IN  IF IsOpen(managed)
              THEN pos' = Kept(pos, managed) /\ trade' = None
              ELSE pos' = None /\ trade' = managed
    BY DEF WatcherTick
  <1>2. /\ keeper = "watcher" /\ UNCHANGED <<keeper, last, over>> /\ pos # None
        /\ bar \in Nat /\ bar' = bar + 1 /\ bar' \in 0 .. MaxBars
    BY PaperAssumption DEF WatcherTick, Program
  <1>3. Program'
    BY <1>2 DEF Program
  <1> DEFINE m == Managed(pos, candle, atr, emergency)
  <1>4. atr \in Nat
    BY PaperAssumption
  <1>5. /\ pos \in Positions /\ Kempt(pos) /\ Bounded(pos) /\ Stopped(pos) /\ IsOpen(pos)
        /\ pos.age \in Nat /\ pos.age <= bar
    BY <1>2 DEF Holding, Positions
  <1>6. /\ m \in Positions /\ SamePlan(pos, m) /\ Kempt(m) /\ m.age = pos.age + 1
        /\ m.status # "closed" \/ m.reason # "emergency_exit" => Bounded(m)
    BY <1>4, <1>5, ManagedKeeps
  <1>7. CASE IsOpen(m)
    <2>1. trade' = None /\ pos' = Kept(pos, m)
      BY <1>1, <1>7
    <2> HIDE DEF m
    <2>2. pos' = [pos EXCEPT !.mfe = m.mfe, !.taken = m.taken, !.age = m.age, !.sold = m.sold]
      BY <2>1 DEF Kept
    <2>3. m.mfe \in Nat /\ m.taken \in SUBSET Nat /\ m.age \in Nat /\ m.sold \in Int
      BY <1>6 DEF Positions
    <2>4. pos' \in Positions
      BY <1>5, <2>2, <2>3 DEF Positions
    <2>5. /\ SamePlan(pos, pos') /\ pos'.qty = pos.qty /\ pos'.status = pos.status
          /\ pos'.stop = pos.stop /\ pos'.realized = pos.realized
          /\ pos'.taken = m.taken /\ pos'.age = m.age
      BY <1>5, <2>2 DEF Positions, SamePlan
    <2>6. Kempt(pos')
      BY <1>5, <1>6, <2>5 DEF Kempt, SamePlan
    <2>7. Bounded(pos')
      BY <1>5, <2>5 DEF Bounded, SamePlan, Cash
    <2>8. Stopped(pos') /\ IsOpen(pos')
      BY <1>5, <2>5 DEF Stopped, SamePlan, IsOpen
    <2>9. pos'.age <= bar'
      BY <1>2, <1>5, <1>6, <2>5
    <2>10. Holding'
      BY <1>2, <2>4, <2>6, <2>7, <2>8, <2>9 DEF Holding
    <2> QED BY <1>3, <2>1, <2>10 DEF Booked
  <1>8. CASE ~IsOpen(m)
    <2>1. pos' = None /\ trade' = m
      BY <1>1, <1>8
    <2> HIDE DEF m
    <2>2. m.status = "closed"
      BY <1>6, <1>8 DEF IsOpen, Positions
    <2>3. m.age <= bar'
      BY <1>2, <1>5, <1>6
    <2>4. Booked'
      BY <1>6, <2>1, <2>2, <2>3 DEF Booked
    <2> QED BY <1>3, <2>1, <2>4 DEF Holding
  <1> QED BY <1>7, <1>8

LEMMA TradeStep == TradeInv /\ [Next]_vars => TradeInv'
  <1>1. TradeInv /\ UNCHANGED vars => TradeInv'
    BY DEF TradeInv, Program, Holding, Booked, vars
  <1> QED BY <1>1, BacktestBarKeeps, WindowEndsKeeps, PaperOpenKeeps, WatcherTickKeeps DEF Next

LEMMA TradeInvariant == Spec => []TradeInv
  BY TradeInit, TradeStep, PTL DEF Spec

\* Every unit of a position is held or sold, nothing is held exactly when it is
\* closed, and a note is of a target before the last, for any book, candles and
\* plans the risk engine approves.
THEOREM TradeTypeCorrect == Spec => []TypeOK
  <1>1. TradeInv => TypeOK
    <2> SUFFICES ASSUME TradeInv PROVE TypeOK
      OBVIOUS
    <2> USE DEF TradeInv
    <2>1. ASSUME NEW p \in Positions, Kempt(p), p.age <= bar
          PROVE  /\ p.status \in {"open", "partial_exit", "closed"} /\ p.side \in Sides
                 /\ p.qty \in 0 .. p.initial /\ (p.qty = 0 <=> p.status = "closed")
                 /\ p.mfe \in Nat /\ p.age \in 0 .. MaxBars /\ p.realized \in Int
                 /\ p.taken \subseteq {p.targets[i] : i \in 1 .. Len(p.targets) - 1}
      <3>1. /\ p.status \in {"open", "partial_exit", "closed"} /\ p.side \in Sides
            /\ p.qty \in Nat /\ p.initial \in Nat /\ p.mfe \in Nat /\ p.age \in Nat
            /\ p.realized \in Int
        BY DEF Positions
      <3>2. bar \in 0 .. MaxBars /\ MaxBars \in Nat
        BY PaperAssumption DEF Program
      <3> QED BY <2>1, <3>1, <3>2 DEF Kempt
    <2>2. pos # None => pos \in Positions /\ Kempt(pos) /\ pos.age <= bar /\ IsOpen(pos)
      BY DEF Holding
    <2>3. trade # None =>
            trade \in Positions /\ Kempt(trade) /\ trade.age <= bar /\ trade.status = "closed"
      BY DEF Booked
    <2> QED BY <2>1, <2>2, <2>3 DEF TypeOK, Program
  <1> QED BY <1>1, TradeInvariant, PTL

\* Whatever the candles do, a trade that neither an emergency nor the end of the
\* window ended loses no more than its planned stop, slippage and fees would
\* have taken from the whole of it.
THEOREM LossStaysBounded == Spec => []LossBounded
  <1>1. TradeInv => LossBounded
    <2> SUFFICES ASSUME TradeInv, trade # None,
                        trade.reason \notin {"emergency_exit", "backtest_window_end"}
                 PROVE  trade.realized
                          >= Cash(trade, Slipped(trade.side, trade.planned), trade.initial)
                               - EntryFee(trade.entry, trade.initial)
      BY DEF LossBounded
    <2>1. /\ trade \in Positions /\ Kempt(trade) /\ Bounded(trade) /\ trade.status = "closed"
      BY DEF TradeInv, Booked
    <2>2. trade.qty = 0 /\ trade.initial \in Nat
      BY <2>1 DEF Kempt, Positions
    <2>3. trade.initial - trade.qty = trade.initial
      BY <2>2
    <2> QED BY <2>1, <2>3 DEF Bounded
  <1> QED BY <1>1, TradeInvariant, PTL


-----------------------------------------------------------------------------
(* What a trade's sales come to.  TradeIsItsFills speaks of closed trades; an  *)
(* open position has its money and units accounted for as far as they went.   *)

Sales == [price: Int, qty: Nat]

\* Another sale adds its units to those of the others, and its price times its
\* units to what they brought.
LEMMA SalesAdd ==
  ASSUME NEW fills \in Seq(Sales), NEW price \in Int, NEW n \in Nat
  PROVE  LET more == Append(fills, [price |-> price, qty |-> n])
         IN  /\ Units(fills) \in Int /\ Turnover(fills) \in Int
             /\ Units(more) = Units(fills) + n
             /\ Turnover(more) = Turnover(fills) + price * n
             /\ Units(<<>>) = 0 /\ Turnover(<<>>) = 0
  <1> DEFINE sale == [price |-> price, qty |-> n]
             more == Append(fills, sale)
             units == [i \in DOMAIN fills |-> fills[i].qty]
             money == [i \in DOMAIN fills |-> fills[i].price * fills[i].qty]
             units2 == [i \in DOMAIN more |-> more[i].qty]
             money2 == [i \in DOMAIN more |-> more[i].price * more[i].qty]
  <1>1. sale \in Sales /\ sale.price = price /\ sale.qty = n
    BY DEF Sales
  <1>2. /\ Len(fills) \in Nat /\ DOMAIN fills = 1 .. Len(fills)
        /\ \A i \in 1 .. Len(fills) : fills[i] \in Sales
    BY LenProperties, ElementOfSeq
  <1> HIDE DEF sale
  <1>3. /\ more \in Seq(Sales) /\ Len(more) = Len(fills) + 1
        /\ \A i \in 1 .. Len(fills) : more[i] = fills[i]
        /\ more[Len(fills) + 1] = sale
    BY <1>1, AppendProperties
  <1>4. DOMAIN more = 1 .. Len(fills) + 1
    BY <1>3, LenProperties
  <1> HIDE DEF more
  <1>5. /\ units \in [1 .. Len(fills) -> Int] /\ money \in [1 .. Len(fills) -> Int]
        /\ \A i \in 1 .. Len(fills) : units[i] = fills[i].qty
        /\ \A i \in 1 .. Len(fills) : money[i] = fills[i].price * fills[i].qty
    BY <1>2 DEF Sales
  <1>6. units \in Seq(Int) /\ money \in Seq(Int)
    BY <1>2, <1>5
  <1>7. Len(units) = Len(fills) /\ Len(money) = Len(fills)
    BY <1>2, <1>5, <1>6
  <1>8. units2 = [i \in 1 .. Len(fills) + 1 |-> more[i].qty]
        /\ money2 = [i \in 1 .. Len(fills) + 1 |-> more[i].price * more[i].qty]
    BY <1>4
  <1> HIDE DEF units, money, units2, money2
  <1>9. price * n \in Int
    OBVIOUS
  <1>10. units2 = Append(units, n)
    <2>1. /\ Append(units, n) \in Seq(Int) /\ Len(Append(units, n)) = Len(fills) + 1
          /\ \A i \in 1 .. Len(fills) : Append(units, n)[i] = units[i]
          /\ Append(units, n)[Len(fills) + 1] = n
      BY <1>6, <1>7, AppendProperties
    <2>2. Append(units, n) \in [1 .. Len(fills) + 1 -> Int]
      BY <2>1, LenProperties
    <2>3. \A i \in 1 .. Len(fills) + 1 : units2[i] = Append(units, n)[i]
      BY <1>1, <1>2, <1>3, <1>5, <1>8, <2>1
    <2>4. units2 = [i \in 1 .. Len(fills) + 1 |-> units2[i]]
      BY <1>8
    <2> QED BY <2>2, <2>3, <2>4
  <1>11. money2 = Append(money, price * n)
    <2> DEFINE x == price * n
    <2> HIDE DEF x
    <2>0. x \in Int
      BY <1>9 DEF x
    <2>1. /\ Append(money, x) \in Seq(Int) /\ Len(Append(money, x)) = Len(fills) + 1
          /\ \A i \in 1 .. Len(fills) : Append(money, x)[i] = money[i]
          /\ Append(money, x)[Len(fills) + 1] = x
      BY <1>6, <1>7, <2>0, AppendProperties
    <2>2. Append(money, x) \in [1 .. Len(fills) + 1 -> Int]
      BY <2>1, LenProperties
    <2>3. ASSUME NEW i \in 1 .. Len(fills) + 1 PROVE money2[i] = Append(money, x)[i]
      <3>1. money2[i] = more[i].price * more[i].qty
        BY <1>8
      <3>2. CASE i = Len(fills) + 1
        <4>1. more[i] = sale
          BY <1>3, <3>2
        <4> QED BY <1>1, <2>1, <3>1, <3>2, <4>1 DEF x
      <3>3. CASE i # Len(fills) + 1
        <4>1. i \in 1 .. Len(fills)
          BY <1>2, <3>3
        <4>2. money[i] = fills[i].price * fills[i].qty /\ more[i] = fills[i]
          BY <1>3, <1>5, <4>1
        <4> QED BY <2>1, <3>1, <4>1, <4>2
      <3> QED BY <3>2, <3>3
    <2>4. money2 = [i \in 1 .. Len(fills) + 1 |-> money2[i]]
      BY <1>8
    <2>5. money2 = Append(money, x)
      BY <2>2, <2>3, <2>4
    <2> QED BY <2>5 DEF x
  <1>12. Units(fills) = Total(units) /\ Turnover(fills) = Total(money)
    BY DEF Units, Turnover, units, money
  <1>13. Units(more) = Total(units2) /\ Turnover(more) = Total(money2)
    BY DEF Units, Turnover, units2, money2
  <1>14. Units(<<>>) = 0 /\ Turnover(<<>>) = 0
    <2>1. Total(<<>>) = 0
      BY <1>6, <1>9, TotalAppend
    <2>2. [i \in DOMAIN <<>> |-> <<>>[i].qty] = <<>>
          /\ [i \in DOMAIN <<>> |-> <<>>[i].price * <<>>[i].qty] = <<>>
      OBVIOUS
    <2> QED BY <2>1, <2>2 DEF Units, Turnover
  <1>15. /\ Total(units) \in Int /\ Total(units2) = Total(units) + n
         /\ Total(money) \in Int /\ Total(money2) = Total(money) + price * n
    <2>1. n \in Int
      OBVIOUS
    <2> QED BY <1>6, <1>9, <1>10, <1>11, <2>1, TotalAppend
  <1> QED BY <1>12, <1>13, <1>14, <1>15 DEF more, sale

\* What the units sold so far have brought, less fees, is what the books say.
Accounted(p) ==
  /\ Units(p.fills) = p.initial - p.qty
  /\ p.realized = Gain(p.side, p.entry * SlipDen * (p.initial - p.qty), Turnover(p.fills)) * FeeDen
                    - Turnover(p.fills) - EntryFee(p.entry, p.initial)

\* A sale is accounted for.
LEMMA SellAccounts ==
  ASSUME NEW p \in Positions, Accounted(p), NEW kind, NEW price \in Int, NEW n \in 1 .. p.qty
  PROVE  /\ Accounted(Sell(p, kind, price, n))
         /\ Sell(p, kind, price, n).sold = p.sold
  <1> DEFINE s == Sell(p, kind, price, n)
             more == Append(p.fills, [price |-> price, qty |-> n])
             e == p.entry * SlipDen
             a == p.initial - p.qty
             t == Turnover(p.fills)
             fee == EntryFee(p.entry, p.initial)
  <1>1. /\ p.side \in Sides /\ p.entry \in Nat /\ p.qty \in Nat /\ n \in Nat
        /\ p.initial \in Nat /\ p.realized \in Int /\ p.fills \in Seq(Sales)
        /\ SlipDen \in Nat /\ FeeDen \in Nat
    BY ExitAssumption DEF Positions, Sales
  <1>2. /\ s.qty = p.qty - n /\ s.fills = more /\ s.sold = p.sold
        /\ s.realized = p.realized + Cash(p, price, n) /\ SamePlan(p, s)
    BY DEF Sell, Positions, SamePlan
  <1>3. /\ Units(p.fills) \in Int /\ t \in Int
        /\ Units(more) = Units(p.fills) + n /\ Turnover(more) = t + price * n
    BY <1>1, SalesAdd
  <1>4. e \in Int /\ a \in Int /\ fee \in Int
    BY <1>1 DEF EntryFee
  <1>5. Units(s.fills) = s.initial - s.qty
    BY <1>1, <1>2, <1>3 DEF Accounted, SamePlan
  <1>6. s.initial - s.qty = a + n
    BY <1>1, <1>2 DEF SamePlan
  <1>7. p.realized = Gain(p.side, e * a, t) * FeeDen - t - fee
    BY DEF Accounted
  <1>8. Cash(p, price, n) = Gain(p.side, e, price) * n * FeeDen - price * n
    BY DEF Cash
  <1> HIDE DEF e, a, t, fee, more, s
  <1>9. Gain(p.side, e * (a + n), t + price * n) = Gain(p.side, e * a, t) + Gain(p.side, e, price) * n
    <2>1. CASE p.side = "LONG"
      BY <1>1, <1>3, <1>4, <2>1 DEF Gain
    <2>2. CASE p.side = "SHORT"
      BY <1>1, <1>3, <1>4, <2>2 DEF Gain
    <2> QED BY <1>1, <2>1, <2>2 DEF Sides
  <1>10. s.realized
           = Gain(p.side, e * (a + n), t + price * n) * FeeDen - (t + price * n) - fee
    <2> DEFINE g == Gain(p.side, e * a, t)
               h == Gain(p.side, e, price)
    <2>1. g \in Int /\ h \in Int
      BY <1>1, <1>3, <1>4 DEF Gain
    <2> HIDE DEF g, h
    <2>2. (g + h * n) * FeeDen - (t + price * n) - fee
            = (g * FeeDen - t - fee) + (h * n * FeeDen - price * n)
      BY <1>1, <1>3, <1>4, <2>1
    <2>3. s.realized = (g * FeeDen - t - fee) + (h * n * FeeDen - price * n)
      BY <1>2, <1>7, <1>8 DEF g, h
    <2> QED BY <1>9, <2>2, <2>3 DEF g, h
  <1>11. /\ s.side = p.side /\ s.entry = p.entry /\ s.initial = p.initial
         /\ Turnover(s.fills) = t + price * n
    BY <1>2, <1>3 DEF SamePlan
  <1>12. Accounted(s)
    <2>1. p.entry * SlipDen = e /\ EntryFee(p.entry, p.initial) = fee
      BY DEF e, fee
    <2> QED BY <1>5, <1>6, <1>10, <1>11, <2>1 DEF Accounted
  <1> QED BY <1>2, <1>12 DEF s

\* What a look takes out of a position: nothing, the part of a further target, or
\* all of it.
Taken(p, r) ==
  \/ r.qty = p.qty /\ r.taken = p.taken
  \/ r.qty = 0 /\ r.taken = p.taken
  \/ \E t : t \notin p.taken /\ r.taken = p.taken \cup {t} /\ r.qty = p.qty - PartialQty(p.qty)

\* A decision leaves the books in order.
LEMMA AppliedAccounts ==
  ASSUME NEW p \in Positions, Kempt(p), p.qty > 0, Accounted(p),
         NEW candle \in Candles, NEW atr \in Nat, NEW emergency \in BOOLEAN,
         NEW r, r = Applied(p, Decide(p, candle, atr, emergency), candle, atr)
  PROVE  Accounted(r) /\ r.sold = p.sold /\ Taken(p, r)
  <1> DEFINE k == Decide(p, candle, atr, emergency)
  <1>1. /\ k \in {"emergency_exit", "stop_hit", "full_tp", "partial_tp", "trail_stop",
                  "invalidation_exit", "hold"}
        /\ Applies(k, p, candle, atr, emergency)
    BY DecideFirst
  <1> HIDE DEF k
  <1>2. r = Applied(p, k, candle, atr)
    BY DEF k
  <1>3. /\ p.side \in Sides /\ p.entry \in Nat /\ p.qty \in Nat \ {0} /\ p.stop \in Int
        /\ p.targets \in Seq(Nat) /\ candle.close \in Nat
    BY PaperAssumption DEF Positions
  <1>4. Len(p.targets) \in Nat \ {0} /\ \A i \in 1 .. Len(p.targets) : p.targets[i] \in Nat
    BY <1>3, EmptySeq, ElementOfSeq DEF Kempt
  <1>5. ASSUME NEW price \in Nat PROVE Slipped(p.side, price) \in Int
    <2>1. Gain(p.side, price, price) >= 0
      BY <1>3 DEF Gain
    <2> QED BY <1>3, <2>1, SlippedMonotone
  <1>6. CASE k = "hold"
    <2>1. r = p
      BY <1>2, <1>6 DEF Applied
    <2> QED BY <2>1 DEF Taken
  <1>7. CASE k = "trail_stop"
    <2>1. r = [p EXCEPT !.stop = TrailedStop(p, candle, atr)]
      BY <1>2, <1>7 DEF Applied
    <2>2. /\ SamePlan(p, r) /\ r.qty = p.qty /\ r.taken = p.taken /\ r.sold = p.sold
          /\ r.realized = p.realized /\ r.fills = p.fills
      BY <2>1 DEF Positions, SamePlan
    <2> QED BY <2>2 DEF Accounted, SamePlan, Taken
  <1>8. CASE k = "partial_tp"
    <2> DEFINE i == Min(OpenTargets(p, candle))
               price == Slipped(p.side, p.targets[i])
               n == PartialQty(p.qty)
               q == Sell(p, "partial_tp", price, n)
    <2>1. OpenTargets(p, candle) # {}
      BY <1>1, <1>8 DEF Applies
    <2>2. OpenTargets(p, candle) \in SUBSET (1 .. Len(p.targets) - 1) /\ Len(p.targets) - 1 \in Nat
      BY <1>4 DEF OpenTargets
    <2>3. i \in 1 .. Len(p.targets) - 1 /\ i \in OpenTargets(p, candle)
      BY <2>1, <2>2, MinOfSome
    <2> HIDE DEF i
    <2>4. p.targets[i] \in Nat /\ p.targets[i] \notin p.taken
      BY <1>4, <2>3 DEF OpenTargets
    <2>5. price \in Int
      BY <1>5, <2>4
    <2>6. n \in 1 .. p.qty
      BY <1>3, PartialQtyRange
    <2>7. r = [q EXCEPT !.stop = p.entry, !.taken = @ \cup {p.targets[i]}]
      <3>1. r = Applied(p, "partial_tp", candle, atr)
        BY <1>2, <1>8
      <3>2. FillPrice("partial_tp", p, candle) = price
        BY Fills DEF i, price
      <3> QED BY <3>1, <3>2 DEF Applied, i, n
    <2>8. q.taken = p.taken /\ q.qty = p.qty - n
      BY DEF Sell, Positions
    <2> HIDE DEF price, n
    <2>9. Accounted(q) /\ q.sold = p.sold
      BY <2>5, <2>6, SellAccounts
    <2>10. /\ SamePlan(q, r) /\ r.qty = q.qty /\ r.sold = q.sold
           /\ r.realized = q.realized /\ r.fills = q.fills
           /\ r.taken = q.taken \cup {p.targets[i]}
      BY <2>7 DEF Sell, Positions, SamePlan
    <2> HIDE DEF q
    <2>11. Accounted(r)
      BY <2>9, <2>10 DEF Accounted, SamePlan
    <2>12. Taken(p, r)
      BY <2>4, <2>8, <2>10 DEF Taken, n
    <2> QED BY <2>9, <2>10, <2>11, <2>12
  <1>9. CASE k \in {"emergency_exit", "stop_hit", "full_tp", "invalidation_exit"}
    <2> DEFINE price == FillPrice(k, p, candle)
               s == Sell(p, k, price, p.qty)
    <2>1. r = s
      BY <1>2, <1>9, Ends
    <2>2. price \in Int
      <3>1. CASE k = "stop_hit"
        BY <1>3, <3>1, ExitAssumption, Fills
      <3>2. CASE k = "full_tp"
        BY <1>4, <1>5, <3>2, Fills
      <3>3. CASE k \in {"emergency_exit", "invalidation_exit"}
        BY <1>3, <1>5, <3>3, Fills
      <3> QED BY <1>9, <3>1, <3>2, <3>3
    <2> HIDE DEF price
    <2>3. p.qty \in 1 .. p.qty
      BY <1>3
    <2>4. s.taken = p.taken /\ s.qty = 0
      BY <1>3 DEF Sell, Positions
    <2>5. Accounted(s) /\ s.sold = p.sold
      BY <2>2, <2>3, SellAccounts
    <2> QED BY <2>1, <2>4, <2>5 DEF Taken
  <1> QED BY <1>1, <1>6, <1>7, <1>8, <1>9

\* So does a look, which notes what it sold.
LEMMA ManagedAccounts ==
  ASSUME NEW p \in Positions, Kempt(p), Bounded(p), Stopped(p), IsOpen(p), Accounted(p),
         NEW candle \in Candles, NEW atr \in Nat, NEW emergency \in BOOLEAN,
         NEW r, r = Managed(p, candle, atr, emergency)
  PROVE  Accounted(r) /\ r.sold = p.sold + (p.qty - r.qty) /\ Taken(p, r)
  <1> DEFINE m == Marked(p, candle)
             a == Applied(m, Decide(m, candle, atr, emergency), candle, atr)
  <1>1. /\ m \in Positions /\ SamePlan(p, m)
        /\ m.qty = p.qty /\ m.status = p.status /\ m.stop = p.stop /\ m.taken = p.taken
        /\ m.realized = p.realized
    BY MarkedKeeps
  <1>2. m.fills = p.fills /\ m.sold = p.sold
    BY DEF Marked, Positions
  <1> HIDE DEF m
  <1>3. Kempt(m) /\ Accounted(m)
    BY <1>1, <1>2 DEF Kempt, Accounted, SamePlan
  <1>4. Bounded(m) /\ Stopped(m)
    BY <1>1 DEF Bounded, Stopped, SamePlan, Cash
  <1>5. m.qty > 0
    <2>1. m.qty \in Nat /\ m.status # "closed"
      BY <1>1 DEF IsOpen, Positions
    <2> QED BY <1>3, <2>1 DEF Kempt
  <1>6. Accounted(a) /\ a.sold = m.sold /\ Taken(m, a)
    BY <1>1, <1>3, <1>5, AppliedAccounts
  <1>7. a \in Positions
    BY <1>1, <1>3, <1>4, <1>5, AppliedKeeps
  <1>8. r = [a EXCEPT !.sold = @ + (p.qty - a.qty)]
    BY DEF Managed, m
  <1> HIDE DEF a
  <1>9. /\ r.sold = a.sold + (p.qty - a.qty) /\ SamePlan(a, r) /\ r.qty = a.qty
        /\ r.realized = a.realized /\ r.fills = a.fills /\ r.taken = a.taken
    BY <1>7, <1>8 DEF Positions, SamePlan
  <1>10. Accounted(r)
    BY <1>6, <1>9 DEF Accounted, SamePlan
  <1>11. Taken(p, r)
    BY <1>1, <1>6, <1>9 DEF Taken
  <1> QED BY <1>2, <1>6, <1>9, <1>10, <1>11

\* The notes of a position are finitely many.
LEMMA NotesFinite ==
  ASSUME NEW p \in Positions, Kempt(p)
  PROVE  IsFiniteSet(p.taken)
  <1> DEFINE n == Len(p.targets) - 1
             f == [i \in 1 .. n |-> p.targets[i]]
             R == {f[i] : i \in 1 .. n}
  <1>1. n \in Int
    <2>1. p.targets \in Seq(Nat)
      BY DEF Positions
    <2> QED BY <2>1, LenProperties
  <1>2. IsFiniteSet(1 .. n)
    BY <1>1, FS_Interval
  <1>3. p.taken \subseteq R
    BY DEF Kempt
  <1>4. IsFiniteSet(R)
    <2> DEFINE D == 1 .. n
    <2> HIDE DEF D
    <2>1. f \in Surjection(D, {f[i] : i \in D})
      BY DEF Surjection, D
    <2>2. IsFiniteSet({f[i] : i \in D})
      <3> HIDE DEF f
      <3> QED BY <1>2, <2>1, FS_Surjection DEF D
    <2> QED BY <2>2 DEF D
  <1> QED BY <1>3, <1>4, FS_Subset

\* The position under way and the trade the last step closed are accounted for.
\* What the watcher's merge has lost are the partial exits of noted targets.
Settlement ==
  /\ pos # None =>
       /\ Accounted(pos)
       /\ keeper = "backtest" => pos.sold = pos.initial - pos.qty
       /\ keeper = "watcher" =>
            /\ pos.qty = pos.initial
            /\ pos.sold <= Cardinality(pos.taken) * PartialQty(pos.initial)
  /\ trade # None =>
       /\ Accounted(trade)
       /\ keeper = "backtest" => trade.sold = trade.initial
       /\ keeper = "watcher" =>
            trade.sold <= trade.initial + Cardinality(trade.taken) * PartialQty(trade.initial)

\* A new position has sold nothing.
LEMMA OpenedAccounts ==
  ASSUME NEW plan \in Plans, NEW entry \in Nat, NEW p, p = Opened(plan, entry)
  PROVE  Accounted(p) /\ p.sold = 0 /\ p.qty = p.initial /\ p.initial \in Nat \ {0}
         /\ Cardinality(p.taken) = 0
  <1>1. plan.qty \in Nat \ {0} /\ plan.side \in Sides
    BY PaperAssumption DEF Sound
  <1>2. Units(<<>>) = 0 /\ Turnover(<<>>) = 0
    <2>1. <<>> \in Seq(Sales) /\ 0 \in Int /\ 0 \in Nat
      OBVIOUS
    <2> QED BY <2>1, SalesAdd
  <1>3. /\ p.side = plan.side /\ p.qty = plan.qty /\ p.initial = plan.qty /\ p.entry = entry
        /\ p.fills = <<>> /\ p.sold = 0 /\ p.realized = -EntryFee(entry, plan.qty)
        /\ p.taken = {}
    BY DEF Opened
  <1>4. EntryFee(entry, plan.qty) \in Int
    BY <1>1, ExitAssumption DEF EntryFee
  <1>5. Gain(p.side, entry * SlipDen * 0, 0) * FeeDen = 0
    BY <1>1, ExitAssumption DEF Gain
  <1>6. p.initial - p.qty = 0
    BY <1>1, <1>3
  <1>7. Accounted(p)
    BY <1>2, <1>3, <1>4, <1>5, <1>6 DEF Accounted
  <1>8. Cardinality(p.taken) = 0
    BY <1>3, FS_EmptySet
  <1> QED BY <1>1, <1>3, <1>7, <1>8

\* What the backtester takes up next is accounted for.
LEMMA NextAccounts ==
  ASSUME NEW p \in NextBacktest, p # None
  PROVE  Accounted(p) /\ p.sold = p.initial - p.qty
  <1>1. PICK plan \in Plans : p = Opened(plan, plan.entry)
    BY DEF NextBacktest
  <1>2. plan.entry \in Nat
    BY PaperAssumption DEF Sound
  <1>3. Accounted(p) /\ p.sold = 0 /\ p.qty = p.initial /\ p.initial \in Nat
    BY <1>1, <1>2, OpenedAccounts
  <1> QED BY <1>3

LEMMA BacktestBarSettles == TradeInv /\ Settlement /\ BacktestBar => Settlement'
  <1> SUFFICES ASSUME TradeInv, Settlement, BacktestBar PROVE Settlement'
    OBVIOUS
  <1>1. PICK candle \in Candles, atr \in Atrs :
          IF pos = None
          THEN trade' = None /\ pos' \in NextBacktest
          ELSE LET managed == Managed(pos, candle, atr, FALSE)
               IN  IF IsOpen(managed)
                   THEN trade' = None /\ pos' = managed
                   ELSE trade' = managed /\ pos' \in NextBacktest
    BY DEF BacktestBar
  <1>2. keeper = "backtest" /\ keeper' = keeper
    BY DEF BacktestBar
  <1>3. pos' \in NextBacktest =>
          (pos' # None => Accounted(pos') /\ pos'.sold = pos'.initial - pos'.qty)
    BY NextAccounts
  <1>4. CASE pos = None
    BY <1>1, <1>2, <1>3, <1>4 DEF Settlement
  <1>5. CASE pos # None
    <2> DEFINE m == Managed(pos, candle, atr, FALSE)
    <2>1. atr \in Nat /\ FALSE \in BOOLEAN
      BY PaperAssumption
    <2>2. /\ pos \in Positions /\ Kempt(pos) /\ Bounded(pos) /\ Stopped(pos) /\ IsOpen(pos)
          /\ Accounted(pos) /\ pos.sold = pos.initial - pos.qty
          /\ pos.initial \in Nat /\ pos.qty \in Nat
      BY <1>2, <1>5 DEF TradeInv, Holding, Settlement, Positions
    <2>3. Accounted(m) /\ m.sold = pos.sold + (pos.qty - m.qty)
      BY <2>1, <2>2, ManagedAccounts
    <2>4. m \in Positions /\ SamePlan(pos, m) /\ Kempt(m)
      BY <2>1, <2>2, ManagedKeeps
    <2>5. /\ IsOpen(m) => trade' = None /\ pos' = m
          /\ ~IsOpen(m) => trade' = m /\ pos' \in NextBacktest
      BY <1>1, <1>5
    <2> HIDE DEF m
    <2>6. m.qty \in Nat /\ m.sold = m.initial - m.qty
      <3>1. m.qty \in Nat /\ m.initial = pos.initial
        BY <2>4 DEF SamePlan, Positions
      <3> QED BY <2>2, <2>3, <3>1
    <2>7. ~IsOpen(m) => m.qty = 0
      BY <2>4 DEF IsOpen, Kempt, Positions
    <2>8. m.initial \in Nat
      BY <2>4 DEF Positions
    <2>9. CASE IsOpen(m)
      BY <1>2, <2>3, <2>5, <2>6, <2>9 DEF Settlement
    <2>10. CASE ~IsOpen(m)
      <3>1. m.sold = m.initial
        BY <2>6, <2>7, <2>8, <2>10
      <3> QED BY <1>2, <1>3, <2>3, <2>5, <2>10, <3>1 DEF Settlement
    <2> QED BY <2>9, <2>10
  <1> QED BY <1>4, <1>5

LEMMA WindowEndsSettles == TradeInv /\ Settlement /\ WindowEnds => Settlement'
  <1> SUFFICES ASSUME TradeInv, Settlement, WindowEnds PROVE Settlement'
    OBVIOUS
  <1>1. /\ pos' = None /\ keeper = "backtest" /\ keeper' = keeper
        /\ trade' = IF pos = None THEN None
                    ELSE [Liquidated(pos, last * SlipDen) EXCEPT !.sold = @ + pos.qty]
    BY DEF WindowEnds
  <1>2. CASE pos = None
    BY <1>1, <1>2 DEF Settlement
  <1>3. CASE pos # None
    <2> DEFINE price == last * SlipDen
               s == Sell(pos, "backtest_window_end", price, pos.qty)
    <2>1. price \in Int
      BY ExitAssumption DEF TradeInv, Program
    <2>2. /\ pos \in Positions /\ Kempt(pos) /\ IsOpen(pos)
          /\ Accounted(pos) /\ pos.sold = pos.initial - pos.qty
          /\ pos.initial \in Nat /\ pos.qty \in Nat
      BY <1>1, <1>3 DEF TradeInv, Holding, Settlement, Positions
    <2>3. pos.qty \in 1 .. pos.qty
      BY <2>2 DEF Kempt, IsOpen
    <2>4. trade' = [s EXCEPT !.sold = @ + pos.qty]
      BY <1>1, <1>3 DEF Liquidated
    <2> HIDE DEF price
    <2>5. Accounted(s) /\ s.sold = pos.sold
      BY <2>1, <2>2, <2>3, SellAccounts
    <2>6. /\ trade'.sold = s.sold + pos.qty /\ trade'.fills = s.fills /\ trade'.qty = s.qty
          /\ trade'.realized = s.realized /\ SamePlan(s, trade') /\ s.initial = pos.initial
      BY <2>2, <2>4 DEF Sell, Positions, SamePlan
    <2> HIDE DEF s
    <2>7. Accounted(trade')
      BY <2>5, <2>6 DEF Accounted, SamePlan
    <2>8. trade'.sold = trade'.initial
      BY <2>2, <2>5, <2>6 DEF SamePlan
    <2> QED BY <1>1, <2>7, <2>8 DEF Settlement
  <1> QED BY <1>2, <1>3

LEMMA PaperOpenSettles == TradeInv /\ Settlement /\ PaperOpen => Settlement'
  <1> SUFFICES ASSUME TradeInv, Settlement, PaperOpen PROVE Settlement'
    OBVIOUS
  <1>1. PICK plan \in Plans, average \in Prices : pos' = Opened(plan, average)
    BY DEF PaperOpen
  <1>2. keeper = "watcher" /\ keeper' = keeper /\ trade' = None /\ average \in Nat
    BY PaperAssumption DEF PaperOpen
  <1>3. /\ Accounted(pos') /\ pos'.sold = 0 /\ pos'.qty = pos'.initial
        /\ pos'.initial \in Nat \ {0} /\ Cardinality(pos'.taken) = 0
    BY <1>1, <1>2, OpenedAccounts
  <1>4. 0 * PartialQty(pos'.initial) = 0
    <2>1. PartialQty(pos'.initial) \in 1 .. pos'.initial
      BY <1>3, PartialQtyRange
    <2> QED BY <1>3, <2>1
  <1> QED BY <1>2, <1>3, <1>4 DEF Settlement

LEMMA WatcherTickSettles == TradeInv /\ Settlement /\ WatcherTick => Settlement'
  <1> SUFFICES ASSUME TradeInv, Settlement, WatcherTick PROVE Settlement'
    OBVIOUS
  <1>1. PICK candle \in Candles, atr \in Atrs, emergency \in BOOLEAN :
          LET managed == Managed(pos, candle, atr, emergency)
          IN  IF IsOpen(managed)
              THEN pos' = Kept(pos, managed) /\ trade' = None
              ELSE pos' = None /\ trade' = managed
    BY DEF WatcherTick
  <1>2. keeper = "watcher" /\ keeper' = keeper /\ pos # None
    BY DEF WatcherTick
  <1> DEFINE m == Managed(pos, candle, atr, emergency)
             part == PartialQty(pos.initial)
             c == Cardinality(pos.taken)
  <1>3. atr \in Nat
    BY PaperAssumption
  <1>4. /\ pos \in Positions /\ Kempt(pos) /\ Bounded(pos) /\ Stopped(pos) /\ IsOpen(pos)
        /\ Accounted(pos) /\ pos.qty = pos.initial /\ pos.sold <= c * part
        /\ pos.initial \in Nat \ {0} /\ pos.sold \in Int
    BY <1>2 DEF TradeInv, Holding, Settlement, Positions
  <1>5. Accounted(m) /\ m.sold = pos.sold + (pos.qty - m.qty) /\ Taken(pos, m)
    BY <1>3, <1>4, ManagedAccounts
  <1>6. m \in Positions /\ SamePlan(pos, m) /\ Kempt(m)
    BY <1>3, <1>4, ManagedKeeps
  <1>7. /\ IsOpen(m) => pos' = Kept(pos, m) /\ trade' = None
        /\ ~IsOpen(m) => pos' = None /\ trade' = m
    BY <1>1
  <1> HIDE DEF m
  <1>8. part \in 1 .. pos.initial
    BY <1>4, PartialQtyRange
  <1>9. IsFiniteSet(pos.taken) /\ c \in Nat
    BY <1>4, NotesFinite, FS_CardinalityType
  <1>10. m.qty \in Nat /\ m.initial = pos.initial
    BY <1>6 DEF Positions, SamePlan
  \* Another part is of another target.
  <1>11. \/ m.qty = pos.qty /\ m.taken = pos.taken
         \/ m.qty = 0 /\ m.taken = pos.taken
         \/ m.qty = pos.qty - part /\ Cardinality(m.taken) = c + 1
    BY <1>4, <1>5, <1>9, FS_AddElement DEF Taken
  <1> HIDE DEF part, c
  <1>12. (c + 1) * part = c * part + part
    BY <1>8, <1>9
  <1>13. CASE IsOpen(m)
    <2>1. pos' = [pos EXCEPT !.mfe = m.mfe, !.taken = m.taken, !.age = m.age, !.sold = m.sold]
      BY <1>7, <1>13 DEF Kept
    <2>2. /\ SamePlan(pos, pos') /\ pos'.qty = pos.qty /\ pos'.realized = pos.realized
          /\ pos'.fills = pos.fills /\ pos'.taken = m.taken /\ pos'.sold = m.sold
      BY <1>4, <2>1 DEF Positions, SamePlan
    <2>3. Accounted(pos') /\ pos'.qty = pos'.initial
      BY <1>4, <2>2 DEF Accounted, SamePlan
    <2>4. m.qty # 0
      BY <1>6, <1>13 DEF IsOpen, Kempt
    <2>5. m.sold <= Cardinality(m.taken) * part
      BY <1>4, <1>5, <1>8, <1>9, <1>10, <1>11, <1>12, <2>4 DEF c
    <2>6. part = PartialQty(pos'.initial)
      BY <2>2 DEF part, SamePlan
    <2> QED BY <1>2, <1>7, <1>13, <2>2, <2>3, <2>5, <2>6 DEF Settlement
  <1>14. CASE ~IsOpen(m)
    <2>1. m.qty = 0
      BY <1>6, <1>14 DEF IsOpen, Kempt, Positions
    <2>2. m.sold <= pos.initial + Cardinality(m.taken) * part
      BY <1>4, <1>5, <1>8, <1>9, <1>10, <1>11, <1>12, <2>1 DEF c
    <2>3. part = PartialQty(m.initial)
      BY <1>10 DEF part
    <2> QED BY <1>2, <1>5, <1>7, <1>10, <1>14, <2>2, <2>3 DEF Settlement
  <1> QED BY <1>13, <1>14

\* Whatever the candles do, a closed trade's PnL is that of its sales less fees on
\* the entry and each of them, every unit is sold, and the watcher's merge loses at
\* most one partial exit for each target noted as taken.
THEOREM TradeAddsUp == Spec => []TradeIsItsFills
  <1>1. Init => Settlement
    BY DEF Init, Settlement
  <1>2. TradeInv /\ Settlement /\ [Next]_vars => Settlement'
    <2>1. TradeInv /\ Settlement /\ UNCHANGED vars => Settlement'
      BY DEF Settlement, vars
    <2> QED BY <2>1, BacktestBarSettles, WindowEndsSettles, PaperOpenSettles, WatcherTickSettles
            DEF Next
  <1>3. TradeInv /\ Settlement => TradeIsItsFills
    <2> SUFFICES ASSUME TradeInv, Settlement, trade # None
                 PROVE  LET lost == IF keeper = "watcher" THEN Cardinality(trade.taken) ELSE 0
                        IN  /\ Units(trade.fills) = trade.initial
                            /\ trade.realized =
                                 Gain(trade.side, trade.entry * SlipDen * trade.initial,
                                      Turnover(trade.fills)) * FeeDen
                                   - Turnover(trade.fills) - EntryFee(trade.entry, trade.initial)
                            /\ trade.sold <= trade.initial + lost * PartialQty(trade.initial)
      BY DEF TradeIsItsFills
    <2>1. /\ trade \in Positions /\ Kempt(trade) /\ trade.status = "closed"
          /\ Accounted(trade)
      BY DEF TradeInv, Booked, Settlement
    <2>2. trade.qty = 0 /\ trade.initial \in Nat \ {0}
      BY <2>1 DEF Kempt, Positions
    <2>3. trade.initial - trade.qty = trade.initial
      BY <2>2
    <2>4. PartialQty(trade.initial) \in 1 .. trade.initial
      BY <2>2, PartialQtyRange
    <2>5. CASE keeper = "watcher"
      BY <2>1, <2>3, <2>5 DEF Accounted, Settlement
    <2>6. CASE keeper # "watcher"
      <3>1. keeper = "backtest"
        BY <2>6, PaperAssumption DEF TradeInv, Program
      <3>2. trade.sold <= trade.initial + 0 * PartialQty(trade.initial)
        BY <2>2, <2>4, <3>1 DEF Settlement
      <3> QED BY <2>1, <2>3, <2>6, <3>2 DEF Accounted
    <2> QED BY <2>5, <2>6
  <1> QED BY <1>1, <1>2, <1>3, TradeInvariant, PTL DEF Spec

-----------------------------------------------------------------------------
(* The store that live and paper positions share, a system of its own.  The   *)
(* cycle's queue is a matter of the program's lists, which come last: so far  *)
(* a row may be of any symbol.                                                *)
(*                                                                            *)
(* Neither property is inductive.  An order is covered by a review that was   *)
(* made minutes before: what keeps it true is that a closed row is never      *)
(* written again and only grows cold, and that nobody else writes live rows.  *)
(* The review itself looks at one close, the last; that it speaks for all     *)
(* needs Settled: whatever was closed before the symbol was opened again had  *)
(* cooled by then, or had an excuse.  A mismatch has a cause because position *)
(* and missing closes add up to one open row at most, one fill under way and  *)
(* what no row tells of (Balanced), for which a symbol must not have two open *)
(* live rows (Ordered).                                                       *)

\* Rows over some set of ids: what the queue holds is a matter of its own.
RowsOver(I) == [id: I, mode: Modes, exit: Exits \cup {"none"}, closed: Nat]

RowsTyped == \E I : store \in Seq(RowsOver(I))

Shaped ==
  /\ RowsTyped
  /\ cycle = [stage |-> cycle.stage, held |-> cycle.held, queue |-> cycle.queue,
              opened |-> cycle.opened]
  /\ exch \in [Symbols -> Nat] /\ unrecorded \in [Symbols -> Nat]
  /\ untracked \in [Symbols -> Nat]
  /\ clock \in Nat

Live(s) == {i \in DOMAIN store : store[i].id.symbol = s /\ store[i].mode = "live"}

Underway == cycle.stage \in {"cleared", "filled"}

\* A paper trade of the symbol has ended since.
Excused(i) ==
  \E j \in ClosedOf(store[i].id.symbol) :
    store[j].mode = "paper" /\ store[j].closed >= store[i].closed

Cold(i) == ~Hot(i) \/ Excused(i)

\* A row was written in the past, and closed later than it was written.
Dated ==
  \A i \in DOMAIN store :
    /\ store[i].id.at \in Nat /\ store[i].id.at <= clock
    /\ ~IsOpenRow(store[i]) => store[i].id.at < store[i].closed /\ store[i].closed <= clock

Unique == \A i, j \in DOMAIN store : store[i].id = store[j].id => i = j

\* Two live rows of a symbol: one was closed before the other was written.
Before(i, k) == ~IsOpenRow(store[i]) /\ store[i].closed <= store[k].id.at

Rivals(i, k) ==
  i # k /\ store[i].id.symbol = store[k].id.symbol
    /\ store[i].mode = "live" /\ store[k].mode = "live"

Ordered == \A i, k \in DOMAIN store : Rivals(i, k) => Before(i, k) \/ Before(k, i)

\* What was closed before the symbol was opened again had cooled, or had an excuse.
Settled == \A i, k \in DOMAIN store : Rivals(i, k) /\ Before(i, k) => Cold(i)

RowInv == Dated /\ Unique /\ Ordered /\ Settled

\* So it is with every live row of the symbol under way.
Reviewed ==
  Underway => \A i \in Live(Head(cycle.queue)) : ~IsOpenRow(store[i]) /\ Cold(i)

Firing(s) == cycle.stage = "filled" /\ Head(cycle.queue) = s

\* What the rows tell of: the open live row and the fill that is not written down.
Told(s) == (IF OpenOf(s, "live") = {} THEN 0 ELSE 1) + (IF Firing(s) THEN 1 ELSE 0)

\* Position and closes that are not written down add up to this and to what no
\* row tells of.
Balanced ==
  \A s \in Symbols \ overwritten : exch[s] + unrecorded[s] = Told(s) + untracked[s]

StoreInv == Shaped /\ RowInv /\ Reviewed /\ Balanced

-----------------------------------------------------------------------------
\* What an insertion does, seen from the rows.
Inserted(k, s, mode) ==
  /\ DOMAIN store' = DOMAIN store \cup {k}
  /\ store'[k].id.symbol = s /\ store'[k].id.at = clock
  /\ store'[k].mode = mode /\ IsOpenRow(store'[k])
  /\ \A i \in DOMAIN store \ {k} : store'[i] = store[i] /\ store[i].id # store'[k].id
  /\ k \in DOMAIN store => store[k].id = store'[k].id

\* And what closing one does.
Closed(i) ==
  /\ i \in DOMAIN store /\ DOMAIN store' = DOMAIN store
  /\ IsOpenRow(store[i]) /\ ~IsOpenRow(store'[i])
  /\ store'[i].id = store[i].id /\ store'[i].mode = store[i].mode
  /\ store'[i].closed = clock /\ store[i].id.at < clock
  /\ \A j \in DOMAIN store \ {i} : store'[j] = store[j]

\* What the file's shape says of a row.
LEMMA StoreIsSeq ==
  ASSUME RowsTyped
  PROVE  /\ Len(store) \in Nat /\ DOMAIN store = 1 .. Len(store)
         /\ \A i \in DOMAIN store :
              store[i].mode \in Modes /\ store[i].closed \in Nat
  <1>1. PICK I : store \in Seq(RowsOver(I))
    BY DEF RowsTyped
  <1>2. Len(store) \in Nat /\ DOMAIN store = 1 .. Len(store)
    BY <1>1, LenProperties
  <1>3. \A i \in 1 .. Len(store) : store[i] \in RowsOver(I)
    BY <1>1, ElementOfSeq
  <1> QED BY <1>2, <1>3 DEF RowsOver

\* upsert() of a new position inserts one row, and counts a live row it replaces.
LEMMA InsertRows ==
  ASSUME RowsTyped, Unique, NEW s, NEW seq, NEW mode \in Modes, Insert(s, seq, mode)
  PROVE  /\ RowsTyped'
         /\ \E k : /\ Inserted(k, s, mode)
                   /\ overwritten \subseteq overwritten'
                   /\ k \in OpenOf(s, "live") => s \in overwritten'
  <1> DEFINE new == [id |-> Id(s, seq), mode |-> mode, exit |-> "none", closed |-> 0]
             same == {i \in DOMAIN store : store[i].id = new.id}
  <1>1. PICK I : store \in Seq(RowsOver(I))
    BY DEF RowsTyped
  <1>2. Len(store) \in Nat /\ DOMAIN store = 1 .. Len(store)
        /\ \A i \in 1 .. Len(store) : store[i] \in RowsOver(I)
    BY <1>1, LenProperties, ElementOfSeq
  <1> DEFINE J == I \cup {Id(s, seq)}
  <1>3. new \in RowsOver(J) /\ RowsOver(I) \subseteq RowsOver(J)
    BY DEF RowsOver
  <1>4. store \in Seq(RowsOver(J))
    BY <1>1, <1>3, SeqMonotonic
  <1>5. /\ new.id = Id(s, seq) /\ new.mode = mode /\ IsOpenRow(new)
        /\ new.id.symbol = s /\ new.id.at = clock
    BY DEF IsOpenRow, Id
  <1>6. /\ store' = IF same = {} THEN Append(store, new)
                    ELSE [i \in DOMAIN store |-> IF i \in same THEN new ELSE store[i]]
        /\ overwritten' =
             overwritten \cup {store[i].id.symbol : i \in same \cap OpenOf(s, "live")}
    BY DEF Insert
  <1> HIDE DEF new, J
  <1>7. CASE same = {}
    <2> DEFINE k == Len(store) + 1
    <2>1. store' = Append(store, new)
      BY <1>6, <1>7
    <2>2. /\ store' \in Seq(RowsOver(J)) /\ Len(store') = k
          /\ \A i \in 1 .. Len(store) : store'[i] = store[i]
          /\ store'[k] = new
      BY <1>3, <1>4, <2>1, AppendProperties
    <2>3. DOMAIN store' = 1 .. k
      BY <2>2, LenProperties
    <2>4. DOMAIN store' = DOMAIN store \cup {k} /\ k \notin DOMAIN store
      BY <1>2, <2>3
    <2>5. Inserted(k, s, mode)
      BY <1>2, <1>5, <1>7, <2>2, <2>4 DEF Inserted
    <2>6. k \notin OpenOf(s, "live")
      BY <2>4 DEF OpenOf, Open
    <2> HIDE DEF k
    <2> QED BY <1>6, <2>2, <2>5, <2>6 DEF RowsTyped
  <1>8. CASE same # {}
    <2>1. PICK k \in DOMAIN store : store[k].id = new.id
      BY <1>8
    <2>2. same = {k}
      BY <2>1 DEF Unique
    <2>3. store' = [i \in DOMAIN store |-> IF i = k THEN new ELSE store[i]]
      BY <1>6, <1>8, <2>2
    <2>4. store' \in Seq(RowsOver(J))
      <3>1. store' \in [1 .. Len(store) -> RowsOver(J)]
        BY <1>2, <1>3, <2>3
      <3> QED BY <1>2, <3>1
    <2>5. Inserted(k, s, mode)
      BY <1>2, <1>5, <2>1, <2>2, <2>3 DEF Inserted
    <2>6. k \in OpenOf(s, "live") => s \in overwritten'
      BY <1>5, <1>6, <2>1, <2>2
    <2> QED BY <1>6, <2>4, <2>5, <2>6 DEF RowsTyped
  <1> QED BY <1>7, <1>8

\* Ending a position closes one row.
LEMMA CloseRows ==
  ASSUME RowsTyped, clock \in Nat,
         NEW i \in DOMAIN store, IsOpenRow(store[i]),
         NEW exit \in Exits, Close(i, exit)
  PROVE  RowsTyped' /\ Closed(i)
  <1>1. PICK I : store \in Seq(RowsOver(I))
    BY DEF RowsTyped
  <1>2. Len(store) \in Nat /\ DOMAIN store = 1 .. Len(store)
        /\ \A j \in 1 .. Len(store) : store[j] \in RowsOver(I)
    BY <1>1, LenProperties, ElementOfSeq
  <1>3. exit # "none"
    BY SharedStoreAssumption DEF Exits, SimulatorExits
  <1> DEFINE r == [store[i] EXCEPT !.exit = exit, !.closed = clock]
  <1>4. store[i] \in RowsOver(I)
    BY <1>2
  <1>5. /\ r \in RowsOver(I) /\ r.id = store[i].id /\ r.mode = store[i].mode
        /\ r.exit = exit /\ r.closed = clock
    BY <1>4 DEF RowsOver
  <1>6. store' = [store EXCEPT ![i] = r] /\ store[i].id.at < clock
    BY <1>2, <1>4 DEF Close, RowsOver
  <1> HIDE DEF r
  <1>7. store' \in Seq(RowsOver(I))
    <2>1. store' \in [1 .. Len(store) -> RowsOver(I)]
      BY <1>2, <1>5, <1>6
    <2> QED BY <1>2, <2>1
  <1>8. Closed(i)
    BY <1>2, <1>3, <1>5, <1>6 DEF Closed, IsOpenRow
  <1> QED BY <1>7, <1>8 DEF RowsTyped

\* Where a symbol has a closed row, one of them counts.
LEMMA LastCloseExists ==
  ASSUME RowsTyped, NEW s, ClosedOf(s) # {}
  PROVE  LastClose(s) # {}
  <1> DEFINE T == ClosedOf(s)
             beats(j, i) == \/ store[i].closed < store[j].closed
                            \/ store[i].closed = store[j].closed /\ j < i
             Later(i) == {j \in T : beats(j, i)}
             Family == {Later(i) : i \in T}
  <1>1. Len(store) \in Nat /\ T \subseteq 1 .. Len(store)
        /\ \A i \in T : store[i].closed \in Nat
    BY StoreIsSeq DEF ClosedOf
  <1>2. IsFiniteSet(T)
    <2>1. IsFiniteSet(1 .. Len(store))
      BY <1>1, FS_Interval
    <2> HIDE DEF T
    <2> QED BY <1>1, <2>1, FS_Subset
  <1>3. Family \subseteq FiniteSubsetsOf(T) /\ Family # {}
    <2>1. \A i \in T : Later(i) \in SUBSET T /\ IsFiniteSet(Later(i))
      BY <1>2, FS_Subset
    <2> QED BY <2>1 DEF FiniteSubsetsOf
  <1>4. PICK B \in Family : \A A \in Family : ~(<<A, B>> \in StrictSubsetOrdering(T))
    BY <1>2, <1>3, FS_StrictSubsetOrderingWellFounded, WFMin
  <1>5. PICK i \in T : B = Later(i)
    BY <1>4
  <1>6. ASSUME NEW j \in T, beats(j, i) PROVE FALSE
    <2>1. Later(j) \in Family /\ Later(j) \in SUBSET T /\ Later(i) \in SUBSET T
      OBVIOUS
    <2>2. \A k \in T : beats(k, j) => beats(k, i)
      BY <1>1, <1>6
    <2>3. Later(j) \subseteq Later(i)
      BY <2>2
    <2>4. j \in Later(i) /\ j \notin Later(j)
      BY <1>1, <1>6
    <2> QED BY <1>4, <1>5, <2>1, <2>3, <2>4 DEF StrictSubsetOrdering
  <1>7. i \in LastClose(s)
    <2>1. \A j \in T : \/ store[j].closed < store[i].closed
                       \/ store[j].closed = store[i].closed /\ i <= j
      BY <1>1, <1>6
    <2> QED BY <2>1 DEF LastClose
  <1> QED BY <1>7

\* Only the cooldown windows are asked for of the constants.
LEMMA WindowTyped ==
  ASSUME NEW exit
  PROVE  Window(exit) \in Nat
  BY SharedStoreAssumption DEF Window

\* What happened stays so: closed rows are left alone while the clock goes on.
PastKept ==
  /\ clock' \in Nat /\ clock <= clock'
  /\ \A i \in DOMAIN store :
       ~IsOpenRow(store[i]) => i \in DOMAIN store' /\ store'[i] = store[i]

\* A close that had cooled, or had an excuse, has it for good.
LEMMA ColdStays ==
  ASSUME Shaped, PastKept,
         NEW i \in DOMAIN store, ~IsOpenRow(store[i]), Cold(i)
  PROVE  Cold(i)' /\ store'[i] = store[i]
  <1>1. i \in DOMAIN store' /\ store'[i] = store[i]
    BY DEF PastKept
  <1>2. CASE ~Hot(i)
    <2>1. store[i].closed \in Nat /\ Window(store[i].exit) \in Nat
      BY StoreIsSeq, WindowTyped DEF Shaped
    <2>2. ~Hot(i)'
      BY <1>1, <1>2, <2>1 DEF Hot, PastKept, Shaped, Window
    <2> QED BY <1>1, <2>2 DEF Cold
  <1>3. CASE Excused(i)
    <2>1. PICK j \in ClosedOf(store[i].id.symbol) :
            store[j].mode = "paper" /\ store[j].closed >= store[i].closed
      BY <1>3 DEF Excused
    <2>2. j \in DOMAIN store' /\ store'[j] = store[j] /\ ~IsOpenRow(store'[j])
      BY <2>1 DEF PastKept, ClosedOf
    <2>3. j \in ClosedOf(store[i].id.symbol)'
      BY <1>1, <2>1, <2>2 DEF ClosedOf
    <2>4. Excused(i)'
      BY <1>1, <2>1, <2>2, <2>3 DEF Excused
    <2> QED BY <1>1, <2>4 DEF Cold
  <1> QED BY <1>2, <1>3 DEF Cold

\* An insertion replaces no closed row: that one's id is of an earlier second.
LEMMA InsertKeepsPast ==
  ASSUME Shaped, Dated, NEW k, NEW s, NEW mode, Inserted(k, s, mode), clock' = clock
  PROVE  PastKept
  <1>1. ASSUME NEW i \in DOMAIN store, ~IsOpenRow(store[i])
        PROVE  i \in DOMAIN store' /\ store'[i] = store[i]
    <2>1. store[i].id.at \in Nat /\ store[i].closed \in Nat /\ store[i].id.at < clock
      BY <1>1, StoreIsSeq DEF Dated, Shaped
    <2>2. i # k
      BY <2>1 DEF Inserted, Shaped
    <2> QED BY <2>2 DEF Inserted
  <1> QED BY <1>1 DEF PastKept, Shaped

LEMMA CloseKeepsPast ==
  ASSUME Shaped, NEW i, Closed(i), clock' = clock
  PROVE  PastKept
  BY DEF PastKept, Closed, Shaped

\* The rows stay in order if what a live row joins is closed and cold.
LEMMA InsertKeepsOrder ==
  ASSUME Shaped, Shaped', RowInv, clock' = clock,
         NEW k, NEW s, NEW mode \in Modes, Inserted(k, s, mode),
         mode = "live" => \A i \in Live(s) : ~IsOpenRow(store[i]) /\ Cold(i)
  PROVE  RowInv'
  <1>1. PastKept
    BY InsertKeepsPast DEF RowInv
  <1>2. \A i \in DOMAIN store' : i # k => i \in DOMAIN store /\ store'[i] = store[i]
    BY DEF Inserted
  <1>3. clock \in Nat /\ IsOpenRow(store'[k]) /\ store'[k].id.at = clock
    BY DEF Shaped, Inserted
  <1>4. Dated'
    BY <1>2, <1>3 DEF Dated, RowInv
  <1>5. Unique'
    BY <1>2 DEF Unique, RowInv, Inserted
  <1>6. ASSUME NEW i \in DOMAIN store', Rivals(i, k)', i # k
        PROVE  i \in DOMAIN store /\ ~IsOpenRow(store[i]) /\ Cold(i) /\ Before(i, k)'
    <2>1. i \in Live(s) /\ mode = "live"
      BY <1>2, <1>6 DEF Rivals, Live, Inserted
    <2>2. i \in DOMAIN store /\ ~IsOpenRow(store[i]) /\ Cold(i) /\ store'[i] = store[i]
      BY <1>2, <1>6, <2>1
    <2>3. store[i].closed <= clock
      BY <2>2 DEF Dated, RowInv
    <2> QED BY <1>3, <2>2, <2>3 DEF Before
  <1>7. Ordered'
    <2>1. ASSUME NEW i \in DOMAIN store', NEW j \in DOMAIN store', Rivals(i, j)'
          PROVE  Before(i, j)' \/ Before(j, i)'
      <3>1. CASE j = k
        BY <1>6, <2>1, <3>1 DEF Rivals
      <3>2. CASE i = k
        <4>1. Rivals(j, k)'
          BY <2>1, <3>2 DEF Rivals
        <4> QED BY <1>6, <3>2, <4>1 DEF Rivals
      <3>3. CASE i # k /\ j # k
        <4>1. Rivals(i, j)
          BY <1>2, <2>1, <3>3 DEF Rivals
        <4> QED BY <1>2, <3>3, <4>1 DEF Before, Ordered, RowInv
      <3> QED BY <3>1, <3>2, <3>3
    <2> QED BY <2>1 DEF Ordered
  <1>8. Settled'
    <2>1. ASSUME NEW i \in DOMAIN store', NEW j \in DOMAIN store', Rivals(i, j)', Before(i, j)'
          PROVE  Cold(i)'
      <3>1. i # k
        BY <1>3, <2>1 DEF Before
      <3>2. i \in DOMAIN store /\ ~IsOpenRow(store[i])
        BY <1>2, <2>1, <3>1 DEF Before
      <3>3. Cold(i)
        <4>1. CASE j = k
          BY <1>6, <2>1, <3>1, <4>1
        <4>2. CASE j # k
          <5>1. Rivals(i, j) /\ Before(i, j)
            BY <1>2, <2>1, <3>1, <4>2 DEF Rivals, Before
          <5> QED BY <1>2, <3>2, <4>2, <5>1 DEF Settled, RowInv
        <4> QED BY <4>1, <4>2
      <3> QED BY <1>1, <3>2, <3>3, ColdStays
    <2> QED BY <2>1 DEF Settled
  <1> QED BY <1>4, <1>5, <1>7, <1>8 DEF RowInv

\* A row that is closed now comes after the closed rows of its symbol.
LEMMA CloseKeepsOrder ==
  ASSUME Shaped, RowInv, clock' = clock, NEW i, Closed(i)
  PROVE  RowInv'
  <1>1. PastKept
    BY CloseKeepsPast
  <1>2. /\ DOMAIN store' = DOMAIN store /\ i \in DOMAIN store /\ IsOpenRow(store[i])
        /\ \A j \in DOMAIN store : store'[j].id = store[j].id /\ store'[j].mode = store[j].mode
        /\ \A j \in DOMAIN store : j # i => store'[j] = store[j]
        /\ store'[i].closed = clock /\ store[i].id.at < clock
    BY DEF Closed
  <1>3. clock \in Nat /\ \A j \in DOMAIN store : store[j].closed \in Nat
    BY StoreIsSeq DEF Shaped
  <1>4. Dated'
    BY <1>2, <1>3 DEF Dated, RowInv
  <1>5. Unique'
    BY <1>2 DEF Unique, RowInv
  <1>6. \A j, k \in DOMAIN store : Rivals(j, k)' => Rivals(j, k)
    BY <1>2 DEF Rivals
  <1>7. \A j, k \in DOMAIN store : Before(j, k) => Before(j, k)' /\ j # i
    BY <1>2 DEF Before
  <1>8. Ordered'
    BY <1>2, <1>6, <1>7 DEF Ordered, RowInv
  <1>9. Settled'
    <2>1. ASSUME NEW j \in DOMAIN store, NEW k \in DOMAIN store, Rivals(j, k)', Before(j, k)'
          PROVE  Cold(j)'
      <3>1. Rivals(j, k)
        BY <1>6, <2>1
      <3>2. j # i
        <4>1. SUFFICES ASSUME j = i PROVE FALSE
          OBVIOUS
        <4>2. clock <= store[k].id.at
          BY <1>2, <2>1, <4>1 DEF Before
        <4>3. Before(k, i)
          BY <1>2, <3>1, <4>1 DEF Ordered, RowInv, Before
        <4>4. store[k].id.at \in Nat /\ store[k].id.at < clock
          BY <1>3, <4>3 DEF Before, Dated, RowInv
        <4> QED BY <1>3, <4>2, <4>4
      <3>3. Before(j, k) /\ ~IsOpenRow(store[j])
        BY <1>2, <2>1, <3>2 DEF Before
      <3>4. Cold(j)
        BY <3>1, <3>3 DEF Settled, RowInv
      <3> QED BY <1>1, <3>3, <3>4, ColdStays
    <2> QED BY <1>2, <2>1 DEF Settled
  <1> QED BY <1>4, <1>5, <1>8, <1>9 DEF RowInv

\* Time only cools.
LEMMA TimeKeepsOrder ==
  ASSUME Shaped, RowInv, PastKept, UNCHANGED store
  PROVE  RowInv'
  <1>1. clock \in Nat /\ clock' \in Nat /\ clock <= clock'
    BY DEF Shaped, PastKept
  <1>2. \A j \in DOMAIN store : store[j].closed \in Nat
    BY StoreIsSeq DEF Shaped
  <1>3. Dated'
    BY <1>1, <1>2 DEF Dated, RowInv
  <1>4. Unique' /\ Ordered'
    BY DEF Unique, Ordered, Rivals, Before, RowInv
  <1>5. Settled'
    <2>1. ASSUME NEW j \in DOMAIN store, NEW k \in DOMAIN store, Rivals(j, k), Before(j, k)
          PROVE  Cold(j)'
      BY <2>1, ColdStays DEF Settled, RowInv, Before
    <2> QED BY <2>1 DEF Settled, Rivals, Before
  <1> QED BY <1>3, <1>4, <1>5 DEF RowInv

\* What the limits let pass has no live row that is open, and none that is hot
\* without an excuse.
LEMMA ReviewClears ==
  ASSUME Shaped, RowInv, NEW s, Allowed(s)
  PROVE  \A i \in Live(s) : ~IsOpenRow(store[i]) /\ Cold(i)
  <1>1. ASSUME NEW i \in Live(s) PROVE ~IsOpenRow(store[i]) /\ Cold(i)
    <2>1. i \in DOMAIN store /\ store[i].id.symbol = s /\ store[i].mode = "live"
      BY <1>1 DEF Live
    <2>2. ~IsOpenRow(store[i])
      BY <2>1 DEF Allowed, OpenSymbols, Open
    <2>3. i \in ClosedOf(s)
      BY <2>1, <2>2 DEF ClosedOf
    <2>4. PICK m \in LastClose(s) : TRUE
      BY <2>3, LastCloseExists DEF Shaped
    <2>5. /\ m \in DOMAIN store /\ store[m].id.symbol = s /\ ~IsOpenRow(store[m])
          /\ m \in ClosedOf(s) /\ ~Hot(m)
      BY <2>4 DEF LastClose, ClosedOf, Allowed, Cooled
    <2>6. /\ store[m].closed \in Nat /\ store[i].closed \in Nat
          /\ store[i].closed <= store[m].closed
          /\ store[m].mode \in Modes
      <3>1. /\ store[m].closed \in Nat /\ store[i].closed \in Nat
            /\ store[m].mode \in Modes
        BY <2>1, <2>5, StoreIsSeq DEF Shaped
      <3>2. store[i].closed < store[m].closed \/ store[i].closed = store[m].closed
        BY <2>3, <2>4 DEF LastClose
      <3> QED BY <3>1, <3>2
    <2>7. CASE i = m
      BY <2>2, <2>5, <2>7 DEF Cold
    <2>8. CASE store[m].mode = "paper"
      BY <2>1, <2>2, <2>5, <2>6, <2>8 DEF Cold, Excused
    <2>9. CASE i # m /\ store[m].mode = "live"
      <3>1. Rivals(i, m)
        BY <2>1, <2>5, <2>9 DEF Rivals
      <3>2. ~Before(m, i)
        <4>1. store[i].id.at \in Nat /\ store[i].id.at < store[i].closed
          BY <2>1, <2>2 DEF Dated, RowInv
        <4> QED BY <2>6, <4>1 DEF Before
      <3>3. Before(i, m)
        BY <2>1, <2>5, <3>1, <3>2 DEF Ordered, RowInv
      <3> QED BY <2>1, <2>2, <2>5, <3>1, <3>3 DEF Settled, RowInv
    <2> QED BY <2>6, <2>7, <2>8, <2>9 DEF Modes
  <1> QED BY <1>1

\* A review stands while no live row joins those it has seen.
LEMMA ReviewStands ==
  ASSUME Shaped, PastKept, Reviewed,
         Underway' => Underway /\ cycle'.queue = cycle.queue,
         \A i \in DOMAIN store' :
           store'[i].mode = "live" =>
             /\ i \in DOMAIN store /\ store[i].id = store'[i].id /\ store[i].mode = "live"
  PROVE  Reviewed'
  <1> SUFFICES ASSUME Underway', NEW i \in Live(Head(cycle.queue))'
               PROVE  ~IsOpenRow(store'[i]) /\ Cold(i)'
    BY DEF Reviewed
  <1>1. i \in Live(Head(cycle.queue)) /\ Underway
    BY DEF Live
  <1>2. ~IsOpenRow(store[i]) /\ Cold(i) /\ i \in DOMAIN store
    BY <1>1 DEF Reviewed, Live
  <1> QED BY <1>2, ColdStays

-----------------------------------------------------------------------------
(* What the books say. *)

\* The books of a symbol only speak of these.
LEMMA BooksStay ==
  ASSUME Balanced, overwritten \subseteq overwritten',
         \A s \in Symbols \ overwritten' :
           /\ exch'[s] + unrecorded'[s] = exch[s] + unrecorded[s]
           /\ untracked'[s] = untracked[s]
           /\ OpenOf(s, "live")' = {} <=> OpenOf(s, "live") = {}
           /\ Firing(s)' <=> Firing(s)
  PROVE  Balanced'
  <1> SUFFICES ASSUME NEW s \in Symbols \ overwritten'
               PROVE  exch'[s] + unrecorded'[s] = Told(s)' + untracked'[s]
    BY DEF Balanced
  <1>1. exch[s] + unrecorded[s] = Told(s) + untracked[s]
    BY DEF Balanced
  <1>2. Told(s)' = Told(s)
    BY DEF Told
  <1> QED BY <1>1, <1>2

\* What Told says, in numbers.
LEMMA ToldIs ==
  ASSUME NEW s
  PROVE  /\ Told(s) \in Nat
         /\ OpenOf(s, "live") = {} /\ ~Firing(s) => Told(s) = 0
         /\ OpenOf(s, "live") # {} /\ ~Firing(s) => Told(s) = 1
         /\ OpenOf(s, "live") = {} /\ Firing(s) => Told(s) = 1
  BY DEF Told

\* What an insertion does to the open live rows of a symbol.
LEMMA InsertOpens ==
  ASSUME NEW k, NEW s, NEW mode, Inserted(k, s, mode), NEW r
  PROVE  /\ mode = "live" /\ r = s => k \in OpenOf(r, "live")'
         /\ ~(mode = "live" /\ r = s) =>
              OpenOf(r, "live")' = OpenOf(r, "live") \ {k}
         /\ r # s => k \notin OpenOf(r, "live")
  <1>1. /\ k \in DOMAIN store' /\ IsOpenRow(store'[k]) /\ store'[k].id.symbol = s
        /\ store'[k].mode = mode
        /\ \A i : i # k => (i \in DOMAIN store' <=> i \in DOMAIN store)
        /\ \A i \in DOMAIN store : i # k => store'[i] = store[i]
        /\ k \in DOMAIN store => store[k].id = store'[k].id
    BY DEF Inserted
  <1>2. \A i : i \in OpenOf(r, "live")' <=>
                 /\ i \in DOMAIN store' /\ IsOpenRow(store'[i])
                 /\ store'[i].id.symbol = r /\ store'[i].mode = "live"
    BY DEF OpenOf, Open
  <1>3. \A i : i \in OpenOf(r, "live") <=>
                 /\ i \in DOMAIN store /\ IsOpenRow(store[i])
                 /\ store[i].id.symbol = r /\ store[i].mode = "live"
    BY DEF OpenOf, Open
  <1>4. mode = "live" /\ r = s => k \in OpenOf(r, "live")'
    BY <1>1, <1>2
  <1>5. ASSUME ~(mode = "live" /\ r = s)
        PROVE  OpenOf(r, "live")' = OpenOf(r, "live") \ {k}
    <2>1. k \notin OpenOf(r, "live")'
      BY <1>1, <1>2, <1>5
    <2>2. \A i : i # k => (i \in OpenOf(r, "live")' <=> i \in OpenOf(r, "live"))
      BY <1>1, <1>2, <1>3
    <2> QED BY <2>1, <2>2
  <1>6. r # s => k \notin OpenOf(r, "live")
    BY <1>1, <1>3
  <1> QED BY <1>4, <1>5, <1>6

\* And what a close does: a symbol has at most one open live row.
LEMMA CloseEnds ==
  ASSUME NEW i, Closed(i), Ordered, NEW r
  PROVE  /\ i \in OpenOf(r, "live") => OpenOf(r, "live")' = {}
         /\ i \notin OpenOf(r, "live") => OpenOf(r, "live")' = OpenOf(r, "live")
  <1>1. \A j : j \in OpenOf(r, "live") <=>
                 /\ j \in DOMAIN store /\ IsOpenRow(store[j])
                 /\ store[j].id.symbol = r /\ store[j].mode = "live"
    BY DEF OpenOf, Open
  <1>2. \A j : j \in OpenOf(r, "live")' <=> j \in OpenOf(r, "live") /\ j # i
    <2>1. \A j : j \in OpenOf(r, "live")' <=>
                   /\ j \in DOMAIN store' /\ IsOpenRow(store'[j])
                   /\ store'[j].id.symbol = r /\ store'[j].mode = "live"
      BY DEF OpenOf, Open
    <2> QED BY <1>1, <2>1 DEF Closed
  <1>3. ASSUME NEW j \in OpenOf(r, "live"), i \in OpenOf(r, "live") PROVE j = i
    BY <1>1, <1>3 DEF Ordered, Rivals, Before
  <1> QED BY <1>2, <1>3

LEMMA InitStore ==
  ASSUME SSInit
  PROVE  StoreInv
  <1>1. store = <<>> /\ DOMAIN store = {}
    BY DEF SSInit
  <1>2. Shaped
    <2>1. store \in Seq(RowsOver({}))
      BY <1>1, EmptySeq
    <2> QED BY <2>1 DEF SSInit, Shaped, RowsTyped, Down
  <1>3. RowInv
    BY <1>1 DEF RowInv, Dated, Unique, Ordered, Settled
  <1>4. Reviewed
    BY DEF SSInit, Down, Reviewed, Underway
  <1>5. Balanced
    <2>1. ASSUME NEW s PROVE OpenOf(s, "live") = {} /\ ~Firing(s)
      BY <1>1 DEF SSInit, OpenOf, Open, Firing, Down
    <2> QED BY <2>1, ToldIs DEF SSInit, Balanced
  <1> QED BY <1>2, <1>3, <1>4, <1>5 DEF StoreInv

\* A step of the cycle that touches neither rows nor exchange.
LEMMA CycleOnly ==
  ASSUME StoreInv, UNCHANGED <<store, exch, clock, books>>,
         cycle' = [stage |-> cycle'.stage, held |-> cycle'.held, queue |-> cycle'.queue,
                   opened |-> cycle'.opened],
         cycle.stage # "filled", cycle'.stage # "filled",
         Underway' => \A i \in Live(Head(cycle'.queue)) : ~IsOpenRow(store[i]) /\ Cold(i)
  PROVE  StoreInv'
  <1> USE DEF StoreInv
  <1>1. PastKept
    BY DEF PastKept, Shaped
  <1>2. Shaped'
    BY DEF Shaped, RowsTyped, books
  <1>3. RowInv'
    BY <1>1, TimeKeepsOrder
  <1>4. Reviewed'
    <2> SUFFICES ASSUME Underway', NEW i \in Live(Head(cycle.queue))'
                 PROVE  ~IsOpenRow(store'[i]) /\ Cold(i)'
      BY DEF Reviewed
    <2>1. i \in Live(Head(cycle'.queue)) /\ i \in DOMAIN store
      BY DEF Live
    <2> QED BY <1>1, <2>1, ColdStays
  <1>5. Balanced'
    <2>1. \A s : OpenOf(s, "live")' = OpenOf(s, "live") /\ ~Firing(s) /\ ~Firing(s)'
      BY DEF OpenOf, Open, Firing
    <2> QED BY <2>1, BooksStay DEF books
  <1> QED BY <1>2, <1>3, <1>4, <1>5

LEMMA CycleSteps ==
  ASSUME StoreInv, Start \/ Assemble \/ Review \/ Skip \/ End
  PROVE  StoreInv'
  <1> DEFINE shape(c) == c = [stage |-> c.stage, held |-> c.held, queue |-> c.queue,
                              opened |-> c.opened]
  <1>1. shape(cycle)
    BY DEF StoreInv, Shaped
  <1>2. CASE Start
    <2>1. shape(cycle') /\ cycle'.stage = "screening" /\ cycle.stage = "down"
      BY <1>2 DEF Start, Down
    <2> QED BY <1>2, <2>1, CycleOnly DEF Start, Underway
  <1>3. CASE Assemble
    <2>1. PICK q : cycle' = [cycle EXCEPT !.stage = "loop", !.held = {}, !.queue = q]
      BY <1>3 DEF Assemble
    <2>2. shape(cycle') /\ cycle'.stage = "loop" /\ cycle.stage = "screening"
      BY <1>1, <1>3, <2>1 DEF Assemble
    <2> QED BY <1>3, <2>2, CycleOnly DEF Assemble, Underway
  <1>4. CASE Review
    <2>1. shape(cycle') /\ cycle'.stage = "cleared" /\ cycle'.queue = cycle.queue
      BY <1>1, <1>4 DEF Review
    <2>2. \A i \in Live(Head(cycle'.queue)) : ~IsOpenRow(store[i]) /\ Cold(i)
      BY <1>4, <2>1, ReviewClears DEF Review, StoreInv
    <2>3. cycle.stage # "filled" /\ UNCHANGED <<store, exch, clock, books>>
      BY <1>4 DEF Review
    <2> QED BY <2>1, <2>2, <2>3, CycleOnly
  <1>5. CASE Skip
    <2>1. shape(cycle') /\ cycle'.stage = "loop" /\ cycle.stage # "filled"
      BY <1>1, <1>5 DEF Skip, NextCandidate
    <2> QED BY <1>5, <2>1, CycleOnly DEF Skip, Underway
  <1>6. CASE End
    <2>1. shape(cycle') /\ cycle'.stage = "down" /\ cycle.stage # "filled"
      BY <1>6 DEF End, Down
    <2> QED BY <1>6, <2>1, CycleOnly DEF End, Underway
  <1> QED BY <1>2, <1>3, <1>4, <1>5, <1>6

LEMMA FireStep ==
  ASSUME StoreInv, Fire
  PROVE  StoreInv'
  <1> USE DEF StoreInv
  <1>1. UNCHANGED <<store, clock, unrecorded, overwritten, untracked>>
    BY DEF Fire, books
  <1>2. /\ cycle' = [stage |-> "filled", held |-> cycle.held, queue |-> cycle.queue,
                     opened |-> cycle.opened]
        /\ cycle.stage = "cleared"
    BY DEF Fire, Shaped
  <1> DEFINE h == Head(cycle.queue)
  <1>3. /\ exch' \in [Symbols -> Nat]
        /\ \A s \in Symbols : exch'[s] = exch[s] + (IF s = h THEN 1 ELSE 0)
    <2>1. exch' = [exch EXCEPT ![h] = @ + 1] /\ exch \in [Symbols -> Nat]
      BY DEF Fire, Shaped
    <2> HIDE DEF h
    <2>2. \A s \in Symbols :
            /\ exch[s] \in Nat
            /\ exch'[s] = IF s = h THEN exch[s] + 1 ELSE exch[s]
      BY <2>1
    <2>3. exch' \in [Symbols -> Nat]
      <3>1. \A s \in Symbols : exch'[s] \in Nat
        BY <2>2
      <3> QED BY <2>1, <3>1
    <2> QED BY <2>2, <2>3
  <1>4. PastKept
    BY <1>1 DEF PastKept, Shaped
  <1>5. Shaped'
    BY <1>1, <1>2, <1>3 DEF Shaped, RowsTyped
  <1>6. RowInv'
    BY <1>1, <1>4, TimeKeepsOrder
  <1>7. Reviewed'
    BY <1>1, <1>2, <1>4, ReviewStands DEF Underway
  <1>8. Balanced'
    <2> SUFFICES ASSUME NEW s \in Symbols \ overwritten'
                 PROVE  exch'[s] + unrecorded'[s] = Told(s)' + untracked'[s]
      BY DEF Balanced
    <2>1. OpenOf(s, "live")' = OpenOf(s, "live")
      BY <1>1 DEF OpenOf, Open
    <2>2. ~Firing(s) /\ (Firing(s)' <=> s = Head(cycle.queue))
      BY <1>2 DEF Firing
    <2>3. exch[s] + unrecorded[s] = Told(s) + untracked[s]
      BY <1>1 DEF Balanced
    <2>4. /\ exch[s] \in Nat /\ unrecorded[s] \in Nat /\ untracked[s] \in Nat
          /\ unrecorded'[s] = unrecorded[s] /\ untracked'[s] = untracked[s]
      BY <1>1 DEF Shaped
    <2>5. Told(s)' = Told(s) + (IF s = Head(cycle.queue) THEN 1 ELSE 0)
      BY <2>1, <2>2 DEF Told
    <2>6. Told(s) \in Nat
      BY ToldIs
    <2>7. exch'[s] = exch[s] + (IF s = Head(cycle.queue) THEN 1 ELSE 0)
      BY <1>3
    <2> HIDE DEF h
    <2> QED BY <2>3, <2>4, <2>5, <2>6, <2>7
  <1> QED BY <1>5, <1>6, <1>7, <1>8

LEMMA PersistStep ==
  ASSUME StoreInv, Persist
  PROVE  StoreInv'
  <1> USE DEF StoreInv
  <1> DEFINE h == Head(cycle.queue)
  <1>1. /\ UNCHANGED <<exch, clock, unrecorded, untracked>> /\ cycle.stage = "filled"
        /\ Insert(h, cycle.opened + 1, "live")
    BY DEF Persist
  <1>2. /\ cycle'.stage = "loop"
        /\ cycle' = [stage |-> cycle'.stage, held |-> cycle'.held, queue |-> cycle'.queue,
                     opened |-> cycle'.opened]
    BY DEF Persist, NextCandidate, Shaped
  <1>3. "live" \in Modes
    BY DEF Modes
  <1>4. /\ RowsTyped'
        /\ \E k : Inserted(k, h, "live") /\ overwritten \subseteq overwritten'
    BY <1>1, <1>3, InsertRows DEF Shaped, RowInv
  <1>5. PICK k : Inserted(k, h, "live") /\ overwritten \subseteq overwritten'
    BY <1>4
  <1>6. Shaped'
    BY <1>1, <1>2, <1>4 DEF Shaped
  <1>7. \A i \in Live(h) : ~IsOpenRow(store[i]) /\ Cold(i)
    BY <1>1 DEF Reviewed, Underway
  <1>8. RowInv'
    BY <1>1, <1>3, <1>5, <1>6, <1>7, InsertKeepsOrder
  <1>9. Reviewed'
    BY <1>2 DEF Reviewed, Underway
  <1>10. Balanced'
    <2> SUFFICES ASSUME NEW s \in Symbols \ overwritten'
                 PROVE  exch'[s] + unrecorded'[s] = Told(s)' + untracked'[s]
      BY DEF Balanced
    <2>1. exch'[s] + unrecorded'[s] = Told(s) + untracked'[s]
      BY <1>1, <1>5 DEF Balanced
    <2>2. ~Firing(s)' /\ (Firing(s) <=> s = h)
      BY <1>1, <1>2 DEF Firing
    <2>3. CASE s = h
      <3>1. OpenOf(s, "live") = {}
        BY <1>7, <2>3 DEF OpenOf, Open, Live
      <3>2. k \in OpenOf(s, "live")'
        BY <1>5, <2>3, InsertOpens
      <3>3. OpenOf(s, "live")' # {}
        BY <3>2
      <3>4. Told(s) = 1 /\ Told(s)' = 1
        BY <2>2, <2>3, <3>1, <3>3 DEF Told
      <3> QED BY <2>1, <3>4
    <2>4. CASE s # h
      <3>1. OpenOf(s, "live")' = OpenOf(s, "live") \ {k} /\ k \notin OpenOf(s, "live")
        BY <1>5, <2>4, InsertOpens
      <3>2. OpenOf(s, "live")' = OpenOf(s, "live")
        BY <3>1
      <3>3. Told(s)' = Told(s)
        BY <2>2, <2>4, <3>2 DEF Told
      <3> QED BY <2>1, <3>3
    <2> QED BY <2>3, <2>4
  <1> QED BY <1>6, <1>8, <1>9, <1>10

LEMMA PaperOpenStep ==
  ASSUME StoreInv, NEW s \in Symbols, PaperInsert(s)
  PROVE  StoreInv'
  <1> USE DEF StoreInv
  <1>1. PICK seq \in PaperSeqs : Insert(s, seq, "paper")
    BY DEF PaperInsert
  <1>2. UNCHANGED <<exch, clock, cycle, unrecorded, untracked>>
    BY DEF PaperInsert
  <1>3. "paper" \in Modes /\ "paper" # "live"
    BY DEF Modes
  <1>4. /\ RowsTyped'
        /\ \E k : /\ Inserted(k, s, "paper")
                  /\ overwritten \subseteq overwritten'
                  /\ k \in OpenOf(s, "live") => s \in overwritten'
    BY <1>1, <1>3, InsertRows DEF Shaped, RowInv
  <1>5. PICK k : /\ Inserted(k, s, "paper")
                 /\ overwritten \subseteq overwritten'
                 /\ k \in OpenOf(s, "live") => s \in overwritten'
    BY <1>4
  <1>6. Shaped'
    BY <1>2, <1>4 DEF Shaped
  <1>7. RowInv'
    BY <1>2, <1>3, <1>5, <1>6, InsertKeepsOrder
  <1>8. PastKept
    BY <1>2, <1>5, InsertKeepsPast DEF RowInv
  <1>9. Reviewed'
    <2>1. \A i \in DOMAIN store' :
            store'[i].mode = "live" =>
              i \in DOMAIN store /\ store[i].id = store'[i].id /\ store[i].mode = "live"
      BY <1>3, <1>5 DEF Inserted
    <2> QED BY <1>2, <1>8, <2>1, ReviewStands DEF Underway
  <1>10. Balanced'
    <2>1. ASSUME NEW r \in Symbols \ overwritten'
          PROVE  OpenOf(r, "live")' = OpenOf(r, "live")
      <3>1. OpenOf(r, "live")' = OpenOf(r, "live") \ {k}
        BY <1>3, <1>5, InsertOpens
      <3>2. k \notin OpenOf(r, "live")
        BY <1>5, <2>1, InsertOpens
      <3> QED BY <3>1, <3>2
    <2>2. \A r : Firing(r)' <=> Firing(r)
      BY <1>2 DEF Firing
    <2> QED BY <1>2, <1>5, <2>1, <2>2, BooksStay
  <1> QED BY <1>6, <1>7, <1>9, <1>10

\* A close, seen from rows and review.
LEMMA RowCloses ==
  ASSUME StoreInv,
         NEW i \in Open, NEW exit \in Exits, Close(i, exit),
         UNCHANGED <<clock, cycle>>
  PROVE  RowsTyped' /\ Closed(i) /\ RowInv' /\ Reviewed'
  <1> USE DEF StoreInv
  <1>1. RowsTyped' /\ Closed(i)
    BY CloseRows DEF Shaped, Open
  <1>2. RowInv' /\ PastKept
    BY <1>1, CloseKeepsOrder, CloseKeepsPast
  <1>3. Reviewed'
    <2>1. \A j \in DOMAIN store' :
            j \in DOMAIN store /\ store[j].id = store'[j].id /\ store[j].mode = store'[j].mode
      BY <1>1 DEF Closed
    <2> QED BY <1>2, <2>1, ReviewStands DEF Underway
  <1> QED BY <1>1, <1>2, <1>3

LEMMA PaperCloseStep ==
  ASSUME StoreInv, NEW i \in DOMAIN store, PaperClose(i)
  PROVE  StoreInv'
  <1> USE DEF StoreInv
  <1>1. PICK exit \in PaperExits : Close(i, exit)
    BY DEF PaperClose
  <1>2. /\ i \in Open /\ exit \in Exits /\ store[i].mode = "paper"
        /\ UNCHANGED <<exch, clock, cycle, unrecorded, overwritten, untracked>>
    BY DEF PaperClose, Exits, books
  <1>3. RowsTyped' /\ Closed(i) /\ RowInv' /\ Reviewed'
    BY <1>1, <1>2, RowCloses
  <1>4. Shaped'
    BY <1>2, <1>3 DEF Shaped
  <1>5. Balanced'
    <2>1. ASSUME NEW r PROVE OpenOf(r, "live")' = OpenOf(r, "live")
      <3>1. i \notin OpenOf(r, "live")
        BY <1>2 DEF OpenOf
      <3> QED BY <1>3, <3>1, CloseEnds DEF RowInv
    <2>2. \A r : Firing(r)' <=> Firing(r)
      BY <1>2 DEF Firing
    <2> QED BY <1>2, <2>1, <2>2, BooksStay
  <1> QED BY <1>3, <1>4, <1>5

LEMMA TriggerStep ==
  ASSUME StoreInv, NEW s \in Symbols, Trigger(s)
  PROVE  StoreInv'
  <1> USE DEF StoreInv
  <1>1. UNCHANGED <<store, clock, cycle, overwritten, untracked>>
    BY DEF Trigger
  <1>2. /\ exch' \in [Symbols -> Nat] /\ unrecorded' \in [Symbols -> Nat]
        /\ \A r \in Symbols : exch'[r] + unrecorded'[r] = exch[r] + unrecorded[r]
    <2>1. exch[s] \in Nat /\ exch[s] > 0
      BY DEF Trigger, Shaped
    <2> QED BY <2>1 DEF Trigger, Shaped
  <1>3. PastKept
    BY <1>1 DEF PastKept, Shaped
  <1>4. Shaped'
    BY <1>1, <1>2 DEF Shaped, RowsTyped
  <1>5. RowInv'
    BY <1>1, <1>3, TimeKeepsOrder
  <1>6. Reviewed'
    BY <1>1, <1>3, ReviewStands DEF Underway
  <1>7. Balanced'
    <2>1. \A r : OpenOf(r, "live")' = OpenOf(r, "live") /\ (Firing(r)' <=> Firing(r))
      BY <1>1 DEF OpenOf, Open, Firing
    <2> QED BY <1>1, <1>2, <2>1, BooksStay
  <1> QED BY <1>4, <1>5, <1>6, <1>7

\* What the rows tell of, when a live row is closed.
LEMMA RowEnds ==
  ASSUME RowInv, NEW i \in Open, Closed(i), store[i].mode = "live", cycle' = cycle, NEW r
  PROVE  Told(r)' = Told(r) - (IF r = store[i].id.symbol THEN 1 ELSE 0)
  <1>1. Firing(r)' <=> Firing(r)
    BY DEF Firing
  <1>2. CASE r = store[i].id.symbol
    <2>1. i \in OpenOf(r, "live")
      BY <1>2 DEF OpenOf
    <2>2. OpenOf(r, "live")' = {} /\ OpenOf(r, "live") # {}
      BY <2>1, CloseEnds DEF RowInv
    <2> QED BY <1>1, <1>2, <2>2 DEF Told
  <1>3. CASE r # store[i].id.symbol
    <2>1. i \notin OpenOf(r, "live")
      BY <1>3 DEF OpenOf
    <2>2. OpenOf(r, "live")' = OpenOf(r, "live")
      BY <2>1, CloseEnds DEF RowInv
    <2>3. Told(r)' = Told(r) /\ Told(r) \in Nat
      BY <1>1, <2>2, ToldIs DEF Told
    <2> QED BY <1>3, <2>3
  <1> QED BY <1>2, <1>3

LEMMA SyncCloseStep ==
  ASSUME StoreInv, NEW i \in DOMAIN store, SyncClose(i)
  PROVE  StoreInv'
  <1> USE DEF StoreInv
  <1> DEFINE s == store[i].id.symbol
  <1>1. PICK exit \in ScriptExits : Close(i, exit)
    BY DEF SyncClose
  <1>2. /\ i \in Open /\ exit \in Exits /\ store[i].mode = "live"
        /\ UNCHANGED <<exch, clock, cycle, overwritten, untracked>>
    BY DEF SyncClose, Exits
  <1>3. unrecorded[s] > 0 /\ unrecorded' = [unrecorded EXCEPT ![s] = @ - 1]
    BY DEF SyncClose
  <1>4. RowsTyped' /\ Closed(i) /\ RowInv' /\ Reviewed'
    BY <1>1, <1>2, RowCloses
  <1>5. /\ unrecorded' \in [Symbols -> Nat]
        /\ \A r \in Symbols :
             unrecorded'[r] = IF r = s THEN unrecorded[r] - 1 ELSE unrecorded[r]
    <2> HIDE DEF s
    <2>1. unrecorded \in [Symbols -> Nat]
      BY DEF Shaped
    <2>2. \A r \in Symbols :
            unrecorded'[r] = IF r = s THEN unrecorded[r] - 1 ELSE unrecorded[r]
      BY <1>3, <2>1
    <2>3. \A r \in Symbols : unrecorded'[r] \in Nat
      BY <1>3, <2>1, <2>2
    <2> QED BY <1>3, <2>1, <2>2, <2>3
  <1>6. Shaped'
    BY <1>2, <1>4, <1>5 DEF Shaped
  <1>7. Balanced'
    <2> SUFFICES ASSUME NEW r \in Symbols \ overwritten'
                 PROVE  exch'[r] + unrecorded'[r] = Told(r)' + untracked'[r]
      BY DEF Balanced
    <2>1. exch[r] + unrecorded[r] = Told(r) + untracked[r] /\ untracked'[r] = untracked[r]
      BY <1>2 DEF Balanced
    <2>2. exch'[r] = exch[r]
      BY <1>2
    <2>3. exch[r] \in Nat /\ unrecorded[r] \in Nat /\ untracked[r] \in Nat /\ Told(r) \in Nat
      BY ToldIs DEF Shaped
    <2>4. Told(r)' = Told(r) - (IF r = s THEN 1 ELSE 0)
      BY <1>2, <1>4, RowEnds
    <2>5. unrecorded'[r] = unrecorded[r] - (IF r = s THEN 1 ELSE 0)
      BY <1>5, <2>3
    <2> HIDE DEF s
    <2> QED BY <2>1, <2>2, <2>3, <2>4, <2>5
  <1> QED BY <1>4, <1>6, <1>7

\* The row is one told of no more: a close of the exchange is told of then, or what
\* the exchange holds is no longer.
LEMMA MarkClosedStep ==
  ASSUME StoreInv, NEW i \in DOMAIN store, MarkClosed(i)
  PROVE  StoreInv'
  <1> USE DEF StoreInv
  <1> DEFINE s == store[i].id.symbol
  <1>1. /\ Close(i, "emergency_exit") /\ "emergency_exit" \in Exits
        /\ i \in Open /\ store[i].mode = "live"
        /\ UNCHANGED <<exch, clock, cycle, overwritten>>
    BY DEF MarkClosed, Exits
  <1>2. \/ /\ unrecorded[s] > 0
           /\ unrecorded' = [unrecorded EXCEPT ![s] = @ - 1]
           /\ untracked' = untracked
        \/ /\ untracked' = [untracked EXCEPT ![s] = @ + 1]
           /\ unrecorded' = unrecorded
    BY DEF MarkClosed
  <1>3. RowsTyped' /\ Closed(i) /\ RowInv' /\ Reviewed'
    BY <1>1, RowCloses
  <1>4. /\ unrecorded' \in [Symbols -> Nat] /\ untracked' \in [Symbols -> Nat]
        /\ \A r \in Symbols :
             unrecorded'[r] - untracked'[r]
               = unrecorded[r] - untracked[r] - (IF r = s THEN 1 ELSE 0)
    <2> HIDE DEF s
    <2>1. unrecorded \in [Symbols -> Nat] /\ untracked \in [Symbols -> Nat]
      BY DEF Shaped
    <2>2. CASE /\ unrecorded[s] > 0
               /\ unrecorded' = [unrecorded EXCEPT ![s] = @ - 1]
               /\ untracked' = untracked
      <3>1. \A r \in Symbols :
              /\ unrecorded[r] \in Nat /\ untracked[r] \in Nat
              /\ unrecorded'[r] = IF r = s THEN unrecorded[r] - 1 ELSE unrecorded[r]
              /\ unrecorded'[r] \in Nat
        BY <2>1, <2>2
      <3>2. unrecorded' \in [Symbols -> Nat]
        BY <2>1, <2>2, <3>1
      <3>3. \A r \in Symbols :
              unrecorded'[r] - untracked[r]
                = unrecorded[r] - untracked[r] - (IF r = s THEN 1 ELSE 0)
        BY <3>1
      <3> QED BY <2>1, <2>2, <3>2, <3>3
    <2>3. CASE /\ untracked' = [untracked EXCEPT ![s] = @ + 1]
               /\ unrecorded' = unrecorded
      <3>1. \A r \in Symbols :
              /\ unrecorded[r] \in Nat /\ untracked[r] \in Nat
              /\ untracked'[r] = IF r = s THEN untracked[r] + 1 ELSE untracked[r]
              /\ untracked'[r] \in Nat
        BY <2>1, <2>3
      <3>2. untracked' \in [Symbols -> Nat]
        BY <2>1, <2>3, <3>1
      <3>3. \A r \in Symbols :
              unrecorded[r] - untracked'[r]
                = unrecorded[r] - untracked[r] - (IF r = s THEN 1 ELSE 0)
        BY <3>1
      <3> QED BY <2>1, <2>3, <3>2, <3>3
    <2> QED BY <1>2, <2>2, <2>3
  <1>5. Shaped'
    BY <1>1, <1>3, <1>4 DEF Shaped
  <1>6. Balanced'
    <2> SUFFICES ASSUME NEW r \in Symbols \ overwritten'
                 PROVE  exch'[r] + unrecorded'[r] = Told(r)' + untracked'[r]
      BY DEF Balanced
    <2>1. exch[r] + unrecorded[r] = Told(r) + untracked[r]
      BY <1>1 DEF Balanced
    <2>2. exch'[r] = exch[r]
      BY <1>1
    <2>3. /\ exch[r] \in Nat /\ unrecorded[r] \in Nat /\ untracked[r] \in Nat /\ Told(r) \in Nat
          /\ unrecorded'[r] \in Nat /\ untracked'[r] \in Nat
      BY <1>4, ToldIs DEF Shaped
    <2>4. Told(r)' = Told(r) - (IF r = s THEN 1 ELSE 0)
      BY <1>1, <1>3, RowEnds
    <2>5. unrecorded'[r] - untracked'[r]
            = unrecorded[r] - untracked[r] - (IF r = s THEN 1 ELSE 0)
      BY <1>4
    <2> HIDE DEF s
    <2> QED BY <2>1, <2>2, <2>3, <2>4, <2>5
  <1> QED BY <1>3, <1>5, <1>6

\* What the exchange holds and no row tells of comes or goes.
LEMMA StrayBooks ==
  ASSUME StoreInv, UNCHANGED <<store, clock, unrecorded, overwritten>>,
         exch' \in [Symbols -> Nat], untracked' \in [Symbols -> Nat],
         \A r \in Symbols : exch'[r] - untracked'[r] = exch[r] - untracked[r],
         \A r : Firing(r)' <=> Firing(r),
         cycle' = [stage |-> cycle'.stage, held |-> cycle'.held, queue |-> cycle'.queue,
                   opened |-> cycle'.opened],
         Underway' => Underway /\ cycle'.queue = cycle.queue
  PROVE  StoreInv'
  <1> USE DEF StoreInv
  <1>1. PastKept
    BY DEF PastKept, Shaped
  <1>3. Shaped'
    BY DEF Shaped, RowsTyped
  <1>4. RowInv'
    BY <1>1, TimeKeepsOrder
  <1>5. Reviewed'
    BY <1>1, ReviewStands
  <1>6. Balanced'
    <2> SUFFICES ASSUME NEW r \in Symbols \ overwritten'
                 PROVE  exch'[r] + unrecorded'[r] = Told(r)' + untracked'[r]
      BY DEF Balanced
    <2>1. exch[r] + unrecorded[r] = Told(r) + untracked[r]
      BY DEF Balanced
    <2>2. Told(r)' = Told(r) /\ Told(r) \in Nat
      <3>1. OpenOf(r, "live")' = OpenOf(r, "live")
        BY DEF OpenOf, Open
      <3> QED BY <3>1, ToldIs DEF Told
    <2>3. /\ exch[r] \in Nat /\ unrecorded[r] \in Nat /\ untracked[r] \in Nat
          /\ exch'[r] \in Nat /\ untracked'[r] \in Nat /\ unrecorded'[r] = unrecorded[r]
      BY DEF Shaped
    <2>4. exch'[r] - untracked'[r] = exch[r] - untracked[r]
      OBVIOUS
    <2>5. PICK n \in Nat : n = Told(r)
      BY <2>2
    <2>6. Told(r)' = n
      BY <2>2, <2>5
    <2>7. exch'[r] + unrecorded[r] = n + untracked'[r]
      BY <2>1, <2>3, <2>4, <2>5
    <2> QED BY <2>3, <2>6, <2>7
  <1> QED BY <1>3, <1>4, <1>5, <1>6

\* A fill no row will tell of adds as much to the one as to the other.
LEMMA OneUnseen ==
  ASSUME StoreInv, NEW s, Unseen(s)
  PROVE  /\ exch' \in [Symbols -> Nat] /\ untracked' \in [Symbols -> Nat]
         /\ \A r \in Symbols : exch'[r] - untracked'[r] = exch[r] - untracked[r]
  <1>1. exch \in [Symbols -> Nat] /\ untracked \in [Symbols -> Nat]
    BY DEF StoreInv, Shaped
  <1>2. exch' = [exch EXCEPT ![s] = @ + 1] /\ untracked' = [untracked EXCEPT ![s] = @ + 1]
    BY DEF Unseen
  <1>3. \A r \in Symbols :
          /\ exch[r] \in Nat /\ untracked[r] \in Nat
          /\ exch'[r] = IF r = s THEN exch[r] + 1 ELSE exch[r]
          /\ untracked'[r] = IF r = s THEN untracked[r] + 1 ELSE untracked[r]
    BY <1>1, <1>2
  <1>4. \A r \in Symbols : exch'[r] \in Nat /\ untracked'[r] \in Nat
    BY <1>3
  <1>5. \A r \in Symbols : exch'[r] - untracked'[r] = exch[r] - untracked[r]
    BY <1>3
  <1> QED BY <1>1, <1>2, <1>4, <1>5

LEMMA FireUnseenStep ==
  ASSUME StoreInv, FireUnseen
  PROVE  StoreInv'
  <1>1. /\ Unseen(Head(cycle.queue))
        /\ UNCHANGED <<store, clock, unrecorded, overwritten>>
        /\ cycle.stage = "cleared" /\ cycle' = Down
    BY DEF FireUnseen, Unseen
  <1>2. /\ cycle'.stage = "down"
        /\ cycle' = [stage |-> cycle'.stage, held |-> cycle'.held, queue |-> cycle'.queue,
                     opened |-> cycle'.opened]
    BY <1>1 DEF Down
  <1>3. ~Underway' /\ \A r : Firing(r)' <=> Firing(r)
    BY <1>1, <1>2 DEF Underway, Firing
  <1> QED BY <1>1, <1>2, <1>3, OneUnseen, StrayBooks

LEMMA UntrackedStep ==
  ASSUME StoreInv, NEW s \in Symbols, UntrackedFill(s) \/ UntrackedEnds(s)
  PROVE  StoreInv'
  <1>1. UNCHANGED <<store, clock, cycle, unrecorded, overwritten>>
    BY DEF UntrackedFill, UntrackedEnds, Unseen
  <1>2. /\ \A r : Firing(r)' <=> Firing(r)
        /\ cycle' = [stage |-> cycle'.stage, held |-> cycle'.held, queue |-> cycle'.queue,
                     opened |-> cycle'.opened]
        /\ Underway' => Underway /\ cycle'.queue = cycle.queue
    BY <1>1 DEF Firing, Underway, StoreInv, Shaped
  <1>3. ASSUME UntrackedEnds(s)
        PROVE  /\ exch' \in [Symbols -> Nat] /\ untracked' \in [Symbols -> Nat]
               /\ \A r \in Symbols : exch'[r] - untracked'[r] = exch[r] - untracked[r]
    <2>1. exch \in [Symbols -> Nat] /\ untracked \in [Symbols -> Nat]
      BY DEF StoreInv, Shaped
    <2>2. /\ exch[s] > 0 /\ untracked[s] > 0
          /\ exch' = [exch EXCEPT ![s] = @ - 1] /\ untracked' = [untracked EXCEPT ![s] = @ - 1]
      BY <1>3 DEF UntrackedEnds
    <2>3. \A r \in Symbols :
            /\ exch[r] \in Nat /\ untracked[r] \in Nat
            /\ exch'[r] = IF r = s THEN exch[r] - 1 ELSE exch[r]
            /\ untracked'[r] = IF r = s THEN untracked[r] - 1 ELSE untracked[r]
      BY <2>1, <2>2
    <2>4. \A r \in Symbols : exch'[r] \in Nat /\ untracked'[r] \in Nat
      BY <2>2, <2>3
    <2>5. \A r \in Symbols : exch'[r] - untracked'[r] = exch[r] - untracked[r]
      BY <2>3
    <2> QED BY <2>1, <2>2, <2>4, <2>5
  <1>4. UntrackedFill(s) => Unseen(s)
    BY DEF UntrackedFill
  <1> QED BY <1>1, <1>2, <1>3, <1>4, OneUnseen, StrayBooks

LEMMA TickStep ==
  ASSUME StoreInv, Tick \/ UNCHANGED ssVars
  PROVE  StoreInv'
  <1> USE DEF StoreInv
  <1>1. /\ UNCHANGED <<store, exch, cycle, unrecorded, overwritten, untracked>>
        /\ clock' = clock \/ clock' = clock + 1
    BY DEF Tick, books, ssVars
  <1>2. PastKept
    BY <1>1 DEF PastKept, Shaped
  <1>3. Shaped'
    BY <1>1 DEF Shaped, RowsTyped
  <1>4. RowInv'
    BY <1>1, <1>2, TimeKeepsOrder
  <1>5. Reviewed'
    BY <1>1, <1>2, ReviewStands DEF Underway
  <1>6. Balanced'
    <2>1. \A r : OpenOf(r, "live")' = OpenOf(r, "live") /\ (Firing(r)' <=> Firing(r))
      BY <1>1 DEF OpenOf, Open, Firing
    <2> QED BY <1>1, <2>1, BooksStay
  <1> QED BY <1>3, <1>4, <1>5, <1>6

\* Every step of cycle, store and exchange keeps the store's invariant.
LEMMA StoreStep ==
  ASSUME StoreInv, [SSNext]_ssVars
  PROVE  StoreInv'
  <1>1. CASE Start \/ Assemble \/ Review \/ Skip \/ End
    BY <1>1, CycleSteps
  <1>2. CASE Fire
    BY <1>2, FireStep
  <1>3. CASE Persist
    BY <1>3, PersistStep
  <1>4. ASSUME NEW s \in Symbols, PaperInsert(s) PROVE StoreInv'
    BY <1>4, PaperOpenStep
  <1>5. ASSUME NEW s \in Symbols, Trigger(s) PROVE StoreInv'
    BY <1>5, TriggerStep
  <1>6. ASSUME NEW i \in DOMAIN store, PaperClose(i) PROVE StoreInv'
    BY <1>6, PaperCloseStep
  <1>7. ASSUME NEW i \in DOMAIN store, SyncClose(i) PROVE StoreInv'
    BY <1>7, SyncCloseStep
  <1>8. CASE Tick \/ UNCHANGED ssVars
    BY <1>8, TickStep
  <1>9. CASE FireUnseen
    BY <1>9, FireUnseenStep
  <1>10. ASSUME NEW s \in Symbols, UntrackedFill(s) \/ UntrackedEnds(s) PROVE StoreInv'
    BY <1>10, UntrackedStep
  <1>11. ASSUME NEW i \in DOMAIN store, MarkClosed(i) PROVE StoreInv'
    BY <1>11, MarkClosedStep
  <1> QED BY <1>1, <1>2, <1>3, <1>4, <1>5, <1>6, <1>7, <1>8, <1>9, <1>10, <1>11 DEF SSNext

\* In every reachable state the rows are in order, the review under way stands and
\* position, closes and rows add up.
THEOREM StoreInvariant == SSSpec => []StoreInv
  <1>1. SSInit => StoreInv
    BY InitStore
  <1>2. StoreInv /\ [SSNext]_ssVars => StoreInv'
    BY StoreStep
  <1> QED BY <1>1, <1>2, PTL DEF SSSpec

\* Balanced books leave no other cause.
LEMMA DirtyFollows ==
  ASSUME StoreInv
  PROVE  DirtyExplained
  <1> USE DEF StoreInv
  <1> DEFINE listed == {[n |-> i, symbol |-> store[i].id.symbol, size |-> 1] : i \in Open}
  <1> SUFFICES ASSUME NEW s \in Mismatched(listed, exch), OpenOf(s, "paper") = {},
                      ~Firing(s), ~(unrecorded[s] > 0), s \notin overwritten,
                      ~(untracked[s] > 0)
               PROVE  FALSE
    BY DEF DirtyExplained, Firing
  <1>1. s \in Symbols
    BY DEF Mismatched, MissingOnExchange, Differing, MissingLocally
  <1>2. exch[s] \in Nat /\ unrecorded[s] = 0 /\ untracked[s] = 0
    BY <1>1 DEF Shaped
  <1>3. exch[s] = IF OpenOf(s, "live") = {} THEN 0 ELSE 1
    BY <1>1, <1>2, ToldIs DEF Balanced
  <1>4. \A i \in Open : store[i].id.symbol = s => i \in OpenOf(s, "live")
    <2>1. \A i \in DOMAIN store : store[i].mode = "live" \/ store[i].mode = "paper"
      BY StoreIsSeq DEF Shaped, Modes
    <2> QED BY <2>1 DEF OpenOf, Open
  <1>5. \A r \in RowsOf(listed, s) : r.size = 1 /\ OpenOf(s, "live") # {}
    BY <1>4 DEF RowsOf
  <1>6. ASSUME NEW i \in OpenOf(s, "live") PROVE RowsOf(listed, s) # {}
    <2> DEFINE r == [n |-> i, symbol |-> store[i].id.symbol, size |-> 1]
    <2>1. i \in Open /\ store[i].id.symbol = s
      BY <1>6 DEF OpenOf
    <2>2. r \in listed /\ r.symbol = s
      BY <2>1
    <2> QED BY <2>2 DEF RowsOf
  <1>7. CASE OpenOf(s, "live") = {}
    <2>1. exch[s] = 0 /\ RowsOf(listed, s) = {}
      BY <1>3, <1>5, <1>7
    <2> HIDE DEF listed
    <2> QED BY <2>1 DEF Mismatched, MissingOnExchange, Differing, MissingLocally
  <1>8. CASE OpenOf(s, "live") # {}
    <2>1. /\ exch[s] = 1 /\ RowsOf(listed, s) # {}
          /\ \A r \in RowsOf(listed, s) : r.size = 1
      BY <1>3, <1>5, <1>6, <1>8
    <2> HIDE DEF listed
    <2> QED BY <2>1 DEF Mismatched, MissingOnExchange, Differing, MissingLocally
  <1> QED BY <1>7, <1>8

\* reconcile() of the shared file: every mismatch has one of the named causes, a
\* position no row tells of among them.
THEOREM DirtyStoreExplained == SSSpec => []DirtyExplained
  BY StoreInvariant, DirtyFollows, PTL

\* An order for a symbol goes out only from a review that still stands.
LEMMA FireFollows ==
  ASSUME StoreInv, [SSNext]_ssVars, NEW s \in Symbols, exch'[s] > exch[s], cycle' # cycle,
         NEW i \in ClosedOf(s), store[i].mode = "live", Hot(i)
  PROVE  Excused(i)
  <1> USE DEF StoreInv
  <1>1. exch \in [Symbols -> Nat] /\ exch' # exch
    BY DEF Shaped
  <1>2. CASE Fire \/ FireUnseen
    <2>1. cycle.stage = "cleared" /\ exch' = [exch EXCEPT ![Head(cycle.queue)] = @ + 1]
      BY <1>2 DEF Fire, FireUnseen, Unseen
    <2>2. s = Head(cycle.queue)
      <3> DEFINE h == Head(cycle.queue)
      <3>1. exch' = [exch EXCEPT ![h] = @ + 1]
        BY <2>1
      <3> HIDE DEF h
      <3>2. s = h
        BY <1>1, <3>1
      <3> QED BY <3>2 DEF h
    <2>3. i \in Live(Head(cycle.queue))
      BY <2>2 DEF Live, ClosedOf
    <2> QED BY <2>1, <2>3 DEF Reviewed, Underway, Cold
  <1>3. ASSUME NEW r \in Symbols, Trigger(r) \/ UntrackedFill(r) \/ UntrackedEnds(r)
        PROVE  FALSE
    BY <1>3 DEF Trigger, UntrackedFill, UntrackedEnds
  <1>4. CASE \/ Start \/ Assemble \/ Review \/ Skip \/ Persist
             \/ End \/ Tick
             \/ UNCHANGED ssVars
    BY <1>1, <1>4 DEF Start, Assemble, Review, Skip, Persist, End,
                      Tick, ssVars
  <1>5. ASSUME NEW r \in Symbols, PaperInsert(r) PROVE FALSE
    BY <1>1, <1>5 DEF PaperInsert
  <1>6. ASSUME NEW j \in DOMAIN store, PaperClose(j) \/ MarkClosed(j) \/ SyncClose(j)
        PROVE  FALSE
    BY <1>1, <1>6 DEF PaperClose, MarkClosed, SyncClose
  <1> QED BY <1>2, <1>3, <1>4, <1>5, <1>6 DEF SSNext

\* The cycle opens no symbol again while a live close of it is hot, unless a paper
\* trade of it has ended since.
THEOREM HotSymbolsNeedPaper == SSSpec => ReentryNeedsPaper
  <1>1. StoreInv /\ [SSNext]_ssVars =>
          [\A s \in Symbols : exch'[s] > exch[s] /\ cycle' # cycle =>
             \A i \in ClosedOf(s) : store[i].mode = "live" /\ Hot(i) =>
               \E j \in ClosedOf(s) :
                 store[j].mode = "paper" /\ store[j].closed >= store[i].closed]_ssVars
    <2> SUFFICES ASSUME StoreInv, [SSNext]_ssVars, NEW s \in Symbols, exch'[s] > exch[s],
                        cycle' # cycle, NEW i \in ClosedOf(s), store[i].mode = "live", Hot(i)
                 PROVE  \E j \in ClosedOf(s) :
                          store[j].mode = "paper" /\ store[j].closed >= store[i].closed
      OBVIOUS
    <2>1. Excused(i) /\ store[i].id.symbol = s
      BY FireFollows DEF ClosedOf
    <2> QED BY <2>1 DEF Excused
  <1> QED BY <1>1, StoreInvariant, PTL DEF SSSpec, ReentryNeedsPaper


-----------------------------------------------------------------------------
(* The rows are of symbols after all.  The candidates of a cycle are lists    *)
(* made of others by picking places, and the numbers a cycle gives its        *)
(* entries stay within the file's length because each is in some row's id.    *)

PickedBy(f, S, list, places) ==
  /\ f \in [0 .. Len(list) -> Seq(S)]
  /\ f[0] = <<>>
  /\ \A i \in 1 .. Len(list) :
       f[i] = IF i \in places THEN Append(f[i - 1], list[i]) ELSE f[i - 1]
  /\ At(list, places) = f[Len(list)]

\* Picking places one after another.
LEMMA AtDef ==
  ASSUME NEW S, NEW list \in Seq(S), NEW places
  PROVE  \E f : PickedBy(f, S, list, places)
  <1> DEFINE n == Len(list)
             step == [p \in (1 .. n) \X Seq(S) |->
                        IF p[1] \in places THEN Append(p[2], list[p[1]]) ELSE p[2]]
             Picks(f) == f = [i \in 0 .. n |->
                                IF i = 0 THEN <<>>
                                ELSE IF i \in places THEN Append(f[i - 1], list[i]) ELSE f[i - 1]]
             picks == CHOOSE f : Picks(f)
  <1>1. n \in Nat /\ \A i \in 1 .. n : list[i] \in S
    OBVIOUS
  <1>2. At(list, places) = picks[n]
    BY DEF At
  <1> HIDE DEF n
  <1>3. \A i \in 1 .. n, x \in Seq(S) : Append(x, list[i]) \in Seq(S)
    BY <1>1, AppendProperties
  <1>4. step \in StepFunctions(n, Seq(S))
    BY <1>3 DEF StepFunctions
  <1>5. \A i \in 1 .. n, x \in Seq(S) :
          step[<<i, x>>] = IF i \in places THEN Append(x, list[i]) ELSE x
    OBVIOUS
  <1> HIDE DEF step
  <1>6. PICK f : Follows(f, n, Seq(S), <<>>, step)
    <2>1. <<>> \in Seq(S)
      OBVIOUS
    <2> QED BY <1>1, <1>4, <2>1, Recursion
  <1>7. Picks(f)
    <2> DEFINE h == [i \in 0 .. n |->
                       IF i = 0 THEN <<>>
                       ELSE IF i \in places THEN Append(f[i - 1], list[i]) ELSE f[i - 1]]
    <2>1. ASSUME NEW i \in 0 .. n PROVE f[i] = h[i]
      <3>1. CASE i = 0
        BY <1>6, <3>1 DEF Follows
      <3>2. CASE i # 0
        <4>1. i \in 1 .. n /\ i - 1 \in 0 .. n
          BY <1>1, <3>2
        <4> QED BY <1>5, <1>6, <3>2, <4>1 DEF Follows
      <3> QED BY <3>1, <3>2
    <2>2. h = [i \in 0 .. n |-> h[i]]
      OBVIOUS
    <2> HIDE DEF h
    <2>3. f = h
      BY <1>6, <2>1, <2>2 DEF Follows
    <2> QED BY <2>3 DEF h
  <1>8. Picks(picks)
    <2> HIDE DEF Picks
    <2> QED BY <1>7
  <1> HIDE DEF picks
  <1>9. picks = [i \in 0 .. n |->
                   IF i = 0 THEN <<>>
                   ELSE IF i \in places THEN Append(picks[i - 1], list[i]) ELSE picks[i - 1]]
    BY <1>8
  <1>10. /\ picks[0] = <<>>
         /\ \A i \in 1 .. n :
              picks[i] = IF i \in places THEN Append(picks[i - 1], list[i]) ELSE picks[i - 1]
    <2>1. picks[0] = <<>>
      <3>1. 0 \in 0 .. n
        BY <1>1
      <3> QED BY <1>9, <3>1
    <2>2. ASSUME NEW i \in 1 .. n
          PROVE  picks[i] = IF i \in places THEN Append(picks[i - 1], list[i]) ELSE picks[i - 1]
      <3>1. i \in 0 .. n /\ i # 0
        BY <1>1
      <3> QED BY <1>9, <3>1
    <2> QED BY <2>1, <2>2
  <1>11. \A i \in 0 .. n : picks[i] \in Seq(S)
    <2> DEFINE M == {m \in Nat : m <= n => picks[m] \in Seq(S)}
    <2>1. 0 \in M
      <3>1. picks[0] \in Seq(S)
        BY <1>10, EmptySeq
      <3> QED BY <3>1
    <2>2. ASSUME NEW m \in Nat, m \in M PROVE m + 1 \in M
      <3>1. SUFFICES ASSUME m + 1 <= n PROVE picks[m + 1] \in Seq(S)
        OBVIOUS
      <3>2. m + 1 \in 1 .. n /\ (m + 1) - 1 = m /\ picks[m] \in Seq(S)
        BY <1>1, <2>2, <3>1
      <3> QED BY <1>3, <1>10, <3>2
    <2>3. Nat \subseteq M
      <3> HIDE DEF M
      <3> QED BY <2>1, <2>2, SetInduction
    <2> QED BY <1>1, <2>3
  <1>12. picks \in [0 .. n -> Seq(S)]
    BY <1>9, <1>11
  <1>13. PickedBy(picks, S, list, places)
    BY <1>2, <1>10, <1>12 DEF PickedBy, n
  <1> QED BY <1>13

\* What is picked is what lies at these places, and once each if it lies there once.
LEMMA AtKeeps ==
  ASSUME NEW S, NEW list \in Seq(S), NEW places,
         \A i, j \in places \cap (1 .. Len(list)) : list[i] = list[j] => i = j
  PROVE  /\ At(list, places) \in Seq(S) /\ IsInjective(At(list, places))
         /\ \A k \in 1 .. Len(At(list, places)) :
              \E i \in places \cap (1 .. Len(list)) : At(list, places)[k] = list[i]
  <1> DEFINE n == Len(list)
             Picked(x, m) ==
               \A k \in 1 .. Len(x) : \E i \in places \cap (1 .. m) : x[k] = list[i]
  <1>0. PICK f : PickedBy(f, S, list, places)
    BY AtDef
  <1>1. n \in Nat /\ \A i \in 1 .. n : list[i] \in S
    OBVIOUS
  <1>2. /\ f \in [0 .. n -> Seq(S)]
        /\ f[0] = <<>>
        /\ \A i \in 1 .. n :
             f[i] = IF i \in places THEN Append(f[i - 1], list[i]) ELSE f[i - 1]
        /\ At(list, places) = f[n]
    BY <1>0 DEF PickedBy
  <1> HIDE DEF n
  <1> DEFINE M == {m \in Nat : m <= n => IsInjective(f[m]) /\ Picked(f[m], m)}
  <1>3. 0 \in M
    BY <1>2 DEF IsInjective
  <1>4. ASSUME NEW m \in Nat, m \in M PROVE m + 1 \in M
    <2>1. SUFFICES ASSUME m + 1 <= n PROVE IsInjective(f[m + 1]) /\ Picked(f[m + 1], m + 1)
      OBVIOUS
    <2> DEFINE x == f[m]
               y == f[m + 1]
    <2>2. m \in 0 .. n /\ m + 1 \in 1 .. n /\ (m + 1) - 1 = m
      BY <1>1, <2>1
    <2>3. x \in Seq(S) /\ IsInjective(x) /\ Picked(x, m)
      BY <1>2, <1>4, <2>1, <2>2
    <2>4. y = IF m + 1 \in places THEN Append(x, list[m + 1]) ELSE x
      BY <1>2, <2>2
    <2>5. Len(x) \in Nat /\ DOMAIN x = 1 .. Len(x)
      BY <2>3, LenProperties
    <2> HIDE DEF x, y
    <2>6. CASE m + 1 \notin places
      <3>1. y = x
        BY <2>4, <2>6
      <3>2. places \cap (1 .. m) \subseteq places \cap (1 .. m + 1)
        OBVIOUS
      <3>3. Picked(y, m + 1)
        BY <2>3, <3>1, <3>2
      <3> QED BY <2>3, <3>1, <3>3 DEF y
    <2>7. CASE m + 1 \in places
      <3> DEFINE c == list[m + 1]
      <3>1. c \in S
        BY <1>1, <2>2
      <3>2. y = Append(x, c)
        BY <2>4, <2>7
      <3> HIDE DEF c
      <3>3. /\ y \in Seq(S) /\ Len(y) = Len(x) + 1
            /\ \A k \in 1 .. Len(x) : y[k] = x[k]
            /\ y[Len(x) + 1] = c
        BY <2>3, <3>1, <3>2, AppendProperties
      <3>4. DOMAIN y = 1 .. Len(x) + 1
        BY <3>3, LenProperties
      <3>5. ASSUME NEW k \in 1 .. Len(x) PROVE y[k] = x[k] /\ x[k] # c
        <4>1. PICK i \in places \cap (1 .. m) : x[k] = list[i]
          BY <2>3
        <4>2. i # m + 1 /\ i \in 1 .. n /\ m + 1 \in 1 .. n
          <5>1. i \in 1 .. m /\ m \in Nat /\ n \in Nat /\ m + 1 <= n
            BY <1>1, <2>1
          <5> QED BY <5>1
        <4>3. list[i] # list[m + 1]
          BY <2>7, <4>2 DEF n
        <4> QED BY <3>3, <4>1, <4>3 DEF c
      <3>6. IsInjective(y)
        <4>1. \A a, b \in 1 .. Len(x) : x[a] = x[b] => a = b
          BY <2>3, <2>5 DEF IsInjective
        <4>2. ASSUME NEW a \in 1 .. Len(x) + 1, NEW b \in 1 .. Len(x) + 1, y[a] = y[b]
              PROVE  a = b
          <5>1. \/ a \in 1 .. Len(x) /\ b \in 1 .. Len(x)
                \/ a \in 1 .. Len(x) /\ b = Len(x) + 1
                \/ a = Len(x) + 1 /\ b \in 1 .. Len(x)
                \/ a = b
            BY <2>5
          <5> QED BY <3>3, <3>5, <4>1, <4>2, <5>1
        <4> QED BY <3>4, <4>2 DEF IsInjective
      <3>7. Picked(y, m + 1)
        <4>1. ASSUME NEW k \in 1 .. Len(y)
              PROVE  \E i \in places \cap (1 .. m + 1) : y[k] = list[i]
          <5>1. CASE k = Len(x) + 1
            <6>1. m + 1 \in places \cap (1 .. m + 1) /\ y[k] = list[m + 1]
              BY <2>7, <3>3, <5>1 DEF c
            <6> QED BY <6>1
          <5>2. CASE k # Len(x) + 1
            <6>1. k \in 1 .. Len(x)
              BY <2>5, <3>3, <5>2
            <6>2. PICK i \in places \cap (1 .. m) : x[k] = list[i]
              BY <2>3, <6>1
            <6>3. i \in places \cap (1 .. m + 1)
              OBVIOUS
            <6> QED BY <3>3, <6>1, <6>2, <6>3
          <5> QED BY <5>1, <5>2
        <4> QED BY <4>1
      <3> QED BY <3>6, <3>7 DEF y
    <2> QED BY <2>6, <2>7
  <1>5. n \in M
    <2>1. Nat \subseteq M
      <3> HIDE DEF M
      <3> QED BY <1>3, <1>4, SetInduction
    <2> QED BY <1>1, <2>1
  <1>6. f[n] \in Seq(S) /\ IsInjective(f[n]) /\ Picked(f[n], n)
    BY <1>1, <1>2, <1>5
  <1> QED BY <1>2, <1>6 DEF n

\* The candidates are symbols, each once: of the watchlist the first entry of each
\* counts, and the screener's are left out where the watchlist has them.
LEMMA CandidatesOnce ==
  ASSUME NEW screen \in Screens, NEW list \in Watchlists, NEW held, NEW known
  PROVE  LET queue == Prepended(PrioritySymbols(list, held), screen, known)
         IN  queue \in Seq(Symbols) /\ IsInjective(queue)
  <1> DEFINE Entries == [symbol: Symbols, high: BOOLEAN, sided: BOOLEAN, expires: Nat]
             wanted == {i \in DOMAIN list : /\ list[i].high /\ list[i].sided
                                            /\ list[i].expires > clock
                                            /\ list[i].symbol \notin held}
             first == {i \in wanted : \A j \in wanted : j < i => list[j].symbol # list[i].symbol}
             names == [i \in DOMAIN list |-> list[i].symbol]
             priority == PrioritySymbols(list, held)
             found == {i \in DOMAIN priority : priority[i] \in Range(screen) \cup known}
             rest == {i \in DOMAIN screen : screen[i] \notin Range(priority)}
             a == At(priority, found)
             b == At(screen, rest)
  <1>1. screen \in Seq(Symbols) /\ IsInjective(screen) /\ list \in Seq(Entries)
    BY SharedStoreAssumption
  <1>2. Len(list) \in Nat /\ DOMAIN list = 1 .. Len(list)
        /\ \A i \in 1 .. Len(list) : list[i] \in Entries
    BY <1>1, LenProperties, ElementOfSeq
  <1>3. names \in Seq(Symbols) /\ Len(names) = Len(list)
    <2>1. names \in [1 .. Len(list) -> Symbols]
      BY <1>2
    <2>2. names \in Seq(Symbols)
      BY <1>2, <2>1
    <2> HIDE DEF names
    <2> QED BY <1>2, <2>1, <2>2
  <1>4. \A i, j \in first \cap (1 .. Len(names)) : names[i] = names[j] => i = j
    <2>1. ASSUME NEW i \in first, NEW j \in first, names[i] = names[j] PROVE i = j
      <3>1. i \in 1 .. Len(list) /\ j \in 1 .. Len(list) /\ list[i].symbol = list[j].symbol
        BY <1>2, <2>1
      <3>2. ~(i < j) /\ ~(j < i)
        BY <3>1
      <3> QED BY <1>2, <3>1, <3>2
    <2> QED BY <2>1
  <1>5. priority = At(names, first)
    BY DEF PrioritySymbols
  <1> HIDE DEF names, first, priority
  <1>6. priority \in Seq(Symbols) /\ IsInjective(priority)
    BY <1>3, <1>4, <1>5, AtKeeps
  <1>7. /\ DOMAIN priority = 1 .. Len(priority) /\ DOMAIN screen = 1 .. Len(screen)
        /\ \A i \in 1 .. Len(priority) : priority[i] \in Range(priority)
    <2>1. DOMAIN priority = 1 .. Len(priority) /\ DOMAIN screen = 1 .. Len(screen)
      BY <1>1, <1>6, LenProperties
    <2>2. \A i \in DOMAIN priority : priority[i] \in Range(priority)
      BY DEF Range
    <2> QED BY <2>1, <2>2
  <1>8. /\ a \in Seq(Symbols) /\ IsInjective(a)
        /\ \A k \in 1 .. Len(a) : \E i \in found \cap (1 .. Len(priority)) : a[k] = priority[i]
    <2>1. \A i, j \in found \cap (1 .. Len(priority)) : priority[i] = priority[j] => i = j
      BY <1>6, <1>7 DEF IsInjective
    <2> HIDE DEF found
    <2> QED BY <1>6, <2>1, AtKeeps
  <1>9. /\ b \in Seq(Symbols) /\ IsInjective(b)
        /\ \A k \in 1 .. Len(b) : \E i \in rest \cap (1 .. Len(screen)) : b[k] = screen[i]
    <2>1. \A i, j \in rest \cap (1 .. Len(screen)) : screen[i] = screen[j] => i = j
      BY <1>1, <1>7 DEF IsInjective
    <2> HIDE DEF rest
    <2> QED BY <1>1, <2>1, AtKeeps
  <1>10. \A k \in 1 .. Len(a) : a[k] \in Range(priority)
    BY <1>7, <1>8
  <1>11. \A k \in 1 .. Len(b) : b[k] \notin Range(priority)
    BY <1>9
  <1>12. Prepended(priority, screen, known) = a \o b
    BY DEF Prepended
  <1> HIDE DEF a, b
  <1>13. /\ Len(a) \in Nat /\ DOMAIN a = 1 .. Len(a) /\ Len(b) \in Nat /\ DOMAIN b = 1 .. Len(b)
    BY <1>8, <1>9, LenProperties
  <1>14. /\ a \o b \in Seq(Symbols) /\ Len(a \o b) = Len(a) + Len(b)
         /\ \A i \in 1 .. Len(a) + Len(b) :
              (a \o b)[i] = IF i <= Len(a) THEN a[i] ELSE b[i - Len(a)]
    BY <1>8, <1>9, ConcatProperties
  <1>15. DOMAIN (a \o b) = 1 .. Len(a) + Len(b)
    BY <1>14, LenProperties
  <1>16. ASSUME NEW i \in 1 .. Len(a) + Len(b), NEW j \in 1 .. Len(a) + Len(b),
                (a \o b)[i] = (a \o b)[j]
         PROVE  i = j
    <2>1. CASE i <= Len(a) /\ j <= Len(a)
      <3>1. i \in DOMAIN a /\ j \in DOMAIN a /\ a[i] = a[j]
        BY <1>13, <1>14, <1>16, <2>1
      <3> QED BY <1>8, <3>1 DEF IsInjective
    <2>2. CASE ~(i <= Len(a)) /\ ~(j <= Len(a))
      <3>1. i - Len(a) \in DOMAIN b /\ j - Len(a) \in DOMAIN b /\ b[i - Len(a)] = b[j - Len(a)]
        BY <1>13, <1>14, <1>16, <2>2
      <3>2. i - Len(a) = j - Len(a)
        BY <1>9, <3>1 DEF IsInjective
      <3> QED BY <1>13, <3>2
    <2>3. CASE i <= Len(a) /\ ~(j <= Len(a))
      <3>1. i \in 1 .. Len(a) /\ j - Len(a) \in 1 .. Len(b) /\ a[i] = b[j - Len(a)]
        BY <1>13, <1>14, <1>16, <2>3
      <3> QED BY <1>10, <1>11, <3>1
    <2>4. CASE ~(i <= Len(a)) /\ j <= Len(a)
      <3>1. j \in 1 .. Len(a) /\ i - Len(a) \in 1 .. Len(b) /\ a[j] = b[i - Len(a)]
        BY <1>13, <1>14, <1>16, <2>4
      <3> QED BY <1>10, <1>11, <3>1
    <2> QED BY <2>1, <2>2, <2>3, <2>4
  <1>17. IsInjective(a \o b)
    BY <1>15, <1>16 DEF IsInjective
  <1> QED BY <1>12, <1>14, <1>17 DEF priority

\* What the file and the cycle hold, and that the numbers of the cycle's entries
\* are in the rows' ids.
Numbered == \A n \in 1 .. cycle.opened : \E i \in DOMAIN store : store[i].id.seq = n

Queued ==
  /\ cycle.stage \in {"down", "screening", "loop", "cleared", "filled"}
  /\ cycle.held \subseteq Symbols
  /\ cycle.queue \in Seq(Symbols) /\ IsInjective(cycle.queue)
  /\ cycle.stage \in {"cleared", "filled"} => cycle.queue # <<>>
  /\ cycle.opened \in Nat

Filed ==
  /\ store \in Seq(Rows) /\ clock \in Times /\ overwritten \subseteq Symbols
  /\ Queued /\ Numbered
  /\ Len(store) <= MaxRows + 1
  /\ cycle.stage = "filled" => Len(store) <= MaxRows

\* Of the first m values of a function, the first n numbers each are one.
Covers(f, m, n) == \A q \in 1 .. n : \E i \in 1 .. m : f[i] = q

\* Different numbers are in different places.
LEMMA NumbersBounded ==
  ASSUME NEW n \in Nat, NEW m \in Nat, NEW f, Covers(f, m, n)
  PROVE  n <= m
  <1> DEFINE D == 1 .. m
             g == [i \in D |-> f[i]]
             R == {g[i] : i \in D}
  <1>1. IsFiniteSet(1 .. m) /\ Cardinality(1 .. m) = m
    BY FS_Interval
  <1>2. IsFiniteSet(1 .. n) /\ Cardinality(1 .. n) = n
    BY FS_Interval
  <1>3. g \in Surjection(D, R)
    BY DEF Surjection
  <1>4. 1 .. n \subseteq R
    BY DEF Covers
  <1>5. IsFiniteSet(R) /\ Cardinality(R) <= m
    <2> HIDE DEF g, R
    <2> QED BY <1>1, <1>3, FS_Surjection
  <1>6. Cardinality(1 .. n) <= Cardinality(R)
    <2> HIDE DEF R
    <2> QED BY <1>4, <1>5, FS_Subset
  <1>7. Cardinality(R) \in Nat
    <2> HIDE DEF R
    <2> QED BY <1>5, FS_CardinalityType
  <1> HIDE DEF R, g
  <1> QED BY <1>2, <1>5, <1>6, <1>7

LEMMA OpenedBounded ==
  ASSUME Filed
  PROVE  cycle.opened \in Nat /\ Len(store) \in Nat /\ cycle.opened <= Len(store)
  <1> DEFINE n == cycle.opened
             m == Len(store)
             f == [i \in DOMAIN store |-> store[i].id.seq]
  <1>1. n \in Nat /\ m \in Nat /\ DOMAIN store = 1 .. m
    BY LenProperties DEF Filed, Queued
  <1>2. Covers(f, m, n)
    BY <1>1 DEF Filed, Numbered, Covers
  <1> HIDE DEF n, m, f
  <1>3. n <= m
    BY <1>1, <1>2, NumbersBounded
  <1> QED BY <1>1, <1>3 DEF n, m

LEMMA FiledInit == SSInit => Filed
  <1> SUFFICES ASSUME SSInit PROVE Filed
    OBVIOUS
  <1>1. MaxTime \in Nat /\ MaxRows \in Nat
    BY SharedStoreAssumption
  <1>2. store \in Seq(Rows) /\ Len(store) = 0
    BY DEF SSInit
  <1>3. clock \in Times /\ overwritten \subseteq Symbols
    BY <1>1 DEF SSInit, Times
  <1>4. cycle.opened = 0 /\ cycle.stage = "down" /\ cycle.held = {} /\ cycle.queue = <<>>
    BY DEF SSInit, Down
  <1>5. Queued /\ Numbered
    BY <1>4 DEF Queued, Numbered, IsInjective
  <1> QED BY <1>1, <1>2, <1>3, <1>4, <1>5 DEF Filed

\* An insertion of a typed row.
LEMMA InsertTyped ==
  ASSUME store \in Seq(Rows), clock \in Times, overwritten \subseteq Symbols,
         NEW s \in Symbols, NEW seq \in 1 .. MaxRows + 1, NEW mode \in Modes,
         Insert(s, seq, mode)
  PROVE  /\ store' \in Seq(Rows) /\ Len(store') <= Len(store) + 1 /\ Len(store') \in Nat
         /\ overwritten' \subseteq Symbols
         /\ \A i \in DOMAIN store : i \in DOMAIN store' /\ store'[i].id = store[i].id
         /\ \E k \in DOMAIN store' : store'[k].id.seq = seq
  <1> DEFINE new == [id |-> Id(s, seq), mode |-> mode, exit |-> "none", closed |-> 0]
             same == {i \in DOMAIN store : store[i].id = new.id}
  <1>1. Len(store) \in Nat /\ DOMAIN store = 1 .. Len(store)
        /\ \A i \in 1 .. Len(store) : store[i] \in Rows
    BY LenProperties, ElementOfSeq
  <1>2. /\ new \in Rows /\ new.id.seq = seq
    <2>1. Id(s, seq) \in Ids /\ Id(s, seq).seq = seq
      BY DEF Id, Ids
    <2>2. 0 \in Times
      BY SharedStoreAssumption DEF Times
    <2> QED BY <2>1, <2>2 DEF Rows
  <1>3. /\ store' = IF same = {} THEN Append(store, new)
                    ELSE [i \in DOMAIN store |-> IF i \in same THEN new ELSE store[i]]
        /\ overwritten' =
             overwritten \cup {store[i].id.symbol : i \in same \cap OpenOf(s, "live")}
    BY DEF Insert
  <1>4. overwritten' \subseteq Symbols
    BY <1>1, <1>3 DEF Rows, Ids
  <1>5. \A i \in same : i \in 1 .. Len(store) /\ store[i].id = new.id
    BY <1>1
  <1> HIDE DEF new
  <1>6. CASE same = {}
    <2>1. store' = Append(store, new)
      BY <1>3, <1>6
    <2>2. /\ store' \in Seq(Rows) /\ Len(store') = Len(store) + 1
          /\ \A i \in 1 .. Len(store) : store'[i] = store[i]
          /\ store'[Len(store) + 1] = new
      BY <1>2, <2>1, AppendProperties
    <2>3. DOMAIN store' = 1 .. Len(store) + 1
      BY <2>2, LenProperties
    <2>4. \A i \in DOMAIN store : i \in DOMAIN store' /\ store'[i].id = store[i].id
      BY <1>1, <2>2, <2>3
    <2>5. Len(store) + 1 \in DOMAIN store' /\ store'[Len(store) + 1].id.seq = seq
      BY <1>1, <1>2, <2>2, <2>3
    <2> QED BY <1>1, <1>4, <2>2, <2>4, <2>5
  <1>7. CASE same # {}
    <2> HIDE DEF same
    <2>1. store' = [i \in 1 .. Len(store) |-> IF i \in same THEN new ELSE store[i]]
      BY <1>1, <1>3, <1>7
    <2>2. store' \in [1 .. Len(store) -> Rows]
      BY <1>1, <1>2, <2>1
    <2>3. store' \in Seq(Rows) /\ DOMAIN store' = 1 .. Len(store)
      BY <1>1, <2>2
    <2>4. Len(store') = Len(store)
      BY <1>1, <2>3, LenProperties
    <2>5. \A i \in DOMAIN store : i \in DOMAIN store' /\ store'[i].id = store[i].id
      BY <1>1, <1>5, <2>1, <2>3
    <2>6. PICK k \in same : TRUE
      BY <1>7
    <2>7. k \in DOMAIN store' /\ store'[k].id.seq = seq
      BY <1>2, <1>5, <2>1, <2>3, <2>6
    <2> QED BY <1>1, <1>4, <2>3, <2>4, <2>5, <2>7
  <1> QED BY <1>6, <1>7

\* Rows that stay keep the numbers.
LEMMA NumbersStay ==
  ASSUME Numbered, cycle' = cycle,
         \A i \in DOMAIN store : i \in DOMAIN store' /\ store'[i].id = store[i].id
  PROVE  Numbered'
  <1> SUFFICES ASSUME NEW n \in 1 .. cycle.opened
               PROVE  \E i \in DOMAIN store' : store'[i].id.seq = n
    BY DEF Numbered
  <1>1. PICK i \in DOMAIN store : store[i].id.seq = n
    BY DEF Numbered
  <1> QED BY <1>1

\* The rest of a queue without repetition has none.
LEMMA TailInjective ==
  ASSUME NEW q \in Seq(Symbols), q # <<>>, IsInjective(q)
  PROVE  Head(q) \in Symbols /\ Tail(q) \in Seq(Symbols) /\ IsInjective(Tail(q))
  <1>1. /\ Head(q) \in Symbols /\ Tail(q) \in Seq(Symbols) /\ Len(Tail(q)) = Len(q) - 1
        /\ \A i \in 1 .. Len(Tail(q)) : Tail(q)[i] = q[i + 1]
    BY HeadTailProperties
  <1> DEFINE r == Tail(q)
  <1>2. /\ Len(q) \in Nat /\ DOMAIN q = 1 .. Len(q)
        /\ Len(r) \in Nat /\ DOMAIN r = 1 .. Len(r)
    BY <1>1, LenProperties
  <1> HIDE DEF r
  <1>3. ASSUME NEW i \in DOMAIN r, NEW j \in DOMAIN r, r[i] = r[j] PROVE i = j
    <2>1. i + 1 \in DOMAIN q /\ j + 1 \in DOMAIN q /\ q[i + 1] = q[j + 1]
      BY <1>1, <1>2, <1>3 DEF r
    <2>2. i + 1 = j + 1
      BY <2>1 DEF IsInjective
    <2> QED BY <1>2, <2>2
  <1> QED BY <1>1, <1>3 DEF IsInjective, r

\* The steps of the cycle that leave the file alone.
LEMMA CycleTyped ==
  ASSUME Filed, Shaped, Start \/ Assemble \/ Review \/ Skip \/ End
  PROVE  Filed'
  <1>1. UNCHANGED <<store, exch, clock, unrecorded, overwritten>>
    BY DEF Start, Assemble, Review, Skip, End, books
  <1>2. Queued
    BY DEF Filed
  <1> DEFINE fine == Queued' /\ Numbered' /\ cycle'.stage # "filled"
  <1>3. ASSUME cycle'.opened = 0, Queued', cycle'.stage # "filled" PROVE fine
    BY <1>3 DEF Numbered
  <1>4. ASSUME cycle'.opened = cycle.opened, Queued', cycle'.stage # "filled" PROVE fine
    BY <1>1, <1>4 DEF Numbered, Filed
  <1>5. ASSUME Start PROVE fine
    <2>1. cycle' = [Down EXCEPT !.stage = "screening", !.held = OpenSymbols]
      BY <1>5 DEF Start
    <2>2. OpenSymbols \subseteq Symbols
      <3>1. \A i \in DOMAIN store : store[i] \in Rows
        BY ElementOfSeq, LenProperties DEF Filed
      <3>2. \A i \in DOMAIN store : store[i].id.symbol \in Symbols
        BY <3>1 DEF Rows, Ids
      <3> QED BY <3>2 DEF OpenSymbols, Open
    <2>3. /\ cycle'.stage = "screening" /\ cycle'.held = OpenSymbols /\ cycle'.queue = <<>>
          /\ cycle'.opened = 0
      BY <2>1 DEF Down
    <2>4. Queued'
      BY <2>2, <2>3 DEF Queued, IsInjective
    <2> QED BY <1>3, <2>3, <2>4
  <1>6. ASSUME Assemble PROVE fine
    <2>1. PICK screen \in Screens, list \in Watchlists, known \in SUBSET Symbols :
            cycle' = [cycle EXCEPT !.stage = "loop", !.held = {},
                       !.queue = Prepended(PrioritySymbols(list, cycle.held), screen, known)]
      BY <1>6 DEF Assemble
    <2> DEFINE q == Prepended(PrioritySymbols(list, cycle.held), screen, known)
    <2>2. q \in Seq(Symbols) /\ IsInjective(q)
      BY CandidatesOnce
    <2> HIDE DEF q
    <2>3. /\ cycle'.stage = "loop" /\ cycle'.held = {} /\ cycle'.queue = q
          /\ cycle'.opened = cycle.opened
      BY <2>1 DEF q, Shaped
    <2>4. Queued'
      BY <1>2, <2>2, <2>3 DEF Queued
    <2> QED BY <1>4, <2>3, <2>4
  <1>7. ASSUME Review PROVE fine
    <2>1. cycle.queue # <<>> /\ cycle' = [cycle EXCEPT !.stage = "cleared"]
      BY <1>7 DEF Review
    <2>2. /\ cycle'.stage = "cleared" /\ cycle'.held = cycle.held /\ cycle'.queue = cycle.queue
          /\ cycle'.opened = cycle.opened
      BY <2>1 DEF Shaped
    <2>3. Queued'
      BY <1>2, <2>1, <2>2 DEF Queued
    <2> QED BY <1>4, <2>2, <2>3
  <1>8. ASSUME Skip PROVE fine
    <2>1. cycle.queue # <<>> /\ cycle' = NextCandidate
      BY <1>2, <1>8 DEF Skip, Queued
    <2>2. /\ cycle'.stage = "loop" /\ cycle'.held = cycle.held /\ cycle'.queue = Tail(cycle.queue)
          /\ cycle'.opened = cycle.opened
      BY <2>1 DEF Shaped, NextCandidate
    <2>3. Queued'
      BY <1>2, <2>1, <2>2, TailInjective DEF Queued
    <2> QED BY <1>4, <2>2, <2>3
  <1>9. ASSUME End PROVE fine
    <2>1. /\ cycle'.stage = "down" /\ cycle'.held = {} /\ cycle'.queue = <<>>
          /\ cycle'.opened = 0
      BY <1>9 DEF End, Down
    <2>2. Queued'
      BY <2>1 DEF Queued, IsInjective
    <2> QED BY <1>3, <2>1, <2>2
  <1>10. fine
    BY <1>5, <1>6, <1>7, <1>8, <1>9
  <1> QED BY <1>1, <1>10 DEF Filed

\* A fill, which finds room in the file, ...
LEMMA FireTyped ==
  ASSUME Filed, Shaped, Fire
  PROVE  Filed'
  <1>1. /\ UNCHANGED <<store, clock, overwritten>> /\ Len(store) < MaxRows
        /\ cycle.stage = "cleared"
        /\ cycle'.stage = "filled" /\ cycle'.held = cycle.held /\ cycle'.queue = cycle.queue
        /\ cycle'.opened = cycle.opened
    BY DEF Fire, books, Shaped
  <1>2. Queued' /\ Numbered'
    BY <1>1 DEF Filed, Queued, Numbered
  <1>3. Len(store) \in Nat /\ MaxRows \in Nat
    BY LenProperties, SharedStoreAssumption DEF Filed
  <1> QED BY <1>1, <1>2, <1>3 DEF Filed

\* ... a fill that is not seen, ...
LEMMA UnseenTyped ==
  ASSUME Filed, Shaped, FireUnseen
  PROVE  Filed'
  <1>1. UNCHANGED <<store, clock, overwritten>> /\ cycle' = Down
    BY DEF FireUnseen, Unseen
  <1>2. /\ cycle'.stage = "down" /\ cycle'.held = {} /\ cycle'.queue = <<>>
        /\ cycle'.opened = 0
    BY <1>1 DEF Down
  <1>3. Queued' /\ Numbered'
    BY <1>2 DEF Queued, Numbered, IsInjective
  <1> QED BY <1>1, <1>2, <1>3 DEF Filed

\* ... and its row.
LEMMA PersistTyped ==
  ASSUME Filed, Shaped, Persist
  PROVE  Filed'
  <1> DEFINE n == cycle.opened + 1
  <1>1. /\ clock' = clock /\ cycle.stage = "filled" /\ Insert(Head(cycle.queue), n, "live")
        /\ cycle' = [NextCandidate EXCEPT !.opened = @ + 1]
    BY DEF Persist
  <1>2. cycle.queue \in Seq(Symbols) /\ cycle.queue # <<>> /\ IsInjective(cycle.queue)
        /\ cycle.held \subseteq Symbols
    BY <1>1 DEF Filed, Queued
  <1>3. /\ Head(cycle.queue) \in Symbols /\ Tail(cycle.queue) \in Seq(Symbols)
        /\ IsInjective(Tail(cycle.queue))
    BY <1>2, TailInjective
  <1>4. /\ cycle.opened \in Nat /\ Len(store) \in Nat /\ cycle.opened <= Len(store)
        /\ Len(store) <= MaxRows /\ MaxRows \in Nat
    BY <1>1, OpenedBounded, SharedStoreAssumption DEF Filed
  <1>5. n \in 1 .. MaxRows + 1 /\ "live" \in Modes
    BY <1>4 DEF Modes
  <1>6. /\ store' \in Seq(Rows) /\ Len(store') <= Len(store) + 1 /\ Len(store') \in Nat
        /\ overwritten' \subseteq Symbols
        /\ \A i \in DOMAIN store : i \in DOMAIN store' /\ store'[i].id = store[i].id
        /\ \E k \in DOMAIN store' : store'[k].id.seq = n
    <2> HIDE DEF n
    <2> QED BY <1>1, <1>3, <1>5, InsertTyped DEF Filed
  <1>7. /\ cycle'.stage = "loop" /\ cycle'.held = cycle.held
        /\ cycle'.queue = Tail(cycle.queue) /\ cycle'.opened = n
    BY <1>1 DEF NextCandidate, Shaped
  <1>8. Queued'
    BY <1>2, <1>3, <1>4, <1>7 DEF Queued
  <1>9. Numbered'
    <2> SUFFICES ASSUME NEW q \in 1 .. n PROVE \E i \in DOMAIN store' : store'[i].id.seq = q
      BY <1>7 DEF Numbered
    <2>1. CASE q = n
      BY <1>6, <2>1
    <2>2. CASE q # n
      <3>1. q \in 1 .. cycle.opened
        BY <1>4, <2>2
      <3>2. PICK i \in DOMAIN store : store[i].id.seq = q
        BY <3>1 DEF Filed, Numbered
      <3> QED BY <1>6, <3>2
    <2> QED BY <2>1, <2>2
  <1> QED BY <1>1, <1>4, <1>6, <1>7, <1>8, <1>9 DEF Filed

LEMMA PaperTyped ==
  ASSUME Filed, NEW s \in Symbols, PaperInsert(s)
  PROVE  Filed'
  <1>1. PICK seq \in PaperSeqs : Insert(s, seq, "paper")
    BY DEF PaperInsert
  <1>2. UNCHANGED <<clock, cycle>> /\ Len(store) < MaxRows
    BY DEF PaperInsert
  <1>3. /\ Len(store) \in Nat /\ MaxRows \in Nat /\ seq \in 1 .. MaxRows + 1
        /\ "paper" \in Modes
    BY LenProperties, SharedStoreAssumption DEF Filed, Modes
  <1>4. /\ store' \in Seq(Rows) /\ Len(store') <= Len(store) + 1 /\ Len(store') \in Nat
        /\ overwritten' \subseteq Symbols
        /\ \A i \in DOMAIN store : i \in DOMAIN store' /\ store'[i].id = store[i].id
    BY <1>1, <1>3, InsertTyped DEF Filed
  <1>5. Numbered' /\ Queued'
    BY <1>2, <1>4, NumbersStay DEF Filed, Queued
  <1> QED BY <1>2, <1>3, <1>4, <1>5 DEF Filed

\* The end of a position, on the exchange or by the watcher.
LEMMA CloseTyped ==
  ASSUME Filed, NEW i \in DOMAIN store, NEW exit \in Exits, Close(i, exit),
         UNCHANGED <<clock, cycle, overwritten>>
  PROVE  Filed'
  <1>1. /\ Len(store) \in Nat /\ DOMAIN store = 1 .. Len(store)
        /\ \A j \in 1 .. Len(store) : store[j] \in Rows
        /\ clock \in Times
    BY LenProperties, ElementOfSeq DEF Filed
  <1> DEFINE r == [store[i] EXCEPT !.exit = exit, !.closed = clock]
  <1>2. r \in Rows /\ r.id = store[i].id
    BY <1>1 DEF Rows
  <1>3. store' = [store EXCEPT ![i] = r]
    BY <1>1 DEF Close, Rows
  <1> HIDE DEF r
  <1>4. store' \in [1 .. Len(store) -> Rows]
    BY <1>1, <1>2, <1>3
  <1>5. store' \in Seq(Rows) /\ DOMAIN store' = 1 .. Len(store)
    BY <1>1, <1>4
  <1>6. Len(store') = Len(store)
    BY <1>1, <1>5, LenProperties
  <1>7. \A j \in DOMAIN store : j \in DOMAIN store' /\ store'[j].id = store[j].id
    BY <1>1, <1>2, <1>3, <1>5
  <1>8. Numbered' /\ Queued'
    BY <1>7, NumbersStay DEF Filed, Queued
  <1> QED BY <1>5, <1>6, <1>8 DEF Filed

\* Every step keeps what file and cycle hold.
LEMMA FiledStep ==
  ASSUME Filed, Shaped, [SSNext]_ssVars
  PROVE  Filed'
  <1>1. CASE Start \/ Assemble \/ Review \/ Skip \/ End
    BY <1>1, CycleTyped
  <1>2. CASE Fire
    BY <1>2, FireTyped
  <1>3. CASE Persist
    BY <1>3, PersistTyped
  <1>4. ASSUME NEW s \in Symbols, PaperInsert(s) PROVE Filed'
    BY <1>4, PaperTyped
  <1>5. ASSUME NEW i \in DOMAIN store, PaperClose(i) \/ MarkClosed(i) \/ SyncClose(i)
        PROVE  Filed'
    <2>1. /\ \E exit \in Exits : Close(i, exit)
          /\ UNCHANGED <<clock, cycle, overwritten>>
      BY <1>5 DEF PaperClose, MarkClosed, SyncClose, Exits, books
    <2> QED BY <2>1, CloseTyped
  <1>6. ASSUME UNCHANGED <<store, cycle, overwritten>>, clock' \in Times PROVE Filed'
    BY <1>6 DEF Filed, Queued, Numbered
  <1>7. ASSUME NEW s \in Symbols, Trigger(s) \/ UntrackedFill(s) \/ UntrackedEnds(s)
        PROVE  Filed'
    BY <1>6, <1>7 DEF Trigger, UntrackedFill, UntrackedEnds, Unseen, Filed
  <1>8. CASE Tick
    <2>1. clock' \in Times
      BY <1>8, SharedStoreAssumption DEF Tick, Times, Filed
    <2> QED BY <1>6, <1>8, <2>1 DEF Tick, books
  <1>9. CASE UNCHANGED ssVars
    BY <1>6, <1>9 DEF ssVars, Filed
  <1>10. CASE FireUnseen
    BY <1>10, UnseenTyped
  <1> QED BY <1>1, <1>2, <1>3, <1>4, <1>5, <1>7, <1>8, <1>9, <1>10 DEF SSNext

\* The shared file never holds two rows of one id nor more of them than its bound,
\* whatever live cycle, paper cycle, watcher and scripts do between each other's
\* steps, and the cycle's candidates are symbols of which each comes once.
THEOREM SharedTypeCorrect == SSSpec => []SSTypeOK
  <1>1. StoreInv /\ Filed => SSTypeOK
    <2> SUFFICES ASSUME StoreInv, Filed PROVE SSTypeOK
      OBVIOUS
    <2>1. cycle.opened \in 0 .. MaxRows + 1
      <3>1. MaxRows \in Nat
        BY SharedStoreAssumption
      <3>2. Len(store) <= MaxRows + 1
        BY DEF Filed
      <3> QED BY <3>1, <3>2, OpenedBounded
    <2> QED BY <2>1 DEF StoreInv, Shaped, RowInv, Unique, Filed, Queued, SSTypeOK
  <1>2. StoreInv /\ Filed /\ [SSNext]_ssVars => Filed'
    BY FiledStep DEF StoreInv
  <1> QED BY <1>1, <1>2, FiledInit, StoreInvariant, PTL DEF SSSpec
=============================================================================

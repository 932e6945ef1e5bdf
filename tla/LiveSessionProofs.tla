------------------------- MODULE LiveSessionProofs -------------------------
(***************************************************************************)
(* Proofs about LiveSession and the sizing of Admission, for all prices,   *)
(* filters, budgets and rates: what size_from_risk() computes by rounding, *)
(* bumping and capping is the largest quantity that fits, and no session   *)
(* fills an order unasked before its user has approved one.                *)
(***************************************************************************)
EXTENDS LiveSession, FiniteSetTheorems, TLAPS

-----------------------------------------------------------------------------
(* Arithmetic. *)

\* Products are monotone, and what is monotone can be turned round.
LEMMA Products ==
  ASSUME NEW a \in Nat, NEW b \in Nat, NEW m \in Nat
  PROVE  /\ a * m \in Nat /\ b * m \in Nat
         /\ a <= b => a * m <= b * m
         /\ a * m < b * m => a < b
  <1>1. a * m \in Nat /\ b * m \in Nat
    OBVIOUS
  <1>2. ASSUME NEW x \in Nat, NEW y \in Nat, x <= y PROVE x * m <= y * m
    <2>1. PICK d \in Nat : y = x + d
      <3>1. y - x \in Nat /\ y = x + (y - x)
        BY <1>2
      <3> QED BY <3>1
    <2>2. y * m = x * m + d * m /\ d * m \in Nat /\ x * m \in Nat
      BY <2>1
    <2> QED BY <2>2
  <1>3. a * m < b * m => a < b
    <2>1. b <= a => b * m <= a * m
      BY <1>2
    <2> QED BY <1>1, <2>1
  <1> QED BY <1>1, <1>2, <1>3

\* Whole quotients.
LEMMA Quotient ==
  ASSUME NEW n \in Nat, NEW d \in Nat \ {0}
  PROVE  /\ n \div d \in Nat
         /\ (n \div d) * d <= n
         /\ n < (n \div d + 1) * d
  <1>1. n \div d \in Int /\ n = d * (n \div d) + (n % d) /\ n % d \in 0 .. d - 1
    OBVIOUS
  <1>2. n \div d \in Nat
    OBVIOUS
  <1>3. d * (n \div d) = (n \div d) * d /\ (n \div d + 1) * d = (n \div d) * d + d
    BY <1>2
  <1> QED BY <1>1, <1>2, <1>3

\* Multiples of a step are products with it.
LEMMA Multiples ==
  ASSUME NEW step \in Nat \ {0}
  PROVE  /\ \A k \in Nat : (k * step) % step = 0
         /\ \A q \in Nat : q % step = 0 => \E k \in Nat : q = k * step
  <1>1. ASSUME NEW k \in Nat PROVE (k * step) % step = 0
    OBVIOUS
  <1>2. ASSUME NEW q \in Nat, q % step = 0 PROVE \E k \in Nat : q = k * step
    <2>1. q \div step \in Nat /\ q = step * (q \div step) + (q % step)
      OBVIOUS
    <2>2. q = (q \div step) * step
      BY <1>2, <2>1
    <2> QED BY <2>1, <2>2
  <1> QED BY <1>1, <1>2

\* Rounding down gives the largest multiple of the step within the budget.
LEMMA FloorIsLargest ==
  ASSUME NEW num \in Nat, NEW den \in Nat \ {0}, NEW step \in Nat \ {0}
  PROVE  LET f == FloorTo(num, den, step)
         IN  /\ f \in Nat /\ f % step = 0 /\ f * den <= num
             /\ \A q \in Nat : q % step = 0 /\ q * den <= num => q <= f
  <1> DEFINE d == den * step
             k == num \div d
             f == k * step
  <1>1. d \in Nat \ {0}
    <2>1. den * step > 0
      BY Products
    <2> QED BY <2>1
  <1>2. k \in Nat /\ k * d <= num /\ num < (k + 1) * d
    <2> HIDE DEF d
    <2> QED BY <1>1, Quotient
  <1> HIDE DEF k
  <1>3. f \in Nat /\ f % step = 0
    BY <1>2, Multiples
  <1>4. f * den = k * d
    BY <1>2
  <1>5. ASSUME NEW q \in Nat, q % step = 0, q * den <= num
        PROVE  q <= f
    <2>1. PICK m \in Nat : q = m * step
      BY <1>5, Multiples
    <2>2. q * den = m * d
      BY <2>1
    <2>3. m * d < (k + 1) * d
      <3>1. m * d \in Nat /\ (k + 1) * d \in Nat
        BY <1>1, <1>2
      <3> QED BY <1>2, <1>5, <2>2, <3>1
    <2>4. m < k + 1
      <3> HIDE DEF d
      <3>1. k + 1 \in Nat /\ d \in Nat
        BY <1>1, <1>2
      <3> QED BY <2>3, <3>1, Products
    <2>5. m <= k
      BY <1>2, <2>4
    <2> QED BY <1>2, <2>1, <2>5, Products
  <1>6. FloorTo(num, den, step) = f
    BY DEF FloorTo, k
  <1> HIDE DEF f, d
  <1>7. f * den <= num
    BY <1>2, <1>4
  <1> QED BY <1>3, <1>5, <1>6, <1>7

\* Rounding up reaches the amount, with a multiple of the step.
LEMMA CeilReaches ==
  ASSUME NEW num \in Nat, NEW den \in Nat \ {0}, NEW step \in Nat \ {0}
  PROVE  LET f == CeilTo(num, den, step)
         IN  f \in Nat /\ f % step = 0 /\ f * den >= num
  <1> DEFINE d == den * step
             k == (num + d - 1) \div d
             f == k * step
  <1>1. d \in Nat \ {0}
    <2>1. den * step > 0
      BY Products
    <2> QED BY <2>1
  <1>2. k \in Nat /\ num + d - 1 < (k + 1) * d
    <2> HIDE DEF d
    <2>1. num + d - 1 \in Nat
      BY <1>1
    <2> QED BY <1>1, <2>1, Quotient
  <1> HIDE DEF k
  <1>3. f \in Nat /\ f % step = 0
    BY <1>2, Multiples
  <1>4. k * d >= num
    <2> HIDE DEF d
    <2>1. (k + 1) * d = k * d + d /\ k * d \in Nat
      BY <1>1, <1>2
    <2> QED BY <1>1, <1>2, <2>1
  <1>5. f * den = k * d
    BY <1>2
  <1>6. CeilTo(num, den, step) = f
    BY DEF CeilTo, k
  <1> HIDE DEF f, d
  <1> QED BY <1>3, <1>4, <1>5, <1>6

-----------------------------------------------------------------------------
(* Candidates. *)

\* A spec is what exchangeInfo may say.
LEMMA SpecTyped ==
  ASSUME NEW s \in Specs
  PROVE  /\ s.tick \in Nat \ {0} /\ s.step \in Nat \ {0}
         /\ s.minNotional \in Nat
BY AdmissionAssumption

\* The prices of a candidate are natural numbers.
LEMMA CandidateTyped ==
  ASSUME NEW c \in Candidates
  PROVE  /\ c.spec \in Specs /\ c.side \in {"LONG", "SHORT"}
         /\ c.entry \in Nat /\ c.stop \in Nat /\ c.tp \in Nat
  <1>1. PICK s \in Specs, side \in {"LONG", "SHORT"}, e \in Raw, x \in Raw, t \in Raw :
               c = Rounded(s, side, e, x, t)
    BY DEF Candidates
  <1>2. s.tick \in Nat \ {0} /\ e \in Nat /\ x \in Nat /\ t \in Nat
    BY SpecTyped, AdmissionAssumption DEF Raw
  <1>3. /\ FloorTo(e, 1, s.tick) \in Nat /\ FloorTo(x, 1, s.tick) \in Nat
        /\ FloorTo(t, 1, s.tick) \in Nat /\ CeilTo(x, 1, s.tick) \in Nat
        /\ CeilTo(t, 1, s.tick) \in Nat
    <2>1. \A n \in Nat : FloorTo(n, 1, s.tick) \in Nat
      BY <1>2, FloorIsLargest
    <2>2. \A n \in Nat : CeilTo(n, 1, s.tick) \in Nat
      BY <1>2, CeilReaches
    <2> QED BY <1>2, <2>1, <2>2
  <1> QED BY <1>1, <1>3 DEF Rounded

\* A unit always loses something at its stop.
LEMMA UnitLoses ==
  ASSUME NEW c \in Candidates, RightSide(c)
  PROVE  WorstPerUnit(c) \in Nat \ {0} /\ c.entry \in Nat \ {0}
  <1>1. c.entry \in Nat /\ c.stop \in Nat /\ c.entry > 0 /\ c.entry # c.stop
    BY CandidateTyped DEF RightSide
  <1>2. Distance(c) \in Nat /\ Distance(c) >= 1
    BY <1>1 DEF Distance
  <1>3. 2 * FeePct + SlipPct \in Nat
    BY AdmissionAssumption
  <1>4. c.entry * (2 * FeePct + SlipPct) \in Nat
    <2> DEFINE r == 2 * FeePct + SlipPct
    <2>1. r \in Nat
      BY <1>3
    <2> HIDE DEF r
    <2>2. c.entry * r \in Nat
      BY <1>1, <2>1
    <2> QED BY <2>2 DEF r
  <1> QED BY <1>1, <1>2, <1>4 DEF WorstPerUnit

\* The budget is a natural number.
LEMMA BudgetTyped == MaxLoss \in Nat /\ MaxMargin \in Nat
  <1>1. DefaultMargin \in Nat /\ MaxMargin \in Nat /\ LossPct \in Nat
    BY AdmissionAssumption
  <1>2. MaxLoss \in Nat
    BY <1>1 DEF MaxLoss
  <1> QED BY <1>1, <1>2

-----------------------------------------------------------------------------
(* The size. *)

\* A largest element is the maximum.
LEMMA MaxIs ==
  ASSUME NEW T \in SUBSET Nat, NEW m \in T, \A y \in T : y <= m
  PROVE  Max(T) = m
  <1>1. \A x \in T : (\A y \in T : x >= y) => x = m
    OBVIOUS
  <1>2. \A y \in T : m >= y
    OBVIOUS
  <1> QED BY <1>1, <1>2 DEF Max

\* The affordable quantities within the margin of a leverage.
Fitting(c, l) == {q \in Affordable(c) : q * c.entry <= MaxMargin * l}

\* The quantity of the budget is the largest one of the step that a stop affords.
LEMMA BudgetLargest ==
  ASSUME NEW c \in Candidates, RightSide(c)
  PROVE  /\ BudgetQty(c) \in Nat /\ BudgetQty(c) % c.spec.step = 0
         /\ BudgetQty(c) * WorstPerUnit(c) <= MaxLoss
         /\ \A q \in Nat : q % c.spec.step = 0 /\ q * WorstPerUnit(c) <= MaxLoss
                             => q <= BudgetQty(c)
  <1>1. MaxLoss \in Nat /\ WorstPerUnit(c) \in Nat \ {0} /\ c.spec.step \in Nat \ {0}
    BY BudgetTyped, UnitLoses, CandidateTyped, SpecTyped
  <1> QED BY <1>1, FloorIsLargest DEF BudgetQty

\* After the bump the quantity is the largest affordable one, or zero.
LEMMA BumpedLargest ==
  ASSUME NEW c \in Candidates, RightSide(c)
  PROVE  LET b == Bumped(c, BudgetQty(c))
         IN  /\ b \in Nat
             /\ b = 0 => Affordable(c) = {}
             /\ b # 0 => b \in Affordable(c) /\ \A q \in Affordable(c) : q <= b
  <1> DEFINE B == BudgetQty(c)
             W == WorstPerUnit(c)
             E == c.entry
             N == c.spec.minNotional
             st == c.spec.step
             least == CeilTo(N, E, st)
  <1>1. /\ MaxLoss \in Nat /\ W \in Nat \ {0} /\ E \in Nat \ {0}
        /\ st \in Nat \ {0} /\ N \in Nat
    BY BudgetTyped, UnitLoses, CandidateTyped, SpecTyped
  <1>2. /\ B \in Nat /\ B % st = 0 /\ B * W <= MaxLoss
        /\ \A q \in Nat : q % st = 0 /\ q * W <= MaxLoss => q <= B
    BY BudgetLargest
  <1>3. least \in Nat /\ least % st = 0 /\ least * E >= N
    BY <1>1, CeilReaches
  <1>4. Affordable(c) = {q \in 1 .. MaxLoss : q % st = 0 /\ q * W <= MaxLoss /\ q * E >= N}
    BY DEF Affordable
  <1>5. Bumped(c, B) = IF B = 0 \/ E * B >= N THEN B
                       ELSE IF W * least <= MaxLoss THEN least ELSE 0
    BY DEF Bumped
  <1> HIDE DEF B, W, E, N, st, least
  <1>6. E * B = B * E /\ W * least = least * W /\ B * E \in Nat
    BY <1>1, <1>2, <1>3
  <1>7. \A q \in Affordable(c) : q \in Nat /\ q >= 1 /\ q <= B /\ q * E <= B * E /\ q * E >= N
    <2> TAKE q \in Affordable(c)
    <2>1. q \in Nat /\ q >= 1 /\ q % st = 0 /\ q * W <= MaxLoss /\ q * E >= N
      BY <1>1, <1>4
    <2>2. q <= B
      BY <1>2, <2>1
    <2>3. q * E <= B * E
      BY <1>1, <1>2, <2>1, <2>2, Products
    <2> QED BY <2>1, <2>2, <2>3
  <1>8. CASE B = 0
    <2>1. Affordable(c) = {}
      BY <1>7, <1>8
    <2> QED BY <1>5, <1>8, <2>1 DEF B
  <1>9. CASE B # 0 /\ B * E >= N
    <2>1. B <= MaxLoss
      <3>1. B * 1 <= B * W
        <4>1. 1 * B <= W * B
          BY <1>1, <1>2, Products
        <4>2. B * 1 = 1 * B /\ B * W = W * B
          BY <1>1, <1>2
        <4> QED BY <4>1, <4>2
      <3>2. B * W \in Nat
        BY <1>1, <1>2
      <3> QED BY <1>1, <1>2, <3>1, <3>2
    <2>2. B \in Affordable(c)
      BY <1>1, <1>2, <1>4, <1>9, <2>1
    <2>3. Bumped(c, B) = B
      BY <1>5, <1>6, <1>9
    <2> QED BY <1>2, <1>7, <1>9, <2>2, <2>3 DEF B
  <1>10. CASE B # 0 /\ ~(B * E >= N)
    <2>1. Affordable(c) = {}
      <3>1. \A q \in Affordable(c) : q * E \in Nat
        BY <1>1, <1>7
      <3> QED BY <1>1, <1>6, <1>7, <1>10, <3>1
    <2>2. ~(least * W <= MaxLoss)
      <3> SUFFICES ASSUME least * W <= MaxLoss PROVE FALSE
        OBVIOUS
      <3>1. least <= B
        BY <1>2, <1>3
      <3>2. least * E <= B * E /\ least * E \in Nat
        BY <1>1, <1>2, <1>3, <3>1, Products
      <3> QED BY <1>1, <1>3, <1>6, <1>10, <3>2
    <2>3. Bumped(c, B) = 0
      BY <1>5, <1>6, <1>10, <2>2
    <2> QED BY <2>1, <2>3 DEF B
  <1> QED BY <1>2, <1>6, <1>8, <1>9, <1>10

\* The cap takes the largest that fits the margin, and yields only if none does.
LEMMA CappedLargest ==
  ASSUME NEW c \in Candidates, RightSide(c), NEW l \in Nat \ {0}
  PROVE  LET q == Size(c, l)
         IN  /\ q \in Nat
             /\ Affordable(c) = {} => q = 0
             /\ Fitting(c, l) # {} => q \in Fitting(c, l) /\ \A r \in Fitting(c, l) : r <= q
             /\ Affordable(c) # {} /\ Fitting(c, l) = {}
                  => q \in Affordable(c) /\ \A r \in Affordable(c) : r <= q
  <1> DEFINE b == Bumped(c, BudgetQty(c))
             W == WorstPerUnit(c)
             E == c.entry
             N == c.spec.minNotional
             st == c.spec.step
             M == MaxMargin * l
             cap == FloorTo(M, E, st)
  <1>1. /\ MaxLoss \in Nat /\ MaxMargin \in Nat /\ W \in Nat \ {0} /\ E \in Nat \ {0}
        /\ st \in Nat \ {0} /\ N \in Nat
    BY BudgetTyped, UnitLoses, CandidateTyped, SpecTyped
  <1>2. M \in Nat
    BY <1>1
  <1>3. /\ b \in Nat /\ (b = 0 => Affordable(c) = {})
        /\ b # 0 => b \in Affordable(c) /\ \A q \in Affordable(c) : q <= b
    BY BumpedLargest
  <1>4. Affordable(c) = {q \in 1 .. MaxLoss : q % st = 0 /\ q * W <= MaxLoss /\ q * E >= N}
    BY DEF Affordable
  <1>5. Fitting(c, l) = {q \in Affordable(c) : q * E <= M}
    BY DEF Fitting
  <1>6. Size(c, l) = IF cap > 0 /\ b > cap /\ cap * E >= N THEN cap ELSE b
    BY DEF Size, Capped
  <1> HIDE DEF M
  <1>7. /\ cap \in Nat /\ cap % st = 0 /\ cap * E <= M
        /\ \A q \in Nat : q % st = 0 /\ q * E <= M => q <= cap
    BY <1>1, <1>2, FloorIsLargest
  <1> HIDE DEF b, W, E, N, st, cap
  <1>8. \A q \in Affordable(c) : /\ q \in Nat /\ q >= 1 /\ q <= MaxLoss /\ q % st = 0
                                 /\ q * W <= MaxLoss /\ q * E >= N /\ q * E \in Nat
    BY <1>1, <1>4
  <1>9. \A q \in Fitting(c, l) : q \in Affordable(c) /\ q <= cap /\ q * E <= cap * E
    <2> TAKE q \in Fitting(c, l)
    <2>1. q \in Affordable(c) /\ q * E <= M
      BY <1>5
    <2>2. q \in Nat /\ q <= cap
      BY <1>7, <1>8, <2>1
    <2>3. q * E <= cap * E
      BY <1>1, <1>7, <2>2, Products
    <2> QED BY <2>1, <2>2, <2>3
  <1>10. CASE b = 0
    <2>1. Affordable(c) = {} /\ Fitting(c, l) = {} /\ Size(c, l) = 0
      BY <1>3, <1>5, <1>6, <1>7, <1>10
    <2> QED BY <2>1
  <1>11. CASE b # 0 /\ cap > 0 /\ b > cap /\ cap * E >= N
    <2>1. Size(c, l) = cap
      BY <1>6, <1>11
    <2>2. b \in Affordable(c) /\ cap * W <= b * W
      BY <1>1, <1>3, <1>7, <1>11, Products
    <2>3. cap \in Affordable(c)
      <3>1. cap * W \in Nat /\ b * W \in Nat /\ b * W <= MaxLoss /\ b <= MaxLoss /\ b \in Nat
        BY <1>1, <1>7, <1>8, <2>2
      <3>2. cap \in 1 .. MaxLoss /\ cap * W <= MaxLoss
        BY <1>1, <1>7, <1>11, <2>2, <3>1
      <3> QED BY <1>4, <1>7, <1>11, <3>2
    <2>4. cap \in Fitting(c, l)
      BY <1>5, <1>7, <2>3
    <2> QED BY <1>7, <1>9, <2>1, <2>3, <2>4
  <1>12. CASE b # 0 /\ b <= cap
    <2>1. Size(c, l) = b /\ b \in Affordable(c) /\ \A q \in Affordable(c) : q <= b
      BY <1>3, <1>6, <1>7, <1>12
    <2>2. b * E <= cap * E /\ b * E \in Nat /\ cap * E \in Nat
      BY <1>1, <1>3, <1>7, <1>12, Products
    <2>3. b \in Fitting(c, l)
      BY <1>2, <1>5, <1>7, <2>1, <2>2
    <2> QED BY <1>3, <1>9, <2>1, <2>3
  <1>13. CASE b # 0 /\ b > cap /\ ~(cap > 0 /\ cap * E >= N)
    <2>1. Size(c, l) = b /\ b \in Affordable(c) /\ \A q \in Affordable(c) : q <= b
      BY <1>3, <1>6, <1>13
    <2>2. Fitting(c, l) = {}
      <3> SUFFICES ASSUME NEW q \in Fitting(c, l) PROVE FALSE
        OBVIOUS
      <3>1. q \in Nat /\ q >= 1 /\ q <= cap /\ q * E <= cap * E /\ q * E >= N /\ q * E \in Nat
        BY <1>8, <1>9
      <3>2. cap > 0 /\ cap * E >= N
        <4>1. cap * E \in Nat
          BY <1>1, <1>7
        <4> QED BY <1>1, <1>7, <3>1, <4>1
      <3> QED BY <1>13, <3>2
    <2> QED BY <1>3, <2>1, <2>2
  <1>14. b = 0 \/ b <= cap \/ b > cap
    BY <1>3, <1>7
  <1> QED BY <1>10, <1>11, <1>12, <1>13, <1>14

\* The three steps together: size_from_risk() against its reference definition.
LEMMA SizeIsReference ==
  ASSUME NEW c \in Candidates, NEW l \in Nat \ {0}
  PROVE  /\ Size(c, l) \in Nat
         /\ Size(c, l) = CASE ~RightSide(c) \/ Affordable(c) = {} -> 0
                           [] RightSide(c) /\ Fitting(c, l) # {} -> Max(Fitting(c, l))
                           [] OTHER -> Max(Affordable(c))
  <1>1. Affordable(c) \in SUBSET Nat /\ Fitting(c, l) \subseteq Affordable(c)
    BY BudgetTyped DEF Affordable, Fitting
  <1>2. CASE ~RightSide(c)
    BY <1>2 DEF Size
  <1>3. CASE RightSide(c) /\ Affordable(c) = {}
    <2>1. Size(c, l) = 0
      BY <1>3, CappedLargest
    <2>2. Fitting(c, l) = {}
      BY <1>1, <1>3
    <2> QED BY <1>3, <2>1, <2>2
  <1>4. CASE RightSide(c) /\ Affordable(c) # {} /\ Fitting(c, l) # {}
    <2>1. /\ Size(c, l) \in Nat /\ Size(c, l) \in Fitting(c, l)
          /\ \A r \in Fitting(c, l) : r <= Size(c, l)
      BY <1>4, CappedLargest
    <2>2. Fitting(c, l) \in SUBSET Nat
      BY <1>1
    <2>3. Max(Fitting(c, l)) = Size(c, l)
      BY <2>1, <2>2, MaxIs
    <2> QED BY <1>4, <2>1, <2>3
  <1>5. CASE RightSide(c) /\ Affordable(c) # {} /\ Fitting(c, l) = {}
    <2>1. /\ Size(c, l) \in Nat /\ Size(c, l) \in Affordable(c)
          /\ \A r \in Affordable(c) : r <= Size(c, l)
      BY <1>5, CappedLargest
    <2>2. Max(Affordable(c)) = Size(c, l)
      BY <1>1, <2>1, MaxIs
    <2> QED BY <1>5, <2>1, <2>2
  <1> QED BY <1>1, <1>2, <1>3, <1>4, <1>5

-----------------------------------------------------------------------------
(* The sessions. *)

\* What was sized is the size of the candidate in hand.
SizedInv == stage = "sized" => cand \in Candidates /\ qty = Size(cand, lev)

\* The router's flag goes up only with an order; until it does every candidate's
\* order waits for an OK.
FlagInv == (unasked => asked) /\ (done => asked)

IInv == TypeOK /\ SizedInv /\ FlagInv

\* A leverage is at least one.
LEMMA ClampedTyped ==
  ASSUME NEW l \in Int
  PROVE  Clamped(l) \in Nat \ {0}
  <1> DEFINE m == IF l >= LeverageFloor THEN l ELSE LeverageFloor
             n == IF l <= m THEN l ELSE m
             r == IF 1 >= n THEN 1 ELSE n
  <1>1. LeverageFloor \in Int
    BY AdmissionAssumption
  <1>2. Max({l, LeverageFloor}) = m
    <2>1. m \in {l, LeverageFloor} /\ \A y \in {l, LeverageFloor} : m >= y
      BY <1>1
    <2>2. \A x \in {l, LeverageFloor} : (\A y \in {l, LeverageFloor} : x >= y) => x = m
      BY <1>1
    <2> HIDE DEF m
    <2> QED BY <2>1, <2>2 DEF Max
  <1>3. m \in Int
    BY <1>1
  <1> HIDE DEF m
  <1>4. Min({l, m}) = n
    <2>1. n \in {l, m} /\ \A y \in {l, m} : n <= y
      BY <1>3
    <2>2. \A x \in {l, m} : (\A y \in {l, m} : x <= y) => x = n
      BY <1>3
    <2> HIDE DEF n
    <2> QED BY <2>1, <2>2 DEF Min
  <1>5. n \in Int
    BY <1>3
  <1> HIDE DEF n
  <1>6. Max({1, n}) = r
    <2>1. r \in {1, n} /\ \A y \in {1, n} : r >= y
      BY <1>5
    <2>2. \A x \in {1, n} : (\A y \in {1, n} : x >= y) => x = r
      BY <1>5
    <2> HIDE DEF r
    <2> QED BY <2>1, <2>2 DEF Max
  <1>7. Clamped(l) = r
    BY <1>2, <1>4, <1>6 DEF Clamped
  <1> QED BY <1>5, <1>7

\* The invariant holds at first,
LEMMA SessionInit == Init => IInv
  <1> SUFFICES ASSUME Init PROVE IInv
    OBVIOUS
  <1>1. 0 \in Pnl /\ 0 \in 0 .. MaxQueue
    BY AdmissionAssumption DEF Pnl
  <1>2. TypeOK
    <2>1. {done, asked, unasked} \subseteq BOOLEAN
      BY DEF Init
    <2>2. stage = "down" /\ lev \in Nat \ {0} /\ left \in 0 .. MaxQueue /\ qty \in Nat
          /\ cand = NoCandidate /\ dayPnl \in Pnl
      BY <1>1 DEF Init
    <2> QED BY <2>1, <2>2 DEF TypeOK
  <1>3. SizedInv /\ FlagInv
    BY DEF Init, SizedInv, FlagInv
  <1> QED BY <1>2, <1>3 DEF IInv

\* and after every step.
LEMMA SessionStep == IInv /\ [Next]_vars => IInv'
  <1> SUFFICES ASSUME IInv, [Next]_vars PROVE IInv'
    OBVIOUS
  <1> USE DEF IInv, TypeOK, SizedInv, FlagInv, session
  <1>1. CASE Start
    <2>1. lev' \in Nat \ {0}
      BY <1>1, ClampedTyped, AdmissionAssumption DEF Start
    <2> QED BY <1>1, <2>1 DEF Start
  <1>2. CASE FireQueued
    <2>1. left' \in 0 .. MaxQueue
      BY <1>2, AdmissionAssumption DEF FireQueued
    <2>2. (unasked' => asked') /\ (done' => asked') /\ {done', asked', unasked'} \subseteq BOOLEAN
      <3>1. unasked' = unasked
        BY <1>2 DEF FireQueued
      <3>2. CASE done' = TRUE /\ asked' = TRUE
        BY <3>1, <3>2
      <3>3. CASE done' = done /\ asked' = asked
        BY <3>1, <3>3
      <3> QED BY <1>2, <3>2, <3>3 DEF FireQueued
    <2> QED BY <1>2, <2>1, <2>2 DEF FireQueued
  <1>3. CASE QueueDone
    BY <1>3 DEF QueueDone
  <1>4. CASE SizeCandidate
    <2>1. PICK c \in Candidates : cand' = c /\ qty' = Size(c, lev)
      BY <1>4 DEF SizeCandidate
    <2>2. qty' \in Nat
      BY <2>1, SizeIsReference
    <2> QED BY <1>4, <2>1, <2>2 DEF SizeCandidate
  <1>5. CASE Approve
    BY <1>5 DEF Approve
  <1>6. CASE Refuse
    BY <1>6 DEF Refuse, Drop
  <1>7. CASE QueueForOK
    BY <1>7 DEF QueueForOK, Drop
  <1>8. CASE AutoFire
    <2>1. done
      BY <1>8 DEF AutoFire, Asks
    <2>2. (unasked' => asked') /\ (done' => asked') /\ {done', asked', unasked'} \subseteq BOOLEAN
      BY <1>8, <2>1 DEF AutoFire
    <2> QED BY <1>8, <2>2 DEF AutoFire, Drop
  <1>9. CASE End
    <2>1. 0 \in 0 .. MaxQueue
      BY AdmissionAssumption
    <2> QED BY <1>9, <2>1 DEF End, Drop
  <1>10. CASE Close
    BY <1>10 DEF Close
  <1>11. CASE UNCHANGED vars
    BY <1>11 DEF vars
  <1> QED BY <1>1, <1>2, <1>3, <1>4, <1>5, <1>6, <1>7, <1>8, <1>9, <1>10, <1>11 DEF Next

\* Together: the invariant of the sessions.
LEMMA SessionInvariant == Spec => []IInv
BY SessionInit, SessionStep, PTL DEF Spec

\* Every variable of LiveSession keeps its type.
THEOREM SessionTyped == Spec => []TypeOK
  <1>1. IInv => TypeOK
    BY DEF IInv
  <1> QED BY SessionInvariant, <1>1, PTL

\* The size computed by rounding, bumping and capping is the largest quantity
\* that the stop, MIN_NOTIONAL and, where it can, the margin cap allow.
THEOREM LargestSizeThatFits == Spec => []SizeIsLargestThatFits
  <1>1. IInv => SizeIsLargestThatFits
    <2> SUFFICES ASSUME IInv, stage = "sized"
                 PROVE  qty = CASE ~RightSide(cand) \/ Affordable(cand) = {} -> 0
                                [] RightSide(cand) /\ WithinMargin(cand) # {}
                                     -> Max(WithinMargin(cand))
                                [] OTHER -> Max(Affordable(cand))
      BY DEF SizeIsLargestThatFits
    <2>1. cand \in Candidates /\ qty = Size(cand, lev) /\ lev \in Nat \ {0}
      BY DEF IInv, SizedInv, TypeOK
    <2>2. WithinMargin(cand) = Fitting(cand, lev)
      BY DEF WithinMargin, Fitting
    <2> QED BY <2>1, <2>2, SizeIsReference
  <1> QED BY SessionInvariant, <1>1, PTL

\* A session fills an order nobody was asked about only after one its user approved.
THEOREM FirstTradeAsked == Spec => []FirstLiveTradeAsked
  <1>1. IInv => FirstLiveTradeAsked
    BY DEF IInv, FlagInv, FirstLiveTradeAsked
  <1> QED BY SessionInvariant, <1>1, PTL
=============================================================================

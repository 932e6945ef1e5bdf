----------------------------- MODULE ExitRules -----------------------------
(***************************************************************************)
(* The pure part of a simulated trade: the fill of its entry on an order   *)
(* book (scripts/paper_execution.py), the decision about it on a candle    *)
(* and what the decision does to it (scripts/exit_simulator.py).           *)
(*                                                                         *)
(* Prices are whole ticks, and quantities whole steps of which Lot make    *)
(* one coin or contract.  Slippage and fees are fractions 1 / SlipDen and  *)
(* 1 / FeeDen of a price and of a notional, so that a price with slippage  *)
(* is a multiple of 1 / SlipDen and every amount of money one of           *)
(* 1 / (SlipDen * FeeDen): Slipped() and Cash() count those multiples.     *)
(***************************************************************************)
EXTENDS Integers, Sequences, FiniteSetsExt

CONSTANTS
  SlipDen,      \* DEFAULT_SLIPPAGE_BPS as a denominator
  FeeDen,       \* DEFAULT_TAKER_FEE as a denominator
  Lot,          \* quantity steps in one whole coin
  TrailTrigger, \* ExitConfig.trail_atr_multiple_trigger
  TrailKeep,    \* ExitConfig.trail_atr_multiple_keep
  MaxHold,      \* ExitConfig.max_hold_minutes, in bars
  MinMfe        \* the MFE below which a trade is not worth keeping

ASSUME ExitAssumption ==
  /\ SlipDen \in Nat \ {0} /\ FeeDen \in Nat \ {0} /\ Lot \in Nat \ {0}
  /\ TrailKeep \in Nat /\ TrailTrigger \in Nat
  /\ MaxHold \in Nat /\ MinMfe \in Nat

Sides == {"LONG", "SHORT"}

\* What a position of this side wins when the price goes from one to the other.
Gain(side, from, to) == IF side = "LONG" THEN to - from ELSE from - to

\* The price a distance further in the position's favour.
Further(side, price, distance) ==
  IF side = "LONG" THEN price + distance ELSE price - distance

-----------------------------------------------------------------------------
(* Market orders against the visible book: a sequence of [price, qty]. *)

\* simulate_market_fill(): level after level, what is still wanted of what is
\* there.  cost is average_price * filled.
MarketFill(levels, qty) ==
  LET after[i \in 0 .. Len(levels)] ==
        IF i = 0 THEN [filled |-> 0, cost |-> 0]
        ELSE LET so == after[i - 1]
                 take == Min({qty - so.filled, levels[i].qty})
             IN  [filled |-> so.filled + take, cost |-> so.cost + levels[i].price * take]
  IN  after[Len(levels)]

-----------------------------------------------------------------------------
(* Decisions.  A candle is [high, low, close]; atr is 0 when there is none *)
(* or trailing is off.                                                     *)

Best(side, candle) == IF side = "LONG" THEN candle.high ELSE candle.low
Worst(side, candle) == IF side = "LONG" THEN candle.low ELSE candle.high

Reached(p, candle, price) == Gain(p.side, price, Best(p.side, candle)) >= 0

\* Targets before the last that the candle reached and no note marks as taken.
OpenTargets(p, candle) ==
  {i \in 1 .. Len(p.targets) - 1 :
     Reached(p, candle, p.targets[i]) /\ p.targets[i] \notin p.taken}

TrailedStop(p, candle, atr) ==
  Further(p.side, Best(p.side, candle), -(TrailKeep * atr))

Trails(p, candle, atr) ==
  /\ atr > 0
  /\ Gain(p.side, p.entry, Best(p.side, candle)) >= TrailTrigger * atr
  /\ Gain(p.side, p.stop, TrailedStop(p, candle, atr)) > 0

\* When a decision is possible at all.
Applies(kind, p, candle, atr, emergency) ==
  CASE kind = "emergency_exit"    -> emergency
    [] kind = "stop_hit"          -> Gain(p.side, p.stop, Worst(p.side, candle)) <= 0
    [] kind = "full_tp"           -> Reached(p, candle, p.targets[Len(p.targets)])
    [] kind = "partial_tp"        -> OpenTargets(p, candle) # {}
    [] kind = "trail_stop"        -> Trails(p, candle, atr)
    [] kind = "invalidation_exit" -> p.age >= MaxHold /\ p.mfe < MinMfe
    [] kind = "hold"              -> TRUE

\* Mutant: old trades are closed at market before the stop is looked at.
PrecedenceAgeFirst ==
  <<"emergency_exit", "invalidation_exit", "stop_hit", "full_tp", "partial_tp",
    "trail_stop", "hold">>

\* decide_from_candle()'s order; the stop comes before the targets because a
\* candle does not tell which was touched first.
Precedence ==
  <<"emergency_exit", "stop_hit", "full_tp", "partial_tp", "trail_stop",
    "invalidation_exit", "hold">>

Kinds == {Precedence[i] : i \in DOMAIN Precedence}

Decide(p, candle, atr, emergency) ==
  Precedence[Min({i \in DOMAIN Precedence : Applies(Precedence[i], p, candle, atr, emergency)})]

-----------------------------------------------------------------------------
(* What a decision does to the position in memory. *)

\* A price after slippage against the position.
Slipped(side, price) == Further(side, price * SlipDen, -price)

\* The price at which a decision fills; a stop is taken to fill at the stop.
FillPrice(kind, p, candle) ==
  CASE kind = "stop_hit"   -> p.stop * SlipDen
    [] kind = "full_tp"    -> Slipped(p.side, p.targets[Len(p.targets)])
    [] kind = "partial_tp" -> Slipped(p.side, p.targets[Min(OpenTargets(p, candle))])
    [] OTHER               -> Slipped(p.side, candle.close)

\* Money made by selling qty at a slipped price: gross less the exit fee.
Cash(p, price, qty) ==
  Gain(p.side, p.entry * SlipDen, price) * qty * FeeDen - price * qty

EntryFee(entry, qty) == entry * qty * SlipDen

\* Mutant: at least one coin, however little is left.
PartialQtyUncapped(qty) ==
  LET half == qty \div (2 * Lot) IN Lot * (IF half = 0 THEN 1 ELSE half)

\* (quantity * 0.5).quantize(1): whole coins, half to even, at least one of
\* them, at most all there is.
PartialQty(qty) ==
  LET coins == qty \div (2 * Lot)
      rest == qty % (2 * Lot)
      half == IF rest > Lot \/ (rest = Lot /\ coins % 2 = 1) THEN coins + 1 ELSE coins
  IN  Min({qty, Lot * (IF half = 0 THEN 1 ELSE half)})

Sell(p, kind, price, qty) ==
  [p EXCEPT !.qty = @ - qty,
            !.realized = @ + Cash(p, price, qty),
            !.fills = Append(@, [price |-> price, qty |-> qty]),
            !.status = IF qty = p.qty THEN "closed" ELSE "partial_exit",
            !.reason = IF qty = p.qty THEN kind ELSE @]

\* apply_decision() on a paper or a backtest position.
Applied(p, kind, candle, atr) ==
  CASE kind = "hold" -> p
    [] kind = "trail_stop" -> [p EXCEPT !.stop = TrailedStop(p, candle, atr)]
    [] kind = "partial_tp" ->
         LET target == p.targets[Min(OpenTargets(p, candle))]
         IN  [Sell(p, kind, FillPrice(kind, p, candle), PartialQty(p.qty))
                EXCEPT !.stop = p.entry, !.taken = @ \cup {target}]
    [] OTHER -> Sell(p, kind, FillPrice(kind, p, candle), p.qty)
=============================================================================

----------------------------- MODULE Admission -----------------------------
(***************************************************************************)
(* How a candidate of a SEMI_AUTO_LIVE cycle becomes a live order: the     *)
(* position sizing and the verdict of scripts/risk_engine.py, the filters  *)
(* of scripts/symbol_filters.py, the ask-first rules of                    *)
(* scripts/approval_policy.py and the router's session flag, in the order  *)
(* run_live_cycle.py calls them.  One process is a session; sessions       *)
(* follow each other.  Prices and quantities are integers, rates are in    *)
(* percent, so that every Decimal of the code is exact here.               *)
(***************************************************************************)
EXTENDS Integers, FiniteSetsExt

CONSTANTS
  Specs,          \* the symbols' filters
  MaxPrice,       \* bound: largest raw price a strategy proposes
  Leverages,      \* --leverage of a session
  LeverageFloor,  \* RiskConfig.max_leverage is at least this
  DefaultMargin,  \* RiskConfig.default_margin_per_trade_usdt
  MaxMargin,      \* RiskConfig.max_margin_per_trade_usdt
  LossPct,        \* RiskConfig.max_planned_loss_pct_of_margin
  FeePct,         \* fee rate of one side
  SlipPct,        \* slippage budget
  MinLiqPct,      \* RiskConfig.min_liquidation_distance_pct
  MinNetPct,      \* RiskConfig.min_meaningful_pct_of_margin
  Threshold,      \* ApprovalPolicy.notional_threshold_usdt
  AskPct,         \* ApprovalPolicy.daily_loss_consumption_threshold_pct
  DailyLimit,     \* daily_loss_limit_usdt
  Pnls,           \* what a closed position may add to the day's PnL
  MaxQueue        \* bound: approved entries a session finds

ASSUME AdmissionAssumption ==
  /\ \A s \in Specs : /\ {s.tick, s.step} \subseteq Nat \ {0}
                      /\ {s.minPrice, s.maxPrice} \subseteq Nat
                      /\ {s.minQty, s.maxQty, s.minNotional} \subseteq Nat
  /\ Leverages \subseteq Int /\ LeverageFloor \in Nat \ {0}
  /\ {DefaultMargin, MaxMargin, LossPct, FeePct, SlipPct} \subseteq Nat
  /\ {MinLiqPct, MinNetPct, Threshold, AskPct, DailyLimit} \subseteq Nat
  /\ MaxPrice \in Nat /\ MaxQueue \in Nat /\ Pnls \subseteq Int

-----------------------------------------------------------------------------
(* Rounding and filters. *)

\* round_to_step(num / den, step) with mode "down" and mode "up".
FloorTo(num, den, step) == (num \div (den * step)) * step
CeilTo(num, den, step) == ((num + den * step - 1) \div (den * step)) * step

\* The cycle rounds the strategy's prices to the tick: down, but stop and
\* target of a short up.
Rounded(spec, side, entry, stop, tp) ==
  LET R(x) == IF side = "LONG" THEN FloorTo(x, 1, spec.tick)
                               ELSE CeilTo(x, 1, spec.tick)
  IN  [spec |-> spec, side |-> side, entry |-> FloorTo(entry, 1, spec.tick),
       stop |-> R(stop), tp |-> R(tp)]

\* validate_order(): PRICE_FILTER and LOT_SIZE multiples and bounds,
\* MIN_NOTIONAL.
Sendable(c, qty) ==
  /\ c.entry \in c.spec.minPrice .. c.spec.maxPrice
  /\ c.entry % c.spec.tick = 0
  /\ qty % c.spec.step = 0
  /\ qty \in c.spec.minQty .. c.spec.maxQty
  /\ c.entry * qty >= c.spec.minNotional

-----------------------------------------------------------------------------
(* Sizing.  Losses are in hundredths, like the percentages. *)

Distance(c) == IF c.entry > c.stop THEN c.entry - c.stop ELSE c.stop - c.entry

\* What one unit loses when the stop is hit: the distance and the friction.
WorstPerUnit(c) == Distance(c) * 100 + c.entry * (2 * FeePct + SlipPct)

\* max_loss: a share of the margin aimed at.
MaxLoss == (IF DefaultMargin < MaxMargin THEN DefaultMargin ELSE MaxMargin) * LossPct

RightSide(c) ==
  /\ c.entry > 0 /\ c.stop > 0
  /\ IF c.side = "LONG" THEN c.stop < c.entry ELSE c.stop > c.entry

BudgetQty(c) == FloorTo(MaxLoss, WorstPerUnit(c), c.spec.step)

\* A quantity below MIN_NOTIONAL is raised to it, or given up if that loses
\* more than the budget.
Bumped(c, qty) ==
  IF qty = 0 \/ c.entry * qty >= c.spec.minNotional
  THEN qty
  ELSE LET least == CeilTo(c.spec.minNotional, c.entry, c.spec.step)
       IN  IF WorstPerUnit(c) * least <= MaxLoss THEN least ELSE 0

\* Mutant: the margin cap ignores MIN_NOTIONAL.
CappedAlways(c, lev, qty) ==
  LET cap == FloorTo(MaxMargin * lev, c.entry, c.spec.step)
  IN  IF cap > 0 /\ qty > cap THEN cap ELSE qty

\* The margin cap, which gives way to MIN_NOTIONAL and to the step.
Capped(c, lev, qty) ==
  LET cap == FloorTo(MaxMargin * lev, c.entry, c.spec.step)
  IN  IF cap > 0 /\ qty > cap /\ cap * c.entry >= c.spec.minNotional
      THEN cap ELSE qty

\* size_from_risk().quantity
Size(c, lev) ==
  IF RightSide(c) THEN Capped(c, lev, Bumped(c, BudgetQty(c))) ELSE 0

-----------------------------------------------------------------------------
(* The verdict. *)

\* Mutant: the leverage asked for is taken.
ClampedNot(lev) == lev

\* max(1, min(leverage, max_leverage)); a live cycle sets max_leverage to
\* max(leverage, 5), so that nothing is ever cut at the top.
Clamped(lev) == Max({1, Min({lev, Max({lev, LeverageFloor})})})

\* estimate_liquidation_isolated().is_safe, with 0.5% maintenance margin.
LiquidationSafe(lev) ==
  LET away == 1000 - 5 * lev
  IN  (IF away < 0 THEN -away ELSE away) >= 10 * MinLiqPct * lev

\* estimate_profit().net_profit_usdt at the first target, in hundredths.
NetProfit(c, qty) ==
  (IF c.side = "LONG" THEN c.tp - c.entry ELSE c.entry - c.tp) * qty * 100
    - (c.entry + c.tp) * qty * (FeePct + SlipPct)

\* is_meaningful: positive and at least MinNetPct of the margin.
Meaningful(c, lev, qty) ==
  /\ NetProfit(c, qty) > 0
  /\ NetProfit(c, qty) * lev >= MinNetPct * c.entry * qty

\* evaluate_proposal().risk_decision
Decision(c, lev, qty) ==
  CASE qty = 0 \/ ~Sendable(c, qty) -> "rejected"
    [] OTHER ->
       CASE ~LiquidationSafe(lev) -> "lower_leverage"
         [] LiquidationSafe(lev) /\ ~Meaningful(c, lev, qty) -> "rejected"
         [] LiquidationSafe(lev) /\ Meaningful(c, lev, qty) ->
              IF c.entry * qty > MaxMargin * lev THEN "reduce_size" ELSE "approved"

NearLimit(pnl) == DailyLimit > 0 /\ pnl < 0 /\ -pnl * 100 >= AskPct * DailyLimit

\* approval_policy.evaluate(mode = "SEMI_AUTO_LIVE").requires_user_approval
Asks(notional, firstDone, pnl) ==
  notional > Threshold \/ ~firstDone \/ NearLimit(pnl)

\* route()'s daily_pnl_usdt: no caller passes it, so its default is what the
\* policy sees.
RoutedPnl == 0
=============================================================================

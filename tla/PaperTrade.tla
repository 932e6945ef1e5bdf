----------------------------- MODULE PaperTrade -----------------------------
(***************************************************************************)
(* The life of one simulated position after another, with the rules of     *)
(* ExitRules, in the two programs that live by them:                       *)
(*   - the backtester (backtest_candles) manages a position in memory, bar *)
(*     by bar, and closes what is left at the end of its window;           *)
(*   - the paper cycle (run_paper_cycle) opens a row with a simulated fill *)
(*     and the watcher (watch_open_positions) manages it through the store,*)
(*     whose merge keeps MFE and notes of a tick that does not close.      *)
(* Other writers of the store are left to Watcher; rows do not touch each  *)
(* other here, and one at a time is modelled.                              *)
(***************************************************************************)
EXTENDS ExitRules

CONSTANTS
  Keepers,   \* which of the two programs: subset of {"backtest", "watcher"}
  Plans,     \* proposals the risk engine approved
  Books,     \* order-book sides a paper entry may meet
  Prices,    \* bound: average prices of an entry, whole ticks
  Candles,   \* candles a bar or a tick may show
  Atrs,      \* ATR values, 0 for none
  MaxBars    \* bound: bars of the window, ticks of the watcher

\* evaluate_proposal() approves only a stop on the losing side of the entry
\* and a first target on the winning side; strategies put later ones further.
Sound(plan) ==
  /\ plan.side \in Sides /\ plan.qty \in Nat \ {0}
  /\ plan.entry \in Nat /\ plan.stop \in Nat
  /\ plan.targets \in Seq(Nat) /\ plan.targets # <<>>
  /\ Gain(plan.side, plan.entry, plan.stop) < 0
  /\ \A i \in DOMAIN plan.targets : Gain(plan.side, plan.entry, plan.targets[i]) > 0

ASSUME PaperAssumption ==
  /\ Keepers \subseteq {"backtest", "watcher"}
  /\ \A plan \in Plans : Sound(plan)
  /\ Prices \subseteq Nat
  /\ \A c \in Candles : /\ c.low \in Nat /\ c.close \in Nat /\ c.high \in Nat
                       /\ c.low <= c.close /\ c.close <= c.high
  /\ Atrs \subseteq Nat /\ MaxBars \in Nat

VARIABLES
  keeper,  \* the program of this behaviour
  bar,     \* bars or ticks so far
  pos,     \* open_pos, or the row of open-positions.json
  trade,   \* history: the position the last step closed
  last,    \* the backtest's latest close
  over     \* the backtest's window has ended

vars == <<keeper, bar, pos, trade, last, over>>

None == [status |-> "none"]

(* fills is what realized is made of, and sold what was ever reported sold: *)
(* both are history.                                                        *)
Opened(plan, entry) ==
  [status |-> "open", side |-> plan.side, qty |-> plan.qty, initial |-> plan.qty,
   entry |-> entry, stop |-> plan.stop, planned |-> plan.stop, targets |-> plan.targets,
   taken |-> {}, mfe |-> 0, age |-> 0, realized |-> -EntryFee(entry, plan.qty),
   reason |-> "none", fills |-> <<>>, sold |-> 0]

IsOpen(p) == p.status \in {"open", "partial_exit"}

Init ==
  /\ keeper \in Keepers
  /\ bar = 0
  /\ pos = None
  /\ trade = None
  /\ last = 0
  /\ over = FALSE

-----------------------------------------------------------------------------
\* update_pnl(close): the MFE ratchets, and the position is a bar older.
Marked(p, candle) ==
  [p EXCEPT !.mfe = Max({@, Gain(p.side, p.entry, candle.close) * p.qty}), !.age = @ + 1]

\* One look at an open position: mark, decide, apply.
Managed(p, candle, atr, emergency) ==
  LET marked  == Marked(p, candle)
      managed == Applied(marked, Decide(marked, candle, atr, emergency), candle, atr)
  IN  [managed EXCEPT !.sold = @ + (p.qty - managed.qty)]

\* A new setup on this bar, or none.
NextBacktest == {None} \cup {Opened(plan, plan.entry) : plan \in Plans}

\* One bar of backtest_candles(): a position is managed first, and a new one is
\* looked for only when there is none after that.
BacktestBar ==
  /\ keeper = "backtest" /\ bar < MaxBars
  /\ bar' = bar + 1
  /\ \E candle \in Candles, atr \in Atrs :
       /\ last' = candle.close
       /\ IF pos = None
          THEN trade' = None /\ pos' \in NextBacktest
          ELSE LET managed == Managed(pos, candle, atr, FALSE)
               IN  IF IsOpen(managed)
                   THEN trade' = None /\ pos' = managed
                   ELSE trade' = managed /\ pos' \in NextBacktest
  /\ UNCHANGED <<keeper, over>>

\* Mutant: the window's end sells what was bought, not what is left.
LiquidatedWhole(p, price) ==
  Sell([p EXCEPT !.qty = p.initial], "backtest_window_end", price, p.initial)

\* What is still open is closed at the last bar's close, without slippage.
Liquidated(p, price) == Sell(p, "backtest_window_end", price, p.qty)

WindowEnds ==
  /\ keeper = "backtest" /\ bar = MaxBars /\ ~over
  /\ over' = TRUE
  /\ pos' = None
  /\ trade' = IF pos = None THEN None
              ELSE [Liquidated(pos, last * SlipDen) EXCEPT !.sold = @ + pos.qty]
  /\ UNCHANGED <<keeper, bar, last>>

\* The paper cycle: the size of the plan is bought on the book as it is now,
\* the stop and the targets stay where they were planned.  An incomplete fill
\* is a rejection.  The bound is that the average price is a whole tick.
PaperOpen ==
  /\ keeper = "watcher" /\ pos = None /\ bar < MaxBars
  /\ \E plan \in Plans, levels \in Books, average \in Prices :
       LET fill == MarketFill(levels, plan.qty)
       IN  /\ fill.filled = plan.qty
           /\ fill.cost = average * fill.filled
           /\ pos' = Opened(plan, average)
  /\ trade' = None
  /\ UNCHANGED <<keeper, bar, last, over>>

\* apply_watcher_updates(): of a tick that leaves the row open, the MFE and
\* the notes survive.  (sold is history; age is the clock's.)
Kept(row, managed) ==
  [row EXCEPT !.mfe = managed.mfe, !.taken = managed.taken, !.age = managed.age,
              !.sold = managed.sold]

\* A tick: a closed position is upserted whole, anything else is merged.
WatcherTick ==
  /\ keeper = "watcher" /\ pos # None /\ bar < MaxBars
  /\ bar' = bar + 1
  /\ \E candle \in Candles, atr \in Atrs, emergency \in BOOLEAN :
       LET managed == Managed(pos, candle, atr, emergency)
       IN  IF IsOpen(managed)
           THEN pos' = Kept(pos, managed) /\ trade' = None
           ELSE pos' = None /\ trade' = managed
  /\ UNCHANGED <<keeper, last, over>>

Next == BacktestBar \/ WindowEnds \/ PaperOpen \/ WatcherTick

Spec == Init /\ [][Next]_vars

-----------------------------------------------------------------------------
\* The sum of a sequence of numbers.
Total(v) ==
  LET upTo[i \in 0 .. Len(v)] == IF i = 0 THEN 0 ELSE upTo[i - 1] + v[i]
  IN  upTo[Len(v)]

Units(fills) == Total([i \in DOMAIN fills |-> fills[i].qty])

Turnover(fills) == Total([i \in DOMAIN fills |-> fills[i].price * fills[i].qty])

\* The units of a position are where they should be: bought ones are held or
\* sold, a closed trade holds none, and a target is marked as taken once.
TypeOK ==
  /\ keeper \in Keepers /\ bar \in 0 .. MaxBars /\ over \in BOOLEAN /\ last \in Int
  /\ \A p \in {pos, trade} \ {None} :
       /\ p.status \in {"open", "partial_exit", "closed"} /\ p.side \in Sides
       /\ p.qty \in 0 .. p.initial /\ (p.qty = 0 <=> p.status = "closed")
       /\ p.mfe \in Nat /\ p.age \in 0 .. MaxBars /\ p.realized \in Int
       /\ p.taken \subseteq {p.targets[i] : i \in 1 .. Len(p.targets) - 1}
  /\ pos # None => IsOpen(pos)
  /\ trade # None => trade.status = "closed"

\* The PnL of a trade is that of its fills: what its sales brought, less what
\* the entry cost, less fees on every one of them - computed here from the
\* sales at the end, by the code in increments over the trade's life - and
\* every unit bought was sold (apply_decision, the window's end).  Nothing is
\* sold beside these fills by the backtest, and under the watcher at most one
\* partial exit for each target noted as taken, which its merge has lost.
TradeIsItsFills ==
  trade # None =>
    LET lost == IF keeper = "watcher" THEN Cardinality(trade.taken) ELSE 0
    IN  /\ Units(trade.fills) = trade.initial
        /\ trade.realized =
             Gain(trade.side, trade.entry * SlipDen * trade.initial, Turnover(trade.fills)) * FeeDen
               - Turnover(trade.fills) - EntryFee(trade.entry, trade.initial)
        /\ trade.sold <= trade.initial + lost * PartialQty(trade.initial)

\* However stops, targets, partial exits, trails and age interleave over the
\* bars, a trade that was not sold by an emergency or by the window's end loses
\* at most what it would have lost, with slippage and fees, by selling all of it
\* at the stop it was opened with (decide_from_candle, apply_decision).
LossBounded ==
  (trade # None /\ trade.reason \notin {"emergency_exit", "backtest_window_end"}) =>
    trade.realized >= Cash(trade, Slipped(trade.side, trade.planned), trade.initial)
                        - EntryFee(trade.entry, trade.initial)
=============================================================================

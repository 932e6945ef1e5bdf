# Verification of the trading agency

TLA+ models, TLC runs and TLAPS proofs for the Python program under `src/`: an
agency that trades Binance USD-M futures from short-lived processes which share
a few JSON files. File names below are relative to `src/scripts/` unless they
say otherwise.

What makes this program hard is that *nothing is a server*. Trading cycles, the
watcher, the reconciler, the position sync, the approval CLI, the Telegram bot
and the operator's one-shot commands are processes of their own. They meet in
`data/*.json`, some under a lock and some not, and on the exchange, which acts
on requests whose answers get lost and closes positions by itself. The models
are therefore models of interleavings: a step is what one process does between
two looks at shared state.

## 1. Inventory

| Part | State it keeps | Operations | Meets | What makes it correct |
|---|---|---|---|---|
| Safety state (`safety_state.py`, `run_safety_reset.py`) | `risk-state.json`; mirror in `system-health.json` | load, save, rollover, record_trade_close, pause, resume, reset, check_can_trade | cycles, watcher, rescue, operator, bot | a pause ends only as documented; the day's PnL is the day's closes |
| Limits (`limits.py`) | none | check_proposal: caps, duplicates, re-entry cooldowns | cycles, the rows of every writer | caps hold although check and act are apart; a symbol that was just closed waits |
| Health check (`health_check.py`) | reads both flags | run_health_check | start of every cycle | a paused agency does not trade, and trades again when it may |
| Full-auto cycle (`run_full_auto_cycle.py`) | its own candidates, screened or from the watchlist | gates, assemble, review, fire, persist | safety, limits, router, positions | no entry after a block, but the one in hand; every fill gets a row |
| Live cycle (`run_live_cycle.py`) | its own candidates | queue, sizing, verdict, ask, fire, persist | the same, approvals | nothing unapproved that should be asked |
| Pending approvals (`pending_approvals.py`, `run_approvals.py`) | `pending-approvals.json` | upsert, transition, expire, prune; list/approve/reject/inline | live cycle, user, bot | no order without an OK; an OK is acted on; no open question is lost |
| Approval policy, risk engine, symbol filters (`approval_policy.py`, `risk_engine.py`, `symbol_filters.py`) | none | evaluate, size_from_risk, evaluate_proposal, round/validate | live cycle | a stopped trade loses at most the budget; the ask-first rules apply |
| Execution router, live execution, signed client (`execution_router.py`, `live_execution.py`, `binance_signed_client.py`) | session flag; orders on the exchange | fill, brackets, rescue, queue; retries | exchange, safety | no position without a stop unless the switch is on |
| Positions store (`positions_store.py`) | `open-positions.json` | upsert, apply_watcher_updates (locked) | cycles, watcher, scripts | no write undoes a newer one |
| Watcher, exit simulator (`watcher.py`, `exit_simulator.py`) | a tick's snapshot | load, decide, book, merge or upsert | store, safety | a closed row stays closed, stops do not go back, PnL is booked once |
| Position manager (`position_manager.py`, `run_reconcile.py`) | `system-health.json` | reconcile, record_health | store, exchange | an alarm has a cause |
| Position sync (`binance_position_sync.py`) | `manual-positions.json` | sync_binance | store, exchange | untracked positions are found, announced once, forgotten when gone |
| Emergency close (`emergency_close.py`) | none | list, close each, verify, report | exchange | closes what it listed and opens nothing; success means flat |
| Paper cycle and execution (`run_paper_cycle.py`, `paper_execution.py`) | rows of the same store | depth-aware fill, open | store, watcher | bought in full or not at all; later sold once |
| Backtester (`backtester.py`) | a position in memory | manage, search, window end | exit simulator | PnL is that of the fills; losses stay at the planned stop |
| Telegram bot (`telegram_bot.py`, `telegram_commands.py`, `telegram_claude_bridge.py`) | offset in `telegram-state.json` | poll, handle a batch, store the offset; pause, resume, approve, reject; --register | Telegram, safety state, approvals | no command is lost, a repeated one does little harm, the owner's last word stands |
| Mode manager, env loader, account, market data, journal, notifier, screener/research/scoring, learning, profit protection | see `PROJECT.json` | I/O, parsing, heuristics | – | not modelled, section 8 |

How they interact: a cycle runs the health check, rolls the day over, checks
the switch, then for each candidate reads the safety state and the rows, does
market research (seconds to minutes), sizes, and fires through the router; a
fill becomes a row. Between any two of those reads the watcher may book a loss
that breaches a limit, the operator may pause, a bracket may close a position,
another cycle may fire. The approved queue is fired at the start of a live
cycle from a list loaded once. The watcher ticks over a snapshot and writes
back under the store's lock. Reconcile and sync read the store and the exchange
one after the other, in opposite orders.

The list of what is hard to test, each at its line, is `hazards` in
`PROJECT.json`.

## 2. Modules and how they correspond to the code

| Module | Models | State ↔ code |
|---|---|---|
| `SafetyRules` | every `SafetyStateManager` call as an operator on a record, `check_proposal`'s safety caps, the health check's verdict | the record is `SafetyState`; times are ticks, a day is `DayLength` ticks |
| `SharedSafety` | the manager's calls as an unlocked load and one or two saves of the whole file; used by the next and by `RemoteControl` | `risk` is `risk-state.json`, `calls` the copies in the hands of processes |
| `SafetyGate` (`MCSafetyGate`) | those calls made by cycles, watcher, operator, reset and audit, with the clock and the mirrored file; a kill between any two of load, replacement and mirror | `sysPaused` is the flag in `system-health.json`, `mirrors` the writes of it about to happen, `pc` splits a cycle where it reads shared state; `ledger` and `spoiled` are history |
| `PendingApprovals` (`MCPendingApprovals`) | every store call as a *load* step and a *save* step, the CLI, the inline dialogue, the live cycle as worker | `file` is the JSON file, `saves` the calls between load and `os.replace` |
| `AtomicEntry` | abstract: what `_fill_live()` promises its caller | – |
| `LiveEntry` | `_fill_live`, brackets, rescue, `_do_request`'s retries, the exchange; implements `AtomicEntry` | one attempt of a request is a step; `applied` says whether the exchange has acted on the request under way; `doubled` to `careless` are history |
| `Watcher` (`MCWatcher`) | `watch_open_positions`, `apply_decision`, `upsert`, `apply_watcher_updates`; opener, sync scripts and auto-adjust monitor beside them | `row` is the file, `view` a tick's snapshot, `writes` its route back |
| `Admission` | `size_from_risk`, `evaluate_proposal`, filters, `evaluate` (policy) as operators over integers | exact arithmetic, percents |
| `LiveSession` (`MCLiveSession`) | the live cycle as far as it decides which orders go out | `done` is `router._first_live_trade_done` |
| `Reconcile` | `reconcile()` as operators | rows have a symbol and a signed size, the exchange one signed size per symbol |
| `PositionTracking` | cycles' check, fire and upsert, the queue that writes no row, ids that collide, `--emergency` ticks, brackets, the user, sync and reconcile with their two reads | `exch`, `rows`, `manual` are exchange, `open-positions.json`, `manual-positions.json` |
| `ExitRules` | `simulate_market_fill`, `decide_from_candle`, `apply_decision` for simulated positions, as operators over integers | prices in ticks, slippage and fees as fractions; `Precedence` is the order of the code's early returns |
| `PaperTrade` (`MCPaperTrade`) | `backtest_candles`' loop; `run_paper_cycle`'s opening and the watcher's tick over its row | `pos` is `open_pos` or the row; `Kept` is the store's merge; `fills`, `sold` are history |
| `EmergencyClose` | `emergency_close_all()` against a moving account | `closing` is what is left of the listed positions |
| `RemoteControl` (`MCRemoteControl`) | `poll_once()`, its handlers that write, `--register`; a watcher's close and a live cycle beside them, over `SharedSafety`; a `transition()` is a load and a save, an order and its entry are apart | `offset` is `telegram-state.json`, `confirmed` what Telegram will not hand out again, `entry` one proposal, `draft` that proposal in the copy of a writer of another one, `log` the chat |
| `SharedStore` (`MCSharedStore`) | one `open-positions.json` for both modes: the full-auto cycle's candidate list, limits and cooldowns, the paper cycle, the watcher's (`--emergency` too) and the scripts' closes, fills no row tells of, `make_position_id`, `reconcile` over all open rows | `store` is the file, `exch` the exchange, `cycle` the full-auto cycle; `unrecorded`, `overwritten`, `untracked` are history |
| `SafetyGateProofs` (also of `EmergencyClose`), `TrackingProofs`, `LiveEntryProofs`, `PendingApprovalsProofs`, `WatcherProofs`, `RemoteControlProofs`, `LiveSessionProofs`, `PaperTradeProofs` (also of `SharedStore`) | theorems | section 6 |

The modules overlap on purpose and not in what they say: each takes from its
neighbours only what crosses the border. `SafetyGate` knows that a rescue
pauses, `LiveEntry` when it does; `PositionTracking` knows that a fire fills,
is refused or is rescued, `LiveEntry` why; `LiveSession` takes any queue,
`PendingApprovals` says which queues there are and has any number of entries,
`RemoteControl` follows one of them. `SafetyGate` and `RemoteControl` both make
the safety manager's calls over `SharedSafety`, unlocked: `SafetyGate` has days,
the mirrored file and the cycles' candidates, `RemoteControl` the bot and stays
within one day. `Watcher` has the
inside of a store call and of a tick; `SharedStore` takes store calls for one
step (they lock the file) and looks at what the rows of one program make another
do. `SharedStore` has the cycle without `--reconcile-first`, under which a row
of a paper position ends the cycle (section 5).

`EmergencyClose` and `SharedStore` share a proof module with another component;
so their `Init`, `Next`, `Spec`, `TypeOK` and `vars` carry a prefix.

Operators whose comment begins with *Mutant* are plausible bugs of one
definition. They are used by no specification; `PROJECT.json` lists for every
checked property a mutant that, put in the place of the definition, makes TLC
find the property violated.

## 3. Runs

| Run | Instance | Shows |
|---|---|---|
| `safety_gate` | one cycle process that runs either cycle, a watcher, an operator, a reset; a midnight, 2 closes of ±1 against a loss limit of 2 and a streak limit of 1, one operator command or audit; any kill | `DailyLossPauseUntimed`, `OneLateEntry`, `DayPnlMatchesLedger`, `PauseEndsLegitimately` |
| `safety_cooldown` (violation) | one full-auto cycle under fairness, two losses | a streak cooldown never clears by itself |
| `approvals` | 2 ids, one user process, one live cycle, 2 commands, one crash | `FiredOnlyIfApproved`, `RefireNeedsCause`, `NoOpenEntryVanishes`, `ApprovedSettles` |
| `live_entry` | 2 entries, 2 retries, any answer may be lost, entry and close repeatable, one crash | `NakedAccounted`, `StopsAccounted`, `NeverOverfilled`, refinement `AtomicPromise` |
| `watcher` | a paper and a live position, 2 watchers, one crash | `TickUndoesNothing`, `BookedOncePerWatcher` |
| `watcher_clobber` (violation) | trailing enabled, one watcher | a suppressed trail reopens a closed row |
| `live_session` | 3 filter sets, all raw prices to 8, leverages 0, 3, 6 | `SizeIsLargestThatFits`, `FirstLiveTradeAsked` |
| `tracking` | a full-auto and a live cycle, a sync, a reconcile, 2 symbols, cap 1, one trade by hand or from the queue, one failed read; ids may collide, any row may be marked closed | `RowsCapped`, `LoopTracksItsEntries`, `AlarmExplained`, `DriftSettles` |
| `paper_trade` | both keepers, 6 plans, 4 books, all candles with prices 1 to 6, ATR 0 or 1, 5 bars | `TradeIsItsFills`, `LossBounded` |
| `emergency` | 2 symbols, 4 trades of others, one request sent again, one failed verification | `NothingLeftBehind`, `SuccessIsFlat` |
| `remote_control` | 4 chats of one or two messages, a stranger among them, one losing close at a limit of 1, one kill or failing handler, one `--register`, one approval put back by another's copy | `NoneSkipped`, `OneOrderPerApproval`, `LastWordStands`, `CommandsHandled` |
| `shared_store` | 2 symbols, cap 2, 3 rows, clock to 2, windows of 2 and 1, one untracked fill at a time per symbol, a watchlist that names a symbol twice | `ReentryNeedsPaper`, `DirtyExplained` |

The violation runs check one documented statement each; `findings` in
`PROJECT.json` quotes it with its line, and the code's lines.

### Bounds

Every bound is a named CONSTANT used in a guard. They are small because the
hazards are: each needs two or three actors and two or three steps of each.

* `safety_gate`: `DayLength` 1 and the clock to 1 give one midnight; every load
  may stand on one side of it and its save on the other. Two closes of ±1 reach
  the loss limit, the streak limit (with a cooldown of one tick, over before the
  run is) or both one after the other. The four processes hold a copy each, so a
  save may be older than up to three others. One command is a pause with a
  window, a resume, a reset or an audit; pauses without a window come from the
  breach, the mismatch and the rescue. One process runs the full-auto or the
  live cycle, as the scheduler starts one at a time; for several cycles at once
  there are the theorems. `LastEventTime`, here the end of the clock, is for
  `safety_cooldown`: two losses early on, then time to wait.
* `approvals`: two ids are needed for a save that is stale about *another*
  entry; two commands and one crash for each way of firing twice.
* `live_entry`: two entries show what the first one leaves to the second; two
  retries have a first, a middle and a last attempt.
* `watcher`: two watchers show flushes out of order; stop and MFE have two
  levels each, enough for one to be older than the other.
* `live_session`: the three filter sets are chosen so that budget, bump to
  MIN_NOTIONAL and margin cap each decide the size for some candidate, and the
  cap gives way for some; one price unit is a large relative step, so all
  rounding boundaries occur.
* `tracking`: a cap of one makes the second cycle's review the critical one;
  two rows and one foreign trade give every kind of mismatch on one symbol
  while the other stays clean. One failed read is enough to forget a symbol.
  Entries of the run are LONG; the proofs are for both sides.
* `paper_trade`: a long trade's life of at most five candles holds two partial
  exits, a trail and an age limit of two bars; every candle of six prices
  occurs at every bar, so every pair of exits falls due on one of them. `Lot` 2
  makes a coin two steps, so that half of a position is rounded up, rounded
  down, raised to one coin or cut to what is left. The plans have one to three
  targets; the books are deep, thin, and gapped to beyond the stop or a target.
  Slippage of 1/20 and fees of 1/10 are far above the code's 5 basis
  points each, which keeps them visible beside prices of a few ticks. `Prices`
  holds the average prices a fill may have, in whole ticks.
* `emergency`: four trades give a position of two that is reduced in part and
  one that turns over between listing and order; one resend carries an order out
  twice, and an order given up may have been carried out.
* `remote_control`: two commands make a batch that can be half done, or two
  batches; a close and a cycle give the two other processes that load and save
  the switch; one kill, one `--register` and one lost answer each set the offset
  back once. One copy of another writer, held as long as it likes, shows what its
  save undoes: with `Drafts` {"approved"} it makes an executed or rejected
  proposal approved again. Longer chats repeat these pairs.
* `shared_store`: three rows are a live close, a paper row after it and the
  entry that should have waited; the loss window of 2 outlasts the profit window
  of 1, which runs out within the run. That a loss window runs out is seen in
  the theorem, and nothing but time follows it. One untracked fill per symbol is
  one more than rows can explain. One tick is the resolution of ids and of
  `closed_at` at once; nothing is closed in the tick it was opened in. Two
  positions of one tick may share an id, as two of one second do.

`CHECK_DEADLOCK FALSE` stands where the bounds stop every actor (clock, trades,
entries used up); the program itself would go on.

### Fairness

* `SafetyGate`: weak fairness of the clock, of each cycle's step and of calls
  once begun: cycles are started by a scheduler (`src/claude-code-routine.md`,
  `src/github-setup.md`), every request has a timeout, and between load and save
  there is nothing to wait for. Operator, watcher and closes need not begin one.
* `PendingApprovals`: weak fairness of each live cycle, which is started again
  after it was killed; the user owes nothing.
* `PositionTracking`: weak fairness of every sync and reconcile, which are
  scheduled each minute and at each stop (`github-setup.md:191`,
  `claude-code-routine.md:347`); cycles, account and user are not fair, and
  `DriftSettles` promises something only once they have come to rest.
* `RemoteControl`: weak fairness of the bot's step while its process lives
  (`while True: poll_once()`, every request has a timeout), strong fairness of
  an answer to it: a bot that asks again and again is answered once. Nobody has
  to start a dead bot again, and `CommandsHandled` says so.

## 4. Properties worth a remark

* `OneLateEntry` - the code checks before every candidate, not before every
  order; one entry per cycle can still go out after the switch, and the
  invariant says *at most one*. The approved queue has no such bound: it is
  fired to its end (`execution_router.py:248`).
* `PauseEndsLegitimately` - whoever has *seen* a pause ends it only as
  documented. A call that had loaded the state before the pause was set saves
  over it all the same (`safety_state.py:248`, `317`): nothing locks the file.
  The property names that release (`Releases`) with the documented ones.
* `DayPnlMatchesLedger` - an unlocked save loses the closes it has not seen. A
  day is in `spoiled` once a call has replaced a file whose PnL was not the one
  it had loaded; on every other day the sum is exact, through rollovers noticed
  by any process, resets, and kills between two saves of one close.
* `NakedAccounted` - an equation over causes: what no stop covers is at most
  the entry in flight plus orders carried out twice, entries whose answer was
  lost, rescues that could not close and crashes. `AtomicPromise` says the
  same as a refinement: without one of those causes the detailed router
  implements `AtomicEntry`.
* `RowsCapped` - the cap is checked on rows that are not written yet.
  Whatever the interleaving, it is exceeded by at most one row per *other*
  cycle.
* `AlarmExplained` - reconcile and sync look at two sides at two times. An
  alarm nevertheless means that the sides differed at some moment of the
  audit, because no step changes both and every change of the
  exchange alone is drift. It fails only for a sync whose read failed.
* `DriftSettles` - eventual consistency: once rows and exchange stay,
  `manual-positions.json` becomes and stays the set of untracked symbols,
  whatever was crossed or misread before.
* `TradeIsItsFills` - the code adds PnL up in increments over partial exits and
  the window's end; the property computes it once more from the sales, as
  turnover less cost less fees, and asks that every unit bought was sold.
* `LossBounded` - in whatever order stops, targets, trails and age fall due, a
  simulated trade loses at most what selling it whole at the planned stop
  costs. This needs the stop to be looked at before the age, and no stop ever
  to move against the position.
* `TradeIsItsFills` also bounds what the watcher's merge loses of a paper trade:
  at most one partial exit for each target noted as taken is sold beside the
  fills that count.
* `NoneSkipped` - at-least-once delivery: the offset is stored after the batch,
  and neither a crash, a lost answer, an unreadable state file nor a second
  writer of it makes Telegram forget a command that was not handled.
* `OneOrderPerApproval` - the price of that: `transition()` does not look at the
  status it leaves, so a redelivered `/approve` makes an executed proposal
  approved again. The invariant bounds it by the causes of a redelivery, and adds
  one order for each live cycle that died between order and entry
  (`execution_router.py:290`) and for each approval that another writer's older
  copy has put back (`pending_approvals.py:184`).
* `LastWordStands` - repetition is harmless for the switch because a batch is
  repeated to its end; it fails only when a crash falls into a repetition that a
  lost offset had caused, or when another process saves an older copy.
* `ReentryNeedsPaper` - says precisely when a cooldown is lost: a paper row of
  the symbol that ended since, because only the last closed row counts and the
  exit simulator's reasons are in neither list. It speaks of one live cycle at a
  time; a second one could open and close a row between review and order.
* `DirtyExplained` - a dirty reconciliation has one of five causes, kills
  included: a paper row of the symbol, a fill or a close not written down yet, a
  row replaced by another of the same id, or a position no row tells of.
* `LoopTracksItsEntries` - rows and exchange part only for a named cause: what
  moves the exchange alone (brackets, the user, the queue, an entry whose answer
  was lost, a rescue that failed), what moves the rows alone (the operator, an
  `--emergency` tick, a row replaced by one of the same id), or a cycle killed
  between fill and upsert.
* `NothingLeftBehind` - a reduce-only order carries a side and a size that are
  out of date on arrival. What the property excludes is an order that leaves a
  part of the listed position or turns it round while being counted as done;
  orders that raised or were filled in part are its exceptions, and
  `SuccessIsFlat` says they are reported.

## 5. Observations

Seen while modelling, and not runs of their own:

* An entry that fills and whose answer is lost leaves a position with no stop
  and the switch off: `place_market_entry()` (`execution_router.py:384`) is
  called outside any try, and its error is taken for a rejection by the queue
  (289-296) or ends the cycle. `execution_router.py:405-408` says "We MUST
  either (a) place both successfully and return ``filled``, or (b) immediately
  reduce-only MARKET close the entry, pause safety, and return
  ``naked_rescued``. There is no third option". `NakedAccounted` counts it in
  `unacked`, and `AtomicPromise` excuses it.
* A partial take-profit of a paper position goes through the watcher's merge
  (`watcher.py:288`), which keeps the note `partial_tp_at` and drops quantity,
  realized PnL, stop and status; the target is not tried again, and the whole
  quantity is sold at the end. `positions_store.py:63` says of quantity
  "remaining open qty (decreases on partial exits)", `exit_simulator.py:315-316`
  "qty/realized_pnl/fees are updated incrementally; status becomes
  ``partial_exit`` until everything closes". `TradeIsItsFills` counts it.
* `--emergency` ticks close live rows with no order sent (`exit_simulator.py:60`),
  although `exit_simulator.py:322` says "only the exchange's truth (or a
  sync-driven reconciliation) is allowed to close a live position". Nothing
  tells of the position from then on (`DirtyExplained` counts it in `untracked`).
* The calls of `SafetyStateManager` do not lock `risk-state.json`: a close booked
  between another call's load and its save is missing from the day's PnL
  (`safety_state.py:248`), and a pause set in that time is gone
  (`safety_state.py:317`), whether it came from a limit, a rescue or the owner.
* `execute_approved_queue()` looks at the switch once, at its start; a rescue
  within it pauses, and the queue is fired on.
* `make_position_id()` (`positions_store.py:472`) is made of the second, the
  symbol and the entry's number in its cycle: of two cycles that persist the
  first entry of a symbol in one second, one's row replaces the other's.
* `watcher.py:219-222` says of a live trail "If anything fails, we leave both
  local and exchange state untouched"; the executor cancels before it places,
  and a failed place leaves no stop. No script passes an executor.
* Of the Telegram bot: a killed bot that repeats a batch and is killed again
  half way may leave an older `/pause` or `/resume` standing; a save of another
  process from an older copy undoes a `/pause` that was answered "paused"; a
  `/pause` before the first rollover of a day is taken back by that rollover,
  being unflagged; an edited message is handled as a new command.
  `telegram_bot.py:11` says "If Telegram is down, the bot logs and exits
  cleanly", but `--poll` asks again at once, for ever. `/resume` looks at
  nothing, `/emergency` and `/close` only answer with a command to run.
* With `--reconcile-first` a single open paper row ends the live cycle, and makes
  the full-auto cycle pause the agency with carry-over.
* `run_live_cycle.py:343` calls `route()` without `daily_pnl_usdt`, whose
  default is 0 (`execution_router.py:163`): the near-limit rule of the approval
  policy never fires, although `run_live_cycle.py:14` says "Daily loss ≥ 75% of
  limit always asks" (so do `approval_policy.py:11` and `src/wiki.md:267-269`).
* `manual-positions.json` is read by no cycle, although
  `src/agents/position-manager-agent/agent.md:12-13` says that manual positions
  count toward `max_open_positions` and block duplicates of their symbol.
* A partial exit sets the stop to the entry (`exit_simulator.py:198`), also when
  a trail had already moved it beyond. What a trail sets on a paper row, the
  merge drops.
* A paper fill far from the plan may lie beyond its own stop; the next candle
  then closes it "at the stop", a price that was never traded.
* The re-entry cooldowns know `sl_hit`, "historical exit-reason string used by
  exit_simulator" (`limits.py:31`), and `tp_hit`; the exit simulator writes
  `stop_hit` and `full_tp`, for which no cooldown applies. A paper close with
  one of these lifts the cooldown of a live loss (`ReentryNeedsPaper`).
* `profit_protection.advise()` may suggest the entry as a stop when the stop is
  past it already, though its header says that a stop is never widened.
* Two stale saves of `pending-approvals.json` can execute one OK twice with no
  crash; `RefireNeedsCause` counts them in `lost`. Two live cycles at once need
  not even that: `route_approved_queue()` works on a list loaded once
  (`execution_router.py:248`), so both fire every entry they both have read.
  `RefireNeedsCause` therefore counts an OK once for each live cycle. The run
  has one, as the scheduler starts one; the theorem has any number.
* A repeated POST can double an entry (`src/memory/execution-errors.md:226-229`);
  `doubled` counts it.
* The bump to MIN_NOTIONAL in `size_from_risk` can never succeed in exact
  arithmetic; a quantity above the maximum is refused, not clamped; the leverage
  cap never cuts, for `run_live_cycle.py:256` raises it to the request.
* `record_health()`'s pause lives in `system-health.json` only and is
  overwritten by the next save of the safety state.
* `new_trades_allowed` and `last_reconciliation_clean` are read by nothing. A
  sync with a failed read and no open rows reports `new_trades_allowed` true.
* `reconcile()` compares two rows of one symbol with the same position, each by
  itself; the status `closing` is never set; paper rows lie in the same file
  and dirty a live reconcile or hide an untracked position.
* An operator's script that closes rows between the two reads of a sync makes
  it announce a manual position that is none; a failed read makes it forget all
  manual positions, which are new again at the next sync.
* An emergency close whose verifying read fails may report success unverified
  (`emergency_close.py:141-143`), though its docstring says "verifiably flat".
* `mode_manager --set` persists twice, and the second write overwrites the
  first; `require_approval_for_first_trade_of_session` is read by nothing.

## 6. Proofs

All theorems hold for every value of the constants that satisfies the named
assumptions (`LimitsAssumption`, `GateAssumption`, `TrackingAssumption`,
`EntryAssumption`, `EmergencyAssumption`, `ApprovalsAssumption`,
`WatcherAssumption`, `RemoteAssumption`, `AdmissionAssumption`,
`ExitAssumption`, `PaperAssumption`, `SharedStoreAssumption`). They say that
bounds are naturals, sets of processes are disjoint, cycles, watchers and chats
are finitely many, `MaxOpen > 0`, prices and quantities are naturals, only
entries and closes are carried out again when repeated. Two theorems,
`TicksUndoNothing` and `BookedOnce`, have a hypothesis of their own, without
which TLC finds the property violated; it is named below.

Every safety invariant and every action property of a passing run is a theorem.
None of the invariants is inductive, apart from some types; each paragraph says
what has to be known besides.

**`SafetyGateProofs`.** None of the properties is inductive. A save may put back
whatever its call has loaded, so the invariant `IInv` speaks of the file and of
every copy in hand (`CallInv`) alike. *Pauses*: the pause fields fit each other
(`Clean`; `DailyLossPauseUntimed` needs that *every* release resets the window),
and a copy that is not paused has a release to name (`Released`), which is what
`PauseEndsLegitimately` needs when it lands. *Ledger*: what a call is going to
save is the PnL of its base, that with the close being booked, or a new day's
zero (`Saves`); the file's PnL is the ledger's entry and later days are empty,
unless spoiled (`Agrees`). A save from a copy that still knows the file's PnL
keeps that (`FreshSaveAgrees`), any other spoils all days it might touch
(`StaleSaveAgrees`). *Late entries*: a candidate that is still cleared has none
behind it, or the call that cleared it is about to save a state that does not
block, and there are none while trading is not blocked (`LateInv`). First each
rule is shown to keep a sound state, then what each call loads and saves, then
that each action keeps the invariant.
At the end of the module, of `EmergencyClose`: `Earned` (a position is no larger
than the trades that made it) makes `ECTypeOK` inductive, and `Pending` (until its
order is answered, a position lies between what was listed and flat, give or take
what others have traded since) makes `NothingLeftBehind` so: an order filled
whole takes all but the last part away, and one refused because nothing of its
side was left finds no more than that part (`WhollyLeavesTheRest`,
`RefusedLeavesTheRest`). `SuccessIsFlat` follows.

**`TrackingProofs`.** `CapInv` strengthens `RowsCapped` from rows to rows *and
candidates*: `Cardinality(rows) + Cardinality(Busy) <= MaxOpen +
Cardinality(Cycles) - 1`. A review counts rows only, but the reviewing cycle is
not busy yet, so at most `Cardinality(Cycles) - 1` candidates are outstanding
when it finds `rows < MaxOpen`. While no two cycles have overlapped there is
one candidate at most and its symbol has no row, which gives the exact cap.
Candidates have numbers of their own; the row a candidate becomes may take the id
of another and replace it (`Upserted`), which counts a row less and moves the
replaced row's symbol among the strayed (`ReplacedKeeps`). `Steady` strengthens
`AlarmExplained`: an audit that has seen no drift holds a view that is still
true (the sync's of the exchange) or that agrees with the exchange (the
reconcile's of the rows). It rests on two lemmas: `OneSideAtATime` and
`MoveIsDrift`. `CleanMeansEqual` says what the reconciler's verdict means.
`LoopsTrackTheirEntries` counts: the rows and filled candidates of a symbol,
told apart by `CapInv`, gain one element with a fill, and lose and gain one when
the row is written.

**`LiveEntryProofs`.** `NakedAccounted` and `StopsAccounted` say what a returned
call leaves; in the middle of one they are too weak to be kept. `Balanced` adds
what the request under way has still to add to either side: `Slack` (a unit
whose stop is not placed yet, or was cancelled), `Owed` (a stop to be placed or
a unit to be closed) and `Asked` (an entry not carried out), each a function of
the router's place and of whether the exchange has acted. A step is proved in
two halves: the exchange acts or does not (`Acting`, `IdleReaches`), whatever the
answer, and the router ends the request or tries again (`Finishing`,
`AgainKeeps`). `Fresh` - the stop of the entry under way is not there before it
is asked for - keeps a placed stop from being counted twice. `Promised` says
that without an excuse, and with the switch off, only the entry under way is
naked, and that it stays in hand until the pause is saved; with it every step
maps to a step of `AtomicEntry` or to a stutter (`EntryIsAtomic`).

**`PendingApprovalsProofs`.** `QueueInv == TypeOK /\ OneCallEach /\ OneVerdict
/\ Consent /\ Prudent`. A save may put back whatever its call has loaded, so
every part speaks of the file and of the copies in hand alike.
`FiredOnlyIfApproved` needs `Consent`: whatever is approved in the file or in a
copy, or is on a cycle's list, the user has said yes to. `NoOpenEntryVanishes`
needs `Prudent`: a call drops only entries that were closed when it loaded them,
so that an open one is lost only under a save whose base is no longer the file.
`RefiresHaveCause` keeps an account for each id, `Paid`, for any number of live
cycles: an OK and a lost update are each worth one order *per cycle*, for all may
load the entry before the first of them writes its outcome, and a kill is worth
one order, the one whose outcome the killed cycle owes. What has been fired, the
cycles that still may (`Ready`: the entry is on their list, or approved in the
file and not spoken for by an outcome of theirs), and the OKs on their way into
the file are covered by that. A step either brings a cause, which pays for every
cycle being ready again (`CauseStep`), or makes no cycle ready (`EvenStep`).

**`WatcherProofs`.** A tick works on copies of rows the others go on writing.
`TickInv` adds to the types that open rows have something left, that a row still
to be looked at is open in the tick's copy with no write planned, and that a full
upsert writes a closed row, or a live trail's row of untouched size; then no
partial exit takes more than is left, whichever switches are on.
`TicksUndoNothing` has the hypothesis `Trailing => Live = {}`: with live
positions trailed it is false (the run `watcher_clobber`). `BookedOnce` keeps an
account for each position: while the file has it open, every booking is in the
hands of a watcher about to persist it or died with one; afterwards only ticks
that still have the position before them may book it. Its hypothesis is
`~(Trailing /\ Emergency)`: with both on, a suppressed trail of one watcher puts
back the row another has closed, and `--emergency` books it again, without
bound. The run `watcher` has trailing off.

**`RemoteControlProofs`.** The confirmed offset, the stored one, the one a batch
will store and the one `--register` holds are four markers in the chat. `IInv`
is the types and where the markers can be (`Shape`); the three properties say
what is true below each marker. `NoneSkipped`: everything below any of them was
handled. `OneOrderPerApproval`: the orders sent, and the approval an order has
not answered yet, are covered by the approvals that lie behind the bot, each
once, by all of them once more for each bot killed and each offset put back, and
by one for each cycle that died owing its entry and each approval put back by
another's copy (`FireInv`). `LastWordStands`: there is an update the switch follows, and the
owner said nothing later below any marker, or what he said lies in the rest of
the batch in hand, which will be handled to its end (`Tracks`). They hold for any
finite set of chats of any length.

**`LiveSessionProofs`.** `LargestSizeThatFits` compares the code's chain of
rounding down, bumping to MIN_NOTIONAL and capping with the reference (the
largest quantity that fits) by arithmetic alone: rounding down gives the largest
multiple of the step within the budget (`FloorIsLargest`), and bumping and
capping leave the largest quantity that is then allowed (`BumpedLargest`,
`CappedLargest`). `FirstTradeAsked` needs `FlagInv`:
the router's flag goes up only with an order, and until it does every candidate's
order waits for an OK.

**`PaperTradeProofs`.** `TradeInv == Program /\ Holding /\ Booked`. `LossBounded`
speaks of trades that are over. On the way, the units *sold so far* have brought
no less than they would have brought at the planned stop (`Bounded`): this is
additive over exits where the amount itself is a long sum. No exit is worse than
that because every target lies beyond the planned stop (`Kempt`) and the stop is
never on the wrong side of it (`Stopped`), and because a candle is looked at for
the stop before anything that sells at its close. Cash is monotone in the price,
slippage and fees included. It holds for any sound plans, books and candles.

`TradeAddsUp` and the theorems on fills are about recursive functions over a
sequence. The induction they need is over a *set* of naturals in place of a
predicate (`SetInduction`: its complement would have a least element), and a
recursive definition over an interval is shown to have a solution when each value
is that of a function of the one before (`Recursion`); from there on a sum is
known by its first value and its steps (`TotalDef`, `TotalAppend`).
`TradeIsItsFills` speaks of closed trades; `Settlement` says of an open one that
what is realized is what its sales so far come to (`Accounted`: `Turnover` and
`Units` grow with each sale by what `Cash` adds), and, under the watcher, that
what was sold beside them is at most one partial exit for each note taken.
`FillTakesAllItCan` and `FillIsBest` say what `simulate_market_fill()` computes
for *every* book: the lesser of what is wanted and what is there, at the best
money the book has for that quantity. The second goes along the levels: the
greedy walk is ahead in units of any other way through the book, and had the
other bought its lead at the present level's price, it would have done no better
(`LeadKeeps`).

At the end of the module, of `SharedStore`: `StoreInv == Shaped /\ RowInv /\
Reviewed /\ Balanced`. `ReentryNeedsPaper` speaks of the moment an order goes
out, minutes after the limits looked at *one* close of the symbol, the last. That
the look speaks for all closes needs `Settled` (what was closed before the symbol
was opened again had cooled by then, or a paper trade had ended since) and
`Ordered` (of two live rows of a symbol one was closed before the other was
written); that it still holds when the order goes out needs that a closed row is
never written again, for which it must have been closed later than it was written
(`Dated`, from the bound on `Close`), and that nobody else writes live rows.
`DirtyExplained` follows from `Balanced`, an equation: of a symbol none of whose
rows was overwritten, position and closes not written down add up to the open
live row, the fill under way, and what no row tells of. `SharedTypeCorrect`
needs `Filed` besides: every number the running cycle has given to a row of its
own is in the file (`Numbered`), so that it has opened no more rows than the file
holds; that the candidates are symbols, each once, is what picking places of an
injective list keeps (`AtKeeps`, `CandidatesOnce`).

Only model-checked: the liveness properties `ApprovedSettles`, `DriftSettles` and
`CommandsHandled`, which are out of the prover's reach. `CooldownClears` and
`ClosedStaysClosed` are violated by the code; their runs show the counterexamples.

## 7. Plan

1. Proofs: `AtomicPromise` for several entries at a time, should the router ever
   fire them so; `ReentryNeedsPaper` for several live cycles, with what a second
   one does between review and order named.
2. More of the system: the halt of `--reconcile-first` in `SharedStore`, the
   live trail's cancel-then-place once a script passes an executor, the advice
   of `profit_protection.py` once a script asks for it.

## 8. Not modelled, and why

* Screener, research, scoring, indicators, trend scanner: heuristics over
  market data without shared state; the models take any candidate.
* Market data, account, public client, user stream, journal, Telegram
  notifier, env loader: parsing and I/O.
* Learning and the backtester's aggregates: offline statistics.
* Profit protection: imported by no script at this commit.
* Mode manager: preconditions of a CLI; no other process races with it.
* Signing, URLs, backoff times, margin mode and leverage calls, limit entries.
* `fcntl`-less platforms, where the store's lock is a no-op.
* A `pause()` that raises while its cycle goes on: in `LiveEntry` only, where the
  rescue survives it; in `SafetyGate` a call that fails is a killed process.
* An unreadable state file: the atomic replace keeps the program from producing
  one. It would be read as a fresh state (`safety_state.py:366`,
  `positions_store.py:208`). Only `record_health()` writes without it (`position_manager.py:215`): whoever reads or is killed in
  the middle of that finds no flag, and `risk-state.json` still has its own.

External, modelled from how the code uses it: the exchange (acts at most once
or, for repeated market orders, again; triggers resting orders; refuses
reduce-only orders that would not reduce), the UTC clock, kills, the user, and
the operator scripts and the auto-adjust monitor that write through the store.

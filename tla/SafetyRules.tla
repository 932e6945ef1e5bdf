---------------------------- MODULE SafetyRules ----------------------------
(***************************************************************************)
(* The rules of scripts/safety_state.py, scripts/limits.py and             *)
(* scripts/health_check.py as operators on one SafetyState record.  Money  *)
(* is an integer number of USDT units, time a number of ticks, a UTC day   *)
(* DayLength ticks.  paused_at, last_trade_at and the last_period archive  *)
(* are written but never read by a decision, and are left out.             *)
(***************************************************************************)
EXTENDS Integers

CONSTANTS
  DailyLossLimit,     \* SafetyLimits.daily_loss_limit_usdt; 0 disables it
  StreakLimit,        \* SafetyLimits.consecutive_loss_limit; 0 disables it
  CooldownTicks,      \* cooldown_minutes_after_consecutive_losses; 0: none
  HealthStreakLimit,  \* the limit health_check.py falls back to
  DayLength           \* ticks of a UTC day

ASSUME LimitsAssumption ==
  /\ DailyLossLimit \in Nat
  /\ StreakLimit \in Nat
  /\ CooldownTicks \in Nat
  /\ HealthStreakLimit \in Nat \ {0}
  /\ DayLength \in Nat \ {0}

NoTime == -1          \* paused_until_iso = None
NoDay == -1           \* daily_period_start = ""

Reasons == {"none", "daily_loss", "consecutive", "mismatch", "naked", "manual"}

DayNumbers == Nat \cup {NoDay}
Deadlines == Nat \cup {NoTime}

SafetyStates ==
  [pnl: Int, day: DayNumbers, losses: Nat, wins: Nat, trades: Nat,
   paused: BOOLEAN, reason: Reasons, until: Deadlines, carry: BOOLEAN]

\* SafetyState(): what load() returns when there is no risk-state.json yet.
FreshState ==
  [pnl |-> 0, day |-> NoDay, losses |-> 0, wins |-> 0, trades |-> 0,
   paused |-> FALSE, reason |-> "none", until |-> NoTime, carry |-> FALSE]

Today(now) == now \div DayLength

-----------------------------------------------------------------------------
\* Mutant: a release that forgets paused_until_iso.
ClearPauseKeepsWindow(s) == [s EXCEPT !.paused = FALSE, !.reason = "none"]

\* The three fields every pause release resets.  The carry-over flag is not
\* one of them: only resume() clears it.
ClearPause(s) == [s EXCEPT !.paused = FALSE, !.reason = "none", !.until = NoTime]

\* Mutant: the day changes but the PnL of the old one stays.
RolloverKeepsPnl(s, today) ==
  IF s.day = today
  THEN s
  ELSE LET fresh == [s EXCEPT !.day = today, !.trades = 0]
       IN  IF s.paused /\ ~s.carry THEN ClearPause(fresh) ELSE fresh

\* Mutant: a rollover that ignores the carry-over flag.
RolloverDropsCarry(s, today) ==
  IF s.day = today
  THEN s
  ELSE LET fresh == [s EXCEPT !.day = today, !.pnl = 0, !.trades = 0]
       IN  IF s.paused THEN ClearPause(fresh) ELSE fresh

\* perform_daily_rollover_if_needed()
Rollover(s, today) ==
  IF s.day = today
  THEN s
  ELSE LET fresh == [s EXCEPT !.day = today, !.pnl = 0, !.trades = 0]
       IN  IF s.paused /\ ~s.carry THEN ClearPause(fresh) ELSE fresh

DailyLossBreached(s) ==
  DailyLossLimit > 0 /\ s.pnl < 0 /\ -s.pnl >= DailyLossLimit

StreakBreached(s) == StreakLimit > 0 /\ s.losses >= StreakLimit

\* _compute_breach(): the daily loss is looked at first.
Breach(s) ==
  CASE DailyLossBreached(s) -> "daily_loss"
    [] ~DailyLossBreached(s) /\ StreakBreached(s) -> "consecutive"
    [] OTHER -> "none"

\* record_trade_close() first moves the day's counters ...
Booked(s, pnl) == [s EXCEPT !.pnl = @ + pnl, !.trades = @ + 1]

\* Mutant: a win takes one loss off the streak instead of ending it.
StreakWinTakesOneOff(s, pnl) ==
  CASE pnl > 0 -> [s EXCEPT !.wins = @ + 1, !.losses = @ - 1]
    [] pnl < 0 -> [s EXCEPT !.losses = @ + 1, !.wins = 0]
    [] OTHER -> s

\* ... then the streaks; a PnL of zero leaves them alone.
Streak(s, pnl) ==
  CASE pnl > 0 -> [s EXCEPT !.wins = @ + 1, !.losses = 0]
    [] pnl < 0 -> [s EXCEPT !.losses = @ + 1, !.wins = 0]
    [] OTHER -> s

\* The pause record_trade_close() engages: only a losing streak is timed, and
\* only if a cooldown is configured.
BreachPause(s, now) ==
  [s EXCEPT !.paused = TRUE,
            !.reason = Breach(s),
            !.until = IF Breach(s) = "consecutive" /\ CooldownTicks > 0
                      THEN now + CooldownTicks ELSE @]

\* record_trade_close(net_pnl_usdt): roll over, count, then pause on a breach
\* unless already paused.
RecordClose(s, pnl, now) ==
  LET counted == Streak(Booked(Rollover(s, Today(now)), pnl), pnl)
  IN  IF Breach(counted) # "none" /\ ~counted.paused
      THEN BreachPause(counted, now)
      ELSE counted

\* pause(reason, carry_over_rollover, until_minutes): a window of 0 is None.
\* It overwrites an earlier pause whatever that was.
Pause(s, reason, carry, window, now) ==
  [s EXCEPT !.paused = TRUE, !.reason = reason, !.carry = carry,
            !.until = IF window > 0 THEN now + window ELSE NoTime]

\* resume(manual=True)
Resume(s) == [ClearPause(s) EXCEPT !.carry = FALSE]

\* reset_daily_counters(): forget the day, so that the rollover fires.
ResetDaily(s, today) == Rollover([s EXCEPT !.day = NoDay], today)

-----------------------------------------------------------------------------
WindowElapsed(s, now) == s.until # NoTime /\ now >= s.until

\* check_can_trade(force_rollover_check=False): its verdict ...
CanTrade(s, now) == ~s.paused \/ WindowElapsed(s, now)

\* ... and the state it leaves: an elapsed window is cleared and saved.
AfterCheck(s, now) == IF s.paused /\ CanTrade(s, now) THEN ClearPause(s) ELSE s

\* The hard caps of limits.check_proposal() that depend on the safety state,
\* without the per-cycle trade cap.
HardCap(s) == s.paused \/ DailyLossBreached(s) \/ StreakBreached(s)

\* run_health_check().trading_allowed, given a reachable API: the mirrored
\* flag of system-health.json, the flag and the streak of risk-state.json.
HealthAllows(s, sysPaused) ==
  ~sysPaused /\ ~s.paused /\ s.losses < HealthStreakLimit
=============================================================================

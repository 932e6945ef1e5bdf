----------------------------- MODULE SafetyGate -----------------------------
(***************************************************************************)
(* The kill switch and the trading cycles it guards.                       *)
(*                                                                         *)
(* `risk` is data/risk-state.json, `sysPaused` the trading_paused flag     *)
(* mirrored into data/system-health.json.  The cycles of                   *)
(* run_full_auto_cycle.py (AutoCycles) and run_live_cycle.py (LiveCycles), *)
(* a watcher that closes positions, the operator's commands and the audits *)
(* share both files without a lock: each call of the SafetyStateManager    *)
(* loads, replaces risk-state.json and rewrites the mirror in steps of     *)
(* their own.                                                              *)
(***************************************************************************)
EXTENDS SharedSafety

CONSTANTS
  AutoCycles,    \* processes that run run_full_auto_cycle.main
  LiveCycles,    \* those that run run_live_cycle.main; one of both sets runs either
  TradeCap,      \* SafetyLimits.per_cycle_trade_cap; 0 disables it
  QueueLen,      \* most approved proposals found in the queue of one cycle
  Pnls,          \* the net PnL a closed position may have
  Windows,       \* --until-minutes of an operator's pause; 0 is none
  MaxTime,       \* bound: the clock stops here
  LastEventTime, \* bound: nothing but the cycles and the clock moves after it
  MaxCloses,     \* bound: closes recorded
  MaxCommands    \* bound: operator commands and reconcile runs

Cycles == AutoCycles \cup LiveCycles

ASSUME GateAssumption ==
  /\ Procs = Cycles \cup {"watcher", "operator", "reset"}
  /\ Cycles \cap {"watcher", "operator", "reset", "audit"} = {}
  /\ TradeCap \in Nat
  /\ QueueLen \in Nat
  /\ Pnls \subseteq Int
  /\ Windows \subseteq Nat
  /\ MaxTime \in Nat /\ LastEventTime \in Nat
  /\ MaxCloses \in Nat /\ MaxCommands \in Nat

VARIABLES
  now,        \* the UTC clock
  sysPaused,  \* trading_paused of system-health.json
  mirrors,    \* writes of system-health.json that are about to happen
  pc,         \* where each cycle is, or goes when its call is over
  fired,      \* fired_this_cycle of each cycle
  queue,      \* approved proposals the cycle still has to fire
  late,       \* history: entries each full-auto cycle fired since trading got blocked
  booking,    \* history: the PnL of the close the watcher is recording, else 0
  ledger,     \* history: PnL recorded for each day, since the day's last reset
  spoiled,    \* history: days that a save from an outdated copy has touched
  closes,     \* bound counter: closes recorded
  commands    \* bound counter: operator commands issued

health == <<sysPaused, mirrors>>
books == <<booking, ledger, spoiled>>
bounds == <<closes, commands>>
vars == <<now, safety, health, pc, fired, queue, late, books, bounds>>

Stages == {"idle", "healthy", "rolled", "gated", "queue", "nakedInQueue",
           "loop", "cleared", "naked"}

Days == {Today(t) : t \in 0 .. MaxTime}

\* Trading is blocked when the switch is on or a loss limit is breached.
Blocked(s) == HardCap(s)

TypeOK ==
  /\ now \in 0 .. MaxTime
  /\ SafetyTypeOK
  /\ sysPaused \in BOOLEAN
  /\ mirrors \subseteq [by: Procs \cup {"audit"}, flag: BOOLEAN]
  /\ pc \in [Cycles -> Stages]
  /\ fired \in [Cycles -> Nat]
  /\ queue \in [Cycles -> Nat]
  /\ late \in [AutoCycles -> Nat]
  /\ booking \in Int
  /\ ledger \in [Days -> Int]
  /\ spoiled \subseteq Days
  /\ closes \in Nat
  /\ commands \in Nat

Init ==
  /\ now = 0
  /\ SafetyInit
  /\ sysPaused = FALSE /\ mirrors = {}
  /\ pc = [c \in Cycles |-> "idle"]
  /\ fired = [c \in Cycles |-> 0]
  /\ queue = [c \in Cycles |-> 0]
  /\ late = [c \in AutoCycles |-> 0]
  /\ booking = 0
  /\ ledger = [d \in Days |-> 0]
  /\ spoiled = {}
  /\ closes = 0
  /\ commands = 0

-----------------------------------------------------------------------------
(* The calls of the SafetyStateManager, whoever makes them. *)

\* A cycle that is over forgets what it has fired.
Goto(c, stage) ==
  /\ pc' = [pc EXCEPT ![c] = stage]
  /\ fired' = [fired EXCEPT ![c] = IF stage = "idle" THEN 0 ELSE @]

\* No call of the process is under way.
Ready(p) == Free(p) /\ \A m \in mirrors : m.by # p

\* A call begins, with what it is going to save.
Call(p, saves) == Ready(p) /\ Load(p, saves)

\* The copy knows another day's PnL than the file, or less of this day's.
Outdated(c) == c.base.day # risk.day \/ c.base.pnl # risk.pnl

\* The days that are between a and b, in whichever order.
DaysBetween(a, b) == {d \in Days : (a <= d /\ d <= b) \/ (b <= d /\ d <= a)}

\* save(): risk-state.json is replaced, whatever it holds by now ...
SaveState(c) ==
  LET s == Head(c.todo)
  IN  /\ \A m \in mirrors : m.by # c.by
      /\ Save(c)
      /\ mirrors' = mirrors \cup {[by |-> c.by, flag |-> s.paused]}
      /\ late' = IF Blocked(s) THEN late ELSE [d \in AutoCycles |-> 0]
      /\ ledger' = CASE c.by = "watcher" /\ Tail(c.todo) = <<>> ->
                            [ledger EXCEPT ![s.day] = @ + booking]
                     [] c.by = "reset" -> [ledger EXCEPT ![s.day] = 0]
                     [] OTHER -> ledger
      /\ booking' = IF c.by = "watcher" /\ Tail(c.todo) = <<>> THEN 0 ELSE booking
      /\ spoiled' = IF Outdated(c) THEN spoiled \cup DaysBetween(risk.day, s.day)
                    ELSE spoiled
      /\ UNCHANGED <<now, sysPaused, pc, fired, queue, bounds>>

\* ... then the flag is mirrored into system-health.json.
WriteHealth(m) ==
  /\ sysPaused' = m.flag
  /\ mirrors' = mirrors \ {m}
  /\ UNCHANGED <<now, safety, pc, fired, queue, late, books, bounds>>

-----------------------------------------------------------------------------
(* The cycles. *)

\* run_health_check() is the first thing a cycle does; it writes nothing.
HealthCheck(c) ==
  /\ pc[c] = "idle" /\ Ready(c)
  /\ HealthAllows(risk, sysPaused)
  /\ Goto(c, "healthy")
  /\ UNCHANGED <<now, safety, health, queue, late, books, bounds>>

CycleRollover(c) ==
  /\ pc[c] = "healthy" /\ Call(c, RolloverSaves(risk, now))
  /\ Goto(c, "rolled")
  /\ UNCHANGED <<now, health, queue, late, books, bounds>>

CycleGate(c) ==
  /\ pc[c] = "rolled" /\ Call(c, CheckSaves(risk, now))
  /\ Goto(c, IF CanTrade(risk, now) THEN "gated" ELSE "idle")
  /\ UNCHANGED <<now, health, queue, late, books, bounds>>

\* --reconcile-first found a mismatch.  Both cycles stop, only the full-auto
\* one pauses.
MismatchAtStart(c) ==
  /\ pc[c] = "gated"
  /\ \/ c \in AutoCycles /\ Call(c, <<Pause(risk, "mismatch", TRUE, 0, now)>>)
     \/ c \in LiveCycles /\ Call(c, <<>>)
  /\ Goto(c, "idle")
  /\ UNCHANGED <<now, health, queue, late, books, bounds>>

\* A full-auto cycle goes on to its candidates; a live cycle first loads the
\* proposals the user has approved.
StartFiring(c) ==
  /\ pc[c] = "gated" /\ Ready(c)
  /\ \/ /\ c \in AutoCycles
        /\ Goto(c, "loop")
        /\ UNCHANGED queue
     \/ /\ c \in LiveCycles
        /\ \E n \in 0 .. QueueLen : queue' = [queue EXCEPT ![c] = n]
        /\ Goto(c, "queue")
  /\ UNCHANGED <<now, safety, health, late, books, bounds>>

\* An entry order goes out; it is late if trading is blocked at that moment.
LateEntry(c) ==
  IF c \in AutoCycles /\ Blocked(risk) THEN [late EXCEPT ![c] = @ + 1] ELSE late

\* execute_approved_queue() fires one entry after the other, with no look at
\* the safety state in between.
FireQueued(c) ==
  /\ pc[c] = "queue" /\ Ready(c) /\ queue[c] > 0
  /\ queue' = [queue EXCEPT ![c] = @ - 1]
  /\ Goto(c, "queue") \/ Goto(c, "nakedInQueue")
  /\ UNCHANGED <<now, safety, health, late, books, bounds>>

QueueDone(c) ==
  /\ pc[c] = "queue" /\ Ready(c) /\ queue[c] = 0
  /\ Goto(c, "loop")
  /\ UNCHANGED <<now, safety, health, queue, late, books, bounds>>

\* Mutant: a loop that trusts check_can_trade() and skips limits.check_proposal().
VerdictWithoutLimits(c) ==
  IF CanTrade(risk, now) THEN {"loop", "cleared"} ELSE {"idle"}

\* The verdict on the next candidate, on the state check_can_trade() returns:
\* stop the cycle, or skip this candidate (soft caps, research, strategy or
\* risk say no), or clear it for execution.
Verdict(c) ==
  IF \/ ~CanTrade(risk, now)
     \/ HardCap(AfterCheck(risk, now))
     \/ TradeCap > 0 /\ fired[c] >= TradeCap
  THEN {"idle"}
  ELSE {"loop", "cleared"}

Review(c) ==
  /\ pc[c] = "loop" /\ Call(c, CheckSaves(risk, now))
  /\ \E stage \in Verdict(c) : Goto(c, stage)
  /\ UNCHANGED <<now, health, queue, late, books, bounds>>

\* ExecutionRouter.route() fires the cleared candidate without reading the
\* safety state again: filled, or filled with a bracket refused.
Fire(c) ==
  /\ pc[c] = "cleared" /\ Ready(c)
  /\ late' = LateEntry(c)
  /\ \/ /\ pc' = [pc EXCEPT ![c] = "loop"]
        /\ fired' = [fired EXCEPT ![c] = @ + 1]
     \/ Goto(c, "naked")
  /\ UNCHANGED <<now, safety, health, queue, books, bounds>>

\* _rescue_naked_entry(): the entry has been closed and the switch is engaged,
\* carried over midnight.  The queue is fired on, the loop ends.
Rescue(c) ==
  /\ pc[c] \in {"naked", "nakedInQueue"}
  /\ Call(c, <<Pause(risk, "naked", TRUE, 0, now)>>)
  /\ Goto(c, IF pc[c] = "naked" THEN "idle" ELSE "queue")
  /\ UNCHANGED <<now, health, queue, late, books, bounds>>

\* No candidate is left.
EndCycle(c) ==
  /\ pc[c] \in {"gated", "loop"} /\ Ready(c)
  /\ Goto(c, "idle")
  /\ UNCHANGED <<now, safety, health, queue, late, books, bounds>>

-----------------------------------------------------------------------------
(* Everything that moves beside the cycles. *)

\* The watcher books a closed position.
WatcherClose(pnl) ==
  /\ closes < MaxCloses /\ now <= LastEventTime
  /\ Call("watcher", CloseSaves(risk, pnl, now))
  /\ booking' = pnl
  /\ closes' = closes + 1
  /\ UNCHANGED <<now, health, pc, fired, queue, late, ledger, spoiled, commands>>

Command ==
  /\ commands < MaxCommands /\ now <= LastEventTime
  /\ commands' = commands + 1
  /\ UNCHANGED <<now, sysPaused, pc, fired, queue, late, books, closes>>

\* run_safety_reset --pause, or the bot's /pause
OperatorPause(carry, window) ==
  /\ Command
  /\ Call("operator", <<Pause(risk, "manual", carry, window, now)>>)
  /\ UNCHANGED mirrors

\* run_safety_reset --resume, or the bot's /resume
OperatorResume ==
  /\ Command
  /\ Call("operator", <<Resume(risk)>>)
  /\ UNCHANGED mirrors

\* run_safety_reset --reset-daily: the day starts over.
OperatorReset ==
  /\ Command
  /\ Call("reset", <<ResetDaily(risk, Today(now))>>)
  /\ UNCHANGED mirrors

\* run_reconcile or binance_position_sync: record_health() reads
\* system-health.json and writes it back, with the flag set on a mismatch if it
\* is told to pause.
RecordHealth ==
  /\ Command
  /\ Ready("audit")
  /\ \E flag \in {sysPaused, TRUE} :
       mirrors' = mirrors \cup {[by |-> "audit", flag |-> flag]}
  /\ UNCHANGED safety

Tick ==
  /\ now < MaxTime
  /\ now' = now + 1
  /\ UNCHANGED <<safety, health, pc, fired, queue, late, books, bounds>>

\* A process is killed, between two steps of a call or elsewhere.
Kill(p) ==
  /\ \/ ~Ready(p)
     \/ p \in Cycles /\ pc[p] # "idle"
  /\ Abandon(p)
  /\ mirrors' = {m \in mirrors : m.by # p}
  /\ IF p \in Cycles
     THEN Goto(p, "idle") /\ queue' = [queue EXCEPT ![p] = 0]
     ELSE UNCHANGED <<pc, fired, queue>>
  /\ booking' = IF p = "watcher" THEN 0 ELSE booking
  /\ UNCHANGED <<now, sysPaused, late, ledger, spoiled, bounds>>

-----------------------------------------------------------------------------
\* What a process has begun with a call, it goes on with.
CallStep(p) ==
  \/ \E c \in calls : c.by = p /\ SaveState(c)
  \/ \E m \in mirrors : m.by = p /\ WriteHealth(m)

CycleStep(c) ==
  \/ HealthCheck(c) \/ CycleRollover(c) \/ CycleGate(c)
  \/ MismatchAtStart(c) \/ StartFiring(c)
  \/ FireQueued(c) \/ QueueDone(c)
  \/ Review(c) \/ Fire(c) \/ Rescue(c) \/ EndCycle(c)

Beside ==
  \/ \E pnl \in Pnls : WatcherClose(pnl)
  \/ \E carry \in BOOLEAN, window \in Windows : OperatorPause(carry, window)
  \/ OperatorResume
  \/ OperatorReset
  \/ RecordHealth

Next ==
  \/ \E c \in Cycles : CycleStep(c)
  \/ \E p \in Procs \cup {"audit"} : CallStep(p) \/ Kill(p)
  \/ Beside
  \/ Tick

Spec == Init /\ [][Next]_vars

(***************************************************************************)
(* The clock runs, and every cycle is started again and again by its       *)
(* scheduler (claude-code-routine.md) and, once started, takes its next    *)
(* step unless it is killed; so does every call.  The watcher and the      *)
(* operator owe nothing.                                                   *)
(***************************************************************************)
Fairness ==
  /\ WF_vars(Tick)
  /\ \A c \in Cycles : WF_vars(CycleStep(c))
  /\ \A p \in Procs \cup {"audit"} : WF_vars(CallStep(p))

FairSpec == Spec /\ Fairness

-----------------------------------------------------------------------------
(* Properties. *)

\* A pause for a breached daily loss never carries a cooldown window, so that
\* check_can_trade() cannot lift it: "daily-loss breaches stay until the daily
\* rollover (or manual resume)" (safety_state.py:269).  It needs every release
\* of an earlier pause to have reset the window, because record_trade_close()
\* leaves the field as it finds it.
DailyLossPauseUntimed ==
  risk.reason = "daily_loss" => risk.paused /\ risk.until = NoTime

\* Once the switch is on or a limit is breached, each full-auto cycle fires at
\* most the one entry it had already cleared (safety_state.py:17, the checks
\* "before firing each trade and again between trades").
OneLateEntry == \A c \in AutoCycles : late[c] <= 1

\* What a save that ends a pause may rest on: the operator's resume or reset; in
\* the copy that is saved a new UTC day for a pause that is not carried over, or
\* a cooldown that ran out; or a copy loaded before the pause was set.
Releases(c) ==
  \/ c.by \in {"operator", "reset"}
  \/ c.base.day # Head(c.todo).day /\ ~c.base.carry
  \/ WindowElapsed(c.base, now)
  \/ ~c.base.paused

\* A pause ends only by the operator's resume or reset, by the first call on a
\* new UTC day when it is not carried over, by a cooldown that ran out, or under
\* a call that had loaded the state before the pause was set and does not see it.
\* Whoever has seen a pause never ends it as a side effect of recording a trade,
\* of a cycle or of a rescue.
PauseEndsLegitimately ==
  [][risk.paused /\ ~risk'.paused => \E c \in calls : SaveState(c) /\ Releases(c)]_vars

\* The day's PnL the loss limit is checked against is the sum of the trades
\* recorded for that day since its last manual reset, whichever call noticed the
\* new day, however often and on whichever side of midnight its save landed
\* (perform_daily_rollover_if_needed, record_trade_close): unless a call has
\* saved a copy that knew another PnL than the file.
DayPnlMatchesLedger ==
  risk.day # NoDay /\ risk.day \notin spoiled => risk.pnl = ledger[risk.day]

\* The cooldown of a losing streak does not last: the pause clears by itself or
\* gives way to another one: "you can wait - the next cycle will auto-resume once
\* the deadline passes" (wiki.md:574).
CooldownClears ==
  risk.reason = "consecutive" ~> risk.reason # "consecutive"
=============================================================================

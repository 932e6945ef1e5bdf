---------------------------- MODULE LiveSession ----------------------------
(***************************************************************************)
(* The sessions of run_live_cycle.py as far as they decide which orders    *)
(* go out: the approved queue first, then one candidate after the other    *)
(* through sizing, verdict and ask-first rules (Admission).                *)
(***************************************************************************)
EXTENDS Admission

VARIABLES
  stage,    \* where the process is
  lev,      \* its --leverage, clamped
  done,     \* router._first_live_trade_done
  left,     \* approved entries still to fire
  cand,     \* the candidate in hand
  qty,      \* its size
  dayPnl,   \* the day's realised PnL
  asked,    \* history: this session filled an order its user approved
  unasked   \* history: this session filled an order nobody was asked about

vars == <<stage, lev, done, left, cand, qty, dayPnl, asked, unasked>>

session == <<lev, done, left, asked, unasked>>

Raw == 1 .. MaxPrice

Candidates ==
  {Rounded(s, side, e, x, t) :
     s \in Specs, side \in {"LONG", "SHORT"}, e \in Raw, x \in Raw, t \in Raw}

NoCandidate == [spec |-> CHOOSE s \in Specs : TRUE, side |-> "LONG",
                entry |-> 0, stop |-> 0, tp |-> 0]

Pnl == -DailyLimit .. DailyLimit

TypeOK ==
  /\ stage \in {"down", "queue", "loop", "sized", "cleared"}
  /\ lev \in Nat \ {0}
  /\ {done, asked, unasked} \subseteq BOOLEAN
  /\ left \in 0 .. MaxQueue
  /\ cand \in Candidates \cup {NoCandidate}
  /\ qty \in Nat
  /\ dayPnl \in Pnl

Init ==
  /\ stage = "down" /\ lev = 1 /\ done = FALSE /\ left = 0
  /\ cand = NoCandidate /\ qty = 0 /\ dayPnl = 0
  /\ asked = FALSE /\ unasked = FALSE

Drop == cand' = NoCandidate /\ qty' = 0

-----------------------------------------------------------------------------
\* A new process: a new router, whose flag is down.
Start ==
  /\ stage = "down"
  /\ stage' = "queue"
  /\ \E l \in Leverages : lev' = Clamped(l)
  /\ left' \in 0 .. MaxQueue
  /\ done' = FALSE /\ asked' = FALSE /\ unasked' = FALSE
  /\ UNCHANGED <<cand, qty, dayPnl>>

\* execute_approved_queue(): refused by the exchange, or filled - then
\* _fill_live() raises the flag, before the brackets and whatever they do.
FireQueued ==
  /\ stage = "queue" /\ left > 0
  /\ left' = left - 1
  /\ \/ done' = TRUE /\ asked' = TRUE
     \/ UNCHANGED <<done, asked>>
  /\ UNCHANGED <<stage, lev, cand, qty, dayPnl, unasked>>

QueueDone ==
  /\ stage = "queue" /\ left = 0
  /\ stage' = "loop"
  /\ UNCHANGED <<session, cand, qty, dayPnl>>

\* The next candidate, unless the day's loss limit is reached; its size.
SizeCandidate ==
  /\ stage = "loop" /\ dayPnl > -DailyLimit
  /\ \E c \in Candidates : cand' = c /\ qty' = Size(c, lev)
  /\ stage' = "sized"
  /\ UNCHANGED <<session, dayPnl>>

\* evaluate_proposal() approves it, or the cycle goes on to the next one.
Approve ==
  /\ stage = "sized" /\ Decision(cand, lev, qty) = "approved"
  /\ stage' = "cleared"
  /\ UNCHANGED <<session, cand, qty, dayPnl>>

Refuse ==
  /\ stage = "sized" /\ Decision(cand, lev, qty) # "approved"
  /\ stage' = "loop" /\ Drop
  /\ UNCHANGED <<session, dayPnl>>

\* Mutant: the flag goes up when the first order is queued.
QueueForOKRaisesFlag ==
  /\ stage = "cleared" /\ Asks(cand.entry * qty, done, RoutedPnl)
  /\ stage' = "loop" /\ Drop /\ done' = TRUE
  /\ UNCHANGED <<lev, left, asked, unasked, dayPnl>>

\* route(): the policy wants the user's OK; the order waits in the store.
QueueForOK ==
  /\ stage = "cleared" /\ Asks(cand.entry * qty, done, RoutedPnl)
  /\ stage' = "loop" /\ Drop
  /\ UNCHANGED <<session, dayPnl>>

\* route(): fired at once.  Refused by the exchange; filled; or filled and
\* rescued for want of a bracket, which ends the cycle.
AutoFire ==
  /\ stage = "cleared" /\ ~Asks(cand.entry * qty, done, RoutedPnl)
  /\ Drop
  /\ \/ stage' = "loop" /\ UNCHANGED <<done, unasked>>
     \/ stage' \in {"loop", "down"} /\ done' = TRUE /\ unasked' = TRUE
  /\ UNCHANGED <<lev, left, asked, dayPnl>>

\* No candidate is left, or the process is killed.
End ==
  /\ stage # "down"
  /\ stage' = "down" /\ Drop /\ left' = 0
  /\ UNCHANGED <<lev, done, asked, unasked, dayPnl>>

\* The watcher books a closed position, at any time.
Close ==
  /\ \E p \in Pnls : dayPnl' = dayPnl + p
  /\ dayPnl' \in Pnl
  /\ UNCHANGED <<stage, session, cand, qty>>

Next ==
  \/ Start \/ FireQueued \/ QueueDone
  \/ SizeCandidate \/ Approve \/ Refuse
  \/ QueueForOK \/ AutoFire \/ End \/ Close

Spec == Init /\ [][Next]_vars

-----------------------------------------------------------------------------
(* Properties. *)

\* Quantities of the symbol's step a budgeted stop and MIN_NOTIONAL allow ...
Affordable(c) ==
  {q \in 1 .. MaxLoss : /\ q % c.spec.step = 0
                        /\ q * WorstPerUnit(c) <= MaxLoss
                        /\ q * c.entry >= c.spec.minNotional}

\* ... and those that also keep to the margin cap.
WithinMargin(c) == {q \in Affordable(c) : q * c.entry <= MaxMargin * lev}

\* Reference definition of the size: the largest affordable quantity within
\* the margin cap; the largest affordable one, which the verdict then refuses,
\* only if none keeps to the cap; nothing only if none is affordable
\* (size_from_risk: round down, bump to MIN_NOTIONAL, cap the margin).  So "a
\* hit stop loses no more than max_loss_usdt after fees & slippage"
\* (risk_engine.py:180), whichever of the three decided.
SizeIsLargestThatFits ==
  stage = "sized" =>
    qty = CASE ~RightSide(cand) \/ Affordable(cand) = {} -> 0
            [] RightSide(cand) /\ WithinMargin(cand) # {} -> Max(WithinMargin(cand))
            [] OTHER -> Max(Affordable(cand))

\* "First live trade of session always asks" (run_live_cycle.py:13): a session
\* fills an order nobody was asked about only after one its user approved,
\* whatever the exchange refuses and whatever it queues in between.
FirstLiveTradeAsked == unasked => asked
=============================================================================

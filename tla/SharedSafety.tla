---------------------------- MODULE SharedSafety ----------------------------
(***************************************************************************)
(* risk-state.json under processes that do not lock it.  Every call of the *)
(* SafetyStateManager loads the file, works on its copy and replaces the   *)
(* file once or twice: the load and each replacement are steps, and any    *)
(* process may come between.                                               *)
(***************************************************************************)
EXTENDS SafetyRules, Sequences

CONSTANT Procs  \* the processes that call the manager, one call at a time

VARIABLES
  risk,  \* risk-state.json
  calls  \* manager calls between their load and their last os.replace()

safety == <<risk, calls>>

\* base is the file as the call knows it, todo what it is still to save.
Calls == [by: Procs, base: SafetyStates, todo: Seq(SafetyStates)]

SafetyTypeOK ==
  /\ risk \in SafetyStates
  /\ \A c \in calls : c \in Calls /\ c.todo # <<>>
  /\ \A c, d \in calls : c.by = d.by => c = d

SafetyInit == risk = FreshState /\ calls = {}

Free(p) == \A c \in calls : c.by # p

-----------------------------------------------------------------------------
(* What the calls save, given what they have loaded. *)

\* perform_daily_rollover_if_needed() saves by itself when the day has changed.
RolloverSaves(s, now) ==
  IF Rollover(s, Today(now)) = s THEN <<>> ELSE <<Rollover(s, Today(now))>>

\* record_trade_close(): after a rollover it saves a second time.
CloseSaves(s, pnl, now) == Append(RolloverSaves(s, now), RecordClose(s, pnl, now))

\* check_can_trade(force_rollover_check=False): the end of an elapsed window.
CheckSaves(s, now) ==
  IF AfterCheck(s, now) = s THEN <<>> ELSE <<AfterCheck(s, now)>>

\* load(): from here on the call works on its copy.  A call with nothing to
\* save is over.
Load(p, saves) ==
  /\ Free(p)
  /\ calls' = IF saves = <<>> THEN calls
              ELSE calls \cup {[by |-> p, base |-> risk, todo |-> saves]}
  /\ UNCHANGED risk

\* save(): the file is replaced, whatever it is by now.
Save(c) ==
  /\ risk' = Head(c.todo)
  /\ LET rest == [c EXCEPT !.base = Head(c.todo), !.todo = Tail(@)]
     IN  calls' = (calls \ {c}) \cup (IF rest.todo = <<>> THEN {} ELSE {rest})

\* The call raises, or its process is killed, before its next save.
Abandon(p) ==
  /\ calls' = {c \in calls : c.by # p}
  /\ UNCHANGED risk
=============================================================================

------------------------------ MODULE Watcher ------------------------------
(***************************************************************************)
(* data/open-positions.json, the watchers that tick over it                *)
(* (watch_open_positions, apply_decision) and the processes that write it  *)
(* beside them.  Calls of PositionsStore lock the file and are one step    *)
(* each; a watcher's tick is many: it loads the open rows, looks at one    *)
(* after the other, and flushes what it has found at the end.              *)
(*                                                                         *)
(* A row is reduced to its status, its quantity, its MFE, the level of its *)
(* stop and whether its notes say that the first target was taken.         *)
(***************************************************************************)
EXTENDS Naturals, FiniteSets

CONSTANTS
  Paper, Live,  \* positions in PAPER_TRADING and in a live mode
  Watchers,     \* processes running run_watch_positions
  Trailing,     \* --enable-trailing / EXIT_TRAILING_STOP_ENABLED
  Emergency,    \* whether a tick may be run with --emergency
  Quantity,     \* quantity of a new position
  MaxGain,      \* bound: highest unrealized PnL
  MaxStop,      \* bound: highest level of a stop; level 1 is the entry price
  MaxCrashes    \* bound: watchers killed

Positions == Paper \cup Live

ASSUME WatcherAssumption ==
  /\ Paper \cap Live = {}
  /\ IsFiniteSet(Watchers)
  /\ Trailing \in BOOLEAN /\ Emergency \in BOOLEAN
  /\ Quantity \in Nat \ {0}
  /\ MaxGain \in Nat /\ MaxStop \in Nat \ {0} /\ MaxCrashes \in Nat

Rows == [status: {"absent", "open", "partial_exit", "closed"}, quantity: 0 .. Quantity,
         mfe: 0 .. MaxGain, stop: 0 .. MaxStop, tagged: BOOLEAN]

Absent == [status |-> "absent", quantity |-> 0, mfe |-> 0, stop |-> 0, tagged |-> FALSE]
Opened == [Absent EXCEPT !.status = "open", !.quantity = Quantity]

VARIABLES
  row,       \* open-positions.json
  exch,      \* live positions the exchange holds
  stage,     \* where each watcher is in its tick
  todo,      \* rows of the tick it has not looked at yet
  view,      \* the tick's copy of the rows
  writes,    \* what the tick will do with its copy
  booked,    \* history: calls of record_trade_close for each position
  crashes    \* history and bound counter

tick == <<stage, todo, view, writes>>
vars == <<row, exch, tick, booked, crashes>>

NoRows == [p \in Positions |-> Absent]
NoWrites == [p \in Positions |-> "none"]

TypeOK ==
  /\ row \in [Positions -> Rows]
  /\ exch \subseteq Live
  /\ stage \in [Watchers -> {"idle", "look", "flush"}]
  /\ todo \in [Watchers -> SUBSET Positions]
  /\ view \in [Watchers -> [Positions -> Rows]]
  /\ writes \in [Watchers -> [Positions -> {"none", "merge", "upsert"}]]
  /\ \A w \in Watchers : stage[w] = "idle" =>
       todo[w] = {} /\ view[w] = NoRows /\ writes[w] = NoWrites
  /\ booked \in [Positions -> Nat]
  /\ crashes \in 0 .. MaxCrashes

Init ==
  /\ row = NoRows
  /\ exch = {}
  /\ stage = [w \in Watchers |-> "idle"]
  /\ todo = [w \in Watchers |-> {}]
  /\ view = [w \in Watchers |-> NoRows]
  /\ writes = [w \in Watchers |-> NoWrites]
  /\ booked = [p \in Positions |-> 0]
  /\ crashes = 0

IsOpen(r) == r.status \in {"open", "partial_exit"}

Higher(a, b) == IF a > b THEN a ELSE b

-----------------------------------------------------------------------------
(* Decisions and their application to the tick's copy of a row. *)

\* (quantity * 0.5).quantize(1), half to even, but at least one.
PartialQuantity(q) ==
  LET half == IF q % 4 = 3 THEN (q + 1) \div 2 ELSE q \div 2
  IN  IF half = 0 THEN 1 ELSE half

Closed(v) == [v EXCEPT !.status = "closed", !.quantity = 0]

\* A partial exit sets the stop to the entry price, taken to be level 1,
\* wherever the stop was before.
PartlyClosed(v) ==
  LET rest == v.quantity - PartialQuantity(v.quantity)
      kept == [v EXCEPT !.tagged = TRUE, !.stop = 1, !.quantity = rest]
  IN  IF rest = 0 THEN Closed(kept) ELSE [kept EXCEPT !.status = "partial_exit"]

\* apply_decision() of a stop, a target or an invalidation: in a live mode it
\* leaves a note and nothing else.
Exits(p, v) ==
  IF p \in Live
  THEN {v}
  ELSE {Closed(v)} \cup (IF v.tagged THEN {} ELSE {PartlyClosed(v)})

\* A trailing stop is moved on paper only; live it takes a live_executor, which
\* no caller passes.
Trails(p, v) ==
  IF p \in Live THEN {v}
  ELSE {[v EXCEPT !.stop = s] : s \in {t \in 1 .. MaxStop : t > v.stop}}

-----------------------------------------------------------------------------
(* The tick. *)

\* load_open()
StartTick(w) ==
  /\ stage[w] = "idle"
  /\ LET open == {p \in Positions : IsOpen(row[p])}
     IN  /\ open # {}
         /\ todo' = [todo EXCEPT ![w] = open]
         /\ view' = [view EXCEPT ![w] = [p \in Positions |->
                                           IF p \in open THEN row[p] ELSE Absent]]
  /\ stage' = [stage EXCEPT ![w] = "look"]
  /\ UNCHANGED <<row, exch, writes, booked, crashes>>

\* Mutant: a close goes through the merge, too.
RouteByMerge(p, v, decision) == "merge"

\* How a looked-at row will be persisted: a close and every trail of a live
\* position by a full upsert - a suppressed trail like a successful one -,
\* anything else by the merge of the whitelisted fields.
Route(p, v, decision) ==
  IF v.status = "closed" \/ (p \in Live /\ decision = "trail")
  THEN "upsert" ELSE "merge"

\* What a decision makes of the copy v.
Applied(p, v, decision) ==
  CASE decision = "hold" -> {v}
    [] decision = "exit" -> Exits(p, v)
    [] decision = "trail" -> IF Trailing THEN Trails(p, v) ELSE {}
    [] OTHER -> IF Emergency THEN {Closed(v)} ELSE {}

Decisions == {"hold", "exit", "trail", "emergency"}

\* One position: mark to market, decide, apply, journal.  A close is booked
\* with record_trade_close() right here, long before it is persisted.
Look(w, p) ==
  /\ stage[w] = "look" /\ p \in todo[w]
  /\ todo' = [todo EXCEPT ![w] = @ \ {p}]
  /\ \E gain \in 0 .. MaxGain, decision \in Decisions :
       LET marked == [view[w][p] EXCEPT !.mfe = Higher(@, gain)]
       IN  \E v \in Applied(p, marked, decision) :
             /\ view' = [view EXCEPT ![w][p] = v]
             /\ writes' = [writes EXCEPT ![w][p] = Route(p, v, decision)]
             /\ booked' = IF v.status = "closed" THEN [booked EXCEPT ![p] = @ + 1]
                          ELSE booked
  /\ UNCHANGED <<row, exch, stage, crashes>>

\* The candles of a position cannot be had: it is skipped.
SkipPosition(w, p) ==
  /\ stage[w] = "look" /\ p \in todo[w]
  /\ todo' = [todo EXCEPT ![w] = @ \ {p}]
  /\ UNCHANGED <<row, exch, stage, view, writes, booked, crashes>>

\* Mutant: the merge does not look at the status on disk.
MergedWhole(r, v) == [v EXCEPT !.mfe = Higher(r.mfe, @)]

\* apply_watcher_updates(): only a row still open on disk, only MFE and notes;
\* the MFE never goes down.
Merged(r, v) ==
  IF r.status = "open"
  THEN [r EXCEPT !.mfe = Higher(@, v.mfe), !.tagged = @ \/ v.tagged]
  ELSE r

Flush(w) ==
  /\ stage[w] = "look" /\ todo[w] = {}
  /\ row' = [p \in Positions |-> IF writes[w][p] = "merge"
                                 THEN Merged(row[p], view[w][p]) ELSE row[p]]
  /\ stage' = [stage EXCEPT ![w] = "flush"]
  /\ UNCHANGED <<exch, todo, view, writes, booked, crashes>>

\* upsert(): the whole copy replaces the row, or is appended.
Upsert(w, p) ==
  /\ stage[w] = "flush" /\ writes[w][p] = "upsert"
  /\ row' = [row EXCEPT ![p] = view[w][p]]
  /\ writes' = [writes EXCEPT ![w][p] = "none"]
  /\ UNCHANGED <<exch, stage, todo, view, booked, crashes>>

\* Mutant: the updates of a tick are kept for the next one.
ForgetRows(w) ==
  /\ stage' = [stage EXCEPT ![w] = "idle"]
  /\ todo' = [todo EXCEPT ![w] = {}]
  /\ view' = [view EXCEPT ![w] = NoRows]
  /\ UNCHANGED writes

\* The tick's copies are local to the call.
Forget(w) ==
  /\ stage' = [stage EXCEPT ![w] = "idle"]
  /\ todo' = [todo EXCEPT ![w] = {}]
  /\ view' = [view EXCEPT ![w] = NoRows]
  /\ writes' = [writes EXCEPT ![w] = NoWrites]

EndTick(w) ==
  /\ stage[w] = "flush" /\ \A p \in Positions : writes[w][p] # "upsert"
  /\ Forget(w)
  /\ UNCHANGED <<row, exch, booked, crashes>>

Crash(w) ==
  /\ stage[w] # "idle" /\ crashes < MaxCrashes
  /\ crashes' = crashes + 1
  /\ Forget(w)
  /\ UNCHANGED <<row, exch, booked>>

-----------------------------------------------------------------------------
(* The others. *)

\* A cycle upserts the position it has opened, on the exchange if it is live.
OpenPosition(p) ==
  /\ row[p] = Absent /\ booked[p] = 0 /\ p \notin exch
  /\ \A w \in Watchers : view[w][p] = Absent
  /\ row' = [row EXCEPT ![p] = Opened]
  /\ exch' = IF p \in Live THEN exch \cup {p} ELSE exch
  /\ UNCHANGED <<tick, booked, crashes>>

\* A bracket triggers, or the user closes the position at the exchange.
ExchangeCloses(p) ==
  /\ p \in exch
  /\ exch' = exch \ {p}
  /\ UNCHANGED <<row, tick, booked, crashes>>

\* The operator's scripts write down what the exchange has closed.
SyncClose(p) ==
  /\ p \in Live \ exch /\ IsOpen(row[p])
  /\ row' = [row EXCEPT ![p] = Closed(@)]
  /\ UNCHANGED <<exch, tick, booked, crashes>>

\* The PnL auto-adjust monitor replaces the stop on the exchange and in the row.
SwapStop(p) ==
  /\ p \in exch /\ row[p].status = "open" /\ row[p].stop < MaxStop
  /\ row' = [row EXCEPT ![p].stop = @ + 1]
  /\ UNCHANGED <<exch, tick, booked, crashes>>

-----------------------------------------------------------------------------
WatcherStep(w) ==
  \/ StartTick(w) \/ Flush(w) \/ EndTick(w)
  \/ \E p \in Positions : Look(w, p) \/ SkipPosition(w, p) \/ Upsert(w, p)

Next ==
  \/ \E w \in Watchers : WatcherStep(w) \/ Crash(w)
  \/ \E p \in Positions :
       OpenPosition(p) \/ ExchangeCloses(p) \/ SyncClose(p) \/ SwapStop(p)

Spec == Init /\ [][Next]_vars

-----------------------------------------------------------------------------
(* Properties. *)

\* A position closed on disk is not reopened by a tick that loaded it open: "a
\* concurrent close beat us - the right move is to stand down"
\* (positions_store.py:297).
ClosedStaysClosed ==
  [][\A p \in Positions : row[p].status = "closed" => row'[p].status = "closed"]_vars

\* No tick undoes what others have written since it loaded: a closed row stays
\* closed, the stop of an open live row never falls back to an older one
\* (ERROR-20260511-6, where it did), and the MFE of an open row never decreases,
\* whichever of several watchers flushes last.
TickUndoesNothing ==
  [][\A p \in Positions :
       /\ row[p].status = "closed" => row'[p].status = "closed"
       /\ row'[p].status = "open" =>
            /\ row'[p].mfe >= row[p].mfe
            /\ p \in Live => row'[p].stop >= row[p].stop]_vars

\* The PnL of a position reaches record_trade_close() at most once for each
\* watcher that had it in its tick, and once more for each watcher killed
\* between booking and persisting.
BookedOncePerWatcher ==
  \A p \in Positions : booked[p] <= Cardinality(Watchers) + crashes
=============================================================================

----------------------------- MODULE SharedStore -----------------------------
(***************************************************************************)
(* One open-positions.json for live and for paper positions: a full-auto   *)
(* cycle decides from its rows which symbol may be opened again, the paper *)
(* cycle writes into it without a look, the watcher closes the paper rows, *)
(* the operator's scripts the live ones, and reconcile() compares all open *)
(* rows with the exchange, where also stands what no row tells of.  Calls  *)
(* of PositionsStore lock the file and are one step each (Watcher has      *)
(* their inside); the switch is SafetyGate's matter, several live cycles   *)
(* are PositionTracking's.                                                 *)
(***************************************************************************)
EXTENDS Reconcile, SequencesExt

CONSTANTS
  LossWindow,    \* REENTRY_COOLDOWN_AFTER_LOSS_MINUTES
  ProfitWindow,  \* REENTRY_COOLDOWN_AFTER_PROFIT_MINUTES
  MaxOpen,       \* max_open_positions
  Screens,       \* bound: what the screener may return
  Watchlists,    \* bound: what watchlist.json may hold
  PaperExits,    \* bound: exits the watcher writes
  ScriptExits,   \* bound: exits the operator's scripts write
  PaperSeqs,     \* bound: len(risk_evaluations) of a paper cycle
  MaxTime,       \* bound: the clock
  MaxRows,       \* bound: rows of the file
  MaxUntracked   \* bound: fills of a symbol without a row

\* The decisions of the exit simulator that end a position.
SimulatorExits == {"stop_hit", "full_tp", "partial_tp", "invalidation_exit", "emergency_exit"}

\* _LOSS_EXIT_REASONS and _PROFIT_EXIT_REASONS
LossExits == {"stop_loss", "sl_hit", "loss_research_exit", "sl_trail_locked",
              "sl_hit_breakeven_locked"}
ProfitExits == {"take_profit", "tp_hit", "mfe_pullback_exit", "giveback_protection_exit",
                "quick_profit_exit", "floor_exit_user_rule"}

ASSUME SharedStoreAssumption ==
  /\ {LossWindow, ProfitWindow, MaxOpen, MaxTime, MaxRows, MaxUntracked} \subseteq Nat
  /\ \A screen \in Screens : screen \in Seq(Symbols) /\ IsInjective(screen)
  /\ \A list \in Watchlists : list \in Seq([symbol: Symbols, high: BOOLEAN, sided: BOOLEAN,
                                            expires: Nat])
  /\ PaperExits \subseteq SimulatorExits
  /\ PaperSeqs \subseteq 1 .. MaxRows
  /\ \A exit \in ScriptExits : exit \in STRING /\ exit # "none"

VARIABLES
  store,       \* open-positions.json
  exch,        \* what the exchange holds of each symbol
  clock,       \* the time, as coarse as make_position_id() and closed_at see it
  cycle,       \* the full-auto cycle
  unrecorded,  \* history: closes of the exchange no row tells of yet
  overwritten, \* history: symbols with a live row replaced by another position's
  untracked    \* history: what the exchange holds and no row ever told or tells of

ssVars == <<store, exch, clock, cycle, unrecorded, overwritten, untracked>>
books == <<unrecorded, overwritten, untracked>>

Times == 0 .. MaxTime
Modes == {"live", "paper"}
Exits == PaperExits \cup ScriptExits \cup {"emergency_exit"}
Ids == [at: Times, symbol: Symbols, seq: 1 .. MaxRows + 1]
Rows == [id: Ids, mode: Modes, exit: Exits \cup {"none"}, closed: Times]

\* Position.is_open
IsOpenRow(r) == r.exit = "none"

Open == {i \in DOMAIN store : IsOpenRow(store[i])}
OpenOf(s, mode) == {i \in Open : store[i].id.symbol = s /\ store[i].mode = mode}
OpenSymbols == {store[i].id.symbol : i \in Open}

Down == [stage |-> "down", held |-> {}, queue |-> <<>>, opened |-> 0]

SSTypeOK ==
  /\ store \in Seq(Rows) /\ Len(store) <= MaxRows + 1
  /\ \A i, j \in DOMAIN store : store[i].id = store[j].id => i = j
  /\ exch \in [Symbols -> Nat]
  /\ clock \in Times
  /\ cycle.stage \in {"down", "screening", "loop", "cleared", "filled"}
  /\ cycle.held \subseteq Symbols
  /\ cycle.queue \in Seq(Symbols) /\ IsInjective(cycle.queue)
  /\ cycle.stage \in {"cleared", "filled"} => cycle.queue # <<>>
  /\ cycle.opened \in 0 .. MaxRows + 1
  /\ unrecorded \in [Symbols -> Nat] /\ untracked \in [Symbols -> Nat]
  /\ overwritten \subseteq Symbols

SSInit ==
  /\ store = <<>>
  /\ exch = [s \in Symbols |-> 0]
  /\ clock = 0
  /\ cycle = Down
  /\ unrecorded = [s \in Symbols |-> 0]
  /\ overwritten = {}
  /\ untracked = [s \in Symbols |-> 0]

-----------------------------------------------------------------------------
(* The store. *)

\* make_position_id()
Id(s, seq) == [at |-> clock, symbol |-> s, seq |-> seq]

\* upsert() of a new position: a row of the same id is replaced.
Insert(s, seq, mode) ==
  LET new == [id |-> Id(s, seq), mode |-> mode, exit |-> "none", closed |-> 0]
      same == {i \in DOMAIN store : store[i].id = new.id}
  IN  /\ store' = IF same = {} THEN Append(store, new)
                  ELSE [i \in DOMAIN store |-> IF i \in same THEN new ELSE store[i]]
      /\ overwritten' =
           overwritten \cup {store[i].id.symbol : i \in same \cap OpenOf(s, "live")}

\* The bound is that nothing ends in the second it was opened in.
Close(i, exit) ==
  /\ store[i].id.at < clock
  /\ store' = [store EXCEPT ![i].exit = exit, ![i].closed = clock]

-----------------------------------------------------------------------------
(* What check_proposal() makes of the rows. *)

\* Same-symbol closes ...
ClosedOf(s) == {i \in DOMAIN store : store[i].id.symbol = s /\ ~IsOpenRow(store[i])}

\* Mutant: the first of them in the file counts.
FirstClose(s) == {i \in ClosedOf(s) : \A j \in ClosedOf(s) : i <= j}

\* ... and the one that counts: the last by closed_at, of several the first.
LastClose(s) ==
  {i \in ClosedOf(s) : \A j \in ClosedOf(s) :
     \/ store[j].closed < store[i].closed
     \/ store[j].closed = store[i].closed /\ i <= j}

\* How long a close keeps its symbol from being opened again.
Window(exit) ==
  CASE exit \in LossExits -> LossWindow
    [] exit \in ProfitExits -> ProfitWindow
    [] OTHER -> 0

Hot(i) == clock - store[i].closed < Window(store[i].exit)

\* _check_recent_close_cooldown()
Cooled(s) == \A i \in LastClose(s) : ~Hot(i)

\* Mutant: without no_duplicate_symbol.
AllowedTwice(s) == Cardinality(Open) < MaxOpen /\ Cooled(s)

\* max_open_positions, no_duplicate_symbol, reentry_cooldown: rows of any mode.
Allowed(s) ==
  /\ Cardinality(Open) < MaxOpen
  /\ s \notin OpenSymbols
  /\ Cooled(s)

-----------------------------------------------------------------------------
(* The candidates of the cycle. *)

\* The elements of a list at these places, in its order.
At(list, places) ==
  LET upTo[i \in 0 .. Len(list)] ==
        IF i = 0 THEN <<>>
        ELSE IF i \in places THEN Append(upTo[i - 1], list[i]) ELSE upTo[i - 1]
  IN  upTo[Len(list)]

\* select_watchlist_priority_symbols(): high priority, a side, not expired, not
\* open; in the order of the file, each once.
PrioritySymbols(list, held) ==
  LET wanted == {i \in DOMAIN list : /\ list[i].high /\ list[i].sided
                                     /\ list[i].expires > clock
                                     /\ list[i].symbol \notin held}
      first == {i \in wanted : \A j \in wanted : j < i => list[j].symbol # list[i].symbol}
  IN  At([i \in DOMAIN list |-> list[i].symbol], first)

\* Mutant: what the screener has found, too, is not taken out of its list.
PrependedAlways(priority, screened, known) ==
  LET found == {i \in DOMAIN priority : priority[i] \in Range(screened) \cup known}
  IN  At(priority, found) \o screened

\* prepend_watchlist_priority(): priority symbols the screener has found are
\* hoisted, others put in front if exchangeInfo and ticker can be had (known).
Prepended(priority, screened, known) ==
  LET found == {i \in DOMAIN priority : priority[i] \in Range(screened) \cup known}
      rest == {i \in DOMAIN screened : screened[i] \notin Range(priority)}
  IN  At(priority, found) \o At(screened, rest)

-----------------------------------------------------------------------------
(* run_full_auto_cycle.main() from its screener on.  The switch may end it at *)
(* any proposal.                                                             *)

\* The open symbols the watchlist will be compared with are read before the
\* screener runs.
Start ==
  /\ cycle.stage = "down"
  /\ cycle' = [Down EXCEPT !.stage = "screening", !.held = OpenSymbols]
  /\ UNCHANGED <<store, exch, clock, books>>

Assemble ==
  /\ cycle.stage = "screening"
  /\ \E screen \in Screens, list \in Watchlists, known \in SUBSET Symbols :
       cycle' = [cycle EXCEPT !.stage = "loop", !.held = {},
                   !.queue = Prepended(PrioritySymbols(list, cycle.held), screen, known)]
  /\ UNCHANGED <<store, exch, clock, books>>

\* The next candidate.
NextCandidate == [cycle EXCEPT !.stage = "loop", !.queue = Tail(@)]

\* The proposal at hand passes the limits, and goes on to research and sizing ...
Review ==
  /\ cycle.stage = "loop" /\ cycle.queue # <<>>
  /\ Allowed(Head(cycle.queue))
  /\ cycle' = [cycle EXCEPT !.stage = "cleared"]
  /\ UNCHANGED <<store, exch, clock, books>>

\* ... or is skipped: by the limits, or later by research, strategy, risk or
\* the exchange.
Skip ==
  /\ \/ cycle.stage = "loop" /\ cycle.queue # <<>> /\ ~Allowed(Head(cycle.queue))
     \/ cycle.stage = "cleared"
  /\ cycle' = NextCandidate
  /\ UNCHANGED <<store, exch, clock, books>>

\* route() fills it, minutes after the rows were read.
Fire ==
  /\ cycle.stage = "cleared" /\ Len(store) < MaxRows
  /\ exch' = [exch EXCEPT ![Head(cycle.queue)] = @ + 1]
  /\ cycle' = [cycle EXCEPT !.stage = "filled"]
  /\ UNCHANGED <<store, clock, books>>

\* A fill no row will tell of.
Unseen(s) ==
  /\ untracked[s] < MaxUntracked
  /\ exch' = [exch EXCEPT ![s] = @ + 1]
  /\ untracked' = [untracked EXCEPT ![s] = @ + 1]
  /\ UNCHANGED <<store, clock, unrecorded, overwritten>>

\* The entry fills and the cycle is over without a row: the answer was lost and
\* route() raises, or it was naked and its rescue failed, or the cycle is killed.
FireUnseen ==
  /\ cycle.stage = "cleared"
  /\ Unseen(Head(cycle.queue))
  /\ cycle' = Down

Persist ==
  /\ cycle.stage = "filled"
  /\ Insert(Head(cycle.queue), cycle.opened + 1, "live")
  /\ cycle' = [NextCandidate EXCEPT !.opened = @ + 1]
  /\ UNCHANGED <<exch, clock, unrecorded, untracked>>

\* The candidates are through, the switch is on, a hard limit is reached, or
\* the entry was rescued.
End ==
  /\ cycle.stage \in {"screening", "loop", "cleared"}
  /\ cycle' = Down
  /\ UNCHANGED <<store, exch, clock, books>>

-----------------------------------------------------------------------------
(* The others. *)

\* run_paper_cycle: no look at rows, caps or cooldowns.
PaperInsert(s) ==
  /\ Len(store) < MaxRows
  /\ \E seq \in PaperSeqs : Insert(s, seq, "paper")
  /\ UNCHANGED <<exch, clock, cycle, unrecorded, untracked>>

\* The watcher closes a paper row with the name of its decision: of a live row
\* simulate_tick()'s terminal decisions are suppressed ...
PaperClose(i) ==
  /\ i \in Open /\ store[i].mode = "paper"
  /\ \E exit \in PaperExits : Close(i, exit)
  /\ UNCHANGED <<exch, clock, cycle, books>>

\* ... but one: --emergency marks live rows closed, too, and sends no order.
MarkClosed(i) ==
  /\ i \in Open /\ store[i].mode = "live"
  /\ Close(i, "emergency_exit")
  /\ LET s == store[i].id.symbol
     IN  \/ /\ unrecorded[s] > 0
            /\ unrecorded' = [unrecorded EXCEPT ![s] = @ - 1]
            /\ UNCHANGED untracked
         \/ /\ unrecorded[s] = 0
            /\ untracked' = [untracked EXCEPT ![s] = @ + 1]
            /\ UNCHANGED unrecorded
  /\ UNCHANGED <<exch, clock, cycle, overwritten>>

\* execute_approved_queue() fills an approval and writes no row (External: or
\* the owner trades by hand).
UntrackedFill(s) == Unseen(s) /\ UNCHANGED cycle

\* External: such a position ends.
UntrackedEnds(s) ==
  /\ untracked[s] > 0 /\ exch[s] > 0
  /\ exch' = [exch EXCEPT ![s] = @ - 1]
  /\ untracked' = [untracked EXCEPT ![s] = @ - 1]
  /\ UNCHANGED <<store, clock, cycle, unrecorded, overwritten>>

\* External: a bracket triggers.
Trigger(s) ==
  /\ exch[s] > untracked[s]
  /\ exch' = [exch EXCEPT ![s] = @ - 1]
  /\ unrecorded' = [unrecorded EXCEPT ![s] = @ + 1]
  /\ UNCHANGED <<store, clock, cycle, overwritten, untracked>>

\* External: the operator's scripts write down what the exchange has closed.
SyncClose(i) ==
  /\ i \in Open /\ store[i].mode = "live"
  /\ LET s == store[i].id.symbol
     IN  /\ unrecorded[s] > 0
         /\ unrecorded' = [unrecorded EXCEPT ![s] = @ - 1]
  /\ \E exit \in ScriptExits : Close(i, exit)
  /\ UNCHANGED <<exch, clock, cycle, overwritten, untracked>>

Tick ==
  /\ clock < MaxTime
  /\ clock' = clock + 1
  /\ UNCHANGED <<store, exch, cycle, books>>

-----------------------------------------------------------------------------
SSNext ==
  \/ Start \/ Assemble \/ Review \/ Skip \/ Fire \/ FireUnseen \/ Persist \/ End
  \/ \E s \in Symbols : PaperInsert(s) \/ Trigger(s) \/ UntrackedFill(s) \/ UntrackedEnds(s)
  \/ \E i \in DOMAIN store : PaperClose(i) \/ MarkClosed(i) \/ SyncClose(i)
  \/ Tick

SSSpec == SSInit /\ [][SSNext]_ssVars

-----------------------------------------------------------------------------
(* Properties. *)

\* "After a stop-out the structure that just triggered the SL is usually still
\* active" (limits.py:24): while a live close is hot the one cycle opens its
\* symbol again only if a paper trade of the symbol has ended since - the exits
\* of the simulator cool nothing, and the last close is the only one looked at.
\* Nor does a live close slip in between the review and the order: its row was
\* open then.  (A second live cycle could open and close a row in between.)
ReentryNeedsPaper ==
  [][\A s \in Symbols : exch'[s] > exch[s] /\ cycle' # cycle =>
       \A i \in ClosedOf(s) : store[i].mode = "live" /\ Hot(i) =>
         \E j \in ClosedOf(s) : store[j].mode = "paper" /\ store[j].closed >= store[i].closed]_ssVars

\* reconcile() finds a symbol mismatched only for a paper row among the live
\* ones, a fill or a close that is not written down yet, a live row that another
\* position's of the same second has replaced (make_position_id), or a position
\* no row tells of and that still counts: filled by the approved queue or by
\* hand, left by a lost answer or a failed rescue, or marked closed by --emergency.
DirtyExplained ==
  LET rows == {[n |-> i, symbol |-> store[i].id.symbol, size |-> 1] : i \in Open}
  IN  \A s \in Mismatched(rows, exch) :
        \/ OpenOf(s, "paper") # {}
        \/ cycle.stage = "filled" /\ Head(cycle.queue) = s
        \/ unrecorded[s] > 0
        \/ s \in overwritten
        \/ untracked[s] > 0
=============================================================================

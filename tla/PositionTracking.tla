-------------------------- MODULE PositionTracking --------------------------
(***************************************************************************)
(* The positions on the exchange and the rows that track them.             *)
(*                                                                         *)
(* Cycles check the limits on the rows, fire an entry and only then append *)
(* its row; the approved queue of a live cycle fires entries that get no   *)
(* row.  binance_position_sync.py and run_reconcile.py look at one side    *)
(* after the other, while cycles, brackets and the user go on.             *)
(*                                                                         *)
(* Sizes are in units of one entry, positive for LONG; the account is in   *)
(* one-way mode, in which entries of both sides on one symbol net.  How an *)
(* entry is sent is LiveEntry's matter, the kill switch SafetyGate's, and  *)
(* what a watcher writes into an open row Watcher's, with the row it opens *)
(* again by writing back an old copy.  Rows of paper positions lie in the  *)
(* same file; here no paper cycle runs beside the live ones.               *)
(***************************************************************************)
EXTENDS Reconcile, FiniteSets

CONSTANTS
  AutoCycles,   \* processes running run_full_auto_cycle.main
  LiveCycles,   \* processes running run_live_cycle.main
  Syncs,        \* processes running sync_binance
  Reconciles,   \* processes running run_reconcile.main
  EntrySides,   \* sides a cycle's strategy may take: 1 is LONG, -1 SHORT
  MaxOpen,      \* SafetyLimits.max_open_positions
  MaxRows,      \* bound: candidates cleared
  MaxTrades,    \* bound: queued entries fired and trades of the user
  MaxFailures   \* bound: reads of the exchange that fail

Cycles == AutoCycles \cup LiveCycles
Audits == Syncs \cup Reconciles
Sides == {-1, 1}

ASSUME TrackingAssumption ==
  /\ AutoCycles \cap LiveCycles = {} /\ Syncs \cap Reconciles = {}
  /\ IsFiniteSet(Cycles)
  /\ EntrySides \subseteq Sides
  /\ MaxOpen \in Nat \ {0}
  /\ MaxRows \in Nat /\ MaxTrades \in Nat
  /\ MaxFailures \in Nat

VARIABLES
  exch,      \* signed size held on the exchange for each symbol
  rows,      \* open rows of open-positions.json
  pc,        \* where each cycle is with its candidate
  cand,      \* the row that candidate will get
  stage,     \* whether an audit has looked at one of the two sides
  seenExch,  \* what a sync has read from the exchange, nothing if it failed
  seenRows,  \* what a reconcile has read from the store
  manual,    \* symbols listed in manual-positions.json
  opened,    \* bound counter: candidates cleared, and the source of row ids
  trades,    \* bound counter: queued entries and trades of the user
  failures,  \* history and bound counter: reads that failed
  overlap,   \* history: whether two cycles had candidates at one time
  strayed,   \* history: symbols something but a cycle's loop has moved
  drifted    \* history: whether the sides differed at a moment of an audit

cycles == <<pc, cand>>
audits == <<stage, seenExch, seenRows, manual>>
bounds == <<opened, trades, failures>>
history == <<overlap, strayed, drifted>>
vars == <<exch, rows, cycles, audits, bounds, history>>

Rows == [id: 1 .. MaxRows, symbol: Symbols, size: Sides]
NoRow == [id |-> 0, symbol |-> CHOOSE s \in Symbols : TRUE, size |-> 1]
Nothing == [s \in Symbols |-> 0]

TypeOK ==
  /\ exch \in [Symbols -> Int]
  /\ rows \subseteq Rows /\ \A q, r \in rows : q.id = r.id => q = r
  /\ pc \in [Cycles -> {"idle", "cleared", "filled"}]
  /\ cand \in [Cycles -> Rows \cup {NoRow}]
  /\ \A c \in Cycles : cand[c] = NoRow <=> pc[c] = "idle"
  /\ stage \in [Audits -> {"idle", "half", "blind"}]
  /\ seenExch \in [Syncs -> [Symbols -> Int]]
  /\ seenRows \in [Reconciles -> SUBSET Rows]
  /\ manual \subseteq Symbols
  /\ opened \in 0 .. MaxRows /\ trades \in 0 .. MaxTrades
  /\ failures \in 0 .. MaxFailures
  /\ overlap \in BOOLEAN
  /\ strayed \subseteq Symbols
  /\ drifted \in [Audits -> BOOLEAN]

Init ==
  /\ exch = Nothing /\ rows = {}
  /\ pc = [c \in Cycles |-> "idle"]
  /\ cand = [c \in Cycles |-> NoRow]
  /\ stage = [a \in Audits |-> "idle"]
  /\ seenExch = [a \in Syncs |-> Nothing]
  /\ seenRows = [a \in Reconciles |-> {}]
  /\ manual = {}
  /\ opened = 0 /\ trades = 0 /\ failures = 0
  /\ overlap = FALSE /\ strayed = {}
  /\ drifted = [a \in Audits |-> FALSE]

Moved(s, size) == exch' = [exch EXCEPT ![s] = @ + size]

-----------------------------------------------------------------------------
(* Cycles. *)

\* Mutant: the cap lets one more in.
AllowedOneMore(s) == Cardinality(rows) <= MaxOpen /\ RowsOf(rows, s) = {}

\* The two limits of check_proposal() that look at the open rows;
\* neither the exchange nor manual-positions.json is looked at.
Allowed(s) == Cardinality(rows) < MaxOpen /\ RowsOf(rows, s) = {}

\* Mutant: a candidate that comes to nothing is not forgotten.
SetCandidateKeeps(c, stop, r) ==
  /\ pc' = [pc EXCEPT ![c] = stop]
  /\ cand' = IF stop = "idle" THEN cand ELSE [cand EXCEPT ![c] = r]

SetCandidate(c, stop, r) ==
  /\ pc' = [pc EXCEPT ![c] = stop]
  /\ cand' = [cand EXCEPT ![c] = r]

\* A candidate passes the limits, research, strategy and risk.  Its number
\* stands for the position id it will have if no other row has got that one.
Review(c) ==
  /\ pc[c] = "idle" /\ opened < MaxRows
  /\ \E s \in Symbols, side \in EntrySides :
       /\ Allowed(s)
       /\ SetCandidate(c, "cleared",
                       [id |-> opened + 1, symbol |-> s, size |-> side])
  /\ opened' = opened + 1
  /\ UNCHANGED <<exch, rows, audits, trades, failures, strayed>>

\* Mutant: a rescued entry is persisted like a filled one.
AfterFireKeepsRescued(outcome) == IF outcome = "refused" THEN "idle" ELSE "filled"

\* Only a filled entry becomes a row.
AfterFire(outcome) == IF outcome = "filled" THEN "filled" ELSE "idle"

\* route(): filled; refused, queued for approval or rescued with nothing left;
\* or left open without a row, by a closing order that failed or by an entry
\* whose answer was lost.
Fire(c) ==
  /\ pc[c] = "cleared"
  /\ \E outcome \in {"filled", "refused", "rescued", "unrescued"} :
       /\ SetCandidate(c, AfterFire(outcome),
                       IF AfterFire(outcome) = "idle" THEN NoRow ELSE cand[c])
       /\ IF outcome \in {"filled", "unrescued"}
          THEN Moved(cand[c].symbol, cand[c].size) ELSE UNCHANGED exch
       /\ strayed' = IF outcome = "unrescued" THEN strayed \cup {cand[c].symbol}
                     ELSE strayed
  /\ UNCHANGED <<rows, audits, bounds>>

\* PositionsStore.upsert() of the filled entry: a row of the same id is replaced.
\* make_position_id() takes the second, the symbol and the entry's number in its
\* cycle, so a row that another cycle has just written for the symbol may have it.
Persist(c) ==
  /\ pc[c] = "filled"
  /\ \E id \in {cand[c].id} \cup {r.id : r \in RowsOf(rows, cand[c].symbol)} :
       /\ rows' = {r \in rows : r.id # id}
                    \cup {[id |-> id, symbol |-> cand[c].symbol, size |-> cand[c].size]}
       /\ strayed' = strayed \cup {r.symbol : r \in {q \in rows : q.id = id}}
  /\ SetCandidate(c, "idle", NoRow)
  /\ UNCHANGED <<exch, audits, bounds>>

\* execute_approved_queue(): the outcomes go into the cycle's report and
\* nowhere else.
FireQueued(c) ==
  /\ c \in LiveCycles /\ pc[c] = "idle" /\ trades < MaxTrades
  /\ \E s \in Symbols, side \in EntrySides :
       Moved(s, side) /\ strayed' = strayed \cup {s}
  /\ trades' = trades + 1
  /\ UNCHANGED <<rows, cycles, audits, opened, failures>>

Kill(c) ==
  /\ pc[c] # "idle"
  /\ strayed' = IF pc[c] = "filled" THEN strayed \cup {cand[c].symbol} ELSE strayed
  /\ SetCandidate(c, "idle", NoRow)
  /\ UNCHANGED <<exch, rows, audits, bounds>>

-----------------------------------------------------------------------------
(* The account moves without the program. *)

\* A resting bracket, or an emergency close, closes one entry.
Trigger(s) ==
  /\ exch[s] # 0
  /\ Moved(s, IF exch[s] > 0 THEN -1 ELSE 1)
  /\ strayed' = strayed \cup {s}
  /\ UNCHANGED <<rows, cycles, audits, bounds>>

\* The user trades by hand.
UserTrade(s, side) ==
  /\ trades < MaxTrades
  /\ Moved(s, side)
  /\ strayed' = strayed \cup {s}
  /\ trades' = trades + 1
  /\ UNCHANGED <<rows, cycles, audits, opened, failures>>

\* The operator's scripts close the rows of a symbol the exchange no
\* longer holds.
SyncClose(s) ==
  /\ exch[s] = 0 /\ RowsOf(rows, s) # {}
  /\ rows' = rows \ RowsOf(rows, s)
  /\ strayed' = strayed \cup {s}
  /\ UNCHANGED <<exch, cycles, audits, bounds>>

\* A watcher's --emergency tick marks a live row closed, without an order.
MarkClosed(s) ==
  /\ \E r \in RowsOf(rows, s) : rows' = rows \ {r}
  /\ strayed' = strayed \cup {s}
  /\ UNCHANGED <<exch, cycles, audits, bounds>>

-----------------------------------------------------------------------------
(* Audits. *)

Failing == failures < MaxFailures /\ failures' = failures + 1

\* sync_binance() reads the exchange first.  A read that fails is noted and
\* leaves the list of positions empty.
SyncRead(a) ==
  /\ stage[a] = "idle"
  /\ \/ /\ stage' = [stage EXCEPT ![a] = "half"]
        /\ seenExch' = [seenExch EXCEPT ![a] = exch]
        /\ UNCHANGED failures
     \/ /\ Failing
        /\ stage' = [stage EXCEPT ![a] = "blind"]
        /\ UNCHANGED seenExch
  /\ UNCHANGED <<exch, rows, cycles, seenRows, manual, opened, trades,
                 strayed>>

\* Mutant: symbols are added to the file and never taken out.
FoundKeepsOld(now, before) == now \cup before

\* manual-positions.json is rewritten with what was found now.
Found(now, before) == now

\* Then it reads the store, compares, and rewrites manual-positions.json.  What
\* either audit notes in system-health.json is SafetyGate's RecordHealth.
SyncReport(a) ==
  /\ stage[a] # "idle"
  /\ manual' = Found(MissingLocally(rows, seenExch[a]), manual)
  /\ stage' = [stage EXCEPT ![a] = "idle"]
  /\ seenExch' = [seenExch EXCEPT ![a] = Nothing]
  /\ UNCHANGED <<exch, rows, cycles, seenRows, bounds, strayed>>

\* reconcile_via_apis() reads the store first ...
ReconcileRead(a) ==
  /\ stage[a] = "idle"
  /\ stage' = [stage EXCEPT ![a] = "half"]
  /\ seenRows' = [seenRows EXCEPT ![a] = rows]
  /\ UNCHANGED <<exch, rows, cycles, seenExch, manual, bounds, strayed>>

\* ... and then the exchange.
ReconcileReport(a) ==
  /\ stage[a] = "half"
  /\ stage' = [stage EXCEPT ![a] = "idle"]
  /\ seenRows' = [seenRows EXCEPT ![a] = {}]
  /\ UNCHANGED <<exch, rows, cycles, seenExch, manual, bounds, strayed>>

\* A read that raises ends the run.
ReconcileFails(a) ==
  /\ stage[a] = "half" /\ Failing
  /\ stage' = [stage EXCEPT ![a] = "idle"]
  /\ seenRows' = [seenRows EXCEPT ![a] = {}]
  /\ UNCHANGED <<exch, rows, cycles, seenExch, manual, opened, trades,
                 strayed>>

\* The verdict an audit is about to give.
Verdict(a) ==
  IF a \in Syncs THEN Mismatched(rows, seenExch[a]) ELSE Mismatched(seenRows[a], exch)

-----------------------------------------------------------------------------
Untracked == {s \in Symbols : exch[s] # 0 /\ \A r \in rows : r.symbol # s}

\* What drift is, said without the reconciler: a row of another size than the
\* position of its symbol, or a position without a row.
Drifting ==
  Untracked \cup {s \in Symbols : \E r \in rows : r.symbol = s /\ r.size # exch[s]}

\* What the history variables note of a step.
Noted ==
  /\ overlap' = (overlap \/ \E c, d \in Cycles : c # d /\ "idle" \notin {pc'[c], pc'[d]})
  /\ drifted' = [a \in Audits |-> stage'[a] # "idle" /\ (drifted[a] \/ Drifting' # {})]

CycleStep(c) == Review(c) \/ Fire(c) \/ Persist(c) \/ FireQueued(c)

AuditStep(a) ==
  \/ a \in Syncs /\ (SyncRead(a) \/ SyncReport(a))
  \/ a \in Reconciles /\ (ReconcileRead(a) \/ ReconcileReport(a) \/ ReconcileFails(a))

AccountStep(s) ==
  \/ Trigger(s)
  \/ SyncClose(s)
  \/ MarkClosed(s)
  \/ \E side \in Sides : UserTrade(s, side)

Next ==
  /\ \/ \E c \in Cycles : CycleStep(c) \/ Kill(c)
     \/ \E a \in Audits : AuditStep(a)
     \/ \E s \in Symbols : AccountStep(s)
  /\ Noted

Spec == Init /\ [][Next]_vars

\* Syncs and reconciles are started again and again by their schedulers
\* (github-setup.md:191, claude-code-routine.md:347) and come to their end:
\* every read has a timeout.  Nothing else owes a step.
FairSpec == Spec /\ \A a \in Audits : WF_vars(AuditStep(a) /\ Noted)

-----------------------------------------------------------------------------
(* Properties. *)

\* The cap is checked against rows that are not written yet.  However the cycles
\* interleave, this lets through at most one row per other cycle; and while no
\* two cycles have had candidates at one time, cap and uniqueness hold exactly.
RowsCapped ==
  /\ Cardinality(rows) <= MaxOpen + Cardinality(Cycles) - 1
  /\ ~overlap => /\ Cardinality(rows) <= MaxOpen
                 /\ \A q, r \in rows : q.symbol = r.symbol => q = r

\* Unless something but a cycle's loop moved a symbol - a bracket, the user,
\* the queue, an emergency close, a cycle killed before its upsert, a rescue
\* that could not close or an entry whose answer was lost, a row replaced by
\* another cycle's of the same id, the operator or a watcher under --emergency
\* closing its rows - the rows and the entries about to get one add up to the
\* position on the exchange: LONG less SHORT, an entry each.
Pending(s) == {cand[c] : c \in {d \in Cycles : pc[d] = "filled" /\ cand[d].symbol = s}}

Tracked(s, side) == {r \in RowsOf(rows, s) \cup Pending(s) : r.size = side}

LoopTracksItsEntries ==
  \A s \in Symbols \ strayed :
    exch[s] = Cardinality(Tracked(s, 1)) - Cardinality(Tracked(s, -1))

\* An audit raises no alarm over two sides that agreed all the time it looked at
\* them one after the other - except a sync whose read failed.
AlarmExplained ==
  \A a \in Audits : stage[a] = "half" /\ Verdict(a) # {} => drifted[a]

\* Once positions and rows stay as they are, the file of manual positions
\* settles on what is true, whatever a sync missed, misread or crossed before.
DriftSettles == <>[][FALSE]_<<exch, rows>> => <>[](manual = Untracked)
=============================================================================

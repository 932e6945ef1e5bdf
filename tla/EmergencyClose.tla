--------------------------- MODULE EmergencyClose ---------------------------
(***************************************************************************)
(* emergency_close_all(): list the open positions, send one reduce-only    *)
(* order for each, read the positions once more, report.  Between any two  *)
(* requests brackets trigger, the user trades and cycles that are not      *)
(* paused fire.  It neither reads nor writes open-positions.json.          *)
(***************************************************************************)
EXTENDS Integers

CONSTANTS
  Symbols,
  MaxTrades,   \* bound: entries and trades of others
  MaxResends,  \* bound: requests of a run sent again
  MaxFailures  \* bound: verifying reads that fail

ASSUME EmergencyAssumption ==
  MaxTrades \in Nat /\ MaxResends \in Nat /\ MaxFailures \in Nat

VARIABLES
  exch,      \* signed size held on the exchange for each symbol
  closing,   \* positions listed whose order has no answer yet
  emergency, \* progress, and the report's success
  resends,   \* requests of this run sent again
  trades,    \* bound counter: trades of others
  since,     \* history: the trades of others in each symbol since the listing
  unfilled,  \* history: symbols whose order failed, or was filled in part
  failures   \* history and bound counter: verifying reads that failed

ecVars == <<exch, closing, emergency, resends, trades, since, unfilled, failures>>

Running == {"closing", "troubled"}
Flat == [s \in Symbols |-> 0]

ECTypeOK ==
  /\ exch \in [Symbols -> -MaxTrades .. MaxTrades]
  /\ closing \subseteq [symbol: Symbols, size: Int \ {0}]
  /\ \A p, q \in closing : p.symbol = q.symbol => p = q
  /\ emergency \in Running \cup {"none", "success", "failure"}
  /\ closing # {} => emergency \in Running
  /\ resends \in 0 .. MaxResends
  /\ trades \in 0 .. MaxTrades
  /\ since \in [Symbols -> 0 .. MaxTrades]
  /\ unfilled \subseteq Symbols
  /\ failures \in 0 .. MaxFailures

ECInit ==
  /\ exch = Flat
  /\ closing = {} /\ emergency = "none"
  /\ resends = 0 /\ trades = 0 /\ failures = 0
  /\ since = Flat /\ unfilled = {}

Size(n) == IF n < 0 THEN -n ELSE n

\* A cycle's entry or a trade of the user.
Trade(s, side) ==
  /\ trades < MaxTrades
  /\ exch' = [exch EXCEPT ![s] = @ + side]
  /\ trades' = trades + 1
  /\ since' = [since EXCEPT ![s] = @ + 1]
  /\ UNCHANGED <<closing, emergency, resends, unfilled, failures>>

\* A resting bracket closes one entry.
Trigger(s) ==
  /\ exch[s] # 0
  /\ exch' = [exch EXCEPT ![s] = IF @ > 0 THEN @ - 1 ELSE @ + 1]
  /\ UNCHANGED <<closing, emergency, resends, trades, since, unfilled, failures>>

\* Mutant: the list keeps quantities and no sides.
ListedUnsigned == {[symbol |-> s, size |-> Size(exch[s])] : s \in {t \in Symbols : exch[t] # 0}}

\* get_open_positions(): what is not flat, with its side and size.
Listed == {[symbol |-> s, size |-> exch[s]] : s \in {t \in Symbols : exch[t] # 0}}

\* The positions that are open, or the report of a no-op.
Start ==
  /\ emergency \notin Running
  /\ closing' = Listed
  /\ emergency' = IF exch = Flat THEN "success" ELSE "closing"
  /\ resends' = 0 /\ since' = Flat /\ unfilled' = {}
  /\ UNCHANGED <<exch, trades, failures>>

\* close_position_market(): reduce-only, for the side and size listed.  The
\* exchange carries it out in part or whole, never past flat, and refuses it
\* when there is nothing of that side to reduce.
Reduced(held, size) ==
  {h \in -Size(held) .. Size(held) :
     held * size > 0 /\ h * held >= 0 /\ Size(held) - Size(h) <= Size(size)}

\* What is left when it is carried out whole: the smallest of these.
Wholly(held, size, h) == \A g \in Reduced(held, size) : Size(h) <= Size(g)

\* The order of one position is accepted ...
CloseOne(p) ==
  /\ p \in closing
  /\ closing' = closing \ {p}
  /\ \E h \in Reduced(exch[p.symbol], p.size) :
       /\ exch' = [exch EXCEPT ![p.symbol] = h]
       /\ unfilled' = IF Wholly(exch[p.symbol], p.size, h) THEN unfilled
                      ELSE unfilled \cup {p.symbol}
  /\ UNCHANGED <<emergency, resends, trades, since, failures>>

\* ... or it gets no answer, carried out or not, and is sent again ...
Resend(p) ==
  /\ p \in closing
  /\ resends < MaxResends
  /\ resends' = resends + 1
  /\ \E h \in Reduced(exch[p.symbol], p.size) \cup {exch[p.symbol]} :
       exch' = [exch EXCEPT ![p.symbol] = h]
  /\ UNCHANGED <<closing, emergency, trades, since, unfilled, failures>>

\* Mutant: an order that raises ends the run.
CloseFailsStops(p) ==
  /\ p \in closing
  /\ closing' = closing \ {p}
  /\ emergency' = "failure"
  /\ UNCHANGED <<exch, unfilled, resends, trades, since, failures>>

\* ... or raises, and the loop goes on: refused, for there is nothing left to
\* reduce; the symbol is not in exchangeInfo; or no request got an answer,
\* though the last may have been carried out.
CloseFails(p) ==
  /\ p \in closing
  /\ closing' = closing \ {p}
  /\ emergency' = "troubled"
  /\ \/ /\ Reduced(exch[p.symbol], p.size) = {}
        /\ UNCHANGED <<exch, unfilled>>
     \/ /\ \E h \in Reduced(exch[p.symbol], p.size) \cup {exch[p.symbol]} :
             exch' = [exch EXCEPT ![p.symbol] = h]
        /\ unfilled' = unfilled \cup {p.symbol}
  /\ UNCHANGED <<resends, trades, since, failures>>

\* Mutant: only the attempts count.
ReportOfAttempts(residual) == IF emergency = "closing" THEN "success" ELSE "failure"

Report(residual) ==
  IF residual = {} /\ emergency = "closing" THEN "success" ELSE "failure"

\* The positions are read once more; a read that fails is logged and taken for
\* an empty list.
Verify ==
  /\ emergency \in Running /\ closing = {}
  /\ \/ /\ emergency' = Report({s \in Symbols : exch[s] # 0})
        /\ UNCHANGED failures
     \/ /\ failures < MaxFailures
        /\ failures' = failures + 1
        /\ emergency' = Report({})
  /\ UNCHANGED <<exch, closing, resends, trades, since, unfilled>>

CloseStep == Verify \/ \E p \in closing : CloseOne(p) \/ Resend(p) \/ CloseFails(p)

ECNext ==
  \/ Start \/ CloseStep
  \/ \E s \in Symbols : Trigger(s) \/ \E side \in {-1, 1} : Trade(s, side)

ECSpec == ECInit /\ [][ECNext]_ecVars

-----------------------------------------------------------------------------
(* Properties. *)

\* Once the order of a position was filled whole, or refused for there was
\* nothing left to reduce, what is held of the symbol is no more than others have
\* traded of it since the listing; of a symbol that was flat then likewise.  The
\* orders carry sides and sizes that are out of date when they
\* arrive, twice when an answer is lost: that must neither leave a part of what
\* was listed nor open a position the other way.
NothingLeftBehind ==
  emergency \in Running =>
    \A s \in Symbols :
      \/ s \in unfilled \/ \E p \in closing : p.symbol = s
      \/ Size(exch[s]) <= since[s]

\* It reports success only on a flat account, unless the read that was to
\* verify it failed: "success=True only if every position is verifiably flat
\* after the close pass" (emergency_close.py:86).  A position opened while the
\* others are being closed, and an order filled in part, must show.
SuccessIsFlat ==
  [][emergency' = "success" /\ emergency # "success" =>
       exch = Flat \/ failures' > failures]_ecVars
=============================================================================

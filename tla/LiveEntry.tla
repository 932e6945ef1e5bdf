----------------------------- MODULE LiveEntry -----------------------------
(***************************************************************************)
(* One symbol's live entries: ExecutionRouter._fill_live() with its        *)
(* brackets and its rescue, SignedClient._do_request() with its retries,   *)
(* and the exchange.  Every attempt of a request is a step; the exchange   *)
(* may act on a request whose answer never arrives, and triggers resting   *)
(* stops and targets whenever it likes.                                    *)
(*                                                                         *)
(* Sizes are in units of one entry.  A repeated request carries the same   *)
(* client id.  The exchange refuses a repeated bracket and carries out a   *)
(* repeated market order: memory/execution-errors.md:226-229 records a day *)
(* on which two entries with one newClientOrderId filled, and the second   *)
(* one's TP was refused for its clientAlgoId (-4116).                      *)
(***************************************************************************)
EXTENDS Integers, FiniteSets

CONSTANTS
  MaxRetries,   \* SignedClient.max_retries
  LostAnswers,  \* requests whose answer may be lost
  Repeatable,   \* requests the exchange carries out again when repeated
  MaxEntries,   \* bound: entries tried
  MaxCrashes    \* bound: processes killed

Requests == {"entry", "sl", "tp", "cancel", "close"}
Entries == 1 .. MaxEntries

ASSUME EntryAssumption ==
  /\ MaxRetries \in Nat /\ MaxEntries \in Nat /\ MaxCrashes \in Nat
  /\ LostAnswers \subseteq Requests
  /\ Repeatable \subseteq {"entry", "close"}

VARIABLES
  pos,       \* size of the position on the exchange
  orders,    \* bracket orders resting on the exchange
  step,      \* what the router is at
  entry,     \* number of the entry it is at, or was at last
  attempt,   \* of the request under way
  applied,   \* whether the exchange has acted on that request
  outcome,   \* ExecutionOutcome.status of the last entry
  paused,    \* the kill switch
  doubled,   \* history: market orders carried out once more
  unacked,   \* history: entry orders acted on without an answer
  unclosed,  \* history: rescues whose closing order failed
  astray,    \* history: occasions for a stop to outlive its position
  unpaused,  \* history: a rescue whose safety.pause() raised
  careless,  \* history: a resume over a position that has no stop
  crashes    \* history: processes killed in the middle of an entry

exchange == <<pos, orders, doubled>>
control == <<step, entry, attempt, applied, outcome, paused>>
account == <<unacked, unclosed, astray, unpaused, careless, crashes>>
vars == <<exchange, control, account>>

Brackets == [kind: {"sl", "tp"}, of: Entries]
Outcomes == {"none", "filled", "rejected", "naked_rescued"}

TypeOK ==
  /\ pos \in Nat
  /\ orders \subseteq Brackets
  /\ step \in Requests \cup {"idle", "pause"}
  /\ entry \in 0 .. MaxEntries
  /\ attempt \in 0 .. MaxRetries
  /\ applied \in BOOLEAN
  /\ outcome \in Outcomes
  /\ paused \in BOOLEAN
  /\ unpaused \in BOOLEAN /\ careless \in BOOLEAN
  /\ \A n \in {doubled, unacked, unclosed, astray, crashes} : n \in Nat

Init ==
  /\ pos = 0 /\ orders = {}
  /\ step = "idle" /\ entry = 0 /\ attempt = 0 /\ applied = FALSE
  /\ outcome = "none"
  /\ paused = FALSE
  /\ doubled = 0 /\ unacked = 0 /\ unclosed = 0 /\ astray = 0 /\ crashes = 0
  /\ unpaused = FALSE /\ careless = FALSE

Stops == {o \in orders : o.kind = "sl"}
Bracket(kind) == [kind |-> kind, of |-> entry]

-----------------------------------------------------------------------------
(* The exchange. *)

\* Mutant: a closing order sent without reduceOnly.
ActsNotReduceOnly(r) ==
  \/ r = "entry" /\ pos' \in {pos, pos + 1} /\ UNCHANGED orders
  \/ r \in {"sl", "tp"} /\ orders' = orders \cup {Bracket(r)} /\ UNCHANGED pos
  \/ r = "cancel" /\ Bracket("sl") \in orders
     /\ orders' = orders \ {Bracket("sl")} /\ UNCHANGED pos
  \/ r = "close" /\ pos' = pos - 1 /\ UNCHANGED orders

\* What a request does if the exchange acts on it.  An entry may be accepted
\* and find no liquidity; a reduce-only close needs a position.
Acts(r) ==
  \/ r = "entry" /\ pos' \in {pos, pos + 1} /\ UNCHANGED orders
  \/ r \in {"sl", "tp"} /\ orders' = orders \cup {Bracket(r)} /\ UNCHANGED pos
  \/ r = "cancel" /\ Bracket("sl") \in orders
     /\ orders' = orders \ {Bracket("sl")} /\ UNCHANGED pos
  \/ r = "close" /\ pos > 0 /\ pos' = pos - 1 /\ UNCHANGED orders

\* A resting order triggers; being reduce-only it finds a position or lapses.
\* The other bracket of the pair stays.
Trigger(o) ==
  /\ orders' = orders \ {o}
  /\ pos' = IF pos > 0 THEN pos - 1 ELSE 0
  /\ astray' = IF o.kind = "tp" /\ pos > 0 THEN astray + 1 ELSE astray
  /\ UNCHANGED <<control, doubled, unacked, unclosed, unpaused, careless, crashes>>

-----------------------------------------------------------------------------
(* The router's way through an entry. *)

Goto(to) == step' = to /\ attempt' = 0 /\ applied' = FALSE

\* Mutant: an entry whose stop was refused is left as it is.
AfterNoRescue(r, ok) ==
  CASE r = "entry" -> IF ok THEN "sl" ELSE "idle"
    [] r = "sl" -> IF ok THEN "tp" ELSE "idle"
    [] r = "tp" -> IF ok THEN "idle" ELSE "cancel"
    [] r = "cancel" -> "close"
    [] OTHER -> "pause"

\* Mutant: a rescue that forgets the stop it placed.
AfterNoCancel(r, ok) ==
  CASE r = "entry" -> IF ok THEN "sl" ELSE "idle"
    [] r = "sl" -> IF ok THEN "tp" ELSE "close"
    [] r = "tp" -> IF ok THEN "idle" ELSE "close"
    [] OTHER -> "pause"

\* Where the router goes after a request: brackets in turn; a stop that failed
\* is not there to be cancelled, for its order id is not known; after a failed
\* target the stop is cancelled; then the entry is closed, and the switch set,
\* whatever became of the cancel and the close.
After(r, ok) ==
  CASE r = "entry" -> IF ok THEN "sl" ELSE "idle"
    [] r = "sl" -> IF ok THEN "tp" ELSE "close"
    [] r = "tp" -> IF ok THEN "idle" ELSE "cancel"
    [] r = "cancel" -> "close"
    [] OTHER -> "pause"

\* The request is over, with an answer or with an exception.  A failed entry
\* is rejected by the queue and ends the cycle with an exception in the loop;
\* neither looks at the exchange.
Finish(r, ok, acted) ==
  /\ Goto(After(r, ok))
  /\ outcome' = CASE r = "entry" /\ ~ok -> "rejected"
                  [] r = "tp" /\ ok -> "filled"
                  [] OTHER -> outcome
  /\ unacked' = IF r = "entry" /\ ~ok /\ acted THEN unacked + 1 ELSE unacked
  /\ unclosed' = IF r = "close" /\ ~ok THEN unclosed + 1 ELSE unclosed
  /\ astray' = IF \/ r = "entry" /\ ok /\ pos' = pos
                  \/ r = "sl" /\ ~ok /\ acted
                  \/ r = "cancel" /\ ~ok
               THEN astray + 1 ELSE astray
  /\ UNCHANGED <<entry, paused, unpaused, careless, crashes>>

\* Mutant: the bound of the retries is off by one.
AgainOnceMore(r, acted) ==
  IF attempt <= MaxRetries
  THEN /\ attempt' = attempt + 1
       /\ applied' = acted
       /\ UNCHANGED <<step, entry, outcome, paused, account>>
  ELSE Finish(r, FALSE, acted)

\* 429, 418, 5xx or a network error: the same request is sent again, POST or
\* not, until max_retries is reached.
Again(r, acted) ==
  IF attempt < MaxRetries
  THEN /\ attempt' = attempt + 1
       /\ applied' = acted
       /\ UNCHANGED <<step, entry, outcome, paused, account>>
  ELSE Finish(r, FALSE, acted)

\* route() or execute_approved_queue() starts an entry.  The loop has checked
\* the switch before; the queue has not.
Begin(fromLoop) ==
  /\ step = "idle" /\ entry < MaxEntries
  /\ fromLoop => ~paused
  /\ entry' = entry + 1
  /\ Goto("entry")
  /\ outcome' = "none"
  /\ UNCHANGED <<exchange, paused, account>>

\* The exchange carries the request out, for the first time or again.
Served(r) ==
  /\ applied => r \in Repeatable
  /\ Acts(r)
  /\ doubled' = IF applied THEN doubled + 1 ELSE doubled

\* The exchange acts and its answer arrives.
Answered(r) ==
  /\ step = r
  /\ Served(r)
  /\ Finish(r, TRUE, TRUE)

\* The exchange acts and its answer does not arrive.
AnswerLost(r) ==
  /\ step = r /\ r \in LostAnswers
  /\ Served(r)
  /\ Again(r, TRUE)

\* The exchange does not get the request, or cannot serve it.
NotServed(r) ==
  /\ step = r
  /\ Again(r, applied)
  /\ UNCHANGED exchange

\* A hard 4xx, never retried: bad filters, no margin, would trigger at once,
\* nothing to reduce, or a client id seen before.
Refused(r) ==
  /\ step = r
  /\ Finish(r, FALSE, applied)
  /\ UNCHANGED exchange

\* The last part of _rescue_naked_entry(): a pause that raises is logged.
PauseAfterRescue ==
  /\ step = "pause"
  /\ \E saved \in BOOLEAN :
       /\ paused' = (paused \/ saved)
       /\ unpaused' = (unpaused \/ ~saved)
  /\ outcome' = "naked_rescued"
  /\ Goto("idle")
  /\ UNCHANGED <<exchange, entry, unacked, unclosed, astray, careless, crashes>>

\* The process is killed.
Crash ==
  /\ step # "idle" /\ crashes < MaxCrashes
  /\ crashes' = crashes + 1
  /\ Goto("idle")
  /\ UNCHANGED <<exchange, entry, outcome, paused, unacked, unclosed,
                 astray, unpaused, careless>>

OperatorResume ==
  /\ paused
  /\ paused' = FALSE
  /\ careless' = (careless \/ pos > Cardinality(Stops))
  /\ UNCHANGED <<exchange, step, entry, attempt, applied, outcome, unacked,
                 unclosed, astray, unpaused, crashes>>

-----------------------------------------------------------------------------
RouterStep ==
  \/ \E r \in Requests : Answered(r) \/ AnswerLost(r) \/ NotServed(r) \/ Refused(r)
  \/ PauseAfterRescue

Next ==
  \/ RouterStep
  \/ \E fromLoop \in BOOLEAN : Begin(fromLoop)
  \/ \E o \in orders : Trigger(o)
  \/ Crash
  \/ OperatorResume

Spec == Init /\ [][Next]_vars

-----------------------------------------------------------------------------
(* Properties. *)

\* The part of the position no stop covers is accounted for: by the entry under
\* way, by an order the exchange carried out twice, by an entry whose answer was
\* lost, by a rescue that could not close, or by a process killed in between.
\* Nothing else leaves a position naked (_place_brackets_or_rescue).
InFlight == IF step = "idle" \/ (step = "entry" /\ ~applied) THEN 0 ELSE 1

NakedAccounted ==
  pos <= Cardinality(Stops) + InFlight + doubled + unacked + unclosed + crashes

\* A resting stop covers a position, unless the other bracket closed it, the
\* entry found no liquidity, the answer to the stop was lost, its cancellation
\* failed or a close was carried out twice: a rescue leaves no stop behind
\* otherwise ("we MUST also cancel the SL during rescue",
\* execution_router.py:531).
StopsAccounted == Cardinality(Stops) <= pos + astray + doubled

\* The position never turns over, and it grows beyond one unit per entry only
\* by a repeated order, whatever is triggered or closed twice.
NeverOverfilled == 0 <= pos /\ pos <= entry + doubled

\* "We MUST either (a) place both successfully and return filled, or (b)
\* immediately reduce-only MARKET close the entry, pause safety, and return
\* naked_rescued.  There is no third option" (execution_router.py:405-408), as
\* an abstract specification.  It is kept until an order is carried out twice,
\* an entry is accepted without an answer, a pause cannot be saved, the operator
\* resumes over a naked position or the process is killed.
Excused == doubled > 0 \/ unacked > 0 \/ unpaused \/ careless \/ crashes > 0

Naked == IF Excused \/ pos <= Cardinality(Stops) THEN 0
         ELSE pos - Cardinality(Stops)

Atomic == INSTANCE AtomicEntry
            WITH firing <- (step # "idle"), naked <- Naked, halted <- paused

AtomicPromise == Atomic!Spec
=============================================================================

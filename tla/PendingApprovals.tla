-------------------------- MODULE PendingApprovals --------------------------
(***************************************************************************)
(* data/pending-approvals.json and the processes that work on it: the live *)
(* cycle, which queues proposals and fires the approved ones, and the      *)
(* user's tools (run_approvals.py, the Telegram bot).  Every call of       *)
(* PendingApprovalsStore loads the whole file, changes its copy and writes *)
(* the copy back; nothing locks the file in between, so a write is two     *)
(* steps here and any other process may come between them.                 *)
(***************************************************************************)
EXTENDS Naturals, FiniteSets

CONSTANTS
  Ids,          \* approval ids the live cycles may queue
  Users,        \* processes of the user: CLI calls, the bot
  Workers,      \* processes running run_live_cycle.main
  Named,        \* statuses of the entries the user names in a typed command
  KeepLast,     \* prune_terminal(keep_last_n)
  MaxCommands,  \* bound: store calls of the user
  MaxCrashes    \* bound: live cycles killed

Procs == Users \cup Workers

Terminal == {"executed", "rejected", "expired", "cancelled"}
Statuses == {"pending", "approved"} \cup Terminal
Decisions == {"approved", "rejected", "cancelled"}

ASSUME ApprovalsAssumption ==
  /\ Users \cap Workers = {} /\ IsFiniteSet(Workers)
  /\ Named \subseteq Statuses
  /\ KeepLast \in Nat /\ MaxCommands \in Nat /\ MaxCrashes \in Nat

\* A file maps each id to its status, "absent" if there is no such entry.
Files == [Ids -> Statuses \cup {"absent"}]

VARIABLES
  file,      \* pending-approvals.json
  saves,     \* store calls between their load and their os.replace
  overdue,   \* ids whose deadline_at has passed
  asked,     \* of each user: entries run_approvals --inline still asks about
  stage,     \* where each live cycle is
  todo,      \* approved entries the live cycle has loaded and not yet fired
  verdict,   \* outcome of the entry it fired last
  queued,    \* history: ids ever queued
  fires,     \* history: entry orders executed for each id
  grants,    \* history: the user's OKs for each id
  lost,      \* history: saves that overwrote somebody else's
  commands,  \* bound counter
  crashes    \* history and bound counter: live cycles killed

store == <<file, saves, lost>>
cycle == <<stage, todo, verdict>>
vars == <<file, saves, overdue, asked, stage, todo, verdict, queued, fires,
          grants, lost, commands, crashes>>

Saves == [by: Procs, base: Files, new: Files]
Verdicts == [id: Ids, to: {"executed", "rejected"}]

TypeOK ==
  /\ file \in Files
  /\ saves \subseteq Saves
  /\ \A p \in Procs : Cardinality({s \in saves : s.by = p}) <= 1
  /\ overdue \subseteq queued /\ queued \subseteq Ids
  /\ asked \in [Users -> SUBSET Ids]
  /\ stage \in [Workers -> {"idle", "expired", "queue", "settle", "loop"}]
  /\ todo \in [Workers -> SUBSET Ids]
  /\ verdict \in [Workers -> SUBSET Verdicts]
  /\ \A w \in Workers : (stage[w] = "settle") <=> (verdict[w] # {})
  /\ fires \in [Ids -> Nat] /\ grants \in [Ids -> Nat]
  /\ lost \in Nat
  /\ commands \in 0 .. MaxCommands /\ crashes \in 0 .. MaxCrashes

Init ==
  /\ file = [id \in Ids |-> "absent"]
  /\ saves = {}
  /\ overdue = {} /\ queued = {}
  /\ asked = [u \in Users |-> {}]
  /\ stage = [w \in Workers |-> "idle"]
  /\ todo = [w \in Workers |-> {}]
  /\ verdict = [w \in Workers |-> {}]
  /\ fires = [id \in Ids |-> 0] /\ grants = [id \in Ids |-> 0]
  /\ lost = 0 /\ commands = 0 /\ crashes = 0

-----------------------------------------------------------------------------
(* The store. *)

EntriesIn(status) == {id \in Ids : file[id] = status}

Free(p) == \A s \in saves : s.by # p

\* A store call loads the file and computes what it will write ...
Call(p, new) ==
  /\ saves' = saves \cup {[by |-> p, base |-> file, new |-> new]}
  /\ UNCHANGED <<file, lost>>

\* ... and replaces the file, whatever it is by now.
Save(s) ==
  /\ saves' = saves \ {s}
  /\ file' = s.new
  /\ lost' = IF s.base = file THEN lost ELSE lost + 1
  /\ UNCHANGED <<overdue, asked, cycle, queued, fires, grants, commands, crashes>>

\* transition(): the status is set whatever it was; an unknown id is a no-op.
Transition(p, id, status) ==
  IF file[id] = "absent"
  THEN UNCHANGED store
  ELSE Call(p, [file EXCEPT ![id] = status])

\* upsert() of a new entry
Upsert(p, id) == Call(p, [file EXCEPT ![id] = "pending"])

\* expire_overdue(): only pending entries expire; nothing to expire, no save.
ExpireOverdue(p) ==
  LET late == EntriesIn("pending") \cap overdue
  IN  IF late = {}
      THEN UNCHANGED store
      ELSE Call(p, [id \in Ids |-> IF id \in late THEN "expired" ELSE file[id]])

Drop(p, gone) ==
  IF gone = {}
  THEN UNCHANGED store
  ELSE Call(p, [id \in Ids |-> IF id \in gone THEN "absent" ELSE file[id]])

\* Mutant: a prune that takes every entry that is not pending for decided.
PruneDecided(p) ==
  LET over == {id \in Ids : file[id] \notin {"pending", "absent"}}
  IN  \E gone \in SUBSET over :
        /\ Cardinality(over \ gone) = (IF Cardinality(over) < KeepLast
                                       THEN Cardinality(over) ELSE KeepLast)
        /\ Drop(p, gone)

\* prune_terminal(): all but the KeepLast entries decided last are dropped;
\* which those are is left open.
PruneTerminal(p) ==
  LET over == {id \in Ids : file[id] \in Terminal}
  IN  \E gone \in SUBSET over :
        /\ Cardinality(over \ gone) = (IF Cardinality(over) < KeepLast
                                       THEN Cardinality(over) ELSE KeepLast)
        /\ Drop(p, gone)

-----------------------------------------------------------------------------
(* The user. *)

UserCall(u) ==
  /\ Free(u)
  /\ commands < MaxCommands
  /\ commands' = commands + 1
  /\ UNCHANGED <<overdue, cycle, queued, fires, crashes>>

Decide(u, id, status) ==
  /\ Transition(u, id, status)
  /\ grants' = IF status = "approved" THEN [grants EXCEPT ![id] = @ + 1] ELSE grants

\* run_approvals --approve / --reject / --cancel, the bot's /approve, /reject
TypedDecision(u, id, status) ==
  /\ UserCall(u)
  /\ file[id] \in Named
  /\ Decide(u, id, status)
  /\ UNCHANGED asked

\* run_approvals --inline reads the pending entries once ...
StartInline(u) ==
  /\ Free(u) /\ asked[u] = {}
  /\ asked' = [asked EXCEPT ![u] = EntriesIn("pending")]
  /\ UNCHANGED <<store, overdue, cycle, queued, fires, grants, commands, crashes>>

\* ... and asks about one after the other.  An overdue one is expired; the
\* answer to any other takes as long as it takes, and is written down whatever
\* became of the entry meanwhile.
AnswerInline(u, id) ==
  /\ id \in asked[u]
  /\ UserCall(u)
  /\ asked' = [asked EXCEPT ![u] = @ \ {id}]
  /\ \/ id \in overdue /\ Decide(u, id, "expired")
     \/ \E status \in Decisions : Decide(u, id, status)

\* Any other answer leaves the entry pending; end of input ends the dialogue.
LeaveInline(u) ==
  /\ Free(u)
  /\ \E left \in SUBSET asked[u] :
       /\ left # asked[u]
       /\ asked' = [asked EXCEPT ![u] = left]
  /\ UNCHANGED <<store, overdue, cycle, queued, fires, grants, commands, crashes>>

\* run_approvals --expire
ExpireCommand(u) ==
  /\ UserCall(u)
  /\ ExpireOverdue(u)
  /\ UNCHANGED <<asked, grants>>

\* run_approvals --prune
PruneCommand(u) ==
  /\ UserCall(u)
  /\ PruneTerminal(u)
  /\ UNCHANGED <<asked, grants>>

-----------------------------------------------------------------------------
(* The live cycle: execute_approved_queue(), then the candidates. *)

Advance(w, to) ==
  /\ stage' = [stage EXCEPT ![w] = to]
  /\ UNCHANGED <<overdue, asked, grants, commands, crashes>>

StartQueue(w) ==
  /\ stage[w] = "idle" /\ Free(w)
  /\ ExpireOverdue(w)
  /\ Advance(w, "expired")
  /\ UNCHANGED <<todo, verdict, queued, fires>>

\* Mutant: the worker skips approved entries past their deadline.
LoadInTime(w) ==
  /\ stage[w] = "expired" /\ Free(w)
  /\ todo' = [todo EXCEPT ![w] = EntriesIn("approved") \ overdue]
  /\ Advance(w, "queue")
  /\ UNCHANGED <<store, verdict, queued, fires>>

\* Mutant: the worker takes the pending entries, too.
LoadUndecided(w) ==
  /\ stage[w] = "expired" /\ Free(w)
  /\ todo' = [todo EXCEPT ![w] = EntriesIn("approved") \cup EntriesIn("pending")]
  /\ Advance(w, "queue")
  /\ UNCHANGED <<store, verdict, queued, fires>>

\* load_actionable(): read once, before the first order.
LoadActionable(w) ==
  /\ stage[w] = "expired" /\ Free(w)
  /\ todo' = [todo EXCEPT ![w] = EntriesIn("approved")]
  /\ Advance(w, "queue")
  /\ UNCHANGED <<store, verdict, queued, fires>>

\* One approval is fired.  An order that is filled and bracketed ends
\* "executed", a rescued one or one whose answer is lost "rejected"; an unknown
\* symbol or a refused order sends nothing.
FireApproved(w, id) ==
  /\ stage[w] = "queue" /\ Free(w) /\ id \in todo[w]
  /\ todo' = [todo EXCEPT ![w] = @ \ {id}]
  /\ \E to \in {"executed", "rejected"}, sent \in {0, 1} :
       /\ to = "executed" => sent = 1
       /\ fires' = [fires EXCEPT ![id] = @ + sent]
       /\ verdict' = [verdict EXCEPT ![w] = {[id |-> id, to |-> to]}]
  /\ Advance(w, "settle")
  /\ UNCHANGED <<store, queued>>

\* Mutant: a worker that does not write the verdict of a rejection down.
SettleExecutedOnly(w) ==
  /\ stage[w] = "settle" /\ Free(w)
  /\ \E v \in verdict[w] :
       IF v.to = "executed" THEN Transition(w, v.id, v.to) ELSE UNCHANGED store
  /\ verdict' = [verdict EXCEPT ![w] = {}]
  /\ Advance(w, "queue")
  /\ UNCHANGED <<todo, queued, fires>>

\* Mutant: the verdict is kept for the next approval.
SettleKeepsVerdict(w) ==
  /\ stage[w] = "settle" /\ Free(w)
  /\ \E v \in verdict[w] : Transition(w, v.id, v.to)
  /\ Advance(w, "queue")
  /\ UNCHANGED <<todo, verdict, queued, fires>>

\* The outcome of the order is written down.
Settle(w) ==
  /\ stage[w] = "settle" /\ Free(w)
  /\ \E v \in verdict[w] : Transition(w, v.id, v.to)
  /\ verdict' = [verdict EXCEPT ![w] = {}]
  /\ Advance(w, "queue")
  /\ UNCHANGED <<todo, queued, fires>>

EndQueue(w) ==
  /\ stage[w] = "queue" /\ Free(w) /\ todo[w] = {}
  /\ Advance(w, "loop")
  /\ UNCHANGED <<store, todo, verdict, queued, fires>>

\* _queue_for_approval(): the policy asks for the user's OK.
QueueForApproval(w, id) ==
  /\ stage[w] = "loop" /\ Free(w) /\ id \notin queued
  /\ Upsert(w, id)
  /\ queued' = queued \cup {id}
  /\ Advance(w, "loop")
  /\ UNCHANGED <<todo, verdict, fires>>

EndCycle(w) ==
  /\ stage[w] = "loop" /\ Free(w)
  /\ Advance(w, "idle")
  /\ UNCHANGED <<store, todo, verdict, queued, fires>>

\* The process is killed; what it has not replaced yet is gone.
Crash(w) ==
  /\ crashes < MaxCrashes
  /\ stage[w] # "idle"
  /\ crashes' = crashes + 1
  /\ saves' = {s \in saves : s.by # w}
  /\ stage' = [stage EXCEPT ![w] = "idle"]
  /\ todo' = [todo EXCEPT ![w] = {}]
  /\ verdict' = [verdict EXCEPT ![w] = {}]
  /\ UNCHANGED <<file, overdue, asked, queued, fires, grants, lost, commands>>

DeadlinePasses(id) ==
  /\ id \in queued \ overdue
  /\ overdue' = overdue \cup {id}
  /\ UNCHANGED <<store, asked, cycle, queued, fires, grants, commands, crashes>>

-----------------------------------------------------------------------------
UserStep(u) ==
  \/ \E id \in Ids, status \in Decisions : TypedDecision(u, id, status)
  \/ StartInline(u) \/ LeaveInline(u)
  \/ \E id \in Ids : AnswerInline(u, id)
  \/ ExpireCommand(u) \/ PruneCommand(u)

\* What a live cycle does by itself once it runs.
WorkerStep(w) ==
  \/ StartQueue(w) \/ LoadActionable(w)
  \/ \E id \in Ids : FireApproved(w, id)
  \/ Settle(w) \/ EndQueue(w) \/ EndCycle(w)
  \/ \E s \in saves : s.by = w /\ Save(s)

Next ==
  \/ \E u \in Users : UserStep(u)
  \/ \E s \in saves : Save(s)
  \/ \E w \in Workers : WorkerStep(w) \/ Crash(w)
  \/ \E w \in Workers, id \in Ids : QueueForApproval(w, id)
  \/ \E id \in Ids : DeadlinePasses(id)

Spec == Init /\ [][Next]_vars

(***************************************************************************)
(* Live cycles are started again and again (claude-code-routine.md) and    *)
(* get past the safety gate in the end; a started one goes on unless it is *)
(* killed.  The user owes nothing, not even the end of a call begun.       *)
(***************************************************************************)
FairSpec == Spec /\ \A w \in Workers : WF_vars(WorkerStep(w))

-----------------------------------------------------------------------------
(* Properties. *)

\* No order goes out for a proposal the user has never said yes to, however
\* stale the list the worker fires from or the file a save was made from
\* (execute_approved_queue fires entries "flagged approved" only).
FiredOnlyIfApproved == \A id \in Ids : fires[id] > 0 => grants[id] > 0

\* Each worker fires a proposal at most once for every time the user said yes,
\* unless a live cycle died between order and verdict, or a save made from a stale
\* load put the entry back - which all of them may then fire again.
RefireNeedsCause ==
  \A id \in Ids :
    fires[id] <= Cardinality(Workers) * (grants[id] + lost) + crashes

\* A pending or approved entry leaves the file only if a stale save drops it,
\* never by a prune: the user's queue loses no open question.
NoOpenEntryVanishes ==
  [][\A id \in Ids :
       file[id] \in {"pending", "approved"} /\ file'[id] = "absent"
         => lost' > lost]_vars

\* An approval is acted upon: as long as live cycles come and die only finitely
\* often, an approved entry does not stay approved.
ApprovedSettles ==
  \A id \in Ids : file[id] = "approved" ~> file[id] # "approved"
=============================================================================

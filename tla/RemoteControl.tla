--------------------------- MODULE RemoteControl ---------------------------
(***************************************************************************)
(* The Telegram bot: commands of the owner's chat come in through long     *)
(* polling and work on the safety state and on a queued proposal, beside a *)
(* watcher that books closes and a live cycle that fires what is approved. *)
(* Nobody locks pending-approvals.json: a transition() loads all of it and *)
(* replaces all of it, and so do those of other proposals.                 *)
(*                                                                         *)
(* getUpdates hands out every update from the offset on and takes those    *)
(* below it for confirmed.  The bot handles a whole batch before it writes *)
(* the offset into telegram-state.json, and `--register` writes the same   *)
(* file from another process.  The owner's chat is log, update i of it has *)
(* update_id i.                                                            *)
(***************************************************************************)
EXTENDS SharedSafety, SequencesExt

CONSTANTS
  Chats,        \* bound: the sequences of messages that may arrive
  Pnls,         \* the net PnL a closed position may have
  MaxCloses,    \* bound: closes booked
  MaxFaults,    \* bound: bots and cycles killed, and handlers that raise
  Drafts,       \* bound: what the proposal may be in the copies others hold
  MaxRegisters, \* bound: runs of --register
  MaxRevivals   \* bound: approvals put back by a save from an older copy

Commands == {"pause", "resume", "approve", "reject", "other"}
Statuses == {"pending", "approved", "rejected", "executed"}
Messages == [from: {"owner", "stranger"}, command: Commands]
MaxMessages == Max({Len(chat) : chat \in Chats})

ASSUME RemoteAssumption ==
  /\ Procs = {"bot", "watcher", "cycle"}
  /\ Chats # {} /\ Chats \subseteq Seq(Messages) /\ IsFiniteSet(Chats)
  /\ Pnls \subseteq Int /\ Drafts \subseteq Statuses
  /\ {MaxCloses, MaxFaults, MaxRegisters, MaxRevivals} \subseteq Nat

Now == 0  \* the day does not change while the model runs

VARIABLES
  log,        \* the updates Telegram has for the bot
  confirmed,  \* the highest offset Telegram has been asked for
  offset,     \* long_polling_offset in telegram-state.json; 0: none, unreadable
  stage,      \* where poll_once() is
  next,       \* the offset it has asked for, then the one it will store
  at, upto,   \* the update it is at, and the last one of its batch
  register,   \* where --register is, with the offset it has read
  entry,      \* status of the proposal in pending-approvals.json
  draft,      \* its status in a copy whose holder changes another proposal
  cycle,      \* where the live cycle is
  closes,     \* bound counter
  handled,    \* history: the updates handled so far
  fires,      \* history: orders sent for the proposal
  word,       \* history: what moved the switch since the bot's last save
  crashes,    \* history: bots killed
  kills,      \* history: live cycles that died between an order and its entry
  revivals,   \* history: saves of a draft that approved the proposal again
  errors,     \* history: handlers that raised
  clobbers    \* history: times the stored offset went back

bot == <<stage, next, at, upto>>
telegram == <<log, confirmed>>
queue == <<entry, draft, cycle>>
history == <<handled, fires, crashes, errors, clobbers, kills, revivals>>
vars == <<safety, telegram, offset, bot, register, queue, closes, history, word>>

Stages == {"down", "idle", "polling", "handling", "acting", "deciding", "writing"}
CycleStages == {"idle", "rolled", "gated", "loaded", "sent", "writing"}
Updates == 1 .. MaxMessages
Offsets == 0 .. MaxMessages + 1

TypeOK ==
  /\ SafetyTypeOK
  /\ \E chat \in Chats : IsPrefix(log, chat)
  /\ {confirmed, offset, next} \subseteq Offsets
  /\ stage \in Stages
  /\ at \in 0 .. MaxMessages + 1 /\ upto \in 0 .. Len(log)
  /\ stage \in {"handling", "acting", "deciding"} => upto = 0 \/ at <= upto + 1
  /\ stage = "acting" => \E c \in calls : c.by = "bot"
  /\ register.at \in {"idle", "read", "writing"}
  /\ register.offset \in Offsets
  /\ entry \in Statuses /\ draft \in Statuses \cup {"none"}
  /\ cycle \in CycleStages
  /\ handled \subseteq Updates /\ fires \in Nat
  /\ word \in {"own", "rules", "stale"}
  /\ {closes, crashes, errors, clobbers, kills, revivals} \subseteq Nat

Init ==
  /\ SafetyInit
  /\ log = <<>> /\ confirmed = 0 /\ offset = 0
  /\ stage = "idle" /\ next = 0 /\ at = 0 /\ upto = 0
  /\ register = [at |-> "idle", offset |-> 0, runs |-> 0]
  /\ entry = "pending" /\ draft = "none" /\ cycle = "idle" /\ closes = 0
  /\ handled = {} /\ fires = 0
  /\ word = "own" /\ crashes = 0 /\ errors = 0 /\ clobbers = 0
  /\ kills = 0 /\ revivals = 0

-----------------------------------------------------------------------------
(* poll_once() *)

Idle == stage' = "idle" /\ next' = 0 /\ at' = 0 /\ upto' = 0

\* The offset is read from the file, and getUpdates called with it.
Poll ==
  /\ stage = "idle"
  /\ stage' = "polling" /\ next' = offset
  /\ UNCHANGED <<safety, telegram, offset, at, upto, register, queue,
                 closes, history, word>>

\* Mutant: one is added twice.
AfterTwo(last) == Max({next, last + 2})

\* last_update_id
After(last) == Max({next, last + 1})

\* External: all updates not confirmed before are handed out.
Answered ==
  /\ stage = "polling"
  /\ confirmed' = Max({confirmed, next})
  /\ at' = Max({1, confirmed'})
  /\ IF at' <= Len(log)
     THEN upto' = Len(log) /\ next' = After(Len(log))
     ELSE upto' = 0 /\ UNCHANGED next
  /\ stage' = "handling"
  /\ UNCHANGED <<safety, log, offset, register, queue, closes, history, word>>

\* The request or its answer is lost: poll_once() returns, to be called again.
NoAnswer ==
  /\ stage = "polling"
  /\ confirmed' \in {confirmed, Max({confirmed, next})}
  /\ Idle
  /\ UNCHANGED <<safety, log, offset, register, queue, closes, history, word>>

\* The update at hand has been handled, whatever came of it.
Handled ==
  /\ stage' = "handling"
  /\ at' = at + 1
  /\ handled' = handled \cup {at}
  /\ UNCHANGED <<next, upto, telegram, offset, register, draft, cycle, closes,
                 fires, crashes, clobbers, kills, revivals>>

Handling == stage = "handling" /\ at <= upto

\* Mutant: _handle() without the look at all_authorized_chat_ids.
AnyoneSays(command) == Handling /\ log[at].command = command

\* A command of the owner's chat; unknown chats are logged and left unanswered.
Says(command) == Handling /\ log[at].command = command /\ log[at].from = "owner"

\* Strangers, and the commands and free text that only read.
Ignore ==
  /\ Handling
  /\ \A command \in Commands \ {"other"} : ~Says(command)
  /\ Handled
  /\ UNCHANGED <<safety, entry, errors, word>>

\* handle_pause(), handle_resume(): a call of the manager.
Act ==
  /\ \/ Says("pause") /\ Load("bot", <<Pause(risk, "manual", FALSE, 0, Now)>>)
     \/ Says("resume") /\ Load("bot", <<Resume(risk)>>)
  /\ stage' = "acting"
  /\ UNCHANGED <<next, at, upto, telegram, offset, register, queue,
                 closes, history, word>>

ActEnds ==
  /\ stage = "acting"
  /\ \E c \in calls : c.by = "bot" /\ Save(c)
  /\ word' = "own"
  /\ Handled
  /\ UNCHANGED <<entry, errors>>

\* handle_approve(), handle_reject(): transition() loads the proposals ...
Decide ==
  /\ Says("approve") \/ Says("reject")
  /\ stage' = "deciding"
  /\ UNCHANGED <<safety, next, at, upto, telegram, offset, register, queue,
                 closes, history, word>>

\* ... and saves them with the status set, whatever it was and is by now.
DecideEnds ==
  /\ stage = "deciding"
  /\ entry' = IF log[at].command = "approve" THEN "approved" ELSE "rejected"
  /\ Handled
  /\ UNCHANGED <<safety, errors, word>>

\* A handler that raises is answered with the error; its update is done.
HandlerFails ==
  /\ crashes + errors + kills < MaxFaults
  /\ \/ stage \in {"acting", "deciding"}
     \/ Handling /\ log[at].from = "owner"
  /\ errors' = errors + 1
  /\ Abandon("bot")
  /\ Handled
  /\ UNCHANGED <<entry, word>>

\* Mutant: the offset is stored before the batch is handled.
TruncateFirst ==
  /\ stage = "handling"
  /\ stage' = "writing" /\ offset' = 0
  /\ UNCHANGED <<safety, telegram, next, at, upto, register, queue,
                 closes, history, word>>

\* _update_state() truncates telegram-state.json ...
TruncateState ==
  /\ stage = "handling" /\ (upto = 0 \/ at > upto)
  /\ stage' = "writing" /\ offset' = 0
  /\ UNCHANGED <<safety, telegram, next, at, upto, register, queue,
                 closes, history, word>>

\* ... and fills it.  If another process has filled it meanwhile, the two texts
\* may mix into an unreadable one.
WriteState ==
  /\ stage = "writing"
  /\ offset' \in {next} \cup (IF offset = 0 THEN {} ELSE {0})
  /\ clobbers' = IF offset' < next THEN clobbers + 1 ELSE clobbers
  /\ Idle
  /\ UNCHANGED <<safety, telegram, register, queue, closes, handled, fires,
                 crashes, errors, kills, revivals, word>>

\* The bot is killed.
Crash ==
  /\ stage # "down" /\ crashes + errors + kills < MaxFaults
  /\ crashes' = crashes + 1
  /\ Abandon("bot")
  /\ stage' = "down" /\ next' = 0 /\ at' = 0 /\ upto' = 0
  /\ UNCHANGED <<telegram, offset, register, queue, closes, handled, fires,
                 errors, clobbers, kills, revivals, word>>

Restart ==
  /\ stage = "down"
  /\ Idle
  /\ UNCHANGED <<safety, telegram, offset, register, queue, closes, history, word>>

-----------------------------------------------------------------------------
(* telegram_bot --register, in a process of its own: the same _update_state(). *)

Register(change) ==
  /\ change
  /\ clobbers' = IF offset' < offset THEN clobbers + 1 ELSE clobbers
  /\ UNCHANGED <<safety, telegram, bot, queue, closes, handled, fires, crashes,
                 errors, kills, revivals, word>>

RegisterReads ==
  /\ register.at = "idle" /\ register.runs < MaxRegisters
  /\ register' = [at |-> "read", offset |-> offset, runs |-> register.runs + 1]
  /\ Register(UNCHANGED offset)

RegisterTruncates ==
  /\ register.at = "read"
  /\ register' = [register EXCEPT !.at = "writing"]
  /\ Register(offset' = 0)

RegisterWrites ==
  /\ register.at = "writing"
  /\ register' = [register EXCEPT !.at = "idle", !.offset = 0]
  /\ Register(offset' \in {register.offset} \cup (IF offset = 0 THEN {} ELSE {0}))

-----------------------------------------------------------------------------
(* The others. *)

\* A message arrives.
Send(chat) ==
  /\ IsStrictPrefix(log, chat)
  /\ log' = Append(log, chat[Len(log) + 1])
  /\ UNCHANGED <<safety, confirmed, offset, bot, register, queue, closes,
                 history, word>>

\* The watcher books a close.
Close(pnl) ==
  /\ closes < MaxCloses
  /\ closes' = closes + 1
  /\ Load("watcher", CloseSaves(risk, pnl, Now))
  /\ UNCHANGED <<telegram, offset, bot, register, queue, history, word>>

\* A save of the watcher or the cycle.  It moves the switch because its rules
\* say so, or because its copy is older than the file.
OthersSave(c) ==
  /\ Save(c)
  /\ word' = CASE risk'.paused = risk.paused -> word
               [] risk'.paused # risk.paused /\ Head(c.todo).paused # c.base.paused -> "rules"
               [] OTHER -> "stale"
  /\ UNCHANGED <<telegram, offset, bot, register, queue, closes, history>>

\* The live cycle passes the health check, and rolls the day over ...
CycleStarts ==
  /\ cycle = "idle" /\ Free("cycle")
  /\ HealthAllows(risk, FALSE)
  /\ cycle' = "rolled"
  /\ Load("cycle", RolloverSaves(risk, Now))
  /\ UNCHANGED <<telegram, offset, bot, register, entry, draft, closes, history, word>>

\* ... asks check_can_trade() ...
CycleChecks ==
  /\ cycle = "rolled"
  /\ cycle' = IF CanTrade(risk, Now) THEN "gated" ELSE "idle"
  /\ Load("cycle", CheckSaves(risk, Now))
  /\ UNCHANGED <<telegram, offset, bot, register, entry, draft, closes, history, word>>

\* ... and in execute_approved_queue() loads what is approved.
CycleLoads ==
  /\ cycle = "gated" /\ Free("cycle")
  /\ cycle' = IF entry = "approved" THEN "loaded" ELSE "idle"
  /\ UNCHANGED <<safety, telegram, offset, bot, register, entry, draft, closes,
                 history, word>>

\* The order goes out, whatever the file says by now.
CycleSends ==
  /\ cycle = "loaded"
  /\ cycle' = "sent" /\ fires' = fires + 1
  /\ UNCHANGED <<safety, telegram, offset, bot, register, entry, draft, closes,
                 handled, crashes, errors, clobbers, kills, revivals, word>>

\* Its outcome is entered by another transition(): a load ...
CycleEnters ==
  /\ cycle = "sent"
  /\ cycle' = "writing"
  /\ UNCHANGED <<safety, telegram, offset, bot, register, entry, draft, closes,
                 history, word>>

\* Mutant: an order that fails leaves the proposal approved, to be tried again.
CycleRetries ==
  /\ cycle = "writing"
  /\ entry' \in {"executed", entry}
  /\ cycle' = "idle"
  /\ UNCHANGED <<safety, telegram, offset, bot, register, draft, closes, history, word>>

\* ... and a save.  An order that fails or whose answer is lost rejects the
\* proposal.
CycleWrites ==
  /\ cycle = "writing"
  /\ entry' \in {"executed", "rejected"}
  /\ cycle' = "idle"
  /\ UNCHANGED <<safety, telegram, offset, bot, register, draft, closes, history, word>>

\* The cycle is killed, or the load or the save of its entry fails.
CycleDies ==
  /\ cycle # "idle"
  /\ cycle' = "idle"
  /\ Abandon("cycle")
  /\ IF cycle \in {"sent", "writing"}
     THEN crashes + errors + kills < MaxFaults /\ kills' = kills + 1
     ELSE UNCHANGED kills
  /\ UNCHANGED <<telegram, offset, bot, register, entry, draft, closes, handled,
                 fires, crashes, errors, clobbers, revivals, word>>

\* A transition of another proposal, its expiry or its arrival: somebody loads
\* all proposals ...
DraftLoads ==
  /\ draft = "none" /\ entry \in Drafts
  /\ draft' = entry
  /\ UNCHANGED <<safety, telegram, offset, bot, register, entry, cycle, closes,
                 history, word>>

\* ... and puts this one back as it was then.
DraftSaves ==
  /\ draft # "none"
  /\ entry' = draft /\ draft' = "none"
  /\ IF draft = "approved" /\ entry # "approved"
     THEN revivals < MaxRevivals /\ revivals' = revivals + 1
     ELSE UNCHANGED revivals
  /\ UNCHANGED <<safety, telegram, offset, bot, register, cycle, closes, handled,
                 fires, crashes, errors, clobbers, kills, word>>

-----------------------------------------------------------------------------
\* What the bot does by itself: `while True: poll_once()`.
BotStep ==
  \/ Poll \/ Answered \/ NoAnswer
  \/ Ignore \/ Act \/ ActEnds \/ Decide \/ DecideEnds \/ HandlerFails
  \/ TruncateState \/ WriteState

Next ==
  \/ BotStep \/ Crash \/ Restart
  \/ RegisterReads \/ RegisterTruncates \/ RegisterWrites
  \/ \E chat \in Chats : Send(chat)
  \/ \E pnl \in Pnls : Close(pnl)
  \/ \E c \in calls : c.by # "bot" /\ OthersSave(c)
  \/ CycleStarts \/ CycleChecks \/ CycleLoads
  \/ CycleSends \/ CycleEnters \/ CycleWrites \/ CycleDies
  \/ DraftLoads \/ DraftSaves

Spec == Init /\ [][Next]_vars

\* The bot's loop goes on while its process lives, and if it asks again and
\* again it is answered once.  Nobody has to start it again after a crash.
FairSpec == Spec /\ WF_vars(BotStep) /\ SF_vars(Answered)

-----------------------------------------------------------------------------
(* Properties. *)

\* A command is never confirmed towards Telegram, nor skipped by the stored
\* offset, before it was handled: crashes, failed polls and a second writer of
\* the file cost repetitions, never a command (poll_once()).
NoneSkipped ==
  \A i \in Updates : i < confirmed \/ i < offset => i \in handled

\* An /approve sends one order, and a further one only if a bot died with its
\* batch half done, or the stored offset was set back: a redelivered /approve
\* makes an executed proposal approved again (handle_approve()).  Beyond that it
\* takes a live cycle that died between the order and its entry
\* (execution_router.py:290), or a save of the proposals from a copy that is
\* older than the entry, and each of these costs one order.  One live cycle runs
\* at a time.
OneOrderPerApproval ==
  LET approvals == {i \in 1 .. Len(log) :
                      log[i].from = "owner" /\ log[i].command = "approve"}
  IN  fires <= Cardinality(approvals) * (1 + crashes + clobbers) + kills + revivals

\* What the owner last said about trading, "other" if nothing.
LastWord ==
  LET said == {i \in 1 .. Len(log) :
                 log[i].from = "owner" /\ log[i].command \in {"pause", "resume"}}
  IN  IF said = {} THEN "other" ELSE log[Max(said)].command

\* Everything sent has been handled and no batch is under way.
CaughtUp ==
  stage = "idle" /\ Max({offset, confirmed}) = Len(log) + 1

\* However often a batch is handled again, once the bot has caught up the
\* switch is where the owner's last /pause or /resume put it, unless a handler
\* raised, the rules moved it since, or another save from an older copy did.  A
\* bot killed while it repeats commands it need not have repeated may leave an
\* older one standing.
LastWordStands ==
  CaughtUp /\ errors = 0 /\ word = "own" /\ LastWord # "other"
    /\ (crashes = 0 \/ clobbers = 0)
    => (risk.paused <=> LastWord = "pause")

\* Every command is handled in the end, or the bot is down.
CommandsHandled ==
  \A i \in Updates : Len(log) >= i ~> (i \in handled \/ stage = "down")
=============================================================================

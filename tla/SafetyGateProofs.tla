-------------------------- MODULE SafetyGateProofs --------------------------
(***************************************************************************)
(* Proofs about the kill switch for every value of the constants.  First   *)
(* the rules: every SafetyStateManager call keeps a state well typed and   *)
(* its pause fields clean.  Then the machine: an inductive invariant for   *)
(* the types, the clean pause, the late entries and the ledger.            *)
(* At the end: the other thing an operator has, EmergencyClose.            *)
(***************************************************************************)
EXTENDS SafetyGate, EmergencyClose, SequenceTheorems, TLAPS

\* The three pause fields agree.
Clean(s) ==
  /\ ~s.paused => s.reason = "none" /\ s.until = NoTime
  /\ s.reason = "daily_loss" => s.paused /\ s.until = NoTime

Sound(s) == s \in SafetyStates /\ Clean(s)

-----------------------------------------------------------------------------
\* The record updates the rules are built from keep the type.
LEMMA SetDay ==
  ASSUME NEW s \in SafetyStates,
         NEW d \in DayNumbers, NEW p \in Int, NEW n \in Nat
  PROVE  [s EXCEPT !.day = d, !.pnl = p, !.trades = n] \in SafetyStates
BY DEF SafetyStates

LEMMA SetPnl ==
  ASSUME NEW s \in SafetyStates, NEW p \in Int, NEW n \in Nat
  PROVE  [s EXCEPT !.pnl = p, !.trades = n] \in SafetyStates
BY DEF SafetyStates

LEMMA SetStreak ==
  ASSUME NEW s \in SafetyStates, NEW l \in Nat, NEW w \in Nat
  PROVE  /\ [s EXCEPT !.wins = w, !.losses = l] \in SafetyStates
         /\ [s EXCEPT !.losses = l, !.wins = w] \in SafetyStates
BY DEF SafetyStates

LEMMA SetPause ==
  ASSUME NEW s \in SafetyStates, NEW r \in Reasons, NEW c \in BOOLEAN,
         NEW u \in Deadlines
  PROVE  [s EXCEPT !.paused = TRUE, !.reason = r, !.carry = c, !.until = u]
           \in SafetyStates
BY DEF SafetyStates

-----------------------------------------------------------------------------
\* Releasing a pause leaves a sound state that is not paused.
LEMMA ClearPauseSound ==
  ASSUME NEW s \in SafetyStates
  PROVE  /\ Sound(ClearPause(s))
         /\ ~ClearPause(s).paused
         /\ ClearPause(s).day = s.day
         /\ ClearPause(s).pnl = s.pnl
BY DEF Sound, Clean, ClearPause, SafetyStates, Reasons, Deadlines

\* The rollover leaves a sound state of the given day, with a PnL of zero if
\* the day is a new one.
LEMMA RolloverSound ==
  ASSUME NEW s \in SafetyStates, Clean(s), NEW today \in DayNumbers
  PROVE  /\ Sound(Rollover(s, today))
         /\ Rollover(s, today).day = today
         /\ s.day # today => Rollover(s, today).pnl = 0
         /\ s.day = today => Rollover(s, today) = s
<1> DEFINE fresh == [s EXCEPT !.day = today, !.pnl = 0, !.trades = 0]
<1>1. fresh \in SafetyStates
  <2>1. 0 \in Int /\ 0 \in Nat
    OBVIOUS
  <2> QED BY <2>1, SetDay, Zenon
<1>2. Clean(fresh) /\ fresh.day = today /\ fresh.pnl = 0
  BY DEF SafetyStates, Clean
<1>3. Rollover(s, today) = IF s.day = today THEN s
        ELSE IF s.paused /\ ~s.carry THEN ClearPause(fresh) ELSE fresh
  BY DEF Rollover
<1> HIDE DEF fresh
<1> QED BY <1>1, <1>2, <1>3, ClearPauseSound DEF Sound

\* Booking a trade keeps the type, the day and the pause fields, and moves the
\* PnL by exactly the trade's.
LEMMA BookedSound ==
  ASSUME NEW s \in SafetyStates, Clean(s), NEW pnl \in Int
  PROVE  /\ Sound(Booked(s, pnl))
         /\ Booked(s, pnl).day = s.day
         /\ Booked(s, pnl).pnl = s.pnl + pnl
<1>1. Booked(s, pnl) \in SafetyStates
  <2>1. s.pnl + pnl \in Int /\ s.trades + 1 \in Nat
    BY DEF SafetyStates
  <2> QED BY <2>1, SetPnl DEF Booked
<1>2. Clean(Booked(s, pnl))
  BY DEF SafetyStates, Booked, Clean
<1>3. Booked(s, pnl).day = s.day /\ Booked(s, pnl).pnl = s.pnl + pnl
  BY DEF SafetyStates, Booked
<1> QED BY <1>1, <1>2, <1>3 DEF Sound

\* The streaks change nothing but themselves.
LEMMA StreakSound ==
  ASSUME NEW s \in SafetyStates, Clean(s), NEW pnl \in Int
  PROVE  /\ Sound(Streak(s, pnl))
         /\ Streak(s, pnl).day = s.day
         /\ Streak(s, pnl).pnl = s.pnl
<1> DEFINE winner == [s EXCEPT !.wins = @ + 1, !.losses = 0]
           loser == [s EXCEPT !.losses = @ + 1, !.wins = 0]
<1>1. s.wins + 1 \in Nat /\ s.losses + 1 \in Nat /\ 0 \in Nat
  BY DEF SafetyStates
<1>2. winner \in SafetyStates /\ loser \in SafetyStates
  BY <1>1, SetStreak, Zenon
<1>3. Clean(winner) /\ winner.day = s.day /\ winner.pnl = s.pnl
  BY DEF SafetyStates, Clean
<1>4. Clean(loser) /\ loser.day = s.day /\ loser.pnl = s.pnl
  BY DEF SafetyStates, Clean
<1>5. Streak(s, pnl) \in {winner, loser, s}
  BY DEF Streak
<1> HIDE DEF winner, loser
<1> QED BY <1>2, <1>3, <1>4, <1>5 DEF Sound

\* A breach pause on an unpaused state is clean: timed for a streak only.
LEMMA BreachPauseSound ==
  ASSUME NEW s \in SafetyStates, Clean(s), ~s.paused, NEW t \in Nat
  PROVE  /\ Sound(BreachPause(s, t))
         /\ BreachPause(s, t).day = s.day
         /\ BreachPause(s, t).pnl = s.pnl
<1>1. Breach(s) \in Reasons
  BY DEF Breach, Reasons
<1>2. t + CooldownTicks \in Deadlines
  BY LimitsAssumption DEF Deadlines
<1>3. BreachPause(s, t) \in SafetyStates
  BY <1>1, <1>2 DEF BreachPause, SafetyStates
<1>4. Clean(BreachPause(s, t))
  BY DEF Clean, BreachPause, SafetyStates
<1>5. BreachPause(s, t).day = s.day /\ BreachPause(s, t).pnl = s.pnl
  BY DEF BreachPause, SafetyStates
<1> QED BY <1>3, <1>4, <1>5 DEF Sound

\* record_trade_close() keeps the state sound and books the trade on the day.
LEMMA RecordCloseSound ==
  ASSUME NEW s \in SafetyStates, Clean(s), NEW pnl \in Int, NEW t \in Nat,
         Today(t) \in DayNumbers
  PROVE  /\ Sound(RecordClose(s, pnl, t))
         /\ RecordClose(s, pnl, t).day = Today(t)
         /\ RecordClose(s, pnl, t).pnl =
              (IF s.day = Today(t) THEN s.pnl ELSE 0) + pnl
<1> DEFINE rolled == Rollover(s, Today(t))
           booked == Booked(rolled, pnl)
           counted == Streak(booked, pnl)
<1>1. Sound(rolled) /\ rolled.day = Today(t)
      /\ rolled.pnl = IF s.day = Today(t) THEN s.pnl ELSE 0
  BY RolloverSound
<1> HIDE DEF rolled
<1>2. Sound(booked) /\ booked.day = Today(t) /\ booked.pnl = rolled.pnl + pnl
  BY <1>1, BookedSound DEF Sound
<1> HIDE DEF booked
<1>3. Sound(counted) /\ counted.day = Today(t) /\ counted.pnl = rolled.pnl + pnl
  BY <1>2, StreakSound DEF Sound
<1> HIDE DEF counted
<1>4. RecordClose(s, pnl, t) = IF Breach(counted) # "none" /\ ~counted.paused
                               THEN BreachPause(counted, t) ELSE counted
  BY DEF RecordClose, counted, booked, rolled
<1> QED BY <1>1, <1>3, <1>4, BreachPauseSound DEF Sound

\* pause() leaves a sound state, whoever calls it.
LEMMA PauseSound ==
  ASSUME NEW s \in SafetyStates, NEW reason \in {"mismatch", "naked", "manual"},
         NEW carry \in BOOLEAN, NEW window \in Nat, NEW t \in Nat
  PROVE  /\ Sound(Pause(s, reason, carry, window, t))
         /\ Pause(s, reason, carry, window, t).paused
         /\ Pause(s, reason, carry, window, t).day = s.day
         /\ Pause(s, reason, carry, window, t).pnl = s.pnl
<1> DEFINE deadline == IF window > 0 THEN t + window ELSE NoTime
<1>1. deadline \in Deadlines /\ reason \in Reasons
  BY DEF Deadlines, Reasons
<1> HIDE DEF deadline
<1>2. Pause(s, reason, carry, window, t) =
        [s EXCEPT !.paused = TRUE, !.reason = reason, !.carry = carry,
                  !.until = deadline]
  BY DEF Pause, deadline
<1>3. Pause(s, reason, carry, window, t) \in SafetyStates
  <2>1. [s EXCEPT !.paused = TRUE, !.reason = reason, !.carry = carry,
                  !.until = deadline] \in SafetyStates
    BY <1>1, SetPause, Zenon
  <2> QED BY <2>1, <1>2, Zenon
<1>4. reason # "daily_loss"
  OBVIOUS
<1> QED BY <1>2, <1>3, <1>4 DEF Sound, Clean, SafetyStates

\* resume() leaves a sound state of the same day and PnL.
LEMMA ResumeSound ==
  ASSUME NEW s \in SafetyStates
  PROVE  Sound(Resume(s)) /\ Resume(s).day = s.day /\ Resume(s).pnl = s.pnl
<1> DEFINE cleared == ClearPause(s)
<1>1. Sound(cleared) /\ cleared.day = s.day /\ cleared.pnl = s.pnl
  BY ClearPauseSound
<1>2. Resume(s) = [cleared EXCEPT !.carry = FALSE]
  BY DEF Resume
<1> HIDE DEF cleared
<1> QED BY <1>1, <1>2 DEF Sound, Clean, SafetyStates

\* reset_daily_counters() starts the day over.
LEMMA ResetDailySound ==
  ASSUME NEW s \in SafetyStates, Clean(s), NEW today \in Nat
  PROVE  /\ Sound(ResetDaily(s, today))
         /\ ResetDaily(s, today).day = today
         /\ ResetDaily(s, today).pnl = 0
<1> DEFINE undated == [s EXCEPT !.day = NoDay]
<1>1. undated \in SafetyStates /\ Clean(undated) /\ undated.day # today
  BY DEF SafetyStates, Clean, NoDay, DayNumbers
<1>2. today \in DayNumbers
  BY DEF DayNumbers
<1> HIDE DEF undated
<1> QED BY <1>1, <1>2, RolloverSound DEF ResetDaily, undated

\* check_can_trade() leaves a sound state of the same day and PnL; when it
\* lets the cycle trade that state is not paused.
LEMMA AfterCheckSound ==
  ASSUME NEW s \in SafetyStates, Clean(s), NEW t \in Nat
  PROVE  /\ Sound(AfterCheck(s, t))
         /\ AfterCheck(s, t).day = s.day
         /\ AfterCheck(s, t).pnl = s.pnl
         /\ CanTrade(s, t) => ~AfterCheck(s, t).paused
BY ClearPauseSound DEF AfterCheck, CanTrade, Sound

-----------------------------------------------------------------------------
\* The rules that may lift a pause, and when.
LEMMA RolloverReleases ==
  ASSUME NEW s \in SafetyStates, NEW today, s.paused, ~Rollover(s, today).paused
  PROVE  s.day # today /\ ~s.carry
<1> DEFINE fresh == [s EXCEPT !.day = today, !.pnl = 0, !.trades = 0]
<1>1. fresh.paused = s.paused
  BY DEF SafetyStates
<1> HIDE DEF fresh
<1> QED BY <1>1 DEF Rollover, fresh

LEMMA CheckReleases ==
  ASSUME NEW s \in SafetyStates, NEW t, s.paused, ~AfterCheck(s, t).paused
  PROVE  WindowElapsed(s, t)
BY DEF AfterCheck, CanTrade

\* Booking a trade never ends a pause that is left after the rollover.
LEMMA CloseKeepsPause ==
  ASSUME NEW s \in SafetyStates, Clean(s), NEW pnl \in Int, NEW t \in Nat,
         Today(t) \in DayNumbers, Rollover(s, Today(t)).paused
  PROVE  RecordClose(s, pnl, t).paused
<1> DEFINE rolled == Rollover(s, Today(t))
           booked == Booked(rolled, pnl)
           counted == Streak(booked, pnl)
<1>1. Sound(rolled) /\ rolled.paused
  BY RolloverSound
<1> HIDE DEF rolled
<1>2. Sound(booked) /\ booked.paused = rolled.paused
  BY <1>1, BookedSound DEF Sound, Booked, SafetyStates
<1> HIDE DEF booked
<1>3. counted.paused = booked.paused
  BY <1>2 DEF Sound, Streak, SafetyStates
<1> HIDE DEF counted
<1>4. RecordClose(s, pnl, t) = IF Breach(counted) # "none" /\ ~counted.paused
                               THEN BreachPause(counted, t) ELSE counted
  BY DEF RecordClose, counted, booked, rolled
<1> QED BY <1>1, <1>2, <1>3, <1>4

-----------------------------------------------------------------------------
(* The invariant.  t stands for the clock and n for what is being booked. *)

\* A sound state of no day yet or of one that has come.
Fine(s, t) ==
  /\ Sound(s)
  /\ s.day = NoDay \/ (s.day \in Days /\ s.day <= Today(t))

\* What a call saves from a copy b: the PnL of b's day, or of a new one; with
\* one more close; or that of a day started over.
Carries(b, s) ==
  \/ s.day = b.day /\ s.pnl = b.pnl
  \/ s.day \in Days /\ b.day < s.day /\ s.pnl = 0

Books(b, s, n) ==
  /\ b.day \in Days /\ s.day = b.day /\ s.pnl = b.pnl + n
  /\ b.paused => s.paused

Restarts(b, s) == s.day \in Days /\ b.day <= s.day /\ s.pnl = 0

Saves(c, n) ==
  LET s == c.todo[1]
      t == c.todo[2]
  IN  \/ /\ c.by \notin {"watcher", "reset"}
         /\ c.todo = <<s>> /\ Carries(c.base, s)
      \/ /\ c.by = "reset"
         /\ c.todo = <<s>> /\ Restarts(c.base, s)
      \/ /\ c.by = "watcher"
         /\ c.todo = <<s>> /\ Books(c.base, s, n)
      \/ /\ c.by = "watcher" /\ Len(c.todo) = 2
         /\ c.todo = <<s, t>> /\ Carries(c.base, s) /\ Books(s, t, n)

\* Releases(c) at the time t.
Released(c, t) ==
  \/ c.by \in {"operator", "reset"}
  \/ c.base.day # c.todo[1].day /\ ~c.base.carry
  \/ WindowElapsed(c.base, t)
  \/ ~c.base.paused

CallInv(c, t, n) ==
  /\ Fine(c.base, t)
  /\ \A i \in 1 .. Len(c.todo) : Fine(c.todo[i], t)
  /\ Saves(c, n)
  /\ ~c.todo[1].paused => Released(c, t)

\* The file agrees with the ledger on its day and no later day has closes, but
\* for spoiled days.
Agrees(s, l, sp) ==
  /\ s.day # NoDay => s.day \in sp \/ s.pnl = l[s.day]
  /\ \A d \in Days : d > s.day => d \in sp \/ l[d] = 0

\* A candidate is cleared by a state that does not block trading, or by a call
\* that is about to save one.
LateInv ==
  /\ \A c \in AutoCycles : late[c] <= 1
  /\ \A c \in AutoCycles : pc[c] = "cleared" =>
       late[c] = 0 \/ \E k \in calls : k.by = c /\ ~Blocked(k.todo[1])
  /\ ~Blocked(risk) => \A c \in AutoCycles : late[c] = 0

IInv ==
  /\ TypeOK
  /\ Fine(risk, now)
  /\ \A c \in calls : CallInv(c, now, booking)
  /\ Agrees(risk, ledger, spoiled)
  /\ LateInv

-----------------------------------------------------------------------------
(* Days, and the calls as steps on the file. *)

LEMMA TodayIsDay ==
  ASSUME NEW t \in 0 .. MaxTime
  PROVE  t \in Nat /\ Today(t) \in Days /\ Today(t) \in Nat /\ Today(t) \in DayNumbers
BY LimitsAssumption, GateAssumption DEF Days, Today, DayNumbers

LEMMA DaysAreNat == Days \subseteq Nat
BY TodayIsDay DEF Days

LEMMA TodayMonotone ==
  ASSUME NEW t \in Nat
  PROVE  Today(t) <= Today(t + 1)
BY LimitsAssumption DEF Today

\* Short sequences.
LEMMA TailOfOne ==
  ASSUME NEW S, NEW q \in Seq(S), NEW s, q = <<s>>
  PROVE  Tail(q) = <<>>
BY HeadTailProperties, EmptySeq

LEMMA TailOfTwo ==
  ASSUME NEW S, NEW q \in Seq(S), NEW s, NEW u, q = <<s, u>>
  PROVE  Tail(q) = <<u>> /\ Tail(q) # <<>>
<1>1. /\ Tail(q) \in Seq(S) /\ Len(q) = 2 /\ q # <<>>
      /\ Len(Tail(q)) = 1 /\ Tail(q)[1] = q[2]
  BY HeadTailProperties
<1>2. q[2] = u
  OBVIOUS
<1> QED BY <1>1, <1>2

LEMMA AppendToOne ==
  ASSUME NEW S, NEW s \in S, NEW u \in S
  PROVE  Append(<<s>>, u) = <<s, u>>
<1>1. <<s>> \in Seq(S) /\ <<s, u>> \in Seq(S)
  OBVIOUS
<1>2. Append(<<s>>, u) \in Seq(S) /\ Len(Append(<<s>>, u)) = 2
  OBVIOUS
<1>3. Append(<<s>>, u)[1] = s /\ Append(<<s>>, u)[2] = u
  OBVIOUS
<1>4. /\ Len(<<s, u>>) = 2 /\ <<s, u>>[1] = s /\ <<s, u>>[2] = u
      /\ \A i \in 1 .. 2 : i = 1 \/ i = 2
  OBVIOUS
<1> DEFINE a == Append(<<s>>, u)
           b == <<s, u>>
<1> HIDE DEF a, b
<1>5. a \in Seq(S) /\ b \in Seq(S) /\ Len(a) = Len(b)
      /\ \A i \in 1 .. Len(a) : a[i] = b[i]
  BY <1>1, <1>2, <1>3, <1>4 DEF a, b
<1>6. a = b
  BY <1>5, SeqEqual
<1> QED BY <1>6 DEF a, b

\* What is left of a call after a save.
LEMMA CallShortened ==
  ASSUME NEW c \in Calls, NEW b, NEW q
  PROVE  /\ [c EXCEPT !.base = b, !.todo = q].by = c.by
         /\ [c EXCEPT !.base = b, !.todo = q].base = b
         /\ [c EXCEPT !.base = b, !.todo = q].todo = q
BY DEF Calls

LEMMA FineState ==
  ASSUME NEW s, NEW t, Fine(s, t)
  PROVE  s \in SafetyStates /\ Clean(s) /\ s.day \in Int /\ s.pnl \in Int
BY DEF Fine, Sound, SafetyStates, DayNumbers, NoDay

\* A state of a past day is behind today.
LEMMA FineIsPast ==
  ASSUME NEW t \in 0 .. MaxTime, NEW s, Fine(s, t)
  PROVE  s.day <= Today(t)
BY TodayIsDay DEF Fine, NoDay

\* A call that is free to load becomes one well-typed call.
LEMMA CallLoads ==
  ASSUME SafetyTypeOK, NEW p \in Procs, NEW saves \in Seq(SafetyStates),
         Load(p, saves)
  PROVE  /\ SafetyTypeOK'
         /\ \A c \in calls : c.by # p
         /\ calls \subseteq calls'
         /\ calls' \subseteq calls \cup {[by |-> p, base |-> risk, todo |-> saves]}
         /\ saves # <<>> => [by |-> p, base |-> risk, todo |-> saves] \in calls'
         /\ saves = <<>> => calls' = calls
<1> DEFINE new == [by |-> p, base |-> risk, todo |-> saves]
<1>1. saves # <<>> => new \in Calls /\ new.todo # <<>> /\ new.by = p
  BY DEF SafetyTypeOK, Calls
<1>2. /\ calls' \subseteq calls \cup {new}
      /\ calls \subseteq calls'
      /\ saves # <<>> => new \in calls'
      /\ saves = <<>> => calls' = calls
  BY DEF Load
<1>3. \A c \in calls : c.by # p
  BY DEF Load, Free
<1> HIDE DEF new
<1>4. \A c \in calls' : c \in Calls /\ c.todo # <<>>
  BY <1>1, <1>2 DEF SafetyTypeOK
<1>5. \A c, d \in calls' : c.by = d.by => c = d
  BY <1>1, <1>2, <1>3 DEF SafetyTypeOK
<1>6. SafetyTypeOK'
  BY <1>4, <1>5 DEF SafetyTypeOK, Load
<1> QED BY <1>2, <1>3, <1>6 DEF new

\* A save replaces the file by a state and shortens its call or ends it.
LEMMA CallSaves ==
  ASSUME SafetyTypeOK, NEW c \in calls, Save(c)
  PROVE  /\ SafetyTypeOK'
         /\ c.by \in Procs /\ c.base \in SafetyStates /\ c.todo \in Seq(SafetyStates)
         /\ risk' = Head(c.todo) /\ Head(c.todo) = c.todo[1]
         /\ \A d \in calls : d # c => d \in calls' /\ d.by # c.by
         /\ \A d \in calls' :
              \/ d \in calls /\ d # c
              \/ d = [c EXCEPT !.base = Head(c.todo), !.todo = Tail(@)]
                 /\ Tail(c.todo) # <<>>
<1> DEFINE rest == [c EXCEPT !.base = Head(c.todo), !.todo = Tail(@)]
<1>1. c \in Calls /\ c.todo \in Seq(SafetyStates) /\ c.todo # <<>>
  BY DEF SafetyTypeOK, Calls
<1>2. /\ Head(c.todo) \in SafetyStates /\ Tail(c.todo) \in Seq(SafetyStates)
      /\ Head(c.todo) = c.todo[1]
  BY <1>1
<1>3. rest \in Calls /\ rest.by = c.by /\ rest.todo = Tail(c.todo)
  BY <1>1, <1>2 DEF Calls
<1>4. /\ calls' \subseteq (calls \ {c}) \cup {rest}
      /\ calls \ {c} \subseteq calls'
      /\ rest.todo = <<>> => calls' = calls \ {c}
  BY DEF Save
<1>5. risk' = Head(c.todo)
  BY DEF Save
<1>6. \A d \in calls : d # c => d.by # c.by
  BY DEF SafetyTypeOK
<1> HIDE DEF rest
<1>7. \A d \in calls' : (d \in calls /\ d # c) \/ (d = rest /\ rest.todo # <<>>)
  BY <1>4
<1>8. \A d \in calls' : d \in Calls /\ d.todo # <<>>
  BY <1>3, <1>7 DEF SafetyTypeOK
<1>9. \A d, e \in calls' : d.by = e.by => d = e
  BY <1>3, <1>6, <1>7 DEF SafetyTypeOK
<1>10. SafetyTypeOK'
  BY <1>2, <1>5, <1>8, <1>9 DEF SafetyTypeOK
<1>11. c.by \in Procs /\ c.base \in SafetyStates
  BY <1>1 DEF Calls
<1> QED BY <1>1, <1>2, <1>3, <1>4, <1>5, <1>6, <1>7, <1>10, <1>11 DEF rest

-----------------------------------------------------------------------------
(* What each call has to save when it has just loaded the file. *)

\* A call's promise is about its three fields.
LEMMA CallInvFields ==
  ASSUME NEW c, NEW d, NEW t, NEW n, CallInv(c, t, n),
         d.by = c.by, d.base = c.base, d.todo = c.todo
  PROVE  CallInv(d, t, n)
BY DEF CallInv, Saves, Released

\* A call that saves once.
LEMMA OneSave ==
  ASSUME NEW by, NEW b, NEW s, NEW t, NEW n, Fine(b, t), Fine(s, t),
         \/ by \notin {"watcher", "reset"} /\ Carries(b, s)
         \/ by = "reset" /\ Restarts(b, s)
         \/ by = "watcher" /\ Books(b, s, n),
         ~s.paused => \/ by \in {"operator", "reset"}
                      \/ b.day # s.day /\ ~b.carry
                      \/ WindowElapsed(b, t)
                      \/ ~b.paused
  PROVE  /\ CallInv([by |-> by, base |-> b, todo |-> <<s>>], t, n)
         /\ <<s>> \in Seq(SafetyStates)
<1> DEFINE c == [by |-> by, base |-> b, todo |-> <<s>>]
<1>1. c.by = by /\ c.base = b /\ c.todo = <<s>> /\ c.todo[1] = s /\ Len(c.todo) = 1
  OBVIOUS
<1>2. s \in SafetyStates
  BY FineState
<1> HIDE DEF c
<1>3. \A i \in 1 .. Len(c.todo) : Fine(c.todo[i], t)
  BY <1>1
<1>4. Saves(c, n)
  BY <1>1 DEF Saves
<1>5. ~c.todo[1].paused => Released(c, t)
  BY <1>1 DEF Released
<1>6. CallInv(c, t, n)
  BY <1>1, <1>3, <1>4, <1>5 DEF CallInv
<1> QED BY <1>2, <1>6 DEF c

\* A call by p that is to make these saves from the file as it is.
LoadedWell(p, saves, n) ==
  /\ saves \in Seq(SafetyStates)
  /\ saves # <<>> =>
       CallInv([by |-> p, base |-> risk, todo |-> saves], now, n)

\* A new day: the counters start from zero.
LEMMA RolloverCarries ==
  ASSUME NEW t \in 0 .. MaxTime, NEW s, Fine(s, t), s.day # Today(t)
  PROVE  /\ Fine(Rollover(s, Today(t)), t)
         /\ Carries(s, Rollover(s, Today(t)))
<1>1. Today(t) \in Days /\ Today(t) \in Nat /\ Today(t) \in DayNumbers
  BY TodayIsDay
<1>2. /\ Sound(Rollover(s, Today(t))) /\ Rollover(s, Today(t)).day = Today(t)
      /\ Rollover(s, Today(t)).pnl = 0
  BY <1>1, FineState, RolloverSound
<1>3. s.day < Today(t)
  BY <1>1, FineIsPast, FineState
<1> QED BY <1>1, <1>2, <1>3 DEF Fine, Carries

LEMMA CycleRolloverLoads ==
  ASSUME NEW p, p \notin {"watcher", "reset"}, now \in 0 .. MaxTime, Fine(risk, now),
         NEW n
  PROVE  LoadedWell(p, RolloverSaves(risk, now), n)
<1> DEFINE rolled == Rollover(risk, Today(now))
<1>1. CASE risk.day = Today(now)
  <2>1. rolled = risk
    BY <1>1, RolloverSound, FineState, TodayIsDay
  <2> QED BY <2>1 DEF RolloverSaves, LoadedWell
<1>2. CASE risk.day # Today(now)
  <2>1. Fine(rolled, now) /\ Carries(risk, rolled)
    BY <1>2, RolloverCarries
  <2>2. rolled.day = Today(now)
    BY RolloverSound, FineState, TodayIsDay
  <2>3. ~rolled.paused => ~risk.paused \/ (risk.day # rolled.day /\ ~risk.carry)
    BY <1>2, <2>2, RolloverReleases, FineState
  <2> HIDE DEF rolled
  <2>4. /\ CallInv([by |-> p, base |-> risk, todo |-> <<rolled>>], now, n)
        /\ <<rolled>> \in Seq(SafetyStates)
    BY <2>1, <2>3, OneSave
  <2> QED BY <2>4 DEF RolloverSaves, LoadedWell, rolled
<1> QED BY <1>1, <1>2

LEMMA CheckLoads ==
  ASSUME NEW p, p \notin {"watcher", "reset"}, now \in 0 .. MaxTime, Fine(risk, now),
         NEW n
  PROVE  LoadedWell(p, CheckSaves(risk, now), n)
<1> DEFINE after == AfterCheck(risk, now)
<1>1. Sound(after) /\ after.day = risk.day /\ after.pnl = risk.pnl
  BY AfterCheckSound, FineState, TodayIsDay
<1>2. Fine(after, now) /\ Carries(risk, after)
  BY <1>1 DEF Fine, Carries
<1>3. ~after.paused => ~risk.paused \/ WindowElapsed(risk, now)
  BY CheckReleases, FineState
<1> HIDE DEF after
<1>4. /\ CallInv([by |-> p, base |-> risk, todo |-> <<after>>], now, n)
      /\ <<after>> \in Seq(SafetyStates)
  BY <1>2, <1>3, OneSave
<1> QED BY <1>4 DEF CheckSaves, LoadedWell, after

LEMMA PauseLoads ==
  ASSUME NEW p, p \notin {"watcher", "reset"}, now \in 0 .. MaxTime, Fine(risk, now),
         NEW reason \in {"mismatch", "naked", "manual"}, NEW carry \in BOOLEAN,
         NEW window \in Nat, NEW n
  PROVE  LoadedWell(p, <<Pause(risk, reason, carry, window, now)>>, n)
<1> DEFINE s == Pause(risk, reason, carry, window, now)
<1>1. Sound(s) /\ s.paused /\ s.day = risk.day /\ s.pnl = risk.pnl
  BY PauseSound, FineState, TodayIsDay
<1>2. Fine(s, now) /\ Carries(risk, s)
  BY <1>1 DEF Fine, Carries
<1> HIDE DEF s
<1>3. /\ CallInv([by |-> p, base |-> risk, todo |-> <<s>>], now, n)
      /\ <<s>> \in Seq(SafetyStates)
  BY <1>1, <1>2, OneSave
<1> QED BY <1>3 DEF LoadedWell, s

LEMMA ResumeLoads ==
  ASSUME now \in 0 .. MaxTime, Fine(risk, now), NEW n
  PROVE  LoadedWell("operator", <<Resume(risk)>>, n)
<1> DEFINE s == Resume(risk)
<1>1. Sound(s) /\ s.day = risk.day /\ s.pnl = risk.pnl
  BY ResumeSound, FineState
<1>2. Fine(s, now) /\ Carries(risk, s)
  BY <1>1 DEF Fine, Carries
<1> HIDE DEF s
<1>3. /\ CallInv([by |-> "operator", base |-> risk, todo |-> <<s>>], now, n)
      /\ <<s>> \in Seq(SafetyStates)
  BY <1>2, OneSave
<1> QED BY <1>3 DEF LoadedWell, s

LEMMA ResetLoads ==
  ASSUME now \in 0 .. MaxTime, Fine(risk, now), NEW n
  PROVE  LoadedWell("reset", <<ResetDaily(risk, Today(now))>>, n)
<1> DEFINE s == ResetDaily(risk, Today(now))
<1>1. Today(now) \in Days /\ Today(now) \in Nat
  BY TodayIsDay
<1>2. Sound(s) /\ s.day = Today(now) /\ s.pnl = 0
  BY <1>1, ResetDailySound, FineState
<1>3. Fine(s, now) /\ Restarts(risk, s)
  BY <1>1, <1>2, FineIsPast DEF Fine, Restarts
<1> HIDE DEF s
<1>4. /\ CallInv([by |-> "reset", base |-> risk, todo |-> <<s>>], now, n)
      /\ <<s>> \in Seq(SafetyStates)
  BY <1>3, OneSave
<1> QED BY <1>4 DEF LoadedWell, s

\* A close books its PnL on the day it finds, or on the new day it has saved.
LEMMA CloseLoads ==
  ASSUME now \in 0 .. MaxTime, Fine(risk, now), NEW pnl \in Int
  PROVE  LoadedWell("watcher", CloseSaves(risk, pnl, now), pnl)
<1> DEFINE rolled == Rollover(risk, Today(now))
           closed == RecordClose(risk, pnl, now)
<1>1. /\ Today(now) \in Days /\ Today(now) \in DayNumbers
      /\ now \in Nat /\ risk \in SafetyStates /\ Clean(risk)
  BY TodayIsDay, FineState
<1>2. /\ Sound(closed) /\ closed.day = Today(now)
      /\ closed.pnl = (IF risk.day = Today(now) THEN risk.pnl ELSE 0) + pnl
  BY <1>1, RecordCloseSound
<1>3. Today(now) <= Today(now)
  <2>1. Today(now) \in Nat
    BY TodayIsDay
  <2> QED BY <2>1
<1>4. Fine(closed, now) /\ closed \in SafetyStates
  BY <1>1, <1>2, <1>3 DEF Fine, Sound
<1>5. rolled.paused => closed.paused
  BY <1>1, CloseKeepsPause
<1>6. CASE risk.day = Today(now)
  <2>1. rolled = risk
    BY <1>1, <1>6, RolloverSound
  <2>2. CloseSaves(risk, pnl, now) = <<closed>>
    BY <2>1 DEF CloseSaves, RolloverSaves
  <2>3. Books(risk, closed, pnl)
    BY <1>1, <1>2, <1>5, <1>6, <2>1 DEF Books
  <2> HIDE DEF closed, rolled
  <2>4. ~closed.paused => ~risk.paused
    BY <1>5, <2>1
  <2>5. /\ CallInv([by |-> "watcher", base |-> risk, todo |-> <<closed>>], now, pnl)
        /\ <<closed>> \in Seq(SafetyStates)
    BY <1>4, <2>3, <2>4, OneSave
  <2> QED BY <2>2, <2>5 DEF LoadedWell
<1>7. CASE risk.day # Today(now)
  <2>1. /\ Sound(rolled) /\ rolled.day = Today(now) /\ rolled.pnl = 0
        /\ rolled \in SafetyStates
    BY <1>1, <1>7, RolloverSound DEF Sound
  <2>2. Fine(rolled, now) /\ Carries(risk, rolled)
    BY <1>7, RolloverCarries
  <2>3. ~rolled.paused => ~risk.paused \/ (risk.day # rolled.day /\ ~risk.carry)
    BY <1>1, <1>7, <2>1, RolloverReleases
  <2>4. CloseSaves(risk, pnl, now) = <<rolled, closed>>
    <3>1. rolled # risk
      BY <1>7, <2>1
    <3>2. RolloverSaves(risk, now) = <<rolled>>
      BY <3>1 DEF RolloverSaves
    <3>3. CloseSaves(risk, pnl, now) = Append(<<rolled>>, closed)
      BY <3>2 DEF CloseSaves
    <3> HIDE DEF closed, rolled
    <3> QED BY <1>4, <2>1, <3>3, AppendToOne
  <2>5. Books(rolled, closed, pnl)
    BY <1>1, <1>2, <1>5, <1>7, <2>1 DEF Books
  <2> DEFINE c == [by |-> "watcher", base |-> risk, todo |-> <<rolled, closed>>]
  <2> HIDE DEF closed, rolled
  <2>6. /\ c.by = "watcher" /\ c.base = risk /\ c.todo = <<rolled, closed>>
        /\ c.todo[1] = rolled /\ c.todo[2] = closed /\ Len(c.todo) = 2
    OBVIOUS
  <2>7. <<rolled, closed>> \in Seq(SafetyStates)
    BY <1>4, <2>1
  <2> HIDE DEF c
  <2>8. \A i \in 1 .. Len(c.todo) : Fine(c.todo[i], now)
    BY <1>4, <2>2, <2>6
  <2>9. Saves(c, pnl)
    BY <2>2, <2>5, <2>6 DEF Saves
  <2>10. ~c.todo[1].paused => Released(c, now)
    BY <2>3, <2>6 DEF Released
  <2>11. CallInv(c, now, pnl)
    BY <2>6, <2>8, <2>9, <2>10 DEF CallInv
  <2> QED BY <2>4, <2>7, <2>11 DEF LoadedWell, c
<1> QED BY <1>6, <1>7

-----------------------------------------------------------------------------
(* Steps that leave the files and the books alone, and calls that load. *)

\* A call's promise does not depend on the PnL of another call's close.
LEMMA CallInvApart ==
  ASSUME NEW c, NEW t, NEW m, NEW n, CallInv(c, t, m), c.by # "watcher" \/ m = n
  PROVE  CallInv(c, t, n)
BY DEF CallInv, Saves

LEMMA LoadStep ==
  ASSUME IInv, NEW p \in Procs, NEW saves, Call(p, saves),
         LoadedWell(p, saves, booking'), p = "watcher" \/ booking' = booking,
         UNCHANGED <<now, ledger, spoiled>>
  PROVE  /\ SafetyTypeOK' /\ Fine(risk, now)'
         /\ (\A c \in calls : CallInv(c, now, booking))'
         /\ Agrees(risk, ledger, spoiled)'
<1> DEFINE new == [by |-> p, base |-> risk, todo |-> saves]
<1>1. Load(p, saves) /\ saves \in Seq(SafetyStates) /\ risk' = risk
  BY DEF Call, LoadedWell, Load
<1>2. /\ SafetyTypeOK' /\ \A c \in calls : c.by # p
      /\ calls' \subseteq calls \cup {new}
      /\ saves = <<>> => calls' = calls
  BY <1>1, CallLoads DEF IInv, TypeOK
<1>3. saves # <<>> => CallInv(new, now, booking')
  BY DEF LoadedWell
<1> HIDE DEF new
<1>4. \A c \in calls : CallInv(c, now, booking')
  BY <1>2, CallInvApart DEF IInv
<1>5. \A c \in calls' : CallInv(c, now, booking')
  BY <1>2, <1>3, <1>4
<1>6. (\A c \in calls : CallInv(c, now, booking))'
  BY <1>5
<1> QED BY <1>1, <1>2, <1>6 DEF IInv

\* A cycle goes from one stage to the next.
LEMMA GotoTyped ==
  ASSUME TypeOK, NEW c \in Cycles, NEW stage \in Stages, Goto(c, stage)
  PROVE  /\ pc' \in [Cycles -> Stages] /\ fired' \in [Cycles -> Nat]
         /\ pc'[c] = stage
         /\ \A d \in Cycles : d # c => pc'[d] = pc[d]
BY DEF TypeOK, Goto

LEMMA CyclesAreProcs ==
  /\ Cycles \subseteq Procs /\ AutoCycles \subseteq Cycles
  /\ "watcher" \in Procs /\ "operator" \in Procs /\ "reset" \in Procs
  /\ \A c \in Cycles : c \notin {"watcher", "reset", "operator"}
BY GateAssumption DEF Cycles

\* Late entries, over a step that fires nothing, keeps the file and clears no
\* candidate, or clears one on a state that does not block.
LEMMA LateKept ==
  ASSUME LateInv, calls \subseteq calls', UNCHANGED <<risk, late>>,
         \A c \in AutoCycles : pc'[c] = "cleared" =>
           pc[c] = "cleared" \/ late[c] = 0 \/
           \E k \in calls' : k.by = c /\ ~Blocked(k.todo[1])
  PROVE  LateInv'
BY DEF LateInv

\* A step of a cycle that makes no call and fires nothing.
LEMMA StageStep ==
  ASSUME IInv, NEW c \in Cycles, NEW stage \in Stages \ {"cleared"}, Goto(c, stage),
         queue' \in [Cycles -> Nat],
         UNCHANGED <<now, safety, health, late, books, bounds>>
  PROVE  IInv'
<1>1. /\ pc' \in [Cycles -> Stages] /\ fired' \in [Cycles -> Nat]
      /\ \A d \in Cycles : pc'[d] = "cleared" => pc[d] = "cleared"
  BY GotoTyped DEF IInv
<1>2. TypeOK'
  BY <1>1 DEF IInv, TypeOK, SafetyTypeOK, safety, health, books, bounds
<1>3. LateInv'
  BY <1>1, LateKept, CyclesAreProcs DEF IInv, safety
<1> QED BY <1>2, <1>3 DEF IInv, safety, books

\* A step of a cycle that is one call.
LEMMA CycleCallStep ==
  ASSUME IInv, NEW c \in Cycles, NEW saves, Call(c, saves),
         LoadedWell(c, saves, booking),
         NEW stage \in Stages \ {"cleared"}, Goto(c, stage),
         UNCHANGED <<now, health, queue, late, books, bounds>>
  PROVE  IInv'
<1>1. /\ pc' \in [Cycles -> Stages] /\ fired' \in [Cycles -> Nat]
      /\ \A d \in Cycles : pc'[d] = "cleared" => pc[d] = "cleared"
  BY GotoTyped DEF IInv
<1>2. booking' = booking
  BY DEF books
<1>3. /\ SafetyTypeOK' /\ Fine(risk, now)'
      /\ (\A k \in calls : CallInv(k, now, booking))'
      /\ Agrees(risk, ledger, spoiled)'
  BY <1>2, LoadStep, CyclesAreProcs DEF books
<1>4. calls \subseteq calls' /\ risk' = risk
  BY DEF Call, Load
<1>5. TypeOK'
  BY <1>1, <1>3 DEF IInv, TypeOK, health, books, bounds
<1>6. LateInv'
  BY <1>1, <1>4, LateKept, CyclesAreProcs DEF IInv
<1> QED BY <1>3, <1>5, <1>6 DEF IInv

\* A call of the operator or of the watcher.
LEMMA BesideCallStep ==
  ASSUME IInv, NEW p \in Procs, NEW saves, Call(p, saves),
         LoadedWell(p, saves, booking'), p = "watcher" \/ booking' = booking,
         booking' \in Int, closes' \in Nat, commands' \in Nat,
         UNCHANGED <<now, health, pc, fired, queue, late, ledger, spoiled>>
  PROVE  IInv'
<1>1. /\ SafetyTypeOK' /\ Fine(risk, now)'
      /\ (\A k \in calls : CallInv(k, now, booking))'
      /\ Agrees(risk, ledger, spoiled)'
  BY LoadStep
<1>2. calls \subseteq calls' /\ risk' = risk
  BY DEF Call, Load
<1>3. TypeOK'
  BY <1>1 DEF IInv, TypeOK, health
<1>4. LateInv'
  BY <1>2, LateKept DEF IInv
<1> QED BY <1>1, <1>3, <1>4 DEF IInv

-----------------------------------------------------------------------------
(* The invariant holds at the start and over every step. *)

LEMMA InitIInv == Init => IInv
<1> SUFFICES ASSUME Init PROVE IInv
  OBVIOUS
<1>1. FreshState \in SafetyStates /\ Clean(FreshState) /\ FreshState.day = NoDay
      /\ ~Blocked(FreshState)
  BY LimitsAssumption DEF FreshState, SafetyStates, DayNumbers, Reasons, Deadlines,
     Clean, Blocked, HardCap, DailyLossBreached, StreakBreached
<1>2. risk = FreshState /\ calls = {} /\ now = 0
  BY DEF Init, SafetyInit
<1>3. TypeOK
  <2>1. SafetyTypeOK
    BY <1>1, <1>2 DEF SafetyTypeOK
  <2>2. now \in 0 .. MaxTime /\ 0 \in Nat /\ 0 \in Int /\ "idle" \in Stages
    BY <1>2, GateAssumption DEF Stages
  <2> QED BY <2>1, <2>2 DEF Init, TypeOK
<1>4. Fine(risk, now)
  BY <1>1, <1>2 DEF Fine, Sound
<1>5. Agrees(risk, ledger, spoiled)
  BY <1>1, <1>2 DEF Init, Agrees
<1>6. LateInv
  BY CyclesAreProcs DEF Init, LateInv
<1> QED BY <1>2, <1>3, <1>4, <1>5, <1>6 DEF IInv

\* The file after a save of a copy that knew the file's PnL.
LEMMA FreshSaveAgrees ==
  ASSUME NEW r \in SafetyStates, NEW s \in SafetyStates, NEW n \in Int,
         NEW l \in [Days -> Int], NEW k, NEW sp, Agrees(r, l, sp),
         NEW b, b.day = r.day, b.pnl = r.pnl,
         \/ Carries(b, s) /\ k = l
         \/ Books(b, s, n) /\ k = [l EXCEPT ![s.day] = @ + n]
         \/ Restarts(b, s) /\ k = [l EXCEPT ![s.day] = 0]
  PROVE  Agrees(s, k, sp)
<1>1. r.day \in Int /\ s.day \in Int /\ r.pnl \in Int
  BY DEF SafetyStates, DayNumbers, NoDay
<1>2. CASE Carries(b, s) /\ k = l
  <2>1. CASE s.day = r.day /\ s.pnl = r.pnl
    BY <1>2, <2>1 DEF Agrees
  <2>2. CASE s.day \in Days /\ r.day < s.day /\ s.pnl = 0
    <3>1. s.day \in sp \/ s.pnl = l[s.day]
      BY <2>2 DEF Agrees
    <3>2. \A d \in Days : d > s.day => d \in sp \/ l[d] = 0
      BY <1>1, <2>2, DaysAreNat DEF Agrees
    <3> QED BY <1>2, <3>1, <3>2 DEF Agrees
  <2> QED BY <1>2, <2>1, <2>2 DEF Carries
<1>3. CASE Books(b, s, n) /\ k = [l EXCEPT ![s.day] = @ + n]
  <2>1. s.day \in Days /\ s.day = r.day /\ s.pnl = r.pnl + n
    BY <1>3 DEF Books
  <2>2. s.day # NoDay
    BY <2>1, DaysAreNat DEF NoDay
  <2>3. k[s.day] = l[s.day] + n /\ \A d \in Days : d > s.day => k[d] = l[d]
    BY <1>1, <1>3, <2>1, DaysAreNat
  <2>4. s.day \in sp \/ r.pnl = l[s.day]
    BY <2>1, <2>2 DEF Agrees
  <2>5. s.day \in sp \/ s.pnl = k[s.day]
    BY <1>1, <2>1, <2>3, <2>4
  <2>6. \A d \in Days : d > s.day => d \in sp \/ k[d] = 0
    BY <2>1, <2>3 DEF Agrees
  <2> QED BY <2>5, <2>6 DEF Agrees
<1>4. CASE Restarts(b, s) /\ k = [l EXCEPT ![s.day] = 0]
  <2>1. s.day \in Days /\ r.day <= s.day /\ s.pnl = 0
    BY <1>4 DEF Restarts
  <2>2. k[s.day] = 0 /\ \A d \in Days : d > s.day => k[d] = l[d]
    BY <1>1, <1>4, <2>1, DaysAreNat
  <2>3. \A d \in Days : d > s.day => d \in sp \/ l[d] = 0
    BY <1>1, <2>1, DaysAreNat DEF Agrees
  <2> QED BY <2>1, <2>2, <2>3 DEF Agrees
<1> QED BY <1>2, <1>3, <1>4

\* After a save of an outdated copy the days it touched are spoiled.
LEMMA StaleSaveAgrees ==
  ASSUME NEW r \in SafetyStates, NEW s \in SafetyStates, NEW l, NEW k, NEW sp,
         Agrees(r, l, sp), s.day = NoDay \/ s.day \in Days,
         \A d \in Days : d # s.day => k[d] = l[d]
  PROVE  Agrees(s, k, sp \cup DaysBetween(r.day, s.day))
<1>1. r.day \in Int /\ s.day \in Int
  BY DEF SafetyStates, DayNumbers, NoDay
<1>2. s.day # NoDay => s.day \in DaysBetween(r.day, s.day)
  BY <1>1 DEF DaysBetween
<1>3. ASSUME NEW d \in Days, d > s.day
      PROVE  d \in sp \cup DaysBetween(r.day, s.day) \/ k[d] = 0
  <2>1. d \in Int /\ k[d] = l[d]
    BY <1>1, <1>3, DaysAreNat
  <2>2. CASE d <= r.day
    BY <1>1, <1>3, <2>1, <2>2 DEF DaysBetween
  <2>3. CASE ~(d <= r.day)
    BY <1>1, <2>1, <2>3 DEF Agrees
  <2> QED BY <2>2, <2>3
<1> QED BY <1>2, <1>3 DEF Agrees

\* A save keeps the calls' promises, the ledger and the count of late entries.
LEMMA SaveStateStep ==
  ASSUME IInv, NEW c \in calls, SaveState(c)
  PROVE  IInv'
<1> DEFINE s == Head(c.todo)
           over == Tail(c.todo) = <<>>
<1>1. Save(c)
  BY DEF SaveState
<1>2. /\ SafetyTypeOK'
      /\ c.by \in Procs /\ c.base \in SafetyStates /\ c.todo \in Seq(SafetyStates)
      /\ risk' = s /\ s = c.todo[1]
      /\ \A d \in calls : d # c => d \in calls' /\ d.by # c.by
      /\ \A d \in calls' :
           \/ d \in calls /\ d # c
           \/ d = [c EXCEPT !.base = s, !.todo = Tail(@)] /\ ~over
  BY <1>1, CallSaves DEF IInv, TypeOK
<1>3. CallInv(c, now, booking) /\ c.todo # <<>> /\ c \in Calls
  BY DEF IInv, TypeOK, SafetyTypeOK
<1>4. Fine(s, now) /\ s \in SafetyStates /\ s.day \in Int
  <2>1. 1 \in 1 .. Len(c.todo)
    BY <1>2, <1>3
  <2>2. Fine(s, now)
    BY <1>2, <1>3, <2>1 DEF CallInv
  <2> QED BY <2>2, FineState
<1>5. s.day = NoDay \/ s.day \in Days
  BY <1>4 DEF Fine
<1>6. /\ late' = (IF Blocked(s) THEN late ELSE [d \in AutoCycles |-> 0])
      /\ ledger' = CASE c.by = "watcher" /\ over -> [ledger EXCEPT ![s.day] = @ + booking]
                     [] c.by = "reset" -> [ledger EXCEPT ![s.day] = 0]
                     [] OTHER -> ledger
      /\ booking' = (IF c.by = "watcher" /\ over THEN 0 ELSE booking)
      /\ spoiled' = (IF Outdated(c) THEN spoiled \cup DaysBetween(risk.day, s.day)
                     ELSE spoiled)
      /\ mirrors' = mirrors \cup {[by |-> c.by, flag |-> s.paused]}
      /\ UNCHANGED <<now, sysPaused, pc, fired, queue, closes, commands>>
  BY DEF SaveState, bounds
<1>7. TypeOK
  BY DEF IInv
<1>8. booking \in Int /\ ledger \in [Days -> Int] /\ late \in [AutoCycles -> Nat]
  BY <1>7 DEF TypeOK
<1>9. /\ c.by = "watcher" /\ over => Books(c.base, s, booking)
      /\ c.by = "reset" => Restarts(c.base, s)
      /\ ~(c.by = "watcher" /\ over) /\ c.by # "reset" => Carries(c.base, s)
      /\ c.by # "watcher" => over
  <2>1. c.todo = <<s>> => over
    BY <1>2, TailOfOne
  <2>2. ASSUME NEW u, c.todo = <<s, u>> PROVE ~over
    BY <1>2, <2>2, TailOfTwo
  <2>3. Saves(c, booking)
    BY <1>3 DEF CallInv
  <2> HIDE DEF over
  <2> QED BY <1>2, <2>1, <2>2, <2>3 DEF Saves
<1>10. TypeOK'
  <2>1. s.paused \in BOOLEAN
    BY <1>4 DEF SafetyStates
  <2>2. mirrors' \subseteq [by: Procs \cup {"audit"}, flag: BOOLEAN]
    BY <1>2, <1>6, <1>7, <2>1 DEF TypeOK
  <2>3. late' \in [AutoCycles -> Nat]
    BY <1>6, <1>8
  <2>4. ledger' \in [Days -> Int]
    <3> HIDE DEF over, s
    <3>1. CASE c.by = "watcher" /\ over
      <4>1. ledger' = [ledger EXCEPT ![s.day] = @ + booking]
        BY <1>6, <3>1
      <4>2. \A d \in Days : ledger[d] + booking \in Int
        BY <1>8
      <4> QED BY <1>8, <4>1, <4>2
    <3>2. CASE c.by = "reset"
      <4>1. ledger' = [ledger EXCEPT ![s.day] = 0]
        BY <1>6, <1>9, <3>2
      <4>2. 0 \in Int
        OBVIOUS
      <4> QED BY <1>8, <4>1, <4>2, Zenon
    <3>3. CASE ~(c.by = "watcher" /\ over) /\ c.by # "reset"
      BY <1>6, <1>8, <3>3
    <3> QED BY <3>1, <3>2, <3>3
  <2>5. booking' \in Int
    BY <1>6, <1>8
  <2>6. spoiled' \subseteq Days
    BY <1>6, <1>7 DEF TypeOK, DaysBetween
  <2> HIDE DEF over, s
  <2> QED BY <1>2, <1>6, <1>7, <2>2, <2>3, <2>4, <2>5, <2>6 DEF TypeOK
<1>11. Fine(risk, now)'
  BY <1>2, <1>4, <1>6
<1>12. (\A d \in calls : CallInv(d, now, booking))'
  <2>1. ASSUME NEW d \in calls, d # c PROVE CallInv(d, now, booking')
    <3>1. CallInv(d, now, booking)
      BY DEF IInv
    <3>2. d.by # "watcher" \/ booking' = booking
      BY <1>2, <1>6, <2>1
    <3> QED BY <3>1, <3>2, CallInvApart
  <2>2. ASSUME ~over
        PROVE  CallInv([c EXCEPT !.base = s, !.todo = Tail(@)], now, booking')
    <3>1. /\ c.by = "watcher" /\ Len(c.todo) = 2
          /\ c.todo = <<s, c.todo[2]>> /\ Books(s, c.todo[2], booking)
      <4>1. c.todo = <<s>> => over
        BY <1>2, TailOfOne
      <4>2. Saves(c, booking)
        BY <1>3 DEF CallInv
      <4> HIDE DEF over
      <4> QED BY <1>2, <2>2, <4>1, <4>2 DEF Saves
    <3>2. Tail(c.todo) = <<c.todo[2]>>
      BY <1>2, <3>1, TailOfTwo
    <3>3. Fine(c.todo[2], now)
      BY <1>3, <3>1 DEF CallInv
    <3> DEFINE rest == [c EXCEPT !.base = s, !.todo = Tail(@)]
    <3>4. rest.by = "watcher" /\ rest.base = s /\ rest.todo = <<c.todo[2]>>
      BY <1>3, <3>1, <3>2, CallShortened
    <3>5. ~c.todo[2].paused => ~s.paused
      BY <3>1 DEF Books
    <3>6. booking' = booking
      BY <1>6, <2>2
    <3> HIDE DEF over, s
    <3>7. CallInv([by |-> "watcher", base |-> s, todo |-> <<c.todo[2]>>], now, booking')
      BY <1>4, <3>1, <3>3, <3>5, <3>6, OneSave
    <3> HIDE DEF rest
    <3>8. CallInv(rest, now, booking')
      BY <3>4, <3>7, CallInvFields
    <3> QED BY <3>8 DEF rest
  <2>3. \A d \in calls' : CallInv(d, now, booking')
    <3> HIDE DEF over, s
    <3> QED BY <1>2, <2>1, <2>2
  <2> HIDE DEF over, s
  <2> QED BY <1>6, <2>3
<1>13. Agrees(risk, ledger, spoiled)'
  <2>1. risk \in SafetyStates /\ Agrees(risk, ledger, spoiled)
    BY <1>7 DEF IInv, TypeOK, SafetyTypeOK
  <2> HIDE DEF over, s
  <2>2. CASE ~Outdated(c)
    <3>1. c.base.day = risk.day /\ c.base.pnl = risk.pnl /\ spoiled' = spoiled
      BY <1>6, <2>2 DEF Outdated
    <3>2. \/ Carries(c.base, s) /\ ledger' = ledger
          \/ Books(c.base, s, booking)
             /\ ledger' = [ledger EXCEPT ![s.day] = @ + booking]
          \/ Restarts(c.base, s) /\ ledger' = [ledger EXCEPT ![s.day] = 0]
      BY <1>6, <1>9
    <3>3. Agrees(s, ledger', spoiled)
      BY <1>4, <1>8, <2>1, <3>1, <3>2, FreshSaveAgrees
    <3> QED BY <1>2, <3>1, <3>3
  <2>3. CASE Outdated(c)
    <3>1. \A d \in Days : d # s.day => ledger'[d] = ledger[d]
      BY <1>6, <1>8
    <3>2. Agrees(s, ledger', spoiled \cup DaysBetween(risk.day, s.day))
      BY <1>4, <1>5, <2>1, <3>1, StaleSaveAgrees
    <3> QED BY <1>2, <1>6, <2>3, <3>2
  <2> QED BY <2>2, <2>3
<1>14. LateInv'
  <2>1. LateInv
    BY DEF IInv
  <2> HIDE DEF over
  <2>2. CASE ~Blocked(s)
    <3>1. \A d \in AutoCycles : late'[d] = 0
      BY <1>6, <2>2
    <3> QED BY <3>1 DEF LateInv
  <2>3. CASE Blocked(s)
    <3>1. late' = late /\ pc' = pc /\ Blocked(risk')
      BY <1>2, <1>6, <2>3
    <3>2. \A k \in calls : ~Blocked(k.todo[1]) => k \in calls'
      BY <1>2, <2>3
    <3> QED BY <2>1, <3>1, <3>2 DEF LateInv
  <2> QED BY <2>2, <2>3
<1> QED BY <1>10, <1>11, <1>12, <1>13, <1>14 DEF IInv

\* The mirror is no part of what the invariant speaks of.
LEMMA WriteHealthStep ==
  ASSUME IInv, NEW m \in mirrors, WriteHealth(m)
  PROVE  IInv'
<1>1. TypeOK'
  BY DEF IInv, TypeOK, SafetyTypeOK, WriteHealth, safety, books, bounds
<1>2. LateInv'
  BY DEF IInv, LateInv, WriteHealth, safety
<1> QED BY <1>1, <1>2 DEF IInv, WriteHealth, safety, books

LEMMA HealthCheckStep ==
  ASSUME IInv, NEW c \in Cycles, HealthCheck(c)
  PROVE  IInv'
<1>1. queue' \in [Cycles -> Nat]
  BY DEF IInv, TypeOK, HealthCheck
<1> QED BY <1>1, StageStep DEF HealthCheck, Stages

LEMMA CycleRolloverStep ==
  ASSUME IInv, NEW c \in Cycles, CycleRollover(c)
  PROVE  IInv'
<1>1. LoadedWell(c, RolloverSaves(risk, now), booking)
  BY CycleRolloverLoads, CyclesAreProcs DEF IInv, TypeOK
<1> QED BY <1>1, CycleCallStep DEF CycleRollover, Stages

LEMMA CycleGateStep ==
  ASSUME IInv, NEW c \in Cycles, CycleGate(c)
  PROVE  IInv'
<1>1. LoadedWell(c, CheckSaves(risk, now), booking)
  BY CheckLoads, CyclesAreProcs DEF IInv, TypeOK
<1>2. PICK stage \in Stages \ {"cleared"} : Goto(c, stage)
  BY DEF CycleGate, Stages
<1> QED BY <1>1, <1>2, CycleCallStep DEF CycleGate

LEMMA MismatchStep ==
  ASSUME IInv, NEW c \in Cycles, MismatchAtStart(c)
  PROVE  IInv'
<1>1. LoadedWell(c, <<Pause(risk, "mismatch", TRUE, 0, now)>>, booking)
  BY PauseLoads, CyclesAreProcs DEF IInv, TypeOK
<1>2. LoadedWell(c, <<>>, booking)
  BY DEF LoadedWell
<1>3. PICK saves : Call(c, saves) /\ LoadedWell(c, saves, booking)
  BY <1>1, <1>2 DEF MismatchAtStart
<1> QED BY <1>3, CycleCallStep DEF MismatchAtStart, Stages

LEMMA StartFiringStep ==
  ASSUME IInv, NEW c \in Cycles, StartFiring(c)
  PROVE  IInv'
<1>1. queue' \in [Cycles -> Nat]
  <2>1. queue \in [Cycles -> Nat] /\ 0 .. QueueLen \subseteq Nat
    BY GateAssumption DEF IInv, TypeOK
  <2> QED BY <2>1 DEF StartFiring
<1>2. PICK stage \in Stages \ {"cleared"} : Goto(c, stage)
  BY DEF StartFiring, Stages
<1> QED BY <1>1, <1>2, StageStep DEF StartFiring

LEMMA FireQueuedStep ==
  ASSUME IInv, NEW c \in Cycles, FireQueued(c)
  PROVE  IInv'
<1>1. queue' \in [Cycles -> Nat]
  BY DEF IInv, TypeOK, FireQueued
<1>2. PICK stage \in Stages \ {"cleared"} : Goto(c, stage)
  BY DEF FireQueued, Stages
<1> QED BY <1>1, <1>2, StageStep DEF FireQueued

LEMMA QueueDoneStep ==
  ASSUME IInv, NEW c \in Cycles, QueueDone(c)
  PROVE  IInv'
<1>1. queue' \in [Cycles -> Nat]
  BY DEF IInv, TypeOK, QueueDone
<1> QED BY <1>1, StageStep DEF QueueDone, Stages

\* The loop clears a candidate on a state that does not block trading.
LEMMA ReviewStep ==
  ASSUME IInv, NEW c \in Cycles, Review(c)
  PROVE  IInv'
<1>1. LoadedWell(c, CheckSaves(risk, now), booking)
  BY CheckLoads, CyclesAreProcs DEF IInv, TypeOK
<1>2. PICK stage \in Verdict(c) : Goto(c, stage)
  BY DEF Review
<1>3. /\ Call(c, CheckSaves(risk, now))
      /\ UNCHANGED <<now, health, queue, late, books, bounds>>
  BY DEF Review
<1>4. CASE stage # "cleared"
  BY <1>1, <1>2, <1>3, <1>4, CycleCallStep DEF Verdict, Stages
<1>5. CASE stage = "cleared"
  <2>1. ~Blocked(AfterCheck(risk, now))
    BY <1>2, <1>5 DEF Verdict, Blocked
  <2>2. /\ pc' \in [Cycles -> Stages] /\ fired' \in [Cycles -> Nat]
        /\ \A d \in Cycles : d # c => pc'[d] = pc[d]
    BY <1>2, <1>5, GotoTyped DEF IInv, Stages
  <2>3. booking' = booking
    BY <1>3 DEF books
  <2>4. /\ SafetyTypeOK' /\ Fine(risk, now)'
        /\ (\A k \in calls : CallInv(k, now, booking))'
        /\ Agrees(risk, ledger, spoiled)'
    BY <1>1, <1>3, <2>3, LoadStep, CyclesAreProcs DEF books
  <2>5. TypeOK'
    BY <1>3, <2>2, <2>4 DEF IInv, TypeOK, health, books, bounds
  <2>6. calls \subseteq calls' /\ UNCHANGED <<risk, late>>
    BY <1>3 DEF Call, Load
  <2>7. \/ ~Blocked(risk)
        \/ \E k \in calls' : k.by = c /\ ~Blocked(k.todo[1])
    <3>1. CASE AfterCheck(risk, now) = risk
      BY <2>1, <3>1
    <3>2. CASE AfterCheck(risk, now) # risk
      <4> DEFINE after == AfterCheck(risk, now)
                 new == [by |-> c, base |-> risk, todo |-> <<after>>]
      <4>1. new \in calls'
        BY <1>3, <3>2 DEF Call, Load, CheckSaves
      <4>2. new.by = c /\ new.todo[1] = after
        OBVIOUS
      <4> QED BY <2>1, <4>1, <4>2
    <3> QED BY <3>1, <3>2
  <2>8. LateInv'
    <3>1. LateInv
      BY DEF IInv
    <3>2. \A d \in AutoCycles : pc'[d] = "cleared" =>
            pc[d] = "cleared" \/ late[d] = 0 \/
            \E k \in calls' : k.by = d /\ ~Blocked(k.todo[1])
      BY <2>2, <2>7, <3>1, CyclesAreProcs DEF LateInv
    <3> QED BY <2>6, <3>1, <3>2, LateKept
  <2> QED BY <2>4, <2>5, <2>8 DEF IInv
<1> QED BY <1>4, <1>5

\* A late entry is the first since trading got blocked: the call on whose word
\* it was cleared is over.
LEMMA FireStep ==
  ASSUME IInv, NEW c \in Cycles, Fire(c)
  PROVE  IInv'
<1>1. /\ pc[c] = "cleared" /\ \A k \in calls : k.by # c
      /\ late' = LateEntry(c)
      /\ UNCHANGED <<now, safety, health, queue, books, bounds>>
  BY DEF Fire, Ready, Free
<1>2. TypeOK /\ LateInv /\ late \in [AutoCycles -> Nat]
  BY DEF IInv, TypeOK
<1>3. /\ pc' \in [Cycles -> Stages] /\ fired' \in [Cycles -> Nat]
      /\ pc'[c] # "cleared" /\ \A d \in Cycles : d # c => pc'[d] = pc[d]
  BY <1>2 DEF Fire, Goto, Stages, TypeOK
<1>4. c \in AutoCycles => late[c] = 0
  BY <1>1, <1>2 DEF LateInv
<1>5. /\ late' \in [AutoCycles -> Nat]
      /\ \A d \in AutoCycles : d # c => late'[d] = late[d]
      /\ c \in AutoCycles => late'[c] <= 1
      /\ ~Blocked(risk) => late' = late
  BY <1>1, <1>2, <1>4 DEF LateEntry
<1>6. TypeOK'
  BY <1>1, <1>2, <1>3, <1>5 DEF TypeOK, SafetyTypeOK, safety, health, books, bounds
<1>7. LateInv'
  <2>1. UNCHANGED <<risk, calls>>
    BY <1>1 DEF safety
  <2> QED BY <1>2, <1>3, <1>5, <2>1, CyclesAreProcs DEF LateInv
<1> QED BY <1>1, <1>6, <1>7 DEF IInv, safety, books

LEMMA RescueStep ==
  ASSUME IInv, NEW c \in Cycles, Rescue(c)
  PROVE  IInv'
<1>1. LoadedWell(c, <<Pause(risk, "naked", TRUE, 0, now)>>, booking)
  BY PauseLoads, CyclesAreProcs DEF IInv, TypeOK
<1>2. PICK stage \in Stages \ {"cleared"} : Goto(c, stage)
  BY DEF Rescue, Stages
<1> QED BY <1>1, <1>2, CycleCallStep DEF Rescue

LEMMA EndCycleStep ==
  ASSUME IInv, NEW c \in Cycles, EndCycle(c)
  PROVE  IInv'
<1>1. queue' \in [Cycles -> Nat]
  BY DEF IInv, TypeOK, EndCycle
<1> QED BY <1>1, StageStep DEF EndCycle, Stages

LEMMA WatcherCloseStep ==
  ASSUME IInv, NEW pnl \in Pnls, WatcherClose(pnl)
  PROVE  IInv'
<1>1. pnl \in Int /\ booking' = pnl
  BY GateAssumption DEF WatcherClose
<1>2. LoadedWell("watcher", CloseSaves(risk, pnl, now), booking')
  BY <1>1, CloseLoads DEF IInv, TypeOK
<1>3. closes' \in Nat /\ commands' \in Nat
  BY DEF IInv, TypeOK, WatcherClose
<1> QED BY <1>1, <1>2, <1>3, BesideCallStep, CyclesAreProcs DEF WatcherClose

\* What every command leaves alone.
LEMMA CommandKeeps ==
  ASSUME IInv, Command
  PROVE  /\ booking' = booking /\ booking' \in Int
         /\ closes' \in Nat /\ commands' \in Nat
         /\ UNCHANGED <<now, sysPaused, pc, fired, queue, late, ledger, spoiled>>
BY DEF IInv, TypeOK, Command, books

LEMMA OperatorPauseStep ==
  ASSUME IInv, NEW carry \in BOOLEAN, NEW window \in Windows,
         OperatorPause(carry, window)
  PROVE  IInv'
<1>1. Command /\ mirrors' = mirrors /\ window \in Nat
  BY GateAssumption DEF OperatorPause
<1>2. LoadedWell("operator", <<Pause(risk, "manual", carry, window, now)>>, booking')
  BY <1>1, PauseLoads DEF IInv, TypeOK
<1> QED BY <1>1, <1>2, CommandKeeps, BesideCallStep, CyclesAreProcs
        DEF OperatorPause, health

LEMMA OperatorResumeStep ==
  ASSUME IInv, OperatorResume
  PROVE  IInv'
<1>1. Command /\ mirrors' = mirrors
  BY DEF OperatorResume
<1>2. LoadedWell("operator", <<Resume(risk)>>, booking')
  BY ResumeLoads DEF IInv, TypeOK
<1> QED BY <1>1, <1>2, CommandKeeps, BesideCallStep, CyclesAreProcs
        DEF OperatorResume, health

LEMMA OperatorResetStep ==
  ASSUME IInv, OperatorReset
  PROVE  IInv'
<1>1. Command /\ mirrors' = mirrors
  BY DEF OperatorReset
<1>2. LoadedWell("reset", <<ResetDaily(risk, Today(now))>>, booking')
  BY ResetLoads DEF IInv, TypeOK
<1> QED BY <1>1, <1>2, CommandKeeps, BesideCallStep, CyclesAreProcs
        DEF OperatorReset, health

LEMMA RecordHealthStep ==
  ASSUME IInv, RecordHealth
  PROVE  IInv'
<1>1. /\ booking' = booking /\ closes' \in Nat /\ commands' \in Nat
      /\ UNCHANGED <<now, sysPaused, pc, fired, queue, late, ledger, spoiled>>
  BY CommandKeeps DEF RecordHealth
<1>2. UNCHANGED <<risk, calls>>
  BY DEF RecordHealth, safety
<1>3. mirrors' \subseteq [by: Procs \cup {"audit"}, flag: BOOLEAN]
  <2>1. PICK flag \in {sysPaused, TRUE} :
          mirrors' = mirrors \cup {[by |-> "audit", flag |-> flag]}
    BY DEF RecordHealth
  <2>2. flag \in BOOLEAN
    BY DEF IInv, TypeOK
  <2> QED BY <2>1, <2>2 DEF IInv, TypeOK
<1>4. TypeOK'
  BY <1>1, <1>2, <1>3 DEF IInv, TypeOK, SafetyTypeOK
<1>5. LateInv'
  BY <1>1, <1>2 DEF IInv, LateInv
<1> QED BY <1>1, <1>2, <1>4, <1>5 DEF IInv

\* The days that have come stay, and so does an elapsed window.
LEMMA TickStep ==
  ASSUME IInv, Tick
  PROVE  IInv'
<1>1. /\ now \in Nat /\ now' = now + 1 /\ now' \in 0 .. MaxTime
      /\ UNCHANGED <<safety, health, pc, fired, queue, late, books, bounds>>
  BY GateAssumption DEF IInv, TypeOK, Tick
<1>2. Today(now) <= Today(now') /\ Today(now) \in Nat /\ Today(now') \in Nat
  BY <1>1, TodayMonotone, TodayIsDay DEF IInv, TypeOK
<1>3. ASSUME NEW s, Fine(s, now) PROVE Fine(s, now')
  <2>1. CASE s.day = NoDay
    BY <1>3, <2>1 DEF Fine
  <2>2. CASE s.day \in Days /\ s.day <= Today(now)
    <3>1. s.day \in Nat
      BY <2>2, DaysAreNat
    <3>2. s.day <= Today(now')
      BY <1>2, <2>2, <3>1
    <3> QED BY <1>3, <2>2, <3>2 DEF Fine
  <2> QED BY <1>3, <2>1, <2>2 DEF Fine
<1>4. ASSUME NEW c \in calls PROVE CallInv(c, now', booking)
  <2>1. CallInv(c, now, booking)
    BY DEF IInv
  <2>2. c.base \in SafetyStates
    BY <2>1, FineState DEF CallInv
  <2>3. WindowElapsed(c.base, now) => WindowElapsed(c.base, now')
    BY <1>1, <2>2 DEF WindowElapsed, SafetyStates, Deadlines, NoTime
  <2>4. Released(c, now) => Released(c, now')
    BY <2>3 DEF Released
  <2> QED BY <1>3, <2>1, <2>4 DEF CallInv
<1>5. UNCHANGED <<risk, calls, ledger, spoiled, booking>>
  BY <1>1 DEF safety, books
<1>6. TypeOK'
  BY <1>1 DEF IInv, TypeOK, SafetyTypeOK, safety, health, books, bounds
<1>7. LateInv'
  BY <1>1, <1>5 DEF IInv, LateInv
<1>8. Fine(risk, now)'
  BY <1>3, <1>5 DEF IInv
<1>9. (\A c \in calls : CallInv(c, now, booking))'
  BY <1>4, <1>5
<1> QED BY <1>5, <1>6, <1>7, <1>8, <1>9 DEF IInv

\* A process that is killed takes its call with it, and its cycle.
LEMMA KillStep ==
  ASSUME IInv, NEW p \in Procs \cup {"audit"}, Kill(p)
  PROVE  IInv'
<1>1. /\ calls' = {c \in calls : c.by # p}
      /\ UNCHANGED <<risk, now, sysPaused, late, ledger, spoiled, closes, commands>>
  BY DEF Kill, Abandon, bounds
<1>2. TypeOK /\ LateInv
  BY DEF IInv
<1>3. SafetyTypeOK'
  BY <1>1, <1>2 DEF TypeOK, SafetyTypeOK
<1>4. booking' = (IF p = "watcher" THEN 0 ELSE booking)
  BY DEF Kill
<1>5. /\ pc' \in [Cycles -> Stages] /\ fired' \in [Cycles -> Nat]
      /\ queue' \in [Cycles -> Nat]
      /\ \A c \in Cycles : pc'[c] = "cleared" => pc[c] = "cleared" /\ c # p
  <2>1. CASE p \in Cycles
    <3>1. Goto(p, "idle") /\ queue' = [queue EXCEPT ![p] = 0]
      BY <2>1 DEF Kill
    <3>2. /\ pc' \in [Cycles -> Stages] /\ fired' \in [Cycles -> Nat]
          /\ pc'[p] = "idle" /\ \A d \in Cycles : d # p => pc'[d] = pc[d]
      BY <1>2, <2>1, <3>1, GotoTyped DEF Stages
    <3>3. queue' \in [Cycles -> Nat]
      BY <1>2, <3>1 DEF TypeOK
    <3> QED BY <3>2, <3>3
  <2>2. CASE p \notin Cycles
    BY <1>2, <2>2 DEF Kill, TypeOK
  <2> QED BY <2>1, <2>2
<1>6. TypeOK'
  <2>1. mirrors' \subseteq mirrors
    BY DEF Kill
  <2> QED BY <1>1, <1>2, <1>3, <1>4, <1>5, <2>1 DEF TypeOK
<1>7. \A c \in calls' : CallInv(c, now, booking')
  BY <1>1, <1>4, CallInvApart DEF IInv
<1>8. LateInv'
  <2>1. ASSUME NEW c \in AutoCycles, pc'[c] = "cleared"
        PROVE  late[c] = 0 \/ \E k \in calls' : k.by = c /\ ~Blocked(k.todo[1])
    <3>1. pc[c] = "cleared" /\ c # p
      BY <1>5, <2>1, CyclesAreProcs
    <3> QED BY <1>1, <1>2, <3>1 DEF LateInv
  <2> QED BY <1>1, <1>2, <2>1 DEF LateInv
<1> QED BY <1>1, <1>6, <1>7, <1>8 DEF IInv

LEMMA StutterStep == IInv /\ UNCHANGED vars => IInv'
<1> SUFFICES ASSUME IInv, UNCHANGED vars PROVE IInv'
  OBVIOUS
<1>1. TypeOK'
  BY DEF IInv, TypeOK, SafetyTypeOK, vars, safety, health, books, bounds
<1>2. LateInv'
  BY DEF IInv, LateInv, vars, safety
<1> QED BY <1>1, <1>2 DEF IInv, vars, safety, books

LEMMA GateStep == IInv /\ [Next]_vars => IInv'
<1> SUFFICES ASSUME IInv, [Next]_vars PROVE IInv'
  OBVIOUS
<1>1. ASSUME NEW c \in Cycles, CycleStep(c) PROVE IInv'
  BY <1>1, HealthCheckStep, CycleRolloverStep, CycleGateStep, MismatchStep,
     StartFiringStep, FireQueuedStep, QueueDoneStep, ReviewStep, FireStep,
     RescueStep, EndCycleStep DEF CycleStep
<1>2. ASSUME NEW p \in Procs \cup {"audit"}, CallStep(p) PROVE IInv'
  BY <1>2, SaveStateStep, WriteHealthStep DEF CallStep
<1>3. ASSUME NEW p \in Procs \cup {"audit"}, Kill(p) PROVE IInv'
  BY <1>3, KillStep
<1>4. ASSUME Beside PROVE IInv'
  BY <1>4, WatcherCloseStep, OperatorPauseStep, OperatorResumeStep,
     OperatorResetStep, RecordHealthStep DEF Beside
<1>5. CASE Tick
  BY <1>5, TickStep
<1>6. CASE UNCHANGED vars
  BY <1>6, StutterStep
<1> QED BY <1>1, <1>2, <1>3, <1>4, <1>5, <1>6 DEF Next

-----------------------------------------------------------------------------
\* The inductive invariant of the gate holds for every number of cycles, every
\* limit, and whatever saves overtake each other: the file and every copy are
\* sound and of a day that has come, each call saves what its rule says of its
\* own copy, and the day's PnL agrees with the ledger unless the day is spoiled.
THEOREM GateInvariant == Spec => []IInv
<1>1. Init => IInv
  BY InitIInv
<1>2. IInv /\ [Next]_vars => IInv'
  BY GateStep
<1> QED BY <1>1, <1>2, PTL DEF Spec

\* The gate's variables keep their types.
THEOREM GateTypeCorrect == Spec => []TypeOK
<1>1. IInv => TypeOK
  BY DEF IInv
<1> QED BY <1>1, GateInvariant, PTL

\* A daily-loss pause never carries a cooldown window, whatever calls of whatever
\* processes saved before it (safety_state.py:269).
THEOREM DailyLossPauseIsUntimed == Spec => []DailyLossPauseUntimed
<1>1. IInv => DailyLossPauseUntimed
  BY DEF IInv, Fine, Sound, Clean, DailyLossPauseUntimed
<1> QED BY <1>1, GateInvariant, PTL

\* With any number of cycles, a full-auto cycle fires at most the one entry it
\* had cleared before trading got blocked.
THEOREM AtMostOneLateEntry == Spec => []OneLateEntry
<1>1. IInv => OneLateEntry
  BY DEF IInv, LateInv, OneLateEntry
<1> QED BY <1>1, GateInvariant, PTL

\* On a day no outdated copy was saved on, the PnL the limit is checked against
\* is the sum of the day's closes, with any number of processes between them.
THEOREM DayPnlIsLedger == Spec => []DayPnlMatchesLedger
<1>1. IInv => DayPnlMatchesLedger
  BY DEF IInv, Agrees, DayPnlMatchesLedger
<1> QED BY <1>1, GateInvariant, PTL

-----------------------------------------------------------------------------
\* No step but a save touches the file.
LEMMA OnlySavesWrite ==
  ASSUME Next, risk' # risk
  PROVE  \E c \in calls : SaveState(c)
<1>1. ASSUME NEW c \in Cycles, CycleStep(c) PROVE FALSE
  BY <1>1 DEF CycleStep, HealthCheck, CycleRollover, CycleGate, MismatchAtStart,
     StartFiring, FireQueued, QueueDone, Review, Fire, Rescue, EndCycle, Call,
     Load, safety
<1>2. ASSUME NEW p, CallStep(p) PROVE \E c \in calls : SaveState(c)
  BY <1>2 DEF CallStep, WriteHealth, safety
<1>3. ASSUME NEW p, Kill(p) PROVE FALSE
  BY <1>3 DEF Kill, Abandon
<1>4. ASSUME Beside PROVE FALSE
  BY <1>4 DEF Beside, WatcherClose, OperatorPause, OperatorResume, OperatorReset,
     RecordHealth, Call, Load, safety
<1>5. ASSUME Tick PROVE FALSE
  BY <1>5 DEF Tick, safety
<1> QED BY <1>1, <1>2, <1>3, <1>4, <1>5 DEF Next

\* A pause ends under a call that has the right to end it or has not seen it: a
\* close, a check, a rollover or a rescue that has seen it saves it.
THEOREM PausesEndLegitimately == Spec => PauseEndsLegitimately
<1>1. ASSUME IInv, [Next]_vars, risk.paused, ~risk'.paused
      PROVE  \E c \in calls : SaveState(c) /\ Releases(c)
  <2>1. Next /\ risk' # risk
    BY <1>1 DEF vars, safety
  <2>2. PICK c \in calls : SaveState(c)
    BY <2>1, OnlySavesWrite
  <2>3. /\ SafetyTypeOK /\ Save(c) /\ CallInv(c, now, booking)
    BY <1>1, <2>2 DEF IInv, TypeOK, SaveState
  <2>4. risk' = Head(c.todo) /\ Head(c.todo) = c.todo[1]
    BY <2>3, CallSaves
  <2>5. Released(c, now)
    BY <1>1, <2>3, <2>4 DEF CallInv
  <2>6. Releases(c)
    BY <2>4, <2>5 DEF Releases, Released
  <2> QED BY <2>2, <2>6
<1>2. IInv /\ [Next]_vars =>
        [risk.paused /\ ~risk'.paused => \E c \in calls : SaveState(c) /\ Releases(c)]_vars
  BY <1>1
<1> QED BY <1>2, GateInvariant, PTL DEF Spec, PauseEndsLegitimately

-----------------------------------------------------------------------------
(* The emergency close, a system of its own.  Inductive is that a position is *)
(* no larger than the trades that can have made it, and that one whose order  *)
(* is still to be answered lies between what was listed and flat, give or     *)
(* take what others have traded since.                                        *)

\* No position is larger than the trades that can have made it.
Earned == \A s \in Symbols : Size(exch[s]) <= trades /\ since[s] <= trades

\* held lies between flat and size, give or take n.
Between(held, size, n) ==
  /\ size > 0 => -n <= held /\ held <= size + n
  /\ size < 0 => size - n <= held /\ held <= n

\* Where a position is whose order is still to be answered.
Pending == \A p \in closing : Between(exch[p.symbol], p.size, since[p.symbol])

EmergencyInv == ECTypeOK /\ Earned /\ Pending /\ NothingLeftBehind

\* What a reduce-only order leaves: no more than there was, and on its side; and
\* it leaves a position between flat and the size of the order there.
LEMMA ReducedIsSmaller ==
  ASSUME NEW held \in Int, NEW size \in Int, NEW h \in Reduced(held, size)
  PROVE  /\ h \in Int /\ Size(h) <= Size(held) /\ h * held >= 0 /\ held * size > 0
         /\ \A n \in Nat : Between(held, size, n) => Between(h, size, n)
  <1>1. h \in -Size(held) .. Size(held) /\ Size(held) \in Int
    BY DEF Reduced, Size
  <1>2. h * held >= 0 /\ held * size > 0
    BY DEF Reduced
  <1>3. h \in Int /\ Size(h) <= Size(held)
    BY <1>1 DEF Size
  <1>4. \/ held > 0 /\ size > 0 /\ h >= 0 /\ h <= held
        \/ held < 0 /\ size < 0 /\ h <= 0 /\ h >= held
    BY <1>2, <1>3 DEF Size
  <1> QED BY <1>2, <1>3, <1>4 DEF Between

\* Carried out whole, it leaves no more than others have added.
LEMMA WhollyLeavesTheRest ==
  ASSUME NEW held \in Int, NEW size \in Int, NEW h \in Reduced(held, size),
         NEW n \in Nat, Between(held, size, n), Wholly(held, size, h)
  PROVE  Size(h) <= n
  <1>1. held * size > 0
    BY ReducedIsSmaller
  <1>2. CASE held > 0 /\ size > 0
    <2>1. CASE held <= size
      <3>1. 0 \in Reduced(held, size)
        BY <1>1, <1>2, <2>1 DEF Reduced, Size
      <3> QED BY <3>1, ReducedIsSmaller DEF Wholly, Size
    <2>2. CASE held > size
      <3>1. (held - size) * held >= 0
        BY <1>2, <2>2
      <3>2. held - size \in Reduced(held, size)
        BY <1>1, <1>2, <2>2, <3>1 DEF Reduced, Size
      <3>3. Size(h) <= held - size
        BY <1>2, <2>2, <3>2 DEF Wholly, Size
      <3> QED BY <1>2, <3>3, ReducedIsSmaller DEF Between, Size
    <2> QED BY <2>1, <2>2
  <1>3. CASE held < 0 /\ size < 0
    <2>1. CASE held >= size
      <3>1. 0 \in Reduced(held, size)
        BY <1>1, <1>3, <2>1 DEF Reduced, Size
      <3> QED BY <3>1, ReducedIsSmaller DEF Wholly, Size
    <2>2. CASE held < size
      <3>1. (held - size) * held >= 0
        BY <1>3, <2>2
      <3>2. held - size \in Reduced(held, size)
        BY <1>1, <1>3, <2>2, <3>1 DEF Reduced, Size
      <3>3. Size(h) <= size - held
        BY <1>3, <2>2, <3>2 DEF Wholly, Size
      <3> QED BY <1>3, <3>3, ReducedIsSmaller DEF Between, Size
    <2> QED BY <2>1, <2>2
  <1> QED BY <1>1, <1>2, <1>3

\* Where nothing of the order's side is left, others have traded the rest.
LEMMA RefusedLeavesTheRest ==
  ASSUME NEW held \in Int, NEW size \in Int \ {0}, NEW n \in Nat,
         Between(held, size, n), Reduced(held, size) = {}
  PROVE  Size(held) <= n
  <1>1. ~(held * size > 0)
    <2> SUFFICES ASSUME held * size > 0 PROVE held \in Reduced(held, size)
      OBVIOUS
    <2>1. held * held >= 0
      OBVIOUS
    <2> QED BY <2>1 DEF Reduced, Size
  <1>2. ~(held > 0 /\ size > 0) /\ ~(held < 0 /\ size < 0)
    BY <1>1
  <1> QED BY <1>2 DEF Between, Size

LEMMA EmergencyInit == ECInit => EmergencyInv
  <1> SUFFICES ASSUME ECInit PROVE EmergencyInv
    OBVIOUS
  <1>1. Flat \in [Symbols -> {0}]
    BY DEF Flat
  <1>2. ECTypeOK
    BY <1>1, EmergencyAssumption DEF ECInit, ECTypeOK
  <1>3. Earned
    BY <1>1 DEF ECInit, Earned, Size
  <1>4. Pending /\ NothingLeftBehind
    BY DEF ECInit, Pending, NothingLeftBehind, Running
  <1> QED BY <1>2, <1>3, <1>4 DEF EmergencyInv

\* A request for the position p, carried out or not, keeps what is inductive.
LEMMA RequestKeeps ==
  ASSUME EmergencyInv, NEW p \in closing, NEW h,
         h \in Reduced(exch[p.symbol], p.size) \/ h = exch[p.symbol],
         exch' = [exch EXCEPT ![p.symbol] = h],
         UNCHANGED <<trades, since>>
  PROVE  /\ exch' \in [Symbols -> -MaxTrades .. MaxTrades] /\ Earned'
         /\ \A q \in closing : Between(exch'[q.symbol], q.size, since[q.symbol])
         /\ \A s \in Symbols : s # p.symbol => exch'[s] = exch[s]
  <1>1. /\ p.symbol \in Symbols /\ p.size \in Int /\ trades \in 0 .. MaxTrades
        /\ exch[p.symbol] \in Int /\ since[p.symbol] \in Nat
    BY EmergencyAssumption DEF EmergencyInv, ECTypeOK
  <1>2. /\ h \in Int /\ Size(h) <= Size(exch[p.symbol])
        /\ Between(h, p.size, since[p.symbol])
    <2>1. CASE h = exch[p.symbol]
      <3>1. Size(h) \in Int
        BY <1>1, <2>1 DEF Size
      <3> QED BY <1>1, <2>1, <3>1 DEF EmergencyInv, Pending
    <2>2. CASE h \in Reduced(exch[p.symbol], p.size)
      BY <1>1, <2>2, ReducedIsSmaller DEF EmergencyInv, Pending
    <2> QED BY <2>1, <2>2
  <1>3. h \in -MaxTrades .. MaxTrades /\ Size(h) <= trades
    BY <1>1, <1>2, EmergencyAssumption DEF EmergencyInv, Earned, Size
  <1>4. exch' \in [Symbols -> -MaxTrades .. MaxTrades] /\ Earned'
    BY <1>1, <1>3 DEF EmergencyInv, ECTypeOK, Earned
  <1>5. ASSUME NEW q \in closing
        PROVE  Between(exch'[q.symbol], q.size, since[q.symbol])
    BY <1>1, <1>2 DEF EmergencyInv, ECTypeOK, Pending
  <1> QED BY <1>1, <1>4, <1>5 DEF EmergencyInv, ECTypeOK

LEMMA EmergencyStep == EmergencyInv /\ [ECNext]_ecVars => EmergencyInv'
  <1> SUFFICES ASSUME EmergencyInv, [ECNext]_ecVars PROVE EmergencyInv'
    OBVIOUS
  <1> USE DEF EmergencyInv
  <1>1. /\ trades \in 0 .. MaxTrades /\ failures \in Nat /\ resends \in Nat
        /\ \A s \in Symbols : exch[s] \in Int /\ since[s] \in Nat
    BY EmergencyAssumption DEF ECTypeOK
  <1>2. CASE UNCHANGED ecVars
    BY <1>2 DEF ecVars, ECTypeOK, Earned, Pending, NothingLeftBehind
  <1>3. CASE Start
    <2>1. /\ closing' \subseteq [symbol: Symbols, size: Int \ {0}]
          /\ \A p, q \in closing' : p.symbol = q.symbol => p = q
          /\ \A p \in closing' : p.size = exch[p.symbol]
          /\ \A s \in Symbols : exch[s] # 0 => \E p \in closing' : p.symbol = s
      <3> DEFINE Entry(s) == [symbol |-> s, size |-> exch[s]]
      <3>1. closing' = {Entry(s) : s \in {t \in Symbols : exch[t] # 0}}
        BY <1>3 DEF Start, Listed
      <3>2. \A s \in Symbols : Entry(s).symbol = s /\ Entry(s).size = exch[s]
        OBVIOUS
      <3>3. \A s \in Symbols : exch[s] # 0 => Entry(s) \in [symbol: Symbols, size: Int \ {0}]
        BY <1>1
      <3>4. \A p \in closing' : \E s \in Symbols : exch[s] # 0 /\ p = Entry(s)
        BY <3>1
      <3>5. \A s \in Symbols : exch[s] # 0 => Entry(s) \in closing'
        BY <3>1
      <3> HIDE DEF Entry
      <3> QED BY <3>2, <3>3, <3>4, <3>5
    <2>2. emergency' \in {"success", "closing"} /\ (closing' # {} => emergency' = "closing")
      BY <1>3 DEF Start, Listed, Flat
    <2>3. since' \in [Symbols -> {0}]
      BY <1>3 DEF Start, Flat
    <2>4. ECTypeOK'
      BY <1>3, <2>1, <2>2, <2>3, EmergencyAssumption DEF Start, Running, ECTypeOK
    <2>5. Earned'
      BY <1>1, <1>3, <2>3 DEF Start, Earned
    <2>6. Pending'
      BY <1>1, <1>3, <2>1, <2>3 DEF Start, Pending, Between
    <2>7. NothingLeftBehind'
      BY <1>3, <2>1, <2>3 DEF Start, NothingLeftBehind, Size
    <2> QED BY <2>4, <2>5, <2>6, <2>7
  <1>4. CASE Verify
    <2>1. emergency' \in {"success", "failure"}
      BY <1>4 DEF Verify, Report
    <2>2. failures' \in 0 .. MaxFailures
      BY <1>4, EmergencyAssumption DEF Verify, ECTypeOK
    <2> QED BY <1>4, <2>1, <2>2 DEF Verify, ECTypeOK, Earned, Pending,
               NothingLeftBehind, Running
  <1>5. ASSUME NEW p \in closing, CloseOne(p) PROVE EmergencyInv'
    <2>1. /\ p.symbol \in Symbols /\ p.size \in Int
          /\ Between(exch[p.symbol], p.size, since[p.symbol])
      BY DEF ECTypeOK, Pending
    <2>2. PICK h \in Reduced(exch[p.symbol], p.size) :
            /\ exch' = [exch EXCEPT ![p.symbol] = h]
            /\ unfilled' = IF Wholly(exch[p.symbol], p.size, h) THEN unfilled
                           ELSE unfilled \cup {p.symbol}
      BY <1>5 DEF CloseOne
    <2>3. /\ exch' \in [Symbols -> -MaxTrades .. MaxTrades] /\ Earned'
          /\ \A q \in closing : Between(exch'[q.symbol], q.size, since[q.symbol])
          /\ \A s \in Symbols : s # p.symbol => exch'[s] = exch[s]
      BY <1>5, <2>2, RequestKeeps DEF CloseOne
    <2>4. unfilled \subseteq unfilled' /\ unfilled' \subseteq Symbols
      BY <2>1, <2>2 DEF ECTypeOK
    <2>5. ECTypeOK'
      BY <1>5, <2>3, <2>4 DEF CloseOne, ECTypeOK
    <2>6. p.symbol \in unfilled' \/ Size(exch'[p.symbol]) <= since[p.symbol]
      BY <1>1, <2>1, <2>2, WhollyLeavesTheRest DEF ECTypeOK
    <2>7. NothingLeftBehind'
      BY <1>5, <2>3, <2>4, <2>6 DEF CloseOne, NothingLeftBehind
    <2> QED BY <1>5, <2>3, <2>5, <2>7 DEF CloseOne, Pending
  <1>6. ASSUME NEW p \in closing, Resend(p) PROVE EmergencyInv'
    <2>1. PICK h \in Reduced(exch[p.symbol], p.size) \cup {exch[p.symbol]} :
            exch' = [exch EXCEPT ![p.symbol] = h]
      BY <1>6 DEF Resend
    <2>2. /\ exch' \in [Symbols -> -MaxTrades .. MaxTrades] /\ Earned'
          /\ \A q \in closing : Between(exch'[q.symbol], q.size, since[q.symbol])
          /\ \A s \in Symbols : s # p.symbol => exch'[s] = exch[s]
      BY <1>6, <2>1, RequestKeeps DEF Resend
    <2>3. ECTypeOK'
      BY <1>1, <1>6, <2>2, EmergencyAssumption DEF Resend, ECTypeOK
    <2>4. NothingLeftBehind'
      BY <1>6, <2>2 DEF Resend, NothingLeftBehind
    <2> QED BY <1>6, <2>2, <2>3, <2>4 DEF Resend, Pending
  <1>7. ASSUME NEW p \in closing, CloseFails(p) PROVE EmergencyInv'
    <2>1. /\ p.symbol \in Symbols /\ p.size \in Int \ {0}
          /\ Between(exch[p.symbol], p.size, since[p.symbol])
      BY DEF ECTypeOK, Pending
    <2>2. CASE Reduced(exch[p.symbol], p.size) = {} /\ UNCHANGED <<exch, unfilled>>
      <3>1. Size(exch[p.symbol]) <= since[p.symbol]
        BY <1>1, <2>1, <2>2, RefusedLeavesTheRest
      <3>2. NothingLeftBehind'
        BY <1>7, <2>2, <3>1 DEF CloseFails, NothingLeftBehind, Running, ECTypeOK
      <3> QED BY <1>7, <2>2, <3>2 DEF CloseFails, Running, ECTypeOK, Earned, Pending
    <2>3. CASE /\ \E h \in Reduced(exch[p.symbol], p.size) \cup {exch[p.symbol]} :
                    exch' = [exch EXCEPT ![p.symbol] = h]
               /\ unfilled' = unfilled \cup {p.symbol}
      <3>1. PICK h \in Reduced(exch[p.symbol], p.size) \cup {exch[p.symbol]} :
              exch' = [exch EXCEPT ![p.symbol] = h]
        BY <2>3
      <3>2. /\ exch' \in [Symbols -> -MaxTrades .. MaxTrades] /\ Earned'
            /\ \A q \in closing : Between(exch'[q.symbol], q.size, since[q.symbol])
            /\ \A s \in Symbols : s # p.symbol => exch'[s] = exch[s]
        BY <1>7, <3>1, RequestKeeps DEF CloseFails
      <3>3. ECTypeOK'
        BY <1>7, <2>1, <2>3, <3>2 DEF CloseFails, Running, ECTypeOK
      <3>4. emergency \in Running
        BY DEF ECTypeOK
      <3>5. NothingLeftBehind'
        BY <1>7, <2>3, <3>2, <3>4 DEF CloseFails, NothingLeftBehind
      <3> QED BY <1>7, <3>2, <3>3, <3>5 DEF CloseFails, Pending
    <2> QED BY <1>7, <2>2, <2>3 DEF CloseFails
  <1>8. ASSUME NEW s \in Symbols, Trigger(s) PROVE EmergencyInv'
    <2>1. /\ exch[s] # 0 /\ exch'[s] = IF exch[s] > 0 THEN exch[s] - 1 ELSE exch[s] + 1
          /\ \A t \in Symbols : t # s => exch'[t] = exch[t]
      BY <1>8 DEF Trigger, ECTypeOK
    <2>2. exch'[s] \in Int /\ Size(exch'[s]) <= Size(exch[s])
          /\ exch'[s] \in -MaxTrades .. MaxTrades
      BY <1>1, <2>1, EmergencyAssumption DEF Size, ECTypeOK
    <2>3. exch' \in [Symbols -> -MaxTrades .. MaxTrades]
      BY <1>8, <2>2 DEF Trigger, ECTypeOK
    <2>4. Earned'
      BY <1>1, <1>8, <2>1, <2>2 DEF Trigger, Earned, Size
    <2>5. Pending'
      BY <1>1, <1>8, <2>1 DEF Trigger, ECTypeOK, Pending, Between
    <2>6. NothingLeftBehind'
      BY <1>1, <1>8, <2>1, <2>2 DEF Trigger, NothingLeftBehind, Size
    <2> QED BY <1>8, <2>3, <2>4, <2>5, <2>6 DEF Trigger, ECTypeOK
  <1>9. ASSUME NEW s \in Symbols, NEW side \in {-1, 1}, Trade(s, side)
        PROVE  EmergencyInv'
    <2>1. /\ exch'[s] = exch[s] + side /\ since'[s] = since[s] + 1
          /\ \A t \in Symbols : t # s => exch'[t] = exch[t] /\ since'[t] = since[t]
          /\ trades' = trades + 1 /\ trades' \in 0 .. MaxTrades
      BY <1>1, <1>9, EmergencyAssumption DEF Trade, ECTypeOK
    <2>2. Earned'
      BY <1>1, <1>9, <2>1 DEF Trade, Earned, Size
    <2>3. exch'[s] \in -MaxTrades .. MaxTrades /\ since'[s] \in 0 .. MaxTrades
      BY <1>1, <2>1, <2>2, EmergencyAssumption DEF Earned, Size
    <2>4. ECTypeOK'
      BY <1>9, <2>1, <2>3 DEF Trade, ECTypeOK
    <2>5. Pending'
      BY <1>1, <1>9, <2>1 DEF Trade, ECTypeOK, Pending, Between
    <2>6. NothingLeftBehind'
      BY <1>1, <1>9, <2>1 DEF Trade, NothingLeftBehind, Size
    <2> QED BY <2>2, <2>4, <2>5, <2>6
  <1> QED BY <1>2, <1>3, <1>4, <1>5, <1>6, <1>7, <1>8, <1>9 DEF ECNext, CloseStep

LEMMA EmergencyInvariant == ECSpec => []EmergencyInv
  BY EmergencyInit, EmergencyStep, PTL DEF ECSpec

\* Every variable keeps its type; in particular a run is under way as long as
\* positions are left to try.
THEOREM EmergencyTypeCorrect == ECSpec => []ECTypeOK
  BY EmergencyInvariant, PTL DEF EmergencyInv

\* What was listed and ordered closed is closed, and what is held nevertheless
\* others have traded since.
THEOREM EmergencyLeavesNothing == ECSpec => []NothingLeftBehind
  BY EmergencyInvariant, PTL DEF EmergencyInv

\* A report of success is true of the account, or its verifying read failed.
THEOREM EmergencySuccessIsFlat == ECSpec => SuccessIsFlat
  <1> DEFINE Honest ==
        emergency' = "success" /\ emergency # "success" =>
          exch = Flat \/ failures' > failures
  <1>1. ASSUME EmergencyInv, [ECNext]_ecVars PROVE [Honest]_ecVars
    <2> SUFFICES ASSUME emergency' = "success", emergency # "success", ECNext
                 PROVE  exch = Flat \/ failures' > failures
      BY <1>1 DEF ecVars
    <2> USE <1>1 DEF EmergencyInv
    <2>1. CASE Start
      BY <2>1 DEF Start
    <2>2. CASE Verify
      <3>1. CASE failures < MaxFailures /\ failures' = failures + 1
        BY <3>1, EmergencyAssumption DEF ECTypeOK
      <3>2. CASE emergency' = Report({s \in Symbols : exch[s] # 0})
        <4>1. \A s \in Symbols : exch[s] = 0
          BY <3>2 DEF Report
        <4> QED BY <4>1 DEF ECTypeOK, Flat
      <3> QED BY <2>2, <3>1, <3>2 DEF Verify
    <2>3. CASE ~Start /\ ~Verify
      BY <2>3 DEF ECNext, CloseStep, CloseOne, Resend, CloseFails, Trigger,
         Trade
    <2> QED BY <2>1, <2>2, <2>3
  <1> QED BY <1>1, EmergencyInvariant, PTL DEF ECSpec, SuccessIsFlat
=============================================================================

------------------------ MODULE RemoteControlProofs ------------------------
(***************************************************************************)
(* Proofs about RemoteControl, for any finite set of chats of any length,  *)
(* any limits and any number of closes, faults and registrations.  The     *)
(* stored offset, the confirmed one, the offset a batch will store and the *)
(* one --register holds are four markers in the chat: the invariants say   *)
(* what has been done below each of them.                                  *)
(***************************************************************************)
EXTENDS RemoteControl, FiniteSetTheorems, SequenceTheorems, TLAPS

InBatch == stage \in {"handling", "acting", "deciding"}

\* Where the markers are.
Shape ==
  /\ {confirmed, offset, next, register.offset} \subseteq 0 .. Len(log) + 1
  /\ at \in 0 .. Len(log) + 1
  /\ InBatch =>
       /\ 1 <= at /\ confirmed <= at
       /\ upto = 0 => next <= at /\ (at = 1 \/ at = confirmed)
       /\ upto # 0 => at <= upto + 1 /\ next = upto + 1
  /\ stage \in {"acting", "deciding"} => at <= upto
  /\ stage = "deciding" =>
       log[at].from = "owner" /\ log[at].command \in {"approve", "reject"}

\* The chat, and the rest of the types.
LogOK == log \in Seq(Messages) /\ \E chat \in Chats : IsPrefix(log, chat)

Registers == [at : {"idle", "read", "writing"}, offset : Nat, runs : Nat]

Rest ==
  /\ stage \in Stages
  /\ upto \in 0 .. Len(log)
  /\ stage = "acting" => \E c \in calls : c.by = "bot"
  /\ register \in Registers
  /\ entry \in Statuses /\ draft \in Statuses \cup {"none"}
  /\ cycle \in CycleStages
  /\ handled \subseteq Updates /\ fires \in Nat
  /\ word \in {"own", "rules", "stale"}
  /\ {closes, crashes, errors, clobbers, kills, revivals} \subseteq Nat

IInv == SafetyTypeOK /\ LogOK /\ Shape /\ Rest

\* What has been handled below a marker.
Done(n) == \A i \in Updates : i < n => i \in handled

SkipInv ==
  /\ Done(confirmed) /\ Done(offset) /\ Done(register.offset)
  /\ stage \in {"polling", "writing"} => Done(next)
  /\ InBatch => Done(at)

-----------------------------------------------------------------------------
(* Maxima. *)

\* The larger of two numbers is one of them.
LEMMA MaxTwo ==
  ASSUME NEW a \in Int, NEW b \in Int
  PROVE  Max({a, b}) = IF a >= b THEN a ELSE b
  <1> DEFINE m == IF a >= b THEN a ELSE b
  <1>1. m \in {a, b} /\ \A y \in {a, b} : m >= y
    OBVIOUS
  <1>2. \A x \in {a, b} : (\A y \in {a, b} : x >= y) => x = m
    OBVIOUS
  <1> HIDE DEF m
  <1>3. Max({a, b}) = m
    BY <1>1, <1>2 DEF Max
  <1> QED BY <1>3 DEF m

\* A finite nonempty set of integers has a largest element, and Max is it.
LEMMA MaxOfFinite ==
  ASSUME NEW T \in SUBSET Int, IsFiniteSet(T), T # {}
  PROVE  Max(T) \in T /\ \A y \in T : Max(T) >= y
  <1> DEFINE Above(x) == {y \in T : y > x}
             Family == {Above(x) : x \in T}
  <1>1. Family \subseteq FiniteSubsetsOf(T) /\ Family # {}
    <2>1. \A x \in T : Above(x) \in SUBSET T /\ IsFiniteSet(Above(x))
      BY FS_Subset
    <2> QED BY <2>1 DEF FiniteSubsetsOf
  <1>2. PICK B \in Family : \A A \in Family : ~(<<A, B>> \in StrictSubsetOrdering(T))
    BY <1>1, FS_StrictSubsetOrderingWellFounded, WFMin
  <1>3. PICK x \in T : B = Above(x)
    BY <1>2
  <1>4. ASSUME NEW z \in T, z > x PROVE FALSE
    <2>1. Above(z) \in Family /\ Above(z) \in SUBSET T /\ Above(x) \in SUBSET T
      OBVIOUS
    <2>2. x \in Int /\ \A y \in T : y \in Int
      OBVIOUS
    <2>3. Above(z) \subseteq Above(x)
      <3>1. \A y \in T : y > z => y > x
        BY <1>4, <2>2
      <3> QED BY <3>1
    <2>4. z \in Above(x) /\ z \notin Above(z)
      BY <1>4, <2>2
    <2>5. Above(z) # Above(x)
      BY <2>4
    <2> QED BY <1>2, <1>3, <2>1, <2>3, <2>5 DEF StrictSubsetOrdering
  <1>5. \E m \in T : \A y \in T : m >= y
    BY <1>4
  <1> QED BY <1>5 DEF Max

\* The longest chat bounds them all.
LEMMA LongestChat ==
  MaxMessages \in Nat /\ \A chat \in Chats : Len(chat) \in 0 .. MaxMessages
  <1> DEFINE Lengths == {Len(chat) : chat \in Chats}
             length == [chat \in Chats |-> Len(chat)]
  <1>1. \A chat \in Chats : Len(chat) \in Nat
    BY RemoteAssumption, LenProperties
  <1>2. length \in Surjection(Chats, Lengths)
    BY DEF Surjection
  <1>3. IsFiniteSet(Lengths)
    BY <1>2, RemoteAssumption, FS_Surjection
  <1>4. Lengths \in SUBSET Int /\ Lengths # {}
    <2>1. Chats # {}
      BY RemoteAssumption
    <2>2. \A y \in Lengths : y \in Int
      BY <1>1
    <2> QED BY <2>1, <2>2
  <1>5. MaxMessages \in Lengths /\ \A y \in Lengths : MaxMessages >= y
    BY <1>3, <1>4, MaxOfFinite DEF MaxMessages
  <1> QED BY <1>1, <1>5

-----------------------------------------------------------------------------
(* The manager's calls, and what they save, are well typed. *)

\* The day of the run is a day number.
LEMMA TodayTyped == Today(Now) \in DayNumbers
  <1>1. 0 \div DayLength \in Nat
    BY LimitsAssumption
  <1> QED BY <1>1 DEF Today, Now, DayNumbers

\* A state that starts a day is a state,
LEMMA DayTyped ==
  ASSUME NEW s \in SafetyStates, NEW d \in DayNumbers, NEW p \in Int, NEW n \in Nat
  PROVE  [s EXCEPT !.day = d, !.pnl = p, !.trades = n] \in SafetyStates
BY DEF SafetyStates

\* one with other counters,
LEMMA CountersTyped ==
  ASSUME NEW s \in SafetyStates, NEW p \in Int, NEW n \in Nat
  PROVE  [s EXCEPT !.pnl = p, !.trades = n] \in SafetyStates
BY DEF SafetyStates

\* one with other streaks,
LEMMA StreaksTyped ==
  ASSUME NEW s \in SafetyStates, NEW l \in Nat, NEW w \in Nat
  PROVE  /\ [s EXCEPT !.wins = w, !.losses = l] \in SafetyStates
         /\ [s EXCEPT !.losses = l, !.wins = w] \in SafetyStates
BY DEF SafetyStates

\* and one with another pause.
LEMMA PausedTyped ==
  ASSUME NEW s \in SafetyStates, NEW r \in Reasons, NEW f \in BOOLEAN,
         NEW u \in Deadlines
  PROVE  [s EXCEPT !.paused = TRUE, !.reason = r, !.carry = f, !.until = u]
           \in SafetyStates
BY DEF SafetyStates

\* Releasing a pause keeps the type.
LEMMA ClearPauseTyped ==
  ASSUME NEW s \in SafetyStates
  PROVE  ClearPause(s) \in SafetyStates
BY DEF ClearPause, SafetyStates, Reasons, Deadlines

\* So does the rollover.
LEMMA RolloverTyped ==
  ASSUME NEW s \in SafetyStates
  PROVE  Rollover(s, Today(Now)) \in SafetyStates
  <1> DEFINE fresh == [s EXCEPT !.day = Today(Now), !.pnl = 0, !.trades = 0]
  <1>1. fresh \in SafetyStates
    <2>1. 0 \in Int /\ 0 \in Nat
      OBVIOUS
    <2> QED BY <2>1, TodayTyped, DayTyped, Zenon
  <1>2. Rollover(s, Today(Now)) \in {s, fresh, ClearPause(fresh)}
    BY DEF Rollover
  <1> HIDE DEF fresh
  <1> QED BY <1>1, <1>2, ClearPauseTyped

\* So does booking a trade, streaks included.
LEMMA CountedTyped ==
  ASSUME NEW s \in SafetyStates, NEW pnl \in Int
  PROVE  Streak(Booked(s, pnl), pnl) \in SafetyStates
  <1> DEFINE booked == Booked(s, pnl)
  <1>1. booked \in SafetyStates
    <2>1. s.pnl + pnl \in Int /\ s.trades + 1 \in Nat
      BY DEF SafetyStates
    <2> QED BY <2>1, CountersTyped DEF Booked
  <1> HIDE DEF booked
  <1>2. booked.wins + 1 \in Nat /\ booked.losses + 1 \in Nat /\ 0 \in Nat
    BY <1>1 DEF SafetyStates
  <1>3. /\ [booked EXCEPT !.wins = @ + 1, !.losses = 0] \in SafetyStates
        /\ [booked EXCEPT !.losses = @ + 1, !.wins = 0] \in SafetyStates
    BY <1>1, <1>2, StreaksTyped, Zenon
  <1>4. Streak(booked, pnl) \in SafetyStates
    BY <1>1, <1>3 DEF Streak
  <1> QED BY <1>4 DEF booked

\* So does the pause of a breach.
LEMMA BreachPauseTyped ==
  ASSUME NEW s \in SafetyStates
  PROVE  BreachPause(s, Now) \in SafetyStates
  <1>1. Breach(s) \in Reasons
    BY DEF Breach, Reasons
  <1>2. Now + CooldownTicks \in Deadlines
    BY LimitsAssumption DEF Deadlines, Now
  <1> QED BY <1>1, <1>2 DEF BreachPause, SafetyStates

\* So does a whole record_trade_close().
LEMMA RecordCloseTyped ==
  ASSUME NEW s \in SafetyStates, NEW pnl \in Int
  PROVE  RecordClose(s, pnl, Now) \in SafetyStates
  <1> DEFINE counted == Streak(Booked(Rollover(s, Today(Now)), pnl), pnl)
  <1>1. counted \in SafetyStates
    BY RolloverTyped, CountedTyped
  <1>2. RecordClose(s, pnl, Now) \in {counted, BreachPause(counted, Now)}
    BY DEF RecordClose
  <1> HIDE DEF counted
  <1> QED BY <1>1, <1>2, BreachPauseTyped

\* pause() and resume() of the bot keep the type and do what they say.
LEMMA CommandTyped ==
  ASSUME NEW s \in SafetyStates
  PROVE  /\ Pause(s, "manual", FALSE, 0, Now) \in SafetyStates
         /\ Pause(s, "manual", FALSE, 0, Now).paused
         /\ Resume(s) \in SafetyStates
         /\ ~Resume(s).paused
  <1>1. /\ Pause(s, "manual", FALSE, 0, Now) \in SafetyStates
        /\ Pause(s, "manual", FALSE, 0, Now).paused
    <2> DEFINE set == [s EXCEPT !.paused = TRUE, !.reason = "manual", !.carry = FALSE,
                                !.until = NoTime]
    <2>1. Pause(s, "manual", FALSE, 0, Now) = set
      BY DEF Pause
    <2>2. "manual" \in Reasons /\ FALSE \in BOOLEAN /\ NoTime \in Deadlines
      BY DEF Reasons, Deadlines
    <2>3. set \in SafetyStates
      BY <2>2, PausedTyped, Zenon
    <2>4. set.paused
      BY DEF SafetyStates
    <2> QED BY <2>1, <2>3, <2>4
  <1>2. ClearPause(s) \in SafetyStates /\ ~ClearPause(s).paused
    BY DEF ClearPause, SafetyStates, Reasons, Deadlines
  <1>3. Resume(s) \in SafetyStates /\ ~Resume(s).paused
    <2> DEFINE cleared == ClearPause(s)
    <2>1. Resume(s) = [cleared EXCEPT !.carry = FALSE]
      BY DEF Resume
    <2>2. cleared \in SafetyStates /\ ~cleared.paused
      BY <1>2
    <2> HIDE DEF cleared
    <2> QED BY <2>1, <2>2 DEF SafetyStates
  <1> QED BY <1>1, <1>3

\* What a call is to save is a sequence of states.
LEMMA SavesTyped ==
  ASSUME NEW s \in SafetyStates, NEW pnl \in Int
  PROVE  /\ RolloverSaves(s, Now) \in Seq(SafetyStates)
         /\ CloseSaves(s, pnl, Now) \in Seq(SafetyStates)
         /\ CheckSaves(s, Now) \in Seq(SafetyStates)
  <1>1. /\ Rollover(s, Today(Now)) \in SafetyStates
        /\ RecordClose(s, pnl, Now) \in SafetyStates
    BY RolloverTyped, RecordCloseTyped
  <1>2. RolloverSaves(s, Now) \in Seq(SafetyStates)
    BY <1>1 DEF RolloverSaves
  <1>3. CloseSaves(s, pnl, Now) \in Seq(SafetyStates)
    BY <1>1, <1>2 DEF CloseSaves
  <1>4. AfterCheck(s, Now) \in SafetyStates
    BY ClearPauseTyped DEF AfterCheck
  <1>5. CheckSaves(s, Now) \in Seq(SafetyStates)
    BY <1>4 DEF CheckSaves
  <1> QED BY <1>2, <1>3, <1>5

\* The initial file is a state.
LEMMA FreshTyped == FreshState \in SafetyStates
BY DEF FreshState, SafetyStates, DayNumbers, Reasons, Deadlines

\* A call that is free to load becomes one well-typed call.
LEMMA LoadTyped ==
  ASSUME SafetyTypeOK, NEW p \in Procs, NEW saves \in Seq(SafetyStates),
         Load(p, saves)
  PROVE  SafetyTypeOK'
  <1> DEFINE new == [by |-> p, base |-> risk, todo |-> saves]
  <1>1. saves # <<>> => new \in Calls /\ new.todo # <<>> /\ new.by = p
    BY DEF SafetyTypeOK, Calls
  <1>2. calls' \subseteq calls \cup {new}
    BY DEF Load
  <1>3. saves = <<>> => calls' = calls
    BY DEF Load
  <1>4. \A c \in calls : c.by # p
    BY DEF Load, Free
  <1> HIDE DEF new
  <1>5. \A c \in calls' : c \in Calls /\ c.todo # <<>>
    BY <1>1, <1>2, <1>3 DEF SafetyTypeOK
  <1>6. \A c, d \in calls' : c.by = d.by => c = d
    BY <1>1, <1>2, <1>3, <1>4 DEF SafetyTypeOK
  <1> QED BY <1>5, <1>6 DEF SafetyTypeOK, Load

\* A save replaces the file by a state and shortens its call or ends it.
LEMMA SaveTyped ==
  ASSUME SafetyTypeOK, NEW c \in calls, Save(c)
  PROVE  SafetyTypeOK'
  <1> DEFINE rest == [c EXCEPT !.base = Head(c.todo), !.todo = Tail(@)]
  <1>1. c \in Calls /\ c.todo \in Seq(SafetyStates) /\ c.todo # <<>>
    BY DEF SafetyTypeOK, Calls
  <1>2. Head(c.todo) \in SafetyStates /\ Tail(c.todo) \in Seq(SafetyStates)
    BY <1>1, HeadTailProperties
  <1>3. rest \in Calls /\ rest.by = c.by
    BY <1>1, <1>2 DEF Calls
  <1>4. calls' \subseteq (calls \ {c}) \cup {rest} /\ (rest.todo = <<>> => calls' = calls \ {c})
    BY DEF Save
  <1>5. risk' \in SafetyStates
    BY <1>2 DEF Save
  <1> HIDE DEF rest
  <1>6. \A d \in calls' : d \in Calls /\ d.todo # <<>>
    BY <1>3, <1>4 DEF SafetyTypeOK
  <1>7. \A d, e \in calls' : d.by = e.by => d = e
    BY <1>3, <1>4 DEF SafetyTypeOK
  <1> QED BY <1>5, <1>6, <1>7 DEF SafetyTypeOK

\* Giving up a call disturbs no other.
LEMMA AbandonTyped ==
  ASSUME SafetyTypeOK, NEW p, Abandon(p)
  PROVE  SafetyTypeOK'
BY DEF SafetyTypeOK, Abandon

-----------------------------------------------------------------------------
(* Types, and the shape of a batch. *)

\* A prefix agrees with the whole at every place.
LEMMA PrefixPointwise ==
  ASSUME NEW s \in Seq(Messages), NEW t \in Seq(Messages)
  PROVE  IsPrefix(s, t) <=> /\ Len(s) <= Len(t)
                            /\ \A i \in 1 .. Len(s) : s[i] = t[i]
  <1>1. SubSeq(s, 1, Len(s)) = s
    BY SubSeqFull
  <1>2. Len(s) \in Nat /\ Len(t) \in Nat
    BY LenProperties
  <1>3. ASSUME Len(s) <= Len(t)
        PROVE  /\ SubSeq(t, 1, Len(s)) \in Seq(Messages)
               /\ Len(SubSeq(t, 1, Len(s))) = Len(s)
               /\ \A i \in 1 .. Len(s) : SubSeq(t, 1, Len(s))[i] = t[i]
    <2>1. \A i \in 1 .. Len(s) : t[i] \in Messages
      BY <1>2, <1>3, ElementOfSeq
    <2> QED BY <1>2, <2>1, SubSeqProperties
  <1>4. CASE Len(s) <= Len(t)
    <2> DEFINE u == SubSeq(t, 1, Len(s))
    <2>1. u \in Seq(Messages) /\ Len(u) = Len(s) /\ \A i \in 1 .. Len(s) : u[i] = t[i]
      BY <1>3, <1>4
    <2>2. IsPrefix(s, t) <=> s = u
      BY <1>1, <1>4 DEF IsPrefix
    <2> HIDE DEF u
    <2>3. (\A i \in 1 .. Len(s) : s[i] = u[i]) => s = u
      BY <2>1, SeqEqual
    <2> QED BY <1>4, <2>1, <2>2, <2>3
  <1>5. CASE ~(Len(s) <= Len(t))
    BY <1>5 DEF IsPrefix
  <1> QED BY <1>4, <1>5

\* A message that arrives is the chat's next one.
LEMMA SendGrows ==
  ASSUME LogOK, NEW chat \in Chats, Send(chat)
  PROVE  /\ LogOK'
         /\ Len(log') = Len(log) + 1
         /\ \A i \in 1 .. Len(log) : log'[i] = log[i]
  <1>1. log \in Seq(Messages) /\ chat \in Seq(Messages)
    BY RemoteAssumption DEF LogOK
  <1>2. Len(log) \in Nat /\ Len(chat) \in Nat
    BY <1>1, LenProperties
  <1>3. Len(log) <= Len(chat) /\ (\A i \in 1 .. Len(log) : log[i] = chat[i]) /\ log # chat
    BY <1>1, PrefixPointwise DEF Send, IsStrictPrefix
  <1>4. Len(log) < Len(chat)
    BY <1>1, <1>2, <1>3, SeqEqual
  <1>5. chat[Len(log) + 1] \in Messages
    BY <1>1, <1>2, <1>4, ElementOfSeq
  <1>6. /\ log' \in Seq(Messages)
        /\ Len(log') = Len(log) + 1
        /\ \A i \in 1 .. Len(log) : log'[i] = log[i]
        /\ log'[Len(log) + 1] = chat[Len(log) + 1]
    BY <1>1, <1>5 DEF Send
  <1>7. \A i \in 1 .. Len(log') : log'[i] = chat[i]
    BY <1>2, <1>3, <1>6
  <1>8. IsPrefix(log', chat)
    BY <1>1, <1>2, <1>4, <1>6, <1>7, PrefixPointwise
  <1> QED BY <1>6, <1>8 DEF LogOK

\* The log only grows, and only at its end.
LEMMA LogGrows ==
  ASSUME LogOK, [Next]_vars
  PROVE  /\ LogOK'
         /\ Len(log) \in Nat /\ Len(log') \in Nat /\ Len(log') >= Len(log)
         /\ \A i \in 1 .. Len(log) : log'[i] = log[i]
  <1>1. Len(log) \in Nat
    BY LenProperties DEF LogOK
  <1>2. CASE \E chat \in Chats : Send(chat)
    BY <1>1, <1>2, SendGrows
  <1>3. CASE log' = log
    BY <1>1, <1>3 DEF LogOK
  <1>4. log' = log \/ \E chat \in Chats : Send(chat)
    BY DEF Next, vars, telegram, BotStep, Poll, Answered, NoAnswer, Ignore, Act,
           ActEnds, Decide, DecideEnds, HandlerFails, TruncateState, WriteState, Crash,
           Restart, RegisterReads, RegisterTruncates, RegisterWrites, Register,
           Close, OthersSave, CycleStarts, CycleChecks, CycleLoads,
           CycleSends, CycleEnters, CycleWrites, CycleDies, DraftLoads, DraftSaves, Handled
  <1> QED BY <1>2, <1>3, <1>4

\* The safety state and its calls keep their types.
LEMMA SafetyStep ==
  ASSUME SafetyTypeOK, [Next]_vars
  PROVE  SafetyTypeOK'
  <1>0. risk \in SafetyStates
    BY DEF SafetyTypeOK
  <1>1. CASE UNCHANGED safety
    BY <1>1 DEF SafetyTypeOK, safety
  <1>2. CASE Act
    <2>1. PICK s \in SafetyStates : Load("bot", <<s>>)
      BY <1>0, <1>2, CommandTyped DEF Act
    <2>2. <<s>> \in Seq(SafetyStates)
      OBVIOUS
    <2> QED BY <2>1, <2>2, LoadTyped, RemoteAssumption
  <1>3. CASE ActEnds
    BY <1>3, SaveTyped DEF ActEnds
  <1>4. CASE HandlerFails \/ Crash \/ CycleDies
    BY <1>4, AbandonTyped DEF HandlerFails, Crash, CycleDies
  <1>5. CASE \E pnl \in Pnls : Close(pnl)
    <2>1. PICK pnl \in Pnls : Load("watcher", CloseSaves(risk, pnl, Now))
      BY <1>5 DEF Close
    <2>2. CloseSaves(risk, pnl, Now) \in Seq(SafetyStates)
      BY <1>0, SavesTyped, RemoteAssumption
    <2> QED BY <2>1, <2>2, LoadTyped, RemoteAssumption
  <1>6. CASE \E c \in calls : c.by # "bot" /\ OthersSave(c)
    BY <1>6, SaveTyped DEF OthersSave
  <1>7. CASE CycleChecks
    <2>1. CheckSaves(risk, Now) \in Seq(SafetyStates)
      BY <1>0, SavesTyped
    <2> QED BY <1>7, <2>1, LoadTyped, RemoteAssumption DEF CycleChecks
  <1>9. CASE CycleStarts
    <2>1. RolloverSaves(risk, Now) \in Seq(SafetyStates)
      BY <1>0, SavesTyped
    <2> QED BY <1>9, <2>1, LoadTyped, RemoteAssumption DEF CycleStarts
  <1>8. \/ UNCHANGED safety \/ Act \/ ActEnds \/ HandlerFails \/ Crash
        \/ CycleStarts \/ CycleChecks \/ CycleDies
        \/ \E pnl \in Pnls : Close(pnl)
        \/ \E c \in calls : c.by # "bot" /\ OthersSave(c)
    BY DEF Next, vars, safety, BotStep, Poll, Answered, NoAnswer, Ignore, Decide, DecideEnds,
           TruncateState, WriteState, Restart, RegisterReads, RegisterTruncates,
           RegisterWrites, Register, Send, CycleLoads,
           CycleSends, CycleEnters, CycleWrites, DraftLoads, DraftSaves
  <1> QED BY <1>1, <1>2, <1>3, <1>4, <1>5, <1>6, <1>7, <1>8, <1>9

\* The offsets are numbers.
Numbers ==
  {confirmed, offset, next, register.offset, at, upto} \subseteq Nat

\* Max of the markers, as a case split.
LEMMA Markers ==
  ASSUME NEW a \in Nat, NEW b \in Nat
  PROVE  /\ Max({a, b}) \in {a, b} /\ Max({a, b}) >= a /\ Max({a, b}) >= b
BY MaxTwo

\* An answered poll takes the batch from the first update not confirmed.
LEMMA AnsweredBatch ==
  ASSUME Numbers, LogOK, Answered
  PROVE  /\ confirmed' \in {confirmed, next} /\ confirmed' >= confirmed /\ confirmed' >= next
         /\ at' \in {1, confirmed'} /\ at' >= 1 /\ at' >= confirmed'
         /\ \/ at' <= Len(log) /\ upto' = Len(log) /\ next' \in {next, Len(log) + 1}
               /\ next' >= Len(log) + 1
            \/ at' > Len(log) /\ upto' = 0 /\ next' = next
  <1>1. confirmed \in Nat /\ next \in Nat /\ Len(log) \in Nat
    BY LenProperties DEF Numbers, LogOK
  <1>2. confirmed' = Max({confirmed, next})
    BY DEF Answered
  <1>3. confirmed' \in {confirmed, next} /\ confirmed' >= confirmed /\ confirmed' >= next
    BY <1>1, <1>2, Markers
  <1>4. at' = Max({1, confirmed'}) /\ confirmed' \in Nat
    BY <1>1, <1>3 DEF Answered
  <1>5. at' \in {1, confirmed'} /\ at' >= 1 /\ at' >= confirmed'
    BY <1>4, Markers
  <1>6. CASE at' <= Len(log)
    <2>1. upto' = Len(log) /\ next' = Max({next, Len(log) + 1})
      BY <1>6 DEF Answered, After
    <2> QED BY <1>1, <1>3, <1>5, <1>6, <2>1, Markers
  <1>7. CASE ~(at' <= Len(log))
    BY <1>1, <1>3, <1>4, <1>5, <1>7 DEF Answered
  <1> QED BY <1>6, <1>7

\* An unanswered one may have been heard all the same.
LEMMA NoAnswerConfirms ==
  ASSUME Numbers, NoAnswer
  PROVE  confirmed' \in {confirmed, next} /\ confirmed' >= confirmed
BY Markers DEF Numbers, NoAnswer

\* What a run of --register holds and stores is an offset it has read, or none.
LEMMA RegisterMoves ==
  ASSUME register \in Registers, offset \in Nat,
         RegisterReads \/ RegisterTruncates \/ RegisterWrites
  PROVE  /\ register' \in Registers
         /\ register'.offset \in {offset, register.offset, 0}
         /\ offset' \in {offset, register.offset, 0}
         /\ register'.offset \in {offset, 0} \/ offset' = 0
         /\ clobbers' = IF offset' < offset THEN clobbers + 1 ELSE clobbers
  <1>1. CASE RegisterReads
    BY <1>1 DEF RegisterReads, Register, Registers
  <1>2. CASE RegisterTruncates
    BY <1>2 DEF RegisterTruncates, Register, Registers
  <1>3. CASE RegisterWrites
    <2> DEFINE idle == [register EXCEPT !.at = "idle"]
    <2>1. idle \in Registers
      BY DEF Registers
    <2>2. register' = [idle EXCEPT !.offset = 0]
      BY <1>3 DEF RegisterWrites, Registers
    <2> HIDE DEF idle
    <2>3. register' \in Registers /\ register'.offset = 0
      BY <2>1, <2>2 DEF Registers
    <2> QED BY <1>3, <2>3 DEF RegisterWrites, Register
  <1> QED BY <1>1, <1>2, <1>3

\* A batch's shape is kept by what the bot and the others do.
LEMMA ShapeStep ==
  ASSUME LogOK, Shape, upto \in 0 .. Len(log), register \in Registers, [Next]_vars
  PROVE  Shape' /\ upto' \in 0 .. Len(log')
  <1>1. /\ Len(log) \in Nat /\ Len(log') \in Nat /\ Len(log') >= Len(log)
    BY LogGrows
  <1>2. Numbers
    BY <1>1 DEF Numbers, Shape
  <1>3. CASE Poll
    BY <1>1, <1>3 DEF Poll, Shape, InBatch, telegram
  <1>4. CASE Answered
    <2>1. log' = log /\ offset' = offset /\ register' = register /\ stage' = "handling"
      BY <1>4 DEF Answered
    <2> QED BY <1>1, <1>2, <1>4, <2>1, AnsweredBatch DEF Shape, InBatch, Numbers
  <1>5. CASE NoAnswer
    <2>1. confirmed' \in {confirmed, next}
      BY <1>2, <1>5, NoAnswerConfirms
    <2> QED BY <1>1, <1>5, <2>1 DEF NoAnswer, Idle, Shape, InBatch
  <1>6. CASE Ignore \/ DecideEnds \/ HandlerFails \/ ActEnds
    <2>1. Handled /\ at <= upto /\ InBatch
      BY <1>6 DEF Ignore, DecideEnds, HandlerFails, ActEnds, Handling, Says, InBatch, Shape
    <2>2. log' = log
      BY <2>1 DEF Handled, telegram
    <2> QED BY <1>1, <2>1, <2>2 DEF Handled, Shape, InBatch, telegram
  <1>7. CASE Act \/ Decide
    BY <1>1, <1>7 DEF Act, Decide, Says, Handling, Shape, InBatch, telegram
  <1>8. CASE TruncateState
    BY <1>1, <1>8 DEF TruncateState, Shape, InBatch, telegram
  <1>9. CASE WriteState
    BY <1>1, <1>9 DEF WriteState, Idle, Shape, InBatch, telegram
  <1>10. CASE Crash
    BY <1>1, <1>10 DEF Crash, Shape, InBatch, telegram
  <1>11. CASE Restart
    BY <1>1, <1>11 DEF Restart, Idle, Shape, InBatch, telegram
  <1>12. CASE RegisterReads \/ RegisterTruncates \/ RegisterWrites
    <2>1. UNCHANGED <<log, confirmed, stage, next, at, upto>>
      BY <1>12 DEF RegisterReads, RegisterTruncates, RegisterWrites, Register, telegram, bot
    <2>2. /\ register'.offset \in {offset, register.offset, 0}
          /\ offset' \in {offset, register.offset, 0}
      BY <1>2, <1>12, RegisterMoves DEF Numbers
    <2> QED BY <1>1, <2>1, <2>2 DEF Shape, InBatch
  <1>13. CASE UNCHANGED <<confirmed, offset, bot, register>>
    <2>1. \A i \in 1 .. Len(log) : log'[i] = log[i]
      BY LogGrows
    <2> QED BY <1>1, <1>13, <2>1 DEF bot, Shape, InBatch
  <1>14. \/ Poll \/ Answered \/ NoAnswer \/ Ignore \/ Act \/ ActEnds \/ Decide
         \/ DecideEnds
         \/ HandlerFails \/ TruncateState \/ WriteState \/ Crash \/ Restart
         \/ RegisterReads \/ RegisterTruncates \/ RegisterWrites
         \/ UNCHANGED <<confirmed, offset, bot, register>>
    BY DEF Next, vars, telegram, BotStep, Send, Close, OthersSave, CycleStarts, CycleChecks, CycleLoads,
           CycleSends, CycleEnters, CycleWrites, CycleDies, DraftLoads, DraftSaves
  <1> QED BY <1>3, <1>4, <1>5, <1>6, <1>7, <1>8, <1>9, <1>10, <1>11, <1>12, <1>13, <1>14

\* The messages all have a number in Updates.
LEMMA LogFits ==
  ASSUME LogOK
  PROVE  Len(log) \in 0 .. MaxMessages
  <1>1. PICK chat \in Chats : IsPrefix(log, chat)
    BY DEF LogOK
  <1>2. Len(log) <= Len(chat)
    BY <1>1 DEF IsPrefix
  <1>3. Len(log) \in Nat
    BY LenProperties DEF LogOK
  <1> QED BY <1>2, <1>3, LongestChat

\* Whoever acts for the bot is the bot's own call; the others never end it.
LEMMA BotCallStays ==
  ASSUME SafetyTypeOK, [Next]_vars, stage' = "acting"
  PROVE  \/ Act
         \/ stage = "acting" /\ \A c \in calls : c.by = "bot" => c \in calls'
  <1>1. CASE UNCHANGED safety /\ UNCHANGED stage
    BY <1>1 DEF safety
  <1>2. CASE \E pnl \in Pnls : Close(pnl)
    BY <1>2 DEF Close, Load, bot
  <1>3. CASE \E c \in calls : c.by # "bot" /\ OthersSave(c)
    BY <1>3 DEF OthersSave, Save, bot
  <1>4. CASE CycleStarts \/ CycleChecks
    BY <1>4 DEF CycleStarts, CycleChecks, Load, bot
  <1>6. CASE CycleDies
    BY <1>6 DEF CycleDies, Abandon, bot
  <1>5. \/ UNCHANGED safety /\ UNCHANGED stage
        \/ Act \/ CycleStarts \/ CycleChecks \/ CycleDies
        \/ \E pnl \in Pnls : Close(pnl)
        \/ \E c \in calls : c.by # "bot" /\ OthersSave(c)
    BY DEF Next, vars, safety, BotStep, Poll, Answered, NoAnswer, Idle, Ignore, ActEnds,
           Decide, DecideEnds, HandlerFails, Handled, TruncateState, WriteState, Crash, Restart,
           RegisterReads, RegisterTruncates, RegisterWrites, Register, Send,
           CycleLoads,
           CycleSends, CycleEnters, CycleWrites, DraftLoads, DraftSaves, bot
  <1> QED BY <1>1, <1>2, <1>3, <1>4, <1>5, <1>6

\* An act puts the bot's call on its way.
LEMMA ActCalls ==
  ASSUME risk \in SafetyStates, Act
  PROVE  /\ \E c \in calls' : c.by = "bot"
         /\ \A c \in calls' : c.by = "bot" =>
              /\ c.todo \in Seq(SafetyStates) /\ Len(c.todo) = 1
              /\ Head(c.todo).paused <=> log[at].command = "pause"
  <1>1. PICK s \in SafetyStates : /\ Load("bot", <<s>>)
                                  /\ s.paused <=> log[at].command = "pause"
    <2>1. CASE Says("pause") /\ Load("bot", <<Pause(risk, "manual", FALSE, 0, Now)>>)
      BY <2>1, CommandTyped DEF Says
    <2>2. CASE Says("resume") /\ Load("bot", <<Resume(risk)>>)
      BY <2>2, CommandTyped DEF Says
    <2> QED BY <2>1, <2>2 DEF Act
  <1> DEFINE new == [by |-> "bot", base |-> risk, todo |-> <<s>>]
  <1>2. calls' = calls \cup {new} /\ \A c \in calls : c.by # "bot"
    BY <1>1 DEF Load, Free
  <1>3. new.by = "bot" /\ new.todo = <<s>>
    OBVIOUS
  <1> HIDE DEF new
  <1>4. <<s>> \in Seq(SafetyStates) /\ Len(<<s>>) = 1 /\ Head(<<s>>) = s
    OBVIOUS
  <1> QED BY <1>1, <1>2, <1>3, <1>4

\* The other types.
LEMMA RestStep ==
  ASSUME IInv, [Next]_vars
  PROVE  Rest'
  <1> USE DEF IInv
  <1>1. upto' \in 0 .. Len(log')
    BY ShapeStep DEF Rest
  <1>2. stage' = "acting" => \E c \in calls' : c.by = "bot"
    <2> SUFFICES ASSUME stage' = "acting" PROVE \E c \in calls' : c.by = "bot"
      OBVIOUS
    <2>1. CASE Act
      BY <2>1, ActCalls DEF SafetyTypeOK
    <2>2. CASE stage = "acting" /\ \A c \in calls : c.by = "bot" => c \in calls'
      BY <2>2 DEF Rest
    <2> QED BY <2>1, <2>2, BotCallStays
  <1>3. register' \in Registers
    <2>1. CASE RegisterReads \/ RegisterTruncates \/ RegisterWrites
      <3>1. offset \in Nat
        BY LogGrows DEF Shape
      <3> QED BY <2>1, <3>1, RegisterMoves DEF Rest
    <2>2. CASE register' = register
      BY <2>2 DEF Rest
    <2>3. register' = register \/ RegisterReads \/ RegisterTruncates \/ RegisterWrites
      BY DEF Next, vars, queue, BotStep, Poll, Answered, NoAnswer, Ignore, Act, ActEnds,
             Decide, DecideEnds, HandlerFails, Handled, TruncateState, WriteState, Crash, Restart,
             Send, Close, OthersSave, CycleStarts, CycleChecks, CycleLoads,
           CycleSends, CycleEnters, CycleWrites, CycleDies, DraftLoads, DraftSaves
    <2> QED BY <2>1, <2>2, <2>3
  <1>4. handled' \subseteq Updates
    <2>1. CASE handled' = handled \cup {at} /\ at \in 1 .. Len(log)
      BY <2>1, LogFits, LongestChat DEF Rest, Updates
    <2>2. CASE handled' = handled
      BY <2>2 DEF Rest
    <2>3. handled' = handled \/ (handled' = handled \cup {at} /\ InBatch /\ at <= upto)
      BY DEF Next, vars, history, queue, BotStep, Poll, Answered, NoAnswer, Ignore, Act, ActEnds,
             Decide, DecideEnds, HandlerFails, Handled, TruncateState, WriteState, Crash, Restart,
             RegisterReads, RegisterTruncates, RegisterWrites, Register,
             Send, Close, OthersSave, CycleStarts, CycleChecks, CycleLoads,
           CycleSends, CycleEnters, CycleWrites, CycleDies, DraftLoads, DraftSaves, Handling, Says,
             InBatch, Shape
    <2>4. InBatch /\ at <= upto => at \in 1 .. Len(log)
      BY LogGrows DEF Shape, Rest
    <2> QED BY <2>1, <2>2, <2>3, <2>4
  <1>5. {fires', closes', crashes', errors', clobbers', kills', revivals'} \subseteq Nat
    <2>1. /\ fires \in Nat /\ closes \in Nat /\ crashes \in Nat
          /\ errors \in Nat /\ clobbers \in Nat /\ kills \in Nat /\ revivals \in Nat
      BY DEF Rest
    <2>4. kills' \in {kills, kills + 1} /\ revivals' \in {revivals, revivals + 1}
      BY DEF Next, vars, history, queue, BotStep, Poll, Answered, NoAnswer, Ignore, Act,
             ActEnds, Decide, DecideEnds, HandlerFails, Handled, TruncateState, WriteState, Crash,
             Restart, RegisterReads, RegisterTruncates, RegisterWrites, Register,
             Send, Close, OthersSave, CycleStarts, CycleChecks, CycleLoads,
           CycleSends, CycleEnters, CycleWrites, CycleDies, DraftLoads, DraftSaves
    <2>2. /\ fires' \in {fires, fires + 1} /\ closes' \in {closes, closes + 1}
          /\ crashes' \in {crashes, crashes + 1} /\ errors' \in {errors, errors + 1}
      BY DEF Next, vars, history, queue, BotStep, Poll, Answered, NoAnswer, Ignore, Act,
             ActEnds, Decide, DecideEnds, HandlerFails, Handled, TruncateState, WriteState, Crash,
             Restart, RegisterReads, RegisterTruncates, RegisterWrites, Register,
             Send, Close, OthersSave, CycleStarts, CycleChecks, CycleLoads,
           CycleSends, CycleEnters, CycleWrites, CycleDies, DraftLoads, DraftSaves
    <2>3. clobbers' \in {clobbers, clobbers + 1}
      BY DEF Next, vars, history, queue, BotStep, Poll, Answered, NoAnswer, Ignore, Act,
             ActEnds, Decide, DecideEnds, HandlerFails, Handled, TruncateState, WriteState, Crash,
             Restart, RegisterReads, RegisterTruncates, RegisterWrites, Register,
             Send, Close, OthersSave, CycleStarts, CycleChecks, CycleLoads,
           CycleSends, CycleEnters, CycleWrites, CycleDies, DraftLoads, DraftSaves
    <2> QED BY <2>1, <2>2, <2>3, <2>4
  <1>6. stage' \in Stages
    BY DEF Rest, Stages, Next, vars, bot, BotStep, Poll, Answered, NoAnswer, Idle, Ignore, Act,
           ActEnds, Decide, DecideEnds, HandlerFails, Handled, TruncateState, WriteState, Crash,
           Restart, RegisterReads, RegisterTruncates, RegisterWrites, Register,
           Send, Close, OthersSave, CycleStarts, CycleChecks, CycleLoads,
           CycleSends, CycleEnters, CycleWrites, CycleDies, DraftLoads, DraftSaves
  <1>7. /\ entry' \in Statuses /\ draft' \in Statuses \cup {"none"}
        /\ cycle' \in CycleStages
        /\ word' \in {"own", "rules", "stale"}
    BY DEF Rest, Statuses, CycleStages, queue, history, Next, vars, BotStep, Poll, Answered, NoAnswer, Ignore, Act,
           ActEnds, Decide, DecideEnds, HandlerFails, Handled, TruncateState, WriteState, Crash,
           Restart, RegisterReads, RegisterTruncates, RegisterWrites, Register,
           Send, Close, OthersSave, CycleStarts, CycleChecks, CycleLoads,
           CycleSends, CycleEnters, CycleWrites, CycleDies, DraftLoads, DraftSaves
  <1> QED BY <1>1, <1>2, <1>3, <1>4, <1>5, <1>6, <1>7 DEF Rest

\* The typing invariant is inductive,
LEMMA TypedStep ==
  IInv /\ [Next]_vars => IInv'
  <1> SUFFICES ASSUME IInv, [Next]_vars PROVE IInv'
    OBVIOUS
  <1>1. SafetyTypeOK' /\ LogOK' /\ Shape'
    BY SafetyStep, LogGrows, ShapeStep DEF IInv, Rest
  <1> QED BY <1>1, RestStep DEF IInv

\* holds at first,
LEMMA TypedInit ==
  Init => IInv
  <1> SUFFICES ASSUME Init PROVE IInv
    OBVIOUS
  <1>1. SafetyTypeOK
    BY FreshTyped DEF Init, SafetyInit, SafetyTypeOK
  <1>2. LogOK
    <2>1. PICK chat \in Chats : TRUE
      BY RemoteAssumption
    <2>2. <<>> \in Seq(Messages) /\ chat \in Seq(Messages) /\ Len(<<>>) = 0
      BY RemoteAssumption, EmptySeq
    <2>3. Len(<<>>) <= Len(chat) /\ \A i \in 1 .. Len(<<>>) : <<>>[i] = chat[i]
      <3>1. Len(chat) \in Nat
        BY <2>2, LenProperties
      <3> QED BY <2>2, <3>1
    <2>4. IsPrefix(<<>>, chat)
      BY <2>2, <2>3, PrefixPointwise, Zenon
    <2> QED BY <2>2, <2>4 DEF Init, LogOK
  <1>3. Len(log) = 0
    BY EmptySeq DEF Init
  <1>4. register.offset = 0 /\ register \in Registers
    BY DEF Init, Registers
  <1>5. Shape
    BY <1>3, <1>4 DEF Init, Shape, InBatch
  <1>6. Rest
    BY <1>3, <1>4 DEF Init, Rest, Stages, Statuses, CycleStages
  <1> QED BY <1>1, <1>2, <1>5, <1>6 DEF IInv

\* and gives the types.
LEMMA TypedGives ==
  IInv => TypeOK
  <1> SUFFICES ASSUME IInv PROVE TypeOK
    OBVIOUS
  <1>1. Len(log) \in 0 .. MaxMessages /\ MaxMessages \in Nat
    BY LogFits, LongestChat DEF IInv
  <1>2. {confirmed, offset, next, register.offset, at} \subseteq Offsets
    BY <1>1 DEF IInv, Shape, Offsets
  <1>3. InBatch => upto = 0 \/ at <= upto + 1
    BY DEF IInv, Shape
  <1>4. register.at \in {"idle", "read", "writing"}
    BY DEF IInv, Rest, Registers
  <1> QED BY <1>2, <1>3, <1>4 DEF IInv, Rest, LogOK, TypeOK, InBatch, Offsets

\* Every variable of RemoteControl keeps its type, and a batch its bounds.
THEOREM RemoteTyped == Spec => []TypeOK
  <1>1. Spec => []IInv
    BY TypedInit, TypedStep, PTL DEF Spec
  <1> QED BY <1>1, TypedGives, PTL

-----------------------------------------------------------------------------
(* No command is skipped. *)

\* Updates are numbers.
LEMMA UpdatesAreNumbers == \A i \in Updates : i \in Nat /\ i >= 1
BY LongestChat DEF Updates

\* Nothing handled is forgotten.
LEMMA HandledGrows ==
  ASSUME [Next]_vars
  PROVE  handled \subseteq handled'
BY DEF Next, vars, history, queue, BotStep, Poll, Answered, NoAnswer, Ignore, Act, ActEnds,
       Decide, DecideEnds, HandlerFails, Handled, TruncateState, WriteState, Crash, Restart,
       RegisterReads, RegisterTruncates, RegisterWrites, Register,
       Send, Close, OthersSave, CycleStarts, CycleChecks, CycleLoads,
           CycleSends, CycleEnters, CycleWrites, CycleDies, DraftLoads, DraftSaves

\* Below every marker everything has been handled, whatever the step.
LEMMA SkipStep ==
  IInv /\ SkipInv /\ [Next]_vars => SkipInv'
  <1> SUFFICES ASSUME IInv, SkipInv, [Next]_vars PROVE SkipInv'
    OBVIOUS
  <1> USE HandledGrows, UpdatesAreNumbers DEF SkipInv, Done, InBatch
  <1>1. Numbers /\ Len(log) \in Nat /\ Len(log') \in Nat
    BY LogGrows DEF IInv, Shape, Rest, Numbers
  <1>2. CASE Poll
    BY <1>2 DEF Poll, telegram
  <1>3. CASE Answered
    <2>1. /\ stage = "polling" /\ stage' = "handling"
          /\ UNCHANGED <<offset, register>>
      BY <1>3 DEF Answered
    <2>2. confirmed' \in {confirmed, next} /\ at' \in {1, confirmed'}
      BY <1>1, <1>3, AnsweredBatch DEF IInv
    <2> QED BY <2>1, <2>2
  <1>4. CASE NoAnswer
    <2>1. confirmed' \in {confirmed, next}
      BY <1>1, <1>4, NoAnswerConfirms
    <2> QED BY <1>4, <2>1 DEF NoAnswer, Idle
  <1>5. CASE Ignore \/ DecideEnds \/ HandlerFails \/ ActEnds
    <2>1. Handled /\ InBatch
      BY <1>5 DEF Ignore, DecideEnds, HandlerFails, ActEnds, Handling, Says
    <2>2. /\ UNCHANGED <<confirmed, offset, register>> /\ stage' = "handling"
          /\ at' = at + 1 /\ handled' = handled \cup {at}
      BY <2>1 DEF Handled, telegram
    <2>3. \A i \in Updates : i < at + 1 => i < at \/ i = at
      BY <1>1 DEF Numbers
    <2> QED BY <2>1, <2>2, <2>3
  <1>6. CASE Act \/ Decide
    BY <1>6 DEF Act, Decide, Says, Handling, telegram
  <1>7. CASE TruncateState
    <2>1. next <= at
      BY <1>1, <1>7 DEF IInv, Shape, TruncateState, Numbers
    <2>2. \A i \in Updates : i < next => i < at
      BY <1>1, <2>1 DEF Numbers
    <2> QED BY <1>7, <2>2 DEF TruncateState, telegram
  <1>8. CASE WriteState
    BY <1>8 DEF WriteState, Idle, telegram
  <1>9. CASE Crash
    BY <1>9 DEF Crash, telegram
  <1>10. CASE Restart
    BY <1>10 DEF Restart, Idle, telegram
  <1>11. CASE RegisterReads \/ RegisterTruncates \/ RegisterWrites
    <2>1. UNCHANGED <<confirmed, stage, next, at>>
      BY <1>11 DEF RegisterReads, RegisterTruncates, RegisterWrites, Register, telegram, bot
    <2>2. /\ register'.offset \in {offset, register.offset, 0}
          /\ offset' \in {offset, register.offset, 0}
      BY <1>1, <1>11, RegisterMoves DEF IInv, Rest, Numbers
    <2> QED BY <2>1, <2>2
  <1>12. CASE UNCHANGED <<confirmed, offset, bot, register>>
    BY <1>12 DEF bot
  <1>13. \/ Poll \/ Answered \/ NoAnswer \/ Ignore \/ Act \/ ActEnds \/ Decide
         \/ DecideEnds
         \/ HandlerFails \/ TruncateState \/ WriteState \/ Crash \/ Restart
         \/ RegisterReads \/ RegisterTruncates \/ RegisterWrites
         \/ UNCHANGED <<confirmed, offset, bot, register>>
    BY DEF Next, vars, telegram, BotStep, Send, Close, OthersSave, CycleStarts, CycleChecks, CycleLoads,
           CycleSends, CycleEnters, CycleWrites, CycleDies, DraftLoads, DraftSaves
  <1> QED BY <1>2, <1>3, <1>4, <1>5, <1>6, <1>7, <1>8, <1>9, <1>10, <1>11, <1>12, <1>13

\* A command is never confirmed, nor skipped by the stored offset, before it was
\* handled.
THEOREM NoCommandSkipped == Spec => []NoneSkipped
  <1>1. Init => SkipInv
    BY UpdatesAreNumbers DEF Init, SkipInv, Done, InBatch
  <1>2. Spec => [](IInv /\ SkipInv)
    BY TypedInit, TypedStep, <1>1, SkipStep, PTL DEF Spec
  <1>3. SkipInv => NoneSkipped
    BY DEF SkipInv, Done, NoneSkipped
  <1> QED BY <1>2, <1>3, PTL

-----------------------------------------------------------------------------
(* One order per approval. *)

Approvals == {i \in 1 .. Len(log) : log[i].from = "owner" /\ log[i].command = "approve"}

\* Update i lies behind the bot: it is handed out again only if the bot dies or
\* the stored offset goes back.
Passed(i) ==
  \/ i < confirmed
  \/ InBatch /\ i < at
  \/ stage = "polling" /\ i < next /\ i < offset
  \/ stage = "writing" /\ i < next
  \/ stage \in {"idle", "down"} /\ i < offset

PassedApprovals == {i \in Approvals : Passed(i)}

\* An order that is still to come: from the cycle that has loaded the approval,
\* or from the next one.
Granted ==
  IF cycle = "loaded" \/ (cycle \notin {"sent", "writing"} /\ entry = "approved")
  THEN 1 ELSE 0

\* Each of the bot's accidents lets every approval count once more, those behind
\* the bot once, and each accident of the queue costs one order.
FireInv ==
  fires + Granted
    <= Cardinality(Approvals) * (crashes + clobbers) + Cardinality(PassedApprovals)
       + (kills + revivals)

\* Without an accident nothing comes back.
LEMMA PassedStays ==
  ASSUME IInv, [Next]_vars, crashes' = crashes, clobbers' = clobbers,
         NEW i \in Nat, i >= 1, Passed(i)
  PROVE  Passed(i)'
  <1> USE DEF Passed, InBatch
  <1>1. Numbers /\ Len(log) \in Nat /\ Len(log') \in Nat
    BY LogGrows DEF IInv, Shape, Rest, Numbers
  <1>2. clobbers \in Nat /\ crashes \in Nat
    BY DEF IInv, Rest
  <1>3. CASE Poll
    BY <1>3 DEF Poll, telegram
  <1>4. CASE Answered
    <2>1. stage = "polling" /\ stage' = "handling"
      BY <1>4 DEF Answered
    <2>2. confirmed' >= confirmed /\ confirmed' >= next /\ confirmed' \in Nat
      BY <1>1, <1>4, AnsweredBatch DEF IInv, Numbers
    <2> QED BY <1>1, <2>1, <2>2 DEF Numbers
  <1>5. CASE NoAnswer
    <2>1. confirmed' >= confirmed /\ confirmed' \in Nat
      BY <1>1, <1>5, NoAnswerConfirms DEF Numbers
    <2> QED BY <1>1, <1>5, <2>1 DEF NoAnswer, Idle, Numbers
  <1>6. CASE Ignore \/ DecideEnds \/ HandlerFails \/ ActEnds
    <2>1. Handled /\ InBatch
      BY <1>6 DEF Ignore, DecideEnds, HandlerFails, ActEnds, Handling, Says
    <2> QED BY <1>1, <2>1 DEF Handled, telegram, Numbers
  <1>7. CASE Act \/ Decide
    BY <1>7 DEF Act, Decide, Says, Handling, telegram
  <1>8. CASE TruncateState
    <2>1. i < at => i < next \/ i < confirmed
      BY <1>1, <1>8 DEF IInv, Shape, TruncateState, Numbers
    <2> QED BY <1>8, <2>1 DEF TruncateState, telegram
  <1>9. CASE WriteState
    BY <1>1, <1>2, <1>9 DEF WriteState, Idle, telegram, Numbers
  <1>10. CASE Crash
    BY <1>2, <1>10 DEF Crash
  <1>11. CASE Restart
    BY <1>11 DEF Restart, Idle, telegram
  <1>12. CASE RegisterReads \/ RegisterTruncates \/ RegisterWrites
    <2>1. UNCHANGED <<confirmed, stage, next, at>>
      BY <1>12 DEF RegisterReads, RegisterTruncates, RegisterWrites, Register, telegram, bot
    <2>2. offset' \in Nat /\ offset' >= offset
      BY <1>1, <1>2, <1>12, RegisterMoves DEF IInv, Rest, Numbers
    <2> QED BY <1>1, <2>1, <2>2 DEF Numbers
  <1>13. CASE UNCHANGED <<confirmed, offset, bot, register>>
    BY <1>13 DEF bot
  <1>14. \/ Poll \/ Answered \/ NoAnswer \/ Ignore \/ Act \/ ActEnds \/ Decide
         \/ DecideEnds
         \/ HandlerFails \/ TruncateState \/ WriteState \/ Crash \/ Restart
         \/ RegisterReads \/ RegisterTruncates \/ RegisterWrites
         \/ UNCHANGED <<confirmed, offset, bot, register>>
    BY DEF Next, vars, telegram, BotStep, Send, Close, OthersSave, CycleStarts, CycleChecks, CycleLoads,
           CycleSends, CycleEnters, CycleWrites, CycleDies, DraftLoads, DraftSaves
  <1> QED BY <1>3, <1>4, <1>5, <1>6, <1>7, <1>8, <1>9, <1>10, <1>11, <1>12, <1>13, <1>14

\* Accidents are counted.
LEMMA AccidentsCount ==
  ASSUME IInv, [Next]_vars
  PROVE  /\ crashes + clobbers \in Nat /\ crashes' + clobbers' \in Nat
         /\ \/ crashes' = crashes /\ clobbers' = clobbers
            \/ crashes' + clobbers' >= crashes + clobbers + 1
  <1>1. crashes \in Nat /\ clobbers \in Nat
    BY DEF IInv, Rest
  <1>2. crashes' \in {crashes, crashes + 1}
    BY DEF Next, vars, history, queue, BotStep, Poll, Answered, NoAnswer, Ignore, Act, ActEnds,
       Decide, DecideEnds, HandlerFails, Handled, TruncateState, WriteState, Crash, Restart,
       RegisterReads, RegisterTruncates, RegisterWrites, Register,
       Send, Close, OthersSave, CycleStarts, CycleChecks, CycleLoads,
           CycleSends, CycleEnters, CycleWrites, CycleDies, DraftLoads, DraftSaves
  <1>3. clobbers' \in {clobbers, clobbers + 1}
    BY DEF Next, vars, history, queue, BotStep, Poll, Answered, NoAnswer, Ignore, Act, ActEnds,
       Decide, DecideEnds, HandlerFails, Handled, TruncateState, WriteState, Crash, Restart,
       RegisterReads, RegisterTruncates, RegisterWrites, Register,
       Send, Close, OthersSave, CycleStarts, CycleChecks, CycleLoads,
           CycleSends, CycleEnters, CycleWrites, CycleDies, DraftLoads, DraftSaves
  <1>5. CASE crashes' = crashes /\ clobbers' = clobbers
    BY <1>1, <1>5
  <1>6. CASE crashes' = crashes + 1 /\ clobbers' = clobbers
    BY <1>1, <1>6
  <1>7. CASE crashes' = crashes /\ clobbers' = clobbers + 1
    BY <1>1, <1>7
  <1>8. CASE crashes' = crashes + 1 /\ clobbers' = clobbers + 1
    BY <1>1, <1>8
  <1> QED BY <1>2, <1>3, <1>5, <1>6, <1>7, <1>8

\* The approvals sent are finitely many and stay.
LEMMA ApprovalsStay ==
  ASSUME IInv, [Next]_vars
  PROVE  /\ IsFiniteSet(Approvals) /\ Cardinality(Approvals) \in Nat
         /\ IsFiniteSet(Approvals') /\ Cardinality(Approvals') \in Nat
         /\ Approvals \subseteq Approvals' /\ Cardinality(Approvals) <= Cardinality(Approvals')
  <1>1. /\ Len(log) \in Nat /\ Len(log') \in Nat /\ Len(log') >= Len(log)
        /\ \A i \in 1 .. Len(log) : log'[i] = log[i]
    BY LogGrows DEF IInv
  <1>2. IsFiniteSet(1 .. Len(log)) /\ IsFiniteSet(1 .. Len(log'))
    BY <1>1, FS_Interval
  <1>3. Approvals \in SUBSET (1 .. Len(log)) /\ Approvals' \in SUBSET (1 .. Len(log'))
    BY DEF Approvals
  <1>4. IsFiniteSet(Approvals) /\ IsFiniteSet(Approvals')
    BY <1>2, <1>3, FS_Subset
  <1>5. Approvals \subseteq Approvals'
    BY <1>1 DEF Approvals
  <1>6. Cardinality(Approvals) <= Cardinality(Approvals')
    BY <1>4, <1>5, FS_Subset
  <1> QED BY <1>4, <1>5, <1>6, FS_CardinalityType

\* One more accident pays for all approvals that lie behind the bot.
LEMMA Allowance ==
  ASSUME NEW a \in Nat, NEW b \in Nat, NEW k \in Nat, NEW m \in Nat, a <= b
  PROVE  /\ a * k \in Nat /\ b * m \in Nat
         /\ k <= m => a * k <= b * m
         /\ k + 1 <= m => a * k + a <= b * m
  <1>1. a * k \in Nat /\ b * m \in Nat /\ a * m \in Nat
    OBVIOUS
  <1>2. a * m <= b * m
    <2>1. PICK d \in Nat : b = a + d
      <3>1. b - a \in Nat /\ b = a + (b - a)
        OBVIOUS
      <3> QED BY <3>1
    <2>2. b * m = a * m + d * m /\ d * m \in Nat
      BY <2>1
    <2> QED BY <1>1, <2>2
  <1>3. ASSUME k <= m PROVE a * k <= a * m
    <2>1. PICK d \in Nat : m = k + d
      <3>1. m - k \in Nat /\ m = k + (m - k)
        BY <1>3
      <3> QED BY <3>1
    <2>2. a * m = a * k + a * d /\ a * d \in Nat
      BY <2>1
    <2> QED BY <1>1, <2>2
  <1>4. ASSUME k + 1 <= m PROVE a * k + a <= a * m
    <2>1. PICK d \in Nat : m = k + 1 + d
      <3>1. m - (k + 1) \in Nat /\ m = k + 1 + (m - (k + 1))
        BY <1>4
      <3> QED BY <3>1
    <2>2. a * m = a * k + a + a * d /\ a * d \in Nat
      BY <2>1
    <2> QED BY <1>1, <2>2
  <1> QED BY <1>1, <1>2, <1>3, <1>4

\* Orders and grants move only by an order, which uses a grant up, by an /approve,
\* which the bot leaves behind, and by an accident of the queue.
LEMMA GrantsMove ==
  ASSUME IInv, [Next]_vars
  PROVE  /\ fires + Granted \in Nat /\ fires' + Granted' \in Nat
         /\ kills + revivals \in Nat /\ kills' + revivals' \in Nat
         /\ kills' + revivals' >= kills + revivals
         /\ \/ fires' + Granted' <= fires + Granted
            \/ /\ fires' + Granted' <= fires + Granted + 1
               /\ crashes' = crashes /\ clobbers' = clobbers
               /\ \E i \in Nat : i \in Approvals' /\ ~Passed(i) /\ Passed(i)'
            \/ /\ fires' + Granted' <= fires + Granted + 1
               /\ crashes' = crashes /\ clobbers' = clobbers
               /\ kills' + revivals' = kills + revivals + 1
  <1>a. PICK g \in {0, 1} : g = Granted
    BY DEF Granted
  <1>b. PICK h \in {0, 1} : h = Granted'
    BY DEF Granted
  <1>1. /\ fires \in Nat /\ kills \in Nat /\ revivals \in Nat
        /\ Granted = g /\ Granted' = h
    BY <1>a, <1>b DEF IInv, Rest
  <1>2. CASE CycleSends
    <2>1. Granted = 1 /\ Granted' = 0 /\ fires' = fires + 1 /\ UNCHANGED <<kills, revivals>>
      BY <1>2 DEF CycleSends, Granted
    <2> QED BY <1>1, <2>1
  <1>3. CASE DecideEnds
    <2>1. Handled /\ stage = "deciding"
      BY <1>3 DEF DecideEnds
    <2>2. fires' = fires /\ crashes' = crashes /\ clobbers' = clobbers /\ log' = log
          /\ stage' = "handling" /\ at' = at + 1 /\ UNCHANGED <<cycle, kills, revivals>>
      BY <2>1 DEF Handled, telegram
    <2>3. CASE log[at].command = "approve"
      <3>1. /\ at \in 1 .. Len(log) /\ confirmed <= at /\ at \in Nat /\ confirmed \in Nat
            /\ log[at].from = "owner"
        BY <2>1, LogGrows DEF IInv, Shape, Rest, InBatch
      <3>2. at \in Approvals'
        BY <2>2, <2>3, <3>1 DEF Approvals
      <3>3. PICK i \in Nat : i = at
        BY <3>1
      <3>4. ~Passed(i) /\ Passed(i)'
        BY <2>1, <2>2, <3>1, <3>3 DEF Passed, InBatch
      <3>5. \E j \in Nat : j \in Approvals' /\ ~Passed(j) /\ Passed(j)'
        BY <3>2, <3>3, <3>4
      <3>6. fires + Granted \in Nat /\ fires' + Granted' \in Nat
            /\ fires' + Granted' <= fires + Granted + 1
        BY <1>1, <2>2
      <3> QED BY <1>1, <2>2, <3>5, <3>6
    <2>4. CASE log[at].command # "approve"
      <3>1. h <= g
        BY <1>1, <1>3, <2>2, <2>4 DEF DecideEnds, Granted
      <3> QED BY <1>1, <2>2, <3>1
    <2> QED BY <2>3, <2>4
  <1>4. CASE CycleDies
    <2>1. fires' = fires /\ UNCHANGED <<crashes, clobbers, revivals>>
      BY <1>4 DEF CycleDies
    <2>2. CASE cycle \in {"sent", "writing"}
      <3>1. kills' = kills + 1
        BY <1>4, <2>2 DEF CycleDies
      <3> QED BY <1>1, <2>1, <3>1
    <2>3. CASE cycle \notin {"sent", "writing"}
      <3>1. h <= g /\ kills' = kills
        BY <1>1, <1>4, <2>3 DEF CycleDies, Granted
      <3> QED BY <1>1, <2>1, <3>1
    <2> QED BY <2>2, <2>3
  <1>5. CASE DraftSaves
    <2>1. fires' = fires /\ UNCHANGED <<crashes, clobbers, kills, cycle>>
      BY <1>5 DEF DraftSaves
    <2>2. CASE draft = "approved" /\ entry # "approved"
      <3>1. revivals' = revivals + 1
        BY <1>5, <2>2 DEF DraftSaves
      <3> QED BY <1>1, <2>1, <3>1
    <2>3. CASE ~(draft = "approved" /\ entry # "approved")
      <3>1. h <= g /\ revivals' = revivals
        BY <1>1, <1>5, <2>1, <2>3 DEF DraftSaves, Granted
      <3> QED BY <1>1, <2>1, <3>1
    <2> QED BY <2>2, <2>3
  <1>6. CASE CycleStarts \/ CycleChecks \/ CycleLoads \/ CycleEnters \/ CycleWrites
    <2>1. UNCHANGED <<fires, kills, revivals>>
      BY <1>6 DEF CycleStarts, CycleChecks, CycleLoads, CycleEnters, CycleWrites, history
    <2>2. h <= g
      <3>1. CASE CycleStarts \/ CycleChecks
        <4>1. /\ entry' = entry
              /\ cycle \in {"idle", "rolled"} /\ cycle' \in {"idle", "rolled", "gated"}
          BY <3>1 DEF CycleStarts, CycleChecks
        <4>2. Granted' = Granted
          BY <4>1 DEF Granted
        <4> QED BY <1>1, <4>2
      <3>2. CASE CycleLoads
        BY <1>1, <3>2 DEF CycleLoads, Granted
      <3>3. CASE CycleEnters
        BY <1>1, <3>3 DEF CycleEnters, Granted
      <3>4. CASE CycleWrites
        BY <1>1, <3>4 DEF CycleWrites, Granted
      <3> QED BY <1>6, <3>1, <3>2, <3>3, <3>4
    <2> QED BY <1>1, <2>1, <2>2
  <1>7. CASE UNCHANGED <<fires, entry, cycle, kills, revivals>>
    BY <1>1, <1>7 DEF Granted
  <1>8. \/ UNCHANGED <<fires, entry, cycle, kills, revivals>>
        \/ CycleSends \/ DecideEnds \/ CycleDies \/ DraftSaves
        \/ CycleStarts \/ CycleChecks \/ CycleLoads \/ CycleEnters \/ CycleWrites
    BY DEF Next, vars, history, queue, BotStep, Poll, Answered, NoAnswer, Ignore, Act,
           ActEnds, Decide, HandlerFails, Handled, TruncateState, WriteState, Crash,
           Restart, RegisterReads, RegisterTruncates, RegisterWrites, Register,
           Send, Close, OthersSave, DraftLoads
  <1> QED BY <1>2, <1>3, <1>4, <1>5, <1>6, <1>7, <1>8

\* The account of the orders balances after every step.
LEMMA FireStep ==
  IInv /\ FireInv /\ [Next]_vars => FireInv'
  <1> SUFFICES ASSUME IInv, FireInv, [Next]_vars PROVE FireInv'
    OBVIOUS
  <1> DEFINE a == Cardinality(Approvals)
             k == crashes + clobbers
             p == Cardinality(PassedApprovals)
             x == kills + revivals
  <1>1. a \in Nat /\ a' \in Nat /\ a <= a' /\ k \in Nat /\ k' \in Nat
    BY ApprovalsStay, AccidentsCount
  <1>2. a * k \in Nat /\ a' * k' \in Nat
        /\ (k <= k' => a * k <= a' * k') /\ (k + 1 <= k' => a * k + a <= a' * k')
    <2> HIDE DEF a, k
    <2> QED BY <1>1, Allowance
  <1>3. /\ IsFiniteSet(PassedApprovals) /\ IsFiniteSet(PassedApprovals')
        /\ p \in Nat /\ p' \in Nat /\ p <= a
    <2>1. PassedApprovals \in SUBSET Approvals /\ PassedApprovals' \in SUBSET Approvals'
      BY DEF PassedApprovals
    <2>2. IsFiniteSet(PassedApprovals) /\ IsFiniteSet(PassedApprovals') /\ p <= a
      BY <2>1, ApprovalsStay, FS_Subset
    <2> QED BY <2>2, FS_CardinalityType
  <1>4. crashes' = crashes /\ clobbers' = clobbers
          => k' = k /\ PassedApprovals \subseteq PassedApprovals'
    <2> SUFFICES ASSUME crashes' = crashes, clobbers' = clobbers
                 PROVE  k' = k /\ PassedApprovals \subseteq PassedApprovals'
      OBVIOUS
    <2>1. \A i \in Nat : i >= 1 /\ Passed(i) => Passed(i)'
      BY PassedStays
    <2>2. \A i \in Approvals : i \in Nat /\ i >= 1 /\ i \in Approvals'
      BY ApprovalsStay, LogGrows DEF Approvals, IInv
    <2> QED BY <2>1, <2>2 DEF PassedApprovals
  <1>5. PassedApprovals \subseteq PassedApprovals' => p <= p'
    BY <1>3, FS_Subset
  <1>6. /\ fires + Granted \in Nat /\ fires' + Granted' \in Nat
        /\ fires + Granted <= a * k + p + x
        /\ x \in Nat /\ x' \in Nat /\ x <= x'
    BY GrantsMove DEF FireInv
  <1>7. CASE fires' + Granted' <= fires + Granted
    <2>1. CASE crashes' = crashes /\ clobbers' = clobbers
      <3>1. k' = k /\ p <= p'
        BY <1>4, <1>5, <2>1
      <3>2. fires' + Granted' <= a' * k' + p' + x'
        <4> HIDE DEF a, k, p, x
        <4> QED BY <1>1, <1>2, <1>3, <1>6, <1>7, <3>1
      <3> QED BY <3>2 DEF FireInv
    <2>2. CASE crashes' + clobbers' >= crashes + clobbers + 1
      <3>1. k + 1 <= k'
        BY <1>1, <2>2
      <3>2. fires' + Granted' <= a' * k' + p' + x'
        <4> HIDE DEF a, k, p, x
        <4> QED BY <1>1, <1>2, <1>3, <1>6, <1>7, <3>1
      <3> QED BY <3>2 DEF FireInv
    <2> QED BY <2>1, <2>2, AccidentsCount
  <1>8. CASE /\ fires' + Granted' <= fires + Granted + 1
             /\ crashes' = crashes /\ clobbers' = clobbers
             /\ \E i \in Nat : i \in Approvals' /\ ~Passed(i) /\ Passed(i)'
    <2>1. PICK i \in Nat : i \in PassedApprovals' /\ i \notin PassedApprovals
      BY <1>8 DEF PassedApprovals
    <2>2. k' = k /\ PassedApprovals \cup {i} \subseteq PassedApprovals'
      BY <1>4, <1>8, <2>1
    <2>3. /\ IsFiniteSet(PassedApprovals \cup {i})
          /\ Cardinality(PassedApprovals \cup {i}) = p + 1
      BY <1>3, <2>1, FS_AddElement
    <2>4. p + 1 <= p'
      BY <1>3, <2>2, <2>3, FS_Subset
    <2>5. fires' + Granted' <= a' * k' + p' + x'
      <3> HIDE DEF a, k, p, x
      <3> QED BY <1>1, <1>2, <1>3, <1>6, <1>8, <2>2, <2>4
    <2> QED BY <2>5 DEF FireInv
  <1>9. CASE /\ fires' + Granted' <= fires + Granted + 1
             /\ crashes' = crashes /\ clobbers' = clobbers
             /\ x' = x + 1
    <2>1. k' = k /\ p <= p'
      BY <1>4, <1>5, <1>9
    <2>2. fires' + Granted' <= a' * k' + p' + x'
      <3> HIDE DEF a, k, p, x
      <3> QED BY <1>1, <1>2, <1>3, <1>6, <1>9, <2>1
    <2> QED BY <2>2 DEF FireInv
  <1> QED BY <1>7, <1>8, <1>9, GrantsMove

\* An /approve sends one order, and a further one only after an accident: of the
\* bot, of a live cycle between order and entry, or of two saves of the proposals.
THEOREM OneOrderEach == Spec => []OneOrderPerApproval
  <1>1. Init => FireInv
    <2> SUFFICES ASSUME Init PROVE FireInv
      OBVIOUS
    <2>1. Len(log) = 0
      BY EmptySeq DEF Init
    <2>2. Approvals = {} /\ PassedApprovals = {}
      BY <2>1 DEF Approvals, PassedApprovals
    <2>3. Cardinality(Approvals) = 0 /\ Cardinality(PassedApprovals) = 0
      BY <2>2, FS_EmptySet
    <2> QED BY <2>3 DEF Init, FireInv, Granted
  <1>2. IInv /\ FireInv => OneOrderPerApproval
    <2> SUFFICES ASSUME IInv, FireInv PROVE OneOrderPerApproval
      OBVIOUS
    <2> DEFINE a == Cardinality(Approvals)
               k == crashes + clobbers
               p == Cardinality(PassedApprovals)
               x == kills + revivals
    <2>1. IsFiniteSet(Approvals)
      <3>1. Len(log) \in Nat
        BY LenProperties DEF IInv, LogOK
      <3>2. IsFiniteSet(1 .. Len(log)) /\ Approvals \in SUBSET (1 .. Len(log))
        BY <3>1, FS_Interval DEF Approvals
      <3> QED BY <3>2, FS_Subset
    <2>2. PassedApprovals \in SUBSET Approvals
      BY DEF PassedApprovals
    <2>3. a \in Nat /\ p \in Nat /\ p <= a /\ k \in Nat
      <3>1. IsFiniteSet(PassedApprovals) /\ p <= a
        BY <2>1, <2>2, FS_Subset
      <3>2. a \in Nat /\ p \in Nat
        BY <2>1, <3>1, FS_CardinalityType
      <3>3. k \in Nat
        BY DEF IInv, Rest
      <3> QED BY <3>1, <3>2, <3>3
    <2>4. fires + Granted <= a * k + p + x /\ fires \in Nat /\ Granted \in {0, 1}
          /\ x \in Nat
      BY DEF FireInv, IInv, Rest, Granted
    <2>5. 1 + crashes + clobbers = k + 1
      BY DEF IInv, Rest
    <2>6. fires <= a * (k + 1) + x
      <3> HIDE DEF a, k, p, x
      <3>1. a * k \in Nat /\ a * k + a <= a * (k + 1)
        BY <2>3, Allowance
      <3>2. a * (k + 1) \in Nat
        BY <2>3
      <3> QED BY <2>3, <2>4, <3>1, <3>2
    <2>7. fires <= a * (1 + crashes + clobbers) + kills + revivals
      <3>1. x = kills + revivals /\ kills \in Nat /\ revivals \in Nat
        BY DEF IInv, Rest
      <3> HIDE DEF a, k, p, x
      <3>2. a * (k + 1) \in Nat /\ a * (k + 1) + x = a * (k + 1) + kills + revivals
        BY <2>3, <3>1
      <3> QED BY <2>5, <2>6, <3>2
    <2> QED BY <2>7 DEF OneOrderPerApproval, Approvals
  <1>3. Spec => [](IInv /\ FireInv)
    BY TypedInit, TypedStep, <1>1, FireStep, PTL DEF Spec
  <1> QED BY <1>2, <1>3, PTL

-----------------------------------------------------------------------------
(* The owner's last word stands. *)

Said == {i \in 1 .. Len(log) :
           log[i].from = "owner" /\ log[i].command \in {"pause", "resume"}}

\* While the bot acts, its one save will do what the update at hand says.
BotCalls ==
  stage = "acting" =>
    /\ at \in Said
    /\ \A c \in calls : c.by = "bot" =>
         /\ c.todo \in Seq(SafetyStates) /\ Len(c.todo) = 1
         /\ Head(c.todo).paused <=> log[at].command = "pause"

\* No stored offset points beyond the batch in hand, and one that never went
\* back does not point beyond what Telegram has confirmed.
OffsetsLag ==
  /\ InBatch /\ upto # 0 => offset <= upto + 1 /\ register.offset <= upto + 1
  /\ clobbers = 0 =>
       /\ register.offset <= confirmed \/ register.offset <= offset
       /\ stage \in {"handling", "acting", "deciding", "writing"} => offset <= confirmed
       /\ stage = "polling" => next <= offset /\ (offset <= confirmed \/ offset <= next)

\* Below n the owner said nothing after s; or what he said is still to be handled.
Heard(n, s) == \A i \in Said : i < n => i <= s
HeardOrDue(n, s) ==
  \A i \in Said : i < n => i <= s \/ (InBatch /\ at <= i /\ i <= upto)

Tracks(s) ==
  /\ Heard(confirmed, s)
  /\ HeardOrDue(offset, s) /\ HeardOrDue(register.offset, s)
  /\ stage \in {"polling", "writing"} => Heard(next, s)
  /\ InBatch => Heard(at, s)

\* The excuses of LastWordStands that concern the bot.
Faultless == errors = 0 /\ (crashes = 0 \/ clobbers = 0)

\* The switch is where update s put it, and no marker is beyond a later word.
Follows(s) ==
  /\ word = "own" /\ s # 0 => (risk.paused <=> log[s].command = "pause")
  /\ Faultless => Tracks(s)

FollowInv == \E s \in Said \cup {0} : Follows(s)

WordInv == BotCalls /\ OffsetsLag /\ FollowInv

\* What is said stays said; what is new lies beyond the log.
LEMMA SaidStays ==
  ASSUME IInv, [Next]_vars
  PROVE  /\ Said \subseteq Said'
         /\ \A i \in Said' : i \in Nat /\ i >= 1 /\ (i \in Said \/ i >= Len(log) + 1)
         /\ \A i \in Said : i \in Nat /\ i >= 1 /\ i <= Len(log) /\ log'[i] = log[i]
  <1>1. /\ Len(log) \in Nat /\ Len(log') \in Nat /\ Len(log') >= Len(log)
        /\ \A i \in 1 .. Len(log) : log'[i] = log[i]
    BY LogGrows DEF IInv
  <1>2. \A i \in 1 .. Len(log) : i \in 1 .. Len(log')
    BY <1>1
  <1>3. Said \subseteq Said'
    BY <1>1, <1>2 DEF Said
  <1>4. \A i \in Said' : i \in 1 .. Len(log') /\ (i \in 1 .. Len(log) => i \in Said)
    BY <1>1 DEF Said
  <1>5. \A i \in Said : i \in 1 .. Len(log)
    BY DEF Said
  <1> QED BY <1>1, <1>3, <1>4, <1>5

\* The bot's call is untouched by the others.
LEMMA BotCallsStep ==
  IInv /\ BotCalls /\ [Next]_vars => BotCalls'
  <1> SUFFICES ASSUME IInv, BotCalls, [Next]_vars, stage' = "acting"
               PROVE  /\ at' \in Said'
                      /\ \A c \in calls' : c.by = "bot" =>
                           /\ c.todo \in Seq(SafetyStates) /\ Len(c.todo) = 1
                           /\ Head(c.todo).paused <=> log'[at'].command = "pause"
    BY DEF BotCalls
  <1>1. CASE Act
    <2>1. log' = log /\ at' = at
      BY <1>1 DEF Act, telegram
    <2>2. at \in Said
      BY <1>1, LogGrows DEF Act, Decide, Says, Handling, Said, IInv, Shape, Rest, InBatch
    <2> QED BY <1>1, <2>1, <2>2, ActCalls, SaidStays DEF IInv, SafetyTypeOK
  <1>2. CASE ~Act /\ stage = "acting"
    <2>1. at' = at /\ \A c \in calls' : c.by = "bot" => c \in calls
      <3>1. CASE UNCHANGED safety /\ UNCHANGED at
        BY <3>1 DEF safety
      <3>2. CASE \E pnl \in Pnls : Close(pnl)
        BY <3>2 DEF Close, Load, bot
      <3>3. CASE \E c \in calls : c.by # "bot" /\ OthersSave(c)
        <4>1. PICK c \in calls : c.by # "bot" /\ OthersSave(c)
          BY <3>3
        <4> DEFINE rest == [c EXCEPT !.base = Head(c.todo), !.todo = Tail(@)]
        <4>2. c \in Calls
          BY DEF IInv, SafetyTypeOK
        <4>3. rest.by = c.by
          BY <4>2 DEF Calls
        <4>4. calls' \subseteq calls \cup {rest} /\ at' = at
          BY <4>1 DEF OthersSave, Save, bot
        <4> HIDE DEF rest
        <4> QED BY <4>1, <4>3, <4>4
      <3>4. CASE CycleStarts \/ CycleChecks
        <4>1. CASE CycleStarts
          BY <4>1 DEF CycleStarts, Load, bot
        <4>2. CASE CycleChecks
          BY <4>2 DEF CycleChecks, Load, bot
        <4> QED BY <3>4, <4>1, <4>2
      <3>6. CASE CycleDies
        BY <3>6 DEF CycleDies, Abandon, bot
      <3>5. \/ UNCHANGED safety /\ UNCHANGED at
            \/ CycleStarts \/ CycleChecks \/ CycleDies
            \/ \E pnl \in Pnls : Close(pnl)
            \/ \E c \in calls : c.by # "bot" /\ OthersSave(c)
        BY <1>2 DEF Next, vars, safety, BotStep, Poll, Answered, NoAnswer, Idle, Ignore, ActEnds,
               Decide, DecideEnds, HandlerFails, Handled, TruncateState, WriteState, Crash, Restart,
               RegisterReads, RegisterTruncates, RegisterWrites, Register, Send,
               CycleLoads,
           CycleSends, CycleEnters, CycleWrites, DraftLoads, DraftSaves, bot
      <3> QED BY <3>1, <3>2, <3>3, <3>4, <3>5, <3>6
    <2>2. at \in Said /\ at \in Said' /\ log'[at] = log[at]
      BY <1>2, SaidStays DEF BotCalls
    <2> QED BY <1>2, <2>1, <2>2 DEF BotCalls
  <1> QED BY <1>1, <1>2, BotCallStays DEF IInv

\* The stored offsets lag behind after every step.
LEMMA OffsetsLagStep ==
  IInv /\ OffsetsLag /\ [Next]_vars => OffsetsLag'
  <1> SUFFICES ASSUME IInv, OffsetsLag, [Next]_vars PROVE OffsetsLag'
    OBVIOUS
  <1> USE DEF OffsetsLag, InBatch
  <1>1. Numbers /\ Len(log) \in Nat /\ Len(log') \in Nat
    BY LogGrows DEF IInv, Shape, Rest, Numbers
  <1>2. clobbers \in Nat /\ register \in Registers
    BY DEF IInv, Rest
  <1>3. CASE Poll
    BY <1>1, <1>3 DEF Poll, telegram, history, Numbers
  <1>4. CASE Answered
    <2>1. /\ stage = "polling" /\ stage' = "handling"
          /\ UNCHANGED <<offset, register, clobbers>>
      BY <1>4 DEF Answered, history
    <2>2. /\ confirmed' >= confirmed /\ confirmed' >= next /\ confirmed' \in Nat
          /\ upto' = Len(log) \/ upto' = 0
      BY <1>1, <1>4, AnsweredBatch DEF IInv, Numbers
    <2>3. offset <= Len(log) + 1 /\ register.offset <= Len(log) + 1
      BY DEF IInv, Shape
    <2> QED BY <1>1, <2>1, <2>2, <2>3 DEF Numbers
  <1>5. CASE NoAnswer
    <2>1. /\ confirmed' >= confirmed /\ confirmed' \in Nat
          /\ stage = "polling" /\ stage' = "idle"
          /\ UNCHANGED <<offset, register, clobbers>>
      BY <1>1, <1>5, NoAnswerConfirms DEF Numbers, NoAnswer, Idle, history
    <2> QED BY <1>1, <2>1 DEF Numbers
  <1>6. CASE Ignore \/ DecideEnds \/ HandlerFails \/ ActEnds
    <2>1. Handled /\ InBatch
      BY <1>6 DEF Ignore, DecideEnds, HandlerFails, ActEnds, Handling, Says
    <2> QED BY <2>1 DEF Handled, telegram
  <1>7. CASE Act \/ Decide
    BY <1>7 DEF Act, Decide, Says, Handling, telegram, history
  <1>8. CASE TruncateState
    BY <1>1, <1>8 DEF TruncateState, telegram, history, Numbers
  <1>9. CASE WriteState
    BY <1>1, <1>2, <1>9 DEF WriteState, Idle, telegram, Numbers
  <1>10. CASE Crash
    BY <1>1, <1>10 DEF Crash, telegram, Numbers
  <1>11. CASE Restart
    BY <1>11 DEF Restart, Idle, telegram, history
  <1>12. CASE RegisterReads \/ RegisterTruncates \/ RegisterWrites
    <2>1. UNCHANGED <<confirmed, stage, next, at, upto>>
      BY <1>12 DEF RegisterReads, RegisterTruncates, RegisterWrites, Register, telegram, bot
    <2>2. /\ register'.offset \in {offset, register.offset, 0}
          /\ offset' \in {offset, register.offset, 0}
          /\ clobbers' = IF offset' < offset THEN clobbers + 1 ELSE clobbers
          /\ register'.offset \in {offset, 0} \/ offset' = 0
      BY <1>1, <1>2, <1>12, RegisterMoves DEF Numbers
    <2> QED BY <1>1, <1>2, <2>1, <2>2 DEF Numbers
  <1>13. CASE UNCHANGED <<confirmed, offset, bot, register, clobbers>>
    BY <1>13 DEF bot
  <1>14. \/ Poll \/ Answered \/ NoAnswer \/ Ignore \/ Act \/ ActEnds \/ Decide
         \/ DecideEnds
         \/ HandlerFails \/ TruncateState \/ WriteState \/ Crash \/ Restart
         \/ RegisterReads \/ RegisterTruncates \/ RegisterWrites
         \/ UNCHANGED <<confirmed, offset, bot, register, clobbers>>
    BY DEF Next, vars, telegram, history, queue, BotStep, Send, Close, OthersSave, CycleStarts, CycleChecks, CycleLoads,
           CycleSends, CycleEnters, CycleWrites, CycleDies, DraftLoads, DraftSaves
  <1> QED BY <1>3, <1>4, <1>5, <1>6, <1>7, <1>8, <1>9, <1>10, <1>11, <1>12, <1>13, <1>14

\* The excuses last.
LEMMA FaultsStay ==
  ASSUME IInv, [Next]_vars
  PROVE  /\ errors \in Nat /\ crashes \in Nat /\ clobbers \in Nat
         /\ errors' \in {errors, errors + 1}
         /\ crashes' \in {crashes, crashes + 1}
         /\ clobbers' \in {clobbers, clobbers + 1}
         /\ Faultless' => Faultless
  <1>1. errors \in Nat /\ crashes \in Nat /\ clobbers \in Nat
    BY DEF IInv, Rest
  <1>2. errors' \in {errors, errors + 1} /\ crashes' \in {crashes, crashes + 1}
    BY DEF Next, vars, history, queue, BotStep, Poll, Answered, NoAnswer, Ignore, Act, ActEnds,
       Decide, DecideEnds, HandlerFails, Handled, TruncateState, WriteState, Crash, Restart,
       RegisterReads, RegisterTruncates, RegisterWrites, Register,
       Send, Close, OthersSave, CycleStarts, CycleChecks, CycleLoads,
           CycleSends, CycleEnters, CycleWrites, CycleDies, DraftLoads, DraftSaves
  <1>3. clobbers' \in {clobbers, clobbers + 1}
    BY DEF Next, vars, history, queue, BotStep, Poll, Answered, NoAnswer, Ignore, Act, ActEnds,
       Decide, DecideEnds, HandlerFails, Handled, TruncateState, WriteState, Crash, Restart,
       RegisterReads, RegisterTruncates, RegisterWrites, Register,
       Send, Close, OthersSave, CycleStarts, CycleChecks, CycleLoads,
           CycleSends, CycleEnters, CycleWrites, CycleDies, DraftLoads, DraftSaves
  <1>4. (errors' = 0 => errors = 0) /\ (crashes' = 0 => crashes = 0)
        /\ (clobbers' = 0 => clobbers = 0)
    BY <1>1, <1>2, <1>3
  <1> QED BY <1>1, <1>2, <1>3, <1>4 DEF Faultless

\* A step that is not the end of an act moves no marker beyond a word.
LEMMA TracksStay ==
  ASSUME IInv, OffsetsLag, [Next]_vars, ~ActEnds, Faultless', NEW s \in Nat, Tracks(s)
  PROVE  Tracks(s)'
  <1>0. Numbers /\ Len(log) \in Nat /\ Len(log') \in Nat
    BY LogGrows DEF IInv, Shape, Rest, Numbers
  <1>1. /\ \A i \in Said' : i \in Nat /\ i >= 1 /\ (i \in Said \/ i >= Len(log) + 1)
        /\ \A i \in Said : i \in Nat /\ i >= 1
    BY SaidStays
  <1> USE DEF Tracks, Heard, HeardOrDue, InBatch
  <1>2. ASSUME log' = log PROVE Said' = Said
    BY <1>2 DEF Said
  <1>3. CASE Poll
    <2>1. Said' = Said
      BY <1>2, <1>3 DEF Poll, telegram
    <2> QED BY <1>3, <2>1 DEF Poll, telegram
  <1>4. CASE Answered
    <2>1. /\ stage = "polling" /\ stage' = "handling"
          /\ UNCHANGED <<offset, register>> /\ Said' = Said
      BY <1>2, <1>4 DEF Answered
    <2>2. confirmed' \in {confirmed, next} /\ at' \in {1, confirmed'}
      BY <1>0, <1>4, AnsweredBatch DEF IInv
    <2>3. \A i \in Said : ~(i < 1)
      BY <1>1
    <2> QED BY <2>1, <2>2, <2>3
  <1>5. CASE NoAnswer
    <2>1. confirmed' \in {confirmed, next} /\ Said' = Said
      BY <1>0, <1>2, <1>5, NoAnswerConfirms DEF NoAnswer
    <2> QED BY <1>5, <2>1 DEF NoAnswer, Idle
  <1>6. CASE Ignore \/ DecideEnds
    <2>1. Handled /\ stage \in {"handling", "deciding"} /\ at \notin Said
      BY <1>6 DEF Ignore, DecideEnds, Handling, Says, Commands, Said, IInv, Shape
    <2>2. /\ UNCHANGED <<confirmed, offset, register, upto>> /\ stage' = "handling"
          /\ at' = at + 1 /\ Said' = Said
      BY <1>2, <2>1 DEF Handled, telegram
    <2>3. \A i \in Said : (i < at + 1 => i < at) /\ (at <= i => at + 1 <= i)
      BY <1>0, <1>1, <2>1 DEF Numbers
    <2> QED BY <2>1, <2>2, <2>3
  <1>7. CASE HandlerFails
    BY <1>7, FaultsStay DEF HandlerFails, Faultless
  <1>8. CASE Act \/ Decide
    <2>1. Said' = Said
      BY <1>2, <1>8 DEF Act, Decide, telegram
    <2> QED BY <1>8, <2>1 DEF Act, Decide, Says, Handling, telegram
  <1>9. CASE TruncateState
    <2>1. next <= at /\ (upto = 0 \/ at > upto)
      BY <1>0, <1>9 DEF IInv, Shape, TruncateState, Numbers
    <2>2. \A i \in Said : (i < next => i < at) /\ ~(at <= i /\ i <= upto)
      BY <1>0, <1>1, <2>1 DEF Numbers
    <2>3. Said' = Said /\ offset' = 0 /\ UNCHANGED <<confirmed, register, next>>
          /\ stage' = "writing" /\ stage = "handling"
      BY <1>2, <1>9 DEF TruncateState, telegram
    <2>4. \A i \in Said : ~(i < 0)
      BY <1>1
    <2> QED BY <2>2, <2>3, <2>4
  <1>10. CASE WriteState
    <2>1. Said' = Said /\ offset' \in {next, 0} /\ stage = "writing" /\ stage' = "idle"
          /\ UNCHANGED <<confirmed, register>>
      BY <1>2, <1>10 DEF WriteState, Idle, telegram
    <2>2. \A i \in Said : ~(i < 0)
      BY <1>1
    <2> QED BY <2>1, <2>2
  <1>11. CASE Crash
    <2>1. clobbers = 0
      BY <1>11, FaultsStay DEF Crash, Faultless
    <2>2. Said' = Said /\ stage' = "down" /\ UNCHANGED <<confirmed, offset, register>>
      BY <1>2, <1>11 DEF Crash, telegram
    <2>3. stage \in {"handling", "acting", "deciding", "writing"}
             => offset <= confirmed /\ register.offset <= confirmed
      BY <1>0, <2>1 DEF OffsetsLag, Numbers
    <2>4. stage \in {"handling", "acting", "deciding", "writing"}
             => Heard(offset, s) /\ Heard(register.offset, s)
      BY <1>0, <1>1, <2>3 DEF Numbers
    <2> QED BY <2>2, <2>4
  <1>12. CASE Restart
    <2>1. Said' = Said
      BY <1>2, <1>12 DEF Restart, telegram
    <2> QED BY <1>12, <2>1 DEF Restart, Idle, telegram
  <1>13. CASE RegisterReads \/ RegisterTruncates \/ RegisterWrites
    <2>1. UNCHANGED <<confirmed, stage, next, at, upto>> /\ Said' = Said
      BY <1>2, <1>13 DEF RegisterReads, RegisterTruncates, RegisterWrites, Register, telegram, bot
    <2>2. /\ register'.offset \in {offset, register.offset, 0}
          /\ offset' \in {offset, register.offset, 0}
      BY <1>0, <1>13, RegisterMoves DEF IInv, Rest, Numbers
    <2>3. \A i \in Said : ~(i < 0)
      BY <1>1
    <2> QED BY <2>1, <2>2, <2>3
  <1>14. CASE UNCHANGED <<confirmed, offset, bot, register>>
    <2>1. {confirmed, offset, next, register.offset, at} \subseteq 0 .. Len(log) + 1
      BY DEF IInv, Shape
    <2>2. \A i \in Said' :
            (i < confirmed \/ i < offset \/ i < next \/ i < register.offset \/ i < at)
              => i \in Said
      BY <1>0, <1>1, <2>1
    <2> QED BY <1>14, <2>2 DEF bot
  <1>15. \/ Poll \/ Answered \/ NoAnswer \/ Ignore \/ Act \/ Decide \/ DecideEnds
         \/ HandlerFails \/ TruncateState \/ WriteState \/ Crash \/ Restart
         \/ RegisterReads \/ RegisterTruncates \/ RegisterWrites
         \/ UNCHANGED <<confirmed, offset, bot, register>>
    BY DEF Next, vars, telegram, BotStep, Send, Close, OthersSave, CycleStarts, CycleChecks, CycleLoads,
           CycleSends, CycleEnters, CycleWrites, CycleDies, DraftLoads, DraftSaves
  <1> QED BY <1>3, <1>4, <1>5, <1>6, <1>7, <1>8, <1>9, <1>10, <1>11, <1>12, <1>13,
             <1>14, <1>15

\* Only the bot's own save moves the switch and leaves word at "own".
LEMMA OwnWord ==
  ASSUME [Next]_vars, ~ActEnds, word' = "own"
  PROVE  word = "own" /\ (risk'.paused <=> risk.paused)
  <1>1. CASE UNCHANGED <<risk, word>>
    BY <1>1
  <1>2. CASE \E c \in calls : c.by # "bot" /\ OthersSave(c)
    <2>1. PICK c \in calls : OthersSave(c)
      BY <1>2
    <2>2. CASE risk'.paused = risk.paused
      <3>1. word' = word
        BY <2>1, <2>2 DEF OthersSave
      <3> QED BY <2>2, <3>1
    <2>3. CASE risk'.paused # risk.paused
      <3>1. word' \in {"rules", "stale"}
        BY <2>1, <2>3 DEF OthersSave
      <3> QED BY <3>1
    <2> QED BY <2>2, <2>3
  <1>3. UNCHANGED <<risk, word>> \/ \E c \in calls : c.by # "bot" /\ OthersSave(c)
    BY DEF Next, vars, safety, BotStep, Poll, Answered, NoAnswer, Ignore, Act, Decide, DecideEnds,
           HandlerFails, TruncateState, WriteState, Crash, Restart, RegisterReads,
           RegisterTruncates, RegisterWrites, Register, Send, Close, Load, Abandon,
           CycleStarts, CycleChecks, CycleLoads,
           CycleSends, CycleEnters, CycleWrites, CycleDies, DraftLoads, DraftSaves
  <1> QED BY <1>1, <1>2, <1>3

\* The end of an act follows the update at hand.
LEMMA ActFollows ==
  ASSUME IInv, BotCalls, OffsetsLag, FollowInv, ActEnds
  PROVE  FollowInv'
  <1>1. stage = "acting" /\ Handled /\ errors' = errors
    BY DEF ActEnds
  <1>2. /\ log' = log /\ UNCHANGED <<confirmed, offset, register, upto, crashes, clobbers>>
        /\ stage' = "handling" /\ at' = at + 1
    BY <1>1 DEF Handled, telegram
  <1>3. Said' = Said /\ at \in Said
    BY <1>1, <1>2 DEF Said, BotCalls
  <1>4. PICK s \in Said : s = at
    BY <1>3
  <1>5. s \in Nat /\ s >= 1 /\ \A i \in Said : i \in Nat /\ i >= 1
    BY LenProperties DEF IInv, LogOK, Said
  <1>6. risk'.paused <=> log'[s].command = "pause"
    <2>1. PICK c \in calls : c.by = "bot" /\ Save(c)
      BY DEF ActEnds
    <2>2. risk' = Head(c.todo)
      BY <2>1 DEF Save
    <2> QED BY <1>1, <1>2, <1>4, <2>1, <2>2 DEF BotCalls
  <1>7. ASSUME Faultless' PROVE Tracks(s)'
    <2>1. Numbers
      BY LenProperties DEF IInv, Shape, Rest, Numbers, LogOK
    <2>2. /\ confirmed <= at /\ at <= upto /\ upto # 0
          /\ offset <= upto + 1 /\ register.offset <= upto + 1
      BY <1>1, <1>4, <1>5, <2>1 DEF IInv, Shape, InBatch, OffsetsLag, Numbers
    <2>3. \A i \in Said : /\ i < confirmed => i <= s
                          /\ i < at + 1 => i <= s
                          /\ i < offset => i <= s \/ (at + 1 <= i /\ i <= upto)
                          /\ i < register.offset => i <= s \/ (at + 1 <= i /\ i <= upto)
      BY <1>4, <1>5, <2>1, <2>2 DEF Numbers
    <2> QED BY <1>2, <1>3, <2>3 DEF Tracks, Heard, HeardOrDue, InBatch
  <1>8. Follows(s)'
    BY <1>6, <1>7 DEF Follows
  <1> QED BY <1>3, <1>8 DEF FollowInv

\* The switch keeps following what the owner said.
LEMMA FollowStep ==
  IInv /\ BotCalls /\ OffsetsLag /\ FollowInv /\ [Next]_vars => FollowInv'
  <1> SUFFICES ASSUME IInv, BotCalls, OffsetsLag, FollowInv, [Next]_vars PROVE FollowInv'
    OBVIOUS
  <1>1. CASE ActEnds
    BY <1>1, ActFollows
  <1>2. CASE ~ActEnds
    <2>1. PICK r \in Said \cup {0} : Follows(r)
      BY DEF FollowInv
    <2>2. PICK s \in Nat : s = r
      BY <2>1, SaidStays
    <2>3. s \in Said' \cup {0} /\ (s # 0 => log'[s] = log[s])
      BY <2>1, <2>2, SaidStays
    <2>4. word' = "own" /\ s # 0 => (risk'.paused <=> log'[s].command = "pause")
      BY <1>2, <2>1, <2>2, <2>3, OwnWord DEF Follows
    <2>5. ASSUME Faultless' PROVE Tracks(s)'
      BY <1>2, <2>1, <2>2, <2>5, FaultsStay, TracksStay DEF Follows
    <2>6. Follows(s)'
      BY <2>4, <2>5 DEF Follows
    <2> QED BY <2>3, <2>6 DEF FollowInv
  <1> QED BY <1>1, <1>2

\* Once the bot has caught up, the update the switch follows is the last one.
LEMMA FollowsLast ==
  ASSUME IInv, FollowInv
  PROVE  LastWordStands
  <1> SUFFICES ASSUME CaughtUp, errors = 0, word = "own", LastWord # "other",
                      crashes = 0 \/ clobbers = 0
               PROVE  risk.paused <=> LastWord = "pause"
    BY DEF LastWordStands
  <1>1. PICK s \in Said \cup {0} : Follows(s)
    BY DEF FollowInv
  <1>2. Len(log) \in Nat /\ offset \in Nat /\ confirmed \in Nat
    BY LenProperties DEF IInv, LogOK, Shape
  <1>3. stage = "idle" /\ (offset = Len(log) + 1 \/ confirmed = Len(log) + 1)
    BY <1>2, Markers DEF CaughtUp
  <1>4. \A i \in Said : i \in 1 .. Len(log)
    BY DEF Said
  <1>5. \A i \in Said : i <= s
    <2>1. Heard(confirmed, s) /\ Heard(offset, s)
      BY <1>1, <1>3 DEF Follows, Faultless, Tracks, HeardOrDue, Heard, InBatch
    <2> QED BY <1>2, <1>3, <1>4, <2>1 DEF Heard
  <1>6. LastWord = IF Said = {} THEN "other" ELSE log[Max(Said)].command
    BY DEF LastWord, Said
  <1>7. Said # {}
    BY <1>6
  <1>8. s \in Said /\ s # 0
    BY <1>1, <1>2, <1>4, <1>5, <1>7
  <1>9. Max(Said) = s
    <2>1. \A x \in Said : (\A y \in Said : x >= y) => x = s
      BY <1>2, <1>4, <1>5, <1>8
    <2>2. \A y \in Said : s >= y
      BY <1>2, <1>4, <1>5, <1>8
    <2> QED BY <1>8, <2>1, <2>2 DEF Max
  <1> QED BY <1>1, <1>6, <1>7, <1>8, <1>9 DEF Follows

\* The owner's last /pause or /resume stands once the bot has caught up.
THEOREM OwnerHasLastWord == Spec => []LastWordStands
  <1>1. Init => WordInv
    <2> SUFFICES ASSUME Init PROVE WordInv
      OBVIOUS
    <2>1. Len(log) = 0
      BY EmptySeq DEF Init
    <2>2. Said = {}
      BY <2>1 DEF Said
    <2>3. BotCalls /\ OffsetsLag
      BY DEF Init, BotCalls, OffsetsLag, InBatch
    <2>4. Follows(0)
      BY <2>2 DEF Init, Follows, Tracks, Heard, HeardOrDue, InBatch
    <2> QED BY <2>3, <2>4 DEF WordInv, FollowInv
  <1>2. IInv /\ WordInv /\ [Next]_vars => WordInv'
    BY BotCallsStep, OffsetsLagStep, FollowStep DEF WordInv
  <1>3. Spec => [](IInv /\ WordInv)
    BY TypedInit, TypedStep, <1>1, <1>2, PTL DEF Spec
  <1>4. IInv /\ WordInv => LastWordStands
    BY FollowsLast DEF WordInv
  <1> QED BY <1>3, <1>4, PTL
=============================================================================

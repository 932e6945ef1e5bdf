----------------------- MODULE PendingApprovalsProofs -----------------------
(***************************************************************************)
(* Proofs about PendingApprovals, for any number of users, live cycles,    *)
(* proposals, commands and kills.  A save may put back whatever its call   *)
(* has loaded, so every invariant speaks of the file and of the copies in  *)
(* hand alike.                                                             *)
(***************************************************************************)
EXTENDS PendingApprovals, FiniteSetTheorems, TLAPS

\* Every process has one call in hand at most.
OneCallEach ==
  /\ IsFiniteSet(saves)
  /\ \A s, t \in saves : s.by = t.by => s = t

\* Approved in the file, in a copy or in a worker's list, or fired: the user has
\* said yes.
Granted(id) == grants[id] > 0

Consent ==
  \A id \in Ids :
    /\ file[id] = "approved" => Granted(id)
    /\ \A s \in saves : s.new[id] = "approved" => Granted(id)
    /\ \A w \in Workers : id \in todo[w] => Granted(id)
    /\ fires[id] > 0 => Granted(id)

\* No call drops an entry that was open when it was loaded.
Closed == Terminal \cup {"absent"}

Prudent == \A s \in saves, id \in Ids : s.new[id] = "absent" => s.base[id] \in Closed

\* A live cycle has one outcome to write down at most.
OneVerdict == \A w \in Workers : \A u, v \in verdict[w] : u = v

QueueInv == TypeOK /\ OneCallEach /\ OneVerdict /\ Consent /\ Prudent

\* A live cycle w may still fire id without another cause: it is on its list, or
\* approved and not about to be overwritten with the outcome of an order.
Settling(w, id) ==
  \/ \E v \in verdict[w] : v.id = id
  \/ \E s \in saves : s.by = w /\ s.new[id] # "approved"

MayFire(w, id) == id \in todo[w] \/ (file[id] = "approved" /\ ~Settling(w, id))

Ready(id) == {w \in Workers : MayFire(w, id)}

\* The OKs on their way into the file.
Granting(id) == {s \in saves : s.new[id] = "approved" /\ s.base[id] # "approved"}

\* Every OK, and every save that overwrote another, is worth one order of each live
\* cycle, every kill one order.  What may still be fired, and what may be once the
\* OKs on their way are in the file, is paid for in advance.
Cycles == Cardinality(Workers)

Balanced(id) ==
  fires[id] + Cardinality(Ready(id)) + Cycles * Cardinality(Granting(id))
    <= Cycles * (grants[id] + lost) + crashes

Paid == \A id \in Ids : Balanced(id)

-----------------------------------------------------------------------------
(* The calls of the store. *)

\* One call each, so one save each.
OneSave == \A p \in Procs : Cardinality({s \in saves : s.by = p}) <= 1

LEMMA OneSaveEach == OneCallEach => OneSave
  <1> SUFFICES ASSUME OneCallEach, NEW p \in Procs
               PROVE  Cardinality({s \in saves : s.by = p}) <= 1
    BY DEF OneSave
  <1> DEFINE mine == {s \in saves : s.by = p}
  <1>1. CASE mine = {}
    BY <1>1, FS_EmptySet
  <1>2. CASE mine # {}
    <2>1. PICK s \in mine : TRUE
      BY <1>2
    <2>2. mine = {s}
      BY <2>1 DEF OneCallEach
    <2>3. Cardinality({s}) = 1
      BY FS_Singleton
    <2> QED BY <2>2, <2>3
  <1> QED BY <1>1, <1>2

\* What a call of p leaves behind: nothing, or a copy in which only the entries of
\* G may be newly approved, and no open entry is missing.
Called(p, G) ==
  \/ UNCHANGED store
  \/ \E new \in Files :
       /\ Call(p, new)
       /\ \A id \in Ids : new[id] = "approved" => file[id] = "approved" \/ id \in G
       /\ \A id \in Ids : new[id] = "absent" => file[id] \in Closed

\* A transition to "approved" is the only call that approves.
LEMMA TransitionCalls ==
  ASSUME TypeOK, NEW p \in Procs, NEW id \in Ids, NEW status \in Statuses,
         Transition(p, id, status)
  PROVE  Called(p, IF status = "approved" THEN {id} ELSE {})
  <1> DEFINE G == IF status = "approved" THEN {id} ELSE {}
             new == [file EXCEPT ![id] = status]
  <1>1. CASE file[id] = "absent"
    BY <1>1 DEF Transition, Called
  <1>2. CASE file[id] # "absent"
    <2>1. Call(p, new)
      BY <1>2 DEF Transition
    <2>2. new \in Files
      BY DEF TypeOK, Files
    <2>3. \A i \in Ids : new[i] = "approved" => file[i] = "approved" \/ i \in G
      BY DEF TypeOK, Files
    <2>4. \A i \in Ids : new[i] = "absent" => file[i] \in Closed
      BY DEF TypeOK, Files, Statuses, Terminal, Closed
    <2> QED BY <2>1, <2>2, <2>3, <2>4 DEF Called
  <1> QED BY <1>1, <1>2

LEMMA UpsertCalls ==
  ASSUME TypeOK, NEW p \in Procs, NEW id \in Ids, Upsert(p, id)
  PROVE  Called(p, {})
  <1> DEFINE new == [file EXCEPT ![id] = "pending"]
  <1>1. Call(p, new)
    BY DEF Upsert
  <1>2. new \in Files
    BY DEF TypeOK, Files, Statuses
  <1>3. \A i \in Ids : new[i] = "approved" => file[i] = "approved"
    BY DEF TypeOK, Files
  <1>4. \A i \in Ids : new[i] = "absent" => file[i] \in Closed
    BY DEF TypeOK, Files, Closed
  <1> QED BY <1>1, <1>2, <1>3, <1>4 DEF Called

LEMMA ExpireCalls ==
  ASSUME TypeOK, NEW p \in Procs, ExpireOverdue(p)
  PROVE  Called(p, {})
  <1> DEFINE late == EntriesIn("pending") \cap overdue
             new == [id \in Ids |-> IF id \in late THEN "expired" ELSE file[id]]
  <1>1. CASE late = {}
    BY <1>1 DEF ExpireOverdue, Called
  <1>2. CASE late # {}
    <2>1. Call(p, new)
      BY <1>2 DEF ExpireOverdue
    <2>2. new \in Files
      BY DEF TypeOK, Files, Statuses, Terminal
    <2> QED BY <2>1, <2>2 DEF Called, Closed
  <1> QED BY <1>1, <1>2

LEMMA PruneCalls ==
  ASSUME TypeOK, NEW p \in Procs, PruneTerminal(p)
  PROVE  Called(p, {})
  <1>1. PICK gone \in SUBSET {id \in Ids : file[id] \in Terminal} : Drop(p, gone)
    BY DEF PruneTerminal
  <1> DEFINE new == [id \in Ids |-> IF id \in gone THEN "absent" ELSE file[id]]
  <1>2. CASE gone = {}
    BY <1>1, <1>2 DEF Drop, Called
  <1>3. CASE gone # {}
    <2>1. Call(p, new)
      BY <1>1, <1>3 DEF Drop
    <2>2. new \in Files
      BY DEF TypeOK, Files
    <2> QED BY <2>1, <2>2 DEF Called, Closed
  <1> QED BY <1>2, <1>3

\* The part of the invariant that is about the file and the copies of it.
StoreTyped ==
  /\ file \in Files /\ saves \subseteq Saves /\ lost \in Nat
  /\ OneSave

StoreConsent ==
  \A id \in Ids :
    /\ file[id] = "approved" => Granted(id)
    /\ \A s \in saves : s.new[id] = "approved" => Granted(id)

StoreInv == StoreTyped /\ OneCallEach /\ StoreConsent /\ Prudent

\* A call keeps it if the user's OKs are counted.
LEMMA CallKeeps ==
  ASSUME StoreInv, NEW p \in Procs, NEW G \in SUBSET Ids, Free(p), Called(p, G),
         \A id \in Ids : Granted(id) \/ id \in G => Granted(id)'
  PROVE  StoreInv'
  <1>1. CASE UNCHANGED store
    BY <1>1 DEF StoreInv, StoreTyped, OneSave, OneCallEach, StoreConsent, Prudent, Granted, store
  <1>2. ASSUME NEW new \in Files, Call(p, new),
               \A id \in Ids : new[id] = "approved" => file[id] = "approved" \/ id \in G,
               \A id \in Ids : new[id] = "absent" => file[id] \in Closed
        PROVE  StoreInv'
    <2> DEFINE s == [by |-> p, base |-> file, new |-> new]
    <2>1. saves' = saves \cup {s} /\ file' = file /\ lost' = lost
      BY <1>2 DEF Call
    <2>2. s \in Saves
      BY DEF Saves, StoreInv, StoreTyped
    <2>3. OneCallEach'
      <3>1. IsFiniteSet(saves')
        BY <2>1, FS_AddElement DEF StoreInv, OneCallEach
      <3>2. \A t \in saves : t.by # s.by
        BY DEF Free
      <3> QED BY <2>1, <3>1, <3>2 DEF StoreInv, OneCallEach
    <2>4. StoreTyped'
      <3>1. OneSave'
        BY <2>3, OneSaveEach, PTL
      <3> QED BY <2>1, <2>2, <3>1 DEF StoreInv, StoreTyped
    <2>5. StoreConsent'
      BY <1>2, <2>1 DEF StoreInv, StoreConsent
    <2>6. Prudent'
      BY <1>2, <2>1 DEF StoreInv, Prudent
    <2> QED BY <2>3, <2>4, <2>5, <2>6 DEF StoreInv
  <1> QED BY <1>1, <1>2 DEF Called

\* So does a save, whatever the file is by then.
LEMMA SaveKeeps ==
  ASSUME StoreInv, NEW s \in saves, Save(s)
  PROVE  StoreInv'
  <1>1. /\ saves' = saves \ {s} /\ file' = s.new /\ grants' = grants
        /\ lost' = (IF s.base = file THEN lost ELSE lost + 1)
    BY DEF Save
  <1>2. s.new \in Files
    BY DEF StoreInv, StoreTyped, Saves
  <1>3. OneCallEach'
    BY <1>1, FS_RemoveElement DEF StoreInv, OneCallEach
  <1>4. StoreTyped'
    <2>1. OneSave'
      BY <1>3, OneSaveEach, PTL
    <2>2. lost' \in Nat
      BY <1>1 DEF StoreInv, StoreTyped
    <2> QED BY <1>1, <1>2, <2>1, <2>2 DEF StoreInv, StoreTyped
  <1>5. StoreConsent' /\ Prudent'
    BY <1>1 DEF StoreInv, StoreConsent, Granted, Prudent
  <1> QED BY <1>3, <1>4, <1>5 DEF StoreInv

-----------------------------------------------------------------------------
(* The rest of the invariant: the user's side and the live cycles'. *)

UserTyped ==
  /\ overdue \subseteq queued /\ queued \subseteq Ids
  /\ asked \in [Users -> SUBSET Ids]
  /\ grants \in [Ids -> Nat]
  /\ commands \in 0 .. MaxCommands

CycleTyped ==
  /\ stage \in [Workers -> {"idle", "expired", "queue", "settle", "loop"}]
  /\ todo \in [Workers -> SUBSET Ids]
  /\ verdict \in [Workers -> SUBSET Verdicts]
  /\ \A w \in Workers : (stage[w] = "settle") <=> (verdict[w] # {})
  /\ OneVerdict
  /\ fires \in [Ids -> Nat]
  /\ crashes \in 0 .. MaxCrashes

CycleConsent ==
  \A id \in Ids :
    /\ \A w \in Workers : id \in todo[w] => Granted(id)
    /\ fires[id] > 0 => Granted(id)

\* The invariant is these four parts.
LEMMA PartsMake ==
  StoreInv /\ UserTyped /\ CycleTyped /\ CycleConsent => QueueInv
  BY DEF QueueInv, StoreInv, StoreTyped, OneSave, UserTyped, CycleTyped, CycleConsent,
         StoreConsent, Consent, OneVerdict, TypeOK

\* And each of them follows from it.
LEMMA PartsOf ==
  QueueInv => StoreInv /\ UserTyped /\ CycleTyped /\ CycleConsent
  BY DEF QueueInv, StoreInv, StoreTyped, OneSave, UserTyped, CycleTyped, CycleConsent,
         StoreConsent, Consent, OneVerdict, TypeOK

\* A call of the store next to anything that leaves the types alone and fires
\* nothing without the user's consent.
LEMMA CallStep ==
  ASSUME QueueInv, NEW p \in Procs, NEW G \in SUBSET Ids, Free(p), Called(p, G),
         \A id \in Ids : Granted(id) \/ id \in G => Granted(id)',
         UserTyped', CycleTyped', CycleConsent'
  PROVE  QueueInv'
  <1>1. StoreInv'
    BY PartsOf, CallKeeps
  <1> QED BY <1>1, PartsMake, PTL

\* A step that leaves the file and its copies alone.
LEMMA QuietStep ==
  ASSUME QueueInv, UNCHANGED <<store, grants>>, UserTyped', CycleTyped', CycleConsent'
  PROVE  QueueInv'
  <1>1. StoreInv'
    BY PartsOf DEF StoreInv, StoreTyped, OneSave, OneCallEach, StoreConsent, Prudent, Granted, store
  <1> QED BY <1>1, PartsMake, PTL

\* What a live cycle keeps to itself during a step of the user.
LEMMA CycleAside ==
  ASSUME QueueInv, UNCHANGED <<cycle, fires, crashes>>, 
         \A id \in Ids : Granted(id) => Granted(id)'
  PROVE  CycleTyped' /\ CycleConsent'
  BY PartsOf DEF CycleTyped, OneVerdict, CycleConsent, cycle

\* The user's OKs: Decide counts exactly those it asks the store to write.
LEMMA DecideCalls ==
  ASSUME QueueInv, NEW p \in Procs, NEW id \in Ids, NEW status \in Statuses,
         Decide(p, id, status)
  PROVE  LET G == IF status = "approved" THEN {id} ELSE {}
         IN  /\ G \in SUBSET Ids /\ Called(p, G)
             /\ \A i \in Ids : grants'[i] = IF i \in G THEN grants[i] + 1 ELSE grants[i]
             /\ grants' \in [Ids -> Nat]
             /\ \A i \in Ids : Granted(i) \/ i \in G => Granted(i)'
  <1> DEFINE G == IF status = "approved" THEN {id} ELSE {}
  <1>1. G \in SUBSET Ids
    OBVIOUS
  <1>2. Called(p, G)
    BY TransitionCalls DEF Decide, QueueInv
  <1>3. grants \in [Ids -> Nat]
    BY DEF QueueInv, TypeOK
  <1>4. /\ grants' \in [Ids -> Nat]
        /\ \A i \in Ids : grants'[i] = IF i \in G THEN grants[i] + 1 ELSE grants[i]
    <2>1. CASE status = "approved"
      BY <1>3, <2>1 DEF Decide
    <2>2. CASE status # "approved"
      BY <1>3, <2>2 DEF Decide
    <2> QED BY <2>1, <2>2
  <1>5. \A i \in Ids : Granted(i) \/ i \in G => Granted(i)'
    BY <1>3, <1>4 DEF Granted
  <1> QED BY <1>1, <1>2, <1>3, <1>4, <1>5

\* A decision, typed or given in a dialogue.
LEMMA DecideKeeps ==
  ASSUME QueueInv, NEW u \in Users, NEW id \in Ids, NEW status \in Statuses,
         UserCall(u), Decide(u, id, status), asked' \in [Users -> SUBSET Ids]
  PROVE  QueueInv'
  <1> DEFINE G == IF status = "approved" THEN {id} ELSE {}
  <1> u \in Procs
    BY DEF Procs
  <1>1. /\ G \in SUBSET Ids /\ Called(u, G) /\ grants' \in [Ids -> Nat]
        /\ \A i \in Ids : Granted(i) \/ i \in G => Granted(i)'
    BY DecideCalls
  <1>2. UserTyped'
    BY <1>1, PartsOf, ApprovalsAssumption DEF UserCall, UserTyped
  <1>3. CycleTyped' /\ CycleConsent'
    BY <1>1, CycleAside DEF UserCall
  <1> QED
    <2>1. Free(u)
      BY DEF UserCall
    <2> HIDE DEF G
    <2> QED BY <1>1, <1>2, <1>3, <2>1, CallStep

\* The commands that only clear up.
LEMMA ClearKeeps ==
  ASSUME QueueInv, NEW u \in Users, UserCall(u), UNCHANGED <<asked, grants>>,
         ExpireOverdue(u) \/ PruneTerminal(u)
  PROVE  QueueInv'
  <1> u \in Procs
    BY DEF Procs
  <1>1. Called(u, {})
    BY ExpireCalls, PruneCalls DEF QueueInv
  <1>2. UserTyped'
    BY PartsOf, ApprovalsAssumption DEF UserCall, UserTyped
  <1>3. \A id \in Ids : Granted(id) => Granted(id)'
    BY DEF Granted
  <1>4. CycleTyped' /\ CycleConsent'
    BY <1>3, CycleAside DEF UserCall
  <1> QED BY <1>1, <1>2, <1>3, <1>4, CallStep DEF UserCall

\* Whatever the user does keeps the invariant.
LEMMA UserKeeps ==
  ASSUME QueueInv, NEW u \in Users, UserStep(u)
  PROVE  QueueInv'
  <1> DEFINE aside == UNCHANGED <<store, overdue, cycle, queued, fires, grants, commands, crashes>>
  <1>1. ASSUME aside, asked' \in [Users -> SUBSET Ids]
        PROVE  QueueInv'
    <2>1. UserTyped'
      BY <1>1, PartsOf DEF UserTyped
    <2>2. \A id \in Ids : Granted(id) => Granted(id)'
      BY <1>1 DEF Granted
    <2>3. CycleTyped' /\ CycleConsent'
      BY <1>1, <2>2, CycleAside
    <2> QED BY <1>1, <2>1, <2>3, QuietStep
  <1>2. ASSUME NEW id \in Ids, NEW status \in Decisions, TypedDecision(u, id, status)
        PROVE  QueueInv'
    <2>1. status \in Statuses /\ asked' \in [Users -> SUBSET Ids]
      BY <1>2, PartsOf DEF TypedDecision, Decisions, Statuses, Terminal, UserTyped
    <2> QED BY <1>2, <2>1, DecideKeeps DEF TypedDecision
  <1>3. CASE StartInline(u)
    BY <1>1, <1>3, PartsOf DEF StartInline, UserTyped, EntriesIn
  <1>4. CASE LeaveInline(u)
    BY <1>1, <1>4, PartsOf DEF LeaveInline, UserTyped
  <1>5. ASSUME NEW id \in Ids, AnswerInline(u, id)
        PROVE  QueueInv'
    <2>1. asked' \in [Users -> SUBSET Ids]
      BY <1>5, PartsOf DEF AnswerInline, UserTyped
    <2>2. \E status \in Statuses : Decide(u, id, status)
      BY <1>5 DEF AnswerInline, Decisions, Statuses, Terminal
    <2> QED BY <1>5, <2>1, <2>2, DecideKeeps DEF AnswerInline
  <1>6. CASE ExpireCommand(u)
    BY <1>6, ClearKeeps DEF ExpireCommand
  <1>7. CASE PruneCommand(u)
    BY <1>7, ClearKeeps DEF PruneCommand
  <1> QED BY <1>2, <1>3, <1>4, <1>5, <1>6, <1>7 DEF UserStep

\* What the user keeps to themselves during a step of a live cycle.
LEMMA UserAside ==
  ASSUME QueueInv, NEW w \in Workers, NEW to, Advance(w, to), UNCHANGED queued
  PROVE  /\ UserTyped'
         /\ \A id \in Ids : Granted(id) => Granted(id)'
  BY PartsOf DEF Advance, UserTyped, Granted

\* A save keeps the whole invariant.
LEMMA SaveStep ==
  ASSUME QueueInv, NEW s \in saves, Save(s)
  PROVE  QueueInv'
  <1>1. StoreInv'
    BY PartsOf, SaveKeeps
  <1>2. UserTyped' /\ CycleTyped' /\ CycleConsent'
    BY PartsOf DEF Save, UserTyped, CycleTyped, OneVerdict, CycleConsent, Granted, cycle
  <1> QED BY <1>1, <1>2, PartsMake, PTL

\* What a live cycle does keeps it.
LEMMA WorkerKeeps ==
  ASSUME QueueInv, NEW w \in Workers, WorkerStep(w)
  PROVE  QueueInv'
  <1> w \in Procs
    BY DEF Procs
  <1>0. /\ StoreInv /\ UserTyped /\ CycleTyped /\ CycleConsent
        /\ TypeOK
    BY PartsOf DEF QueueInv
  <1>1. CASE StartQueue(w)
    <2>1. Called(w, {})
      BY <1>0, <1>1, ExpireCalls DEF StartQueue
    <2>2. UserTyped' /\ \A id \in Ids : Granted(id) => Granted(id)'
      BY <1>1, UserAside DEF StartQueue
    <2>3. CycleTyped'
      BY <1>0, <1>1 DEF StartQueue, Advance, CycleTyped, OneVerdict
    <2>4. CycleConsent'
      BY <1>0, <1>1, <2>2 DEF StartQueue, CycleConsent
    <2> QED BY <1>1, <2>1, <2>2, <2>3, <2>4, CallStep DEF StartQueue
  <1>2. CASE LoadActionable(w)
    <2>1. UserTyped' /\ \A id \in Ids : Granted(id) => Granted(id)'
      BY <1>2, UserAside DEF LoadActionable
    <2>2. CycleTyped'
      BY <1>0, <1>2 DEF LoadActionable, Advance, CycleTyped, OneVerdict, EntriesIn
    <2>3. CycleConsent'
      BY <1>0, <1>2, <2>1 DEF LoadActionable, CycleConsent, CycleTyped, EntriesIn, StoreInv, StoreConsent
    <2> QED BY <1>2, <2>1, <2>2, <2>3, QuietStep DEF LoadActionable, Advance
  <1>3. ASSUME NEW id \in Ids, FireApproved(w, id)
        PROVE  QueueInv'
    <2>0. PICK to \in {"executed", "rejected"}, sent \in {0, 1} :
            /\ fires' = [fires EXCEPT ![id] = @ + sent]
            /\ verdict' = [verdict EXCEPT ![w] = {[id |-> id, to |-> to]}]
      BY <1>3 DEF FireApproved
    <2>1. UserTyped' /\ \A i \in Ids : Granted(i) => Granted(i)'
      BY <1>3, UserAside DEF FireApproved
    <2>2. CycleTyped'
      <3>1. fires' \in [Ids -> Nat]
        BY <1>0, <2>0 DEF CycleTyped
      <3>2. verdict' \in [Workers -> SUBSET Verdicts] /\ verdict'[w] # {}
        <4>1. [id |-> id, to |-> to] \in Verdicts
          BY <2>0 DEF Verdicts
        <4> QED BY <1>0, <2>0, <4>1 DEF CycleTyped
      <3>3. \A v \in Workers : v # w => verdict'[v] = verdict[v]
        BY <1>0, <2>0 DEF CycleTyped
      <3>4. stage' = [stage EXCEPT ![w] = "settle"] /\ crashes' = crashes
        BY <1>3 DEF FireApproved, Advance
      <3>5. todo' \in [Workers -> SUBSET Ids]
        BY <1>0, <1>3 DEF FireApproved, CycleTyped
      <3>6. OneVerdict'
        <4>1. verdict'[w] = {[id |-> id, to |-> to]}
          BY <1>0, <2>0 DEF CycleTyped
        <4> QED BY <1>0, <3>3, <4>1 DEF CycleTyped, OneVerdict
      <3> QED BY <1>0, <3>1, <3>2, <3>3, <3>4, <3>5, <3>6 DEF CycleTyped
    <2>3. CycleConsent'
      <3>1. \A i \in Ids : fires'[i] > 0 => fires[i] > 0 \/ i = id
        BY <1>0, <2>0 DEF CycleTyped
      <3>2. Granted(id)
        BY <1>0, <1>3 DEF FireApproved, CycleConsent
      <3>3. \A v \in Workers : todo'[v] \subseteq todo[v]
        BY <1>0, <1>3 DEF FireApproved, CycleTyped
      <3> QED BY <1>0, <2>1, <3>1, <3>2, <3>3 DEF CycleConsent
    <2> QED BY <1>3, <2>1, <2>2, <2>3, QuietStep DEF FireApproved, Advance
  <1>4. CASE Settle(w)
    <2>1. PICK v \in verdict[w] : Transition(w, v.id, v.to)
      BY <1>4 DEF Settle
    <2>2. v.id \in Ids /\ v.to \in Statuses /\ v.to # "approved"
      BY <1>0, <2>1 DEF CycleTyped, Verdicts, Statuses, Terminal
    <2>3. Called(w, {})
      BY <1>0, <2>1, <2>2, TransitionCalls
    <2>4. UserTyped' /\ \A i \in Ids : Granted(i) => Granted(i)'
      BY <1>4, UserAside DEF Settle
    <2>5. CycleTyped'
      BY <1>0, <1>4 DEF Settle, Advance, CycleTyped, OneVerdict
    <2>6. CycleConsent'
      BY <1>0, <1>4, <2>4 DEF Settle, CycleConsent
    <2> QED BY <1>4, <2>3, <2>4, <2>5, <2>6, CallStep DEF Settle
  <1>5. CASE EndQueue(w) \/ EndCycle(w)
    <2>1. UserTyped' /\ \A i \in Ids : Granted(i) => Granted(i)'
      BY <1>5, UserAside DEF EndQueue, EndCycle
    <2>2. CycleTyped'
      BY <1>0, <1>5 DEF EndQueue, EndCycle, Advance, CycleTyped, OneVerdict
    <2>3. CycleConsent'
      BY <1>0, <1>5, <2>1 DEF EndQueue, EndCycle, CycleConsent
    <2> QED BY <1>5, <2>1, <2>2, <2>3, QuietStep DEF EndQueue, EndCycle, Advance
  <1> QED BY <1>1, <1>2, <1>3, <1>4, <1>5, SaveStep DEF WorkerStep

\* A queued proposal opens pending, a killed cycle takes its copy along, and time
\* passes.
LEMMA OtherKeeps ==
  ASSUME QueueInv,
         \/ \E w \in Workers : Crash(w) \/ (\E id \in Ids : QueueForApproval(w, id))
         \/ \E id \in Ids : DeadlinePasses(id)
         \/ UNCHANGED vars
  PROVE  QueueInv'
  <1>0. /\ StoreInv /\ UserTyped /\ CycleTyped /\ CycleConsent
        /\ TypeOK
    BY PartsOf DEF QueueInv
  <1>1. ASSUME NEW w \in Workers, Crash(w)
        PROVE  QueueInv'
    <2>1. saves' \subseteq saves /\ file' = file /\ lost' = lost /\ grants' = grants
      BY <1>1 DEF Crash
    <2>2. StoreInv'
      <3>1. OneCallEach'
        BY <1>0, <2>1, FS_Subset DEF StoreInv, OneCallEach
      <3>2. OneSave'
        BY <3>1, OneSaveEach, PTL
      <3> QED BY <1>0, <2>1, <3>1, <3>2 DEF StoreInv, StoreTyped, StoreConsent, Prudent, Granted
    <2>3. UserTyped'
      BY <1>0, <1>1 DEF Crash, UserTyped
    <2>4. CycleTyped'
      BY <1>0, <1>1, ApprovalsAssumption DEF Crash, CycleTyped, OneVerdict
    <2>5. CycleConsent'
      BY <1>0, <1>1, <2>1 DEF Crash, CycleTyped, CycleConsent, Granted
    <2> QED BY <2>2, <2>3, <2>4, <2>5, PartsMake, PTL
  <1>2. ASSUME NEW w \in Workers, NEW id \in Ids, QueueForApproval(w, id)
        PROVE  QueueInv'
    <2> w \in Procs
      BY DEF Procs
    <2>1. Called(w, {})
      BY <1>0, <1>2, UpsertCalls DEF QueueForApproval
    <2>2. UserTyped' /\ \A i \in Ids : Granted(i) => Granted(i)'
      BY <1>0, <1>2 DEF QueueForApproval, Advance, UserTyped, Granted
    <2>3. CycleTyped'
      BY <1>0, <1>2 DEF QueueForApproval, Advance, CycleTyped, OneVerdict
    <2>4. CycleConsent'
      BY <1>0, <1>2, <2>2 DEF QueueForApproval, CycleConsent
    <2> QED BY <1>2, <2>1, <2>2, <2>3, <2>4, CallStep DEF QueueForApproval
  <1>3. ASSUME NEW id \in Ids, DeadlinePasses(id)
        PROVE  QueueInv'
    <2>1. UserTyped'
      BY <1>0, <1>3 DEF DeadlinePasses, UserTyped
    <2>2. CycleTyped' /\ CycleConsent'
      BY <1>0, <1>3 DEF DeadlinePasses, CycleTyped, OneVerdict, CycleConsent, Granted, cycle
    <2> QED BY <1>3, <2>1, <2>2, QuietStep DEF DeadlinePasses
  <1>4. CASE UNCHANGED vars
    <2>1. UserTyped' /\ CycleTyped' /\ CycleConsent'
      BY <1>0, <1>4 DEF vars, cycle, UserTyped, CycleTyped, OneVerdict, CycleConsent, Granted
    <2> QED BY <1>4, <2>1, QuietStep DEF vars, store
  <1> QED BY <1>1, <1>2, <1>3, <1>4

\* The invariant holds of an empty queue.
LEMMA QueueInit == Init => QueueInv
  <1> SUFFICES ASSUME Init PROVE QueueInv
    OBVIOUS
  <1>1. OneCallEach
    BY FS_EmptySet DEF Init, OneCallEach
  <1>2. StoreTyped
    BY <1>1, OneSaveEach DEF Init, StoreTyped, Files, Statuses
  <1>3. StoreInv
    BY <1>1, <1>2 DEF Init, StoreInv, StoreConsent, Prudent
  <1>4. UserTyped /\ CycleTyped /\ CycleConsent
    BY ApprovalsAssumption DEF Init, UserTyped, CycleTyped, OneVerdict, CycleConsent
  <1> QED BY <1>3, <1>4, PartsMake

\* Every step keeps the invariant.
LEMMA QueueStep == QueueInv /\ [Next]_vars => QueueInv'
  <1> SUFFICES ASSUME QueueInv, [Next]_vars PROVE QueueInv'
    OBVIOUS
  <1> QED BY SaveStep, UserKeeps, WorkerKeeps, OtherKeeps DEF Next

\* So it holds throughout.
LEMMA QueueSafe == Spec => []QueueInv
  BY QueueInit, QueueStep, PTL DEF Spec

\* Every field of the approvals queue keeps its type, and no process has two calls
\* of the store in flight.
THEOREM QueueTyped == Spec => []TypeOK
  BY QueueSafe, PTL DEF QueueInv

\* No order goes out for a proposal the user never said yes to, with any number of
\* live cycles and users and whatever a stale save puts back.
THEOREM FiredByConsent == Spec => []FiredOnlyIfApproved
  <1>1. QueueInv => FiredOnlyIfApproved
    BY DEF QueueInv, Consent, Granted, FiredOnlyIfApproved
  <1> QED BY <1>1, QueueSafe, PTL

-----------------------------------------------------------------------------
(* The file loses no open question. *)

\* Only a save rewrites the file.
LEMMA OnlySavesWrite ==
  ASSUME [Next]_vars
  PROVE  UNCHANGED file \/ \E s \in saves : Save(s)
  <1>1. ASSUME NEW u \in Users, UserStep(u)
        PROVE  UNCHANGED file
    BY <1>1 DEF UserStep, TypedDecision, StartInline, LeaveInline, AnswerInline, ExpireCommand,
                PruneCommand, Decide, Transition, ExpireOverdue, PruneTerminal, Drop, Call, store
  <1>2. ASSUME NEW w \in Workers, WorkerStep(w), ~ \E s \in saves : Save(s)
        PROVE  UNCHANGED file
    BY <1>2 DEF WorkerStep, StartQueue, LoadActionable, FireApproved, Settle, EndQueue, EndCycle,
                Transition, ExpireOverdue, Call, store
  <1>3. ASSUME NEW w \in Workers, Crash(w) \/ (\E id \in Ids : QueueForApproval(w, id))
        PROVE  UNCHANGED file
    BY <1>3 DEF Crash, QueueForApproval, Upsert, Call
  <1>4. ASSUME \/ \E id \in Ids : DeadlinePasses(id)
               \/ UNCHANGED vars
        PROVE  UNCHANGED file
    BY <1>4 DEF DeadlinePasses, store, vars
  <1> QED BY <1>1, <1>2, <1>3, <1>4 DEF Next

\* A pending or approved entry leaves the file only under a save that had not seen
\* the file it overwrites; a prune never takes one.
THEOREM OpenEntriesStay == Spec => NoOpenEntryVanishes
  <1> DEFINE Kept == \A id \in Ids :
               file[id] \in {"pending", "approved"} /\ file'[id] = "absent" => lost' > lost
  <1>1. QueueInv /\ [Next]_vars => Kept
    <2> SUFFICES ASSUME QueueInv, [Next]_vars, NEW id \in Ids,
                        file[id] \in {"pending", "approved"}, file'[id] = "absent"
                 PROVE  lost' > lost
      OBVIOUS
    <2>1. PICK s \in saves : Save(s)
      BY OnlySavesWrite
    <2>2. s.new[id] = "absent"
      BY <2>1 DEF Save
    <2>3. s.base # file
      BY <2>2 DEF QueueInv, Prudent, Closed, Terminal
    <2> QED BY <2>1, <2>3 DEF Save, QueueInv, TypeOK
  <1>2. []QueueInv /\ [][Next]_vars => NoOpenEntryVanishes
    BY <1>1, PTL DEF NoOpenEntryVanishes
  <1> QED BY <1>2, QueueSafe, PTL DEF Spec

-----------------------------------------------------------------------------
(* Every order beyond the user's OKs, one for each live cycle, has its cause. *)

\* The live cycles ready to fire an entry can be counted.
LEMMA ReadyCounts ==
  ASSUME NEW id
  PROVE  /\ IsFiniteSet(Ready(id)) /\ Cardinality(Ready(id)) \in Nat
         /\ Cardinality(Ready(id)) <= Cycles
         /\ Cycles \in Nat
  BY FS_Subset, FS_CardinalityType, ApprovalsAssumption DEF Ready, Cycles

\* The OKs on their way can be counted.
LEMMA GrantingCounts ==
  ASSUME QueueInv, NEW id \in Ids
  PROVE  IsFiniteSet(Granting(id)) /\ Cardinality(Granting(id)) \in Nat
  <1>1. IsFiniteSet(Granting(id))
    BY FS_Subset DEF QueueInv, OneCallEach, Granting
  <1> QED BY <1>1, FS_CardinalityType

\* The numbers of an account are natural numbers.
LEMMA AccountCounts ==
  ASSUME QueueInv, NEW id \in Ids
  PROVE  /\ fires[id] \in Nat /\ grants[id] \in Nat /\ crashes \in Nat /\ lost \in Nat
         /\ Cardinality(Ready(id)) \in Nat /\ Cardinality(Granting(id)) \in Nat
         /\ Cycles \in Nat
  BY GrantingCounts, ReadyCounts, ApprovalsAssumption DEF QueueInv, TypeOK

\* No more live cycles ready and no more OKs on their way count for no more.
LEMMA FewerReady ==
  ASSUME NEW id, Ready(id)' \subseteq Ready(id)
  PROVE  /\ Cardinality(Ready(id)') \in Nat
         /\ Cardinality(Ready(id)') <= Cardinality(Ready(id))
  BY ReadyCounts, FS_Subset, FS_CardinalityType

LEMMA FewerGranting ==
  ASSUME QueueInv, NEW id \in Ids, NEW T \in SUBSET Granting(id)
  PROVE  Cardinality(T) \in Nat /\ Cardinality(T) <= Cardinality(Granting(id))
  BY GrantingCounts, FS_Subset, FS_CardinalityType

\* Every live cycle's share grows with the OKs.
LEMMA Shares ==
  ASSUME NEW n \in Nat, NEW a \in Nat, NEW b \in Nat, a <= b
  PROVE  n * a \in Nat /\ n * a <= n * b
  <1>1. PICK d \in Nat : b = a + d
    <2>1. b - a \in Nat /\ b = a + (b - a)
      OBVIOUS
    <2> QED BY <2>1
  <1>2. n * a \in Nat /\ n * d \in Nat
    OBVIOUS
  <1>3. n * b = n * a + n * d
    BY <1>1
  <1> QED BY <1>2, <1>3

\* An account stays balanced when orders and live cycles ready grow with the kills
\* only, and the OKs on their way with those given ...
LEMMA StepsEven ==
  ASSUME NEW n \in Nat, NEW f \in Nat, NEW r \in Nat, NEW g \in Nat, NEW k \in Nat,
         NEW c \in Nat, f + r + n * g <= n * k + c,
         NEW f2 \in Nat, NEW r2 \in Nat, NEW g2 \in Nat, NEW k2 \in Nat, NEW c2 \in Nat,
         f2 + r2 + c <= f + r + c2, g2 + k <= g + k2
  PROVE  f2 + r2 + n * g2 <= n * k2 + c2
  <1>1. n * (g2 + k) <= n * (g + k2)
    <2>1. g2 + k \in Nat /\ g + k2 \in Nat
      OBVIOUS
    <2> QED BY <2>1, Shares
  <1>2. n * (g2 + k) = n * g2 + n * k /\ n * (g + k2) = n * g + n * k2
    OBVIOUS
  <1>3. n * g \in Nat /\ n * k \in Nat /\ n * g2 \in Nat /\ n * k2 \in Nat
    BY Shares
  <1> QED BY <1>1, <1>2, <1>3

\* ... or when one cause more makes any number of the live cycles ready.
LEMMA CausePays ==
  ASSUME NEW n \in Nat, NEW f \in Nat, NEW r \in Nat, NEW g \in Nat, NEW k \in Nat,
         NEW c \in Nat, f + r + n * g <= n * k + c,
         NEW r2 \in Nat, NEW g2 \in Nat, NEW k2 \in Nat,
         r2 <= n, g2 + k + 1 <= g + k2
  PROVE  f + r2 + n * g2 <= n * k2 + c
  <1>1. n * (g2 + k + 1) <= n * (g + k2)
    <2>1. g2 + k + 1 \in Nat /\ g + k2 \in Nat
      OBVIOUS
    <2> QED BY <2>1, Shares
  <1>2. n * (g2 + k + 1) = n * g2 + n * k + n /\ n * (g + k2) = n * g + n * k2
    OBVIOUS
  <1>3. n * g \in Nat /\ n * k \in Nat /\ n * g2 \in Nat /\ n * k2 \in Nat
    BY Shares
  <1> QED BY <1>1, <1>2, <1>3

\* One proposal's account over a step that brings no cause.
LEMMA EvenStep ==
  ASSUME QueueInv, NEW id \in Ids, Balanced(id),
         fires'[id] \in Nat, grants'[id] \in Nat, lost' \in Nat, crashes' \in Nat,
         Cardinality(Ready(id)') \in Nat, Cardinality(Granting(id)') \in Nat,
         fires'[id] + Cardinality(Ready(id)') + crashes
           <= fires[id] + Cardinality(Ready(id)) + crashes',
         Cardinality(Granting(id)') + grants[id] + lost
           <= Cardinality(Granting(id)) + grants'[id] + lost'
  PROVE  Balanced(id)'
  <1> DEFINE r2 == Cardinality(Ready(id)')
             g2 == Cardinality(Granting(id)')
             k2 == grants'[id] + lost'
             r == Cardinality(Ready(id))
             g == Cardinality(Granting(id))
             k == grants[id] + lost
  <1>1. /\ r \in Nat /\ g \in Nat /\ k \in Nat /\ r2 \in Nat /\ g2 \in Nat /\ k2 \in Nat
        /\ fires[id] \in Nat /\ crashes \in Nat /\ Cycles \in Nat
    BY AccountCounts
  <1>2. fires[id] + r + Cycles * g <= Cycles * k + crashes
    BY DEF Balanced
  <1>3. fires'[id] + r2 + crashes <= fires[id] + r + crashes' /\ g2 + k <= g + k2
    BY <1>1, AccountCounts
  <1> HIDE DEF r, g, k, r2, g2, k2
  <1>4. fires'[id] + r2 + Cycles * g2 <= Cycles * k2 + crashes'
    BY <1>1, <1>2, <1>3, StepsEven
  <1>5. Cycles' = Cycles
    BY DEF Cycles
  <1> QED BY <1>4, <1>5 DEF Balanced, r2, g2, k2

\* One proposal's account over a step that brings one.
LEMMA CauseStep ==
  ASSUME QueueInv, NEW id \in Ids, Balanced(id),
         fires'[id] = fires[id], crashes' = crashes, grants'[id] \in Nat, lost' \in Nat,
         Cardinality(Granting(id)') \in Nat,
         Cardinality(Granting(id)') + grants[id] + lost + 1
           <= Cardinality(Granting(id)) + grants'[id] + lost'
  PROVE  Balanced(id)'
  <1> DEFINE r2 == Cardinality(Ready(id)')
             g2 == Cardinality(Granting(id)')
             k2 == grants'[id] + lost'
             r == Cardinality(Ready(id))
             g == Cardinality(Granting(id))
             k == grants[id] + lost
  <1>1. /\ r \in Nat /\ g \in Nat /\ k \in Nat /\ g2 \in Nat /\ k2 \in Nat
        /\ fires[id] \in Nat /\ crashes \in Nat /\ Cycles \in Nat
    BY AccountCounts
  <1>2. fires[id] + r + Cycles * g <= Cycles * k + crashes
    BY DEF Balanced
  <1>3. g2 + k + 1 <= g + k2
    BY <1>1, AccountCounts
  <1>4. r2 \in Nat /\ r2 <= Cycles
    <2>1. Ready(id)' \subseteq Workers
      BY DEF Ready
    <2> QED BY <2>1, FS_Subset, FS_CardinalityType, ApprovalsAssumption DEF Cycles
  <1> HIDE DEF r, g, k, r2, g2, k2
  <1>5. fires[id] + r2 + Cycles * g2 <= Cycles * k2 + crashes
    BY <1>1, <1>2, <1>3, <1>4, CausePays
  <1>6. Cycles' = Cycles
    BY DEF Cycles
  <1> QED BY <1>5, <1>6 DEF Balanced, r2, g2, k2

\* No live cycle may fire what it might not fire before.
Quiet == \A w \in Workers, id \in Ids : (MayFire(w, id))' => MayFire(w, id)

\* A step after which no more may be fired, no more is granted in a copy, and
\* nothing has been, keeps the account.
LEMMA QuietPays ==
  ASSUME QueueInv, Paid,
         fires' = fires, grants' = grants, lost' = lost, crashes' = crashes,
         Quiet, \A id \in Ids : Granting(id)' \subseteq Granting(id)
  PROVE  Paid'
  <1> SUFFICES ASSUME NEW id \in Ids
               PROVE  Balanced(id)'
    BY DEF Paid
  <1>1. /\ Cardinality(Ready(id)') \in Nat
        /\ Cardinality(Ready(id)') <= Cardinality(Ready(id))
    BY FewerReady DEF Quiet, Ready
  <1>2. /\ Cardinality(Granting(id)') \in Nat
        /\ Cardinality(Granting(id)') <= Cardinality(Granting(id))
    BY FewerGranting
  <1> QED BY <1>1, <1>2, AccountCounts, EvenStep DEF Paid

\* A call of the store puts no more OKs on their way than the user gave.
LEMMA CallGrants ==
  ASSUME QueueInv, NEW p \in Procs, NEW G \in SUBSET Ids, Called(p, G), NEW id \in Ids
  PROVE  /\ Cardinality(Granting(id)') \in Nat
         /\ Cardinality(Granting(id)') <= Cardinality(Granting(id)) + 1
         /\ id \notin G => Cardinality(Granting(id)') <= Cardinality(Granting(id))
  <1>1. CASE UNCHANGED store
    <2>1. Granting(id)' = Granting(id)
      BY <1>1 DEF store, Granting
    <2> QED BY <2>1, AccountCounts
  <1>2. ASSUME NEW new \in Files, Call(p, new),
               \A i \in Ids : new[i] = "approved" => file[i] = "approved" \/ i \in G
        PROVE  /\ Cardinality(Granting(id)') \in Nat
               /\ Cardinality(Granting(id)') <= Cardinality(Granting(id)) + 1
               /\ id \notin G => Cardinality(Granting(id)') <= Cardinality(Granting(id))
    <2> DEFINE s == [by |-> p, base |-> file, new |-> new]
               T == Granting(id) \cup {s}
    <2>1. Granting(id)' \subseteq T
      BY <1>2 DEF Call, Granting
    <2>2. id \notin G => Granting(id)' \subseteq Granting(id)
      BY <1>2 DEF Call, Granting
    <2>3. /\ IsFiniteSet(T) /\ Cardinality(T) \in Nat
          /\ Cardinality(T) <= Cardinality(Granting(id)) + 1
      <3> HIDE DEF s
      <3>1. IsFiniteSet(T)
        BY GrantingCounts, FS_AddElement
      <3>2. Cardinality(T) = Cardinality(Granting(id))
            \/ Cardinality(T) = Cardinality(Granting(id)) + 1
        BY GrantingCounts, FS_AddElement
      <3> QED BY <3>1, <3>2, GrantingCounts
    <2>4. Cardinality(Granting(id)') \in Nat /\ Cardinality(Granting(id)') <= Cardinality(T)
      BY <2>1, <2>3, FS_Subset, FS_CardinalityType
    <2>5. id \notin G => Cardinality(Granting(id)') <= Cardinality(Granting(id))
      BY <2>2, FewerGranting
    <2> QED BY <2>3, <2>4, <2>5, GrantingCounts
  <1> QED BY <1>1, <1>2 DEF Called

\* A call of the store, paid for by the user's OKs for the entries it approves.
LEMMA CallPays ==
  ASSUME QueueInv, Paid,
         NEW p \in Procs, NEW G \in SUBSET Ids, Called(p, G),
         fires' = fires, crashes' = crashes,
         \A id \in Ids : grants'[id] = IF id \in G THEN grants[id] + 1 ELSE grants[id],
         Quiet
  PROVE  Paid'
  <1> SUFFICES ASSUME NEW id \in Ids
               PROVE  Balanced(id)'
    BY DEF Paid
  <1>1. /\ Cardinality(Ready(id)') \in Nat
        /\ Cardinality(Ready(id)') <= Cardinality(Ready(id))
    BY FewerReady DEF Quiet, Ready
  <1>2. lost' = lost
    BY DEF Called, Call, store
  <1>3. Balanced(id)
    BY DEF Paid
  <1>4. /\ grants'[id] \in Nat /\ Cardinality(Granting(id)') \in Nat
        /\ Cardinality(Granting(id)') + grants[id] <= Cardinality(Granting(id)) + grants'[id]
    <2>1. CASE id \in G
      <3>1. grants'[id] = grants[id] + 1
        BY <2>1
      <3> QED BY <3>1, CallGrants, AccountCounts
    <2>2. CASE id \notin G
      <3>1. grants'[id] = grants[id]
        BY <2>2
      <3> QED BY <2>2, <3>1, CallGrants, AccountCounts
    <2> QED BY <2>1, <2>2
  <1> QED BY <1>1, <1>2, <1>3, <1>4, AccountCounts, EvenStep

\* A copy more cannot make more entries fire.
LEMMA CallFiresNoMore ==
  ASSUME NEW p, NEW G, Called(p, G), UNCHANGED <<todo, verdict>>
  PROVE  Quiet
  <1>1. file' = file /\ saves \subseteq saves'
    BY DEF Called, Call, store
  <1> QED BY <1>1 DEF Quiet, MayFire, Settling

\* A save either has seen the file it replaces, and then approves nothing that was
\* not approved or on its way, or it is a lost update, which pays for an order of
\* each live cycle.
LEMMA SavePays ==
  ASSUME QueueInv, Paid, NEW s \in saves, Save(s)
  PROVE  Paid'
  <1> SUFFICES ASSUME NEW id \in Ids
               PROVE  Balanced(id)'
    BY DEF Paid
  <1>1. Granting(id)' = Granting(id) \ {s}
    BY DEF Save, Granting
  <1>2. /\ Cardinality(Granting(id)') \in Nat
        /\ Cardinality(Granting(id)') <= Cardinality(Granting(id))
    BY <1>1, FewerGranting
  <1>3. fires' = fires /\ grants' = grants /\ crashes' = crashes
    BY DEF Save
  <1>4. Balanced(id)
    BY DEF Paid
  <1>5. CASE s.base # file
    <2>1. lost' = lost + 1
      BY <1>5 DEF Save
    <2> QED BY <1>2, <1>3, <1>4, <2>1, AccountCounts, CauseStep
  <1>6. CASE s.base = file /\ s \in Granting(id)
    <2>1. lost' = lost
      BY <1>6 DEF Save
    <2>2. Cardinality(Granting(id)') = Cardinality(Granting(id)) - 1
      BY <1>1, <1>6, FS_RemoveElement, GrantingCounts
    <2> QED BY <1>2, <1>3, <1>4, <2>1, <2>2, AccountCounts, CauseStep
  <1>7. CASE s.base = file /\ s \notin Granting(id)
    <2>1. lost' = lost
      BY <1>7 DEF Save
    <2>2. Ready(id)' \subseteq Ready(id)
      <3>1. file'[id] = "approved" => file[id] = "approved" /\ s.new[id] = "approved"
        BY <1>7 DEF Save, Granting
      <3> QED BY <3>1 DEF Ready, MayFire, Settling, Save, cycle
    <2> QED BY <1>2, <1>3, <1>4, <2>1, <2>2, FewerReady, AccountCounts, EvenStep
  <1> QED BY <1>5, <1>6, <1>7

\* An order uses up the entry of the live cycle that sends it, for which the entry
\* stays spoken for until its outcome is in the file.
LEMMA FirePays ==
  ASSUME QueueInv, Paid, NEW w \in Workers, NEW id \in Ids, FireApproved(w, id)
  PROVE  Paid'
  <1> SUFFICES ASSUME NEW i \in Ids
               PROVE  Balanced(i)'
    BY DEF Paid
  <1>0. CycleTyped
    BY PartsOf
  <1>1. PICK to \in {"executed", "rejected"}, sent \in {0, 1} :
          /\ fires' = [fires EXCEPT ![id] = @ + sent]
          /\ verdict' = [verdict EXCEPT ![w] = {[id |-> id, to |-> to]}]
    BY DEF FireApproved
  <1>2. /\ verdict'[w] = {[id |-> id, to |-> to]} /\ verdict[w] = {}
        /\ \A x \in Workers \ {w} : verdict'[x] = verdict[x] /\ todo'[x] = todo[x]
    BY <1>0, <1>1 DEF CycleTyped, FireApproved
  <1>3. /\ todo'[w] = todo[w] \ {id} /\ file' = file /\ saves' = saves
        /\ grants' = grants /\ crashes' = crashes /\ lost' = lost
    BY <1>0 DEF FireApproved, Advance, store, CycleTyped
  <1>4. Granting(i)' = Granting(i)
    BY <1>3 DEF Granting
  <1>5. Balanced(i)
    BY DEF Paid
  <1>6. \A x \in Workers \ {w} : (MayFire(x, i))' => MayFire(x, i)
    BY <1>2, <1>3 DEF MayFire, Settling
  <1>7. CASE i = id
    <2>1. MayFire(w, i) /\ ~(MayFire(w, i))'
      <3>1. \E v \in verdict'[w] : v.id = id
        BY <1>2
      <3>2. Settling(w, id)'
        BY <3>1 DEF Settling
      <3> QED BY <1>3, <1>7, <3>2 DEF MayFire, FireApproved
    <2>2. Ready(i)' \subseteq Ready(i) \ {w} /\ w \in Ready(i)
      BY <1>6, <2>1 DEF Ready
    <2>3. /\ Cardinality(Ready(i)') \in Nat
          /\ Cardinality(Ready(i)') + 1 <= Cardinality(Ready(i))
      <3>1. /\ IsFiniteSet(Ready(i) \ {w})
            /\ Cardinality(Ready(i) \ {w}) = Cardinality(Ready(i)) - 1
        BY <2>2, ReadyCounts, FS_RemoveElement
      <3>2. /\ Cardinality(Ready(i)') \in Nat
            /\ Cardinality(Ready(i)') <= Cardinality(Ready(i) \ {w})
        BY <2>2, <3>1, FS_Subset, FS_CardinalityType
      <3> QED BY <3>1, <3>2, ReadyCounts
    <2>4. fires'[i] = fires[i] + sent
      BY <1>0, <1>1, <1>7 DEF CycleTyped
    <2> QED BY <1>3, <1>4, <1>5, <2>3, <2>4, AccountCounts, EvenStep
  <1>8. CASE i # id
    <2>1. (MayFire(w, i))' => MayFire(w, i)
      BY <1>2, <1>3, <1>8 DEF MayFire, Settling
    <2>2. Ready(i)' \subseteq Ready(i)
      BY <1>6, <2>1 DEF Ready
    <2>3. fires'[i] = fires[i]
      BY <1>0, <1>1, <1>8 DEF CycleTyped
    <2> QED BY <1>3, <1>4, <1>5, <2>2, <2>3, FewerReady, AccountCounts, EvenStep
  <1> QED BY <1>7, <1>8

\* Until then the outcome is in the copy that is being saved.
LEMMA SettlePays ==
  ASSUME QueueInv, Paid, NEW w \in Workers, Settle(w)
  PROVE  Paid'
  <1> w \in Procs
    BY DEF Procs
  <1>0. CycleTyped /\ TypeOK
    BY PartsOf DEF QueueInv
  <1>1. PICK v \in verdict[w] : Transition(w, v.id, v.to)
    BY DEF Settle
  <1>2. v.id \in Ids /\ v.to \in Statuses /\ v.to # "approved"
    BY <1>0, <1>1 DEF CycleTyped, Verdicts, Statuses, Terminal
  <1>3. Called(w, {})
    BY <1>0, <1>1, <1>2, TransitionCalls
  <1>4. Quiet
    <2> SUFFICES ASSUME NEW x \in Workers, NEW id \in Ids, (MayFire(x, id))'
                 PROVE  MayFire(x, id)
      BY DEF Quiet
    <2>1. file' = file /\ saves \subseteq saves' /\ todo' = todo
      BY <1>3 DEF Called, Call, store, Settle
    <2>2. CASE id \in todo[x]
      BY <2>2 DEF MayFire
    <2>3. CASE x # w
      <3>1. verdict'[x] = verdict[x]
        BY <1>0, <2>3 DEF Settle, CycleTyped
      <3> QED BY <2>1, <3>1 DEF MayFire, Settling
    <2>4. CASE x = w /\ id \notin todo[w]
      <3>1. file[id] = "approved" /\ ~ Settling(w, id)'
        BY <2>1, <2>4 DEF MayFire
      <3>2. ~ \E s \in saves : s.by = w /\ s.new[id] # "approved"
        BY <2>1, <3>1 DEF Settling
      <3>3. id # v.id
        <4> SUFFICES ASSUME id = v.id PROVE FALSE
          OBVIOUS
        <4> DEFINE new == [file EXCEPT ![id] = v.to]
                   s == [by |-> w, base |-> file, new |-> new]
        <4>1. s \in saves'
          BY <1>1, <3>1 DEF Transition, Call
        <4>2. s.by = w /\ s.new[id] # "approved"
          BY <1>0, <1>2 DEF TypeOK, Files
        <4> QED BY <3>1, <4>1, <4>2 DEF Settling
      <3>4. \A u \in verdict[w] : u = v
        BY <1>0, <1>1 DEF CycleTyped, OneVerdict
      <3> QED BY <2>4, <3>1, <3>2, <3>3, <3>4 DEF MayFire, Settling
    <2> QED BY <2>2, <2>3, <2>4
  <1>5. fires' = fires /\ crashes' = crashes /\ grants' = grants
    BY DEF Settle, Advance
  <1> QED BY <1>3, <1>4, <1>5, CallPays

\* A killed live cycle may leave an approval in the file that it has fired, and
\* then fires it again.
LEMMA CrashPays ==
  ASSUME QueueInv, Paid, NEW w \in Workers, Crash(w)
  PROVE  Paid'
  <1> SUFFICES ASSUME NEW id \in Ids
               PROVE  Balanced(id)'
    BY DEF Paid
  <1>0. CycleTyped
    BY PartsOf
  <1>1. Granting(id)' \subseteq Granting(id)
    BY DEF Crash, Granting
  <1>2. /\ Cardinality(Granting(id)') \in Nat
        /\ Cardinality(Granting(id)') <= Cardinality(Granting(id))
    BY <1>1, FewerGranting
  <1>3. Ready(id)' \subseteq Ready(id) \cup {w}
    <2> SUFFICES ASSUME NEW x \in Workers, x # w, (MayFire(x, id))'
                 PROVE  MayFire(x, id)
      BY DEF Ready
    <2>1. /\ todo'[x] = todo[x] /\ verdict'[x] = verdict[x] /\ file' = file
          /\ \A s \in saves : s.by = x => s \in saves'
      BY <1>0 DEF Crash, CycleTyped
    <2> QED BY <2>1 DEF MayFire, Settling
  <1>4. /\ Cardinality(Ready(id)') \in Nat
        /\ Cardinality(Ready(id)') <= Cardinality(Ready(id)) + 1
    <2>1. /\ IsFiniteSet(Ready(id) \cup {w})
          /\ Cardinality(Ready(id) \cup {w}) <= Cardinality(Ready(id)) + 1
      BY ReadyCounts, FS_AddElement
    <2>2. /\ Cardinality(Ready(id)') \in Nat
          /\ Cardinality(Ready(id)') <= Cardinality(Ready(id) \cup {w})
      BY <1>3, <2>1, FS_Subset, FS_CardinalityType
    <2>3. Cardinality(Ready(id) \cup {w}) \in Nat
      BY <2>1, FS_CardinalityType
    <2> QED BY <2>1, <2>2, <2>3, ReadyCounts
  <1>5. fires' = fires /\ grants' = grants /\ lost' = lost /\ crashes' = crashes + 1
    BY DEF Crash
  <1>6. Balanced(id)
    BY DEF Paid
  <1> QED BY <1>2, <1>4, <1>5, <1>6, AccountCounts, EvenStep

\* What the user does adds no order, and every OK they send on its way is counted.
LEMMA UserPays ==
  ASSUME QueueInv, Paid, NEW u \in Users, UserStep(u)
  PROVE  Paid'
  <1> u \in Procs
    BY DEF Procs
  <1>1. ASSUME NEW id \in Ids, NEW status \in Statuses, UserCall(u), Decide(u, id, status)
        PROVE  Paid'
    <2> DEFINE G == IF status = "approved" THEN {id} ELSE {}
    <2>1. /\ G \in SUBSET Ids /\ Called(u, G)
          /\ \A i \in Ids : grants'[i] = IF i \in G THEN grants[i] + 1 ELSE grants[i]
      BY <1>1, DecideCalls
    <2>2. UNCHANGED <<cycle, fires, crashes>>
      BY <1>1 DEF UserCall
    <2> HIDE DEF G
    <2>3. Quiet
      BY <2>1, <2>2, CallFiresNoMore DEF cycle
    <2> QED BY <2>1, <2>2, <2>3, CallPays
  <1>2. ASSUME UserCall(u), UNCHANGED grants, ExpireOverdue(u) \/ PruneTerminal(u)
        PROVE  Paid'
    <2>1. Called(u, {})
      BY <1>2, ExpireCalls, PruneCalls DEF QueueInv
    <2>2. UNCHANGED <<cycle, fires, crashes>>
      BY <1>2 DEF UserCall
    <2>3. Quiet
      BY <2>1, <2>2, CallFiresNoMore DEF cycle
    <2> QED BY <1>2, <2>1, <2>2, <2>3, CallPays
  <1>3. CASE StartInline(u) \/ LeaveInline(u)
    <2>1. UNCHANGED <<file, saves, lost, todo, verdict, fires, grants, crashes>>
      BY <1>3 DEF StartInline, LeaveInline, store, cycle
    <2>2. Quiet
      BY <2>1 DEF Quiet, MayFire, Settling
    <2>3. \A i \in Ids : Granting(i)' \subseteq Granting(i)
      BY <2>1 DEF Granting
    <2> QED BY <2>1, <2>2, <2>3, QuietPays
  <1>4. \A status \in Decisions \cup {"expired"} : status \in Statuses
    BY DEF Decisions, Statuses, Terminal
  <1>5. ASSUME NEW id \in Ids, NEW status \in Decisions, TypedDecision(u, id, status)
        PROVE  Paid'
    BY <1>1, <1>4, <1>5 DEF TypedDecision
  <1>6. ASSUME NEW id \in Ids, AnswerInline(u, id)
        PROVE  Paid'
    <2>1. \E status \in Statuses : Decide(u, id, status)
      BY <1>4, <1>6 DEF AnswerInline
    <2> QED BY <1>1, <1>6, <2>1 DEF AnswerInline
  <1>7. CASE ExpireCommand(u) \/ PruneCommand(u)
    BY <1>2, <1>7 DEF ExpireCommand, PruneCommand
  <1> QED BY <1>3, <1>5, <1>6, <1>7 DEF UserStep

\* What the live cycle does is paid for: it fires what it was ahead of, and loads
\* only what is approved and not spoken for.
LEMMA WorkerPays ==
  ASSUME QueueInv, Paid, NEW w \in Workers, WorkerStep(w)
  PROVE  Paid'
  <1> w \in Procs
    BY DEF Procs
  <1>0. CycleTyped /\ TypeOK
    BY PartsOf DEF QueueInv
  <1>1. CASE StartQueue(w)
    <2>1. Called(w, {})
      BY <1>0, <1>1, ExpireCalls DEF StartQueue
    <2>2. UNCHANGED <<todo, verdict, fires, grants, crashes>>
      BY <1>1 DEF StartQueue, Advance
    <2>3. Quiet
      BY <2>1, <2>2, CallFiresNoMore
    <2> QED BY <2>1, <2>2, <2>3, CallPays
  <1>2. CASE LoadActionable(w)
    <2>1. UNCHANGED <<file, saves, lost, verdict, fires, grants, crashes>>
      BY <1>2 DEF LoadActionable, Advance, store
    <2>2. \A i \in Ids : ~Settling(w, i)
      BY <1>0, <1>2 DEF LoadActionable, Settling, Free, CycleTyped
    <2>3. /\ \A i \in todo'[w] : file[i] = "approved"
          /\ \A x \in Workers \ {w} : todo'[x] = todo[x]
      BY <1>0, <1>2 DEF LoadActionable, EntriesIn, CycleTyped
    <2>4. \A i \in Ids : (MayFire(w, i))' => MayFire(w, i)
      BY <2>1, <2>2, <2>3 DEF MayFire
    <2>5. \A x \in Workers \ {w}, i \in Ids : (MayFire(x, i))' => MayFire(x, i)
      BY <2>1, <2>3 DEF MayFire, Settling
    <2>6. \A i \in Ids : Granting(i)' \subseteq Granting(i)
      BY <2>1 DEF Granting
    <2> QED BY <2>1, <2>4, <2>5, <2>6, QuietPays DEF Quiet
  <1>3. CASE EndQueue(w) \/ EndCycle(w)
    <2>1. UNCHANGED <<file, saves, lost, todo, verdict, fires, grants, crashes>>
      BY <1>3 DEF EndQueue, EndCycle, Advance, store
    <2>2. Quiet
      BY <2>1 DEF Quiet, MayFire, Settling
    <2>3. \A i \in Ids : Granting(i)' \subseteq Granting(i)
      BY <2>1 DEF Granting
    <2> QED BY <2>1, <2>2, <2>3, QuietPays
  <1> QED BY <1>1, <1>2, <1>3, FirePays, SettlePays, SavePays DEF WorkerStep

\* Queueing a proposal approves nothing.
LEMMA QueueingPays ==
  ASSUME QueueInv, Paid, NEW w \in Workers, NEW id \in Ids, QueueForApproval(w, id)
  PROVE  Paid'
  <1> w \in Procs
    BY DEF Procs
  <1>1. Called(w, {})
    BY UpsertCalls DEF QueueForApproval, QueueInv
  <1>2. UNCHANGED <<todo, verdict, fires, grants, crashes>>
    BY DEF QueueForApproval, Advance
  <1>3. Quiet
    BY <1>1, <1>2, CallFiresNoMore
  <1> QED BY <1>1, <1>2, <1>3, CallPays

\* The account starts at nought.
LEMMA PaidInit == Init => Paid
  <1> SUFFICES ASSUME Init, NEW id \in Ids PROVE Balanced(id)
    BY DEF Paid
  <1>1. Granting(id) = {} /\ Ready(id) = {}
    BY DEF Init, Granting, Ready, MayFire
  <1>2. Cardinality(Granting(id)) = 0 /\ Cardinality(Ready(id)) = 0 /\ Cycles \in Nat
    BY <1>1, FS_EmptySet, ReadyCounts
  <1> QED BY <1>2 DEF Init, Balanced

\* Every step keeps the account.
LEMMA PaidStep == QueueInv /\ Paid /\ [Next]_vars => Paid'
  <1> SUFFICES ASSUME QueueInv, Paid, [Next]_vars
               PROVE  Paid'
    OBVIOUS
  <1>1. CASE UNCHANGED vars \/ \E id \in Ids : DeadlinePasses(id)
    <2>1. UNCHANGED <<file, saves, lost, todo, verdict, fires, grants, crashes>>
      BY <1>1 DEF DeadlinePasses, store, cycle, vars
    <2>2. Quiet
      BY <2>1 DEF Quiet, MayFire, Settling
    <2>3. \A i \in Ids : Granting(i)' \subseteq Granting(i)
      BY <2>1 DEF Granting
    <2> QED BY <2>1, <2>2, <2>3, QuietPays
  <1> QED BY <1>1, UserPays, WorkerPays, SavePays, CrashPays, QueueingPays DEF Next

\* However many users and live cycles there are, a live cycle fires a proposal more
\* often than the user said yes only after a kill or a lost update.
THEOREM RefiresHaveCause == Spec => []RefireNeedsCause
  <1>1. QueueInv /\ Paid => RefireNeedsCause
    <2> SUFFICES ASSUME QueueInv, Paid, NEW id \in Ids
                 PROVE  fires[id] <= Cycles * (grants[id] + lost) + crashes
      BY DEF RefireNeedsCause, Cycles
    <2>1. Balanced(id)
      BY DEF Paid
    <2>2. Cycles * Cardinality(Granting(id)) \in Nat /\ Cycles * (grants[id] + lost) \in Nat
      BY AccountCounts
    <2> QED BY <2>1, <2>2, AccountCounts DEF Balanced
  <1> QED BY <1>1, PaidInit, PaidStep, QueueSafe, PTL DEF Spec
=============================================================================

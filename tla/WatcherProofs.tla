---------------------------- MODULE WatcherProofs ----------------------------
(***************************************************************************)
(* Proofs about Watcher, for any set of watchers and positions.  A tick    *)
(* works on copies of rows the others go on writing, and books a close     *)
(* long before it persists it; the invariants say what a copy in hand      *)
(* still is, and how many closes can be on their way.                      *)
(***************************************************************************)
EXTENDS Watcher, FiniteSetTheorems, TLAPS

\* Open rows have something left, in the file and in what a tick has yet to look at.
Filled(r) == IsOpen(r) /\ r.quantity > 0

RowsFilled == \A p \in Positions : IsOpen(row[p]) => row[p].quantity > 0

\* A row still to be looked at is open in the tick's copy and has no write planned.
TodoFresh ==
  \A w \in Watchers : \A p \in todo[w] : Filled(view[w][p]) /\ writes[w][p] = "none"

\* A full upsert writes a closed row, or the untouched size of a live one.
UpsertsClose ==
  \A w \in Watchers, p \in Positions :
    writes[w][p] = "upsert" =>
      view[w][p].status = "closed" \/ (Trailing /\ p \in Live /\ Filled(view[w][p]))

TickInv == TypeOK /\ RowsFilled /\ TodoFresh /\ UpsertsClose

\* The watchers that have booked a close of p and not yet persisted it, and those
\* that have p still before them.
Unsaved(p) == {w \in Watchers : writes[w][p] = "upsert" /\ view[w][p].status = "closed"}
Before(p) == {w \in Watchers : p \in todo[w]}

\* While the file has p open, every booking is being persisted or died with its
\* watcher; afterwards only the ticks that still have p before them may book it.
AccountOf(p) ==
  /\ row[p].status # "closed" => booked[p] <= crashes + Cardinality(Unsaved(p))
  /\ booked[p] + Cardinality(Before(p)) <= Cardinality(Watchers) + crashes
  /\ ~Emergency /\ p \in Live => booked[p] = 0

Accounted == \A p \in Positions : AccountOf(p)

-----------------------------------------------------------------------------
(* Rows and what a decision makes of them. *)

\* The kinds of write a tick may plan.
WriteKinds == {"none", "merge", "upsert"}

\* Half of a quantity is part of it.
LEMMA PartialIsPart ==
  ASSUME NEW q \in Nat, q > 0
  PROVE  PartialQuantity(q) \in 1 .. q
  <1> DEFINE half == IF q % 4 = 3 THEN (q + 1) \div 2 ELSE q \div 2
  <1>1. half \in 0 .. q
    <2>1. CASE q = 1
      BY <2>1
    <2>2. CASE q > 1
      BY <2>2
    <2> QED BY <2>1, <2>2
  <1>2. PartialQuantity(q) = IF half = 0 THEN 1 ELSE half
    BY DEF PartialQuantity
  <1> QED BY <1>1, <1>2

\* Marking an open row to market leaves it open.
LEMMA MarkedRow ==
  ASSUME NEW v \in Rows, Filled(v), NEW gain \in 0 .. MaxGain
  PROVE  LET m == [v EXCEPT !.mfe = Higher(@, gain)]
         IN  m \in Rows /\ Filled(m)
  BY WatcherAssumption DEF Rows, Filled, IsOpen, Higher

\* A closed copy is a row.
LEMMA ClosedRow ==
  ASSUME NEW v \in Rows
  PROVE  Closed(v) \in Rows /\ Closed(v).status = "closed"
  <1>1. 0 \in 0 .. Quantity
    BY WatcherAssumption
  <1>2. [v EXCEPT !.status = "closed"] \in Rows
    BY DEF Rows
  <1> QED BY <1>1 DEF Closed, Rows

\* A partial exit makes a row of a row.
LEMMA PartlyClosedRow ==
  ASSUME NEW v \in Rows, Filled(v)
  PROVE  PartlyClosed(v) \in Rows
  <1> DEFINE rest == v.quantity - PartialQuantity(v.quantity)
             kept == [v EXCEPT !.tagged = TRUE, !.stop = 1, !.quantity = rest]
  <1>1. v.quantity \in 1 .. Quantity
    BY WatcherAssumption DEF Rows, Filled
  <1>2. rest \in 0 .. Quantity
    <2>1. PartialQuantity(v.quantity) \in 1 .. v.quantity
      BY <1>1, PartialIsPart, WatcherAssumption
    <2> QED BY <1>1, <2>1, WatcherAssumption
  <1>3. kept \in Rows
    <2> HIDE DEF rest
    <2>1. 1 \in 0 .. MaxStop
      BY WatcherAssumption
    <2>2. [v EXCEPT !.tagged = TRUE] \in Rows
      BY DEF Rows
    <2>3. [v EXCEPT !.tagged = TRUE, !.stop = 1] \in Rows
      BY <2>1, <2>2 DEF Rows
    <2> QED BY <1>2, <2>3 DEF Rows
  <1>4. Closed(kept) \in Rows /\ [kept EXCEPT !.status = "partial_exit"] \in Rows
    <2>1. Closed(kept) \in Rows
      BY <1>3, ClosedRow
    <2>2. [kept EXCEPT !.status = "partial_exit"] \in Rows
      <3> HIDE DEF kept
      <3> QED BY <1>3 DEF Rows
    <2> QED BY <2>1, <2>2
  <1>5. PartlyClosed(v) = IF rest = 0 THEN Closed(kept) ELSE [kept EXCEPT !.status = "partial_exit"]
    BY DEF PartlyClosed
  <1> QED BY <1>4, <1>5

\* A decision makes rows of rows, and plans a full upsert only for a closed row or
\* the trail of a live one, which it leaves as it was.
LEMMA AppliedRow ==
  ASSUME NEW p \in Positions, NEW v \in Rows, Filled(v), NEW decision \in Decisions,
         NEW u \in Applied(p, v, decision)
  PROVE  /\ u \in Rows
         /\ Route(p, u, decision) \in WriteKinds
         /\ Route(p, u, decision) = "upsert" =>
              u.status = "closed" \/ (Trailing /\ p \in Live /\ Filled(u))
         /\ u.status = "closed" => Route(p, u, decision) = "upsert"
         /\ u.status = "closed" /\ ~Emergency => p \notin Live
  <1>1. Route(p, u, decision) \in WriteKinds /\ (u.status = "closed" => Route(p, u, decision) = "upsert")
    BY DEF Route, WriteKinds
  <1>2. v.status # "closed"
    BY DEF Filled, IsOpen
  <1>3. CASE decision = "hold"
    BY <1>1, <1>2, <1>3 DEF Applied, Route
  <1>4. CASE decision = "exit"
    <2>1. u \in Exits(p, v)
      BY <1>4 DEF Applied
    <2>2. u \in Rows /\ (p \in Live => u = v)
      BY <2>1, ClosedRow, PartlyClosedRow DEF Exits
    <2> QED BY <1>1, <1>2, <1>4, <2>2 DEF Route
  <1>5. CASE decision = "trail"
    <2>1. Trailing /\ u \in Trails(p, v)
      BY <1>5, WatcherAssumption DEF Applied
    <2>2. CASE p \in Live
      BY <1>1, <1>2, <2>1, <2>2 DEF Trails
    <2>3. CASE p \notin Live
      <3>1. PICK t \in 1 .. MaxStop : u = [v EXCEPT !.stop = t]
        BY <2>1, <2>3 DEF Trails
      <3>2. u \in Rows /\ u.status = v.status
        BY <3>1, WatcherAssumption DEF Rows
      <3> QED BY <1>1, <1>2, <2>3, <3>2 DEF Route
    <2> QED BY <2>2, <2>3
  <1>6. CASE decision = "emergency"
    <2>1. Emergency /\ u = Closed(v)
      BY <1>6, WatcherAssumption DEF Applied
    <2> QED BY <1>1, <2>1, ClosedRow
  <1> QED BY <1>3, <1>4, <1>5, <1>6 DEF Decisions

\* Merging a copy into a row makes a row, of the same status, size and stop, with
\* no smaller MFE.
LEMMA MergedRow ==
  ASSUME NEW r \in Rows, NEW v \in Rows
  PROVE  /\ Merged(r, v) \in Rows
         /\ Merged(r, v).status = r.status
         /\ Merged(r, v).quantity = r.quantity
         /\ Merged(r, v).stop = r.stop
         /\ Merged(r, v).mfe >= r.mfe
  <1>1. r.mfe \in Nat /\ v.mfe \in Nat
    BY WatcherAssumption DEF Rows
  <1>2. CASE r.status # "open"
    BY <1>1, <1>2 DEF Merged
  <1>3. CASE r.status = "open"
    <2>1. Merged(r, v) = [r EXCEPT !.mfe = Higher(r.mfe, v.mfe), !.tagged = r.tagged \/ v.tagged]
      BY <1>3 DEF Merged
    <2>2. Higher(r.mfe, v.mfe) \in 0 .. MaxGain /\ Higher(r.mfe, v.mfe) >= r.mfe
      BY <1>1, WatcherAssumption DEF Rows, Higher
    <2>3. (r.tagged \/ v.tagged) \in BOOLEAN
      OBVIOUS
    <2> HIDE DEF Higher
    <2> QED BY <2>1, <2>2, <2>3 DEF Rows
  <1> QED BY <1>2, <1>3

-----------------------------------------------------------------------------
(* The steps of a tick. *)

\* A tick begins with copies of the rows that are open.
LEMMA StartTickKeeps ==
  ASSUME TickInv, NEW w \in Watchers, StartTick(w)
  PROVE  TickInv'
  <1> DEFINE open == {p \in Positions : IsOpen(row[p])}
             copy == [p \in Positions |-> IF p \in open THEN row[p] ELSE Absent]
  <1>0. /\ row' = row /\ exch' = exch /\ writes' = writes /\ booked' = booked /\ crashes' = crashes
        /\ todo' = [todo EXCEPT ![w] = open] /\ view' = [view EXCEPT ![w] = copy]
        /\ stage' = [stage EXCEPT ![w] = "look"]
        /\ stage[w] = "idle"
    BY DEF StartTick
  <1>1. Absent \in Rows
    BY WatcherAssumption DEF Absent, Rows
  <1>2. open \in SUBSET Positions /\ copy \in [Positions -> Rows]
    BY <1>1 DEF TickInv, TypeOK
  <1>3. writes[w] = NoWrites
    BY <1>0 DEF TickInv, TypeOK
  <1>4. \A p \in open : Filled(copy[p]) /\ writes[w][p] = "none"
    BY <1>3 DEF TickInv, RowsFilled, Filled, NoWrites
  <1>5. \A p \in Positions : writes[w][p] # "upsert"
    BY <1>3 DEF NoWrites
  <1> HIDE DEF open, copy
  <1>6. TypeOK'
    BY <1>0, <1>2 DEF TickInv, TypeOK
  <1>7. RowsFilled'
    BY <1>0 DEF TickInv, RowsFilled
  <1>8. TodoFresh'
    BY <1>0, <1>4 DEF TickInv, TypeOK, TodoFresh
  <1>9. UpsertsClose'
    BY <1>0, <1>5 DEF TickInv, TypeOK, UpsertsClose
  <1> QED BY <1>6, <1>7, <1>8, <1>9 DEF TickInv

\* What looking at a position does, decision by decision.
LEMMA LookDoes ==
  ASSUME TickInv, NEW w \in Watchers, NEW p \in Positions, Look(w, p)
  PROVE  \E u \in Rows, kind \in WriteKinds :
           /\ todo' = [todo EXCEPT ![w] = @ \ {p}]
           /\ view' = [view EXCEPT ![w][p] = u]
           /\ writes' = [writes EXCEPT ![w][p] = kind]
           /\ booked' = IF u.status = "closed" THEN [booked EXCEPT ![p] = @ + 1] ELSE booked
           /\ kind = "upsert" =>
                u.status = "closed" \/ (Trailing /\ p \in Live /\ Filled(u))
           /\ u.status = "closed" => kind = "upsert"
           /\ u.status = "closed" /\ ~Emergency => p \notin Live
  <1>1. view[w][p] \in Rows /\ Filled(view[w][p])
    BY DEF TickInv, TypeOK, TodoFresh, Look
  <1>2. PICK gain \in 0 .. MaxGain, decision \in Decisions :
          LET marked == [view[w][p] EXCEPT !.mfe = Higher(@, gain)]
          IN  \E v \in Applied(p, marked, decision) :
                /\ view' = [view EXCEPT ![w][p] = v]
                /\ writes' = [writes EXCEPT ![w][p] = Route(p, v, decision)]
                /\ booked' = IF v.status = "closed" THEN [booked EXCEPT ![p] = @ + 1]
                             ELSE booked
    BY DEF Look
  <1> DEFINE marked == [view[w][p] EXCEPT !.mfe = Higher(@, gain)]
  <1>3. marked \in Rows /\ Filled(marked)
    BY <1>1, MarkedRow
  <1>4. PICK v \in Applied(p, marked, decision) :
          /\ view' = [view EXCEPT ![w][p] = v]
          /\ writes' = [writes EXCEPT ![w][p] = Route(p, v, decision)]
          /\ booked' = IF v.status = "closed" THEN [booked EXCEPT ![p] = @ + 1]
                       ELSE booked
    BY <1>2
  <1> HIDE DEF marked
  <1>5. /\ v \in Rows
        /\ Route(p, v, decision) \in WriteKinds
        /\ Route(p, v, decision) = "upsert" =>
             v.status = "closed" \/ (Trailing /\ p \in Live /\ Filled(v))
        /\ v.status = "closed" => Route(p, v, decision) = "upsert"
        /\ v.status = "closed" /\ ~Emergency => p \notin Live
    BY <1>3, AppliedRow
  <1>6. todo' = [todo EXCEPT ![w] = @ \ {p}]
    BY DEF Look
  <1> QED BY <1>4, <1>5, <1>6

\* Looking at a position plans the write that fits what became of the copy.
LEMMA LookKeeps ==
  ASSUME TickInv, NEW w \in Watchers, NEW p \in Positions, Look(w, p)
  PROVE  TickInv'
  <1>1. PICK u \in Rows, kind \in WriteKinds :
          /\ todo' = [todo EXCEPT ![w] = @ \ {p}]
          /\ view' = [view EXCEPT ![w][p] = u]
          /\ writes' = [writes EXCEPT ![w][p] = kind]
          /\ booked' = IF u.status = "closed" THEN [booked EXCEPT ![p] = @ + 1] ELSE booked
          /\ kind = "upsert" =>
               u.status = "closed" \/ (Trailing /\ p \in Live /\ Filled(u))
    BY LookDoes
  <1>2. stage[w] = "look" /\ UNCHANGED <<row, exch, stage, crashes>>
    BY DEF Look
  <1>3. TypeOK'
    <2>1. view' \in [Watchers -> [Positions -> Rows]]
      BY <1>1 DEF TickInv, TypeOK
    <2>2. writes' \in [Watchers -> [Positions -> {"none", "merge", "upsert"}]]
      BY <1>1 DEF TickInv, TypeOK, WriteKinds
    <2>3. booked' \in [Positions -> Nat]
      BY <1>1 DEF TickInv, TypeOK
    <2>4. todo' \in [Watchers -> SUBSET Positions]
      BY <1>1 DEF TickInv, TypeOK
    <2>5. \A v \in Watchers : stage'[v] = "idle" =>
            todo'[v] = {} /\ view'[v] = NoRows /\ writes'[v] = NoWrites
      BY <1>1, <1>2 DEF TickInv, TypeOK
    <2> QED BY <1>2, <2>1, <2>2, <2>3, <2>4, <2>5 DEF TickInv, TypeOK
  <1>4. RowsFilled'
    BY <1>2 DEF TickInv, RowsFilled
  <1>5. TodoFresh'
    <2> SUFFICES ASSUME NEW v \in Watchers, NEW i \in todo'[v]
                 PROVE  Filled(view'[v][i]) /\ writes'[v][i] = "none"
      BY DEF TodoFresh, Filled, IsOpen
    <2>1. i \in todo[v] /\ i \in Positions /\ (v # w \/ i # p)
      BY <1>1 DEF TickInv, TypeOK
    <2>2. view'[v][i] = view[v][i] /\ writes'[v][i] = writes[v][i]
      BY <1>1, <2>1 DEF TickInv, TypeOK
    <2> QED BY <2>1, <2>2 DEF TickInv, TodoFresh
  <1>6. UpsertsClose'
    <2> SUFFICES ASSUME NEW v \in Watchers, NEW i \in Positions, writes'[v][i] = "upsert"
                 PROVE  view'[v][i].status = "closed"
                        \/ (Trailing /\ i \in Live /\ Filled(view'[v][i]))
      BY DEF UpsertsClose, Filled, IsOpen
    <2>1. CASE v = w /\ i = p
      <3>1. writes'[v][i] = kind /\ view'[v][i] = u
        BY <1>1, <2>1 DEF TickInv, TypeOK
      <3> QED BY <1>1, <2>1, <3>1
    <2>2. CASE v # w \/ i # p
      <3>1. view'[v][i] = view[v][i] /\ writes'[v][i] = writes[v][i]
        BY <1>1, <2>2 DEF TickInv, TypeOK
      <3> QED BY <3>1 DEF TickInv, UpsertsClose
    <2> QED BY <2>1, <2>2
  <1> QED BY <1>3, <1>4, <1>5, <1>6 DEF TickInv

\* A position skipped is forgotten for this tick.
LEMMA SkipKeeps ==
  ASSUME TickInv, NEW w \in Watchers, NEW p \in Positions, SkipPosition(w, p)
  PROVE  TickInv'
  <1>1. /\ UNCHANGED <<row, exch, stage, view, writes, booked, crashes>>
        /\ todo' = [todo EXCEPT ![w] = @ \ {p}]
        /\ stage[w] = "look"
    BY DEF SkipPosition
  <1>2. TypeOK'
    BY <1>1 DEF TickInv, TypeOK
  <1>3. RowsFilled' /\ UpsertsClose'
    BY <1>1 DEF TickInv, RowsFilled, UpsertsClose
  <1>4. \A v \in Watchers : todo'[v] \subseteq todo[v]
    BY <1>1 DEF TickInv, TypeOK
  <1>5. TodoFresh'
    BY <1>1, <1>4 DEF TickInv, TodoFresh
  <1> QED BY <1>2, <1>3, <1>5 DEF TickInv

\* What a flush makes of the rows.
LEMMA FlushRows ==
  ASSUME TickInv, NEW w \in Watchers, Flush(w), NEW p \in Positions
  PROVE  /\ row'[p] \in Rows
         /\ row'[p].status = row[p].status
         /\ row'[p].quantity = row[p].quantity
         /\ row'[p].stop = row[p].stop
         /\ row'[p].mfe >= row[p].mfe
  <1>1. row[p] \in Rows /\ view[w][p] \in Rows
    BY DEF TickInv, TypeOK
  <1>2. row'[p] = Merged(row[p], view[w][p]) \/ row'[p] = row[p]
    BY DEF Flush
  <1>3. row[p].mfe \in Nat
    BY <1>1, WatcherAssumption DEF Rows
  <1> QED BY <1>1, <1>2, <1>3, MergedRow

\* The merge keeps the status and the size of every row.
LEMMA FlushKeeps ==
  ASSUME TickInv, NEW w \in Watchers, Flush(w)
  PROVE  TickInv'
  <1>1. /\ UNCHANGED <<exch, todo, view, writes, booked, crashes>>
        /\ stage' = [stage EXCEPT ![w] = "flush"]
    BY DEF Flush
  <1>2. \A p \in Positions : /\ row'[p] \in Rows /\ row'[p].status = row[p].status
                             /\ row'[p].quantity = row[p].quantity
    BY FlushRows
  <1>3. row' \in [Positions -> Rows]
    <2>1. row' = [p \in Positions |-> row'[p]]
      BY DEF Flush
    <2> QED BY <1>2, <2>1
  <1>4. TypeOK'
    BY <1>1, <1>3 DEF TickInv, TypeOK
  <1>5. RowsFilled'
    BY <1>2 DEF TickInv, RowsFilled, IsOpen
  <1>6. TodoFresh' /\ UpsertsClose'
    BY <1>1 DEF TickInv, TodoFresh, UpsertsClose
  <1> QED BY <1>4, <1>5, <1>6 DEF TickInv

\* A full upsert puts back a closed row or a live one with its size.
LEMMA UpsertKeeps ==
  ASSUME TickInv, NEW w \in Watchers, NEW p \in Positions, Upsert(w, p)
  PROVE  TickInv'
  <1>1. /\ UNCHANGED <<exch, stage, todo, view, booked, crashes>>
        /\ row' = [row EXCEPT ![p] = view[w][p]]
        /\ writes' = [writes EXCEPT ![w][p] = "none"]
        /\ stage[w] = "flush" /\ writes[w][p] = "upsert"
    BY DEF Upsert
  <1>2. view[w][p] \in Rows /\ (view[w][p].status = "closed" \/ Filled(view[w][p]))
    BY <1>1 DEF TickInv, TypeOK, UpsertsClose
  <1>3. TypeOK'
    <2>1. row' \in [Positions -> Rows]
      BY <1>1, <1>2 DEF TickInv, TypeOK
    <2>2. writes' \in [Watchers -> [Positions -> {"none", "merge", "upsert"}]]
      BY <1>1 DEF TickInv, TypeOK
    <2> QED BY <1>1, <2>1, <2>2 DEF TickInv, TypeOK
  <1>4. RowsFilled'
    BY <1>1, <1>2 DEF TickInv, TypeOK, RowsFilled, Filled, IsOpen
  <1>5. \A v \in Watchers, i \in Positions :
          writes'[v][i] = writes[v][i] \/ writes'[v][i] = "none"
    BY <1>1 DEF TickInv, TypeOK
  <1>6. TodoFresh'
    BY <1>1, <1>5 DEF TickInv, TypeOK, TodoFresh
  <1>7. UpsertsClose'
    BY <1>1, <1>5 DEF TickInv, UpsertsClose
  <1> QED BY <1>3, <1>4, <1>6, <1>7 DEF TickInv

\* A tick that ends or dies leaves nothing behind in its watcher.
LEMMA ForgetKeeps ==
  ASSUME TickInv, NEW w \in Watchers, EndTick(w) \/ Crash(w)
  PROVE  TickInv'
  <1>1. /\ UNCHANGED <<row, exch, booked>> /\ crashes' \in 0 .. MaxCrashes
    BY WatcherAssumption DEF EndTick, Crash, TickInv, TypeOK
  <1>2. /\ stage' = [stage EXCEPT ![w] = "idle"]
        /\ todo' = [todo EXCEPT ![w] = {}]
        /\ view' = [view EXCEPT ![w] = NoRows]
        /\ writes' = [writes EXCEPT ![w] = NoWrites]
    BY DEF EndTick, Crash, Forget
  <1>3. Absent \in Rows
    BY WatcherAssumption DEF Absent, Rows
  <1>4. NoRows \in [Positions -> Rows] /\ NoWrites \in [Positions -> {"none", "merge", "upsert"}]
    BY <1>3 DEF NoRows, NoWrites
  <1>5. TypeOK'
    BY <1>1, <1>2, <1>4 DEF TickInv, TypeOK
  <1>6. RowsFilled'
    BY <1>1 DEF TickInv, RowsFilled
  <1>7. TodoFresh'
    BY <1>2 DEF TickInv, TypeOK, TodoFresh
  <1>8. UpsertsClose'
    BY <1>2 DEF TickInv, TypeOK, UpsertsClose, NoWrites
  <1> QED BY <1>5, <1>6, <1>7, <1>8 DEF TickInv

\* What the others do to the file.
OthersStep(p) == OpenPosition(p) \/ ExchangeCloses(p) \/ SyncClose(p) \/ SwapStop(p)

\* A new row, a closed one or one with a higher stop, in place of what was there.
LEMMA OthersRow ==
  ASSUME TickInv, NEW p \in Positions, OthersStep(p)
  PROVE  /\ UNCHANGED <<tick, booked, crashes>>
         /\ exch' \subseteq Live
         /\ \E r \in Rows :
              /\ row' = [row EXCEPT ![p] = r]
              /\ r.status # row[p].status => r.status = "closed" \/ row[p].status = "absent"
              /\ r.status = "open" => /\ r.mfe >= row[p].mfe
                                      /\ r.stop >= row[p].stop
              /\ IsOpen(r) => r.quantity > 0
  <1>0. row \in [Positions -> Rows] /\ row[p] \in Rows
    BY DEF TickInv, TypeOK
  <1>1. row[p].mfe \in Nat /\ row[p].stop \in 0 .. MaxStop /\ row[p].stop \in Nat
    BY <1>0, WatcherAssumption DEF Rows
  <1>2. UNCHANGED <<tick, booked, crashes>> /\ exch' \subseteq Live
    BY DEF OthersStep, OpenPosition, ExchangeCloses, SyncClose, SwapStop, TickInv, TypeOK
  <1> DEFINE Fits(r) ==
               /\ row' = [row EXCEPT ![p] = r]
               /\ r.status # row[p].status => r.status = "closed" \/ row[p].status = "absent"
               /\ r.status = "open" => /\ r.mfe >= row[p].mfe
                                       /\ r.stop >= row[p].stop
               /\ IsOpen(r) => r.quantity > 0
  <1>3. CASE OpenPosition(p)
    <2>1. Absent \in Rows /\ Quantity \in 0 .. Quantity /\ Quantity > 0
      BY WatcherAssumption DEF Absent, Rows
    <2>2. [Absent EXCEPT !.status = "open"] \in Rows
      BY <2>1 DEF Rows
    <2>3. Opened \in Rows
      BY <2>1, <2>2 DEF Opened, Rows
    <2>4. Opened.mfe = 0 /\ Opened.stop = 0 /\ Opened.quantity = Quantity
      BY DEF Opened, Absent
    <2>5. row[p] = Absent /\ row' = [row EXCEPT ![p] = Opened]
      BY <1>3 DEF OpenPosition
    <2>6. row[p].status = "absent" /\ row[p].mfe = 0 /\ row[p].stop = 0
      BY <2>5 DEF Absent
    <2>7. Fits(Opened)
      BY <2>1, <2>4, <2>5, <2>6
    <2> QED BY <1>2, <2>3, <2>7
  <1>4. CASE ExchangeCloses(p)
    <2>1. row' = [row EXCEPT ![p] = row[p]]
      BY <1>0, <1>4 DEF ExchangeCloses
    <2>2. Fits(row[p])
      BY <1>1, <2>1 DEF TickInv, RowsFilled
    <2> QED BY <1>0, <1>2, <2>2
  <1>5. CASE SyncClose(p)
    <2>1. row' = [row EXCEPT ![p] = Closed(row[p])] /\ Closed(row[p]) \in Rows
          /\ Closed(row[p]).status = "closed"
      BY <1>0, <1>5, ClosedRow DEF SyncClose
    <2>2. Fits(Closed(row[p]))
      BY <2>1 DEF IsOpen
    <2> QED BY <1>2, <2>1, <2>2
  <1>6. CASE SwapStop(p)
    <2> DEFINE s == [row[p] EXCEPT !.stop = row[p].stop + 1]
    <2>1. row' = [row EXCEPT ![p] = s]
      BY <1>6 DEF SwapStop
    <2>2. row[p].stop + 1 \in 0 .. MaxStop
      BY <1>1, <1>6, WatcherAssumption DEF SwapStop
    <2>3. s \in Rows /\ s.status = row[p].status /\ s.mfe = row[p].mfe
          /\ s.quantity = row[p].quantity /\ s.stop = row[p].stop + 1
      BY <1>0, <2>2 DEF Rows
    <2>4. IsOpen(row[p]) => row[p].quantity > 0
      BY DEF TickInv, RowsFilled
    <2> HIDE DEF s
    <2>5. Fits(s)
      BY <1>1, <2>1, <2>3, <2>4 DEF IsOpen
    <2> QED BY <1>2, <2>3, <2>5
  <1> QED BY <1>3, <1>4, <1>5, <1>6 DEF OthersStep

\* Whatever they do, it keeps the invariant.
LEMMA OthersKeep ==
  ASSUME TickInv, NEW p \in Positions, OthersStep(p)
  PROVE  TickInv'
  <1>1. UNCHANGED <<tick, booked, crashes>> /\ exch' \subseteq Live
    BY OthersRow
  <1>2. PICK r \in Rows : row' = [row EXCEPT ![p] = r] /\ (IsOpen(r) => r.quantity > 0)
    BY OthersRow
  <1>3. TypeOK'
    BY <1>1, <1>2 DEF TickInv, TypeOK, tick
  <1>4. RowsFilled'
    BY <1>2 DEF TickInv, TypeOK, RowsFilled
  <1>5. TodoFresh' /\ UpsertsClose'
    BY <1>1 DEF TickInv, TodoFresh, UpsertsClose, tick
  <1> QED BY <1>3, <1>4, <1>5 DEF TickInv

\* The invariant holds before any position is opened.
LEMMA TickInit == Init => TickInv
  <1> SUFFICES ASSUME Init PROVE TickInv
    OBVIOUS
  <1>1. Absent \in Rows /\ ~IsOpen(Absent)
    BY WatcherAssumption DEF Absent, Rows, IsOpen
  <1>2. NoRows \in [Positions -> Rows] /\ NoWrites \in [Positions -> {"none", "merge", "upsert"}]
    BY <1>1 DEF NoRows, NoWrites
  <1>3. TypeOK
    BY <1>2, WatcherAssumption DEF Init, TypeOK
  <1>4. RowsFilled /\ TodoFresh /\ UpsertsClose
    BY <1>1 DEF Init, RowsFilled, TodoFresh, UpsertsClose, NoRows, NoWrites
  <1> QED BY <1>3, <1>4 DEF TickInv

\* Every step keeps the invariant.
LEMMA TickStep == TickInv /\ [Next]_vars => TickInv'
  <1> SUFFICES ASSUME TickInv, [Next]_vars PROVE TickInv'
    OBVIOUS
  <1>1. CASE UNCHANGED vars
    BY <1>1 DEF TickInv, TypeOK, RowsFilled, TodoFresh, UpsertsClose, vars, tick
  <1>2. ASSUME NEW w \in Watchers, WatcherStep(w) \/ Crash(w)
        PROVE  TickInv'
    BY <1>2, StartTickKeeps, LookKeeps, SkipKeeps, FlushKeeps, UpsertKeeps, ForgetKeeps DEF WatcherStep
  <1>3. ASSUME NEW p \in Positions, OthersStep(p)
        PROVE  TickInv'
    BY <1>3, OthersKeep
  <1> QED BY <1>1, <1>2, <1>3 DEF Next, OthersStep

\* So it holds throughout.
LEMMA TickSafe == Spec => []TickInv
  BY TickInit, TickStep, PTL DEF Spec

\* Every row and every copy of one keeps its type, whichever switches the watchers
\* run with: no partial exit takes more than a row has left.
THEOREM WatcherTyped == Spec => []TypeOK
  BY TickSafe, PTL DEF TickInv

-----------------------------------------------------------------------------
(* No tick undoes what the others have written. *)

\* A step touches the rows by a merge, by an upsert, or as the others do.
LEMMA RowWriters ==
  ASSUME [Next]_vars
  PROVE  \/ UNCHANGED row
         \/ \E w \in Watchers : Flush(w)
         \/ \E w \in Watchers, p \in Positions : Upsert(w, p)
         \/ \E p \in Positions : OthersStep(p)
  <1>1. ASSUME NEW w \in Watchers, WatcherStep(w),
               ~Flush(w), ~ \E p \in Positions : Upsert(w, p)
        PROVE  UNCHANGED row
    BY <1>1 DEF WatcherStep, StartTick, Look, SkipPosition, EndTick
  <1>2. ASSUME NEW w \in Watchers, Crash(w)
        PROVE  UNCHANGED row
    BY <1>2 DEF Crash
  <1>3. CASE UNCHANGED vars
    BY <1>3 DEF vars
  <1> QED BY <1>1, <1>2, <1>3 DEF Next, OthersStep

\* A closed row stays closed, and the MFE of an open row and the stop of an open
\* live one never fall back, whatever the ticks and the scripts do at once - as
\* long as no live position is trailed: the upsert of a suppressed live trail is the
\* one write that can (the WatcherClobber run).
THEOREM TicksUndoNothing ==
  ASSUME Trailing => Live = {}
  PROVE  Spec => TickUndoesNothing
  <1> DEFINE Kept == \A p \in Positions :
               /\ row[p].status = "closed" => row'[p].status = "closed"
               /\ row'[p].status = "open" =>
                    /\ row'[p].mfe >= row[p].mfe
                    /\ p \in Live => row'[p].stop >= row[p].stop
  <1>1. TickInv /\ [Next]_vars => Kept
    <2> SUFFICES ASSUME TickInv, [Next]_vars, NEW p \in Positions
                 PROVE  /\ row[p].status = "closed" => row'[p].status = "closed"
                        /\ row'[p].status = "open" =>
                             /\ row'[p].mfe >= row[p].mfe
                             /\ p \in Live => row'[p].stop >= row[p].stop
      OBVIOUS
    <2>0. row \in [Positions -> Rows] /\ row[p].mfe \in Nat /\ row[p].stop \in Nat
      BY WatcherAssumption DEF TickInv, TypeOK, Rows
    <2>1. CASE UNCHANGED row
      BY <2>0, <2>1
    <2>2. ASSUME NEW w \in Watchers, Flush(w)
          PROVE  /\ row'[p].status = row[p].status
                 /\ row'[p].mfe >= row[p].mfe /\ row'[p].stop = row[p].stop
      BY <2>2, FlushRows
    <2>3. ASSUME NEW w \in Watchers, NEW q \in Positions, Upsert(w, q)
          PROVE  row'[p] = row[p] \/ row'[p].status = "closed"
      <3>1. view[w][q].status = "closed"
        BY <2>3 DEF TickInv, UpsertsClose, Upsert
      <3> QED BY <2>0, <2>3, <3>1 DEF Upsert
    <2>4. ASSUME NEW q \in Positions, OthersStep(q)
          PROVE  /\ row[p].status = "closed" => row'[p].status = "closed"
                 /\ row'[p].status = "open" =>
                      row'[p].mfe >= row[p].mfe /\ row'[p].stop >= row[p].stop
      <3>1. PICK r \in Rows :
              /\ row' = [row EXCEPT ![q] = r]
              /\ r.status # row[q].status => r.status = "closed" \/ row[q].status = "absent"
              /\ r.status = "open" => r.mfe >= row[q].mfe /\ r.stop >= row[q].stop
        BY <2>4, OthersRow
      <3>2. CASE p = q
        BY <2>0, <3>1, <3>2
      <3>3. CASE p # q
        BY <2>0, <3>1, <3>3
      <3> QED BY <3>2, <3>3
    <2> QED BY <2>0, <2>1, <2>2, <2>3, <2>4, RowWriters
  <1>2. []TickInv /\ [][Next]_vars => TickUndoesNothing
    BY <1>1, PTL DEF TickUndoesNothing
  <1> QED BY <1>2, TickSafe, PTL DEF Spec

-----------------------------------------------------------------------------
(* How often a close may be booked. *)

\* The watchers of an account can be counted.
LEMMA WatcherSets ==
  ASSUME TickInv, NEW p \in Positions
  PROVE  /\ IsFiniteSet(Unsaved(p)) /\ Cardinality(Unsaved(p)) \in Nat
         /\ IsFiniteSet(Before(p)) /\ Cardinality(Before(p)) \in Nat
         /\ Cardinality(Watchers) \in Nat
         /\ booked[p] \in Nat /\ crashes \in Nat
  <1>1. IsFiniteSet(Watchers)
    BY WatcherAssumption
  <1>2. Unsaved(p) \subseteq Watchers /\ Before(p) \subseteq Watchers
    BY DEF Unsaved, Before
  <1>3. booked[p] \in Nat /\ crashes \in Nat
    BY WatcherAssumption DEF TickInv, TypeOK
  <1> QED BY <1>1, <1>2, <1>3, FS_Subset, FS_CardinalityType

\* Two sets of watchers without a common one are no more than all of them.
LEMMA ApartCount ==
  ASSUME NEW S \in SUBSET Watchers, NEW T \in SUBSET Watchers, S \cap T = {}
  PROVE  /\ Cardinality(S) \in Nat /\ Cardinality(T) \in Nat
         /\ Cardinality(S) + Cardinality(T) <= Cardinality(Watchers)
  <1>1. IsFiniteSet(S) /\ IsFiniteSet(T)
    BY WatcherAssumption, FS_Subset
  <1>2. Cardinality(S \cap T) = 0
    BY FS_EmptySet
  <1>3. Cardinality(S \cup T) = Cardinality(S) + Cardinality(T)
    <2>1. Cardinality(S) \in Nat /\ Cardinality(T) \in Nat
      BY <1>1, FS_CardinalityType
    <2>2. Cardinality(S \cup T) = Cardinality(S) + Cardinality(T) - Cardinality(S \cap T)
      BY <1>1, FS_Union
    <2> QED BY <1>2, <2>1, <2>2
  <1>4. Cardinality(S \cup T) <= Cardinality(Watchers)
    BY WatcherAssumption, FS_Subset
  <1> QED BY <1>1, <1>3, <1>4, FS_CardinalityType

\* A step that books nothing, reopens nothing, and leaves the watchers of an account
\* alone or fewer before the position, keeps the account.
LEMMA QuietAccount ==
  ASSUME TickInv, TickInv', NEW p \in Positions, AccountOf(p),
         booked' = booked, crashes' = crashes,
         row'[p].status # "closed" => row[p].status # "closed",
         row'[p].status # "closed" => Unsaved(p)' = Unsaved(p),
         Before(p)' \subseteq Before(p)
  PROVE  AccountOf(p)'
  <1>1. Cardinality(Before(p)') \in Nat /\ Cardinality(Before(p)') <= Cardinality(Before(p))
    BY WatcherSets, FS_Subset, FS_CardinalityType
  <1> QED BY <1>1, WatcherSets DEF AccountOf

\* A tick that starts has only open rows before it.
LEMMA StartAccount ==
  ASSUME TickInv, TickInv', NEW w \in Watchers, StartTick(w), NEW p \in Positions, AccountOf(p)
  PROVE  AccountOf(p)'
  <1> DEFINE open == {i \in Positions : IsOpen(row[i])}
  <1>0. /\ UNCHANGED <<row, writes, booked, crashes>>
        /\ todo' = [todo EXCEPT ![w] = open]
        /\ \A v \in Watchers : v # w => view'[v] = view[v]
        /\ writes[w] = NoWrites
    BY DEF StartTick, TickInv, TypeOK
  <1>1. writes[w][p] = "none"
    BY <1>0 DEF NoWrites
  <1>2. Unsaved(p)' = Unsaved(p)
    BY <1>0, <1>1 DEF Unsaved
  <1>3. CASE IsOpen(row[p])
    <2>1. booked[p] <= crashes + Cardinality(Unsaved(p))
      BY <1>3 DEF AccountOf, IsOpen
    <2>2. Unsaved(p)' \cap Before(p)' = {}
      BY DEF TickInv, TodoFresh, Unsaved, Before
    <2>3. Unsaved(p)' \in SUBSET Watchers /\ Before(p)' \in SUBSET Watchers
      BY DEF Unsaved, Before
    <2>4. /\ Cardinality(Before(p)') \in Nat
          /\ Cardinality(Unsaved(p)') + Cardinality(Before(p)') <= Cardinality(Watchers)
      BY <2>2, <2>3, ApartCount
    <2> QED BY <1>0, <1>2, <2>1, <2>4, WatcherSets DEF AccountOf
  <1>4. CASE ~IsOpen(row[p])
    <2>1. Before(p)' \subseteq Before(p)
      BY <1>0, <1>4 DEF Before, TickInv, TypeOK
    <2> QED BY <1>0, <1>2, <2>1, QuietAccount
  <1> QED BY <1>3, <1>4

\* Looking at a position books it at most once, and is done with it.
LEMMA LookAccount ==
  ASSUME TickInv, TickInv', NEW w \in Watchers, NEW q \in Positions, Look(w, q),
         NEW p \in Positions, AccountOf(p)
  PROVE  AccountOf(p)'
  <1>1. PICK u \in Rows, kind \in WriteKinds :
          /\ todo' = [todo EXCEPT ![w] = @ \ {q}]
          /\ view' = [view EXCEPT ![w][q] = u]
          /\ writes' = [writes EXCEPT ![w][q] = kind]
          /\ booked' = IF u.status = "closed" THEN [booked EXCEPT ![q] = @ + 1] ELSE booked
          /\ u.status = "closed" => kind = "upsert"
          /\ u.status = "closed" /\ ~Emergency => q \notin Live
    BY LookDoes
  <1>2. q \in todo[w] /\ row' = row /\ crashes' = crashes
    BY DEF Look
  <1>3. Before(p)' = IF p = q THEN Before(p) \ {w} ELSE Before(p)
    BY <1>1 DEF Before, TickInv, TypeOK
  <1>4. CASE p # q
    <2>1. Unsaved(p)' = Unsaved(p)
      BY <1>1, <1>4 DEF Unsaved, TickInv, TypeOK
    <2>2. booked'[p] = booked[p]
      BY <1>1, <1>4 DEF TickInv, TypeOK
    <2> QED BY <1>2, <1>3, <1>4, <2>1, <2>2 DEF AccountOf
  <1>5. CASE p = q
    <2>1. w \in Before(p) /\ w \notin Unsaved(p)
      BY <1>2, <1>5 DEF Before, Unsaved, TickInv, TodoFresh
    <2>2. Cardinality(Before(p)') = Cardinality(Before(p)) - 1
      <3>1. Before(p)' = Before(p) \ {w}
        BY <1>3, <1>5
      <3> QED BY <2>1, <3>1, WatcherSets, FS_RemoveElement
    <2>3. CASE u.status = "closed"
      <3>1. Unsaved(p)' = Unsaved(p) \cup {w}
        BY <1>1, <1>5, <2>3 DEF Unsaved, TickInv, TypeOK
      <3>2. Cardinality(Unsaved(p)') = Cardinality(Unsaved(p)) + 1
        BY <2>1, <3>1, WatcherSets, FS_AddElement
      <3>3. booked'[p] = booked[p] + 1
        BY <1>1, <1>5, <2>3 DEF TickInv, TypeOK
      <3>4. ~(~Emergency /\ p \in Live)
        BY <1>1, <1>5, <2>3
      <3> QED BY <1>2, <2>2, <3>2, <3>3, <3>4, WatcherSets DEF AccountOf
    <2>4. CASE u.status # "closed"
      <3>1. Unsaved(p)' = Unsaved(p)
        BY <1>1, <1>5, <2>1, <2>4 DEF Unsaved, TickInv, TypeOK
      <3>2. booked'[p] = booked[p]
        BY <1>1, <2>4
      <3> QED BY <1>2, <2>2, <3>1, <3>2, WatcherSets DEF AccountOf
    <2> QED BY <2>3, <2>4
  <1> QED BY <1>4, <1>5

\* An upsert puts a booked close into the file; the one that may put an open row
\* back is of a live position, which is then booked by no decision.
LEMMA UpsertAccount ==
  ASSUME ~(Trailing /\ Emergency), TickInv, TickInv', NEW w \in Watchers, NEW q \in Positions,
         Upsert(w, q), NEW p \in Positions, AccountOf(p)
  PROVE  AccountOf(p)'
  <1>1. /\ UNCHANGED <<todo, view, booked, crashes>>
        /\ row' = [row EXCEPT ![q] = view[w][q]]
        /\ writes' = [writes EXCEPT ![w][q] = "none"]
        /\ writes[w][q] = "upsert"
    BY DEF Upsert
  <1>2. Before(p)' = Before(p)
    BY <1>1 DEF Before
  <1>3. CASE p # q
    <2>1. row'[p] = row[p] /\ Unsaved(p)' = Unsaved(p)
      BY <1>1, <1>3 DEF Unsaved, TickInv, TypeOK
    <2> QED BY <1>1, <1>2, <2>1, QuietAccount
  <1>4. CASE p = q /\ view[w][q].status = "closed"
    <2>1. row'[p].status = "closed"
      BY <1>1, <1>4 DEF TickInv, TypeOK
    <2> QED BY <1>1, <1>2, <2>1, QuietAccount
  <1>5. CASE p = q /\ view[w][q].status # "closed"
    <2>1. Trailing /\ p \in Live
      BY <1>1, <1>5 DEF TickInv, UpsertsClose
    <2>2. booked[p] = 0
      BY <2>1 DEF AccountOf
    <2>3. Unsaved(p)' \in SUBSET Watchers /\ {} \in SUBSET Watchers /\ Unsaved(p)' \cap {} = {}
      BY DEF Unsaved
    <2>4. Cardinality(Unsaved(p)') \in Nat
      BY <2>3, ApartCount
    <2> QED BY <1>1, <1>2, <2>2, <2>4, WatcherSets DEF AccountOf
  <1> QED BY <1>3, <1>4, <1>5

\* A killed watcher pays for the close it had booked and not persisted.
LEMMA CrashAccount ==
  ASSUME TickInv, TickInv', NEW w \in Watchers, Crash(w), NEW p \in Positions, AccountOf(p)
  PROVE  AccountOf(p)'
  <1>1. /\ row' = row /\ booked' = booked /\ crashes' = crashes + 1
        /\ todo' = [todo EXCEPT ![w] = {}]
        /\ view' = [view EXCEPT ![w] = NoRows]
        /\ writes' = [writes EXCEPT ![w] = NoWrites]
    BY DEF Crash, Forget
  <1>2. Before(p)' \subseteq Before(p)
    BY <1>1 DEF Before, TickInv, TypeOK
  <1>3. Cardinality(Before(p)') \in Nat /\ Cardinality(Before(p)') <= Cardinality(Before(p))
    BY <1>2, WatcherSets, FS_Subset, FS_CardinalityType
  <1>4. Unsaved(p)' = Unsaved(p) \ {w}
    BY <1>1 DEF Unsaved, TickInv, TypeOK, NoWrites
  <1>5. /\ Cardinality(Unsaved(p)') = Cardinality(Unsaved(p))
           \/ Cardinality(Unsaved(p)') = Cardinality(Unsaved(p)) - 1
        /\ Cardinality(Unsaved(p)') \in Nat
    BY <1>4, WatcherSets, FS_RemoveElement, FS_CardinalityType
  <1> QED BY <1>1, <1>3, <1>5, WatcherSets DEF AccountOf

\* The end of a tick, a position skipped and a merge change no account.
LEMMA RestAccount ==
  ASSUME TickInv, TickInv', NEW w \in Watchers,
         \/ Flush(w) \/ EndTick(w)
         \/ \E q \in Positions : SkipPosition(w, q),
         NEW p \in Positions, AccountOf(p)
  PROVE  AccountOf(p)'
  <1>1. CASE Flush(w)
    <2>1. UNCHANGED <<todo, view, writes, booked, crashes>> /\ row'[p].status = row[p].status
      BY <1>1, FlushRows DEF Flush
    <2> QED BY <2>1, QuietAccount DEF Unsaved, Before
  <1>2. CASE EndTick(w)
    <2>1. /\ UNCHANGED <<row, booked, crashes>>
          /\ todo' = [todo EXCEPT ![w] = {}]
          /\ view' = [view EXCEPT ![w] = NoRows]
          /\ writes' = [writes EXCEPT ![w] = NoWrites]
          /\ writes[w][p] # "upsert"
      BY <1>2 DEF EndTick, Forget
    <2>2. Unsaved(p)' = Unsaved(p)
      BY <2>1 DEF Unsaved, TickInv, TypeOK, NoWrites
    <2>3. Before(p)' \subseteq Before(p)
      BY <2>1 DEF Before, TickInv, TypeOK
    <2> QED BY <2>1, <2>2, <2>3, QuietAccount
  <1>3. ASSUME NEW q \in Positions, SkipPosition(w, q)
        PROVE  AccountOf(p)'
    <2>1. UNCHANGED <<row, view, writes, booked, crashes>> /\ todo' = [todo EXCEPT ![w] = @ \ {q}]
      BY <1>3 DEF SkipPosition
    <2>2. Before(p)' \subseteq Before(p)
      BY <2>1 DEF Before, TickInv, TypeOK
    <2> QED BY <2>1, <2>2, QuietAccount DEF Unsaved
  <1> QED BY <1>1, <1>2, <1>3

\* Every step keeps every account, unless live positions are both trailed and
\* closed by --emergency.
LEMMA AccountStep ==
  ASSUME ~(Trailing /\ Emergency)
  PROVE  TickInv /\ TickInv' /\ Accounted /\ [Next]_vars => Accounted'
  <1> SUFFICES ASSUME TickInv, TickInv', Accounted, [Next]_vars, NEW p \in Positions
               PROVE  AccountOf(p)'
    BY DEF Accounted
  <1>0. AccountOf(p)
    BY DEF Accounted
  <1>1. CASE UNCHANGED vars
    BY <1>0, <1>1, QuietAccount DEF vars, tick, Unsaved, Before
  <1>2. ASSUME NEW w \in Watchers, WatcherStep(w) \/ Crash(w)
        PROVE  AccountOf(p)'
    BY <1>0, <1>2, StartAccount, LookAccount, UpsertAccount, CrashAccount, RestAccount DEF WatcherStep
  <1>3. ASSUME NEW q \in Positions, OthersStep(q)
        PROVE  AccountOf(p)'
    <2>1. UNCHANGED <<tick, booked, crashes>>
      BY <1>3, OthersRow
    <2>2. PICK r \in Rows :
            /\ row' = [row EXCEPT ![q] = r]
            /\ r.status # row[q].status => r.status = "closed" \/ row[q].status = "absent"
      BY <1>3, OthersRow
    <2>3. row'[p].status # "closed" => row[p].status # "closed"
      BY <2>2 DEF TickInv, TypeOK
    <2> QED BY <1>0, <2>1, <2>3, QuietAccount DEF tick, Unsaved, Before
  <1> QED BY <1>1, <1>2, <1>3 DEF Next, OthersStep

\* A close reaches record_trade_close() at most once for each watcher and once more
\* for each watcher killed, for any number of watchers and positions - unless live
\* positions are trailed and --emergency closes them: then every suppressed trail
\* puts the row back for the next tick to close and book again.
THEOREM BookedOnce ==
  ASSUME ~(Trailing /\ Emergency)
  PROVE  Spec => []BookedOncePerWatcher
  <1>1. Init => Accounted
    <2> SUFFICES ASSUME Init, NEW p \in Positions PROVE AccountOf(p)
      BY DEF Accounted
    <2>1. Before(p) = {} /\ Unsaved(p) = {}
      BY DEF Init, Before, Unsaved, NoWrites
    <2>2. Cardinality({}) = 0 /\ Cardinality(Watchers) \in Nat
      BY FS_EmptySet, FS_CardinalityType, WatcherAssumption
    <2> QED BY <2>1, <2>2 DEF Init, AccountOf
  <1>2. TickInv /\ TickInv' /\ Accounted /\ [Next]_vars => Accounted'
    BY AccountStep
  <1>3. TickInv /\ Accounted => BookedOncePerWatcher
    <2> SUFFICES ASSUME TickInv, Accounted, NEW p \in Positions
                 PROVE  booked[p] <= Cardinality(Watchers) + crashes
      BY DEF BookedOncePerWatcher
    <2> QED BY WatcherSets DEF Accounted, AccountOf
  <1> QED BY <1>1, <1>2, <1>3, TickSafe, PTL DEF Spec
=============================================================================

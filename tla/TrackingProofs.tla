--------------------------- MODULE TrackingProofs ---------------------------
(***************************************************************************)
(* Proofs about PositionTracking, for every number of cycles and audits,   *)
(* every set of symbols and every choice of the bounds.                    *)
(*                                                                         *)
(* Neither RowsCapped nor AlarmExplained is inductive.  The cap holds      *)
(* because rows and candidates together are bounded: a review counts the   *)
(* rows only, but each cycle has one candidate, and its own is not among   *)
(* those it may add to.  An alarm is explained because an audit that has   *)
(* seen no drift knows more: what it read is still true, or differs from   *)
(* what is true in a way that agrees with the other side.                  *)
(***************************************************************************)
EXTENDS PositionTracking, FiniteSetTheorems, TLAPS

Busy == {c \in Cycles : pc[c] # "idle"}

\* The ids of rows and candidates are pairwise different and were all given out.
Ids ==
  /\ \A r \in rows : r.id <= opened
  /\ \A c \in Busy : cand[c].id <= opened /\ \A r \in rows : r.id # cand[c].id
  /\ \A c, d \in Busy : cand[c].id = cand[d].id => c = d

\* Rows and candidates together.
Counted ==
  /\ IsFiniteSet(rows)
  /\ Cardinality(rows) + Cardinality(Busy) <= MaxOpen + Cardinality(Cycles) - 1

\* A cycle that has always been alone knows its candidate is a new symbol.
Alone ==
  ~overlap =>
    /\ \A c, d \in Busy : c = d
    /\ Cardinality(rows) + Cardinality(Busy) <= MaxOpen
    /\ \A q, r \in rows : q.symbol = r.symbol => q = r
    /\ \A c \in Busy : RowsOf(rows, cand[c].symbol) = {}

CapInv == TypeOK /\ Ids /\ Counted /\ Alone

\* An audit that has seen no drift: there is none, it has nothing to report,
\* and a sync's view of the exchange is still true.
Steady ==
  \A a \in Audits :
    stage[a] = "half" /\ ~drifted[a] =>
      /\ Drifting = {}
      /\ Verdict(a) = {}
      /\ a \in Syncs => seenExch[a] = exch

-----------------------------------------------------------------------------
(* The reconciler. *)

\* What a clean reconciliation means: the exchange holds a position of a symbol
\* exactly when there is a row of it, and every row has the position's size.
THEOREM CleanMeansEqual ==
  ASSUME NEW r \in SUBSET Rows, NEW h \in [Symbols -> Int]
  PROVE  IsClean(r, h) <=>
           \A s \in Symbols : /\ h[s] = 0 <=> RowsOf(r, s) = {}
                              /\ \A q \in RowsOf(r, s) : q.size = h[s]
  <1>1. \A q \in r : q.symbol \in Symbols /\ q.size # 0
    BY DEF Rows, Sides
  <1>2. ASSUME IsClean(r, h), NEW s \in Symbols
        PROVE  /\ h[s] = 0 <=> RowsOf(r, s) = {}
               /\ \A q \in RowsOf(r, s) : q.size = h[s]
    BY <1>1, <1>2 DEF IsClean, Mismatched, MissingOnExchange, Differing,
                      MissingLocally, RowsOf
  <1>3. ASSUME \A s \in Symbols : /\ h[s] = 0 <=> RowsOf(r, s) = {}
                                  /\ \A q \in RowsOf(r, s) : q.size = h[s]
        PROVE  IsClean(r, h)
    BY <1>3 DEF IsClean, Mismatched, MissingOnExchange, Differing, MissingLocally
  <1> QED BY <1>2, <1>3

\* Without drift the reconciler has nothing to report.
LEMMA NoDriftIsClean ==
  ASSUME NEW r \in SUBSET Rows, NEW h \in [Symbols -> Int],
         \A s \in Symbols : h[s] = 0 \/ \E q \in r : q.symbol = s,
         \A s \in Symbols : \A q \in r : q.symbol = s => q.size = h[s]
  PROVE  Mismatched(r, h) = {}
  <1>1. \A q \in r : q.size # 0
    BY DEF Rows, Sides
  <1> QED BY <1>1 DEF Mismatched, MissingOnExchange, Differing, MissingLocally, RowsOf

\* A position that changes under rows that stay is drift, if there was none.
LEMMA MoveIsDrift ==
  ASSUME TypeOK, TypeOK', rows' = rows, exch' # exch, Drifting = {}
  PROVE  Drifting' # {}
  <1>1. PICK s \in Symbols : exch'[s] # exch[s]
    BY DEF TypeOK
  <1>2. CASE \E q \in rows : q.symbol = s
    BY <1>1, <1>2 DEF Drifting, Untracked
  <1>3. CASE ~ \E q \in rows : q.symbol = s
    BY <1>1, <1>3 DEF Drifting, Untracked
  <1> QED BY <1>2, <1>3

-----------------------------------------------------------------------------
(* The cap. *)

LEMMA NoRowIsNoRow == NoRow \notin Rows
  BY DEF NoRow, Rows

\* Sets of cycles are finite, and no larger than the set of all.
LEMMA CycleSets ==
  /\ Cardinality(Cycles) \in Nat
  /\ \A B \in SUBSET Cycles :
       IsFiniteSet(B) /\ Cardinality(B) \in Nat /\ Cardinality(B) <= Cardinality(Cycles)
  <1>1. IsFiniteSet(Cycles)
    BY TrackingAssumption
  <1> QED BY <1>1, FS_Subset, FS_CardinalityType

\* The types of what Noted writes, for every step.
LEMMA NotedTypes ==
  ASSUME TypeOK, Noted
  PROVE  /\ overlap' \in BOOLEAN
         /\ drifted' \in [Audits -> BOOLEAN]
  <1>1. overlap' \in BOOLEAN
    BY Zenon DEF TypeOK, Noted
  <1>2. drifted' \in [Audits -> BOOLEAN]
    BY Zenon DEF TypeOK, Noted
  <1> QED BY <1>1, <1>2

\* While overlap is not noted it never was, and at most one cycle is busy.
LEMMA NotOverlapping ==
  ASSUME TypeOK, Noted, ~overlap'
  PROVE  ~overlap /\ \A c, d \in Cycles : pc'[c] # "idle" /\ pc'[d] # "idle" => c = d
  BY DEF TypeOK, Noted

\* A step that leaves the rows and the cycles alone.
LEMMA CyclesStay ==
  ASSUME CapInv, Noted, UNCHANGED <<rows, pc, cand, opened>>
  PROVE  Ids' /\ Counted' /\ Alone'
  <1>1. Busy' = Busy
    BY DEF Busy
  <1>2. Ids' /\ Counted'
    BY <1>1 DEF CapInv, Ids, Counted
  <1>3. Alone'
    BY <1>1, NotOverlapping DEF CapInv, Alone, RowsOf
  <1> QED BY <1>2, <1>3

\* Rows that are taken away.
LEMMA RowsLeave ==
  ASSUME CapInv, Noted, UNCHANGED <<pc, cand, opened>>, rows' \subseteq rows
  PROVE  Ids' /\ Counted' /\ Alone'
  <1> USE DEF CapInv
  <1>1. Busy' = Busy
    BY DEF Busy
  <1>2. IsFiniteSet(rows) /\ IsFiniteSet(rows')
    BY FS_Subset DEF Counted
  <1>3. Cardinality(rows) \in Nat /\ Cardinality(rows') \in Nat
        /\ Cardinality(rows') <= Cardinality(rows)
    BY <1>2, FS_Subset, FS_CardinalityType DEF Counted
  <1>4. Cardinality(Busy) \in Nat /\ Cardinality(Cycles) \in Nat
    BY CycleSets DEF Busy
  <1>5. Ids'
    BY <1>1 DEF Ids
  <1>6. Counted'
    BY <1>1, <1>2, <1>3, <1>4, TrackingAssumption DEF Counted
  <1>7. ASSUME ~overlap' PROVE Cardinality(rows') + Cardinality(Busy') <= MaxOpen
    BY <1>1, <1>3, <1>4, <1>7, NotOverlapping, TrackingAssumption DEF Alone
  <1>8. Alone'
    BY <1>1, <1>7, NotOverlapping DEF Alone, RowsOf
  <1> QED BY <1>5, <1>6, <1>8

\* A candidate that comes to nothing.
LEMMA CandidateLeaves ==
  ASSUME CapInv, Noted, NEW c \in Cycles, pc[c] # "idle",
         SetCandidate(c, "idle", NoRow), UNCHANGED <<rows, opened>>
  PROVE  Ids' /\ Counted' /\ Alone'
  <1> USE DEF CapInv
  <1>1. Busy' = Busy \ {c} /\ c \in Busy
    BY DEF Busy, SetCandidate, TypeOK
  <1>2. \A d \in Busy' : cand'[d] = cand[d]
    BY <1>1 DEF Busy, SetCandidate, TypeOK
  <1>3. IsFiniteSet(rows) /\ Cardinality(rows) \in Nat
    BY FS_CardinalityType DEF Counted
  <1>4. /\ Cardinality(Busy) \in Nat /\ Cardinality(Cycles) \in Nat
        /\ Cardinality(Busy') = Cardinality(Busy) - 1
    BY <1>1, CycleSets, FS_RemoveElement DEF Busy
  <1>5. Ids'
    BY <1>1, <1>2 DEF Ids
  <1>6. Counted'
    BY <1>3, <1>4, TrackingAssumption DEF Counted
  <1>7. ASSUME ~overlap' PROVE Cardinality(rows') + Cardinality(Busy') <= MaxOpen
    BY <1>3, <1>4, <1>7, NotOverlapping, TrackingAssumption DEF Alone
  <1>8. Alone'
    BY <1>1, <1>2, <1>7, NotOverlapping DEF Alone, RowsOf
  <1> QED BY <1>5, <1>6, <1>8

LEMMA ReviewKeeps ==
  ASSUME CapInv, Noted, NEW c \in Cycles, Review(c)
  PROVE  Ids' /\ Counted' /\ Alone'
  <1> USE DEF CapInv
  <1>1. PICK s \in Symbols, side \in EntrySides :
          /\ Allowed(s)
          /\ SetCandidate(c, "cleared",
                          [id |-> opened + 1, symbol |-> s, size |-> side])
    BY DEF Review
  <1>2. pc[c] = "idle" /\ opened' = opened + 1 /\ opened \in Nat /\ rows' = rows
    BY DEF Review, TypeOK
  <1>3. Busy' = Busy \cup {c} /\ c \notin Busy
    BY <1>1, <1>2 DEF Busy, SetCandidate, TypeOK
  <1>4. /\ cand'[c].id = opened + 1 /\ cand'[c].symbol = s
        /\ \A d \in Busy : cand'[d] = cand[d]
    BY <1>1, <1>3 DEF SetCandidate, TypeOK, Busy
  <1>5. /\ \A r \in rows : r.id \in Nat
        /\ \A d \in Busy : cand[d].id \in Nat
    BY DEF TypeOK, Rows, Busy
  <1>6. IsFiniteSet(rows) /\ Cardinality(rows) \in Nat /\ Cardinality(rows) < MaxOpen
    BY <1>1, FS_CardinalityType DEF Counted, Allowed
  <1>7. /\ Cardinality(Busy) \in Nat /\ Cardinality(Cycles) \in Nat
        /\ Cardinality(Busy') <= Cardinality(Cycles)
        /\ Cardinality(Busy') = Cardinality(Busy) + 1 /\ Cardinality(Busy') \in Nat
    BY <1>3, CycleSets, FS_AddElement DEF Busy
  <1>8. Ids'
    <2>1. \A r \in rows' : r.id <= opened'
      BY <1>2, <1>5 DEF Ids
    <2>2. \A d \in Busy' : cand'[d].id <= opened' /\ \A r \in rows' : r.id # cand'[d].id
      BY <1>2, <1>3, <1>4, <1>5 DEF Ids
    <2>3. \A d, e \in Busy' : cand'[d].id = cand'[e].id => d = e
      BY <1>2, <1>3, <1>4, <1>5 DEF Ids
    <2> QED BY <2>1, <2>2, <2>3 DEF Ids
  <1>9. Counted'
    BY <1>2, <1>6, <1>7, TrackingAssumption DEF Counted
  <1>10. Alone'
    <2> SUFFICES ASSUME ~overlap'
                 PROVE  /\ \A d, e \in Busy' : d = e
                        /\ Cardinality(rows') + Cardinality(Busy') <= MaxOpen
                        /\ \A q, r \in rows' : q.symbol = r.symbol => q = r
                        /\ \A d \in Busy' : RowsOf(rows', cand'[d].symbol) = {}
      BY Zenon DEF Alone, RowsOf
    <2>1. ~overlap /\ \A d, e \in Busy' : d = e
      BY NotOverlapping DEF Busy
    <2>2. Busy = {}
      BY <1>3, <2>1
    <2>3. Cardinality(rows') + Cardinality(Busy') <= MaxOpen
      BY <1>2, <1>6, <1>7, <2>2, FS_EmptySet, TrackingAssumption
    <2>4. \A q, r \in rows' : q.symbol = r.symbol => q = r
      BY <1>2, <2>1 DEF Alone
    <2>5. \A d \in Busy' : RowsOf(rows', cand'[d].symbol) = {}
      BY <1>1, <1>2, <1>3, <1>4, <2>2 DEF Allowed
    <2> QED BY <2>1, <2>3, <2>4, <2>5
  <1> QED BY <1>8, <1>9, <1>10

LEMMA FireKeeps ==
  ASSUME CapInv, Noted, NEW c \in Cycles, Fire(c)
  PROVE  Ids' /\ Counted' /\ Alone'
  <1>1. PICK outcome \in {"filled", "refused", "rescued", "unrescued"} :
          SetCandidate(c, AfterFire(outcome),
                       IF AfterFire(outcome) = "idle" THEN NoRow ELSE cand[c])
    BY DEF Fire
  <1>2. pc[c] = "cleared" /\ UNCHANGED <<rows, opened>>
    BY DEF Fire, bounds
  <1>3. CASE outcome # "filled"
    <2>1. SetCandidate(c, "idle", NoRow)
      BY <1>1, <1>3 DEF AfterFire
    <2> QED BY <1>2, <2>1, CandidateLeaves
  <1>4. CASE outcome = "filled"
    <2>1. SetCandidate(c, "filled", cand[c])
      BY <1>1, <1>4 DEF AfterFire
    <2>2. cand' = cand /\ Busy' = Busy
      BY <1>2, <2>1 DEF SetCandidate, CapInv, TypeOK, Busy
    <2>3. Ids' /\ Counted'
      BY <1>2, <2>2 DEF CapInv, Ids, Counted
    <2>4. Alone'
      BY <1>2, <2>2, NotOverlapping DEF CapInv, Alone, RowsOf
    <2> QED BY <2>3, <2>4
  <1> QED BY <1>3, <1>4

\* What an upsert writes: the candidate under a fresh id, or in the place of a
\* row of its symbol.
LEMMA Upserted ==
  ASSUME CapInv, NEW c \in Cycles, Persist(c)
  PROVE  /\ pc[c] = "filled" /\ c \in Busy /\ cand[c] \in Rows
         /\ SetCandidate(c, "idle", NoRow) /\ UNCHANGED <<exch, opened>>
         /\ \/ rows' = rows \cup {cand[c]} /\ strayed' = strayed
            \/ \E q \in RowsOf(rows, cand[c].symbol), new \in Rows :
                 /\ new.id = q.id /\ new.symbol = q.symbol
                 /\ rows' = (rows \ {q}) \cup {new}
                 /\ strayed' = strayed \cup {q.symbol}
  <1> USE DEF CapInv
  <1>1. /\ pc[c] = "filled" /\ SetCandidate(c, "idle", NoRow) /\ UNCHANGED <<exch, opened>>
    BY DEF Persist, bounds
  <1>2. c \in Busy /\ cand[c] \in Rows
    BY <1>1 DEF Busy, TypeOK
  <1>3. PICK id \in {cand[c].id} \cup {r.id : r \in RowsOf(rows, cand[c].symbol)} :
          /\ rows' = {r \in rows : r.id # id}
                      \cup {[id |-> id, symbol |-> cand[c].symbol, size |-> cand[c].size]}
          /\ strayed' = strayed \cup {r.symbol : r \in {q \in rows : q.id = id}}
    BY DEF Persist
  <1>4. CASE id = cand[c].id
    <2>1. \A r \in rows : r.id # id
      BY <1>2, <1>4 DEF Ids
    <2>2. [id |-> id, symbol |-> cand[c].symbol, size |-> cand[c].size] = cand[c]
      BY <1>2, <1>4 DEF Rows
    <2>3. rows' = rows \cup {cand[c]} /\ strayed' = strayed
      BY <1>3, <2>1, <2>2
    <2> QED BY <1>1, <1>2, <2>3
  <1>5. CASE id # cand[c].id
    <2>1. PICK q \in RowsOf(rows, cand[c].symbol) : q.id = id
      BY <1>5
    <2> DEFINE new == [id |-> id, symbol |-> cand[c].symbol, size |-> cand[c].size]
    <2>2. q \in rows /\ q \in Rows /\ q.symbol = cand[c].symbol
      BY <2>1 DEF RowsOf, TypeOK
    <2>3. new \in Rows /\ new.id = q.id /\ new.symbol = q.symbol
      BY <1>2, <2>1, <2>2 DEF Rows
    <2>4. \A r \in rows : r.id = id <=> r = q
      BY <2>1, <2>2 DEF TypeOK
    <2>5. rows' = (rows \ {q}) \cup {new}
      BY <1>3, <2>4
    <2>6. strayed' = strayed \cup {q.symbol}
      BY <1>3, <2>2, <2>4
    <2> HIDE DEF new
    <2> QED BY <1>1, <1>2, <2>1, <2>3, <2>5, <2>6
  <1> QED BY <1>4, <1>5

\* Another cycle's row of the same id is replaced: none is added.
LEMMA ReplacedKeeps ==
  ASSUME CapInv, Noted, NEW c \in Cycles, pc[c] # "idle",
         SetCandidate(c, "idle", NoRow), UNCHANGED opened,
         NEW q \in RowsOf(rows, cand[c].symbol), NEW new \in Rows,
         new.id = q.id, new.symbol = q.symbol, rows' = (rows \ {q}) \cup {new}
  PROVE  Ids' /\ Counted' /\ Alone'
  <1> USE DEF CapInv
  <1>1. Busy' = Busy \ {c} /\ c \in Busy
    BY DEF Busy, SetCandidate, TypeOK
  <1>2. \A d \in Busy' : cand'[d] = cand[d]
    BY <1>1 DEF Busy, SetCandidate, TypeOK
  <1>3. q \in rows /\ q.symbol = cand[c].symbol
    BY DEF RowsOf
  <1>4. /\ IsFiniteSet(rows) /\ Cardinality(rows) \in Nat
        /\ IsFiniteSet(rows \ {q}) /\ Cardinality(rows \ {q}) = Cardinality(rows) - 1
    BY <1>3, FS_RemoveElement, FS_CardinalityType DEF Counted
  <1>5. new \notin rows \ {q}
    BY <1>3 DEF TypeOK
  <1>6. IsFiniteSet(rows') /\ Cardinality(rows') = Cardinality(rows)
    <2> DEFINE rest == rows \ {q}
    <2>1. IsFiniteSet(rest) /\ new \notin rest /\ rows' = rest \cup {new}
      BY <1>4, <1>5
    <2> HIDE DEF rest
    <2>2. IsFiniteSet(rows') /\ Cardinality(rows') = Cardinality(rest) + 1
      BY <2>1, FS_AddElement
    <2> QED BY <1>4, <2>2 DEF rest
  <1>7. /\ Cardinality(Busy) \in Nat /\ Cardinality(Cycles) \in Nat
        /\ Cardinality(Busy') = Cardinality(Busy) - 1
    BY <1>1, CycleSets, FS_RemoveElement DEF Busy
  <1>8. Ids'
    BY <1>1, <1>2, <1>3 DEF Ids
  <1>9. Counted'
    BY <1>4, <1>6, <1>7, TrackingAssumption DEF Counted
  \* A cycle that is alone works on a symbol without a row.
  <1>10. overlap'
    BY <1>1, <1>3, NotOverlapping DEF Alone
  <1> QED BY <1>8, <1>9, <1>10 DEF Alone

LEMMA PersistKeeps ==
  ASSUME CapInv, Noted, NEW c \in Cycles, Persist(c)
  PROVE  Ids' /\ Counted' /\ Alone'
  <1> USE DEF CapInv
  <1> SUFFICES ASSUME rows' = rows \cup {cand[c]}
               PROVE  Ids' /\ Counted' /\ Alone'
    BY Upserted, ReplacedKeeps
  <1>1. /\ pc[c] = "filled" /\ rows' = rows \cup {cand[c]} /\ opened' = opened
        /\ SetCandidate(c, "idle", NoRow)
    BY Upserted
  <1>2. Busy' = Busy \ {c} /\ c \in Busy
    BY <1>1 DEF Busy, SetCandidate, TypeOK
  <1>3. \A d \in Busy' : cand'[d] = cand[d]
    BY <1>1, <1>2 DEF Busy, SetCandidate, TypeOK
  <1>4. cand[c] \notin rows
    BY <1>2 DEF Ids
  <1>5. /\ IsFiniteSet(rows) /\ Cardinality(rows) \in Nat
        /\ IsFiniteSet(rows') /\ Cardinality(rows') = Cardinality(rows) + 1
    BY <1>1, <1>4, FS_AddElement, FS_CardinalityType DEF Counted
  <1>6. /\ Cardinality(Busy) \in Nat /\ Cardinality(Cycles) \in Nat
        /\ Cardinality(Busy') = Cardinality(Busy) - 1
    BY <1>2, CycleSets, FS_RemoveElement DEF Busy
  <1>7. Ids'
    BY <1>1, <1>2, <1>3 DEF Ids
  <1>8. Counted'
    BY <1>5, <1>6, TrackingAssumption DEF Counted
  <1>9. Alone'
    <2> SUFFICES ASSUME ~overlap'
                 PROVE  /\ \A d, e \in Busy' : d = e
                        /\ Cardinality(rows') + Cardinality(Busy') <= MaxOpen
                        /\ \A q, r \in rows' : q.symbol = r.symbol => q = r
                        /\ \A d \in Busy' : RowsOf(rows', cand'[d].symbol) = {}
      BY Zenon DEF Alone, RowsOf
    <2>1. ~overlap
      BY NotOverlapping
    <2>2. Busy' = {}
      BY <1>2, <2>1 DEF Alone
    <2>3. Cardinality(rows') + Cardinality(Busy') <= MaxOpen
      BY <1>5, <1>6, <2>1, TrackingAssumption DEF Alone
    <2>4. \A q, r \in rows' : q.symbol = r.symbol => q = r
      BY <1>1, <1>2, <2>1 DEF Alone, RowsOf
    <2> QED BY <2>2, <2>3, <2>4
  <1> QED BY <1>7, <1>8, <1>9

\* Types, action by action.
LEMMA TypesKept ==
  ASSUME CapInv, Next
  PROVE  TypeOK'
  <1> USE DEF CapInv
  <1>1. Noted
    BY DEF Next
  <1>2. /\ overlap' \in BOOLEAN
        /\ drifted' \in [Audits -> BOOLEAN]
    BY <1>1, NotedTypes
  <1>3. TypeOK /\ opened \in Nat /\ trades \in Nat /\ failures \in Nat
    BY DEF TypeOK
  <1>4. ASSUME NEW c \in Cycles, Review(c) PROVE TypeOK'
    <2>1. PICK s \in Symbols, side \in EntrySides :
            SetCandidate(c, "cleared",
                         [id |-> opened + 1, symbol |-> s, size |-> side])
      BY <1>4 DEF Review
    <2>2. opened < MaxRows /\ opened' = opened + 1
      BY <1>4 DEF Review
    <2>3. [id |-> opened + 1, symbol |-> s, size |-> side] \in Rows
      BY <1>3, <2>2, TrackingAssumption DEF Rows
    <2>4. /\ pc' \in [Cycles -> {"idle", "cleared", "filled"}]
          /\ cand' \in [Cycles -> Rows \cup {NoRow}]
          /\ \A d \in Cycles : cand'[d] = NoRow <=> pc'[d] = "idle"
      BY <1>3, <2>1, <2>3, NoRowIsNoRow DEF SetCandidate, TypeOK
    <2>5. opened' \in 0 .. MaxRows
      BY <1>3, <2>2, TrackingAssumption
    <2> QED BY <1>2, <1>3, <1>4, <2>4, <2>5 DEF Review, TypeOK, audits
  <1>5. ASSUME NEW c \in Cycles, Fire(c) PROVE TypeOK'
    <2>1. PICK outcome \in {"filled", "refused", "rescued", "unrescued"} :
            /\ SetCandidate(c, AfterFire(outcome),
                            IF AfterFire(outcome) = "idle" THEN NoRow ELSE cand[c])
            /\ IF outcome \in {"filled", "unrescued"}
               THEN Moved(cand[c].symbol, cand[c].size) ELSE UNCHANGED exch
            /\ strayed' = IF outcome = "unrescued" THEN strayed \cup {cand[c].symbol}
                          ELSE strayed
      BY <1>5 DEF Fire
    <2>2. pc[c] = "cleared" /\ cand[c] \in Rows
      BY <1>3, <1>5 DEF Fire, TypeOK
    <2>3. cand[c].symbol \in Symbols /\ cand[c].size \in Int
      BY <2>2 DEF Rows, Sides
    <2>4. exch' \in [Symbols -> Int] /\ strayed' \subseteq Symbols
      BY <1>3, <2>1, <2>3 DEF Moved, TypeOK
    <2>5. /\ pc' \in [Cycles -> {"idle", "cleared", "filled"}]
          /\ cand' \in [Cycles -> Rows \cup {NoRow}]
          /\ \A d \in Cycles : cand'[d] = NoRow <=> pc'[d] = "idle"
      BY <1>3, <2>1, <2>2, NoRowIsNoRow DEF AfterFire, SetCandidate, TypeOK
    <2> QED BY <1>2, <1>3, <1>5, <2>4, <2>5 DEF Fire, TypeOK, audits, bounds
  <1>6. ASSUME NEW c \in Cycles, Persist(c) PROVE TypeOK'
    <2>1. pc[c] = "filled" /\ SetCandidate(c, "idle", NoRow)
      BY <1>6 DEF Persist
    <2>2. cand[c] \in Rows /\ c \in Busy
      BY <1>3, <2>1 DEF TypeOK, Busy
    <2>3. /\ rows' \subseteq Rows /\ strayed' \subseteq Symbols
          /\ \A q, r \in rows' : q.id = r.id => q = r
      <3>1. CASE rows' = rows \cup {cand[c]} /\ strayed' = strayed
        BY <1>3, <2>2, <3>1 DEF TypeOK, Ids
      <3>2. ASSUME NEW q \in RowsOf(rows, cand[c].symbol), NEW new \in Rows,
                   new.id = q.id, rows' = (rows \ {q}) \cup {new},
                   strayed' = strayed \cup {q.symbol}
            PROVE  /\ rows' \subseteq Rows /\ strayed' \subseteq Symbols
                   /\ \A p, r \in rows' : p.id = r.id => p = r
        <4>1. q \in rows /\ q.symbol \in Symbols
          BY <1>3 DEF RowsOf, TypeOK, Rows
        <4> QED BY <1>3, <3>2, <4>1 DEF TypeOK
      <3> QED BY <1>6, <3>1, <3>2, Upserted
    <2>4. /\ pc' \in [Cycles -> {"idle", "cleared", "filled"}]
          /\ cand' \in [Cycles -> Rows \cup {NoRow}]
          /\ \A d \in Cycles : cand'[d] = NoRow <=> pc'[d] = "idle"
      BY <1>3, <2>1 DEF SetCandidate, TypeOK
    <2> QED BY <1>2, <1>3, <1>6, <2>3, <2>4 DEF Persist, TypeOK, audits, bounds
  <1>7. ASSUME NEW c \in Cycles, Kill(c) PROVE TypeOK'
    <2>1. pc[c] # "idle" /\ SetCandidate(c, "idle", NoRow)
      BY <1>7 DEF Kill
    <2>2. cand[c].symbol \in Symbols
      BY <1>3, <2>1 DEF TypeOK, Rows
    <2>3. /\ pc' \in [Cycles -> {"idle", "cleared", "filled"}]
          /\ cand' \in [Cycles -> Rows \cup {NoRow}]
          /\ \A d \in Cycles : cand'[d] = NoRow <=> pc'[d] = "idle"
      BY <1>3, <2>1 DEF SetCandidate, TypeOK
    <2>4. strayed' \subseteq Symbols
      BY <1>3, <1>7, <2>2 DEF Kill, TypeOK
    <2> QED BY <1>2, <1>3, <1>7, <2>3, <2>4 DEF Kill, TypeOK, audits, bounds
  <1>8. ASSUME NEW s \in Symbols, NEW size \in Int, Moved(s, size),
               strayed' = strayed \cup {s}, trades' \in 0 .. MaxTrades,
               UNCHANGED <<rows, cycles, audits, opened, failures>>
        PROVE  TypeOK'
    <2>1. exch' \in [Symbols -> Int] /\ strayed' \subseteq Symbols
      BY <1>3, <1>8 DEF Moved, TypeOK
    <2> QED BY <1>2, <1>3, <1>8, <2>1 DEF TypeOK, cycles, audits
  <1>9. trades < MaxTrades => trades + 1 \in 0 .. MaxTrades
    BY <1>3, TrackingAssumption
  <1>10. ASSUME NEW c \in Cycles, FireQueued(c) PROVE TypeOK'
    <2>1. PICK s \in Symbols, side \in EntrySides :
            Moved(s, side) /\ strayed' = strayed \cup {s}
      BY <1>10 DEF FireQueued
    <2>2. side \in Int /\ trades' \in 0 .. MaxTrades
      BY <1>9, <1>10, TrackingAssumption DEF FireQueued, Sides
    <2> QED BY <1>8, <1>10, <2>1, <2>2 DEF FireQueued
  <1>11. ASSUME NEW s \in Symbols, AccountStep(s) PROVE TypeOK'
    <2>1. CASE Trigger(s)
      <3>1. trades' \in 0 .. MaxTrades
        BY <1>3, <2>1 DEF Trigger, bounds, TypeOK
      <3>2. PICK size \in {-1, 1} : Moved(s, size)
        BY <2>1 DEF Trigger
      <3> QED BY <1>8, <2>1, <3>1, <3>2 DEF Trigger, bounds
    <2>2. CASE SyncClose(s) \/ MarkClosed(s)
      <3>1. rows' \subseteq rows
        BY <2>2 DEF SyncClose, MarkClosed
      <3> QED BY <1>2, <1>3, <2>2, <3>1 DEF SyncClose, MarkClosed, TypeOK, cycles, audits, bounds
    <2>3. CASE \E side \in Sides : UserTrade(s, side)
      BY <1>8, <1>9, <2>3 DEF UserTrade, Sides
    <2> QED BY <1>11, <2>1, <2>2, <2>3 DEF AccountStep
  <1>12. failures < MaxFailures => failures + 1 \in 0 .. MaxFailures
    BY <1>3, TrackingAssumption
  <1>13. ASSUME NEW a \in Audits, AuditStep(a) PROVE TypeOK'
    <2>1. failures' \in 0 .. MaxFailures
      BY <1>3, <1>12, <1>13 DEF AuditStep, SyncRead, SyncReport, ReconcileRead,
           ReconcileReport, ReconcileFails, Failing, bounds, TypeOK
    <2>2. stage' \in [Audits -> {"idle", "half", "blind"}]
      BY <1>3, <1>13 DEF AuditStep, SyncRead, SyncReport, ReconcileRead,
           ReconcileReport, ReconcileFails, TypeOK
    <2>3. seenExch' \in [Syncs -> [Symbols -> Int]]
      BY <1>3, <1>13 DEF AuditStep, SyncRead, SyncReport, ReconcileRead,
           ReconcileReport, ReconcileFails, Nothing, TypeOK
    <2>4. seenRows' \in [Reconciles -> SUBSET Rows]
      BY <1>3, <1>13 DEF AuditStep, SyncRead, SyncReport, ReconcileRead,
           ReconcileReport, ReconcileFails, TypeOK
    <2>5. manual' \subseteq Symbols
      BY <1>3, <1>13 DEF AuditStep, SyncRead, SyncReport, ReconcileRead,
           ReconcileReport, ReconcileFails, Found, MissingLocally, TypeOK
    <2>6. UNCHANGED <<exch, rows, pc, cand, opened, trades, strayed>>
      BY <1>13 DEF AuditStep, SyncRead, SyncReport, ReconcileRead,
           ReconcileReport, ReconcileFails, cycles, bounds
    <2> QED BY <1>2, <1>3, <2>1, <2>2, <2>3, <2>4, <2>5, <2>6 DEF TypeOK
  <1> QED BY <1>4, <1>5, <1>6, <1>7, <1>10, <1>11, <1>13 DEF Next, CycleStep

LEMMA CapInit == Init => CapInv
  <1> SUFFICES ASSUME Init PROVE CapInv
    OBVIOUS
  <1>1. TypeOK
    <2>1. /\ exch \in [Symbols -> Int] /\ seenExch \in [Syncs -> [Symbols -> Int]]
      BY DEF Init, Nothing
    <2>2. /\ opened \in 0 .. MaxRows /\ trades \in 0 .. MaxTrades
          /\ failures \in 0 .. MaxFailures
      BY TrackingAssumption DEF Init
    <2>3. /\ overlap \in BOOLEAN /\ drifted \in [Audits -> BOOLEAN]
      BY Zenon DEF Init
    <2>4. /\ rows = {} /\ manual = {} /\ strayed = {}
          /\ stage \in [Audits -> {"idle", "half", "blind"}]
          /\ seenRows \in [Reconciles -> SUBSET Rows]
      BY DEF Init
    <2>5. /\ pc \in [Cycles -> {"idle", "cleared", "filled"}]
          /\ cand \in [Cycles -> Rows \cup {NoRow}]
          /\ \A c \in Cycles : cand[c] = NoRow <=> pc[c] = "idle"
      BY DEF Init
    <2> QED BY <2>1, <2>2, <2>3, <2>4, <2>5 DEF TypeOK
  <1>2. Busy = {}
    BY DEF Init, Busy
  <1>3. Ids
    BY <1>2 DEF Init, Ids
  <1>4. Counted
    BY <1>2, FS_EmptySet, CycleSets, TrackingAssumption DEF Init, Counted
  <1>5. Alone
    BY <1>2, FS_EmptySet, TrackingAssumption DEF Init, Alone
  <1> QED BY <1>1, <1>3, <1>4, <1>5 DEF CapInv

LEMMA CapStep == CapInv /\ [Next]_vars => CapInv'
  <1> SUFFICES ASSUME CapInv, [Next]_vars PROVE CapInv'
    OBVIOUS
  <1>1. CASE UNCHANGED vars
    BY <1>1 DEF CapInv, TypeOK, Ids, Counted, Alone, Busy, RowsOf, vars, cycles, audits,
                bounds, history
  <1>2. CASE Next
    <2>1. Noted
      BY <1>2 DEF Next
    <2>2. ASSUME NEW c \in Cycles, CycleStep(c) \/ Kill(c)
          PROVE  Ids' /\ Counted' /\ Alone'
      <3>1. CASE Review(c)
        BY <2>1, <3>1, ReviewKeeps
      <3>2. CASE Fire(c)
        BY <2>1, <3>2, FireKeeps
      <3>3. CASE Persist(c)
        BY <2>1, <3>3, PersistKeeps
      <3>4. CASE FireQueued(c)
        BY <2>1, <3>4, CyclesStay DEF FireQueued, cycles
      <3>5. CASE Kill(c)
        BY <2>1, <3>5, CandidateLeaves DEF Kill, bounds
      <3> QED BY <2>2, <3>1, <3>2, <3>3, <3>4, <3>5 DEF CycleStep
    <2>3. ASSUME NEW a \in Audits, AuditStep(a)
          PROVE  Ids' /\ Counted' /\ Alone'
      <3>1. UNCHANGED <<rows, pc, cand, opened>>
        BY <2>3 DEF AuditStep, SyncRead, SyncReport, ReconcileRead, ReconcileReport,
             ReconcileFails, cycles, bounds
      <3> QED BY <2>1, <3>1, CyclesStay
    <2>4. ASSUME NEW s \in Symbols, AccountStep(s)
          PROVE  Ids' /\ Counted' /\ Alone'
      <3>1. CASE Trigger(s) \/ \E side \in Sides : UserTrade(s, side)
        BY <2>1, <3>1, CyclesStay DEF Trigger, UserTrade, cycles, bounds
      <3>2. CASE SyncClose(s) \/ MarkClosed(s)
        BY <2>1, <3>2, RowsLeave DEF SyncClose, MarkClosed, cycles, bounds
      <3> QED BY <2>4, <3>1, <3>2 DEF AccountStep
    <2>5. Ids' /\ Counted' /\ Alone'
      BY <1>2, <2>2, <2>3, <2>4 DEF Next
    <2> QED BY <1>2, <2>5, TypesKept DEF CapInv
  <1> QED BY <1>1, <1>2

\* In every reachable state rows and candidates are told apart and counted: the
\* ids of two entries may collide, and the upsert then keeps one row of them.
THEOREM TrackingInvariant == Spec => []CapInv
  BY CapInit, CapStep, PTL DEF Spec

\* Every variable keeps its type, and no two rows share an id.
THEOREM TrackingTypeCorrect == Spec => []TypeOK
  <1>1. CapInv => TypeOK
    BY DEF CapInv
  <1> QED BY <1>1, TrackingInvariant, PTL

\* The cap on open positions, whatever the number of cycles: exact while no two
\* cycles work on candidates at one time, else exceeded by at most one row for
\* each other cycle.
THEOREM RowsStayCapped == Spec => []RowsCapped
  <1>1. CapInv => RowsCapped
    <2> SUFFICES ASSUME CapInv PROVE RowsCapped
      OBVIOUS
    <2>1. Cardinality(rows) \in Nat /\ Cardinality(Busy) \in Nat
      BY FS_CardinalityType, CycleSets DEF CapInv, Counted, Busy
    <2> QED BY <2>1, CycleSets, TrackingAssumption
            DEF CapInv, Counted, Alone, RowsCapped
  <1> QED BY <1>1, TrackingInvariant, PTL

-----------------------------------------------------------------------------
(* The rows and the position. *)

\* Rows and entries about to get one are finitely many.
LEMMA TrackedFinite ==
  ASSUME CapInv, NEW s \in Symbols, NEW side \in Sides
  PROVE  IsFiniteSet(Tracked(s, side)) /\ Cardinality(Tracked(s, side)) \in Nat
  <1>1. IsFiniteSet({cand[c] : c \in Cycles})
    <2>1. cand \in [Cycles -> Rows \cup {NoRow}] /\ IsFiniteSet(Cycles)
      BY TrackingAssumption DEF CapInv, TypeOK
    <2> DEFINE given == {cand[c] : c \in Cycles}
    <2>2. cand \in Surjection(Cycles, given)
      BY <2>1 DEF Surjection
    <2> QED BY <2>1, <2>2, FS_Surjection
  <1>2. IsFiniteSet(rows \cup {cand[c] : c \in Cycles})
    BY <1>1, FS_Union DEF CapInv, Counted
  <1>3. Tracked(s, side) \subseteq rows \cup {cand[c] : c \in Cycles}
    BY DEF Tracked, RowsOf, Pending
  <1> QED BY <1>2, <1>3, FS_Subset, FS_CardinalityType

\* What an entry that fills adds: its row is in neither set before, and in the
\* set of its own side after.
LEMMA FilledIsTracked ==
  ASSUME CapInv, NEW c \in Cycles, pc[c] = "cleared",
         SetCandidate(c, "filled", cand[c]), UNCHANGED rows,
         NEW s \in Symbols, NEW side \in Sides
  PROVE  /\ Tracked(s, side)' = IF cand[c].symbol = s /\ cand[c].size = side
                                THEN Tracked(s, side) \cup {cand[c]} ELSE Tracked(s, side)
         /\ cand[c] \notin Tracked(s, side)
  <1> USE DEF CapInv
  <1>1. /\ cand' = cand /\ pc' = [pc EXCEPT ![c] = "filled"]
        /\ pc \in [Cycles -> {"idle", "cleared", "filled"}]
    BY DEF SetCandidate, TypeOK
  <1>2. Pending(s)' = IF cand[c].symbol = s THEN Pending(s) \cup {cand[c]} ELSE Pending(s)
    BY <1>1 DEF Pending
  <1>3. cand[c] \notin rows
    BY DEF Ids, Busy
  <1>4. cand[c] \notin Pending(s)
    <2> SUFFICES ASSUME NEW d \in Cycles, pc[d] = "filled", cand[d] = cand[c]
                 PROVE  FALSE
      BY DEF Pending
    <2> QED BY DEF Ids, Busy
  <1> QED BY <1>2, <1>3, <1>4 DEF Tracked, RowsOf

\* Every other step that does not stray moves the entries between the two sets
\* at most, from those about to get a row to those that have one.
LEMMA TrackedStays ==
  ASSUME CapInv, CapInv', Next, NEW s \in Symbols, s \notin strayed', NEW side \in Sides,
         \A c \in Cycles : ~Fire(c)
  PROVE  s \notin strayed /\ exch'[s] = exch[s] /\ Tracked(s, side)' = Tracked(s, side)
  <1> USE DEF CapInv
  <1> DEFINE Same == /\ s \notin strayed /\ exch'[s] = exch[s]
                     /\ Tracked(s, side)' = Tracked(s, side)
  <1>1. exch \in [Symbols -> Int] /\ pc \in [Cycles -> {"idle", "cleared", "filled"}]
    BY DEF TypeOK
  <1>2. CASE UNCHANGED <<exch, rows, pc, cand, strayed>>
    BY <1>2 DEF Tracked, RowsOf, Pending
  <1>3. ASSUME NEW a \in Audits, AuditStep(a)
        PROVE  UNCHANGED <<exch, rows, pc, cand, strayed>>
    BY <1>3 DEF AuditStep, SyncRead, SyncReport, ReconcileRead, ReconcileReport,
         ReconcileFails, cycles
  <1>4. ASSUME NEW c \in Cycles, pc[c] # "filled", pc'[c] # "filled",
               NEW stop, NEW r, SetCandidate(c, stop, r),
               UNCHANGED <<exch, rows, strayed>>
        PROVE  Same
    <2>1. \A d \in Cycles : d # c => pc'[d] = pc[d] /\ cand'[d] = cand[d]
      BY <1>4 DEF SetCandidate, TypeOK
    <2>2. Pending(s)' = Pending(s)
      BY <1>4, <2>1 DEF Pending
    <2> QED BY <1>4, <2>2 DEF Tracked, RowsOf
  <1>5. ASSUME NEW c \in Cycles, Review(c)
        PROVE  Same
    <2>1. PICK t \in Symbols, d \in EntrySides :
            SetCandidate(c, "cleared", [id |-> opened + 1, symbol |-> t, size |-> d])
      BY <1>5 DEF Review
    <2>2. pc[c] # "filled" /\ pc'[c] # "filled" /\ UNCHANGED <<exch, rows, strayed>>
      BY <1>1, <1>5, <2>1 DEF Review, SetCandidate
    <2> QED BY <1>4, <2>1, <2>2
  <1>6. ASSUME NEW c \in Cycles, Persist(c)
        PROVE  Same
    <2>7. /\ pc[c] = "filled" /\ SetCandidate(c, "idle", NoRow) /\ UNCHANGED exch
          /\ cand[c] \in Rows
      BY <1>6, Upserted
    <2>2. \A d \in Cycles : pc'[d] = "filled" <=> pc[d] = "filled" /\ d # c
      BY <1>1, <2>7 DEF SetCandidate
    <2>3. \A d \in Cycles : d # c => cand'[d] = cand[d]
      BY <2>7 DEF SetCandidate, TypeOK
    <2>4. Pending(s) = IF cand[c].symbol = s THEN Pending(s)' \cup {cand[c]}
                       ELSE Pending(s)'
      BY <2>7, <2>2, <2>3 DEF Pending
    <2>5. CASE rows' = rows \cup {cand[c]} /\ strayed' = strayed
      <3>1. RowsOf(rows', s) \cup Pending(s)' = RowsOf(rows, s) \cup Pending(s)
        BY <2>4, <2>5 DEF RowsOf
      <3> QED BY <2>5, <2>7, <3>1 DEF Tracked
    <2>6. ASSUME NEW q \in RowsOf(rows, cand[c].symbol), NEW new \in Rows,
                 new.symbol = q.symbol, rows' = (rows \ {q}) \cup {new},
                 strayed' = strayed \cup {q.symbol}
          PROVE  Same
      <3>1. q.symbol = cand[c].symbol /\ cand[c].symbol # s /\ s \notin strayed
        BY <2>6 DEF RowsOf
      <3>2. RowsOf(rows', s) = RowsOf(rows, s) /\ Pending(s)' = Pending(s)
        BY <2>4, <2>6, <3>1 DEF RowsOf
      <3> QED BY <2>7, <3>1, <3>2 DEF Tracked
    <2> QED BY <1>6, <2>5, <2>6, Upserted
  <1>7. ASSUME NEW c \in Cycles, Kill(c)
        PROVE  Same
    <2>1. /\ SetCandidate(c, "idle", NoRow)
          /\ UNCHANGED <<exch, rows>> /\ strayed \subseteq strayed'
      BY <1>7 DEF Kill
    <2>2. CASE pc[c] = "filled"
      <3>1. cand[c].symbol # s
        BY <1>7, <2>2 DEF Kill
      <3>2. \A d \in Cycles : d # c => pc'[d] = pc[d] /\ cand'[d] = cand[d]
        BY <2>1 DEF SetCandidate, TypeOK
      <3>3. pc'[c] = "idle"
        BY <1>1, <2>1 DEF SetCandidate
      <3>4. Pending(s)' = Pending(s)
        BY <3>1, <3>2, <3>3 DEF Pending
      <3> QED BY <2>1, <3>4 DEF Tracked, RowsOf
    <2>3. CASE pc[c] # "filled"
      <3>1. pc'[c] # "filled" /\ strayed' = strayed
        BY <1>1, <1>7, <2>1, <2>3 DEF SetCandidate, Kill
      <3> QED BY <1>4, <2>1, <2>3, <3>1
    <2> QED BY <2>2, <2>3
  <1>8. ASSUME NEW t \in Symbols, NEW size \in Int, Moved(t, size),
               strayed' = strayed \cup {t}, UNCHANGED <<rows, pc, cand>>
        PROVE  Same
    BY <1>1, <1>8 DEF Moved, Tracked, RowsOf, Pending
  <1>9. ASSUME NEW c \in Cycles, FireQueued(c)
        PROVE  Same
    <2>1. PICK t \in Symbols, d \in EntrySides : Moved(t, d) /\ strayed' = strayed \cup {t}
      BY <1>9 DEF FireQueued
    <2>2. d \in Int
      BY TrackingAssumption DEF Sides
    <2> QED BY <1>8, <1>9, <2>1, <2>2 DEF FireQueued, cycles
  <1>10. ASSUME NEW t \in Symbols, AccountStep(t)
        PROVE  Same
    <2>1. CASE Trigger(t)
      <3>1. PICK size \in {-1, 1} : Moved(t, size)
        BY <2>1 DEF Trigger
      <3> QED BY <1>8, <2>1, <3>1 DEF Trigger, cycles
    <2>2. CASE SyncClose(t) \/ MarkClosed(t)
      <3>1. t # s /\ strayed \subseteq strayed' /\ UNCHANGED <<exch, pc, cand>>
        BY <2>2 DEF SyncClose, MarkClosed, cycles
      <3>2. RowsOf(rows', s) = RowsOf(rows, s)
        BY <2>2, <3>1 DEF SyncClose, MarkClosed, RowsOf
      <3> QED BY <3>1, <3>2 DEF Tracked, Pending
    <2>3. CASE \E d \in Sides : UserTrade(t, d)
      BY <1>8, <2>3 DEF UserTrade, Sides, cycles
    <2> QED BY <1>10, <2>1, <2>2, <2>3 DEF AccountStep
  <1> QED BY <1>2, <1>3, <1>5, <1>6, <1>7, <1>9, <1>10 DEF Next, CycleStep

LEMMA TracksStep ==
  CapInv /\ CapInv' /\ LoopTracksItsEntries /\ [Next]_vars => LoopTracksItsEntries'
  <1> SUFFICES ASSUME CapInv, CapInv', LoopTracksItsEntries, [Next]_vars,
                      NEW s \in Symbols, s \notin strayed'
               PROVE  exch'[s] = Cardinality(Tracked(s, 1)') - Cardinality(Tracked(s, -1)')
    BY DEF LoopTracksItsEntries
  <1>1. s \notin strayed
          => exch[s] = Cardinality(Tracked(s, 1)) - Cardinality(Tracked(s, -1))
    BY DEF LoopTracksItsEntries
  <1>2. CASE UNCHANGED vars
    BY <1>1, <1>2 DEF Tracked, RowsOf, Pending, vars, cycles, history
  <1>3. ASSUME Next, \A c \in Cycles : ~Fire(c)
        PROVE  exch'[s] = Cardinality(Tracked(s, 1)') - Cardinality(Tracked(s, -1)')
    <2>1. 1 \in Sides /\ -1 \in Sides
      BY DEF Sides
    <2>2. /\ s \notin strayed /\ exch'[s] = exch[s]
          /\ Tracked(s, 1)' = Tracked(s, 1) /\ Tracked(s, -1)' = Tracked(s, -1)
      BY <1>3, <2>1, TrackedStays
    <2> QED BY <1>1, <2>2
  <1>4. ASSUME NEW c \in Cycles, Fire(c)
        PROVE  exch'[s] = Cardinality(Tracked(s, 1)') - Cardinality(Tracked(s, -1)')
    <2>1. PICK outcome \in {"filled", "refused", "rescued", "unrescued"} :
            /\ SetCandidate(c, AfterFire(outcome),
                            IF AfterFire(outcome) = "idle" THEN NoRow ELSE cand[c])
            /\ IF outcome \in {"filled", "unrescued"}
               THEN Moved(cand[c].symbol, cand[c].size) ELSE UNCHANGED exch
            /\ strayed' = IF outcome = "unrescued" THEN strayed \cup {cand[c].symbol}
                          ELSE strayed
      BY <1>4 DEF Fire
    <2>2. pc[c] = "cleared" /\ rows' = rows /\ s \notin strayed
      BY <1>4, <2>1 DEF Fire
    <2>3. /\ cand[c] \in Rows /\ exch \in [Symbols -> Int]
          /\ pc \in [Cycles -> {"idle", "cleared", "filled"}]
      BY <2>2 DEF CapInv, TypeOK
    <2>4. cand[c].symbol \in Symbols /\ cand[c].size \in Sides
      BY <2>3 DEF Rows
    <2>5. CASE outcome = "filled"
      <3>1. SetCandidate(c, "filled", cand[c]) /\ Moved(cand[c].symbol, cand[c].size)
        BY <2>1, <2>5 DEF AfterFire
      <3>2. \A side \in Sides :
              /\ Tracked(s, side)' = IF cand[c].symbol = s /\ cand[c].size = side
                                     THEN Tracked(s, side) \cup {cand[c]} ELSE Tracked(s, side)
              /\ cand[c] \notin Tracked(s, side)
        <4> TAKE side \in Sides
        <4> QED BY <2>2, <3>1, FilledIsTracked
      <3>3. \A side \in Sides :
              /\ IsFiniteSet(Tracked(s, side)) /\ Cardinality(Tracked(s, side)) \in Nat
        BY TrackedFinite
      <3>4. \A side \in Sides :
              Cardinality(Tracked(s, side) \cup {cand[c]}) = Cardinality(Tracked(s, side)) + 1
        BY <3>2, <3>3, FS_AddElement
      <3>5. exch'[s] = IF cand[c].symbol = s THEN exch[s] + cand[c].size ELSE exch[s]
        BY <2>3, <2>4, <3>1 DEF Moved
      <3>6. CASE cand[c].symbol # s
        BY <1>1, <2>2, <3>2, <3>5, <3>6 DEF Sides
      <3>7. CASE cand[c].symbol = s /\ cand[c].size = 1
        <4>1. Cardinality(Tracked(s, 1)') = Cardinality(Tracked(s, 1)) + 1
          BY <3>2, <3>4, <3>7 DEF Sides
        <4>2. Tracked(s, -1)' = Tracked(s, -1)
          BY <3>2, <3>7 DEF Sides
        <4> QED BY <1>1, <2>2, <3>3, <3>5, <3>7, <4>1, <4>2 DEF Sides
      <3>8. CASE cand[c].symbol = s /\ cand[c].size = -1
        <4>1. Cardinality(Tracked(s, -1)') = Cardinality(Tracked(s, -1)) + 1
          BY <3>2, <3>4, <3>8 DEF Sides
        <4>2. Tracked(s, 1)' = Tracked(s, 1)
          BY <3>2, <3>8 DEF Sides
        <4> QED BY <1>1, <2>2, <3>3, <3>5, <3>8, <4>1, <4>2 DEF Sides
      <3> QED BY <2>4, <3>6, <3>7, <3>8 DEF Sides
    <2>6. CASE outcome # "filled"
      <3>1. SetCandidate(c, "idle", NoRow)
        BY <2>1, <2>6 DEF AfterFire
      <3>2. \A d \in Cycles : d # c => pc'[d] = pc[d] /\ cand'[d] = cand[d]
        BY <2>3, <3>1 DEF SetCandidate, CapInv, TypeOK
      <3>3. pc'[c] = "idle"
        BY <2>3, <3>1 DEF SetCandidate
      <3>4. Pending(s)' = Pending(s)
        BY <2>2, <3>2, <3>3 DEF Pending
      <3>5. exch'[s] = exch[s]
        BY <2>1, <2>3, <2>4, <2>6 DEF Moved
      <3> QED BY <1>1, <2>2, <3>4, <3>5 DEF Tracked, RowsOf
    <2> QED BY <2>5, <2>6
  <1> QED BY <1>2, <1>3, <1>4

\* The position of a symbol is the sum of its rows and of the entries about to
\* get one, whatever the cycles do at the same time, until something that the
\* cycles' loops do not write down has moved it.
THEOREM LoopsTrackTheirEntries == Spec => []LoopTracksItsEntries
  <1>1. Init => LoopTracksItsEntries
    <2> SUFFICES ASSUME Init, NEW s \in Symbols
                 PROVE  exch[s] = Cardinality(Tracked(s, 1)) - Cardinality(Tracked(s, -1))
      BY DEF LoopTracksItsEntries
    <2>1. Tracked(s, 1) = {} /\ Tracked(s, -1) = {}
      BY DEF Init, Tracked, RowsOf, Pending
    <2>2. exch[s] = 0
      BY DEF Init, Nothing
    <2> QED BY <2>1, <2>2, FS_EmptySet
  <1> QED BY <1>1, TracksStep, TrackingInvariant, PTL DEF Spec

-----------------------------------------------------------------------------
(* The alarm. *)

\* No step moves the exchange and the rows at once.
LEMMA OneSideAtATime == Next => exch' = exch \/ rows' = rows
  BY DEF Next, CycleStep, Review, Fire, Persist, FireQueued, Kill, AuditStep,
     SyncRead, SyncReport, ReconcileRead, ReconcileReport, ReconcileFails,
     AccountStep, Trigger, SyncClose, MarkClosed, UserTrade, bounds

\* An audit in the middle keeps what it read, unless it is its turn.
LEMMA AuditsKeepTheirViews ==
  ASSUME TypeOK, Next, NEW a \in Audits, stage'[a] = "half"
  PROVE  \/ /\ stage[a] = "half"
            /\ a \in Syncs => seenExch'[a] = seenExch[a]
            /\ a \in Reconciles => seenRows'[a] = seenRows[a]
         \/ /\ a \in Syncs => seenExch'[a] = exch'
            /\ a \in Reconciles => seenRows'[a] = rows'
  <1>1. CASE UNCHANGED audits
    BY <1>1 DEF audits
  <1>2. ASSUME NEW b \in Syncs, SyncRead(b) \/ SyncReport(b), b # a
        PROVE  /\ stage'[a] = stage[a]
               /\ a \in Syncs => seenExch'[a] = seenExch[a]
               /\ seenRows' = seenRows
    BY <1>2 DEF SyncRead, SyncReport, TypeOK, Audits
  <1>3. ASSUME NEW b \in Reconciles,
               ReconcileRead(b) \/ ReconcileReport(b) \/ ReconcileFails(b), b # a
        PROVE  /\ stage'[a] = stage[a]
               /\ a \in Reconciles => seenRows'[a] = seenRows[a]
               /\ seenExch' = seenExch
    BY <1>3 DEF ReconcileRead, ReconcileReport, ReconcileFails, TypeOK, Audits
  <1>4. ASSUME a \in Syncs, SyncRead(a) \/ SyncReport(a)
        PROVE  seenExch'[a] = exch' /\ a \notin Reconciles
    BY <1>4, TrackingAssumption DEF SyncRead, SyncReport, TypeOK
  <1>5. ASSUME a \in Reconciles,
               ReconcileRead(a) \/ ReconcileReport(a) \/ ReconcileFails(a)
        PROVE  seenRows'[a] = rows' /\ a \notin Syncs
    BY <1>5, TrackingAssumption
       DEF ReconcileRead, ReconcileReport, ReconcileFails, TypeOK
  <1>6. CASE \E b \in Audits : AuditStep(b)
    BY <1>2, <1>3, <1>4, <1>5, <1>6 DEF AuditStep
  <1>7. CASE ~ \E b \in Audits : AuditStep(b)
    <2>1. UNCHANGED audits
      BY <1>7 DEF Next, CycleStep, Review, Fire, Persist, FireQueued, Kill, AccountStep,
         Trigger, SyncClose, MarkClosed, UserTrade
    <2> QED BY <1>1, <2>1
  <1> QED BY <1>6, <1>7

LEMMA SteadyStep == CapInv /\ CapInv' /\ Steady /\ [Next]_vars => Steady'
  <1> SUFFICES ASSUME CapInv, CapInv', Steady, [Next]_vars,
                      NEW a \in Audits, stage'[a] = "half", ~drifted'[a]
               PROVE  /\ Drifting' = {}
                      /\ Verdict(a)' = {}
                      /\ a \in Syncs => seenExch'[a] = exch'
    BY Zenon DEF Steady
  <1>1. CASE UNCHANGED vars
    BY <1>1 DEF Steady, Drifting, Untracked, Verdict, vars, cycles, audits, history
  <1>2. CASE Next
    <2>1. TypeOK /\ TypeOK'
      BY DEF CapInv
    <2>2. drifted'[a] = (stage'[a] # "idle" /\ (drifted[a] \/ Drifting' # {}))
      BY <1>2 DEF Next, Noted
    <2>3. Drifting' = {} /\ ~drifted[a]
      BY <2>1, <2>2 DEF TypeOK
    <2>4. Mismatched(rows', exch') = {}
      <3>1. rows' \in SUBSET Rows /\ exch' \in [Symbols -> Int]
        BY <2>1 DEF TypeOK
      <3>2. \A s \in Symbols : exch'[s] = 0 \/ \E q \in rows' : q.symbol = s
        BY <2>3 DEF Drifting, Untracked
      <3>3. \A s \in Symbols : \A q \in rows' : q.symbol = s => q.size = exch'[s]
        BY <2>3 DEF Drifting
      <3> QED BY <3>1, <3>2, <3>3, NoDriftIsClean
    <2>5. CASE /\ a \in Syncs => seenExch'[a] = exch'
               /\ a \in Reconciles => seenRows'[a] = rows'
      BY <2>3, <2>4, <2>5 DEF Verdict, Audits
    <2>6. CASE /\ stage[a] = "half"
               /\ a \in Syncs => seenExch'[a] = seenExch[a]
               /\ a \in Reconciles => seenRows'[a] = seenRows[a]
      <3>1. /\ Drifting = {} /\ Verdict(a) = {}
            /\ a \in Syncs => seenExch[a] = exch
        BY <2>2, <2>6 DEF Steady
      <3>2. exch' = exch
        BY <1>2, <2>1, <2>3, <3>1, OneSideAtATime, MoveIsDrift
      <3>3. CASE a \in Syncs
        BY <2>3, <2>4, <2>6, <3>1, <3>2, <3>3 DEF Verdict
      <3>4. CASE a \notin Syncs
        BY <2>3, <2>6, <3>1, <3>2, <3>4 DEF Verdict, Audits
      <3> QED BY <3>3, <3>4
    <2> QED BY <1>2, <2>1, <2>5, <2>6, AuditsKeepTheirViews
  <1> QED BY <1>1, <1>2

\* Whatever an audit finds wrong, the two sides did differ at some moment between
\* its two reads, unless its read of the exchange failed: two reads taken at
\* different times never raise an alarm by themselves.
THEOREM AlarmsAreExplained == Spec => []AlarmExplained
  <1>1. Init => Steady
    BY DEF Init, Steady
  <1>2. Steady => AlarmExplained
    BY DEF Steady, AlarmExplained
  <1> QED BY <1>1, <1>2, SteadyStep, TrackingInvariant, PTL DEF Spec
=============================================================================

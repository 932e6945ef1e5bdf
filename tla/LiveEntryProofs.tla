-------------------------- MODULE LiveEntryProofs --------------------------
(***************************************************************************)
(* Proofs about LiveEntry, for every number of retries, entries and kills  *)
(* and whichever answers are lost and orders repeated.  The properties     *)
(* weigh the position against the stops that rest; inductive they become   *)
(* by what the request under way may still add to either side.  A step of  *)
(* the router is taken in two: first the exchange acts, or not, which      *)
(* weighs the request as acted; then the router goes on from there.        *)
(***************************************************************************)
EXTENDS LiveEntry, FiniteSetTheorems, TLAPS

\* A resting bracket belongs to an entry there was; the stop of the entry under
\* way is not there before it was asked for.
Fresh ==
  /\ step # "idle" => entry > 0
  /\ \A o \in orders :
       /\ o.of <= entry
       /\ o.of = entry /\ o.kind = "sl" => step # "entry" /\ (step = "sl" => applied)

\* How often the exchange counts as having acted: once, or not yet.
Once(acted) == IF acted THEN 1 ELSE 0

\* Of a router at s whose request was acted on k times, none or once: how much
\* of the position is left without a stop,
Slack(s, k) ==
  CASE s \in {"sl", "close"} -> 1 - k [] s \in {"entry", "cancel"} -> k [] OTHER -> 0
\* how much of it a stop, or a close, is still to use up,
Owed(s, k) ==
  CASE s \in {"sl", "close"} -> 1 - k [] s = "cancel" -> k [] OTHER -> 0
\* and how much the entry is still to add.
Asked(s, k) == IF s = "entry" THEN 1 - k ELSE 0

\* The account of a position p with n stops, after d repeated orders.
Balanced(p, n, d, s, k) ==
  /\ p <= n + Slack(s, k) + d + unacked + unclosed + crashes
  /\ n + Owed(s, k) <= p + astray + d
  /\ p + Asked(s, k) <= entry + d

\* While nothing excuses it and the switch is off, at most the entry under way is
\* naked; a rescue keeps it in hand until the switch is on.
Binding(d) ==
  /\ d = 0 /\ unacked = 0 /\ crashes = 0
  /\ ~unpaused /\ ~careless /\ ~paused
AtRisk(s, k) == IF s = "pause" THEN 1 ELSE Slack(s, k)
Promised(p, n, d, s, k) == Binding(d) => p <= n + AtRisk(s, k)

LiveInv ==
  /\ TypeOK /\ IsFiniteSet(orders) /\ Fresh
  /\ Balanced(pos, Cardinality(Stops), doubled, step, Once(applied))
  /\ Promised(pos, Cardinality(Stops), doubled, step, Once(applied))

-----------------------------------------------------------------------------
(* Counting stops. *)

\* Stops are counted where the orders are finite,
LEMMA StopsAreCounted ==
  ASSUME IsFiniteSet(orders)
  PROVE  IsFiniteSet(Stops) /\ Cardinality(Stops) \in Nat
  <1>1. Stops \in SUBSET orders
    BY DEF Stops
  <1> QED BY <1>1, FS_Subset, FS_CardinalityType

\* in the next state too,
LEMMA StopsStayCounted ==
  ASSUME IsFiniteSet(orders')
  PROVE  Cardinality(Stops)' \in Nat
  <1>1. Stops' \in SUBSET orders'
    BY DEF Stops
  <1> QED BY <1>1, FS_Subset, FS_CardinalityType

\* and their number changes with the orders only.
LEMMA StopsKept ==
  ASSUME UNCHANGED orders
  PROVE  Cardinality(Stops)' = Cardinality(Stops)
  BY DEF Stops

\* A bracket is placed, for the first time or not.
LEMMA BracketPlaced ==
  ASSUME IsFiniteSet(orders), NEW k \in {"sl", "tp"},
         orders' = orders \cup {Bracket(k)}
  PROVE  /\ IsFiniteSet(orders')
         /\ k = "tp" => Cardinality(Stops)' = Cardinality(Stops)
         /\ k = "sl" => Cardinality(Stops)' =
              Cardinality(Stops) + (IF Bracket(k) \in orders THEN 0 ELSE 1)
  <1>1. IsFiniteSet(orders')
    BY FS_AddElement
  <1>2. Bracket(k).kind = k
    BY DEF Bracket
  <1>3. ASSUME k = "tp" PROVE Cardinality(Stops)' = Cardinality(Stops)
    <2>1. Stops' = Stops
      BY <1>2, <1>3 DEF Stops
    <2> QED BY <2>1
  <1>4. ASSUME k = "sl"
        PROVE  Cardinality(Stops)' =
                 Cardinality(Stops) + (IF Bracket(k) \in orders THEN 0 ELSE 1)
    <2>1. Stops' = Stops \cup {Bracket(k)} /\ (Bracket(k) \in Stops <=> Bracket(k) \in orders)
      BY <1>2, <1>4 DEF Stops
    <2>2. IsFiniteSet(Stops) /\ Cardinality(Stops) \in Nat
      BY StopsAreCounted
    <2>3. Cardinality(Stops \cup {Bracket(k)}) =
            IF Bracket(k) \in Stops THEN Cardinality(Stops) ELSE Cardinality(Stops) + 1
      BY <2>2, FS_AddElement
    <2>4. Cardinality(Stops)' = Cardinality(Stops \cup {Bracket(k)})
      BY <2>1
    <2> QED BY <2>1, <2>2, <2>3, <2>4
  <1> QED BY <1>1, <1>3, <1>4

\* A bracket goes: it is cancelled, triggers or lapses.
LEMMA BracketGone ==
  ASSUME IsFiniteSet(orders), NEW b \in orders, orders' = orders \ {b}
  PROVE  /\ IsFiniteSet(orders')
         /\ Cardinality(Stops)' = Cardinality(Stops) - (IF b.kind = "sl" THEN 1 ELSE 0)
  <1>1. IsFiniteSet(orders')
    BY FS_RemoveElement
  <1>2. Stops' = Stops \ {b} /\ (b \in Stops <=> b.kind = "sl")
    BY DEF Stops
  <1>3. IsFiniteSet(Stops) /\ Cardinality(Stops) \in Nat
    BY StopsAreCounted
  <1>4. Cardinality(Stops \ {b}) =
          IF b \in Stops THEN Cardinality(Stops) - 1 ELSE Cardinality(Stops)
    BY <1>3, FS_RemoveElement
  <1>5. Cardinality(Stops)' = Cardinality(Stops \ {b})
    BY <1>2
  <1> QED BY <1>1, <1>2, <1>3, <1>4, <1>5

\* The numbers there are.
LEMMA Numbers ==
  ASSUME LiveInv
  PROVE  /\ Cardinality(Stops) \in Nat
         /\ pos \in Nat /\ entry \in Nat /\ attempt \in Nat /\ doubled \in Nat
         /\ unacked \in Nat /\ unclosed \in Nat /\ astray \in Nat /\ crashes \in Nat
         /\ MaxEntries \in Nat /\ MaxRetries \in Nat
  BY StopsAreCounted, EntryAssumption DEF LiveInv, TypeOK

-----------------------------------------------------------------------------
(* What the exchange does to the account. *)

\* A stop is served once, and then it is a new one; only orders carried out
\* again count as doubled.
LEMMA ServedCounts ==
  ASSUME LiveInv, NEW r \in Requests, step = r, Served(r), UNCHANGED entry
  PROVE  /\ pos' \in Nat /\ orders' \subseteq Brackets /\ IsFiniteSet(orders')
         /\ orders' \subseteq orders \cup {Bracket(r)}
         /\ Cardinality(Stops)' \in Nat
         /\ doubled' = doubled + Once(applied)
         /\ r \in {"sl", "tp", "cancel"} => ~applied
         /\ r = "entry" => pos' \in {pos, pos + 1}
         /\ r = "close" => pos' = pos - 1
         /\ r \in {"sl", "tp", "cancel"} => pos' = pos
         /\ r \in {"entry", "tp", "close"} => Cardinality(Stops)' = Cardinality(Stops)
         /\ r = "sl" => Cardinality(Stops)' = Cardinality(Stops) + 1
         /\ r = "cancel" => Cardinality(Stops)' = Cardinality(Stops) - 1
  <1> USE DEF LiveInv
  <1>1. Acts(r) /\ doubled' = doubled + Once(applied)
    BY Numbers DEF Served, Once
  <1>2. r \in {"sl", "tp", "cancel"} => ~applied
    BY EntryAssumption DEF Served
  <1>3. pos \in Nat /\ Cardinality(Stops) \in Nat /\ orders \subseteq Brackets
        /\ entry \in 0 .. MaxEntries
    BY Numbers DEF TypeOK
  <1>4. CASE r = "entry"
    BY <1>1, <1>2, <1>3, <1>4, StopsKept DEF Acts
  <1>5. CASE r = "close"
    BY <1>1, <1>2, <1>3, <1>5, StopsKept DEF Acts
  <1>6. CASE r = "cancel"
    <2>1. Bracket("sl") \in orders /\ orders' = orders \ {Bracket("sl")} /\ pos' = pos
      BY <1>1, <1>6 DEF Acts
    <2>2. IsFiniteSet(orders') /\ Cardinality(Stops)' = Cardinality(Stops) - 1
      BY <2>1, BracketGone DEF Bracket
    <2>3. Bracket("sl") \in Stops
      BY <2>1 DEF Stops, Bracket
    <2>4. Cardinality(Stops) # 0
      BY <2>3, StopsAreCounted, FS_EmptySet
    <2> QED BY <1>1, <1>2, <1>3, <1>6, <2>1, <2>2, <2>4
  <1>7. CASE r \in {"sl", "tp"}
    <2>1. orders' = orders \cup {Bracket(r)} /\ pos' = pos
      BY <1>1, <1>7 DEF Acts
    <2>2. Bracket(r) \in Brackets
      <3>1. entry \in Entries
        BY <1>3, <1>7, Numbers DEF Fresh, Entries
      <3> QED BY <1>7, <3>1 DEF Bracket, Brackets
    <2>3. r = "sl" => Bracket(r) \notin orders
      BY <1>2 DEF Bracket, Fresh
    <2>4. /\ IsFiniteSet(orders')
          /\ r = "sl" => Cardinality(Stops)' = Cardinality(Stops) + 1
          /\ r = "tp" => Cardinality(Stops)' = Cardinality(Stops)
      BY <1>7, <2>1, <2>3, BracketPlaced, Numbers
    <2> QED BY <1>1, <1>2, <1>3, <1>7, <2>1, <2>2, <2>4
  <1> QED BY <1>4, <1>5, <1>6, <1>7 DEF Requests

\* Where the router goes.
LEMMA AfterTable ==
  ASSUME NEW ok \in BOOLEAN
  PROVE  /\ After("entry", ok) = IF ok THEN "sl" ELSE "idle"
         /\ After("sl", ok) = IF ok THEN "tp" ELSE "close"
         /\ After("tp", ok) = IF ok THEN "idle" ELSE "cancel"
         /\ After("cancel", ok) = "close"
         /\ After("close", ok) = "pause"
  BY DEF After

\* A request that is over leaves types behind.
LEMMA TypeOfFinish ==
  ASSUME LiveInv, NEW r \in Requests, NEW ok \in BOOLEAN, NEW acted \in BOOLEAN,
         step = r, Finish(r, ok, acted),
         pos' \in Nat, orders' \subseteq Brackets, doubled' \in Nat
  PROVE  TypeOK'
  <1>1. step' \in Requests \cup {"idle", "pause"} /\ attempt' = 0 /\ applied' = FALSE
    BY AfterTable DEF Finish, Goto, Requests
  <1>2. outcome' \in Outcomes
    BY DEF Finish, Outcomes, LiveInv, TypeOK
  <1>3. unacked' \in Nat /\ unclosed' \in Nat /\ astray' \in Nat
    BY Numbers DEF Finish
  <1>4. paused' \in BOOLEAN /\ unpaused' \in BOOLEAN /\ careless' \in BOOLEAN
    <2>1. UNCHANGED paused /\ UNCHANGED unpaused /\ UNCHANGED careless
      BY Zenon DEF Finish
    <2>2. paused \in BOOLEAN /\ unpaused \in BOOLEAN /\ careless \in BOOLEAN
      BY Zenon DEF LiveInv, TypeOK
    <2> QED BY Zenon, <2>1, <2>2
  <1>5. entry' \in 0 .. MaxEntries /\ crashes' \in Nat
    <2>1. UNCHANGED entry /\ UNCHANGED crashes
      BY Zenon DEF Finish
    <2>2. entry \in 0 .. MaxEntries
      BY DEF LiveInv, TypeOK
    <2> QED BY <2>1, <2>2, Numbers
  <1>6. attempt' \in 0 .. MaxRetries /\ applied' \in BOOLEAN
    <2>1. applied' \in BOOLEAN
      BY Zenon, <1>1
    <2>2. attempt' \in 0 .. MaxRetries
      BY <1>1, Numbers
    <2> QED BY <2>1, <2>2
  <1> QED BY <1>1, <1>2, <1>3, <1>4, <1>5, <1>6 DEF TypeOK

\* What the end of a request writes into the account.
LEMMA FinishTable ==
  ASSUME LiveInv, NEW r \in Requests, NEW ok \in BOOLEAN, NEW acted \in BOOLEAN,
         step = r, Finish(r, ok, acted)
  PROVE  /\ step' = After(r, ok) /\ ~applied'
         /\ UNCHANGED entry /\ UNCHANGED crashes
         /\ UNCHANGED paused /\ UNCHANGED unpaused /\ UNCHANGED careless
         /\ unacked' \in {unacked, unacked + 1}
         /\ r = "entry" /\ ~ok /\ acted => unacked' = unacked + 1
         /\ unclosed' \in {unclosed, unclosed + 1}
         /\ r = "close" /\ ~ok => unclosed' = unclosed + 1
         /\ astray' \in {astray, astray + 1}
         /\ r = "entry" /\ ok /\ pos' = pos => astray' = astray + 1
         /\ r = "sl" /\ ~ok /\ acted => astray' = astray + 1
         /\ r = "cancel" /\ ~ok => astray' = astray + 1
  <1>1. step' = After(r, ok) /\ ~applied'
    BY Zenon DEF Finish, Goto
  <1>2. /\ UNCHANGED entry /\ UNCHANGED crashes
        /\ UNCHANGED paused /\ UNCHANGED unpaused /\ UNCHANGED careless
    BY Zenon DEF Finish
  <1>3. /\ unacked' \in {unacked, unacked + 1}
        /\ r = "entry" /\ ~ok /\ acted => unacked' = unacked + 1
        /\ unclosed' \in {unclosed, unclosed + 1}
        /\ r = "close" /\ ~ok => unclosed' = unclosed + 1
    BY DEF Finish
  <1>4. /\ astray' \in {astray, astray + 1}
        /\ r = "entry" /\ ok /\ pos' = pos => astray' = astray + 1
        /\ r = "sl" /\ ~ok /\ acted => astray' = astray + 1
        /\ r = "cancel" /\ ~ok => astray' = astray + 1
    BY DEF Finish
  <1> QED BY <1>1, <1>2, <1>3, <1>4

-----------------------------------------------------------------------------
(* The weights. *)

\* An action counts once.
LEMMA OnceIs ==
  /\ Once(TRUE) = 1 /\ Once(FALSE) = 0
  /\ \A acted \in BOOLEAN : Once(acted) \in {0, 1} /\ (~acted => Once(acted) = 0)
  BY DEF Once

\* The exchange has acted.
LEMMA Acting ==
  ASSUME LiveInv, NEW r \in Requests, step = r, Served(r), UNCHANGED entry
  PROVE  /\ Balanced(pos', Cardinality(Stops)', doubled', r, 1)
         /\ Promised(pos', Cardinality(Stops)', doubled', r, 1)
  <1> DEFINE n == Cardinality(Stops)
             m == Cardinality(Stops)'
             k == Once(applied)
  <1>1. /\ n \in Nat /\ m \in Nat /\ pos \in Nat /\ pos' \in Nat
        /\ entry \in Nat /\ doubled \in Nat
        /\ unacked \in Nat /\ unclosed \in Nat /\ astray \in Nat /\ crashes \in Nat
    BY Numbers, ServedCounts
  <1>2. /\ k \in {0, 1} /\ Balanced(pos, n, doubled, r, k) /\ Promised(pos, n, doubled, r, k)
        /\ r \in {"sl", "tp", "cancel"} => k = 0
    BY OnceIs, ServedCounts DEF LiveInv, TypeOK
  <1>3. /\ r = "entry" => pos' \in {pos, pos + 1}
        /\ r = "close" => pos' = pos - 1
        /\ r \in {"sl", "tp", "cancel"} => pos' = pos
        /\ r \in {"entry", "tp", "close"} => m = n
        /\ r = "sl" => m = n + 1
        /\ r = "cancel" => m = n - 1
        /\ doubled' = doubled + k
    BY ServedCounts
  <1> HIDE DEF n, m, k
  <1>4. Balanced(pos', m, doubled', r, 1)
    BY <1>1, <1>2, <1>3 DEF Balanced, Slack, Owed, Asked, Requests
  <1>5. ASSUME Binding(doubled') PROVE pos' <= m + AtRisk(r, 1)
    <2>1. k = 0 /\ doubled' = doubled
      BY <1>1, <1>2, <1>3, <1>5 DEF Binding
    <2>2. pos <= n + AtRisk(r, 0)
      BY <1>2, <1>5, <2>1 DEF Promised
    <2> QED BY <1>1, <1>3, <2>2 DEF AtRisk, Slack, Requests
  <1> QED BY <1>4, <1>5 DEF Promised, m

\* The request is over.
LEMMA Finishing ==
  ASSUME LiveInv, NEW r \in Requests, NEW ok \in BOOLEAN, NEW acted \in BOOLEAN,
         step = r, Finish(r, ok, acted), ok => acted,
         pos' \in Nat, Cardinality(Stops)' \in Nat, doubled' \in Nat,
         Balanced(pos', Cardinality(Stops)', doubled', r, Once(acted)),
         Promised(pos', Cardinality(Stops)', doubled', r, Once(acted)),
         r = "entry" /\ ok => Cardinality(Stops)' + 1 <= pos' + astray' + doubled'
  PROVE  /\ Balanced(pos, Cardinality(Stops), doubled, step, Once(applied))'
         /\ Promised(pos, Cardinality(Stops), doubled, step, Once(applied))'
  <1> DEFINE m == Cardinality(Stops)'
             k == Once(acted)
  <1>1. /\ m \in Nat /\ pos' \in Nat /\ entry \in Nat /\ doubled' \in Nat
        /\ unacked \in Nat /\ unclosed \in Nat /\ astray \in Nat /\ crashes \in Nat
    BY Numbers
  <1>2. /\ entry' = entry /\ crashes' = crashes
        /\ unacked' \in {unacked, unacked + 1} /\ unclosed' \in {unclosed, unclosed + 1}
        /\ astray' \in {astray, astray + 1} /\ step' = After(r, ok)
    BY FinishTable
  <1>3. Once(applied)' = 0 /\ k \in {0, 1}
    BY FinishTable, OnceIs DEF Once
  <1>4. ASSUME ok
        PROVE  /\ k = 1
               /\ r = "entry" => step' = "sl" /\ m + 1 <= pos' + astray' + doubled'
               /\ r = "sl" => step' = "tp"
               /\ r = "tp" => step' = "idle"
    <2>1. acted = TRUE /\ ok = TRUE
      BY Zenon, <1>4
    <2> QED BY <1>2, <2>1, OnceIs, AfterTable
  <1>5. ASSUME ~ok
        PROVE  /\ r = "entry" => step' = "idle" /\ (k = 1 => unacked' = unacked + 1)
               /\ r = "sl" => step' = "close" /\ (k = 1 => astray' = astray + 1)
               /\ r = "tp" => step' = "cancel"
               /\ r = "cancel" => astray' = astray + 1
               /\ r = "close" => unclosed' = unclosed + 1
    <2>1. ok = FALSE
      BY Zenon, <1>5
    <2>2. k = 1 => acted
      BY OnceIs
    <2> QED BY <1>2, <1>5, <2>1, <2>2, FinishTable, AfterTable
  <1>6. r = "cancel" => step' = "close"
    BY <1>2, AfterTable
  <1>7. r = "close" => step' = "pause"
    BY <1>2, AfterTable
  <1>8. /\ pos' <= m + Slack(r, k) + doubled' + unacked + unclosed + crashes
        /\ m + Owed(r, k) <= pos' + astray + doubled'
        /\ pos' + Asked(r, k) <= entry + doubled'
    BY DEF Balanced
  <1> HIDE DEF m, k
  <1>9. /\ pos' <= m + Slack(step', 0) + doubled' + unacked' + unclosed' + crashes'
        /\ m + Owed(step', 0) <= pos' + astray' + doubled'
        /\ pos' + Asked(step', 0) <= entry' + doubled'
    <2>1. CASE ok
      <3>1. /\ k = 1
            /\ r = "entry" => step' = "sl" /\ m + 1 <= pos' + astray' + doubled'
            /\ r = "sl" => step' = "tp"
            /\ r = "tp" => step' = "idle"
        BY <1>4, <2>1
      <3> QED BY <1>1, <1>2, <1>6, <1>7, <1>8, <3>1 DEF Slack, Owed, Asked, Requests
    <2>2. CASE ~ok
      <3>1. /\ r = "entry" => step' = "idle" /\ (k = 1 => unacked' = unacked + 1)
            /\ r = "sl" => step' = "close" /\ (k = 1 => astray' = astray + 1)
            /\ r = "tp" => step' = "cancel"
            /\ r = "cancel" => astray' = astray + 1
            /\ r = "close" => unclosed' = unclosed + 1
        BY <1>5, <2>2
      <3> QED BY <1>1, <1>2, <1>3, <1>6, <1>7, <1>8, <3>1 DEF Slack, Owed, Asked, Requests
    <2> QED BY <2>1, <2>2
  <1>10. ASSUME Binding(doubled)' PROVE pos' <= m + AtRisk(step', 0)
    <2>1. /\ ~unpaused' /\ ~careless' /\ ~paused'
          /\ doubled' = 0 /\ unacked' = 0 /\ crashes' = 0
      BY <1>10 DEF Binding
    <2>2. doubled' = 0 /\ unacked = 0 /\ crashes = 0 /\ unacked' = unacked
      BY <1>1, <1>2, <2>1
    <2>3. Binding(doubled')
      BY <2>1, <2>2, FinishTable DEF Binding
    <2>4. pos' <= m + AtRisk(r, k)
      BY <2>3 DEF Promised, m, k
    <2>5. CASE ok
      <3>1. /\ k = 1
            /\ r = "entry" => step' = "sl"
            /\ r = "sl" => step' = "tp"
            /\ r = "tp" => step' = "idle"
        BY <1>4, <2>5
      <3> QED BY <1>1, <1>6, <1>7, <2>4, <3>1 DEF AtRisk, Slack, Requests
    <2>6. CASE ~ok
      <3>1. /\ r = "entry" => step' = "idle" /\ k = 0
            /\ r = "sl" => step' = "close"
            /\ r = "tp" => step' = "cancel"
        <4>1. r = "entry" => step' = "idle" /\ (k = 1 => unacked' = unacked + 1)
          BY <1>5, <2>6
        <4>2. r = "sl" => step' = "close"
          BY <1>5, <2>6
        <4>3. r = "tp" => step' = "cancel"
          BY <1>5, <2>6
        <4> QED BY <1>1, <1>3, <2>2, <4>1, <4>2, <4>3
      <3> QED BY <1>1, <1>3, <1>6, <1>7, <2>4, <3>1 DEF AtRisk, Slack, Requests
    <2> QED BY <2>5, <2>6
  <1> QED BY <1>3, <1>9, <1>10 DEF Balanced, Promised, m

-----------------------------------------------------------------------------
(* What the router does next.  Reached is what the exchange made of a request. *)

Reached(r, acted) ==
  /\ pos' \in Nat /\ orders' \subseteq Brackets /\ IsFiniteSet(orders')
  /\ Cardinality(Stops)' \in Nat /\ doubled' \in Nat
  /\ orders' \subseteq orders \cup {Bracket(r)}
  /\ ~acted => orders' = orders /\ ~applied
  /\ Balanced(pos', Cardinality(Stops)', doubled', r, Once(acted))
  /\ Promised(pos', Cardinality(Stops)', doubled', r, Once(acted))

\* A served request reaches the balance of a request acted on,
LEMMA ServedReaches ==
  ASSUME LiveInv, NEW r \in Requests, step = r, Served(r), UNCHANGED entry
  PROVE  Reached(r, TRUE)
  <1>1. doubled' \in Nat
    BY ServedCounts, OnceIs, Numbers DEF LiveInv, TypeOK
  <1> QED BY <1>1, ServedCounts, Acting, OnceIs DEF Reached

\* one that is not served keeps the balance there was.
LEMMA IdleReaches ==
  ASSUME LiveInv, NEW r \in Requests, step = r, UNCHANGED exchange
  PROVE  Reached(r, applied)
  <1>1. pos' = pos /\ orders' = orders /\ doubled' = doubled
    BY DEF exchange
  <1>2. Cardinality(Stops)' = Cardinality(Stops)
    BY <1>1, StopsKept
  <1>3. /\ Balanced(pos, Cardinality(Stops), doubled, step, Once(applied))
        /\ Promised(pos, Cardinality(Stops), doubled, step, Once(applied))
    BY DEF LiveInv
  <1> QED BY <1>1, <1>2, <1>3, Numbers DEF Reached, LiveInv, TypeOK

\* From there the end of the request keeps the invariant,
LEMMA FinishKeeps ==
  ASSUME LiveInv, NEW r \in Requests, NEW ok \in BOOLEAN, NEW acted \in BOOLEAN,
         step = r, Finish(r, ok, acted), ok => acted, Reached(r, acted),
         r = "entry" /\ ok => Cardinality(Stops)' + 1 <= pos' + astray' + doubled'
  PROVE  LiveInv'
  <1>1. TypeOK'
    BY TypeOfFinish DEF Reached
  <1>2. /\ Balanced(pos, Cardinality(Stops), doubled, step, Once(applied))'
        /\ Promised(pos, Cardinality(Stops), doubled, step, Once(applied))'
    BY Finishing DEF Reached
  <1>3. Fresh'
    <2>1. step' # "entry" /\ (step' = "sl" => r = "entry") /\ entry' = entry
      BY FinishTable, AfterTable DEF Requests
    <2>2. step # "idle" /\ entry > 0
      BY DEF LiveInv, Fresh, Requests
    <2>3. \A o \in orders' : o \in orders \/ o = Bracket(r)
      BY DEF Reached
    <2>4. Bracket(r).of = entry /\ Bracket(r).kind = r
      BY DEF Bracket
    <2> QED BY <2>1, <2>2, <2>3, <2>4, Numbers DEF LiveInv, Fresh
  <1> QED BY <1>1, <1>2, <1>3 DEF LiveInv, Reached

\* and so does another attempt, or the end for want of attempts.
LEMMA AgainKeeps ==
  ASSUME LiveInv, NEW r \in Requests, NEW acted \in BOOLEAN,
         step = r, Again(r, acted), Reached(r, acted)
  PROVE  LiveInv'
  <1>1. CASE attempt < MaxRetries
    <2>1. /\ attempt' = attempt + 1 /\ applied' = acted
          /\ UNCHANGED <<step, entry, outcome, paused>> /\ UNCHANGED account
      BY <1>1 DEF Again
    <2>2. /\ unacked' = unacked /\ unclosed' = unclosed /\ astray' = astray
          /\ unpaused' = unpaused /\ careless' = careless /\ crashes' = crashes
      BY <2>1 DEF account
    <2>3. attempt' \in 0 .. MaxRetries
      BY <1>1, <2>1, Numbers
    <2>4. TypeOK'
      BY <2>1, <2>2, <2>3 DEF LiveInv, TypeOK, Reached
    <2>5. Fresh'
      <3>1. step' = r /\ entry' = entry /\ entry > 0 /\ Fresh
        BY <2>1 DEF LiveInv, Fresh, Requests
      <3>2. Bracket(r).of = entry /\ Bracket(r).kind = r
        BY DEF Bracket
      <3>3. ASSUME NEW o \in orders'
            PROVE  o \in orders \/ (o = Bracket(r) /\ acted)
        BY DEF Reached
      <3>4. ASSUME NEW o \in orders'
            PROVE  /\ o.of <= entry
                   /\ o.of = entry /\ o.kind = "sl" => step # "entry" /\ (step = "sl" => acted)
        <4>1. CASE o \in orders
          <5>1. applied => acted
            BY DEF Reached
          <5> QED BY <3>1, <4>1, <5>1 DEF Fresh
        <4>2. CASE o = Bracket(r) /\ acted
          BY <3>2, <4>2, Numbers
        <4> QED BY <3>3, <4>1, <4>2
      <3>5. applied' <=> acted
        BY <2>1
      <3> QED BY <3>1, <3>4, <3>5 DEF Fresh
    <2>6. Balanced(pos, Cardinality(Stops), doubled, step, Once(applied))'
      BY <2>1, <2>2 DEF Reached, Balanced
    <2>7. Promised(pos, Cardinality(Stops), doubled, step, Once(applied))'
      BY <2>1, <2>2 DEF Reached, Promised, Binding
    <2> QED BY <2>4, <2>5, <2>6, <2>7 DEF LiveInv, Reached
  <1>2. CASE ~(attempt < MaxRetries)
    <2>1. Finish(r, FALSE, acted)
      BY <1>2 DEF Again
    <2> QED BY <2>1, FinishKeeps
  <1> QED BY <1>1, <1>2

-----------------------------------------------------------------------------
(* The actions. *)

\* An entry that is answered adds its unit or finds no liquidity, and the stop it
\* is owed next is paid for by either.
LEMMA AnsweredKeeps ==
  ASSUME LiveInv, NEW r \in Requests, Answered(r)
  PROVE  LiveInv'
  <1>1. step = r /\ Served(r) /\ Finish(r, TRUE, TRUE)
    BY DEF Answered
  <1>2. Reached(r, TRUE)
    BY <1>1, FinishTable, ServedReaches
  <1>3. r = "entry" => Cardinality(Stops)' + 1 <= pos' + astray' + doubled'
    <2> SUFFICES ASSUME r = "entry"
                 PROVE  Cardinality(Stops)' + 1 <= pos' + astray' + doubled'
      OBVIOUS
    <2>1. Cardinality(Stops) <= pos + astray + doubled
      BY <1>1, Numbers DEF LiveInv, Balanced, Owed
    <2>2. /\ pos' \in {pos, pos + 1} /\ Cardinality(Stops)' = Cardinality(Stops)
          /\ doubled' = doubled + Once(applied)
      BY <1>1, FinishTable, ServedCounts
    <2>3. astray' \in {astray, astray + 1} /\ (pos' = pos => astray' = astray + 1)
      BY <1>1, FinishTable
    <2>4. Once(applied) \in {0, 1}
      BY OnceIs DEF LiveInv, TypeOK
    <2> QED BY <2>1, <2>2, <2>3, <2>4, Numbers
  <1> QED BY <1>1, <1>2, <1>3, FinishKeeps

\* A lost answer leaves a request that was acted on.
LEMMA AnswerLostKeeps ==
  ASSUME LiveInv, NEW r \in Requests, AnswerLost(r)
  PROVE  LiveInv'
  <1>1. step = r /\ Served(r) /\ Again(r, TRUE)
    BY DEF AnswerLost
  <1>2. UNCHANGED entry
    BY <1>1 DEF Again, Finish
  <1>3. Reached(r, TRUE)
    BY <1>1, <1>2, ServedReaches
  <1> QED BY <1>1, <1>3, AgainKeeps

\* A request that is not served leaves the exchange alone.
LEMMA NotServedKeeps ==
  ASSUME LiveInv, NEW r \in Requests, NotServed(r)
  PROVE  LiveInv'
  <1>1. step = r /\ Again(r, applied) /\ UNCHANGED exchange
    BY DEF NotServed
  <1>2. applied \in BOOLEAN
    BY DEF LiveInv, TypeOK
  <1> QED BY <1>1, <1>2, IdleReaches, AgainKeeps

\* So does a refusal, which ends the request at once.
LEMMA RefusedKeeps ==
  ASSUME LiveInv, NEW r \in Requests, Refused(r)
  PROVE  LiveInv'
  <1>1. step = r /\ Finish(r, FALSE, applied) /\ UNCHANGED exchange
    BY DEF Refused
  <1>2. applied \in BOOLEAN
    BY DEF LiveInv, TypeOK
  <1> QED BY <1>1, <1>2, IdleReaches, FinishKeeps

\* The exchange is as it was, and so is the number of its stops.
LEMMA Untouched ==
  ASSUME LiveInv, UNCHANGED exchange
  PROVE  /\ pos' = pos /\ orders' = orders /\ doubled' = doubled
         /\ Cardinality(Stops)' = Cardinality(Stops)
  BY StopsKept DEF exchange

\* A new entry owes nothing yet; no bracket on the exchange is its own.
LEMMA BeginKeeps ==
  ASSUME LiveInv, NEW fromLoop \in BOOLEAN, Begin(fromLoop)
  PROVE  LiveInv'
  <1>1. /\ step = "idle" /\ entry < MaxEntries /\ entry' = entry + 1 /\ outcome' = "none"
        /\ step' = "entry" /\ attempt' = 0 /\ applied' = FALSE
        /\ UNCHANGED exchange /\ UNCHANGED paused /\ UNCHANGED account
    BY DEF Begin, Goto
  <1>2. /\ unacked' = unacked /\ unclosed' = unclosed /\ astray' = astray
        /\ unpaused' = unpaused /\ careless' = careless /\ crashes' = crashes
    BY <1>1 DEF account
  <1>3. Once(applied)' = 0 /\ Once(applied) \in {0, 1}
    BY <1>1, OnceIs DEF Once, LiveInv, TypeOK
  <1>4. TypeOK'
    <2>1. attempt' \in 0 .. MaxRetries /\ entry' \in 0 .. MaxEntries
      BY <1>1, Numbers
    <2> QED BY <1>1, <1>2, <2>1, Untouched DEF LiveInv, TypeOK, Requests, Outcomes
  <1>5. Fresh'
    BY <1>1, Untouched, Numbers DEF LiveInv, Fresh, TypeOK, Brackets, Entries
  <1>6. Balanced(pos, Cardinality(Stops), doubled, step, Once(applied))'
    BY <1>1, <1>2, <1>3, Untouched, Numbers DEF LiveInv, Balanced, Slack, Owed, Asked
  <1>7. Promised(pos, Cardinality(Stops), doubled, step, Once(applied))'
    <2> SUFFICES ASSUME Binding(doubled)'
                 PROVE  (pos <= Cardinality(Stops) + AtRisk(step, Once(applied)))'
      BY DEF Promised
    <2>1. Binding(doubled)
      BY <1>1, <1>2, Untouched DEF Binding
    <2>2. pos <= Cardinality(Stops) + AtRisk("idle", Once(applied))
      BY <1>1, <2>1 DEF LiveInv, Promised
    <2> QED BY <1>1, <1>3, <2>2, Untouched, Numbers DEF AtRisk, Slack
  <1>8. IsFiniteSet(orders')
    BY <1>1, Untouched DEF LiveInv
  <1> QED BY <1>4, <1>5, <1>6, <1>7, <1>8 DEF LiveInv

\* A stop takes its unit with it; a target that leaves its stop behind is counted.
LEMMA TriggerKeeps ==
  ASSUME LiveInv, NEW o \in orders, Trigger(o)
  PROVE  LiveInv'
  <1>1. /\ orders' = orders \ {o} /\ pos' = (IF pos > 0 THEN pos - 1 ELSE 0)
        /\ astray' = (IF o.kind = "tp" /\ pos > 0 THEN astray + 1 ELSE astray)
        /\ UNCHANGED control
        /\ doubled' = doubled /\ unacked' = unacked /\ unclosed' = unclosed
        /\ unpaused' = unpaused /\ careless' = careless /\ crashes' = crashes
    BY DEF Trigger
  <1>2. /\ step' = step /\ entry' = entry /\ attempt' = attempt
        /\ applied' = applied /\ outcome' = outcome /\ paused' = paused
    BY <1>1 DEF control
  <1>3. /\ IsFiniteSet(orders')
        /\ Cardinality(Stops)' = Cardinality(Stops) - (IF o.kind = "sl" THEN 1 ELSE 0)
    BY <1>1, BracketGone DEF LiveInv
  <1>4. o.kind \in {"sl", "tp"} /\ orders' \subseteq Brackets
    BY <1>1 DEF LiveInv, TypeOK, Brackets
  <1>5. pos' \in Nat /\ astray' \in Nat
    BY <1>1, Numbers
  <1>6. TypeOK'
    BY <1>1, <1>2, <1>4, <1>5 DEF LiveInv, TypeOK
  <1>7. Fresh'
    BY <1>1, <1>2 DEF LiveInv, Fresh
  <1> DEFINE n == Cardinality(Stops)
             m == Cardinality(Stops)'
             k == Once(applied)
  <1>8. n \in Nat /\ m \in Nat /\ k \in {0, 1} /\ Once(applied)' = k
    <2>1. n \in Nat /\ m \in Nat
      BY <1>3, StopsStayCounted, Numbers
    <2>2. k \in {0, 1} /\ Once(applied)' = k
      BY <1>2, OnceIs DEF LiveInv, TypeOK, Once
    <2> QED BY <2>1, <2>2
  <1>9. Balanced(pos, n, doubled, step, k) /\ Promised(pos, n, doubled, step, k)
    BY DEF LiveInv
  <1> HIDE DEF n, m, k
  <1>10. \/ pos > 0 /\ pos' = pos - 1
           /\ (o.kind = "sl" => m = n - 1 /\ astray' = astray)
           /\ (o.kind = "tp" => m = n /\ astray' = astray + 1)
         \/ pos = 0 /\ pos' = 0 /\ m \in {n, n - 1} /\ astray' = astray
    BY <1>1, <1>3, <1>4, <1>8, Numbers DEF n, m
  <1>11. /\ pos' <= m + Slack(step, k) + doubled + unacked + unclosed + crashes
         /\ m + Owed(step, k) <= pos' + astray' + doubled
         /\ pos' + Asked(step, k) <= entry + doubled
    <2>1. Slack(step, k) \in {0, 1} /\ Owed(step, k) \in {0, 1} /\ Asked(step, k) \in {0, 1}
      BY <1>8 DEF Slack, Owed, Asked
    <2>2. /\ pos <= n + Slack(step, k) + doubled + unacked + unclosed + crashes
          /\ n + Owed(step, k) <= pos + astray + doubled
          /\ pos + Asked(step, k) <= entry + doubled
      BY <1>9 DEF Balanced
    <2>3. CASE pos > 0
      BY <1>4, <1>8, <1>10, <2>1, <2>2, <2>3, Numbers
    <2>4. CASE pos = 0
      BY <1>8, <1>10, <2>1, <2>2, <2>4, Numbers
    <2> QED BY <2>3, <2>4, Numbers
  <1>12. Balanced(pos, Cardinality(Stops), doubled, step, Once(applied))'
    BY <1>1, <1>2, <1>8, <1>11 DEF Balanced, m
  <1>13. pos <= n + AtRisk(step, k) => pos' <= m + AtRisk(step, k)
    BY <1>4, <1>8, <1>10, Numbers DEF AtRisk, Slack
  <1>14. Binding(doubled)' => Binding(doubled)
    BY <1>1, <1>2 DEF Binding
  <1>15. Promised(pos, Cardinality(Stops), doubled, step, Once(applied))'
    BY <1>2, <1>8, <1>9, <1>13, <1>14 DEF Promised, m
  <1> QED BY <1>3, <1>6, <1>7, <1>12, <1>15 DEF LiveInv

\* A kill is counted for what the entry leaves.
LEMMA CrashKeeps ==
  ASSUME LiveInv, Crash
  PROVE  LiveInv'
  <1>1. /\ crashes' = crashes + 1
        /\ step' = "idle" /\ attempt' = 0 /\ applied' = FALSE
        /\ UNCHANGED exchange /\ UNCHANGED entry /\ UNCHANGED outcome /\ UNCHANGED paused
        /\ unacked' = unacked /\ unclosed' = unclosed /\ astray' = astray
        /\ unpaused' = unpaused /\ careless' = careless
    BY DEF Crash, Goto
  <1>2. Once(applied)' = 0 /\ Once(applied) \in {0, 1}
    BY <1>1, OnceIs DEF Once, LiveInv, TypeOK
  <1>3. attempt' \in 0 .. MaxRetries /\ crashes' \in Nat
    BY <1>1, Numbers
  <1>4. TypeOK'
    BY <1>1, <1>3, Untouched DEF LiveInv, TypeOK
  <1>5. Fresh'
    BY <1>1, Untouched DEF LiveInv, Fresh
  <1>6. Balanced(pos, Cardinality(Stops), doubled, step, Once(applied))'
    BY <1>1, <1>2, Untouched, Numbers DEF LiveInv, Balanced, Slack, Owed, Asked
  <1>7. ~Binding(doubled)'
    BY <1>1, Numbers DEF Binding
  <1>8. IsFiniteSet(orders')
    BY <1>1, Untouched DEF LiveInv
  <1> QED BY <1>4, <1>5, <1>6, <1>7, <1>8 DEF LiveInv, Promised

\* The rescue lets go of the entry with the switch on, or an excuse.
LEMMA PauseKeeps ==
  ASSUME LiveInv, PauseAfterRescue
  PROVE  LiveInv'
  <1>1. /\ step = "pause" /\ outcome' = "naked_rescued"
        /\ step' = "idle" /\ attempt' = 0 /\ applied' = FALSE
        /\ UNCHANGED exchange /\ UNCHANGED entry
        /\ unacked' = unacked /\ unclosed' = unclosed /\ astray' = astray
        /\ careless' = careless /\ crashes' = crashes
    BY DEF PauseAfterRescue, Goto
  <1>2. PICK saved \in BOOLEAN :
          paused' = (paused \/ saved) /\ unpaused' = (unpaused \/ ~saved)
    BY DEF PauseAfterRescue
  <1>3. paused' \in BOOLEAN /\ unpaused' \in BOOLEAN /\ (paused' \/ unpaused')
    BY Zenon, <1>2 DEF LiveInv, TypeOK
  <1>4. Once(applied)' = 0 /\ Once(applied) \in {0, 1}
    BY <1>1, OnceIs DEF Once, LiveInv, TypeOK
  <1>5. TypeOK'
    <2>1. attempt' \in 0 .. MaxRetries
      BY <1>1, Numbers
    <2> QED BY <1>1, <1>3, <2>1, Untouched DEF LiveInv, TypeOK, Outcomes
  <1>6. Fresh'
    BY <1>1, Untouched DEF LiveInv, Fresh
  <1>7. Balanced(pos, Cardinality(Stops), doubled, step, Once(applied))'
    BY <1>1, <1>4, Untouched, Numbers DEF LiveInv, Balanced, Slack, Owed, Asked
  <1>8. ~Binding(doubled)'
    BY <1>3 DEF Binding
  <1>9. IsFiniteSet(orders')
    BY <1>1, Untouched DEF LiveInv
  <1> QED BY <1>5, <1>6, <1>7, <1>8, <1>9 DEF LiveInv, Promised

\* The operator is careful, or is counted careless.
LEMMA ResumeKeeps ==
  ASSUME LiveInv, OperatorResume
  PROVE  LiveInv'
  <1>1. /\ paused' = FALSE /\ careless' = (careless \/ pos > Cardinality(Stops))
        /\ UNCHANGED exchange
        /\ step' = step /\ entry' = entry /\ attempt' = attempt /\ applied' = applied
        /\ outcome' = outcome /\ unacked' = unacked /\ unclosed' = unclosed
        /\ astray' = astray /\ unpaused' = unpaused /\ crashes' = crashes
    BY DEF OperatorResume
  <1>2. TypeOK'
    <2>1. careless' \in BOOLEAN /\ paused' \in BOOLEAN
      BY <1>1
    <2> QED BY <1>1, <2>1, Untouched DEF LiveInv, TypeOK
  <1>3. Fresh'
    BY <1>1, Untouched DEF LiveInv, Fresh
  <1>4. Balanced(pos, Cardinality(Stops), doubled, step, Once(applied))'
    BY <1>1, Untouched DEF LiveInv, Balanced
  <1>5. ASSUME Binding(doubled)'
        PROVE  (pos <= Cardinality(Stops) + AtRisk(step, Once(applied)))'
    <2>1. ~(pos > Cardinality(Stops))
      BY <1>1, <1>5 DEF Binding
    <2>2. AtRisk(step, Once(applied)) \in {0, 1}
      BY OnceIs DEF LiveInv, TypeOK, AtRisk, Slack
    <2> QED BY <1>1, <2>1, <2>2, Untouched, Numbers
  <1>6. IsFiniteSet(orders')
    BY <1>1, Untouched DEF LiveInv
  <1> QED BY <1>2, <1>3, <1>4, <1>5, <1>6 DEF LiveInv, Promised

-----------------------------------------------------------------------------
(* The theorems. *)

\* Nothing is on the exchange at first.
LEMMA InitHolds == Init => LiveInv
  <1> SUFFICES ASSUME Init PROVE LiveInv
    OBVIOUS
  <1>1. Stops = {} /\ IsFiniteSet(orders) /\ Cardinality(Stops) = 0
    BY FS_EmptySet DEF Init, Stops
  <1>2. Once(applied) = 0
    BY DEF Init, Once
  <1>3. TypeOK
    <2>1. attempt \in 0 .. MaxRetries /\ entry \in 0 .. MaxEntries
      BY EntryAssumption DEF Init
    <2>2. orders \subseteq Brackets /\ applied \in BOOLEAN /\ paused \in BOOLEAN
          /\ unpaused \in BOOLEAN /\ careless \in BOOLEAN
      BY DEF Init
    <2> QED BY <2>1, <2>2 DEF Init, TypeOK, Outcomes
  <1>4. Fresh
    BY DEF Init, Fresh
  <1> QED BY <1>1, <1>2, <1>3, <1>4 DEF Init, LiveInv, Balanced, Promised, Slack, Owed, Asked, AtRisk

\* Every step keeps the invariant.
LEMMA NextKeeps == LiveInv /\ [Next]_vars => LiveInv'
  <1> SUFFICES ASSUME LiveInv, [Next]_vars PROVE LiveInv'
    OBVIOUS
  <1>1. ASSUME NEW r \in Requests,
               Answered(r) \/ AnswerLost(r) \/ NotServed(r) \/ Refused(r)
        PROVE  LiveInv'
    BY <1>1, AnsweredKeeps, AnswerLostKeeps, NotServedKeeps, RefusedKeeps
  <1>2. CASE PauseAfterRescue
    BY <1>2, PauseKeeps
  <1>3. ASSUME NEW fromLoop \in BOOLEAN, Begin(fromLoop) PROVE LiveInv'
    BY <1>3, BeginKeeps
  <1>4. ASSUME NEW o \in orders, Trigger(o) PROVE LiveInv'
    BY <1>4, TriggerKeeps
  <1>5. CASE Crash
    BY <1>5, CrashKeeps
  <1>6. CASE OperatorResume
    BY <1>6, ResumeKeeps
  <1>7. CASE UNCHANGED vars
    <2>1. UNCHANGED exchange /\ UNCHANGED control /\ UNCHANGED account
      BY <1>7 DEF vars
    <2>2. TypeOK' /\ Fresh' /\ IsFiniteSet(orders')
      BY <2>1, Untouched DEF LiveInv, TypeOK, Fresh, control, account
    <2>3. Balanced(pos, Cardinality(Stops), doubled, step, Once(applied))'
      BY <2>1, Untouched DEF LiveInv, Balanced, control, account
    <2>4. Promised(pos, Cardinality(Stops), doubled, step, Once(applied))'
      BY <2>1, Untouched DEF LiveInv, Promised, Binding, control, account
    <2> QED BY <2>2, <2>3, <2>4 DEF LiveInv
  <1> QED BY <1>1, <1>2, <1>3, <1>4, <1>5, <1>6, <1>7 DEF Next, RouterStep

\* The balance of the account and the promise of the router hold in every
\* reachable state: the inductive invariant the theorems below follow from.
THEOREM LiveInvAlways == Spec => []LiveInv
  BY InitHolds, NextKeeps, PTL DEF Spec

\* The types, whatever the numbers of retries, entries and kills.
THEOREM EntryTypeCorrect == Spec => []TypeOK
  <1>1. LiveInv => TypeOK
    BY DEF LiveInv
  <1> QED BY <1>1, LiveInvAlways, PTL

\* The balance is as strong as the properties that are checked.
LEMMA WeighsEnough == LiveInv => NakedAccounted /\ StopsAccounted /\ NeverOverfilled
  <1> SUFFICES ASSUME LiveInv PROVE NakedAccounted /\ StopsAccounted /\ NeverOverfilled
    OBVIOUS
  <1> DEFINE n == Cardinality(Stops)
             k == Once(applied)
  <1>1. n \in Nat /\ k \in {0, 1} /\ Balanced(pos, n, doubled, step, k)
    BY Numbers, OnceIs DEF LiveInv, TypeOK
  <1>2. step = "idle" => InFlight = 0
    BY DEF InFlight
  <1>3. step = "entry" => InFlight = k
    <2>1. CASE applied
      BY <2>1 DEF InFlight, Once
    <2>2. CASE ~applied
      BY <2>2 DEF InFlight, Once
    <2> QED BY <2>1, <2>2
  <1>4. step \notin {"idle", "entry"} => InFlight = 1
    BY DEF InFlight
  <1> HIDE DEF n, k
  <1>5. Slack(step, k) <= InFlight
    BY <1>1, <1>2, <1>3, <1>4 DEF Slack
  <1>6. /\ Owed(step, k) \in {0, 1} /\ Asked(step, k) \in {0, 1} /\ Slack(step, k) \in {0, 1}
        /\ InFlight \in {0, 1}
    BY <1>1, <1>2, <1>3, <1>4 DEF Owed, Asked, Slack
  <1>7. NakedAccounted
    BY <1>1, <1>5, <1>6, Numbers DEF Balanced, NakedAccounted, n
  <1>8. StopsAccounted
    BY <1>1, <1>6, Numbers DEF Balanced, StopsAccounted, n
  <1>9. NeverOverfilled
    BY <1>1, <1>6, Numbers DEF Balanced, NeverOverfilled
  <1> QED BY <1>7, <1>8, <1>9

\* No part of the position is without a stop but for the entry under way, an
\* order carried out twice, a lost answer, a failed close or a process killed
\* (_place_brackets_or_rescue).
THEOREM NothingNakedUnaccounted == Spec => []NakedAccounted
  BY WeighsEnough, LiveInvAlways, PTL

\* A rescue cancels the stop it has placed: no stop outlives its position
\* unaccounted for.
THEOREM NoStopUnaccounted == Spec => []StopsAccounted
  BY WeighsEnough, LiveInvAlways, PTL

\* Reduce-only closes and triggers never turn the position over, and an entry
\* adds one unit, except when it is carried out again.
THEOREM EntryNeverOverfills == Spec => []NeverOverfilled
  BY WeighsEnough, LiveInvAlways, PTL

-----------------------------------------------------------------------------
(* The router implements AtomicEntry. *)

\* What is naked, in numbers; nothing is where something excuses it.
NakedTable ==
  /\ Naked \in Nat
  /\ pos <= Cardinality(Stops) => Naked = 0
  /\ Naked <= pos - Cardinality(Stops) \/ Naked = 0
  /\ ~Excused /\ ~(pos <= Cardinality(Stops)) => Naked = pos - Cardinality(Stops)
  /\ Excused => Naked = 0

\* The refinement mapping in numbers.
LEMMA NakedIs == LiveInv => NakedTable
  <1> SUFFICES ASSUME LiveInv PROVE NakedTable
    OBVIOUS
  <1>1. CASE Excused \/ pos <= Cardinality(Stops)
    <2>1. Naked = 0
      BY Zenon, <1>1 DEF Naked
    <2> QED BY <1>1, <2>1 DEF NakedTable
  <1>2. CASE ~Excused /\ ~(pos <= Cardinality(Stops))
    <2>1. Naked = pos - Cardinality(Stops)
      BY Zenon, <1>2 DEF Naked
    <2>2. pos - Cardinality(Stops) \in Nat /\ Naked \in Nat
      BY <1>2, <2>1, Numbers
    <2> QED BY <1>2, <2>1, <2>2 DEF NakedTable
  <1> QED BY <1>1, <1>2

\* The invariant and the mapping excuse the same.
LEMMA Excuses ==
  LiveInv => (Excused <=> ~(doubled = 0 /\ unacked = 0 /\ crashes = 0 /\ ~unpaused /\ ~careless))
  <1> SUFFICES ASSUME LiveInv
               PROVE  Excused <=> ~(doubled = 0 /\ unacked = 0 /\ crashes = 0 /\ ~unpaused /\ ~careless)
    OBVIOUS
  <1>1. (doubled > 0 <=> doubled # 0) /\ (unacked > 0 <=> unacked # 0)
        /\ (crashes > 0 <=> crashes # 0)
    BY Numbers
  <1> QED BY Zenon, <1>1 DEF Excused

\* The router returns to its caller with nothing naked or the switch on.
LEMMA IdleIsSettled == LiveInv /\ step = "idle" /\ Naked # 0 => paused
  <1> SUFFICES ASSUME LiveInv, step = "idle", ~paused PROVE Naked = 0
    OBVIOUS
  <1>1. CASE Excused
    BY <1>1, NakedIs DEF NakedTable
  <1>2. CASE ~Excused
    <2>1. Binding(doubled)
      BY Zenon, <1>2, Excuses DEF Binding
    <2>2. pos <= Cardinality(Stops) + AtRisk("idle", Once(applied))
      BY <2>1 DEF LiveInv, Promised
    <2>3. pos <= Cardinality(Stops)
      BY <2>2, Numbers DEF AtRisk, Slack
    <2> QED BY <2>3, NakedIs DEF NakedTable
  <1> QED BY <1>1, <1>2

\* What is naked grows by a unit at most, when the position does against its
\* stops and no excuse goes away.
LEMMA NakedGrows ==
  ASSUME LiveInv, LiveInv', Excused => Excused',
         NEW d \in {0, 1},
         pos' - Cardinality(Stops)' <= pos - Cardinality(Stops) + d
  PROVE  Naked \in Nat /\ Naked' \in Nat /\ Naked' <= Naked + d
  <1>1. NakedTable /\ NakedTable'
    BY NakedIs, PTL
  <1>2. Cardinality(Stops) \in Nat /\ Cardinality(Stops)' \in Nat /\ pos \in Nat /\ pos' \in Nat
    BY Numbers, StopsStayCounted DEF LiveInv, TypeOK
  <1>3. CASE Naked' = 0
    BY <1>1, <1>3 DEF NakedTable
  <1>4. CASE Naked' # 0
    <2>1. ~Excused' /\ ~Excused
      BY <1>1, <1>4 DEF NakedTable
    <2>2. Naked' <= pos' - Cardinality(Stops)' /\ Naked' \in Nat
      BY <1>1, <1>4 DEF NakedTable
    <2>3. CASE pos <= Cardinality(Stops)
      <3>1. Naked = 0
        BY <1>1, <2>3 DEF NakedTable
      <3> QED BY <1>2, <2>2, <2>3, <3>1
    <2>4. CASE ~(pos <= Cardinality(Stops))
      <3>1. Naked = pos - Cardinality(Stops) /\ Naked \in Nat
        BY <1>1, <2>1, <2>4 DEF NakedTable
      <3> QED BY <1>2, <2>2, <3>1
    <2> QED BY <2>3, <2>4
  <1> QED BY <1>3, <1>4

\* A step of the exchange or the router, the switch apart, is one of the
\* abstract entry or of the market.
LEMMA WorkImplements ==
  ASSUME LiveInv, LiveInv', Excused => Excused', UNCHANGED paused,
         pos' - Cardinality(Stops)' <= pos - Cardinality(Stops) + 1,
         step # "idle"
  PROVE  [Atomic!Next]_Atomic!vars
  <1>1. Naked \in Nat /\ Naked' \in Nat /\ Naked' <= Naked + 1
    BY NakedGrows
  <1>2. CASE step' = "idle"
    <2>1. Naked' = 0 \/ paused'
      <3>1. (LiveInv /\ step = "idle" /\ Naked # 0 => paused)'
        BY IdleIsSettled, PTL
      <3> QED BY Zenon, <1>2, <3>1
    <2>2. Naked' \in {n \in Nat : n <= Naked + 1}
      BY <1>1
    <2>3. Atomic!Return
      BY <1>2, <2>1, <2>2 DEF Atomic!Return
    <2> QED BY <2>3 DEF Atomic!Next
  <1>3. CASE step' # "idle"
    <2>1. CASE Naked' <= Naked
      <3>1. Atomic!Market
        BY <1>1, <1>3, <2>1 DEF Atomic!Market
      <3> QED BY <3>1 DEF Atomic!Next
    <2>2. CASE Naked' = Naked + 1
      <3>1. Naked' \in {n \in Nat : Naked <= n + 1 /\ n <= Naked + 1}
        BY <1>1, <2>2
      <3>2. Atomic!Work
        BY <1>3, <3>1 DEF Atomic!Work
      <3> QED BY <3>2 DEF Atomic!Next
    <2> QED BY <1>1, <2>1, <2>2
  <1> QED BY <1>2, <1>3

\* A served request takes at most one stop away or adds one unit.
LEMMA ServedDisplaces ==
  ASSUME LiveInv, NEW r \in Requests, step = r, Served(r), UNCHANGED entry
  PROVE  pos' - Cardinality(Stops)' <= pos - Cardinality(Stops) + 1 /\ doubled' >= doubled
  <1>1. Once(applied) \in {0, 1}
    BY OnceIs DEF LiveInv, TypeOK
  <1>2. doubled' >= doubled
    BY <1>1, ServedCounts, Numbers
  <1>3. /\ r = "entry" => pos' \in {pos, pos + 1}
        /\ r = "close" => pos' = pos - 1
        /\ r \in {"sl", "tp", "cancel"} => pos' = pos
        /\ r \in {"entry", "tp", "close"} => Cardinality(Stops)' = Cardinality(Stops)
        /\ r = "sl" => Cardinality(Stops)' = Cardinality(Stops) + 1
        /\ r = "cancel" => Cardinality(Stops)' = Cardinality(Stops) - 1
    BY ServedCounts
  <1>4. Cardinality(Stops) \in Nat /\ pos \in Nat
    BY Numbers
  <1> QED BY <1>2, <1>3, <1>4 DEF Requests

\* What excuses the router stays, for the account only grows.
LEMMA ExcuseStays ==
  ASSUME LiveInv, LiveInv', doubled' >= doubled, unacked' >= unacked, crashes' >= crashes,
         unpaused => unpaused', careless => careless'
  PROVE  Excused => Excused'
  <1>1. doubled > 0 => doubled' > 0
    BY Numbers DEF LiveInv, TypeOK
  <1>2. unacked > 0 => unacked' > 0
    BY Numbers DEF LiveInv, TypeOK
  <1>3. crashes > 0 => crashes' > 0
    BY Numbers DEF LiveInv, TypeOK
  <1> QED BY Zenon, <1>1, <1>2, <1>3 DEF Excused

\* The end of a request or a further attempt leaves the switch alone and takes no
\* excuse back.
LEMMA FinishedOrAgain ==
  ASSUME LiveInv, NEW r \in Requests, NEW ok \in BOOLEAN, NEW acted \in BOOLEAN,
         step = r, Finish(r, ok, acted) \/ Again(r, acted)
  PROVE  /\ UNCHANGED paused /\ UNCHANGED entry /\ unacked' >= unacked /\ crashes' >= crashes
         /\ unpaused => unpaused'
         /\ careless => careless'
  <1>1. \A b \in BOOLEAN : Finish(r, b, acted) =>
          /\ UNCHANGED paused /\ UNCHANGED entry /\ unacked' >= unacked /\ crashes' >= crashes
          /\ unpaused => unpaused'
          /\ careless => careless'
    BY FinishTable, Numbers
  <1>2. CASE Finish(r, ok, acted)
    BY <1>1, <1>2
  <1>3. CASE Again(r, acted)
    <2>1. CASE attempt < MaxRetries
      BY <1>3, <2>1, Numbers DEF Again, account
    <2>2. CASE ~(attempt < MaxRetries)
      BY <1>1, <1>3, <2>2 DEF Again
    <2> QED BY <2>1, <2>2
  <1> QED BY <1>2, <1>3

\* Every attempt of a request is work, a return or the market's.
LEMMA RequestImplements ==
  ASSUME LiveInv, LiveInv', NEW r \in Requests,
         Answered(r) \/ AnswerLost(r) \/ NotServed(r) \/ Refused(r)
  PROVE  [Atomic!Next]_Atomic!vars
  <1>1. step = r /\ step # "idle" /\ applied \in BOOLEAN
    BY DEF Answered, AnswerLost, NotServed, Refused, Requests, LiveInv, TypeOK
  <1>2. CASE Answered(r) \/ AnswerLost(r)
    <2>1. Served(r) /\ (Finish(r, TRUE, TRUE) \/ Again(r, TRUE))
      BY <1>2 DEF Answered, AnswerLost
    <2>2. /\ UNCHANGED paused /\ UNCHANGED entry /\ unacked' >= unacked /\ crashes' >= crashes
          /\ unpaused => unpaused'
          /\ careless => careless'
      BY <1>1, <2>1, FinishedOrAgain
    <2>3. pos' - Cardinality(Stops)' <= pos - Cardinality(Stops) + 1 /\ doubled' >= doubled
      BY <1>1, <2>1, <2>2, ServedDisplaces
    <2> QED BY <1>1, <2>2, <2>3, ExcuseStays, WorkImplements
  <1>3. CASE NotServed(r) \/ Refused(r)
    <2>1. UNCHANGED exchange /\ (Finish(r, FALSE, applied) \/ Again(r, applied))
      BY <1>3 DEF NotServed, Refused
    <2>2. /\ UNCHANGED paused /\ unacked' >= unacked /\ crashes' >= crashes
          /\ unpaused => unpaused'
          /\ careless => careless'
      BY <1>1, <2>1, FinishedOrAgain
    <2>3. pos' - Cardinality(Stops)' <= pos - Cardinality(Stops) + 1 /\ doubled' >= doubled
      BY <2>1, Untouched, Numbers
    <2> QED BY <1>1, <2>2, <2>3, ExcuseStays, WorkImplements
  <1> QED BY <1>2, <1>3

\* A kill returns to nobody, and excuses it.
LEMMA CrashImplements ==
  ASSUME LiveInv, LiveInv', Crash
  PROVE  [Atomic!Next]_Atomic!vars
  <1>1. UNCHANGED exchange /\ step # "idle" /\ UNCHANGED paused
        /\ doubled' >= doubled /\ unacked' >= unacked /\ crashes' >= crashes
        /\ (unpaused => unpaused') /\ (careless => careless')
    BY Untouched, Numbers DEF Crash
  <1>2. pos' - Cardinality(Stops)' <= pos - Cardinality(Stops) + 1
    BY <1>1, Untouched, Numbers
  <1> QED BY <1>1, <1>2, ExcuseStays, WorkImplements

\* The pause after a rescue is the return.
LEMMA PauseImplements ==
  ASSUME LiveInv, LiveInv', PauseAfterRescue
  PROVE  [Atomic!Next]_Atomic!vars
  <1>1. /\ UNCHANGED exchange /\ step = "pause" /\ step' = "idle"
        /\ UNCHANGED unacked /\ UNCHANGED crashes /\ UNCHANGED careless
    BY DEF PauseAfterRescue, Goto
  <1>2. PICK saved \in BOOLEAN :
          paused' = (paused \/ saved) /\ unpaused' = (unpaused \/ ~saved)
    BY DEF PauseAfterRescue
  <1>3. unpaused => unpaused'
    BY Zenon, <1>2
  <1>4. /\ doubled' >= doubled /\ unacked' >= unacked /\ crashes' >= crashes
        /\ pos' - Cardinality(Stops)' <= pos - Cardinality(Stops) + 0
        /\ (careless => careless')
    BY <1>1, Untouched, Numbers
  <1>5. Excused => Excused'
    BY <1>3, <1>4, ExcuseStays
  <1>6. Naked \in Nat /\ Naked' \in Nat /\ Naked' <= Naked + 0
    BY <1>4, <1>5, NakedGrows
  <1>7. Naked' \in {n \in Nat : n <= Naked + 1}
    BY <1>6
  <1>8. Naked' = 0 \/ paused'
    <2>1. (LiveInv /\ step = "idle" /\ Naked # 0 => paused)'
      BY IdleIsSettled, PTL
    <2> QED BY Zenon, <1>1, <2>1
  <1>9. paused' \in {paused, TRUE}
    BY Zenon, <1>2 DEF LiveInv, TypeOK
  <1>10. Atomic!Return
    BY <1>1, <1>7, <1>8, <1>9 DEF Atomic!Return
  <1> QED BY <1>10 DEF Atomic!Next

\* A new entry is a call.
LEMMA BeginImplements ==
  ASSUME LiveInv, NEW fromLoop \in BOOLEAN, Begin(fromLoop)
  PROVE  [Atomic!Next]_Atomic!vars
  <1>1. /\ step = "idle" /\ step' = "entry" /\ UNCHANGED exchange /\ UNCHANGED account
        /\ UNCHANGED paused
    BY DEF Begin, Goto
  <1>2. Naked' = Naked
    BY <1>1 DEF Naked, Excused, Stops, exchange, account
  <1>3. Atomic!Call
    BY <1>1, <1>2 DEF Atomic!Call
  <1> QED BY <1>3 DEF Atomic!Next

\* A bracket that triggers is the market's doing.
LEMMA TriggerImplements ==
  ASSUME LiveInv, LiveInv', NEW o \in orders, Trigger(o)
  PROVE  [Atomic!Next]_Atomic!vars
  <1>1. /\ orders' = orders \ {o} /\ pos' = (IF pos > 0 THEN pos - 1 ELSE 0)
        /\ doubled' = doubled /\ unacked' = unacked /\ crashes' = crashes
        /\ unpaused' = unpaused /\ careless' = careless /\ step' = step /\ paused' = paused
    BY DEF Trigger, control
  <1>2. Cardinality(Stops)' = Cardinality(Stops) - (IF o.kind = "sl" THEN 1 ELSE 0)
    BY <1>1, BracketGone DEF LiveInv
  <1>3. Excused <=> Excused'
    BY <1>1 DEF Excused
  <1>4. CASE pos > 0
    <2>1. pos' - Cardinality(Stops)' <= pos - Cardinality(Stops) + 0
      BY <1>1, <1>2, <1>4, Numbers
    <2>2. Naked \in Nat /\ Naked' \in Nat /\ Naked' <= Naked + 0
      BY <1>3, <2>1, NakedGrows
    <2>3. Naked' \in {n \in Nat : n <= Naked}
      BY <2>2
    <2>4. Atomic!Market
      BY <1>1, <2>3 DEF Atomic!Market
    <2> QED BY <2>4 DEF Atomic!Next
  <1>5. CASE pos = 0
    <2>1. NakedTable /\ NakedTable'
      BY NakedIs, PTL
    <2>2. Cardinality(Stops) \in Nat /\ Cardinality(Stops)' \in Nat /\ pos' = 0
      BY <1>1, <1>5, Numbers, StopsStayCounted DEF LiveInv
    <2>3. Naked = 0 /\ Naked' = 0
      BY <1>5, <2>1, <2>2 DEF NakedTable
    <2>4. Naked' \in {n \in Nat : n <= Naked}
      BY <2>3
    <2>5. Atomic!Market
      BY <1>1, <2>4 DEF Atomic!Market
    <2> QED BY <2>5 DEF Atomic!Next
  <1> QED BY <1>4, <1>5, Numbers

\* A resume leaves nothing naked that is not excused.
LEMMA ResumeImplements ==
  ASSUME LiveInv, LiveInv', OperatorResume
  PROVE  [Atomic!Next]_Atomic!vars
  <1>1. /\ paused /\ paused' = FALSE /\ careless' = (careless \/ pos > Cardinality(Stops))
        /\ UNCHANGED exchange /\ step' = step
    BY DEF OperatorResume
  <1>2. NakedTable'
    BY NakedIs, PTL
  <1>3. Naked' = 0
    <2>1. CASE pos <= Cardinality(Stops)
      <3>1. pos' <= Cardinality(Stops)'
        BY <1>1, <2>1, Untouched
      <3> QED BY <1>2, <3>1 DEF NakedTable
    <2>2. CASE ~(pos <= Cardinality(Stops))
      <3>1. pos > Cardinality(Stops)
        BY <2>2, Numbers
      <3>2. Excused'
        BY Zenon, <1>1, <3>1 DEF Excused
      <3> QED BY <1>2, <3>2 DEF NakedTable
    <2> QED BY <2>1, <2>2
  <1>4. Atomic!Resume
    <2>1. paused = TRUE
      BY Zenon, <1>1 DEF LiveInv, TypeOK
    <2> QED BY Zenon, <1>1, <1>3, <2>1 DEF Atomic!Resume
  <1> QED BY <1>4 DEF Atomic!Next

\* Every step maps to a step of AtomicEntry or to a stutter.
LEMMA AtomicStep == LiveInv /\ LiveInv' /\ [Next]_vars => [Atomic!Next]_Atomic!vars
  <1> SUFFICES ASSUME LiveInv, LiveInv', [Next]_vars PROVE [Atomic!Next]_Atomic!vars
    OBVIOUS
  <1>1. ASSUME NEW r \in Requests,
               Answered(r) \/ AnswerLost(r) \/ NotServed(r) \/ Refused(r)
        PROVE  [Atomic!Next]_Atomic!vars
    BY <1>1, RequestImplements
  <1>2. CASE PauseAfterRescue
    BY <1>2, PauseImplements
  <1>3. ASSUME NEW fromLoop \in BOOLEAN, Begin(fromLoop)
        PROVE  [Atomic!Next]_Atomic!vars
    BY <1>3, BeginImplements
  <1>4. ASSUME NEW o \in orders, Trigger(o)
        PROVE  [Atomic!Next]_Atomic!vars
    BY <1>4, TriggerImplements
  <1>5. CASE Crash
    BY <1>5, CrashImplements
  <1>6. CASE OperatorResume
    BY <1>6, ResumeImplements
  <1>7. CASE UNCHANGED vars
    BY <1>7 DEF vars, exchange, control, account, Atomic!vars, Naked, Excused, Stops
  <1> QED BY <1>1, <1>2, <1>3, <1>4, <1>5, <1>6, <1>7 DEF Next, RouterStep

\* The first state maps to AtomicEntry's.
LEMMA AtomicInit == Init => Atomic!Init
  <1> SUFFICES ASSUME Init PROVE Atomic!Init
    OBVIOUS
  <1>1. LiveInv /\ step = "idle" /\ ~paused
    BY InitHolds DEF Init
  <1>2. Naked = 0
    BY <1>1, IdleIsSettled
  <1> QED BY <1>2 DEF Init, Atomic!Init

\* "We MUST either (a) place both successfully and return filled, or (b)
\* immediately reduce-only MARKET close the entry, pause safety": whatever the
\* retries and the losses, a call returns with nothing naked or the switch on,
\* unless it is excused (execution_router.py:405).
THEOREM EntryIsAtomic == Spec => AtomicPromise
  <1>1. Init => Atomic!Init
    BY AtomicInit
  <1>2. LiveInv /\ LiveInv' /\ [Next]_vars => [Atomic!Next]_Atomic!vars
    BY AtomicStep
  <1> QED BY <1>1, <1>2, LiveInvAlways, PTL DEF Spec, AtomicPromise, Atomic!Spec
=============================================================================

---------------------------- MODULE AtomicEntry ----------------------------
(***************************************************************************)
(* What ExecutionRouter._fill_live() promises its caller: an entry is      *)
(* under way or it is not; when the call returns, no part of the position  *)
(* is without a stop, or the kill switch is on.                            *)
(***************************************************************************)
EXTENDS Naturals

VARIABLES
  firing,  \* a call of the router is under way
  naked,   \* size of the position that no stop on the exchange covers
  halted   \* the kill switch

vars == <<firing, naked, halted>>

Init == firing = FALSE /\ naked = 0 /\ halted = FALSE

Call == ~firing /\ firing' = TRUE /\ UNCHANGED <<naked, halted>>

Work ==
  /\ firing
  /\ naked' \in {n \in Nat : naked <= n + 1 /\ n <= naked + 1}
  /\ UNCHANGED <<firing, halted>>

Return ==
  /\ firing /\ firing' = FALSE
  /\ halted' \in {halted, TRUE}
  /\ naked' \in {n \in Nat : n <= naked + 1}
  /\ naked' = 0 \/ halted'

\* The market closes what it likes.
Market == naked' \in {n \in Nat : n <= naked} /\ UNCHANGED <<firing, halted>>

\* The operator turns the switch off, with nothing naked left: "operator must
\* verify exchange flat before resume" (execution_router.py:621).
Resume == halted /\ naked' = 0 /\ halted' = FALSE /\ UNCHANGED firing

Next == Call \/ Work \/ Return \/ Market \/ Resume

Spec == Init /\ [][Next]_vars
=============================================================================

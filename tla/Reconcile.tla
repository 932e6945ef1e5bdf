----------------------------- MODULE Reconcile -----------------------------
(***************************************************************************)
(* position_manager.reconcile(): the open rows of open-positions.json      *)
(* against the positions the exchange reports.  `rows` is a set of open    *)
(* rows with a symbol and a signed size (positive: LONG), `held` the       *)
(* signed size the exchange reports for each symbol, 0 where it reports    *)
(* none.  side_mismatch and qty_mismatch are told apart by no reader and   *)
(* are one kind here; no row is ever given the status "closing".           *)
(***************************************************************************)
EXTENDS Integers

CONSTANT Symbols

RowsOf(rows, s) == {r \in rows : r.symbol = s}

\* First pass: every row is looked up by its symbol and compared by itself,
\* also when another row of the symbol exists.
MissingOnExchange(rows, held) ==
  {s \in Symbols : held[s] = 0 /\ RowsOf(rows, s) # {}}

Differing(rows, held) ==
  {s \in Symbols : held[s] # 0 /\ \E r \in RowsOf(rows, s) : r.size # held[s]}

\* Mutant: the exchange also lists symbols it holds nothing of.
MissingLocallyFlatToo(rows, held) == {s \in Symbols : RowsOf(rows, s) = {}}

\* Second pass: what the exchange holds and no row mentions.
MissingLocally(rows, held) ==
  {s \in Symbols : held[s] # 0 /\ RowsOf(rows, s) = {}}

Mismatched(rows, held) ==
  MissingOnExchange(rows, held) \cup Differing(rows, held)
    \cup MissingLocally(rows, held)

IsClean(rows, held) == Mismatched(rows, held) = {}
=============================================================================

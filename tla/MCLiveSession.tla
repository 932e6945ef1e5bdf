--------------------------- MODULE MCLiveSession ---------------------------
EXTENDS LiveSession

\* A fine symbol, one with a coarse tick, and one whose step is so coarse that
\* one step may already exceed the margin cap.
MCSpecs ==
  {[tick |-> 1, step |-> 1, minPrice |-> 1, maxPrice |-> 7,
    minQty |-> 1, maxQty |-> 3, minNotional |-> 24],
   [tick |-> 2, step |-> 1, minPrice |-> 4, maxPrice |-> 99,
    minQty |-> 2, maxQty |-> 99, minNotional |-> 0],
   [tick |-> 1, step |-> 4, minPrice |-> 1, maxPrice |-> 99,
    minQty |-> 4, maxQty |-> 99, minNotional |-> 20]}

MCPnls == {-3, 2}
=============================================================================

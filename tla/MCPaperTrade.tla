---------------------------- MODULE MCPaperTrade ----------------------------
EXTENDS PaperTrade

CONSTANT TopPrice   \* bound: highest price

MCPlans ==
  {[side |-> "LONG", qty |-> q, entry |-> 3, stop |-> 2, targets |-> t] :
     q \in {1, 3}, t \in {<<5>>, <<4, 6>>}} \cup
  {[side |-> "LONG", qty |-> 6, entry |-> 3, stop |-> 1, targets |-> <<4, 5, 6>>]} \cup
  {[side |-> "SHORT", qty |-> 3, entry |-> 4, stop |-> 5, targets |-> <<3, 1>>]}

MCBooks == {<<[price |-> 3, qty |-> 3]>>, <<[price |-> 1, qty |-> 2], [price |-> 4, qty |-> 2]>>,
            <<[price |-> 3, qty |-> 1], [price |-> 6, qty |-> 5]>>, <<[price |-> 4, qty |-> 2]>>}

MCPrices == 1 .. TopPrice

MCCandles == {c \in [high : MCPrices, low : MCPrices, close : MCPrices] :
                c.low <= c.close /\ c.close <= c.high}
=============================================================================

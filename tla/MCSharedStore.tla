---------------------------- MODULE MCSharedStore ----------------------------
\* SharedStore with two symbols; the watchlist names one of them twice, and the
\* other in an entry without a side and in one that expires.
EXTENDS SharedStore

CONSTANTS A, B

Entry(s, sided, expires) == [symbol |-> s, high |-> TRUE, sided |-> sided, expires |-> expires]

MCWatchlists == {<<Entry(A, TRUE, 9), Entry(B, FALSE, 9), Entry(B, TRUE, 1),
                   Entry(A, TRUE, 9)>>}

MCScreens == {<<>>, <<B, A>>}
=============================================================================

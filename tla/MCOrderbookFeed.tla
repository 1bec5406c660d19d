--------------------------- MODULE MCOrderbookFeed ---------------------------
(* Small instances of OrderbookFeed.                                       *)
EXTENDS OrderbookFeed

\* Each subscription has a market of its own ...
OwnTickers == [c \in Clients |-> c]

\* ... or all of them ask for the same one.
OneTicker == [c \in Clients |-> "market"]

\* A bound for the larger runs: three changes in any two markets.
FewChanges == \A t, u \in Tickers : t # u => version[t] + version[u] <= 3
=============================================================================

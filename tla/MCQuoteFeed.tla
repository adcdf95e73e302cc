----------------------------- MODULE MCQuoteFeed -----------------------------
(* One symbol, polled and ticking: two messages of the socket, the poll    *)
(* and a request that reads the quote overlap in every way.                *)
EXTENDS QuoteFeed

CONSTANTS s1, m1, m2, poll, reader

MCSymbols   == {s1}
MCWatchlist == <<s1>>
MCMessages  == {m1, m2}
MCCallers   == MCMessages \union {poll, reader}
=============================================================================

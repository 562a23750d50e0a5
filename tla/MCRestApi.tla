----------------------------- MODULE MCRestApi -----------------------------
(* Three torrents on pages of one, two peers, two readers of the meter,   *)
(* two requests of the dashboard in flight.                                *)
EXTENDS RestApi, TLC
CONSTANTS t1, t2, t3, p1, p2, r1, r2, f1, f2
MCTorrents == {t1, t2, t3}
MCPeers    == {p1, p2}
MCReaders  == {r1, r2}
MCFetches  == {f1, f2}
Symmetric  == Permutations(MCTorrents) \union Permutations(MCFetches)
=============================================================================

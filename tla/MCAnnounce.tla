----------------------------- MODULE MCAnnounce -----------------------------
(* Announce with small sets of workers, torrents and peers. *)
EXTENDS Announce, TLC

CONSTANTS w1, w2, p1, p2, t1

TwoWorkers == {w1, w2}
OnePeer == {p1}
TwoPeers == {p1, p2}
OneTorrent == {t1}
Interchangeable == Permutations(TwoWorkers) \union Permutations(TwoPeers)
=============================================================================

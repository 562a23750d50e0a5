-------------------------- MODULE MCConnectionPool --------------------------
(* ConnectionPool with small sets of threads. *)
EXTENDS ConnectionPool

CONSTANTS t1, t2, t3

TwoThreads == {t1, t2}
ThreeThreads == {t1, t2, t3}
NoThreads == {}
SecondThread == {t2}
LastThread == {t3}
=============================================================================

--------------------------- MODULE MCTrackerServer ---------------------------
(* TrackerServer with small sets of clients. *)
EXTENDS TrackerServer, TLC

CONSTANTS s1, s2, s3, c1

ThreeSessions == {s1, s2, s3}
OneApiClient == {c1}
=============================================================================

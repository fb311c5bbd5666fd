----------------------------- MODULE MCCluster -----------------------------
(* What the task makes of the files of SRCDIR, for the runs of Cluster. *)
EXTENDS Cluster

GoodOutcome1 == <<"en">>
GoodOutcome2 == <<"en", "ru">>
GoodOutcome4 == <<"en", "unknown", "en", "ru">>
BadOutcome4 == <<"bad", "en", "ru", "en">>
=============================================================================

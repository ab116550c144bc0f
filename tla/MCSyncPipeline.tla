--------------------------- MODULE MCSyncPipeline ---------------------------
(* Instances of SyncPipeline for TLC.                                      *)
EXTENDS SyncPipeline, TLC

CONSTANTS m1, m2, m3, p1, p2

MCIds2 == {m1, m2}
MCIds3 == {m1, m2, m3}
MCPublishers1 == {p1}
MCPublishers2 == {p1, p2}
Symmetry == Permutations(Ids) \cup Permutations(Publishers)
=============================================================================

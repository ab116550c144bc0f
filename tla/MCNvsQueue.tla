----------------------------- MODULE MCNvsQueue -----------------------------
(* Instances of NvsQueue for TLC.                                          *)
EXTENDS NvsQueue, TLC

CONSTANTS m1, m2, m3

MCIds3 == {m1, m2, m3}
AllFaults == FaultKinds
NoFaults == {}
Symmetry == Permutations(Ids)
=============================================================================

---------------------------- MODULE MCFlashQueue ----------------------------
(* Instances of FlashQueue for TLC: messages of two units, updates of one. *)
EXTENDS FlashQueue, TLC

CONSTANTS m1, m2, m3

MCIds2 == {m1, m2}
MCIds3 == {m1, m2, m3}
MCMsgSize2 == [m \in Ids |-> 2]
MCMsgSizeSmall == [m \in Ids |-> IF m = m3 THEN 1 ELSE 3]
SymmetrySmall == Permutations({m1, m2})
Symmetry == Permutations(Ids)
NoFaults == {}
AllFaults == FaultKinds
Torn == {"torn"}
TornErase == {"tornErase"}
IoFaults == {"io"}
ReadFaults == {"read"}
RotFaults == {"rot"}
=============================================================================

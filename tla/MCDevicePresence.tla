--------------------------- MODULE MCDevicePresence ---------------------------
(* Small instances of DevicePresence. *)
EXTENDS DevicePresence, TLC

CONSTANT a1

(* Every poll slot is of the same agent. *)
OneAgentsPolls == [p \in Polls |-> a1]

SlotSymmetry == Permutations(Reports) \union Permutations(Polls)
=============================================================================

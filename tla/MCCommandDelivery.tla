------------------------- MODULE MCCommandDelivery -------------------------
(* Finite instances of CommandDelivery. *)
EXTENDS CommandDelivery, TLC

CONSTANTS a1, a2, p1, p2, c1, c2

(* Two agents with one poll slot and one command each. *)
OnePollEach == (p1 :> a1) @@ (p2 :> a2)
OneCmdEach  == (c1 :> a1) @@ (c2 :> a2)

(* One agent whose requests overlap. *)
TwoPollsOfA1 == (p1 :> a1) @@ (p2 :> a1)
AllForA1     == [c \in Cmds |-> a1]
=============================================================================

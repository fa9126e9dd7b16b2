------------------------------ MODULE TokenChain ------------------------------
(***************************************************************************)
(* What refresh token rotation promises an agent: a chain has one usable   *)
(* token, which a rotation replaces by its successor, until a reuse is     *)
(* detected and the chain has none for ever.                               *)
(***************************************************************************)
EXTENDS Naturals

CONSTANTS Chains, Tokens

VARIABLES
  usable,  \* the usable tokens of each chain, with their sequence_num
  dead     \* chains a reuse has ended

ChainInit == usable = [c \in Chains |-> {}] /\ dead = {}

Link(c) ==
  /\ usable[c] = {}
  /\ c \notin dead
  /\ \E t \in Tokens : usable' = [usable EXCEPT ![c] = {<<t, 1>>}]
  /\ UNCHANGED dead

Rotate(c) ==
  /\ \E old \in usable[c], t \in Tokens :
       usable' = [usable EXCEPT ![c] = {<<t, old[2] + 1>>}]
  /\ UNCHANGED dead

Kill(c) ==
  /\ usable' = [usable EXCEPT ![c] = {}]
  /\ dead' = dead \union {c}

ChainNext == \E c \in Chains : Link(c) \/ Rotate(c) \/ Kill(c)

ChainSpec == ChainInit /\ [][ChainNext]_<<usable, dead>>
=============================================================================

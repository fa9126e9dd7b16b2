---------------------------- MODULE SlidingWindow ----------------------------
(***************************************************************************)
(* What a rate limiter promises: a request is admitted exactly when fewer  *)
(* than Limit requests of its key were admitted in the Window before it,   *)
(* and a refused client is told the time at which a place becomes free,    *)
(* rounded up to a later second.  Times are in ticks, PerSecond of them to *)
(* a second.                                                               *)
(***************************************************************************)
EXTENDS Naturals, Sequences

CONSTANTS Keys, Limit, Window, PerSecond

ASSUME WindowAssumption ==
  /\ Limit \in Nat
  /\ PerSecond \in Nat \ {0}
  /\ Window \in Nat
  /\ \E seconds \in 0..Window : Window = seconds * PerSecond

VARIABLES
  now,
  admitted,  \* times of the admitted requests of each key, in order
  until      \* when a refused client was told to come back, 0 if not refused

windowVars == <<now, admitted, until>>

WindowInit ==
  /\ now = 0
  /\ admitted = [k \in Keys |-> <<>>]
  /\ until = [k \in Keys |-> 0]

(* The request that must leave the window before another is admitted. *)
Blocking(k) == admitted[k][Len(admitted[k]) - Limit + 1]

Room(k) == Limit # 0 /\ (Len(admitted[k]) < Limit \/ Blocking(k) + Window < now)

Admit(k) ==
  /\ Room(k)
  /\ admitted' = [admitted EXCEPT ![k] = Append(@, now)]
  /\ until' = [until EXCEPT ![k] = 0]
  /\ UNCHANGED now

(* With a limit of zero no place ever becomes free, and any time will do. *)
Refuse(k) ==
  /\ ~Room(k)
  /\ \E t \in 0..(now + Window + PerSecond) :
       /\ Limit # 0 => t > Blocking(k) + Window /\ t <= Blocking(k) + Window + PerSecond
       /\ until' = [until EXCEPT ![k] = t]
  /\ UNCHANGED <<now, admitted>>

Tick == now' = now + 1 /\ UNCHANGED <<admitted, until>>

(* The limiter lives in the memory of a process. *)
Forget == /\ admitted' = [k \in Keys |-> <<>>]
          /\ until' = [k \in Keys |-> 0]
          /\ UNCHANGED now

WindowNext == Tick \/ Forget \/ \E k \in Keys : Admit(k) \/ Refuse(k)

WindowSpec == WindowInit /\ [][WindowNext]_windowVars
=============================================================================

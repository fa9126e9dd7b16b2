---------------------------- MODULE CommandQueue ----------------------------
(***************************************************************************)
(* What command delivery promises, without requests, transactions or       *)
(* wake-ups: a command that was accepted is handed out at most once, or    *)
(* expires instead.  Handing out is not receiving: a reply can be lost,    *)
(* and the command is then gone.                                           *)
(***************************************************************************)
CONSTANT Cmds

VARIABLE state  \* where each command is in its life

QueueTypeOK ==
  state \in [Cmds -> {"absent", "queued", "taken", "received", "lost", "expired"}]

QueueInit == state = [c \in Cmds |-> "absent"]

Move(c, from, to) ==
  /\ state[c] = from
  /\ state' = [state EXCEPT ![c] = to]

Accept(c)  == Move(c, "absent", "queued")
Take(c)    == Move(c, "queued", "taken")
Receive(c) == Move(c, "taken", "received")

(* Replies are lost and commands expire; a crash does both at once. *)
LoseAndExpire(S, T) ==
  /\ \A c \in S : state[c] = "taken"
  /\ \A c \in T : state[c] = "queued"
  /\ state' = [c \in Cmds |-> IF c \in S THEN "lost"
                              ELSE IF c \in T THEN "expired" ELSE state[c]]

QueueNext ==
  \/ \E c \in Cmds : Accept(c) \/ Take(c) \/ Receive(c)
  \/ \E S, T \in SUBSET Cmds : LoseAndExpire(S, T)

QueueSpec == QueueInit /\ [][QueueNext]_state
=============================================================================

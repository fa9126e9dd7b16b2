----------------------- MODULE CommandDeliveryProofs -----------------------
(***************************************************************************)
(* Theorems about CommandDelivery, for any number of agents, poll slots,   *)
(* commands and faults.                                                    *)
(***************************************************************************)
EXTENDS CommandDelivery, TLAPS

USE NoEventAssumption, DeliveryAssumption

(* What the SELECT of pop_pending returns. *)
LEMMA SelectReturnsPending ==
  ASSUME NEW a, NEW c \in OldestPending(a)
  PROVE  c \in Cmds /\ row[c] = "PENDING" /\ CmdAgent[c] = a
  BY DEF OldestPending, PendingFor

(* A PENDING command has not been received. *)
LEMMA PendingNotReceived ==
  ASSUME TypeOK, DeliveryInv, NEW c \in Cmds, row[c] = "PENDING"
  PROVE  received[c] = 0
<1>1. received[c] \in Nat
  BY DEF TypeOK
<1>2. ~(received[c] > 0)
  BY DEF DeliveryInv, ReceivedIsDelivered
<1>3. QED
  BY <1>1, <1>2

(* The first SELECT of a poll moves that poll and nothing else. *)
LEMMA FirstSelectStep ==
  ASSUME NEW p \in Polls, FirstSelect(p)
  PROVE  \E s \in {"missed", "claim1"}, c \in Cmds \union {pick[p]} :
           /\ pc[p] = "idle"
           /\ pc' = [pc EXCEPT ![p] = s]
           /\ pick' = pick \/ pick' = [pick EXCEPT ![p] = c]
           /\ UNCHANGED <<signalingVars, rowVars, sweep, received, server, faults>>
<1>1. OldestPending(PollAgent[p]) \subseteq Cmds
  BY SelectReturnsPending
<1>2. CASE pc' = [pc EXCEPT ![p] = "missed"] /\ UNCHANGED pick
  BY <1>2 DEF FirstSelect
<1>3. CASE \E c \in OldestPending(PollAgent[p]) :
             /\ pick' = [pick EXCEPT ![p] = c]
             /\ pc' = [pc EXCEPT ![p] = "claim1"]
  BY <1>1, <1>3 DEF FirstSelect
<1>4. QED
  BY <1>2, <1>3 DEF FirstSelect

(* The process starts well typed. *)
LEMMA InitTypeOK == Init => TypeOK
  BY DEF Init, TypeOK, SignalingInit, SignalingTypeOK, RowStates, PollStates

(* Every step keeps the variables in their types. *)
LEMMA NextTypeOK == TypeOK /\ [Next]_vars => TypeOK'
<1> SUFFICES ASSUME TypeOK, [Next]_vars PROVE TypeOK'
  OBVIOUS
<1> USE DEF TypeOK, SignalingTypeOK, RowStates, PollStates, pollVars, rowVars,
            signalingVars, RegisterPoll, UnregisterPoll, WakePoll, WakeAllPolls
<1>1. ASSUME NEW c \in Cmds, InsertCommand(c) PROVE TypeOK'
  BY <1>1 DEF InsertCommand
<1>2. ASSUME NEW c \in Cmds, DispatchCommand(c) PROVE TypeOK'
  BY <1>2 DEF DispatchCommand
<1>3. ASSUME NEW c \in Cmds, CommitCommand(c) PROVE TypeOK'
  BY <1>3 DEF CommitCommand
<1>4. ASSUME NEW c \in Cmds, AbortCommand(c) PROVE TypeOK'
  BY <1>4 DEF AbortCommand
<1>5. ASSUME NEW p \in Polls, FirstSelect(p) PROVE TypeOK'
  <2>1. PICK s \in {"missed", "claim1"}, c \in Cmds \union {pick[p]} :
          /\ pc' = [pc EXCEPT ![p] = s]
          /\ pick' = pick \/ pick' = [pick EXCEPT ![p] = c]
          /\ UNCHANGED <<signalingVars, rowVars, sweep, received, server, faults>>
    BY <1>5, FirstSelectStep
  <2>2. pc' \in [Polls -> PollStates]
    BY <2>1
  <2>3. pick' \in [Polls -> Cmds \union {NoCmd}]
    BY <2>1
  <2>4. QED
    BY <2>1, <2>2, <2>3
<1>6. ASSUME NEW p \in Polls, Register(p) PROVE TypeOK'
  BY <1>6 DEF Register
<1>7. ASSUME NEW p \in Polls, Wake(p) PROVE TypeOK'
  BY <1>7 DEF Wake
<1>8. ASSUME NEW p \in Polls, Timeout(p) PROVE TypeOK'
  BY <1>8 DEF Timeout
<1>9. ASSUME NEW p \in Polls, SecondSelect(p) PROVE TypeOK'
  BY <1>9 DEF SecondSelect, OldestPending, PendingFor
<1>10. ASSUME NEW p \in Polls, Claim(p) PROVE TypeOK'
  BY <1>10 DEF Claim
<1>11. ASSUME NEW p \in Polls, CommitPoll(p) PROVE TypeOK'
  BY <1>11 DEF CommitPoll
<1>12. ASSUME NEW p \in Polls, Reply(p) PROVE TypeOK'
  <2>1. received' \in [Cmds -> Nat]
    <3>1. CASE pick[p] \in Cmds
      BY <1>12, <3>1 DEF Reply
    <3>2. CASE pick[p] \notin Cmds
      BY <1>12, <3>2 DEF Reply
    <3>3. QED
      BY <3>1, <3>2
  <2>2. QED
    BY <1>12, <2>1 DEF Reply
<1>13. ASSUME NEW p \in Polls, LoseReply(p) PROVE TypeOK'
  BY <1>13 DEF LoseReply
<1>14. ASSUME NEW p \in Polls, FailPoll(p) PROVE TypeOK'
  <2>1. SignalingTypeOK'
    BY <1>14 DEF FailPoll
  <2>2. QED
    BY <1>14, <2>1 DEF FailPoll
<1>15. ASSUME NEW n \in DOMAIN created, SweepUpdate(n) PROVE TypeOK'
  BY <1>15 DEF SweepUpdate, Expirable, CreatedAmongFirst
<1>16. CASE SweepCommit
  BY <1>16 DEF SweepCommit
<1>17. CASE SweepAbort
  BY <1>17 DEF SweepAbort
<1>18. CASE CloseAllConnections
  BY <1>18 DEF CloseAllConnections
<1>19. CASE Crash
  BY <1>19 DEF Crash, Restart
<1>20. CASE Exit
  BY <1>20 DEF Exit, Restart
<1>21. CASE UNCHANGED vars
  BY <1>21 DEF vars
<1>22. QED
  BY <1>1, <1>2, <1>3, <1>4, <1>5, <1>6, <1>7, <1>8, <1>9, <1>10,
     <1>11, <1>12,
     <1>13, <1>14, <1>15, <1>16, <1>17, <1>18, <1>19, <1>20, <1>21 DEF Next

(* Every reachable state is well typed, for all constants. *)
THEOREM TypeCorrect == Spec => []TypeOK
BY InitTypeOK, NextTypeOK, PTL DEF Spec

(* Every step keeps what requests have in hand consistent with the table. *)
LEMMA NextDeliveryInv == TypeOK /\ DeliveryInv /\ [Next]_vars => DeliveryInv'
<1> SUFFICES ASSUME TypeOK, DeliveryInv, [Next]_vars PROVE DeliveryInv'
  OBVIOUS
<1> USE DEF TypeOK, SignalingTypeOK, DeliveryInv, ReceivedIsDelivered, ClaimStates,
            RowStates, PollStates, pollVars, rowVars
<1>1. ASSUME NEW c \in Cmds, InsertCommand(c) PROVE DeliveryInv'
  BY <1>1 DEF InsertCommand
<1>2. ASSUME NEW c \in Cmds, DispatchCommand(c) PROVE DeliveryInv'
  BY <1>2 DEF DispatchCommand
<1>3. ASSUME NEW c \in Cmds, CommitCommand(c) PROVE DeliveryInv'
  BY <1>3 DEF CommitCommand
<1>4. ASSUME NEW c \in Cmds, AbortCommand(c) PROVE DeliveryInv'
  BY <1>4 DEF AbortCommand
<1>5. ASSUME NEW p \in Polls, FirstSelect(p) PROVE DeliveryInv'
  <2>1. CASE PendingFor(PollAgent[p]) = {} /\ pc' = [pc EXCEPT ![p] = "missed"] /\ UNCHANGED pick
    BY <1>5, <2>1 DEF FirstSelect
  <2>2. CASE \E c \in OldestPending(PollAgent[p]) :
               /\ pick' = [pick EXCEPT ![p] = c]
               /\ pc' = [pc EXCEPT ![p] = "claim1"]
    <3>1. PICK c \in OldestPending(PollAgent[p]) :
                 /\ pick' = [pick EXCEPT ![p] = c]
                 /\ pc' = [pc EXCEPT ![p] = "claim1"]
      BY <2>2
    <3>2. c \in Cmds /\ row[c] = "PENDING" /\ CmdAgent[c] = PollAgent[p]
      BY SelectReturnsPending
    <3>3. UNCHANGED <<row, sweep, received>>
      BY <1>5 DEF FirstSelect
    <3>4. QED
      BY <3>1, <3>2, <3>3
  <2>3. QED
    BY <1>5, <2>1, <2>2 DEF FirstSelect
<1>6. ASSUME NEW p \in Polls, Register(p) PROVE DeliveryInv'
  BY <1>6 DEF Register
<1>7. ASSUME NEW p \in Polls, Wake(p) PROVE DeliveryInv'
  BY <1>7 DEF Wake
<1>8. ASSUME NEW p \in Polls, Timeout(p) PROVE DeliveryInv'
  BY <1>8 DEF Timeout
<1>9. ASSUME NEW p \in Polls, SecondSelect(p) PROVE DeliveryInv'
  <2>1. CASE PendingFor(PollAgent[p]) = {} /\ pc' = [pc EXCEPT ![p] = "idle"] /\ UNCHANGED pick
    BY <1>9, <2>1 DEF SecondSelect
  <2>2. CASE \E c \in OldestPending(PollAgent[p]) :
               /\ pick' = [pick EXCEPT ![p] = c]
               /\ pc' = [pc EXCEPT ![p] = "claim2"]
    <3>1. PICK c \in OldestPending(PollAgent[p]) :
                 /\ pick' = [pick EXCEPT ![p] = c]
                 /\ pc' = [pc EXCEPT ![p] = "claim2"]
      BY <2>2
    <3>2. c \in Cmds /\ row[c] = "PENDING" /\ CmdAgent[c] = PollAgent[p]
      BY SelectReturnsPending
    <3>3. UNCHANGED <<row, sweep, received>>
      BY <1>9 DEF SecondSelect
    <3>4. QED
      BY <3>1, <3>2, <3>3
  <2>3. QED
    BY <1>9, <2>1, <2>2 DEF SecondSelect
<1>10. ASSUME NEW p \in Polls, Claim(p) PROVE DeliveryInv'
  BY <1>10 DEF Claim, LockedByOther
<1>11. ASSUME NEW p \in Polls, CommitPoll(p) PROVE DeliveryInv'
  BY <1>11 DEF CommitPoll
<1>12. ASSUME NEW p \in Polls, Reply(p) PROVE DeliveryInv'
  BY <1>12 DEF Reply
<1>13. ASSUME NEW p \in Polls, LoseReply(p) PROVE DeliveryInv'
  BY <1>13 DEF LoseReply
<1>14. ASSUME NEW p \in Polls, FailPoll(p) PROVE DeliveryInv'
  BY <1>14 DEF FailPoll
<1>15. ASSUME NEW n \in DOMAIN created, SweepUpdate(n) PROVE DeliveryInv'
  BY <1>15 DEF SweepUpdate, Expirable, CreatedAmongFirst
<1>16. CASE SweepCommit
  BY <1>16 DEF SweepCommit
<1>17. CASE SweepAbort
  BY <1>17 DEF SweepAbort
<1>18. CASE CloseAllConnections
  BY <1>18 DEF CloseAllConnections
<1>19. CASE Crash
  BY <1>19 DEF Crash, Restart
<1>20. CASE Exit
  BY <1>20 DEF Exit, Restart
<1>21. CASE UNCHANGED vars
  BY <1>21 DEF vars
<1>22. QED
  BY <1>1, <1>2, <1>3, <1>4, <1>5, <1>6, <1>7, <1>8, <1>9, <1>10,
     <1>11, <1>12, <1>13, <1>14, <1>15, <1>16, <1>17, <1>18, <1>19, <1>20, <1>21 DEF Next

(* At the start nothing is in hand and nothing is received. *)
LEMMA InitDeliveryInv == Init => DeliveryInv
  BY DEF Init, DeliveryInv, ReceivedIsDelivered, ClaimStates

(* What requests and the sweep have in hand agrees with the table. *)
THEOREM DeliveryInvariant == Spec => []DeliveryInv
BY TypeCorrect, InitDeliveryInv, NextDeliveryInv, PTL DEF Spec

(* What an agent was handed is committed as DELIVERED, through crashes,    *)
(* rollbacks, sweeps and overlapping requests.                             *)
THEOREM ReceivedSafe == Spec => []ReceivedIsDelivered
<1>1. DeliveryInv => ReceivedIsDelivered
  BY DEF DeliveryInv
<1>2. QED
  BY <1>1, DeliveryInvariant, PTL

(* Nothing takes back the DELIVERED status of a row: the sweep's UPDATE    *)
(* matches PENDING rows only and waits for the polls' locks.               *)
THEOREM DeliveredFinal == Spec => DeliveredIsFinal
<1> DEFINE Keeps == \A c \in Cmds : row[c] = "DELIVERED" => row'[c] = "DELIVERED"
<1>1. TypeOK /\ DeliveryInv /\ [Next]_vars => [Keeps]_row
  <2> SUFFICES ASSUME TypeOK, DeliveryInv, [Next]_vars, row' # row PROVE Keeps
    OBVIOUS
  <2> USE DEF TypeOK, DeliveryInv, pollVars, rowVars
  <2>1. ASSUME NEW c \in Cmds, InsertCommand(c) PROVE Keeps
    BY <2>1 DEF InsertCommand
  <2>2. ASSUME NEW c \in Cmds, DispatchCommand(c) PROVE Keeps
    BY <2>2 DEF DispatchCommand
  <2>3. ASSUME NEW c \in Cmds, CommitCommand(c) PROVE Keeps
    BY <2>3 DEF CommitCommand
  <2>4. ASSUME NEW c \in Cmds, AbortCommand(c) PROVE Keeps
    BY <2>4 DEF AbortCommand
  <2>5. ASSUME NEW p \in Polls, CommitPoll(p) PROVE Keeps
    BY <2>5 DEF CommitPoll
  <2>6. CASE SweepCommit
    BY <2>6 DEF SweepCommit
  <2>7. CASE Restart
    BY <2>7 DEF Restart
  <2>8. QED
    BY <2>1, <2>2, <2>3, <2>4, <2>5, <2>6, <2>7
       DEF Next, FirstSelect, Register, Wake, Timeout, SecondSelect, Claim, Reply,
           LoseReply, FailPoll, SweepUpdate, SweepAbort, CloseAllConnections,
           Crash, Exit, vars
<1>2. QED
  BY <1>1, TypeCorrect, DeliveryInvariant, PTL DEF Spec, DeliveredIsFinal

(* With one request per agent, a request never picks up a delivered command. *)
LEMMA NextSingleInv ==
  OnePollPerAgent /\ TypeOK /\ DeliveryInv /\ SingleInv /\ [Next]_vars
    => SingleInv'
<1> SUFFICES ASSUME OnePollPerAgent, TypeOK, DeliveryInv, SingleInv, [Next]_vars PROVE SingleInv'
  OBVIOUS
<1> USE DEF OnePollPerAgent, TypeOK, SignalingTypeOK, DeliveryInv, ReceivedIsDelivered,
            SingleInv, AtMostOnce, ClaimStates, RowStates, PollStates,
            pollVars, rowVars
<1>1. ASSUME NEW c \in Cmds, InsertCommand(c) PROVE SingleInv'
  BY <1>1 DEF InsertCommand
<1>2. ASSUME NEW c \in Cmds, DispatchCommand(c) PROVE SingleInv'
  BY <1>2 DEF DispatchCommand
<1>3. ASSUME NEW c \in Cmds, CommitCommand(c) PROVE SingleInv'
  BY <1>3 DEF CommitCommand
<1>4. ASSUME NEW c \in Cmds, AbortCommand(c) PROVE SingleInv'
  BY <1>4 DEF AbortCommand
<1>5. ASSUME NEW p \in Polls, FirstSelect(p) PROVE SingleInv'
  <2>1. CASE PendingFor(PollAgent[p]) = {} /\ pc' = [pc EXCEPT ![p] = "missed"] /\ UNCHANGED pick
    BY <1>5, <2>1 DEF FirstSelect
  <2>2. CASE \E c \in OldestPending(PollAgent[p]) :
               /\ pick' = [pick EXCEPT ![p] = c]
               /\ pc' = [pc EXCEPT ![p] = "claim1"]
    <3>1. PICK c \in OldestPending(PollAgent[p]) :
                 /\ pick' = [pick EXCEPT ![p] = c]
                 /\ pc' = [pc EXCEPT ![p] = "claim1"]
      BY <2>2
    <3>2. c \in Cmds /\ row[c] = "PENDING" /\ CmdAgent[c] = PollAgent[p]
      BY SelectReturnsPending
    <3>3. UNCHANGED <<row, sweep, received>>
      BY <1>5 DEF FirstSelect
    <3>4. received[c] = 0
      BY <3>2, PendingNotReceived
    <3>5. QED
      BY <3>1, <3>2, <3>3, <3>4
  <2>3. QED
    BY <1>5, <2>1, <2>2 DEF FirstSelect
<1>6. ASSUME NEW p \in Polls, Register(p) PROVE SingleInv'
  BY <1>6 DEF Register
<1>7. ASSUME NEW p \in Polls, Wake(p) PROVE SingleInv'
  BY <1>7 DEF Wake
<1>8. ASSUME NEW p \in Polls, Timeout(p) PROVE SingleInv'
  BY <1>8 DEF Timeout
<1>9. ASSUME NEW p \in Polls, SecondSelect(p) PROVE SingleInv'
  <2>1. CASE PendingFor(PollAgent[p]) = {} /\ pc' = [pc EXCEPT ![p] = "idle"] /\ UNCHANGED pick
    BY <1>9, <2>1 DEF SecondSelect
  <2>2. CASE \E c \in OldestPending(PollAgent[p]) :
               /\ pick' = [pick EXCEPT ![p] = c]
               /\ pc' = [pc EXCEPT ![p] = "claim2"]
    <3>1. PICK c \in OldestPending(PollAgent[p]) :
                 /\ pick' = [pick EXCEPT ![p] = c]
                 /\ pc' = [pc EXCEPT ![p] = "claim2"]
      BY <2>2
    <3>2. c \in Cmds /\ row[c] = "PENDING" /\ CmdAgent[c] = PollAgent[p]
      BY SelectReturnsPending
    <3>3. UNCHANGED <<row, sweep, received>>
      BY <1>9 DEF SecondSelect
    <3>4. received[c] = 0
      BY <3>2, PendingNotReceived
    <3>5. QED
      BY <3>1, <3>2, <3>3, <3>4
  <2>3. QED
    BY <1>9, <2>1, <2>2 DEF SecondSelect
<1>10. ASSUME NEW p \in Polls, Claim(p) PROVE SingleInv'
  BY <1>10 DEF Claim, LockedByOther
<1>11. ASSUME NEW p \in Polls, CommitPoll(p) PROVE SingleInv'
  BY <1>11 DEF CommitPoll
<1>12. ASSUME NEW p \in Polls, Reply(p) PROVE SingleInv'
  BY <1>12 DEF Reply
<1>13. ASSUME NEW p \in Polls, LoseReply(p) PROVE SingleInv'
  BY <1>13 DEF LoseReply
<1>14. ASSUME NEW p \in Polls, FailPoll(p) PROVE SingleInv'
  BY <1>14 DEF FailPoll
<1>15. ASSUME NEW n \in DOMAIN created, SweepUpdate(n) PROVE SingleInv'
  BY <1>15 DEF SweepUpdate, Expirable, CreatedAmongFirst
<1>16. CASE SweepCommit
  BY <1>16 DEF SweepCommit
<1>17. CASE SweepAbort
  BY <1>17 DEF SweepAbort
<1>18. CASE CloseAllConnections
  BY <1>18 DEF CloseAllConnections
<1>19. CASE Crash
  BY <1>19 DEF Crash, Restart
<1>20. CASE Exit
  BY <1>20 DEF Exit, Restart
<1>21. CASE UNCHANGED vars
  BY <1>21 DEF vars
<1>22. QED
  BY <1>1, <1>2, <1>3, <1>4, <1>5, <1>6, <1>7, <1>8, <1>9, <1>10,
     <1>11, <1>12, <1>13, <1>14, <1>15, <1>16, <1>17, <1>18, <1>19, <1>20, <1>21 DEF Next

(* With one request per agent, SingleInv is inductive. *)
THEOREM SingleInvariant == OnePollPerAgent => (Spec => []SingleInv)
<1> SUFFICES ASSUME OnePollPerAgent PROVE Spec => []SingleInv
  OBVIOUS
<1>1. Init => SingleInv
  BY DEF Init, SingleInv, AtMostOnce, ClaimStates
<1>2. TypeOK /\ DeliveryInv /\ SingleInv /\ [Next]_vars => SingleInv'
  BY NextSingleInv
<1>3. QED
  BY <1>1, <1>2, TypeCorrect, DeliveryInvariant, PTL DEF Spec

(* An agent with one request in the server at a time is handed each        *)
(* command at most once: what the SELECT and the later UPDATE of           *)
(* pop_pending leave open is exactly the overlap of two requests.          *)
THEOREM SingleDelivery == OnePollPerAgent => (Spec => []AtMostOnce)
<1> SUFFICES ASSUME OnePollPerAgent PROVE Spec => []AtMostOnce
  OBVIOUS
<1>1. Spec => []SingleInv
  BY SingleInvariant
<1>2. SingleInv => AtMostOnce
  BY DEF SingleInv
<1>3. QED
  BY <1>1, <1>2, PTL

(* The finally block of hold_poll, when no other request of the agent is   *)
(* in the server.                                                          *)
LEMMA LeaveRegistry ==
  ASSUME OnePollPerAgent, TypeOK, RegistryMatchesPolls,
         NEW p \in Polls, NEW s \in {"idle", "holding"},
         pc' = [pc EXCEPT ![p] = s],
         pollEvents' = [pollEvents EXCEPT ![PollAgent[p]] = NoEvent]
  PROVE  RegistryMatchesPolls'
<1> USE DEF OnePollPerAgent, TypeOK, SignalingTypeOK, RegistryMatchesPolls,
            ActivePollAgents
<1>1. ASSUME NEW q \in Polls, pc'[q] \in {"waiting", "woken", "claim2"}
      PROVE  pollEvents'[PollAgent[q]] = q
  <2>1. q # p /\ pc'[q] = pc[q]
    BY <1>1
  <2>2. PollAgent[q] # PollAgent[p]
    BY <2>1
  <2>3. QED
    BY <1>1, <2>1, <2>2
<1>2. ASSUME NEW a \in Agents, pollEvents'[a] # NoEvent
      PROVE  /\ PollAgent[pollEvents'[a]] = a
             /\ pc'[pollEvents'[a]] \in {"waiting", "woken", "claim2"}
  <2>1. a # PollAgent[p] /\ pollEvents'[a] = pollEvents[a]
    BY <1>2
  <2>2. pollEvents[a] \in Polls /\ pollEvents[a] # p
    BY <1>2, <2>1
  <2>3. QED
    BY <1>2, <2>1, <2>2
<1>3. QED
  BY <1>1, <1>2

(* With one request per agent, registry and requests stay in step. *)
LEMMA NextRegistry ==
  OnePollPerAgent /\ TypeOK /\ RegistryMatchesPolls /\ [Next]_vars
    => RegistryMatchesPolls'
<1> SUFFICES ASSUME OnePollPerAgent, TypeOK, RegistryMatchesPolls, [Next]_vars
             PROVE  RegistryMatchesPolls'
  OBVIOUS
<1> USE DEF OnePollPerAgent, TypeOK, SignalingTypeOK, RegistryMatchesPolls,
            ActivePollAgents, PollStates, pollVars, rowVars, signalingVars,
            RegisterPoll, UnregisterPoll, WakePoll, WakeAllPolls
<1>1. ASSUME NEW c \in Cmds, InsertCommand(c) PROVE RegistryMatchesPolls'
  BY <1>1 DEF InsertCommand
<1>2. ASSUME NEW c \in Cmds, DispatchCommand(c) PROVE RegistryMatchesPolls'
  BY <1>2 DEF DispatchCommand
<1>3. ASSUME NEW c \in Cmds, CommitCommand(c) PROVE RegistryMatchesPolls'
  BY <1>3 DEF CommitCommand
<1>4. ASSUME NEW c \in Cmds, AbortCommand(c) PROVE RegistryMatchesPolls'
  BY <1>4 DEF AbortCommand
<1>5. ASSUME NEW p \in Polls, FirstSelect(p) PROVE RegistryMatchesPolls'
  <2>1. PICK s \in {"missed", "claim1"} :
          /\ pc[p] = "idle"
          /\ pc' = [pc EXCEPT ![p] = s]
          /\ UNCHANGED signalingVars
    BY <1>5, FirstSelectStep
  <2>2. \A q \in Polls : pc'[q] # pc[q] => q = p
    BY <2>1
  <2>3. pc[p] = "idle" /\ pc'[p] \in {"missed", "claim1"}
    BY <2>1
  <2>4. QED
    BY <2>1, <2>2, <2>3
<1>6. ASSUME NEW p \in Polls, Register(p) PROVE RegistryMatchesPolls'
  BY <1>6 DEF Register
<1>7. ASSUME NEW p \in Polls, Wake(p) PROVE RegistryMatchesPolls'
  BY <1>7 DEF Wake
<1>8. ASSUME NEW p \in Polls, Timeout(p) PROVE RegistryMatchesPolls'
  BY <1>8 DEF Timeout
<1>9. ASSUME NEW p \in Polls, SecondSelect(p) PROVE RegistryMatchesPolls'
  <2>1. CASE pc' = [pc EXCEPT ![p] = "idle"] /\ UnregisterPoll(PollAgent[p], p)
    BY <2>1, LeaveRegistry
  <2>2. CASE pc' = [pc EXCEPT ![p] = "claim2"] /\ UNCHANGED signalingVars
    BY <1>9, <2>2 DEF SecondSelect
  <2>3. QED
    BY <1>9, <2>1, <2>2 DEF SecondSelect
<1>10. ASSUME NEW p \in Polls, Claim(p) PROVE RegistryMatchesPolls'
  <2>1. CASE pc[p] = "claim2"
    BY <1>10, <2>1, LeaveRegistry DEF Claim
  <2>2. CASE pc[p] # "claim2"
    BY <1>10, <2>2 DEF Claim
  <2>3. QED
    BY <2>1, <2>2
<1>11. ASSUME NEW p \in Polls, CommitPoll(p) PROVE RegistryMatchesPolls'
  BY <1>11 DEF CommitPoll
<1>12. ASSUME NEW p \in Polls, Reply(p) PROVE RegistryMatchesPolls'
  BY <1>12 DEF Reply
<1>13. ASSUME NEW p \in Polls, LoseReply(p) PROVE RegistryMatchesPolls'
  BY <1>13 DEF LoseReply
<1>14. ASSUME NEW p \in Polls, FailPoll(p) PROVE RegistryMatchesPolls'
  <2>1. CASE pc[p] \in {"waiting", "woken", "claim2"}
    BY <1>14, <2>1, LeaveRegistry DEF FailPoll
  <2>2. CASE pc[p] \notin {"waiting", "woken", "claim2"}
    BY <1>14, <2>2 DEF FailPoll
  <2>3. QED
    BY <2>1, <2>2
<1>15. ASSUME NEW n \in DOMAIN created, SweepUpdate(n) PROVE RegistryMatchesPolls'
  BY <1>15 DEF SweepUpdate, Expirable, CreatedAmongFirst
<1>16. CASE SweepCommit
  BY <1>16 DEF SweepCommit
<1>17. CASE SweepAbort
  BY <1>17 DEF SweepAbort
<1>18. CASE CloseAllConnections
  BY <1>18 DEF CloseAllConnections
<1>19. CASE Crash
  BY <1>19 DEF Crash, Restart
<1>20. CASE Exit
  BY <1>20 DEF Exit, Restart
<1>21. CASE UNCHANGED vars
  BY <1>21 DEF vars
<1>22. QED
  BY <1>1, <1>2, <1>3, <1>4, <1>5, <1>6, <1>7, <1>8, <1>9, <1>10,
     <1>11, <1>12, <1>13, <1>14, <1>15, <1>16, <1>17, <1>18, <1>19, <1>20, <1>21 DEF Next

(* With one request per agent, every held poll can be woken by             *)
(* dispatch_command and is visible to the stale sweep, and a request that  *)
(* ends, however it ends, leaves nothing in the registry.                  *)
THEOREM RegistrySound == OnePollPerAgent => (Spec => []RegistryMatchesPolls)
<1> SUFFICES ASSUME OnePollPerAgent PROVE Spec => []RegistryMatchesPolls
  OBVIOUS
<1>1. Init => RegistryMatchesPolls
  BY DEF Init, SignalingInit, RegistryMatchesPolls, ActivePollAgents
<1>2. TypeOK /\ RegistryMatchesPolls /\ [Next]_vars => RegistryMatchesPolls'
  BY NextRegistry
<1>3. QED
  BY <1>1, <1>2, TypeCorrect, PTL DEF Spec

-----------------------------------------------------------------------------
(* A step that publishes nothing, makes no row PENDING and hands out no    *)
(* command keeps the order.                                                *)
LEMMA OrderFrame ==
  ASSUME OrderInv, UNCHANGED <<created, published>>,
         published \in Seq(Cmds),
         \A c \in Cmds : row[c] \in {"PENDING", "DELIVERED", "EXPIRED"}
                          => row'[c] \in {"PENDING", "DELIVERED", "EXPIRED"},
         \A c \in Cmds : row'[c] = "PENDING" => row[c] = "PENDING",
         \A c \in Cmds : HandedOut(c)' => HandedOut(c)
  PROVE  OrderInv'
BY DEF OrderInv, CreatedBefore

(* A request that lets go of its command or goes on with it hands out no   *)
(* other.                                                                  *)
LEMMA NothingHandedOut ==
  ASSUME TypeOK, NEW p \in Polls, NEW s \in PollStates, NEW d,
         pc' = [pc EXCEPT ![p] = s],
         pick' = [pick EXCEPT ![p] = d],
         s \in ClaimStates => d = pick[p] /\ pc[p] \in ClaimStates,
         UNCHANGED row
  PROVE  \A c \in Cmds : HandedOut(c)' => HandedOut(c)
<1> SUFFICES ASSUME NEW c \in Cmds, HandedOut(c)' PROVE HandedOut(c)
  OBVIOUS
<1>1. CASE row'[c] = "DELIVERED"
  BY <1>1 DEF HandedOut
<1>2. CASE Claimed(c)'
  <2>1. PICK q \in Polls : pick'[q] = c /\ pc'[q] \in ClaimStates
    BY <1>2 DEF Claimed, ClaimStates
  <2>2. pick[q] = c /\ pc[q] \in ClaimStates
    <3>1. CASE q = p
      BY <2>1, <3>1 DEF TypeOK
    <3>2. CASE q # p
      BY <2>1, <3>2 DEF TypeOK
    <3>3. QED
      BY <3>1, <3>2
  <2>3. QED
    BY <2>2 DEF HandedOut, Claimed, ClaimStates
<1>3. QED
  BY <1>1, <1>2 DEF HandedOut

(* The SELECT of pop_pending leaves nothing older PENDING that was         *)
(* committed before what it returns.                                       *)
LEMMA SelectKeepsOrder ==
  ASSUME TypeOK, DeliveryInv, OrderInv, NEW p \in Polls, NEW a,
         NEW d \in OldestPending(a), NEW s \in PollStates,
         pick' = [pick EXCEPT ![p] = d],
         pc' = [pc EXCEPT ![p] = s],
         UNCHANGED <<row, created, published>>
  PROVE  OrderInv'
<1>1. d \in Cmds /\ row[d] = "PENDING" /\ CmdAgent[d] = a
  BY SelectReturnsPending
<1>2. \A c \in Cmds : HandedOut(c)' => HandedOut(c) \/ c = d
  <2> SUFFICES ASSUME NEW c \in Cmds, HandedOut(c)', c # d PROVE HandedOut(c)
    OBVIOUS
  <2>1. CASE row'[c] = "DELIVERED"
    BY <2>1 DEF HandedOut
  <2>2. CASE Claimed(c)'
    <3>1. PICK q \in Polls : pick'[q] = c /\ pc'[q] \in ClaimStates
      BY <2>2 DEF Claimed, ClaimStates
    <3>2. q # p
      BY <3>1 DEF TypeOK
    <3>3. pick[q] = c /\ pc[q] \in ClaimStates
      BY <3>1, <3>2 DEF TypeOK
    <3>4. QED
      BY <3>3 DEF HandedOut, Claimed, ClaimStates
  <2>3. QED
    BY <2>1, <2>2 DEF HandedOut
<1>3. ASSUME NEW c \in Cmds, CmdAgent[c] = CmdAgent[d], CreatedBefore(c, d)
      PROVE  row[c] # "PENDING"
  BY <1>1, <1>3 DEF OldestPending, PendingFor
<1>4. ASSUME NEW i \in DOMAIN published, NEW j \in DOMAIN published, i < j,
             CmdAgent[published[i]] = CmdAgent[published[j]],
             CreatedBefore(published[i], published[j]), HandedOut(published[j])'
      PROVE  row[published[i]] # "PENDING"
  <2>1. published[i] \in Cmds /\ published[j] \in Cmds
    BY DEF TypeOK
  <2>2. CASE published[j] = d
    BY <1>3, <1>4, <2>1, <2>2
  <2>3. CASE published[j] # d
    <3>1. HandedOut(published[j])
      BY <1>2, <1>4, <2>1, <2>3
    <3>2. QED
      BY <1>4, <3>1 DEF OrderInv
  <2>4. QED
    BY <2>2, <2>3
<1>5. QED
  BY <1>4 DEF OrderInv, CreatedBefore

(* Every step keeps the commands of an agent in order. *)
LEMMA NextOrder ==
  ASSUME TypeOK, DeliveryInv, OrderInv, [Next]_vars PROVE OrderInv'
<1>0. published \in Seq(Cmds) /\ created \in Seq(Cmds)
  BY DEF TypeOK
<1> USE DEF pollVars, rowVars
<1>1. ASSUME NEW c \in Cmds, InsertCommand(c) PROVE OrderInv'
  <2>1. /\ row' = [row EXCEPT ![c] = "inserted"] /\ row[c] = "absent"
        /\ created' = Append(created, c) /\ UNCHANGED <<published, pc, pick>>
    BY <1>1 DEF InsertCommand
  <2>2. \A i \in DOMAIN published : published[i] \in Cmds /\ published[i] # c
    BY <1>0, <2>1 DEF OrderInv
  <2>3. ASSUME NEW i \in DOMAIN published, NEW j \in DOMAIN published,
               CreatedBefore(published[i], published[j])'
        PROVE  CreatedBefore(published[i], published[j])
    <3>1. PICK m, n \in DOMAIN created' :
            m < n /\ created'[m] = published[i] /\ created'[n] = published[j]
      BY <2>1, <2>3 DEF CreatedBefore
    <3>2. m # Len(created) + 1 /\ n # Len(created) + 1
      BY <1>0, <2>1, <2>2, <3>1
    <3>3. /\ m \in DOMAIN created /\ n \in DOMAIN created
          /\ created'[m] = created[m] /\ created'[n] = created[n]
      BY <1>0, <2>1, <3>1, <3>2
    <3>4. QED
      BY <3>1, <3>3 DEF CreatedBefore
  <2>4. \A i \in DOMAIN published : /\ row'[published[i]] = row[published[i]]
                                    /\ HandedOut(published[i])' <=> HandedOut(published[i])
    BY <2>1, <2>2 DEF TypeOK, HandedOut, Claimed
  <2>5. QED
    BY <2>1, <2>3, <2>4 DEF OrderInv
<1>2. ASSUME NEW c \in Cmds, DispatchCommand(c) \/ AbortCommand(c) PROVE OrderInv'
  <2>1. /\ \E s \in {"dispatched", "aborted"} : row' = [row EXCEPT ![c] = s]
        /\ row[c] \in {"inserted", "dispatched"}
        /\ UNCHANGED <<created, published, pc, pick>>
    BY <1>2 DEF DispatchCommand, AbortCommand
  <2>2. \A d \in Cmds : HandedOut(d)' => HandedOut(d)
    BY <2>1 DEF HandedOut, Claimed, TypeOK
  <2>3. QED
    BY <1>0, <2>1, <2>2, OrderFrame DEF TypeOK
<1>3. ASSUME NEW c \in Cmds, CommitCommand(c) PROVE OrderInv'
  <2>1. /\ row' = [row EXCEPT ![c] = "PENDING"] /\ row[c] = "dispatched"
        /\ published' = Append(published, c) /\ UNCHANGED <<created, pc, pick>>
    BY <1>3 DEF CommitCommand
  <2>2. \A i \in DOMAIN published : published[i] \in Cmds /\ published[i] # c
    BY <1>0, <2>1 DEF OrderInv
  <2>3. /\ DOMAIN published' = DOMAIN published \union {Len(published) + 1}
        /\ published'[Len(published) + 1] = c
        /\ \A i \in DOMAIN published : published'[i] = published[i] /\ i < Len(published) + 1
    BY <1>0, <2>1
  <2>4. ~HandedOut(c)' /\ row'[c] = "PENDING"
    <3>1. \A p \in Polls : ~(pick[p] = c /\ pc[p] \in ClaimStates)
      BY <2>1 DEF DeliveryInv
    <3>2. row'[c] = "PENDING" /\ pick' = pick /\ pc' = pc
      BY <2>1 DEF TypeOK
    <3>3. QED
      BY <3>1, <3>2 DEF HandedOut, Claimed, ClaimStates
  <2>5. \A i \in DOMAIN published : /\ row'[published[i]] = row[published[i]]
                                    /\ HandedOut(published[i])' <=> HandedOut(published[i])
    BY <2>1, <2>2 DEF TypeOK, HandedOut, Claimed
  <2>6. ASSUME NEW i \in DOMAIN published', NEW j \in DOMAIN published', i < j,
               CmdAgent[published'[i]] = CmdAgent[published'[j]],
               CreatedBefore(published[i], published[j])', HandedOut(published[j])'
        PROVE  row'[published'[i]] # "PENDING"
    <3>1. i \in DOMAIN published /\ j \in DOMAIN published
      BY <1>0, <2>3, <2>4, <2>6
    <3>2. CreatedBefore(published[i], published[j])
      BY <2>1, <2>3, <2>6, <3>1 DEF CreatedBefore
    <3>3. QED
      BY <2>3, <2>5, <2>6, <3>1, <3>2 DEF OrderInv
  <2>7. \A i \in DOMAIN published' : row'[published'[i]] \in {"PENDING", "DELIVERED", "EXPIRED"}
    BY <2>3, <2>4, <2>5 DEF OrderInv
  <2>8. QED
    BY <2>6, <2>7 DEF OrderInv
<1>4. ASSUME NEW p \in Polls, FirstSelect(p) \/ SecondSelect(p) PROVE OrderInv'
  <2>1. UNCHANGED <<row, created, published>>
    BY <1>4 DEF FirstSelect, SecondSelect
  <2>2. ASSUME NEW s \in {"missed", "idle"}, pc' = [pc EXCEPT ![p] = s], UNCHANGED pick
        PROVE  OrderInv'
    <3>1. pick' = [pick EXCEPT ![p] = pick[p]]
      BY <2>2 DEF TypeOK
    <3>2. \A c \in Cmds : HandedOut(c)' => HandedOut(c)
      BY <2>1, <2>2, <3>1, NothingHandedOut DEF PollStates, ClaimStates
    <3>3. QED
      BY <1>0, <2>1, <3>2, OrderFrame
  <2>3. ASSUME NEW s \in {"claim1", "claim2"}, NEW d \in OldestPending(PollAgent[p]),
               pc' = [pc EXCEPT ![p] = s], pick' = [pick EXCEPT ![p] = d]
        PROVE  OrderInv'
    BY <2>1, <2>3, SelectKeepsOrder DEF PollStates
  <2>4. QED
    BY <1>4, <2>2, <2>3 DEF FirstSelect, SecondSelect
<1>5. ASSUME NEW p \in Polls, \/ Register(p) \/ Wake(p) \/ Timeout(p) \/ Claim(p)
                              \/ Reply(p) \/ LoseReply(p) \/ FailPoll(p)
      PROVE  OrderInv'
  <2>1. UNCHANGED <<row, created, published>>
    BY <1>5 DEF Register, Wake, Timeout, Claim, Reply, LoseReply, FailPoll
  <2>2. ASSUME Register(p) \/ Wake(p) \/ Timeout(p) \/ Claim(p)
        PROVE  \A c \in Cmds : HandedOut(c)' => HandedOut(c)
    <3>1. pick' = [pick EXCEPT ![p] = pick[p]]
      BY <2>2 DEF Register, Wake, Timeout, Claim, TypeOK
    <3>2. PICK s \in PollStates : /\ pc' = [pc EXCEPT ![p] = s]
                                  /\ s \in ClaimStates => pc[p] \in ClaimStates
      BY <2>2 DEF Register, Wake, Timeout, Claim, PollStates, ClaimStates
    <3>3. QED
      BY <2>1, <3>1, <3>2, NothingHandedOut
  <2>3. ASSUME Reply(p) \/ LoseReply(p) \/ FailPoll(p)
        PROVE  \A c \in Cmds : HandedOut(c)' => HandedOut(c)
    <3>1. pc' = [pc EXCEPT ![p] = "idle"] /\ pick' = [pick EXCEPT ![p] = NoCmd]
      BY <2>3 DEF Reply, LoseReply, FailPoll
    <3>2. QED
      BY <2>1, <3>1, NothingHandedOut DEF PollStates, ClaimStates
  <2>4. \A c \in Cmds : HandedOut(c)' => HandedOut(c)
    BY <1>5, <2>2, <2>3
  <2>5. QED
    BY <1>0, <2>1, <2>4, OrderFrame
<1>6. ASSUME NEW p \in Polls, CommitPoll(p) PROVE OrderInv'
  <2>1. /\ pc[p] = "holding" /\ row' = [row EXCEPT ![pick[p]] = "DELIVERED"]
        /\ pc' = [pc EXCEPT ![p] = "replying"] /\ UNCHANGED <<created, published, pick>>
    BY <1>6 DEF CommitPoll
  <2>2. \A c \in Cmds : HandedOut(c)' => HandedOut(c)
    BY <2>1 DEF HandedOut, Claimed, TypeOK
  <2>3. QED
    BY <1>0, <2>1, <2>2, OrderFrame DEF TypeOK
<1>7. CASE SweepCommit
  <2>1. \A c \in Cmds : HandedOut(c)' => HandedOut(c)
    BY <1>7 DEF SweepCommit, HandedOut, Claimed, TypeOK
  <2>2. QED
    BY <1>0, <1>7, <2>1, OrderFrame DEF SweepCommit, DeliveryInv
<1>8. CASE Restart
  <2>1. \A c \in Cmds : HandedOut(c)' => HandedOut(c)
    BY <1>8 DEF Restart, HandedOut, Claimed, TypeOK
  <2>2. QED
    BY <1>0, <1>8, <2>1, OrderFrame DEF Restart
<1>9. CASE UNCHANGED <<row, created, published, pc, pick>>
  BY <1>0, <1>9, OrderFrame DEF HandedOut, Claimed
<1>10. QED
  BY <1>1, <1>2, <1>3, <1>4, <1>5, <1>6, <1>7, <1>8, <1>9
     DEF Next, vars, SweepUpdate, SweepAbort, CloseAllConnections, Crash, Exit

(* What a request has selected is the oldest its agent has, from the       *)
(* SELECT to the commit, whatever else commits meanwhile.                  *)
THEOREM OrderInvariant == Spec => []OrderInv
<1>1. Init => OrderInv
  BY DEF Init, OrderInv
<1>2. QED
  BY <1>1, NextOrder, TypeCorrect, DeliveryInvariant, PTL DEF Spec

(* Commands of one agent leave in order, through claims, failures, crashes *)
(* and overlapping requests.                                               *)
THEOREM DeliveredInOrder == Spec => []InOrder
<1>1. OrderInv => InOrder
  BY DEF OrderInv, InOrder, HandedOut
<1>2. QED
  BY <1>1, OrderInvariant, PTL

-----------------------------------------------------------------------------
(* The refinement of CommandQueue *)

(* The response with the command is on its way. *)
Replying(c) == \E p \in Polls : pick[p] = c /\ pc[p] = "replying"

(* AbstractState, case by case. *)
StateOf(c) ==
  /\ row[c] \notin {"PENDING", "EXPIRED", "DELIVERED"} => AbstractState(c) = "absent"
  /\ row[c] = "PENDING" => AbstractState(c) = "queued"
  /\ row[c] = "EXPIRED" /\ Claimed(c) => AbstractState(c) = "queued"
  /\ row[c] = "EXPIRED" /\ ~Claimed(c) => AbstractState(c) = "expired"
  /\ row[c] = "DELIVERED" /\ received[c] > 0 => AbstractState(c) = "received"
  /\ row[c] = "DELIVERED" /\ ~(received[c] > 0) /\ Replying(c) => AbstractState(c) = "taken"
  /\ row[c] = "DELIVERED" /\ ~(received[c] > 0) /\ ~Replying(c) => AbstractState(c) = "lost"

(* The cases are those of the definition, before and after a step. *)
LEMMA StateCases == ASSUME NEW c PROVE StateOf(c) /\ StateOf(c)'
<1>1. StateOf(c)
  BY DEF StateOf, AbstractState, Replying
<1>2. StateOf(c)'
  BY DEF StateOf, AbstractState, Replying
<1>3. QED
  BY <1>1, <1>2

(* A command whose row, receipts and requests a step leaves alone does not *)
(* move.                                                                   *)
LEMMA StateStays ==
  ASSUME NEW c, row'[c] = row[c], received'[c] = received[c],
         Claimed(c)' <=> Claimed(c), Replying(c)' <=> Replying(c)
  PROVE  AbstractState(c)' = AbstractState(c)
BY DEF AbstractState, Replying

(* A step of one request leaves the commands of the others alone. *)
LEMMA OthersInHand ==
  ASSUME TypeOK, NEW p \in Polls, NEW s, NEW d, NEW c \in Cmds,
         pc' = [pc EXCEPT ![p] = s], pick' = [pick EXCEPT ![p] = d],
         c # pick[p], c # d
  PROVE  (Claimed(c)' <=> Claimed(c)) /\ (Replying(c)' <=> Replying(c))
<1>1. \A q \in Polls : q # p => pc'[q] = pc[q] /\ pick'[q] = pick[q]
  BY DEF TypeOK
<1>2. pick[p] # c /\ pick'[p] # c
  BY DEF TypeOK
<1>3. QED
  BY <1>1, <1>2 DEF Claimed, Replying

(* With one request per agent, a command is in the hands of one request,   *)
(* which says where it is.                                                 *)
LEMMA OneHolder ==
  ASSUME OnePollPerAgent, SingleInv, NEW p \in Polls, pick[p] \in Cmds
  PROVE  /\ Claimed(pick[p]) <=> pc[p] \in ClaimStates
         /\ Replying(pick[p]) <=> pc[p] = "replying"
<1>1. \A q \in Polls : pick[q] = pick[p] => q = p
  BY DEF OnePollPerAgent, SingleInv
<1>2. QED
  BY <1>1 DEF Claimed, Replying, ClaimStates

(* No command moves. *)
LEMMA QueueStays ==
  ASSUME \A c \in Cmds : AbstractState(c)' = AbstractState(c)
  PROVE  UNCHANGED QueueState
BY DEF QueueState

(* One command moves. *)
LEMMA QueueMoves ==
  ASSUME NEW c \in Cmds, NEW from, NEW to,
         AbstractState(c) = from, AbstractState(c)' = to,
         \A d \in Cmds \ {c} : AbstractState(d)' = AbstractState(d)
  PROVE  Queue!Move(c, from, to)
BY DEF QueueState, Queue!Move

(* Replies are lost and commands expire, several at once after a crash. *)
LEMMA QueueLoses ==
  ASSUME NEW S \in SUBSET Cmds, NEW T \in SUBSET Cmds,
         \A c \in S : AbstractState(c) = "taken" /\ AbstractState(c)' = "lost",
         \A c \in T : AbstractState(c) = "queued" /\ AbstractState(c)' = "expired",
         \A c \in Cmds \ (S \union T) : AbstractState(c)' = AbstractState(c)
  PROVE  Queue!QueueNext
<1>1. Queue!LoseAndExpire(S, T)
  BY DEF QueueState, Queue!LoseAndExpire
<1>2. QED
  BY <1>1 DEF Queue!QueueNext

(* A SELECT takes nothing out of the queue. *)
LEMMA SelectStays ==
  ASSUME TypeOK, DeliveryInv, NEW p \in Polls, FirstSelect(p) \/ SecondSelect(p)
  PROVE  UNCHANGED QueueState
<1>1. UNCHANGED <<row, received>> /\ pc[p] \in {"idle", "woken"}
  BY DEF FirstSelect, SecondSelect, rowVars
<1>2. pick[p] \notin Cmds
  BY <1>1 DEF DeliveryInv, ClaimStates
<1>3. ASSUME NEW s \in {"missed", "idle"}, pc' = [pc EXCEPT ![p] = s], UNCHANGED pick
      PROVE  UNCHANGED QueueState
  <2>1. pick' = [pick EXCEPT ![p] = pick[p]]
    BY <1>3 DEF TypeOK
  <2>2. ASSUME NEW c \in Cmds PROVE AbstractState(c)' = AbstractState(c)
    BY <1>1, <1>2, <1>3, <2>1, OthersInHand, StateStays DEF TypeOK
  <2>3. QED
    BY <2>2, QueueStays
<1>4. ASSUME NEW s \in {"claim1", "claim2"}, NEW d \in OldestPending(PollAgent[p]),
             pc' = [pc EXCEPT ![p] = s], pick' = [pick EXCEPT ![p] = d]
      PROVE  UNCHANGED QueueState
  <2>1. d \in Cmds /\ row[d] = "PENDING" /\ row'[d] = "PENDING"
    BY <1>1, SelectReturnsPending
  <2>2. ASSUME NEW c \in Cmds PROVE AbstractState(c)' = AbstractState(c)
    <3>1. CASE c = d
      BY <2>1, <3>1, StateCases DEF StateOf
    <3>2. CASE c # d
      BY <1>1, <1>2, <1>4, <3>2, OthersInHand, StateStays
    <3>3. QED
      BY <3>1, <3>2
  <2>3. QED
    BY <2>2, QueueStays
<1>5. QED
  BY <1>3, <1>4 DEF FirstSelect, SecondSelect

(* What a request does between its statements takes nothing out of the     *)
(* queue either.                                                           *)
LEMMA PollStays ==
  ASSUME TypeOK, NEW p \in Polls,
         Register(p) \/ Wake(p) \/ Timeout(p) \/ Claim(p)
  PROVE  UNCHANGED QueueState
<1>1. UNCHANGED <<row, received, pick>>
  BY DEF Register, Wake, Timeout, Claim, rowVars
<1>2. PICK s \in PollStates \ {"replying"} :
        /\ pc' = [pc EXCEPT ![p] = s] /\ pc[p] # "replying"
        /\ s \in ClaimStates <=> pc[p] \in ClaimStates
  BY DEF Register, Wake, Timeout, Claim, PollStates, ClaimStates
<1>3. \A q \in Polls : /\ pc'[q] \in ClaimStates <=> pc[q] \in ClaimStates
                       /\ pc'[q] = "replying" <=> pc[q] = "replying"
  BY <1>2 DEF TypeOK
<1>4. ASSUME NEW c \in Cmds PROVE AbstractState(c)' = AbstractState(c)
  <2>1. Claimed(c)' <=> Claimed(c)
    BY <1>1, <1>3 DEF Claimed, ClaimStates
  <2>2. Replying(c)' <=> Replying(c)
    BY <1>1, <1>3 DEF Replying
  <2>3. QED
    BY <1>1, <2>1, <2>2, StateStays
<1>5. QED
  BY <1>4, QueueStays

(* The end of a request, the one place where its command can move. *)
LEMMA ReleaseMoves ==
  ASSUME TypeOK, OnePollPerAgent, DeliveryInv, SingleInv, NEW p \in Polls,
         pc' = [pc EXCEPT ![p] = "idle"], pick' = [pick EXCEPT ![p] = NoCmd],
         UNCHANGED row,
         \A c \in Cmds \ {pick[p]} : received'[c] = received[c]
  PROVE  /\ \A c \in Cmds \ {pick[p]} : AbstractState(c)' = AbstractState(c)
         /\ pick[p] \in Cmds => \E c \in Cmds :
              /\ c = pick[p] /\ row'[c] = row[c]
              /\ ~Claimed(c)' /\ ~Replying(c)'
              /\ Claimed(c) <=> pc[p] \in ClaimStates
              /\ Replying(c) <=> pc[p] = "replying"
<1>1. ASSUME NEW c \in Cmds \ {pick[p]} PROVE AbstractState(c)' = AbstractState(c)
  BY <1>1, OthersInHand, StateStays
<1>2. ASSUME NEW c \in Cmds, c = pick[p]
      PROVE  /\ ~Claimed(c)' /\ ~Replying(c)'
             /\ Claimed(c) <=> pc[p] \in ClaimStates
             /\ Replying(c) <=> pc[p] = "replying"
  <2>1. \A q \in Polls : pick'[q] # c
    BY <1>2 DEF TypeOK, OnePollPerAgent, SingleInv
  <2>2. QED
    BY <1>2, <2>1, OneHolder DEF Claimed, Replying
<1>3. QED
  BY <1>1, <1>2

(* Every step of the service is a step of the queue or none. *)
LEMMA NextQueue ==
  ASSUME OnePollPerAgent, TypeOK, DeliveryInv, SingleInv, [Next]_vars
  PROVE  Queue!QueueNext \/ UNCHANGED QueueState
<1> USE DEF pollVars, rowVars
<1>1. ASSUME NEW c \in Cmds, InsertCommand(c) \/ DispatchCommand(c) \/ AbortCommand(c)
      PROVE  UNCHANGED QueueState
  <2>1. /\ row[c] \in {"absent", "inserted", "dispatched"}
        /\ \E s \in {"inserted", "dispatched", "aborted"} : row' = [row EXCEPT ![c] = s]
        /\ UNCHANGED <<pc, pick, received>>
    BY <1>1 DEF InsertCommand, DispatchCommand, AbortCommand
  <2>2. ASSUME NEW d \in Cmds PROVE AbstractState(d)' = AbstractState(d)
    <3>1. CASE d = c
      <4>1. row[c] \notin {"PENDING", "EXPIRED", "DELIVERED"}
        BY <2>1
      <4>2. row'[c] \notin {"PENDING", "EXPIRED", "DELIVERED"}
        BY <2>1 DEF TypeOK
      <4>3. QED
        BY <3>1, <4>1, <4>2, StateCases DEF StateOf
    <3>2. CASE d # c
      <4>1. row'[d] = row[d]
        BY <2>1, <3>2 DEF TypeOK
      <4>2. QED
        BY <2>1, <4>1, StateStays DEF Claimed, Replying
    <3>3. QED
      BY <3>1, <3>2
  <2>3. QED
    BY <2>2, QueueStays
<1>2. ASSUME NEW c \in Cmds, CommitCommand(c) PROVE Queue!Accept(c)
  <2>1. /\ row[c] = "dispatched" /\ row' = [row EXCEPT ![c] = "PENDING"]
        /\ UNCHANGED <<pc, pick, received>>
    BY <1>2 DEF CommitCommand
  <2>2. row'[c] = "PENDING" /\ \A d \in Cmds \ {c} : row'[d] = row[d]
    BY <2>1 DEF TypeOK
  <2>3. ASSUME NEW d \in Cmds \ {c} PROVE AbstractState(d)' = AbstractState(d)
    BY <2>1, <2>2, StateStays DEF Claimed, Replying
  <2>4. AbstractState(c) = "absent" /\ AbstractState(c)' = "queued"
    BY <2>1, <2>2, StateCases DEF StateOf
  <2>5. QED
    BY <2>3, <2>4, QueueMoves DEF Queue!Accept
<1>3. ASSUME NEW p \in Polls, CommitPoll(p) PROVE \E c \in Cmds : Queue!Take(c)
  <2>1. PICK c \in Cmds : c = pick[p]
    BY <1>3 DEF CommitPoll, DeliveryInv, ClaimStates
  <2>2. /\ pc[p] = "holding" /\ row' = [row EXCEPT ![c] = "DELIVERED"]
        /\ pc' = [pc EXCEPT ![p] = "replying"] /\ UNCHANGED <<pick, received>>
    BY <1>3, <2>1 DEF CommitPoll
  <2>3. /\ row[c] \in {"PENDING", "EXPIRED"} /\ received[c] = 0
        /\ row'[c] = "DELIVERED" /\ \A d \in Cmds \ {c} : row'[d] = row[d]
    BY <2>1, <2>2 DEF TypeOK, SingleInv, ClaimStates
  <2>4. ASSUME NEW d \in Cmds \ {c} PROVE AbstractState(d)' = AbstractState(d)
    <3>1. pick' = [pick EXCEPT ![p] = pick[p]]
      BY <2>2 DEF TypeOK
    <3>2. QED
      BY <2>1, <2>2, <2>3, <3>1, OthersInHand, StateStays
  <2>5. AbstractState(c) = "queued"
    <3>1. Claimed(c)
      BY <2>1, <2>2 DEF Claimed
    <3>2. QED
      BY <2>3, <3>1, StateCases DEF StateOf
  <2>6. AbstractState(c)' = "taken"
    <3>1. Replying(c)'
      BY <2>1, <2>2 DEF Replying, TypeOK
    <3>2. ~(received'[c] > 0)
      BY <2>2, <2>3
    <3>3. QED
      BY <2>3, <3>1, <3>2, StateCases DEF StateOf
  <2>7. QED
    BY <2>4, <2>5, <2>6, QueueMoves DEF Queue!Take
<1>4. ASSUME NEW p \in Polls, Reply(p) PROVE \E c \in Cmds : Queue!Receive(c)
  <2>1. /\ pc[p] = "replying" /\ pick[p] \in Cmds /\ row[pick[p]] = "DELIVERED"
        /\ received[pick[p]] = 0
    BY <1>4 DEF Reply, DeliveryInv, SingleInv
  <2>2. /\ pc' = [pc EXCEPT ![p] = "idle"] /\ pick' = [pick EXCEPT ![p] = NoCmd]
        /\ UNCHANGED row
        /\ received' = [received EXCEPT ![pick[p]] = received[pick[p]] + 1]
    BY <1>4 DEF Reply
  <2>3. received'[pick[p]] = 1 /\ \A d \in Cmds \ {pick[p]} : received'[d] = received[d]
    BY <2>1, <2>2 DEF TypeOK
  <2>4. \A d \in Cmds \ {pick[p]} : AbstractState(d)' = AbstractState(d)
    BY <2>2, <2>3, ReleaseMoves
  <2>5. PICK c \in Cmds : c = pick[p] /\ row'[c] = row[c] /\ Replying(c)
    BY <2>1, <2>2, <2>3, ReleaseMoves
  <2>6. AbstractState(c) = "taken"
    <3>1. row[c] = "DELIVERED" /\ ~(received[c] > 0)
      BY <2>1, <2>5
    <3>2. QED
      BY <2>5, <3>1, StateCases DEF StateOf
  <2>7. AbstractState(c)' = "received"
    <3>1. row'[c] = "DELIVERED" /\ received'[c] > 0
      BY <2>1, <2>3, <2>5
    <3>2. QED
      BY <3>1, StateCases DEF StateOf
  <2>8. QED
    BY <2>4, <2>5, <2>6, <2>7, QueueMoves DEF Queue!Receive
<1>5. ASSUME NEW p \in Polls, LoseReply(p) PROVE Queue!QueueNext
  <2>1. /\ pc[p] = "replying" /\ pick[p] \in Cmds /\ row[pick[p]] = "DELIVERED"
        /\ received[pick[p]] = 0
    BY <1>5 DEF LoseReply, DeliveryInv, SingleInv
  <2>2. /\ pc' = [pc EXCEPT ![p] = "idle"] /\ pick' = [pick EXCEPT ![p] = NoCmd]
        /\ UNCHANGED <<row, received>>
    BY <1>5 DEF LoseReply
  <2>3. \A d \in Cmds \ {pick[p]} : AbstractState(d)' = AbstractState(d)
    BY <2>2, ReleaseMoves
  <2>4. PICK c \in Cmds : /\ c = pick[p] /\ row'[c] = row[c]
                          /\ ~Replying(c)' /\ Replying(c)
    BY <2>1, <2>2, ReleaseMoves
  <2>5. row[c] = "DELIVERED" /\ ~(received[c] > 0) /\ ~(received'[c] > 0)
    BY <2>1, <2>2, <2>4
  <2>6. AbstractState(c) = "taken" /\ AbstractState(c)' = "lost"
    BY <2>4, <2>5, StateCases DEF StateOf
  <2>7. QED
    <3> DEFINE S == {c}
               T == {}
    <3>1. S \in SUBSET Cmds /\ T \in SUBSET Cmds
      OBVIOUS
    <3>2. \A d \in S : AbstractState(d) = "taken" /\ AbstractState(d)' = "lost"
      BY <2>6
    <3>3. \A d \in Cmds \ (S \union T) : AbstractState(d)' = AbstractState(d)
      BY <2>3, <2>4
    <3>4. QED
      BY <3>1, <3>2, <3>3, QueueLoses
<1>6. ASSUME NEW p \in Polls, FailPoll(p) PROVE Queue!QueueNext \/ UNCHANGED QueueState
  <2>1. /\ pc[p] # "replying"
        /\ pc' = [pc EXCEPT ![p] = "idle"] /\ pick' = [pick EXCEPT ![p] = NoCmd]
        /\ UNCHANGED <<row, received>>
    BY <1>6 DEF FailPoll
  <2>2. \A d \in Cmds \ {pick[p]} : AbstractState(d)' = AbstractState(d)
    BY <2>1, ReleaseMoves
  <2>3. CASE pick[p] \in Cmds
    <3>1. PICK c \in Cmds : /\ c = pick[p] /\ row'[c] = row[c] /\ ~Claimed(c)'
                            /\ Claimed(c) <=> pc[p] \in ClaimStates
      BY <2>1, <2>3, ReleaseMoves
    <3>2. Claimed(c) /\ row[c] \in {"PENDING", "EXPIRED"}
      BY <2>1, <2>3, <3>1 DEF DeliveryInv, SingleInv
    <3>3. CASE row[c] = "PENDING"
      <4>1. AbstractState(c)' = AbstractState(c)
        BY <3>1, <3>3, StateCases DEF StateOf
      <4>2. \A d \in Cmds : AbstractState(d)' = AbstractState(d)
        BY <2>2, <3>1, <4>1
      <4>3. QED
        BY <4>2, QueueStays
    <3>4. CASE row[c] = "EXPIRED"
      <4> DEFINE S == {}
                 T == {c}
      <4>1. AbstractState(c) = "queued" /\ AbstractState(c)' = "expired"
        BY <3>1, <3>2, <3>4, StateCases DEF StateOf
      <4>2. S \in SUBSET Cmds /\ T \in SUBSET Cmds
        OBVIOUS
      <4>3. \A d \in T : AbstractState(d) = "queued" /\ AbstractState(d)' = "expired"
        BY <4>1
      <4>4. \A d \in Cmds \ (S \union T) : AbstractState(d)' = AbstractState(d)
        BY <2>2, <3>1
      <4>5. QED
        BY <4>2, <4>3, <4>4, QueueLoses
    <3>5. QED
      BY <3>2, <3>3, <3>4
  <2>4. CASE pick[p] \notin Cmds
    BY <2>2, <2>4, QueueStays
  <2>5. QED
    BY <2>3, <2>4
<1>7. CASE SweepCommit
  <2> DEFINE S == {}
             T == {c \in sweep : ~Claimed(c)}
  <2>1. UNCHANGED <<pc, pick, received>>
    BY <1>7 DEF SweepCommit
  <2>2. \A c \in Cmds : /\ Claimed(c)' <=> Claimed(c)
                        /\ Replying(c)' <=> Replying(c)
    BY <2>1 DEF Claimed, Replying
  <2>3. /\ \A c \in sweep : c \in Cmds /\ row[c] = "PENDING" /\ row'[c] = "EXPIRED"
        /\ \A c \in Cmds \ sweep : row'[c] = row[c]
    BY <1>7 DEF SweepCommit, TypeOK, DeliveryInv
  <2>4. S \in SUBSET Cmds /\ T \in SUBSET Cmds
    BY <2>3
  <2>5. ASSUME NEW c \in T
        PROVE  AbstractState(c) = "queued" /\ AbstractState(c)' = "expired"
    BY <2>2, <2>3, StateCases DEF StateOf
  <2>6. ASSUME NEW c \in Cmds, c \notin T PROVE AbstractState(c)' = AbstractState(c)
    <3>1. CASE c \in sweep
      BY <2>2, <2>3, <2>6, <3>1, StateCases DEF StateOf
    <3>2. CASE c \notin sweep
      BY <2>1, <2>2, <2>3, <3>2, StateStays
    <3>3. QED
      BY <3>1, <3>2
  <2>7. QED
    BY <2>4, <2>5, <2>6, QueueLoses
<1>8. CASE Restart
  <2> DEFINE S == {c \in Cmds : row[c] = "DELIVERED" /\ ~(received[c] > 0) /\ Replying(c)}
             T == {c \in Cmds : row[c] = "EXPIRED" /\ Claimed(c)}
  <2>1. /\ received' = received
        /\ \A c \in Cmds : ~Claimed(c)' /\ ~Replying(c)'
    BY <1>8 DEF Restart, Claimed, Replying
  <2>2. \A c \in Cmds : row'[c] = IF row[c] \in {"inserted", "dispatched"}
                                    THEN "aborted" ELSE row[c]
    BY <1>8 DEF Restart
  <2>3. S \in SUBSET Cmds /\ T \in SUBSET Cmds
    OBVIOUS
  <2>4. ASSUME NEW c \in S
        PROVE  AbstractState(c) = "taken" /\ AbstractState(c)' = "lost"
    <3>1. row'[c] = "DELIVERED"
      BY <2>2
    <3>2. QED
      BY <2>1, <3>1, StateCases DEF StateOf
  <2>5. ASSUME NEW c \in T
        PROVE  AbstractState(c) = "queued" /\ AbstractState(c)' = "expired"
    <3>1. row'[c] = "EXPIRED"
      BY <2>2
    <3>2. QED
      BY <2>1, <3>1, StateCases DEF StateOf
  <2>6. ASSUME NEW c \in Cmds, c \notin S, c \notin T
        PROVE  AbstractState(c)' = AbstractState(c)
    <3>1. CASE row[c] \notin {"PENDING", "EXPIRED", "DELIVERED"}
      <4>1. row'[c] \notin {"PENDING", "EXPIRED", "DELIVERED"}
        BY <2>2, <3>1
      <4>2. QED
        BY <3>1, <4>1, StateCases DEF StateOf
    <3>2. CASE row[c] \in {"PENDING", "EXPIRED", "DELIVERED"}
      <4>1. row'[c] = row[c] /\ received'[c] = received[c]
        BY <2>1, <2>2, <3>2
      <4>2. QED
        BY <2>1, <2>6, <3>2, <4>1, StateCases DEF StateOf
    <3>3. QED
      BY <3>1, <3>2
  <2>7. QED
    BY <2>3, <2>4, <2>5, <2>6, QueueLoses
<1>9. CASE UNCHANGED <<row, received, pc, pick>>
  BY <1>9 DEF QueueState, AbstractState, Claimed
<1>10. QED
  BY <1>1, <1>2, <1>3, <1>4, <1>5, <1>6, <1>7, <1>8, <1>9, SelectStays, PollStays
     DEF Next, vars, SweepUpdate, SweepAbort, CloseAllConnections, Crash, Exit,
         Queue!QueueNext

(* With one request per agent, delivery keeps its promise: a command is    *)
(* handed out once or expires, and is received once or lost with its       *)
(* reply.                                                                  *)
THEOREM DeliveryRefinesQueue == OnePollPerAgent => (Spec => ImplementsQueue)
<1> SUFFICES ASSUME OnePollPerAgent PROVE Spec => ImplementsQueue
  OBVIOUS
<1>1. Init => Queue!QueueInit
  BY DEF Init, Queue!QueueInit, QueueState, AbstractState
<1>2. TypeOK /\ DeliveryInv /\ SingleInv /\ [Next]_vars => [Queue!QueueNext]_QueueState
  BY NextQueue
<1>3. Spec => []SingleInv
  BY SingleInvariant
<1>4. QED
  BY <1>1, <1>2, <1>3, TypeCorrect, DeliveryInvariant, PTL
     DEF Spec, ImplementsQueue, Queue!QueueSpec
=============================================================================
